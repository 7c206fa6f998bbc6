CONSTANTS
  MinutesInHour = 2
  HoursInDay = 2
  MonthDays <- TwoMonths
  FirstWeekday = 3
  LimitDays = 36
  Bases <- Times
  MinuteFields <- SomeMinutes
  HourFields <- SomeHours
  DayFields <- SomeDays
  MonthFields <- FirstMonth
  WeekdayFields <- SomeWeekdays

SPECIFICATION FairSpec
PROPERTY EverySearchEnds
CHECK_DEADLOCK FALSE
