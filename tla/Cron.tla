--------------------------------- MODULE Cron ----------------------------------
(***************************************************************************)
(* The next time of a five-field cron expression (acp_relay.py,            *)
(* _parse_cron_field and _next_cron_datetime): from the minute after a     *)
(* base, the candidate jumps over months, days, hours and minutes that do  *)
(* not match until it matches or is past the limit.  One action per        *)
(* iteration of the loop, over a calendar of any size.                     *)
(*                                                                         *)
(* A time is a number of minutes.  Day 0 is the first of month 1.          *)
(***************************************************************************)
EXTENDS Integers, Sequences, FiniteSets, SequencesExt, FiniteSetsExt

CONSTANTS
  MinutesInHour, HoursInDay,
  MonthDays,      \* length of each month of the year
  FirstWeekday,   \* weekday() of day 0; Monday is 0
  LimitDays,      \* 4 * 366
  Bases,          \* times a search starts from
  MinuteFields, HourFields, DayFields, MonthFields, WeekdayFields

VARIABLES
  expr,           \* the five fields
  base,
  candidate,
  cron,           \* "loop", "found", "none": None was returned
  odd             \* flips with each iteration, also one that changes nothing

vars == <<expr, base, candidate, cron, odd>>

(* Part of a field: "*", "3", "2-5", "*/2", "2-5/2" or "2/2", as a start,   *)
(* an end and a step, of which "*" and a missing end are the bounds.        *)
Star == [from |-> -1, to |-> -1, step |-> 1]
One(v) == [from |-> v, to |-> v, step |-> 1]
Part(a, b, n) == [from |-> a, to |-> b, step |-> n]

DayLength == HoursInDay * MinutesInHour
YearLength == FoldSeq(LAMBDA d, sum : d + sum, 0, MonthDays)

(* Mutant: the last value of a range is left out.                           *)
Values_ExclusiveEnd(field, lo, hi) ==
  {v \in lo..hi : \E p \in field :
     LET a == IF p.from = -1 THEN lo ELSE p.from
         b == IF p.to = -1 THEN hi + 1 ELSE p.to
     IN v >= a /\ v < b /\ (v - a) % p.step = 0}

(* The values of a field, a set of parts, as far as they are in range.      *)
Values(field, lo, hi) ==
  {v \in lo..hi : \E p \in field :
     LET a == IF p.from = -1 THEN lo ELSE p.from
         b == IF p.to = -1 THEN hi ELSE p.to
     IN v >= a /\ v <= b /\ (v - a) % p.step = 0}

Minute(t) == t % MinutesInHour
Hour(t) == (t \div MinutesInHour) % HoursInDay
DayNo(t) == t \div DayLength
Weekday(t) == (DayNo(t) + FirstWeekday) % 7         \* Python: Monday is 0
DayOfYear(t) == DayNo(t) % YearLength
Before(m) == FoldSeq(LAMBDA d, sum : d + sum, 0, SubSeq(MonthDays, 1, m - 1))
Month(t) == CHOOSE m \in DOMAIN MonthDays :
              Before(m) <= DayOfYear(t) /\ DayOfYear(t) < Before(m) + MonthDays[m]
Day(t) == DayOfYear(t) - Before(Month(t)) + 1

Minutes == Values(expr.minute, 0, MinutesInHour - 1)
Hours == Values(expr.hour, 0, HoursInDay - 1)
Days == Values(expr.day, 1, Max({MonthDays[m] : m \in DOMAIN MonthDays}))
Months == Values(expr.month, 1, Len(MonthDays))
Weekdays == Values(expr.weekday, 0, 6)              \* cron: Sunday is 0
DayIsStar == expr.day = {Star}
WeekdayIsStar == expr.weekday = {Star}

Init ==
  /\ expr \in [minute : MinuteFields, hour : HourFields, day : DayFields,
               month : MonthFields, weekday : WeekdayFields]
  /\ base \in Bases
  /\ candidate = base + 1
  /\ cron = "loop" /\ odd = FALSE

Goto(t) == candidate' = t /\ odd' = ~odd /\ UNCHANGED <<expr, base, cron>>
StartOfDay(t) == DayNo(t) * DayLength
NextDay(t) == StartOfDay(t) + DayLength
Searching == cron = "loop" /\ candidate < base + LimitDays * DayLength

(* A month that does not match: the second day of this month is tried.      *)
MonthFits == Month(candidate) \in Months
SkipMonth ==
  /\ Searching /\ ~MonthFits
  /\ Goto(StartOfDay(candidate) - (Day(candidate) - 1) * DayLength + DayLength)

(* Mutant: a match of either field is enough, also beside a "*".            *)
DayFits_Either ==
  Day(candidate) \in Days \/ (Weekday(candidate) + 1) % 7 \in Weekdays

(* The test that lets a day through without a closer look compares Python's *)
(* weekday with cron's, of which only Sunday is converted; the closer look  *)
(* converts all.                                                            *)
DayFits ==
  LET dayOk == Day(candidate) \in Days
      weekdayOk == (Weekday(candidate) + 1) % 7 \in Weekdays
      quick == dayOk /\ Weekday(candidate) \in {IF d = 0 THEN 6 ELSE d : d \in Weekdays}
  IN \/ quick
     \/ /\ DayIsStar => weekdayOk
        /\ WeekdayIsStar => dayOk
        /\ DayIsStar \/ WeekdayIsStar \/ dayOk \/ weekdayOk

(* Mutant: the jump goes to the start of the same day.                      *)
SkipDay_SameDay ==
  /\ Searching /\ MonthFits /\ ~DayFits
  /\ Goto(StartOfDay(candidate))

SkipDay ==
  /\ Searching /\ MonthFits /\ ~DayFits
  /\ Goto(NextDay(candidate))

(* The next hour that matches, or the next day.                             *)
SkipHour ==
  /\ Searching /\ MonthFits /\ DayFits /\ Hour(candidate) \notin Hours
  /\ LET later == {h \in Hours : h > Hour(candidate)}
     IN Goto(IF later = {} THEN NextDay(candidate)
             ELSE StartOfDay(candidate) + Min(later) * MinutesInHour)

(* The next minute that matches, or the next hour.                          *)
SkipMinute ==
  /\ Searching /\ MonthFits /\ DayFits /\ Hour(candidate) \in Hours
  /\ Minute(candidate) \notin Minutes
  /\ LET later == {m \in Minutes : m > Minute(candidate)}
         hour == candidate - Minute(candidate)
     IN Goto(IF later = {} THEN hour + MinutesInHour ELSE hour + Min(later))

Found ==
  /\ Searching /\ MonthFits /\ DayFits /\ Hour(candidate) \in Hours /\ Minute(candidate) \in Minutes
  /\ cron' = "found"
  /\ UNCHANGED <<expr, base, candidate, odd>>

GiveUp ==
  /\ cron = "loop" /\ ~Searching
  /\ cron' = "none"
  /\ UNCHANGED <<expr, base, candidate, odd>>

Step == SkipMonth \/ SkipDay \/ SkipHour \/ SkipMinute \/ Found \/ GiveUp
Next == Step

Spec == Init /\ [][Next]_vars
FairSpec == Spec /\ WF_vars(Step)

(* ------------------------------ properties ------------------------------ *)

(* The times the expression means, from its parts: of two restricted day    *)
(* fields either may match.                                                 *)
Meant(t) ==
  LET in(v, field, lo, hi) == \E p \in field : v \in
        {IF p.from = -1 THEN lo + p.step * k ELSE p.from + p.step * k : k \in 0..hi - lo}
        \cap (lo .. IF p.to = -1 THEN hi ELSE Min({hi, p.to}))
      days == Max({MonthDays[m] : m \in DOMAIN MonthDays})
      dayIn == in(Day(t), expr.day, 1, days)
      weekdayIn == in((Weekday(t) + 1) % 7, expr.weekday, 0, 6)
  IN /\ in(Minute(t), expr.minute, 0, MinutesInHour - 1)
     /\ in(Hour(t), expr.hour, 0, HoursInDay - 1)
     /\ in(Month(t), expr.month, 1, Len(MonthDays))
     /\ IF DayIsStar THEN weekdayIn ELSE IF WeekdayIsStar THEN dayIn ELSE dayIn \/ weekdayIn

(* No jump passes over a time the expression means, so None is returned     *)
(* only when there is none before the limit (2152-2189).                    *)
NothingSkipped ==
  \A t \in base + 1 .. candidate - 1 : ~Meant(t)

(* The time found is one the expression means, if it has no weekday beside  *)
(* a "*" for the day.                                                       *)
FoundIsMeant ==
  cron = "found" /\ ~(DayIsStar /\ ~WeekdayIsStar) => Meant(candidate)

(* A search over all months ends, with a time or with None (2154-2189).     *)
SearchEnds == <>(cron # "loop" \/ expr.month # {Star})

(* acp_relay.py:2154: "Iterate up to 4 years to find a match": every search *)
(* ends, also one for some of the months.                                   *)
EverySearchEnds == <>(cron # "loop")
===============================================================================
