-------------------------------- MODULE MCCron --------------------------------
(* Cron for TLC with expressions for the first of two months only: two and  *)
(* three days, of two hours of two minutes each.                            *)
EXTENDS Cron

TwoMonths == <<2, 3>>
Times == {0, 5, 27}
SomeMinutes == {{Star}, {One(1)}}
SomeHours == {{Star}, {One(0)}}
SomeDays == {{Star}, {One(2)}}
FirstMonth == {{One(1)}}
SomeWeekdays == {{Star}, {Part(1, 5, 1)}}
===============================================================================
