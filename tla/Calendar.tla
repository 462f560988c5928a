------------------------------- MODULE Calendar -------------------------------
(* The calendar of gmtime_r(3), which epoch_to_utc() replaces: a clock that  *)
(* knows the lengths of the months and carries from field to field.          *)
EXTENDS Integers

CONSTANTS SECONDS_PER_MINUTE, MINUTES_PER_HOUR, HOURS_PER_DAY

VARIABLE tm     \* the fields of struct tm: tm_year counts from 1900, tm_mon
                \* and tm_wday from 0

Leap(year) == year % 4 = 0 /\ (year % 100 # 0 \/ year % 400 = 0)

DaysIn(year, mon) == CASE mon = 1 -> IF Leap(year) THEN 29 ELSE 28
                       [] mon \in {3, 5, 8, 10} -> 30
                       [] OTHER -> 31

Epoch == [year |-> 70, mon |-> 0, mday |-> 1, wday |-> 4,
          hour |-> 0, min |-> 0, sec |-> 0]

NextDate(d) ==
  IF d.mday < DaysIn(d.year + 1900, d.mon) THEN [d EXCEPT !.mday = @ + 1]
  ELSE IF d.mon < 11 THEN [d EXCEPT !.mday = 1, !.mon = @ + 1]
  ELSE [d EXCEPT !.mday = 1, !.mon = 0, !.year = @ + 1]

NextDay(d) == [NextDate(d) EXCEPT !.wday = (@ + 1) % 7]

NextSecond(d) ==
  IF d.sec < SECONDS_PER_MINUTE - 1 THEN [d EXCEPT !.sec = @ + 1]
  ELSE IF d.min < MINUTES_PER_HOUR - 1 THEN [d EXCEPT !.sec = 0, !.min = @ + 1]
  ELSE IF d.hour < HOURS_PER_DAY - 1
    THEN [d EXCEPT !.sec = 0, !.min = 0, !.hour = @ + 1]
  ELSE [NextDay(d) EXCEPT !.sec = 0, !.min = 0, !.hour = 0]

Init == tm = Epoch
Next == tm' = NextSecond(tm)
Spec == Init /\ [][Next]_tm
==============================================================================
