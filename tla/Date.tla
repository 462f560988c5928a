--------------------------------- MODULE Date ---------------------------------
(* epoch_to_utc() of src/date.c, asked for one second after another.         *)
EXTENDS Integers

CONSTANTS SECONDS_PER_MINUTE, MINUTES_PER_HOUR, HOURS_PER_DAY,
            \* 60, 60 and 24; less where the epochs are to fit in TLC's numbers
          FirstEpoch, LastEpoch     \* bounds: the epochs asked for

ASSUME EpochAssumption == FirstEpoch \in Int /\ LastEpoch \in Int
ASSUME LengthAssumption == {SECONDS_PER_MINUTE, MINUTES_PER_HOUR, HOURS_PER_DAY} \subseteq Nat \ {0}

VARIABLES epoch,    \* the argument of the latest call
          tm        \* the structure it fills in

dateVars == <<epoch, tm>>

SECONDS_PER_DAY == HOURS_PER_DAY * MINUTES_PER_HOUR * SECONDS_PER_MINUTE
FROM_1600_03_01 == 135080
YEAR == 365
FOUR_YEARS == 4 * YEAR + 1
CENTURY == 100 * YEAR + 24
FOUR_CENTURIES == 4 * CENTURY + 1
FEBRUARY == 1

(* C's / and %, which round towards zero                                     *)
Quot(a, b) == IF a >= 0 THEN a \div b ELSE -((-a) \div b)
Rem(a, b) == a - b * Quot(a, b)

(* YDAY_INFO[]: years begin with March, here with the day each month starts. *)
MonthStart == <<0, 31, 61, 92, 122, 153, 184, 214, 245, 275, 306, 337>>
MonthOf(days) == CHOOSE m \in 1..12 : /\ MonthStart[m] <= days
                                      /\ m < 12 => days < MonthStart[m + 1]
(* January and February belong to the year after.                            *)
YearOffset(m) == IF m > 10 THEN 1 ELSE 0
YDAY_INFO(days) ==
  LET m == MonthOf(days)
  IN  [year_offset |-> YearOffset(m),
       mon |-> (m + 1) % 12,
       mday |-> days - MonthStart[m] + 1]

(* The last day of four centuries, and of four years, belongs to no year of  *)
(* 365 days: it is the 29th of February.                                     *)
NeverLeap(periods) == FALSE
IsLeapDay(periods) == periods = 4

LeapDay(year) == [year |-> year, mon |-> FEBRUARY, mday |-> 29]

DateOf(days) ==
  LET cycle == Rem(days, FOUR_CENTURIES)
      centuries == Quot(cycle, CENTURY)
      rest == Rem(cycle, CENTURY)
      four == Rem(rest, FOUR_YEARS)
      years == Quot(four, YEAR)
      year == Quot(days, FOUR_CENTURIES) * 400 - 300 + centuries * 100
      later == year + Quot(rest, FOUR_YEARS) * 4 + years
      info == YDAY_INFO(Rem(four, YEAR))
  IN  IF IsLeapDay(centuries) THEN LeapDay(year)
      ELSE IF IsLeapDay(years) THEN LeapDay(later)
      ELSE [year |-> later + info.year_offset, mon |-> info.mon, mday |-> info.mday]

TimeOf(seconds) ==
  LET minutes == Quot(seconds, SECONDS_PER_MINUTE)
  IN  [sec |-> Rem(seconds, SECONDS_PER_MINUTE),
       min |-> Rem(minutes, MINUTES_PER_HOUR),
       hour |-> Quot(minutes, MINUTES_PER_HOUR)]

epoch_to_utc(e) ==
  LET days == Quot(e, SECONDS_PER_DAY)
      time == TimeOf(Rem(e, SECONDS_PER_DAY))
      date == DateOf(days + FROM_1600_03_01)
  IN  [year |-> date.year, mon |-> date.mon, mday |-> date.mday,
       wday |-> Rem(days + 4, 7),
       hour |-> time.hour, min |-> time.min, sec |-> time.sec]

DateInit == epoch = FirstEpoch /\ tm = epoch_to_utc(FirstEpoch)
Tick == /\ epoch < LastEpoch
        /\ epoch' = epoch + 1
        /\ tm' = epoch_to_utc(epoch + 1)
DateSpec == DateInit /\ [][Tick]_dateVars
------------------------------------------------------------------------------
(* From one second to the next the fields carry as the calendar has it: the  *)
(* arithmetic on days, with its years from March, gets every leap year right.*)
Reference == INSTANCE Calendar
ImplementsCalendar == Reference!Spec
==============================================================================
