-------------------------------- MODULE Temporal --------------------------------
(***************************************************************************)
(* The partial orders of dates, times and durations (package xsdtemporal), *)
(* and the calendar they are decided by.  Seconds are exact fractions in   *)
(* the code; here they count a unit that divides them all.                 *)
(***************************************************************************)
EXTENDS Integers

CONSTANTS Minute,   \* the units that make a minute
          Limit     \* those that an int64 of seconds can count

ASSUME UnitsAssumption == Minute \in Nat \ {0} /\ Limit \in Nat \ {0}

Hour == 60 * Minute
Day == 24 * Hour

Kinds == {"dateTime", "date", "time", "gYearMonth", "gYear", "gMonthDay", "gDay", "gMonth"}

(* Absent properties are zero; the month and the day are 1 as newTemporal   *)
(* leaves them.                                                            *)
DateTimes ==
    [kind : Kinds, year : Int, month : 1..12, day : 1..31, hour : 0..23, minute : 0..59,
     second : 0..(Minute - 1), hasTZ : BOOLEAN, tz : -840..840]

Durations == [months : Int, seconds : Int]

-----------------------------------------------------------------------------
IsLeap(y) == y % 4 = 0 /\ (y % 100 # 0 \/ y % 400 = 0)

DaysInMonth(y, m) ==
    IF m = 2 THEN (IF IsLeap(y) THEN 29 ELSE 28) ELSE IF m \in {4, 6, 9, 11} THEN 30 ELSE 31

(* Days before a year that begins in March, and before a month of it.      *)
DaysBeforeYear(y) ==
    LET yoe == y % 400 IN (y \div 400) * 146097 + yoe * 365 + yoe \div 4 - yoe \div 100

DaysBeforeMonth(mp) == (153 * mp + 2) \div 5

DayNumber(y, m, d) ==
    LET yy == IF m <= 2 THEN y - 1 ELSE y
        mp == IF m <= 2 THEN m + 9 ELSE m - 3
    IN  DaysBeforeYear(yy) + DaysBeforeMonth(mp) + d - 1 + 60

(* 24:00:00 is the midnight that follows.                                  *)
AddOneDay(dt) ==
    IF dt.day + 1 <= DaysInMonth(dt.year, dt.month) THEN [dt EXCEPT !.day = @ + 1]
    ELSE IF dt.month + 1 <= 12 THEN [dt EXCEPT !.month = @ + 1, !.day = 1]
    ELSE [dt EXCEPT !.year = @ + 1, !.month = 1, !.day = 1]

(* civilFromDays, the inverse of dayNumber.                                *)
YearOfEra(doe) == (doe - doe \div 1460 + doe \div 36524 - doe \div 146096) \div 365

DayOfYear(doe) == LET yoe == YearOfEra(doe) IN doe - (365 * yoe + yoe \div 4 - yoe \div 100)

CivilFromDays(n) ==
    LET days == n - 60
        doe  == days % 146097
        yy   == YearOfEra(doe) + (days \div 146097) * 400
        mp   == (5 * DayOfYear(doe) + 2) \div 153
        m    == IF mp >= 10 THEN mp - 9 ELSE mp + 3
    IN  [year |-> IF m <= 2 THEN yy + 1 ELSE yy, month |-> m,
         day |-> DayOfYear(doe) - DaysBeforeMonth(mp) + 1]

-----------------------------------------------------------------------------
(* The day an instant falls on; what a kind does not have is set alike for *)
(* both operands.                                                          *)
DayOf(dt) ==
    CASE dt.kind = "time"                    -> DayNumber(0, 1, 1)
      [] dt.kind \in {"gYear", "gYearMonth"} -> DayNumber(dt.year, dt.month, 1)
      [] dt.kind = "gMonth"                  -> DayNumber(0, dt.month, 1)
      [] dt.kind = "gMonthDay"               -> DayNumber(0, dt.month, dt.day)
      [] dt.kind = "gDay"                    -> DayNumber(0, 1, dt.day)
      [] OTHER                               -> DayNumber(dt.year, dt.month, dt.day)

LocalTime(dt) == DayOf(dt) * Day + dt.hour * Hour + dt.minute * Minute + dt.second

Timeline(dt, tzShift) == LocalTime(dt) - (IF dt.hasTZ THEN dt.tz ELSE tzShift) * Minute

(* A value with a timezone comes before one without when it does so        *)
(* wherever the other one is taken to be.                                  *)
DateLess(a, b) ==
    /\ a.kind = b.kind
    /\ IF a.hasTZ = b.hasTZ THEN Timeline(a, 0) < Timeline(b, 0)
       ELSE Timeline(a, -840) < Timeline(b, -840) /\ Timeline(a, 840) < Timeline(b, 840)

-----------------------------------------------------------------------------
Pinned(d, max) == IF d > max THEN max ELSE d

(* The low bits that Int64 leaves of a count that does not fit.            *)
Wrapped(s) == ((s + Limit) % (2 * Limit)) - Limit

(* dateTime + duration: months first, the day pinned to the month's length. *)
AddDuration(dt, dur) ==
    LET total == dt.year * 12 + dt.month - 1 + dur.months
        year  == total \div 12
        month == (total % 12) + 1
        day   == Pinned(dt.day, DaysInMonth(year, month))
        secs  == Wrapped(DayNumber(year, month, day) * Day + dt.hour * Hour + dt.minute * Minute
                         + dt.second + dur.seconds)
        rem   == secs % Day
        civil == CivilFromDays(secs \div Day)
    IN  [dt EXCEPT !.year = civil.year, !.month = civil.month, !.day = civil.day,
                   !.hour = rem \div Hour, !.minute = (rem % Hour) \div Minute,
                   !.second = (rem % Hour) % Minute]

Reference(y, m) ==
    [kind |-> "dateTime", year |-> y, month |-> m, day |-> 1, hour |-> 0, minute |-> 0,
     second |-> 0, hasTZ |-> TRUE, tz |-> 0]

DurationRefs == {Reference(1696, 9), Reference(1697, 2), Reference(1903, 3), Reference(1903, 7)}

LessFrom(ref, d, o) == DateLess(AddDuration(ref, d), AddDuration(ref, o))

DurationLess(d, o) ==
    IF d.months = o.months THEN d.seconds < o.seconds
    ELSE IF d.seconds = o.seconds THEN d.months < o.months
    ELSE \A ref \in DurationRefs : LessFrom(ref, d, o)
=============================================================================
