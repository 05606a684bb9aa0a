------------------------------ MODULE Calendar ------------------------------
(***************************************************************************)
(* The conversion of a time in ticks to a calendar date in                 *)
(* src/sdk_port/os/OSTime.c.  A tick count is a pair of seconds and of the *)
(* remainder, both rounded to zero as the divisions of C are.              *)
(***************************************************************************)
EXTENDS Integers

CONSTANTS
  TicksPerSec,    \* 40500000
  TicksPerMsec    \* 40500

\* Division and remainder of C.
Quot(a, b) == IF a < 0 THEN -((-a) \div b) ELSE a \div b
Rem(a, b) == a - b * Quot(a, b)

YearDays == <<0, 31, 59, 90, 120, 151, 181, 212, 243, 273, 304, 334>>
LeapYearDays == <<0, 31, 60, 91, 121, 152, 182, 213, 244, 274, 305, 335>>

IsLeapYear(year) == (year % 4 = 0 /\ year % 100 # 0) \/ year % 400 = 0

\* Mutant: the year is not counted from the first of its four.
LeapDaysLate(year) ==
  IF year < 1 THEN 0 ELSE year \div 4 - (year - 1) \div 100 + (year - 1) \div 400

GetLeapDays(year) ==
  IF year < 1 THEN 0 ELSE (year + 3) \div 4 - (year - 1) \div 100 + (year - 1) \div 400

\* Days before the first of January.
DaysBefore(year) == year * 365 + GetLeapDays(year)

\* The date of a day that is counted from the first of January of the year 0.
GetDates(days) ==
  LET from[y \in Int] == IF days < DaysBefore(y) THEN from[y - 1] ELSE y
      year == from[days \div 365]
      yday == days - DaysBefore(year)
      table == IF IsLeapYear(year) THEN LeapYearDays ELSE YearDays
      month == CHOOSE m \in 1 .. 12 : table[m] <= yday /\ \A n \in m + 1 .. 12 : yday < table[n]
  IN [year |-> year, mon |-> month - 1, mday |-> yday - table[month] + 1,
      wday |-> (days + 6) % 7, yday |-> yday]

BIAS == DaysBefore(2000)

\* The time that ticks = TicksPerSec * whole + part, with whole and part of one sign, is.
OSTicksToCalendarTime(whole, part) ==
  LET d == IF part < 0 THEN part + TicksPerSec ELSE part
      seconds == IF part < 0 THEN whole - 1 ELSE whole
      rest == Rem(seconds, 86400)
      secs == IF rest < 0 THEN rest + 86400 ELSE rest
      days == Quot(seconds, 86400) + BIAS - (IF rest < 0 THEN 1 ELSE 0)
  IN [date |-> GetDates(days),
      hour |-> (secs \div 60) \div 60, min |-> (secs \div 60) % 60, sec |-> secs % 60,
      msec |-> (d \div TicksPerMsec) % 1000,
      usec |-> ((d * 8) \div (TicksPerSec \div 125000)) % 1000]

-----------------------------------------------------------------------------
MonthLength(year, mon) ==
  IF mon = 1 THEN (IF IsLeapYear(year) THEN 29 ELSE 28)
  ELSE IF mon \in {3, 5, 8, 10} THEN 30 ELSE 31

\* The day after a day, by the rules of the calendar and with no count of days.
DayAfter(d) ==
  LET lastOfMonth == d.mday = MonthLength(d.year, d.mon)
      lastOfYear == lastOfMonth /\ d.mon = 11
  IN [year |-> IF lastOfYear THEN d.year + 1 ELSE d.year,
      mon |-> IF lastOfYear THEN 0 ELSE IF lastOfMonth THEN d.mon + 1 ELSE d.mon,
      mday |-> IF lastOfMonth THEN 1 ELSE d.mday + 1,
      wday |-> (d.wday + 1) % 7,
      yday |-> IF lastOfYear THEN 0 ELSE d.yday + 1]

\* Consecutive days have consecutive dates across months, leap years and centuries, and
\* the first of January 2000 was a Saturday: with both, every date is right.
DatesFollow(days) ==
  /\ GetDates(days + 1) = DayAfter(GetDates(days))
  /\ GetDates(BIAS) = [year |-> 2000, mon |-> 0, mday |-> 1, wday |-> 6, yday |-> 0]

\* A time as seconds and ticks since 2000, both directions of the division corrected: the
\* date is that of its day, and hour, minute, second and fractions add up to the time of
\* that day, before 2000 too.
TimesAddUp(whole, part) ==
  LET t == OSTicksToCalendarTime(whole, part)
      seconds == IF part < 0 THEN whole - 1 ELSE whole
      d == part % TicksPerSec
  IN /\ t.date = GetDates(BIAS + seconds \div 86400)
     /\ t.hour * 3600 + t.min * 60 + t.sec = seconds % 86400
     /\ t.hour \in 0 .. 23 /\ t.min \in 0 .. 59 /\ t.sec \in 0 .. 59
     /\ t.msec = d \div (TicksPerSec \div 1000)
     /\ t.msec * 1000 + t.usec = (d * 8) \div 324
=============================================================================
