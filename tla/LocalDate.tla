----------------------------- MODULE LocalDate -----------------------------
(***************************************************************************)
(* get_local_date() and off_time() of main19_get_local_date.cpp: a date    *)
(* out of two readings of the clock, without the library.                  *)
(*                                                                         *)
(* A time is a pair of days and seconds of the day, since 1970, so that it *)
(* fits in the integers of TLC.                                            *)
(***************************************************************************)
EXTENDS Integers

CONSTANTS Readings,     \* times the clock may show, as <<day, second, millisecond>>
          Delays,       \* bound: seconds between the two readings
          Offset,       \* -( 8 * 3600 ) in the code
          MaxInt        \* the largest int, which holds year - 1900

SecsPerDay == 86400

\* C: division and remainder towards zero.
Quot(a, b) == IF a >= 0 THEN a \div b ELSE -((-a) \div b)
Rem(a, b)  == a - b * Quot(a, b)

Leap(y) == y % 4 = 0 /\ (y % 100 # 0 \/ y % 400 = 0)
YearLength(y) == IF Leap(y) THEN 366 ELSE 365

\* Slip: the years of the centuries are counted as leap years.
LeapsOfJulius(y) == y \div 4

\* LEAPS_THRU_END_OF(): DIV() rounds down.
LeapsThruEndOf(y) == y \div 4 - y \div 100 + y \div 400

\* __mon_yday[]: the days of the year before a month, 0 to 11.
DaysBefore(leap, month) ==
  <<0, 31, 59, 90, 120, 151, 181, 212, 243, 273, 304, 334>>[month + 1]
    + IF leap /\ month > 1 THEN 1 ELSE 0

VARIABLES at,     \* where get_local_date() is
          now,    \* the first reading, whose milliseconds it takes
          t,      \* the second one, whose seconds it takes
          days, rem, y,      \* the variables of off_time()
          tm                 \* the result, with the fields of off_time()

dateVars == <<at, now, t, days, rem, y, tm>>

\* Before off_time() is called.
Unset == [year |-> "unset"]

Init ==
  /\ at = "start"
  /\ now = <<0, 0, 0>> /\ t = <<0, 0>>
  /\ days = 0 /\ rem = 0 /\ y = 1970
  /\ tm = Unset

\* system_clock::now()
ReadNow ==
  /\ at = "start"
  /\ now' \in Readings
  /\ at' = "now"
  /\ UNCHANGED <<t, days, rem, y, tm>>

\* time( NULL ), after some time.
ReadTime ==
  /\ at = "now"
  /\ \E delay \in Delays :
       t' = <<now[1] + (now[2] + delay) \div SecsPerDay, (now[2] + delay) % SecsPerDay>>
  /\ at' = "time"
  /\ UNCHANGED <<now, days, rem, y, tm>>

\* The days and the seconds of the local time: division rounds towards zero, and
\* the two loops bring rem into a day.
Split ==
  /\ at = "time"
  /\ LET early == t[1] < 0 /\ t[2] > 0     \* a negative time_t that is no whole day
         d == IF early THEN t[1] + 1 ELSE t[1]
         r == (IF early THEN t[2] - SecsPerDay ELSE t[2]) + Offset
     IN  days' = d + r \div SecsPerDay /\ rem' = r % SecsPerDay
  /\ y' = 1970
  /\ at' = "year"
  /\ UNCHANGED <<now, t, tm>>

\* An iteration that corrects the year as if all had 365 days.
GuessYear ==
  /\ at = "year"
  /\ days < 0 \/ days >= YearLength(y)
  /\ LET yg == y + Quot(days, 365) - (IF Rem(days, 365) < 0 THEN 1 ELSE 0) IN
       /\ days' = days - ((yg - y) * 365 + LeapsThruEndOf(yg - 1) - LeapsThruEndOf(y - 1))
       /\ y' = yg
  /\ UNCHANGED <<at, now, t, rem, tm>>

\* The milliseconds that truncation towards zero leaves of the first reading:
\* before 1970 none, or a negative number.  (Readings are whole milliseconds.)
Fraction == IF now[1] < 0 /\ now[3] > 0 THEN now[3] - 1000 ELSE now[3]

\* The TimeStamp that get_local_date() fills in.
Stamp(year, month, day) ==
  [year |-> year, month |-> month, day |-> day,
   hour |-> rem \div 3600, minute |-> (rem % 3600) \div 60, sec |-> rem % 60, ms |-> Fraction]

\* A year that does not fit is cut to an int, and the month and the day are left
\* as they were in the struct, uninitialised; nobody looks at what off_time()
\* returns, and the rest is filled in.  (1900 is added without a bound.)
YearFits == y - 1900 \in -(MaxInt + 1)..MaxInt
Cut(n)   == ((n + MaxInt + 1) % (2 * (MaxInt + 1))) - (MaxInt + 1)
Overflow ==
  /\ at = "year"
  /\ days \in 0..(YearLength(y) - 1) /\ ~ YearFits
  /\ tm' = Stamp(Cut(y - 1900) + 1900, "unset", "unset")
  /\ at' = "done"
  /\ UNCHANGED <<now, t, days, rem, y>>

\* The month is looked for from December down.  tm_wday and tm_yday are not used.
FindMonth ==
  /\ at = "year"
  /\ days \in 0..(YearLength(y) - 1) /\ YearFits
  /\ \E m \in 0..11 :
       /\ days >= DaysBefore(Leap(y), m)
       /\ m < 11 => days < DaysBefore(Leap(y), m + 1)
       /\ tm' = Stamp(y, m + 1, days - DaysBefore(Leap(y), m) + 1)
  /\ at' = "done"
  /\ UNCHANGED <<now, t, days, rem, y>>

Next ==
  \/ ReadNow \/ ReadTime \/ Split \/ GuessYear \/ Overflow \/ FindMonth
  \/ at = "done" /\ UNCHANGED dateVars

-----------------------------------------------------------------------------
(* Properties *)

\* The days from 1970 to a date, by counting the years of 400 from March on.
DaysFromCivil(year, month, day) ==
  LET years == IF month <= 2 THEN year - 1 ELSE year
      of400 == years % 400
      doy   == (153 * ((month + 9) % 12) + 2) \div 5 + day - 1
  IN  (years \div 400) * 146097 + of400 * 365 + of400 \div 4 - of400 \div 100 + doy - 719468

\* The time that a date stands for, eight hours behind, is `time`: the second of
\* the day and, if it has one, the day.
Seconds(date) == date.hour * 3600 + date.minute * 60 + date.sec - Offset
ShowsSecond(date, time) ==
  /\ Seconds(date) % SecsPerDay = time[2]
  /\ date.hour \in 0..23 /\ date.minute \in 0..59 /\ date.sec \in 0..59
ShowsDay(date, time) ==
  /\ DaysFromCivil(date.year, date.month, date.day) + Seconds(date) \div SecsPerDay = time[1]
  /\ date.month \in 1..12 /\ date.day \in 1..31

\* The time <<day, second>> with ms is not before the reading.
NotBefore(time, ms, reading) ==
  \/ time[1] > reading[1]
  \/ time[1] = reading[1] /\ time[2] > reading[2]
  \/ time[1] = reading[1] /\ time[2] = reading[2] /\ ms >= reading[3]

\* The search for the year ends, and the date and the time of the day are those
\* of the second reading, in leap years and at the ends of centuries, before 1970
\* as after it; only the time of the day, if the year does not fit.  The
\* milliseconds are those of the first reading: as the first one is the earlier
\* one, a result of 1970 or later is never before the call of get_local_date().
\* Before 1970 they are not within [0-999], as the comment on TimeStamp says, but
\* count down from zero (main19_get_local_date.cpp:32-84, 94, 99-127).
DateFound ==
  (at = "time") ~> /\ at = "done"
                   /\ ShowsSecond(tm, t) /\ (YearFits => ShowsDay(tm, t))
                   /\ tm.ms % 1000 = now[3]
                   /\ IF now[1] < 0 THEN tm.ms \in -999..0
                      ELSE tm.ms \in 0..999 /\ NotBefore(t, tm.ms, now)

=============================================================================
