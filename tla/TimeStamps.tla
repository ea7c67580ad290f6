----------------------------- MODULE TimeStamps -----------------------------
(***************************************************************************)
(* get_local_date_time() of CommonUtilities.hpp, which every exception of  *)
(* SystemMacros.hpp:59 calls, in any thread.                               *)
(*                                                                         *)
(* localtime() fills in one struct tm of the library, shared by all        *)
(* threads, and strftime() reads it some time later.  A time is a day, a   *)
(* second of the day and a millisecond; the fields of the struct tm that   *)
(* are told apart are the day and the second.                              *)
(***************************************************************************)
EXTENDS Integers, Sequences

CONSTANTS Callers,     \* threads
          Clocks,      \* bound: the times that the clock goes through
          NextClock    \* the time after each of them, but the last

VARIABLES clock,     \* the time of day
          call,      \* call[c]: where the thread is in the function
          tv,        \* tv[c]: what gettimeofday() has read
          shared,    \* the struct tm of the library
          writer,    \* the thread that holds the lock of localtime(), or "none"
          text,      \* text[c]: what the thread has formatted
          seen       \* seen[c]: times that calls had read which overlap its last one (history)

stampVars == <<clock, call, tv, shared, writer, text, seen>>

\* What the clock shows are days, seconds and milliseconds, and it starts
\* somewhere.
ASSUME ClockAssumption ==
  /\ Clocks \subseteq Int \X Int \X (0..999)
  /\ \A time \in DOMAIN NextClock : NextClock[time] \in Clocks
  /\ \E time \in Clocks : \A other \in DOMAIN NextClock : NextClock[other] # time

First == CHOOSE time \in Clocks : \A other \in DOMAIN NextClock : NextClock[other] # time
NoText == [day |-> -1, second |-> -1, digits |-> <<>>]

\* to_string(): no leading zeros.
Digits(n) == IF n < 10 THEN <<n>>
             ELSE IF n < 100 THEN <<n \div 10, n % 10>>
             ELSE <<n \div 100, (n \div 10) % 10, n % 10>>

StampsInit ==
  /\ clock = First
  /\ call = [c \in Callers |-> "out"]
  /\ tv = [c \in Callers |-> First]
  /\ shared = [day |-> First[1], second |-> First[2]]
  /\ writer = "none"
  /\ text = [c \in Callers |-> NoText]
  /\ seen = [c \in Callers |-> {}]

Tick ==
  /\ clock \in DOMAIN NextClock
  /\ clock' = NextClock[clock]
  /\ UNCHANGED <<call, tv, shared, writer, text, seen>>

Active == {c \in Callers : call[c] \notin {"out", "done"}}
Goes(c, from, to) == call[c] = from /\ call' = [call EXCEPT ![c] = to]

\* gettimeofday( &tv, NULL ): from here on the call counts as one that overlaps
\* with those that are under way.
GetTimeOfDay(c) ==
  /\ call[c] \in {"out", "done"} /\ call' = [call EXCEPT ![c] = "read"]
  /\ tv' = [tv EXCEPT ![c] = clock]
  /\ seen' = [u \in Callers |-> IF u = c THEN {clock} \union {tv[o] : o \in Active}
                                ELSE IF u \in Active THEN seen[u] \union {clock} ELSE seen[u]]
  /\ text' = [text EXCEPT ![c] = NoText]
  /\ UNCHANGED <<clock, shared, writer>>

\* localtime( &tv.tv_sec ) fills the fields in under a lock of its own.
WriteDay(c) ==
  /\ Goes(c, "read", "writing") /\ writer = "none"
  /\ writer' = c
  /\ shared' = [shared EXCEPT !.day = tv[c][1]]
  /\ UNCHANGED <<clock, tv, text, seen>>

\* Slip: a second that is not later than the one there is left.
WriteSecondLater(c) ==
  /\ Goes(c, "writing", "written")
  /\ writer' = "none"
  /\ shared' = [shared EXCEPT !.second = IF tv[c][2] > @ THEN tv[c][2] ELSE @]
  /\ UNCHANGED <<clock, tv, text, seen>>

WriteSecond(c) ==
  /\ Goes(c, "writing", "written")
  /\ writer' = "none"
  /\ shared' = [shared EXCEPT !.second = tv[c][2]]
  /\ UNCHANGED <<clock, tv, text, seen>>

\* strftime() reads them, one after the other and without that lock.
FormatDay(c) ==
  /\ Goes(c, "written", "formatting")
  /\ text' = [text EXCEPT ![c].day = shared.day]
  /\ UNCHANGED <<clock, tv, shared, writer, seen>>
FormatSecond(c) ==
  /\ Goes(c, "formatting", "formatted")
  /\ text' = [text EXCEPT ![c].second = shared.second]
  /\ UNCHANGED <<clock, tv, shared, writer, seen>>

\* replace( time_stamp, "%SSS", ... ): the milliseconds are those of the call.
AppendMillis(c) ==
  /\ Goes(c, "formatted", "done")
  /\ text' = [text EXCEPT ![c].digits = Digits(tv[c][3])]
  /\ UNCHANGED <<clock, tv, shared, writer, seen>>

StampsNext ==
  \/ Tick
  \/ \E c \in Callers :
       \/ GetTimeOfDay(c) \/ WriteDay(c) \/ WriteSecond(c)
       \/ FormatDay(c) \/ FormatSecond(c) \/ AppendMillis(c)

StampsSpec == StampsInit /\ [][StampsNext]_stampVars

-----------------------------------------------------------------------------
(* Properties *)

\* What a reader takes the digits behind the point for.
Fraction(digits) ==
  CASE digits = <<>> -> 0
    [] OTHER -> digits[1] * 100 + (IF Len(digits) > 1 THEN digits[2] * 10 ELSE 0)
                                + (IF Len(digits) > 2 THEN digits[3] ELSE 0)

\* The date and the time of a stamp are each one that the call itself or a call
\* that overlapped with it had read from the clock, so with no other thread in
\* the function the stamp is the time of the call; with one it may join the day
\* of one call to the second of another.  The milliseconds are always those of
\* the call, but read as a fraction of a second only if they have three digits
\* or are 0 (CommonUtilities.hpp:161-200).
StampsOfTheirCalls ==
  \A c \in Callers : call[c] = "done" =>
    /\ text[c].day \in {time[1] : time \in seen[c]}
    /\ text[c].second \in {time[2] : time \in seen[c]}
    /\ LET ms == tv[c][3] IN
         Fraction(text[c].digits) = ms <=> ms = 0 \/ ms >= 100

=============================================================================
