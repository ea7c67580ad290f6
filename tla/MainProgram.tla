---------------------------- MODULE MainProgram ----------------------------
(***************************************************************************)
(* The program of main.cpp as data for SignalGuard: its functions, which   *)
(* of them are guarded by the macros, and the operations of their bodies.  *)
(* Printing is a "work" operation where it is all a body does.             *)
(***************************************************************************)
EXTENDS Integers, Sequences

CONSTANTS Workers01,   \* threads started with thread01_entry_point
          Workers02,   \* threads started with thread02_entry_point or the lambda
          Rounds       \* repeat: 10 in main.cpp, fewer here

do(o)       == [op |-> o, arg |-> "-"]
call(f)     == [op |-> "call", arg |-> f]
fault(s)    == [op |-> "fault", arg |-> s]
spawn(t)    == [op |-> "spawn", arg |-> t]
join(t)     == [op |-> "join", arg |-> t]

GuardedFunctions == {"valid_function", "invalid_memory_access_01",
                     "invalid_memory_access_02", "floating_point_exception_01"}

MainFunctions == GuardedFunctions \union {"main", "thread01_entry_point",
                                          "thread02_entry_point"}

MainThread  == "thread_main"
MainThreads == {MainThread} \union Workers01 \union Workers02

\* main() creates its threads in the order of their names.
ThreadOrder == SelectSeq(<<"thread_01", "thread_02", "thread_03", "thread_04", "thread_05">>,
                         LAMBDA t : t \in Workers01 \union Workers02)

MainEntry == [t \in MainThreads |->
                CASE t = MainThread   -> "main"
                  [] t \in Workers01  -> "thread01_entry_point"
                  [] t \in Workers02  -> "thread02_entry_point"]

valid_function == <<do("work")>>

invalid_memory_access_01 == <<call("valid_function"), fault("SIGSEGV")>>

invalid_memory_access_02 ==
  <<call("valid_function"), call("invalid_memory_access_01"), call("valid_function"),
    fault("SIGSEGV"), call("invalid_memory_access_01")>>

floating_point_exception_01 == <<fault("SIGFPE")>>

\* init, then Rounds calls; the sleep after each one is left to the scheduler.
thread_entry_point(f) == <<do("init")>> \o [i \in 1..Rounds |-> call(f)]

main ==
  <<do("init"), do("sigaction"), call("invalid_memory_access_01"),
    call("invalid_memory_access_02"), call("floating_point_exception_01"),
    do("prompt")>>
  \o [i \in 1..Len(ThreadOrder) |-> spawn(ThreadOrder[i])]
  \o [i \in 1..Len(ThreadOrder) |-> join(ThreadOrder[i])]
  \o <<do("prompt")>>

MainBody ==
  [f \in MainFunctions |->
     CASE f = "valid_function"              -> valid_function
       [] f = "invalid_memory_access_01"    -> invalid_memory_access_01
       [] f = "invalid_memory_access_02"    -> invalid_memory_access_02
       [] f = "floating_point_exception_01" -> floating_point_exception_01
       [] f = "thread01_entry_point"        -> thread_entry_point("invalid_memory_access_01")
       [] f = "thread02_entry_point"        -> thread_entry_point("invalid_memory_access_02")
       [] f = "main"                        -> main]

=============================================================================
