---------------------------- MODULE SignalGuard ----------------------------
(***************************************************************************)
(* The mapping of POSIX signals to C++ exceptions: the BEGIN/END macros of *)
(* SystemMacros.hpp, the signal handler and the thread registry of         *)
(* SystemUtilities.hpp, and the threads that use them.                     *)
(*                                                                         *)
(* A thread is a stack of activation records.  A jmp_buf saved by setjmp   *)
(* is valid while the function that called setjmp is active, so it is      *)
(* represented by the depth of that activation: longjmp cuts the stack     *)
(* back to that depth.  A signal handler is one more activation, on top of *)
(* the code it interrupts, and may itself be interrupted.                  *)
(*                                                                         *)
(* The program that runs on top of the mechanism is data: Body[f] is the   *)
(* sequence of operations of function f.  MainProgram.tla gives the        *)
(* program of main.cpp.                                                    *)
(*                                                                         *)
(* The three global maps are std::map objects that the handler accesses    *)
(* under global_jump_mutex and the macros access under no lock.  An        *)
(* operator[] that inserts a missing key takes two steps; any access of    *)
(* the map by another thread between the two is a data race, with three    *)
(* outcomes: as if serialised, the key is missed (the access works on a    *)
(* node that the tree has lost), or the process is corrupted.              *)
(***************************************************************************)
EXTENDS Integers, Sequences, FiniteSets

CONSTANTS Threads,        \* thread ids, the strings get_thread_id() returns
          Main,           \* the thread that runs main()
          Functions,      \* the functions of the program
          Guarded,        \* those whose body is between BEGIN_MAP and END_MAP
          Body,           \* Body[f]: the operations of f between the macros
          Entry,          \* Entry[t]: the function thread t starts with
          MaxInterrupts   \* bound: SIGINTs the environment sends

Signals   == {"SIGILL", "SIGFPE", "SIGSEGV", "SIGINT"}
NoSignal  == "none"
Handler   == "catch_signal"
NoThread  == "no thread"
Maps      == {"jump", "callStack", "name"}

Operations == [op : {"init", "sigaction", "work", "prompt"}, arg : {"-"}]
              \union [op : {"call"}, arg : Functions]
              \union [op : {"fault"}, arg : Signals]
              \union [op : {"spawn", "join"}, arg : Threads]

ASSUME ThreadsAssumption  == Main \in Threads /\ NoThread \notin Threads
ASSUME FunctionAssumption == Guarded \subseteq Functions /\ Handler \notin Functions
ASSUME ProgramAssumption  == /\ Body \in [Functions -> Seq(Operations)]
                             /\ Entry \in [Threads -> Functions]
ASSUME BoundAssumption    == MaxInterrupts \in Nat

VARIABLES
  proc,        \* state of the process
  life,        \* life[t]: has t been created, has it returned
  stack,       \* stack[t]: activation records of t, the innermost last
  jump,        \* global_jump_buffer[t]: depths of the saved contexts, top last
  known,       \* known[m]: threads whose key is in map m
  inserting,   \* inserting[m]: threads in the middle of an insertion into m
  holder,      \* who holds global_jump_mutex
  callStack,   \* global_thread_call_stack[t]: depth of its innermost entry
  blocked,     \* blocked[t]: signals in the mask of t
  installed,   \* has main() called sigaction
  interrupts,  \* SIGINTs sent so far
  raced        \* has a data race on a map happened (a history variable)

vars == <<proc, life, stack, jump, known, inserting, holder, callStack,
          blocked, installed, interrupts, raced>>

FunctionPCs == {"begin", "pushing", "body", "naming", "raise", "report", "return"}
HandlerPCs  == {"unblock", "lock", "record", "recording", "top", "unlock", "longjmp"}

\* An activation record.  sig is the value setjmp returned, or the signal the
\* handler was called with; trace the depth of the innermost call stack entry
\* the exception carries (0: none); target the context a handler took.
Frames == [fn     : Functions \union {Handler},
           pc     : FunctionPCs \union HandlerPCs,
           ip     : Nat,
           sig    : Signals \union {NoSignal},
           trace  : Nat,
           target : Nat]

NewFrame(f) == [fn |-> f, pc |-> IF f \in Guarded THEN "begin" ELSE "body",
                ip |-> 1, sig |-> NoSignal, trace |-> 0, target |-> 0]

HandlerFrame(s) == [fn |-> Handler, pc |-> "unblock", ip |-> 1, sig |-> s,
                    trace |-> 0, target |-> 0]

Depth(t) == Len(stack[t])
Top(t)   == stack[t][Len(stack[t])]

\* Thread t can take a step, and its innermost activation is at p.
At(t, p) == proc = "running" /\ stack[t] # <<>> /\ Top(t).pc = p

\* The innermost activation is about to execute operation o of its body.
Running(t, o) == /\ At(t, "body")
                 /\ Top(t).ip \in 1..Len(Body[Top(t).fn])
                 /\ Body[Top(t).fn][Top(t).ip].op = o

Operand(t) == Body[Top(t).fn][Top(t).ip].arg

SetTop(t, r) == stack' = [stack EXCEPT ![t] = [stack[t] EXCEPT ![Depth(t)] = r]]

Goto(t, p) == SetTop(t, [Top(t) EXCEPT !.pc = p])
Advance(t) == SetTop(t, [Top(t) EXCEPT !.pc = "body", !.ip = @ + 1])

Pop(t)  == stack' = [stack EXCEPT ![t] = SubSeq(stack[t], 1, Depth(t) - 1)]
Push(t, r) == stack' = [stack EXCEPT ![t] = Append(@, r)]

Racing(t, m) == inserting[m] \ {t} # {}

-----------------------------------------------------------------------------
(* Start and end of a thread; the operations of a body *)

Init ==
  /\ proc = "running"
  /\ life = [t \in Threads |-> IF t = Main THEN "live" ELSE "unborn"]
  /\ stack = [t \in Threads |-> IF t = Main THEN <<NewFrame(Entry[Main])>> ELSE <<>>]
  /\ jump = [t \in Threads |-> <<>>]
  /\ known = [m \in Maps |-> {}]
  /\ inserting = [m \in Maps |-> {}]
  /\ holder = NoThread
  /\ callStack = [t \in Threads |-> 0]
  /\ blocked = [t \in Threads |-> {}]
  /\ installed = FALSE
  /\ interrupts = 0
  /\ raced = FALSE

\* std::thread( entry, ... ): the new thread inherits the signal mask.
Spawn(t) ==
  /\ Running(t, "spawn")
  /\ LET u == Operand(t) IN
       /\ life[u] = "unborn"
       /\ u # t
       /\ life' = [life EXCEPT ![u] = "live"]
       /\ stack' = [stack EXCEPT ![t] = [stack[t] EXCEPT ![Depth(t)] =
                                           [Top(t) EXCEPT !.ip = @ + 1]],
                                 ![u] = <<NewFrame(Entry[u])>>]
       /\ blocked' = [blocked EXCEPT ![u] = blocked[t]]
  /\ UNCHANGED <<proc, jump, known, inserting, holder, callStack, installed,
                 interrupts, raced>>

Join(t) ==
  /\ Running(t, "join")
  /\ life[Operand(t)] = "exited"
  /\ Advance(t)
  /\ UNCHANGED <<proc, life, jump, known, inserting, holder, callStack, blocked,
                 installed, interrupts, raced>>

\* SystemUtilities::init: global_thread_mutex is held from the first step to
\* the second, so nobody else is then inserting into global_thread_name.
InitLock(t) ==
  /\ Running(t, "init")
  /\ inserting["name"] = {}
  /\ inserting' = [inserting EXCEPT !["name"] = {t}]
  /\ Goto(t, "naming")
  /\ UNCHANGED <<proc, life, jump, known, holder, callStack, blocked, installed,
                 interrupts, raced>>

InitUnlock(t) ==
  /\ At(t, "naming")
  /\ known' = [known EXCEPT !["name"] = @ \union {t}]
  /\ inserting' = [inserting EXCEPT !["name"] = @ \ {t}]
  /\ Advance(t)
  /\ UNCHANGED <<proc, life, jump, holder, callStack, blocked, installed,
                 interrupts, raced>>

SigAction(t) ==
  /\ Running(t, "sigaction")
  /\ installed' = TRUE
  /\ Advance(t)
  /\ UNCHANGED <<proc, life, jump, known, inserting, holder, callStack, blocked,
                 interrupts, raced>>

Work(t) ==
  /\ Running(t, "work")
  /\ Advance(t)
  /\ UNCHANGED <<proc, life, jump, known, inserting, holder, callStack, blocked,
                 installed, interrupts, raced>>

\* std::cin.ignore(): returns when the user presses a key.
KeyPressed(t) ==
  /\ Running(t, "prompt")
  /\ Advance(t)
  /\ UNCHANGED <<proc, life, jump, known, inserting, holder, callStack, blocked,
                 installed, interrupts, raced>>

Call(t) ==
  /\ Running(t, "call")
  /\ stack' = [stack EXCEPT ![t] =
                 Append([stack[t] EXCEPT ![Depth(t)] = [Top(t) EXCEPT !.ip = @ + 1]],
                        NewFrame(Operand(t)))]
  /\ UNCHANGED <<proc, life, jump, known, inserting, holder, callStack, blocked,
                 installed, interrupts, raced>>

Return(t) ==
  /\ \/ At(t, "return")
     \/ /\ At(t, "body")
        /\ Top(t).fn \notin Guarded
        /\ Top(t).ip > Len(Body[Top(t).fn])
  /\ Pop(t)
  /\ IF Depth(t) = 1
       THEN /\ life' = [life EXCEPT ![t] = "exited"]
            /\ proc' = IF t = Main THEN "exited" ELSE proc
       ELSE UNCHANGED <<life, proc>>
  /\ UNCHANGED <<jump, known, inserting, holder, callStack, blocked, installed,
                 interrupts, raced>>

-----------------------------------------------------------------------------
(* __BEGIN_MAP_POSIX_SIGNAL_TO_CPP_EXCEPTION and __END_MAP... *)

\* setjmp has saved the context; operator[] starts to look the key up.
Begin(t) ==
  /\ At(t, "begin")
  /\ inserting' = IF t \in known["jump"] THEN inserting
                  ELSE [inserting EXCEPT !["jump"] = @ \union {t}]
  /\ Goto(t, "pushing")
  /\ UNCHANGED <<proc, life, jump, known, holder, callStack, blocked, installed,
                 interrupts, raced>>

\* A corrupted map: the process does not run normally any more.
Corrupt(t, m) ==
  /\ Racing(t, m)
  /\ proc' = "crashed"
  /\ raced' = TRUE
  /\ UNCHANGED <<life, stack, jump, known, inserting, holder, callStack, blocked,
                 installed, interrupts>>

\* push( local_jump_buffer[ 0 ] ), on the node of t or on a lost one.
PushContext(t) ==
  /\ At(t, "pushing")
  /\ \/ /\ \/ /\ jump' = [jump EXCEPT ![t] = Append(@, Depth(t))]
              /\ known' = [known EXCEPT !["jump"] = @ \union {t}]
           \/ /\ Racing(t, "jump")
              /\ UNCHANGED <<jump, known>>
        /\ inserting' = [inserting EXCEPT !["jump"] = @ \ {t}]
        /\ raced' = (raced \/ Racing(t, "jump"))
        /\ Goto(t, "body")
        /\ UNCHANGED <<proc, life, holder, callStack, blocked, installed, interrupts>>
     \/ Corrupt(t, "jump")

\* Slip: END without the pop of the context.
EndKeepsContext(t) ==
  /\ At(t, "body")
  /\ Top(t).fn \in Guarded
  /\ Top(t).ip > Len(Body[Top(t).fn])
  /\ Goto(t, "return")
  /\ UNCHANGED <<proc, life, jump, known, inserting, holder, callStack, blocked,
                 installed, interrupts, raced>>

\* Slip: END empties the stack of contexts, those of the callers included.
EndClearsContexts(t) ==
  /\ At(t, "body")
  /\ Top(t).fn \in Guarded
  /\ Top(t).ip > Len(Body[Top(t).fn])
  /\ jump' = [jump EXCEPT ![t] = <<>>]
  /\ Goto(t, "return")
  /\ UNCHANGED <<proc, life, known, inserting, holder, callStack, blocked,
                 installed, interrupts, raced>>

\* END: pop().  Popping the empty stack of a missed key is undefined.
End(t) ==
  /\ At(t, "body")
  /\ Top(t).fn \in Guarded
  /\ Top(t).ip > Len(Body[Top(t).fn])
  /\ \/ /\ jump[t] # <<>>
        /\ jump' = [jump EXCEPT ![t] = SubSeq(jump[t], 1, Len(jump[t]) - 1)]
        /\ raced' = (raced \/ Racing(t, "jump"))
        /\ Goto(t, "return")
        /\ UNCHANGED <<proc, life, known, inserting, holder, callStack, blocked,
                       installed, interrupts>>
     \/ /\ jump[t] = <<>>
        /\ proc' = "crashed"
        /\ UNCHANGED <<life, stack, jump, known, inserting, holder, callStack,
                       blocked, installed, interrupts, raced>>
     \/ Corrupt(t, "jump")

\* setjmp has returned again, with the signal: the exception is built from the
\* two maps, without a lock, and thrown; the catch of the same function gets it.
\* A missed key yields an empty call stack.
Raise(t) ==
  /\ At(t, "raise")
  /\ LET race == Racing(t, "callStack") \/ Racing(t, "name") IN
       \/ /\ \E trace \in {callStack[t]} \union (IF race THEN {0} ELSE {}) :
               SetTop(t, [Top(t) EXCEPT !.pc = "report", !.trace = trace])
          /\ raced' = (raced \/ race)
          /\ UNCHANGED <<proc, life, jump, known, inserting, holder, callStack,
                         blocked, installed, interrupts>>
       \/ Corrupt(t, "callStack")
       \/ Corrupt(t, "name")

\* __REPORT_EXCEPTION__ in the catch, then the function returns.
Report(t) ==
  /\ At(t, "report")
  /\ Goto(t, "return")
  /\ UNCHANGED <<proc, life, jump, known, inserting, holder, callStack, blocked,
                 installed, interrupts, raced>>

-----------------------------------------------------------------------------
(* Delivery of a signal by the kernel, and catch_signal *)

\* The kernel calls the handler with s blocked (sa_mask is empty, SA_NODEFER is
\* not set).  A fault whose signal is blocked or not handled kills the process.
Deliver(t, s) ==
  IF installed /\ s \notin blocked[t]
    THEN /\ Push(t, HandlerFrame(s))
         /\ blocked' = [blocked EXCEPT ![t] = @ \union {s}]
         /\ UNCHANGED proc
    ELSE /\ proc' = "killed"
         /\ UNCHANGED <<stack, blocked>>

Fault(t) ==
  /\ Running(t, "fault")
  /\ Deliver(t, Operand(t))
  /\ UNCHANGED <<life, jump, known, inserting, holder, callStack, installed,
                 interrupts, raced>>

\* Ctrl-C: the kernel picks a live thread that does not block SIGINT.
Interrupt(t) ==
  /\ proc = "running" /\ stack[t] # <<>>
  /\ interrupts < MaxInterrupts
  /\ "SIGINT" \notin blocked[t]
  /\ interrupts' = interrupts + 1
  /\ Deliver(t, "SIGINT")
  /\ UNCHANGED <<life, jump, known, inserting, holder, callStack, installed, raced>>

\* Slip: the handler leaves its signal blocked, as sigaction set it up.
UnblockForgotten(t) ==
  /\ At(t, "unblock")
  /\ Goto(t, "lock")
  /\ UNCHANGED <<proc, life, jump, known, inserting, holder, callStack, blocked,
                 installed, interrupts, raced>>

Unblock(t) ==
  /\ At(t, "unblock")
  /\ blocked' = [blocked EXCEPT ![t] = @ \ {Top(t).sig}]
  /\ Goto(t, "lock")
  /\ UNCHANGED <<proc, life, jump, known, inserting, holder, callStack, installed,
                 interrupts, raced>>

\* global_jump_mutex is not recursive: its holder would wait for itself.
Lock(t) ==
  /\ At(t, "lock")
  /\ holder = NoThread
  /\ holder' = t
  /\ Goto(t, "record")
  /\ UNCHANGED <<proc, life, jump, known, inserting, callStack, blocked, installed,
                 interrupts, raced>>

\* get_call_stack_entries( 3 ): the entries start at the interrupted activation.
\* addr2line is run by CommonUtilities::exec, which throws when popen fails; no
\* catch handles that exception, so the process terminates.
Symbolise(t) ==
  /\ At(t, "record")
  /\ \/ /\ Goto(t, "recording")
        /\ inserting' = IF t \in known["callStack"] THEN inserting
                        ELSE [inserting EXCEPT !["callStack"] = @ \union {t}]
        /\ UNCHANGED proc
     \/ /\ proc' = "aborted"
        /\ UNCHANGED <<stack, inserting>>
  /\ UNCHANGED <<life, jump, known, holder, callStack, blocked, installed,
                 interrupts, raced>>

\* The call stack is in its map, and operator[] starts to look for the contexts.
LooksForContexts(t) ==
  [inserting EXCEPT !["callStack"] = @ \ {t},
                    !["jump"] = IF t \in known["jump"] THEN @ ELSE @ \union {t}]

\* Slips: the offset counts one frame too few (the handler itself is then the
\* first entry), or far too many.
RecordAt(t, d) ==
  /\ At(t, "recording")
  /\ callStack' = [callStack EXCEPT ![t] = d]
  /\ known' = [known EXCEPT !["callStack"] = @ \union {t}]
  /\ inserting' = LooksForContexts(t)
  /\ Goto(t, "top")
  /\ UNCHANGED <<proc, life, jump, holder, blocked, installed, interrupts, raced>>
RecordWithHandler(t) == RecordAt(t, Depth(t))
RecordTooFar(t) == RecordAt(t, Depth(t) - 5)

Record(t) ==
  /\ At(t, "recording")
  /\ callStack' = [callStack EXCEPT ![t] = Depth(t) - 1]
  /\ known' = [known EXCEPT !["callStack"] = @ \union {t}]
  /\ inserting' = LooksForContexts(t)
  /\ Goto(t, "top")
  /\ UNCHANGED <<proc, life, jump, holder, blocked, installed, interrupts, raced>>

\* top() and pop() of the contexts of t.
TakeContext(t) ==
  /\ At(t, "top")
  /\ jump[t] # <<>>
  /\ SetTop(t, [Top(t) EXCEPT !.pc = "unlock", !.target = jump[t][Len(jump[t])]])
  /\ jump' = [jump EXCEPT ![t] = SubSeq(jump[t], 1, Len(jump[t]) - 1)]
  /\ raced' = (raced \/ Racing(t, "jump"))
  /\ UNCHANGED <<proc, life, known, inserting, holder, callStack, blocked,
                 installed, interrupts>>

\* A key that is missing has been inserted by then.  top() of an empty stack is
\* undefined: it reads through an uninitialised pointer, which faults inside the
\* handler, or yields a context of garbage.
NoContext(t) ==
  /\ At(t, "top")
  /\ jump[t] = <<>> \/ Racing(t, "jump")
  /\ raced' = (raced \/ Racing(t, "jump"))
  /\ \/ Deliver(t, "SIGSEGV")
     \/ proc' = "crashed" /\ UNCHANGED <<stack, blocked>>
  /\ known' = [known EXCEPT !["jump"] = @ \union {t}]
  /\ inserting' = [inserting EXCEPT !["jump"] = @ \ {t}]
  /\ UNCHANGED <<life, jump, holder, callStack, installed, interrupts>>

\* Slip: longjmp leaves the handler, and nobody has unlocked.
UnlockForgotten(t) ==
  /\ At(t, "unlock")
  /\ Goto(t, "longjmp")
  /\ UNCHANGED <<proc, life, jump, known, inserting, holder, callStack, blocked,
                 installed, interrupts, raced>>

Unlock(t) ==
  /\ At(t, "unlock")
  /\ holder' = NoThread
  /\ Goto(t, "longjmp")
  /\ UNCHANGED <<proc, life, jump, known, inserting, callStack, blocked, installed,
                 interrupts, raced>>

\* The stack is cut back to the activation that called setjmp, which goes on
\* with the signal as the value of setjmp.  The mask stays as it is.
LongJmp(t) ==
  /\ At(t, "longjmp")
  /\ LET d == Top(t).target IN
       stack' = [stack EXCEPT ![t] = [SubSeq(stack[t], 1, d) EXCEPT ![d] =
                   [stack[t][d] EXCEPT !.pc = "raise", !.sig = Top(t).sig]]]
  /\ UNCHANGED <<proc, life, jump, known, inserting, holder, callStack, blocked,
                 installed, interrupts, raced>>

-----------------------------------------------------------------------------

\* What thread t does by itself, the answers of the user left out.
Step(t) ==
  \/ Spawn(t) \/ Join(t) \/ InitLock(t) \/ InitUnlock(t) \/ SigAction(t)
  \/ Work(t) \/ Call(t) \/ Return(t) \/ Begin(t) \/ PushContext(t) \/ End(t)
  \/ Raise(t) \/ Report(t) \/ Fault(t) \/ Unblock(t) \/ Lock(t) \/ Symbolise(t)
  \/ Record(t) \/ TakeContext(t) \/ NoContext(t) \/ Unlock(t) \/ LongJmp(t)

\* The process is over: exited, killed, aborted or corrupted.
Over == proc # "running" /\ UNCHANGED vars

Next == (\E t \in Threads : Step(t) \/ KeyPressed(t) \/ Interrupt(t)) \/ Over

Spec == Init /\ [][Next]_vars

\* The operating system schedules every thread that can run; it promises
\* neither a key stroke nor a Ctrl-C.
FairSpec == Spec /\ \A t \in Threads : WF_vars(Step(t))

-----------------------------------------------------------------------------
(* Properties *)

\* Every operation of a program that may fault is in a guarded function.
FaultsAreGuarded ==
  \A f \in Functions : \A i \in 1..Len(Body[f]) : Body[f][i].op = "fault" => f \in Guarded

TypeOK ==
  /\ proc \in {"running", "exited", "killed", "aborted", "crashed"}
  /\ life \in [Threads -> {"unborn", "live", "exited"}]
  /\ stack \in [Threads -> Seq(Frames)]
  /\ jump \in [Threads -> Seq(Nat)]
  /\ known \in [Maps -> SUBSET Threads]
  /\ inserting \in [Maps -> SUBSET Threads]
  /\ holder \in Threads \union {NoThread}
  /\ callStack \in [Threads -> Nat]
  /\ blocked \in [Threads -> SUBSET Signals]
  /\ installed \in BOOLEAN
  /\ interrupts \in 0..MaxInterrupts
  /\ raced \in BOOLEAN

\* The activation has saved its context and has neither left its guarded body
\* nor been resumed by longjmp.
Armed(f) == f.fn \in Guarded /\ f.pc \in {"body", "naming"}

\* A handler between lock() and unlock(), and one that has taken a context.
InCriticalSection(f) == f.pc \in {"record", "recording", "top", "unlock"}
HasTarget(f)         == f.pc \in {"unlock", "longjmp"}

\* Every context a thread could jump to belongs to an activation that is still
\* on its stack and inside its guarded body: longjmp never enters a function
\* that has returned.  Contexts are taken innermost first.  This holds however
\* BEGIN, END, nested calls, handlers interrupted by handlers and lost map
\* insertions interleave (SystemMacros.hpp:14 and :69, SystemUtilities.hpp:312).
ContextsSound(s, j) ==
  /\ \A i \in 1..Len(j) : j[i] \in 1..Len(s) /\ Armed(s[j[i]])
  /\ \A i, k \in 1..Len(j) : i < k => j[i] < j[k]
  /\ \A h \in 1..Len(s) : HasTarget(s[h]) =>
       /\ s[h].target \in 1..(h - 1)
       /\ Armed(s[s[h].target])
       /\ \A i \in 1..Len(j) : j[i] < s[h].target

JumpStackSound == \A t \in Threads : ContextsSound(stack[t], jump[t])

\* global_jump_mutex is held exactly while one activation of its holder is
\* between lock() and unlock(): no longjmp out of a handler, nested or not,
\* throws away an activation that holds it (SystemUtilities.hpp:298 and :318).
MutexSound ==
  \A t \in Threads :
    /\ holder = t <=> \E h \in 1..Depth(t) : InCriticalSection(stack[t][h])
    /\ \A h, k \in 1..Depth(t) :
         InCriticalSection(stack[t][h]) /\ InCriticalSection(stack[t][k]) => h = k

\* Until a data race on the maps, every activation inside a guarded
\* body can be jumped to: its context is saved, or a handler has taken it and
\* is about to jump there (SystemMacros.hpp:14).
EveryGuardArmed ==
  ~raced => \A t \in Threads : \A d \in 1..Depth(t) :
    Armed(stack[t][d]) =>
      \/ \E i \in 1..Len(jump[t]) : jump[t][i] = d
      \/ \E h \in 1..Depth(t) : HasTarget(stack[t][h]) /\ stack[t][h].target = d

\* The exception a catch reports is that of the fault its own body ran into,
\* and its call stack starts there; one for SIGINT comes from an activation at
\* or above the one that catches it (SystemMacros.hpp:52-63 reads the call
\* stack SystemUtilities.hpp:308 wrote, without a lock, some steps later).
ReportNamesItsFault ==
  ~raced => \A t \in Threads : \A d \in 1..Depth(t) :
    LET f == stack[t][d] IN
      f.pc = "report" =>
        IF f.sig = "SIGINT" THEN f.trace >= d
        ELSE /\ f.ip <= Len(Body[f.fn])
             /\ Body[f.fn][f.ip] = [op |-> "fault", arg |-> f.sig]
             /\ f.trace = d

\* "Unblock the signal to allow to OS send again" (SystemUtilities.hpp:288):
\* a signal is blocked only while a handler for it has yet to unblock it, so
\* none is blocked in the normal flow of a thread, where it would turn the next
\* fault into the death of the process.
MaskSound ==
  \A t \in Threads : \A s \in blocked[t] :
    \E h \in 1..Depth(t) : stack[t][h].pc = "unblock" /\ stack[t][h].sig = s

\* The same as long as the user does not press Ctrl-C: one that comes before the
\* unblock of another signal is a way to break it.
MaskSoundWithoutCtrlC == interrupts = 0 => MaskSound

\* "Jump back into the normal flow of the program" (SystemUtilities.hpp:320):
\* a handler that looks for the innermost saved context of its thread finds one.
HandlerHasContext ==
  \A t \in Threads : At(t, "top") => jump[t] # <<>>

\* The same for a program without races and Ctrl-C: a fault of a guarded body
\* finds the context of that body, whatever calls and faults came before
\* (SystemMacros.hpp:14 and :69, SystemUtilities.hpp:312).
FaultHasContext == ~raced /\ interrupts = 0 => HandlerHasContext

\* No thread waits for a mutex that it holds itself: a fault or an interrupt
\* never hits a handler between lock() and unlock() (SystemUtilities.hpp:298).
\* Only races and Ctrl-C can break this, so the property excludes both.
NoSelfDeadlock ==
  ~raced /\ interrupts = 0 => \A t \in Threads : At(t, "lock") => holder # t

\* Every fault in a guarded body is answered: the function that faulted gets to
\* its catch block and reports, unless popen failed in the handler or a data
\* race happened (SystemUtilities.hpp:284-326, SystemMacros.hpp:18-65).
MaxDepth == 4
FaultLeadsToReport ==
  [](~raced) =>
    \A t \in Threads : \A d \in 1..MaxDepth :
      (d = Depth(t) /\ Running(t, "fault"))
        ~> \/ proc = "aborted"
           \/ d <= Depth(t) /\ stack[t][d].pc = "report"

\* The program finishes, whatever faults its threads run into, unless the user
\* leaves it at a prompt for ever, popen failed or a data race happened
\* (main.cpp:487-575).
Termination ==
  [](~raced) => <>[](Running(Main, "prompt")) \/ <>(proc \in {"exited", "aborted"})

=============================================================================
