----------------------- MODULE SignalGuardQuietProofs -----------------------
(***************************************************************************)
(* Proofs about SignalGuard, for every program and every set of threads,   *)
(* of what holds as long as nothing disturbs it: the signal masks while    *)
(* there is no Ctrl-C, the contexts of guarded functions while there is no *)
(* data race on a map, and, if every fault of the program is in a guarded  *)
(* function, what reports say and that handlers find a context and the     *)
(* mutex.                                                                  *)
(***************************************************************************)
EXTENDS SignalGuardProofs

-----------------------------------------------------------------------------
(* Masks.  Until a Ctrl-C comes, a blocked signal is that of the innermost   *)
(* activation, a handler about to unblock it: nothing else of its thread can *)
(* happen before it does.                                                    *)

Calm == \A t \in Threads : \A sig \in blocked[t] :
          stack[t] # <<>> /\ Top(t).pc = "unblock" /\ Top(t).sig = sig

MaskInv == interrupts = 0 => Calm

\* A step of t that starts from anything but "unblock" and blocks nothing.
LEMMA CalmStep ==
  ASSUME Calm, NEW t \in Threads, Top(t).pc # "unblock",
         blocked' = blocked, \A u \in Threads : u # t => stack'[u] = stack[u]
  PROVE  Calm'
BY DEF Calm, Top

\* Neither does a thread of which only the rest of the state is touched.
LEMMA CalmFrozen == ASSUME MaskInv, UNCHANGED <<stack, blocked, interrupts>> PROVE MaskInv'
BY DEF MaskInv, Calm, Top

\* The kernel delivers a signal to a thread that blocks none.
LEMMA DeliverCalm ==
  ASSUME IInv, Calm, NEW t \in Threads, stack[t] # <<>>, Top(t).pc # "unblock",
         NEW sig \in Signals, Deliver(t, sig)
  PROVE  Calm'
<1>1. blocked[t] = {}
  BY DEF Calm
<1>2. CASE UNCHANGED <<stack, blocked>>
  BY <1>2 DEF Calm, Top
<1>3. CASE Push(t, HandlerFrame(sig)) /\ blocked' = [blocked EXCEPT ![t] = @ \union {sig}]
  <2>1. HandlerFrame(sig) \in Frames /\ HandlerFrame(sig).pc = "unblock" /\ HandlerFrame(sig).sig = sig
    BY DEF HandlerFrame, Frames, HandlerPCs
  <2>2. stack \in [Threads -> Seq(Frames)] /\ blocked \in [Threads -> SUBSET Signals]
    BY DEF IInv, TypeOK
  <2>3. /\ Len(stack'[t]) = Len(stack[t]) + 1 /\ stack' \in [Threads -> Seq(Frames)]
        /\ stack'[t][Len(stack[t]) + 1] = HandlerFrame(sig)
        /\ \A u \in Threads : u # t => stack'[u] = stack[u]
    BY <1>3, <2>1, <2>2, PushLemma
  <2>4. blocked'[t] = {sig} /\ \A u \in Threads : u # t => blocked'[u] = blocked[u]
    BY <1>1, <1>3, <2>2
  <2>5. stack'[t] # <<>> /\ stack'[t][Len(stack'[t])] = HandlerFrame(sig)
    BY <2>2, <2>3
  <2> QED  BY <2>1, <2>3, <2>4, <2>5 DEF Calm, Top
<1> QED  BY <1>2, <1>3 DEF Deliver

\* The steps of a thread that touch neither a mask nor another stack.
Plain(t) ==
  \/ Join(t) \/ InitLock(t) \/ InitUnlock(t) \/ SigAction(t) \/ Work(t) \/ KeyPressed(t)
  \/ Call(t) \/ Return(t) \/ Begin(t) \/ PushContext(t) \/ End(t) \/ Raise(t) \/ Report(t)
  \/ Lock(t) \/ Symbolise(t) \/ Record(t) \/ TakeContext(t) \/ Unlock(t) \/ LongJmp(t)

LEMMA PlainLemma ==
  ASSUME IInv, NEW t \in Threads, Plain(t)
  PROVE  /\ stack[t] # <<>> /\ Top(t).pc # "unblock"
         /\ blocked' = blocked /\ interrupts' = interrupts
         /\ \A u \in Threads : u # t => stack'[u] = stack[u]
<1>0. stack \in [Threads -> Seq(Frames)]
  BY DEF IInv, TypeOK
<1>1. CASE Join(t) \/ InitLock(t) \/ InitUnlock(t) \/ SigAction(t) \/ Work(t) \/ KeyPressed(t)
  BY <1>0, <1>1 DEF Join, InitLock, InitUnlock, SigAction, Work, KeyPressed,
                    Running, At, Advance, Goto, SetTop
<1>2. CASE Call(t) \/ Return(t)
  BY <1>0, <1>2 DEF Call, Return, Running, At, Pop
<1>3. CASE Begin(t) \/ PushContext(t) \/ End(t)
  BY <1>0, <1>3 DEF Begin, PushContext, End, Corrupt, At, Goto, SetTop
<1>4. CASE Raise(t) \/ Report(t)
  BY <1>0, <1>4 DEF Raise, Report, Corrupt, At, Goto, SetTop
<1>5. CASE Lock(t) \/ Symbolise(t) \/ Record(t) \/ TakeContext(t) \/ Unlock(t)
  BY <1>0, <1>5 DEF Lock, Symbolise, Record, TakeContext, Unlock, At, Goto, SetTop
<1>6. CASE LongJmp(t)
  BY <1>0, <1>6 DEF LongJmp, At
<1> QED  BY <1>1, <1>2, <1>3, <1>4, <1>5, <1>6 DEF Plain

LEMMA MaskInvariant == IInv /\ MaskInv /\ [Next]_vars => MaskInv'
<1> SUFFICES ASSUME IInv, MaskInv, [Next]_vars PROVE MaskInv'
  OBVIOUS
<1>1. CASE UNCHANGED vars
  BY <1>1, CalmFrozen DEF vars
<1>2. ASSUME NEW t \in Threads, Plain(t) PROVE MaskInv'
  BY <1>2, PlainLemma, CalmStep DEF MaskInv
<1>3. ASSUME NEW t \in Threads, Spawn(t) PROVE MaskInv'
  <2>0. stack \in [Threads -> Seq(Frames)] /\ blocked \in [Threads -> SUBSET Signals]
    BY DEF IInv, TypeOK
  <2> SUFFICES ASSUME interrupts = 0 PROVE Calm'
    BY <1>3 DEF MaskInv, Spawn
  <2>1. stack[t] # <<>> /\ Top(t).pc = "body"
    BY <1>3 DEF Spawn, Running, At
  <2>2. Calm /\ blocked[t] = {}
    BY <2>1 DEF MaskInv, Calm
  <2> DEFINE u == Operand(t)
  <2>3. /\ blocked' = [blocked EXCEPT ![u] = blocked[t]]
        /\ \A v \in Threads : v # t /\ v # u => stack'[v] = stack[v]
    BY <1>3, <2>0 DEF Spawn
  <2> HIDE DEF u
  <2>4. \A v \in Threads : blocked'[v] # {} => v # t /\ v # u /\ blocked'[v] = blocked[v]
    BY <2>0, <2>2, <2>3
  <2> QED  BY <2>2, <2>3, <2>4 DEF Calm, Top
<1>4. ASSUME NEW t \in Threads, Fault(t) PROVE MaskInv'
  <2>1. /\ stack[t] # <<>> /\ Top(t).pc # "unblock" /\ interrupts' = interrupts
        /\ Deliver(t, Operand(t)) /\ Operand(t) \in Signals
    BY <1>4, OperandLemma DEF Fault, Running, At, IInv, Sound
  <2> QED  BY <2>1, DeliverCalm DEF MaskInv
<1>5. ASSUME NEW t \in Threads, NoContext(t) PROVE MaskInv'
  <2>1. stack[t] # <<>> /\ Top(t).pc # "unblock" /\ interrupts' = interrupts
    BY <1>5 DEF NoContext, At
  <2>2. CASE Deliver(t, "SIGSEGV")
    <3>1. "SIGSEGV" \in Signals
      BY DEF Signals
    <3> QED  BY <2>1, <2>2, <3>1, DeliverCalm DEF MaskInv
  <2>3. CASE UNCHANGED <<stack, blocked>>
    BY <2>1, <2>3, CalmFrozen
  <2> QED  BY <1>5, <2>2, <2>3 DEF NoContext
<1>6. ASSUME NEW t \in Threads, Unblock(t) PROVE MaskInv'
  <2>0. stack \in [Threads -> Seq(Frames)] /\ blocked \in [Threads -> SUBSET Signals]
    BY DEF IInv, TypeOK
  <2>1. /\ blocked' = [blocked EXCEPT ![t] = @ \ {Top(t).sig}] /\ interrupts' = interrupts
        /\ \A u \in Threads : u # t => stack'[u] = stack[u]
    BY <1>6, <2>0 DEF Unblock, Goto, SetTop
  <2>2. ASSUME Calm PROVE Calm'
    <3>1. \A u \in Threads : blocked'[u] # {} => u # t /\ blocked'[u] = blocked[u]
      BY <2>0, <2>1, <2>2 DEF Calm
    <3> QED  BY <2>1, <2>2, <3>1 DEF Calm, Top
  <2> QED  BY <2>1, <2>2 DEF MaskInv
<1>7. ASSUME NEW t \in Threads, Interrupt(t) PROVE MaskInv'
  <2>1. interrupts' # 0
    BY <1>7, BoundAssumption DEF Interrupt, IInv, TypeOK
  <2> QED  BY <2>1 DEF MaskInv
<1> QED  BY <1>1, <1>2, <1>3, <1>4, <1>5, <1>6, <1>7 DEF Next, Step, Over, Plain

\* Without a Ctrl-C a signal is blocked only from its delivery to the sigprocmask
\* of its handler (SystemUtilities.hpp:288-295), in every program, with nested
\* faults and data races: no fault is ever blocked.
THEOREM MaskIsSoundWithoutCtrlC == Spec => []MaskSoundWithoutCtrlC
<1>1. Init => MaskInv
  BY DEF Init, MaskInv, Calm
<1>2. ASSUME IInv, MaskInv PROVE MaskSoundWithoutCtrlC
  <2>1. ASSUME interrupts = 0, NEW t \in Threads, NEW sig \in blocked[t]
        PROVE  \E h \in 1..Depth(t) : stack[t][h].pc = "unblock" /\ stack[t][h].sig = sig
    <3>1. stack[t] # <<>> /\ Top(t).pc = "unblock" /\ Top(t).sig = sig
      BY <1>2, <2>1 DEF MaskInv, Calm
    <3>2. stack[t] \in Seq(Frames)
      BY <1>2 DEF IInv, TypeOK
    <3>3. Depth(t) \in 1..Depth(t)
      BY <3>1, <3>2 DEF Depth
    <3> QED  BY <3>1, <3>3 DEF Top, Depth
  <2> QED  BY <2>1 DEF MaskSoundWithoutCtrlC, MaskSound
<1>3. Spec => []MaskInv
  BY <1>1, MaskInvariant, Invariance, PTL DEF Spec
<1> QED  BY <1>2, <1>3, Invariance, PTL

-----------------------------------------------------------------------------
(* Contexts.  An armed activation that no saved context leads to is the      *)
(* target of a handler, and a handler that interrupts one with a target      *)
(* takes one further out.                                                    *)

Covered(s, j) ==
  \A d \in 1..Len(s) : Armed(s[d]) =>
    \/ \E i \in 1..Len(j) : j[i] = d
    \/ \E h \in 1..Len(s) : HasTarget(s[h]) /\ s[h].target = d

OutwardTargets(s) ==
  \A h, k \in 1..Len(s) : h < k /\ HasTarget(s[h]) /\ HasTarget(s[k]) => s[k].target < s[h].target

Ready(s, j) == Covered(s, j) /\ OutwardTargets(s)

GuardInv == ~ raced => \A t \in Threads : Ready(stack[t], jump[t])

\* The innermost activation changes, but neither leaves its guarded body nor
\* loses or takes a context.
LEMMA ReplaceReady ==
  ASSUME NEW s \in Seq(Frames), NEW z \in Seq(Frames), NEW j \in Seq(Nat),
         s # <<>>, Len(z) = Len(s), \A i \in 1..(Len(s) - 1) : z[i] = s[i],
         Ready(s, j),
         Armed(z[Len(s)]) => Armed(s[Len(s)]),
         HasTarget(z[Len(s)]) <=> HasTarget(s[Len(s)]),
         HasTarget(s[Len(s)]) => z[Len(s)].target = s[Len(s)].target
  PROVE  Ready(z, j)
<1>1. \A h \in 1..Len(s) : h = Len(s) \/ (h \in 1..(Len(s) - 1) /\ z[h] = s[h])
  OBVIOUS
<1>2. \A h \in 1..Len(s) : /\ Armed(z[h]) => Armed(s[h])
                           /\ HasTarget(z[h]) <=> HasTarget(s[h])
                           /\ HasTarget(s[h]) => z[h].target = s[h].target
  BY <1>1
<1>3. Covered(z, j)
  BY <1>2 DEF Ready, Covered
<1>4. OutwardTargets(z)
  BY <1>2 DEF Ready, OutwardTargets
<1> QED  BY <1>3, <1>4 DEF Ready

\* An activation that is neither armed nor has a target comes on top.
LEMMA AddReady ==
  ASSUME NEW s \in Seq(Frames), NEW z \in Seq(Frames), NEW j \in Seq(Nat),
         Len(z) = Len(s) + 1, \A i \in 1..Len(s) : z[i] = s[i],
         Ready(s, j), ~ Armed(z[Len(z)]), ~ HasTarget(z[Len(z)])
  PROVE  Ready(z, j)
<1>1. \A h \in 1..Len(z) : h = Len(z) \/ (h \in 1..Len(s) /\ z[h] = s[h])
  OBVIOUS
<1>2. \A h \in 1..Len(s) : h \in 1..Len(z) /\ z[h] = s[h]
  OBVIOUS
<1>3. Covered(z, j)
  BY <1>1, <1>2 DEF Ready, Covered
<1>4. OutwardTargets(z)
  BY <1>1 DEF Ready, OutwardTargets
<1> QED  BY <1>3, <1>4 DEF Ready

\* An activation without a target goes.
LEMMA DropReady ==
  ASSUME NEW s \in Seq(Frames), NEW z \in Seq(Frames), NEW j \in Seq(Nat),
         s # <<>>, Len(z) = Len(s) - 1, \A i \in 1..(Len(s) - 1) : z[i] = s[i],
         Ready(s, j), ~ HasTarget(s[Len(s)])
  PROVE  Ready(z, j)
<1>1. \A h \in 1..Len(z) : h \in 1..Len(s) /\ z[h] = s[h]
  OBVIOUS
<1>2. \A h \in 1..Len(s) : HasTarget(s[h]) => h \in 1..Len(z) /\ z[h] = s[h]
  OBVIOUS
<1>3. Covered(z, j)
  BY <1>1, <1>2 DEF Ready, Covered
<1>4. OutwardTargets(z)
  BY <1>1 DEF Ready, OutwardTargets
<1> QED  BY <1>3, <1>4 DEF Ready

-----------------------------------------------------------------------------
(* Steps of a thread *)

\* Only the stack and the contexts of t change.
LEMMA GuardStep ==
  ASSUME GuardInv, NEW t \in Threads, raced => raced',
         \A u \in Threads : u # t => stack'[u] = stack[u] /\ jump'[u] = jump[u],
         ~ raced' => Ready(stack'[t], jump'[t])
  PROVE  GuardInv'
BY DEF GuardInv

LEMMA GuardFrozen ==
  ASSUME GuardInv, UNCHANGED <<stack, jump>>, raced => raced'
  PROVE  GuardInv'
BY DEF GuardInv

LEMMA SetTopReady ==
  ASSUME IInv, GuardInv, NEW t \in Threads, stack[t] # <<>>, NEW r \in Frames, SetTop(t, r),
         jump' = jump, raced => raced',
         Armed(r) => Armed(Top(t)), HasTarget(r) <=> HasTarget(Top(t)),
         HasTarget(r) => r.target = Top(t).target
  PROVE  GuardInv'
<1> DEFINE s == stack[t]  z == stack'[t]  j == jump[t]
<1>1. /\ s \in Seq(Frames) /\ s # <<>> /\ j \in Seq(Nat) /\ s[Len(s)] = Top(t)
      /\ stack \in [Threads -> Seq(Frames)]
  BY ThreadLemma
<1>2. /\ z \in Seq(Frames) /\ Len(z) = Len(s) /\ z[Len(s)] = r
      /\ \A i \in 1..(Len(s) - 1) : z[i] = s[i]
      /\ \A u \in Threads : u # t => stack'[u] = stack[u]
  BY <1>1, SetTopLemma
<1> SUFFICES ASSUME ~ raced' PROVE Ready(z, j)
  BY <1>2, GuardStep
<1>3. Ready(s, j)
  BY DEF GuardInv
<1> HIDE DEF s, z, j
<1> QED  BY <1>1, <1>2, <1>3, ReplaceReady

LEMMA GotoReady ==
  ASSUME IInv, GuardInv, NEW t \in Threads, stack[t] # <<>>,
         NEW p \in FunctionPCs \union HandlerPCs, Goto(t, p),
         jump' = jump, raced => raced',
         p \in {"body", "naming"} => Top(t).pc \in {"body", "naming"},
         p \in {"unlock", "longjmp"} <=> Top(t).pc \in {"unlock", "longjmp"}
  PROVE  GuardInv'
<1> DEFINE r == [Top(t) EXCEPT !.pc = p]
<1>1. r \in Frames /\ r.fn = Top(t).fn /\ r.pc = p /\ r.target = Top(t).target
  BY ThreadLemma, GotoFrame
<1>2. SetTop(t, r)
  BY DEF Goto
<1> HIDE DEF r
<1>3. (Armed(r) => Armed(Top(t))) /\ (HasTarget(r) <=> HasTarget(Top(t)))
  BY <1>1 DEF Armed, HasTarget
<1> QED  BY <1>1, <1>2, <1>3, SetTopReady

LEMMA AdvanceReady ==
  ASSUME IInv, GuardInv, NEW t \in Threads, stack[t] # <<>>, Advance(t),
         jump' = jump, raced => raced', Top(t).pc \in {"body", "naming"}
  PROVE  GuardInv'
<1> DEFINE r == [Top(t) EXCEPT !.pc = "body", !.ip = @ + 1]
<1>1. r \in Frames /\ r.fn = Top(t).fn /\ r.pc = "body"
  BY ThreadLemma, AdvanceFrame DEF FunctionPCs
<1>2. SetTop(t, r)
  BY DEF Advance
<1> HIDE DEF r
<1>3. (Armed(r) => Armed(Top(t))) /\ ~ HasTarget(r) /\ ~ HasTarget(Top(t))
  BY <1>1 DEF Armed, HasTarget
<1> QED  BY <1>1, <1>2, <1>3, SetTopReady

LEMMA DeliverReady ==
  ASSUME IInv, GuardInv, NEW t \in Threads, stack[t] # <<>>, NEW sig \in Signals,
         Deliver(t, sig), jump' = jump, raced => raced'
  PROVE  GuardInv'
<1>1. CASE UNCHANGED stack
  BY <1>1, GuardFrozen
<1>2. CASE Push(t, HandlerFrame(sig))
  <2> DEFINE s == stack[t]  z == stack'[t]  j == jump[t]  r == HandlerFrame(sig)
  <2>1. /\ s \in Seq(Frames) /\ j \in Seq(Nat) /\ stack \in [Threads -> Seq(Frames)]
    BY ThreadLemma
  <2>2. r \in Frames /\ r.pc = "unblock"
    BY HandlerFrameType
  <2>3. /\ z \in Seq(Frames) /\ Len(z) = Len(s) + 1 /\ z[Len(s) + 1] = r
        /\ \A i \in 1..Len(s) : z[i] = s[i]
        /\ \A u \in Threads : u # t => stack'[u] = stack[u]
    BY <1>2, <2>1, <2>2, PushLemma
  <2> SUFFICES ASSUME ~ raced' PROVE Ready(z, j)
    BY <2>3, GuardStep
  <2>4. Ready(s, j)
    BY DEF GuardInv
  <2>5. ~ Armed(r) /\ ~ HasTarget(r)
    BY <2>2 DEF Armed, HasTarget
  <2> HIDE DEF s, z, j, r
  <2> QED  BY <2>1, <2>3, <2>4, <2>5, AddReady
<1> QED  BY <1>1, <1>2 DEF Deliver

\* The steps in which the innermost activation moves on by itself.
LEMMA MovesReady ==
  ASSUME IInv, GuardInv, NEW t \in Threads,
         \/ Join(t) \/ InitLock(t) \/ InitUnlock(t) \/ SigAction(t) \/ Work(t) \/ KeyPressed(t)
         \/ Begin(t) \/ Report(t) \/ Unblock(t) \/ Lock(t) \/ Record(t) \/ Unlock(t)
  PROVE  GuardInv'
<1>1. CASE Join(t) \/ InitUnlock(t) \/ SigAction(t) \/ Work(t) \/ KeyPressed(t)
  BY <1>1, AdvanceReady DEF Join, InitUnlock, SigAction, Work, KeyPressed, Running, At
<1>2. CASE InitLock(t) \/ Begin(t) \/ Report(t) \/ Unblock(t) \/ Lock(t) \/ Record(t) \/ Unlock(t)
  <2>1. {"naming", "pushing", "return", "lock", "record", "top", "longjmp"}
          \subseteq FunctionPCs \union HandlerPCs
    BY DEF FunctionPCs, HandlerPCs
  <2> QED  BY <1>2, <2>1, GotoReady
              DEF InitLock, Begin, Report, Unblock, Lock, Record, Unlock, Running, At
<1> QED  BY <1>1, <1>2

LEMMA CorruptReady ==
  ASSUME GuardInv, NEW t \in Threads, NEW m, Corrupt(t, m) PROVE GuardInv'
BY GuardFrozen DEF Corrupt

LEMMA SymboliseReady == ASSUME IInv, GuardInv, NEW t \in Threads, Symbolise(t) PROVE GuardInv'
<1>1. stack[t] # <<>> /\ Top(t).pc = "record" /\ jump' = jump /\ (raced => raced')
  BY DEF Symbolise, At
<1>2. CASE Goto(t, "recording")
  <2>1. "recording" \in FunctionPCs \union HandlerPCs
    BY DEF HandlerPCs
  <2> QED  BY <1>1, <1>2, <2>1, GotoReady
<1>3. CASE UNCHANGED stack
  BY <1>1, <1>3, GuardFrozen
<1> QED  BY <1>2, <1>3 DEF Symbolise

LEMMA RaiseReady == ASSUME IInv, GuardInv, NEW t \in Threads, Raise(t) PROVE GuardInv'
<1>1. CASE Corrupt(t, "callStack") \/ Corrupt(t, "name")
  BY <1>1, CorruptReady
<1>2. ASSUME NEW trace \in {callStack[t], 0},
             SetTop(t, [Top(t) EXCEPT !.pc = "report", !.trace = trace]),
             jump' = jump, raced => raced', stack[t] # <<>>, Top(t).pc = "raise"
      PROVE  GuardInv'
  <2> DEFINE r == [Top(t) EXCEPT !.pc = "report", !.trace = trace]
  <2>1. Top(t) \in Frames /\ trace \in Nat
    BY <1>2, ThreadLemma DEF IInv, TypeOK
  <2>2. r \in Frames /\ r.pc = "report"
    BY <2>1 DEF Frames, FunctionPCs
  <2> HIDE DEF r
  <2>3. ~ Armed(r) /\ ~ HasTarget(r) /\ ~ HasTarget(Top(t))
    BY <1>2, <2>2 DEF Armed, HasTarget
  <2>4. SetTop(t, r)
    BY <1>2 DEF r
  <2> QED  BY <1>2, <2>2, <2>3, <2>4, SetTopReady
<1>3. CASE ~ (Corrupt(t, "callStack") \/ Corrupt(t, "name"))
  <2>1. PICK trace \in {callStack[t], 0} :
           SetTop(t, [Top(t) EXCEPT !.pc = "report", !.trace = trace])
    BY <1>3 DEF Raise
  <2>2. jump' = jump /\ (raced => raced') /\ stack[t] # <<>> /\ Top(t).pc = "raise"
    BY <1>3 DEF Raise, At
  <2> QED  BY <1>2, <2>1, <2>2
<1> QED  BY <1>1, <1>3

LEMMA ReturnReady == ASSUME IInv, GuardInv, NEW t \in Threads, Return(t) PROVE GuardInv'
<1> DEFINE s == stack[t]  z == stack'[t]  j == jump[t]
<1>1. stack[t] # <<>> /\ Pop(t) /\ jump' = jump /\ raced' = raced /\ ~ HasTarget(Top(t))
  BY DEF Return, At, HasTarget
<1>2. /\ s \in Seq(Frames) /\ j \in Seq(Nat) /\ s[Len(s)] = Top(t)
      /\ stack \in [Threads -> Seq(Frames)]
  BY <1>1, ThreadLemma
<1>3. /\ z \in Seq(Frames) /\ Len(z) = Len(s) - 1
      /\ \A i \in 1..(Len(s) - 1) : z[i] = s[i]
      /\ \A u \in Threads : u # t => stack'[u] = stack[u]
  BY <1>1, <1>2, PopLemma
<1> SUFFICES ASSUME ~ raced' PROVE Ready(z, j)
  BY <1>1, <1>3, GuardStep
<1>4. Ready(s, j)
  BY <1>1 DEF GuardInv
<1> HIDE DEF s, z, j
<1> QED  BY <1>1, <1>2, <1>3, <1>4, DropReady DEF s

LEMMA CallReady == ASSUME IInv, GuardInv, NEW t \in Threads, Call(t) PROVE GuardInv'
<1> DEFINE f == [Top(t) EXCEPT !.ip = @ + 1]  r == NewFrame(Operand(t))
           s == stack[t]  j == jump[t]  y == [s EXCEPT ![Len(s)] = f]
           z == Append(y, r)
<1>1. /\ stack[t] # <<>> /\ Top(t).pc = "body" /\ Operand(t) \in Functions
  BY OperandLemma DEF Call, IInv, Sound
<1>2. /\ s \in Seq(Frames) /\ s # <<>> /\ j \in Seq(Nat) /\ s[Len(s)] = Top(t)
      /\ stack \in [Threads -> Seq(Frames)] /\ Len(s) \in 1..Len(s) /\ Top(t) \in Frames
  BY <1>1, ThreadLemma
<1>3. f \in Frames /\ f.fn = Top(t).fn /\ f.pc = "body"
  BY <1>1, <1>2, NextFrame
<1>4. r \in Frames /\ ~ Armed(r) /\ ~ HasTarget(r)
  BY <1>1, NewFrameType DEF NewFrame, Armed, HasTarget
<1>5. stack' = [stack EXCEPT ![t] = z] /\ jump' = jump /\ raced' = raced
  BY DEF Call, Depth
<1> HIDE DEF f, r, s, j, z
<1>6. /\ y \in Seq(Frames) /\ Len(y) = Len(s) /\ y[Len(s)] = f
      /\ \A i \in 1..(Len(s) - 1) : y[i] = s[i]
  BY <1>2, <1>3, ExceptSeq
<1> HIDE DEF y
<1>7. /\ z \in Seq(Frames) /\ Len(z) = Len(y) + 1 /\ z[Len(z)] = r
      /\ \A i \in 1..Len(y) : z[i] = y[i]
  BY <1>4, <1>6, AppendProperties DEF z
<1>8. stack'[t] = z /\ \A u \in Threads : u # t => stack'[u] = stack[u]
  BY <1>2, <1>5
<1> SUFFICES ASSUME ~ raced' PROVE Ready(z, j)
  BY <1>5, <1>8, GuardStep DEF j
<1>9. Ready(s, j)
  BY <1>5 DEF GuardInv, s, j
<1>10. (Armed(f) => Armed(Top(t))) /\ ~ HasTarget(f) /\ ~ HasTarget(Top(t))
  BY <1>1, <1>3 DEF Armed, HasTarget
<1>11. Ready(y, j)
  BY <1>2, <1>6, <1>9, <1>10, ReplaceReady
<1> QED  BY <1>2, <1>4, <1>6, <1>7, <1>11, AddReady

LEMMA SpawnReady == ASSUME IInv, GuardInv, NEW t \in Threads, Spawn(t) PROVE GuardInv'
<1> DEFINE u == Operand(t)  f == [Top(t) EXCEPT !.ip = @ + 1]  r == NewFrame(Entry[u])
           s == stack[t]  y == [s EXCEPT ![Len(s)] = f]  x == <<r>>
<1>1. stack[t] # <<>> /\ Top(t).pc = "body" /\ u \in Threads
  BY OperandLemma DEF Spawn, IInv, Sound
<1>2. /\ s \in Seq(Frames) /\ s # <<>> /\ jump[t] \in Seq(Nat) /\ s[Len(s)] = Top(t)
      /\ stack \in [Threads -> Seq(Frames)] /\ Len(s) \in 1..Len(s) /\ Top(t) \in Frames
  BY <1>1, ThreadLemma
<1>3. f \in Frames /\ f.fn = Top(t).fn /\ f.pc = "body"
  BY <1>1, <1>2, NextFrame
<1>4. r \in Frames /\ ~ Armed(r) /\ ~ HasTarget(r)
  BY <1>1, NewFrameType, ProgramAssumption DEF NewFrame, Armed, HasTarget
<1>5. /\ u # t /\ stack' = [stack EXCEPT ![t] = y, ![u] = x]
      /\ jump' = jump /\ raced' = raced
  BY DEF Spawn, Depth
<1>6. Len(x) = 1 /\ x[1] = r
  OBVIOUS
<1> HIDE DEF u, f, r, s, x
<1>7. /\ y \in Seq(Frames) /\ Len(y) = Len(s) /\ y[Len(s)] = f
      /\ \A i \in 1..(Len(s) - 1) : y[i] = s[i]
  BY <1>2, <1>3, ExceptSeq
<1> HIDE DEF y
<1>8. /\ stack'[t] = y /\ stack'[u] = x
      /\ \A v \in Threads : v # t /\ v # u => stack'[v] = stack[v]
  BY <1>1, <1>2, <1>5
<1> SUFFICES ASSUME ~ raced, NEW v \in Threads PROVE Ready(stack'[v], jump[v])
  BY <1>5 DEF GuardInv
<1>9. CASE v = t
  <2>1. (Armed(f) => Armed(Top(t))) /\ ~ HasTarget(f) /\ ~ HasTarget(Top(t))
    BY <1>1, <1>3 DEF Armed, HasTarget
  <2>2. Ready(s, jump[t])
    BY DEF GuardInv, s
  <2>3. Ready(y, jump[t])
    BY <1>2, <1>7, <2>1, <2>2, ReplaceReady
  <2> QED  BY <1>8, <1>9, <2>3
<1>10. CASE v = u
  <2>1. \A h \in 1..Len(x) : ~ Armed(x[h]) /\ ~ HasTarget(x[h])
    BY <1>4, <1>6
  <2> QED  BY <1>8, <1>10, <2>1 DEF Ready, Covered, OutwardTargets
<1>11. CASE v # t /\ v # u
  BY <1>8, <1>11 DEF GuardInv
<1> QED  BY <1>9, <1>10, <1>11

-----------------------------------------------------------------------------
(* The steps that save and take contexts *)

LEMMA PushContextReady == ASSUME IInv, GuardInv, NEW t \in Threads, PushContext(t) PROVE GuardInv'
<1>1. CASE Corrupt(t, "jump")
  BY <1>1, CorruptReady
<1>2. CASE ~ Corrupt(t, "jump")
  <2> DEFINE r == [Top(t) EXCEPT !.pc = "body"]  s == stack[t]  z == stack'[t]
             j == jump[t]  k == Append(j, Len(s))
  <2>1. /\ stack[t] # <<>> /\ Top(t).pc = "pushing" /\ SetTop(t, r)
        /\ raced => raced'
        /\ \/ jump' = [jump EXCEPT ![t] = k]
           \/ raced' /\ jump' = jump
    BY <1>2 DEF PushContext, At, Goto, Depth
  <2>2. /\ s \in Seq(Frames) /\ s # <<>> /\ j \in Seq(Nat) /\ s[Len(s)] = Top(t)
        /\ stack \in [Threads -> Seq(Frames)] /\ jump \in [Threads -> Seq(Nat)]
        /\ Len(s) \in 1..Len(s) /\ Top(t) \in Frames
    BY <2>1, ThreadLemma
  <2>3. r \in Frames /\ r.pc = "body"
    BY <2>2, GotoFrame DEF FunctionPCs
  <2>4. /\ z \in Seq(Frames) /\ Len(z) = Len(s) /\ z[Len(s)] = r
        /\ \A i \in 1..(Len(s) - 1) : z[i] = s[i]
        /\ \A u \in Threads : u # t => stack'[u] = stack[u]
    BY <2>1, <2>2, <2>3, SetTopLemma
  <2>5. \A u \in Threads : u # t => jump'[u] = jump[u]
    BY <2>1, <2>2
  <2> SUFFICES ASSUME ~ raced' PROVE Ready(z, jump'[t])
    BY <2>1, <2>4, <2>5, GuardStep
  <2>6. Ready(s, j) /\ jump'[t] = k
    BY <2>1, <2>2 DEF GuardInv
  <2>7. ~ HasTarget(r) /\ ~ HasTarget(Top(t))
    BY <2>1, <2>3 DEF HasTarget
  <2> HIDE DEF r, s, z, j, k
  <2>8. /\ Len(j) \in Nat /\ Len(k) = Len(j) + 1 /\ k[Len(k)] = Len(s)
        /\ \A i \in 1..Len(j) : k[i] = j[i]
    BY <2>2, AppendProperties DEF k
  <2>9. /\ \A h \in 1..Len(s) : h = Len(s) \/ (h \in 1..(Len(s) - 1) /\ z[h] = s[h])
        /\ \A h \in 1..Len(s) : ~ HasTarget(s[h]) \/ z[h] = s[h]
    BY <2>2, <2>4, <2>7
  <2>10. Covered(z, k)
    <3> SUFFICES ASSUME NEW d \in 1..Len(s), Armed(z[d])
                 PROVE  \/ \E i \in 1..Len(k) : k[i] = d
                        \/ \E h \in 1..Len(s) : HasTarget(z[h]) /\ z[h].target = d
      BY <2>4 DEF Covered
    <3>1. CASE d = Len(s)
      BY <2>8, <3>1
    <3>2. CASE d # Len(s)
      <4>1. Armed(s[d])
        BY <2>9, <3>2
      <4>2. CASE \E i \in 1..Len(j) : j[i] = d
        BY <2>8, <4>2
      <4>3. CASE \E h \in 1..Len(s) : HasTarget(s[h]) /\ s[h].target = d
        BY <2>9, <4>3
      <4> QED  BY <2>6, <4>1, <4>2, <4>3 DEF Ready, Covered
    <3> QED  BY <3>1, <3>2
  <2>11. OutwardTargets(z)
    <3>1. \A h \in 1..Len(z) : h \in 1..Len(s) /\ (HasTarget(z[h]) => z[h] = s[h])
      BY <2>4, <2>7, <2>9
    <3> QED  BY <2>6, <3>1 DEF Ready, OutwardTargets
  <2> QED  BY <2>6, <2>10, <2>11 DEF Ready
<1> QED  BY <1>1, <1>2

\* END pops the context of its own activation: no other is saved last.
LEMMA EndReady == ASSUME IInv, GuardInv, NEW t \in Threads, End(t) PROVE GuardInv'
<1>1. CASE Corrupt(t, "jump")
  BY <1>1, CorruptReady
<1>2. CASE UNCHANGED <<stack, jump, raced>>
  BY <1>2, GuardFrozen
<1>3. CASE /\ jump[t] # <<>>
           /\ jump' = [jump EXCEPT ![t] = SubSeq(jump[t], 1, Len(jump[t]) - 1)]
           /\ raced' = (raced \/ Racing(t, "jump"))
           /\ Goto(t, "return")
  <2> DEFINE r == [Top(t) EXCEPT !.pc = "return"]  s == stack[t]  z == stack'[t]
             j == jump[t]  k == SubSeq(j, 1, Len(j) - 1)
  <2>1. /\ stack[t] # <<>> /\ Top(t).pc = "body" /\ Top(t).fn \in Guarded /\ SetTop(t, r)
        /\ raced => raced'
    BY <1>3 DEF End, At, Goto
  <2>2. /\ s \in Seq(Frames) /\ s # <<>> /\ j \in Seq(Nat) /\ j # <<>> /\ s[Len(s)] = Top(t)
        /\ stack \in [Threads -> Seq(Frames)] /\ jump \in [Threads -> Seq(Nat)]
        /\ Len(s) \in 1..Len(s) /\ Top(t) \in Frames /\ ContextsSound(s, j)
    BY <1>3, <2>1, ThreadLemma DEF Sound
  <2>3. r \in Frames /\ r.pc = "return"
    BY <2>2, GotoFrame DEF FunctionPCs
  <2>4. /\ z \in Seq(Frames) /\ Len(z) = Len(s) /\ z[Len(s)] = r
        /\ \A i \in 1..(Len(s) - 1) : z[i] = s[i]
        /\ \A u \in Threads : u # t => stack'[u] = stack[u]
    BY <2>1, <2>2, <2>3, SetTopLemma
  <2>5. k \in Seq(Nat) /\ Len(k) = Len(j) - 1 /\ \A i \in 1..(Len(j) - 1) : k[i] = j[i]
    BY <2>2, FrontLemma
  <2>6. jump'[t] = k /\ \A u \in Threads : u # t => jump'[u] = jump[u]
    BY <1>3, <2>2
  <2> SUFFICES ASSUME ~ raced' PROVE Ready(z, k)
    BY <2>1, <2>4, <2>6, GuardStep
  <2>7. Ready(s, j)
    BY <2>1 DEF GuardInv
  <2>8. ~ HasTarget(r) /\ ~ HasTarget(Top(t)) /\ ~ Armed(r) /\ Armed(Top(t))
    BY <2>1, <2>3 DEF HasTarget, Armed
  <2> HIDE DEF r, s, z, j, k
  <2>9. \A h \in 1..Len(s) : \/ h = Len(s) /\ ~ Armed(z[h]) /\ ~ HasTarget(z[h]) /\ ~ HasTarget(s[h])
                             \/ h \in 1..(Len(s) - 1) /\ z[h] = s[h]
    BY <2>2, <2>4, <2>8
  <2>10. j[Len(j)] = Len(s)
    <3>1. \A h \in 1..Len(s) : HasTarget(s[h]) => s[h].target \in 1..(h - 1)
      BY <2>2 DEF ContextsSound
    <3>2. \A h \in 1..Len(s) : HasTarget(s[h]) => s[h].target # Len(s)
      BY <2>2, <3>1
    <3>3. PICK i \in 1..Len(j) : j[i] = Len(s)
      BY <2>2, <2>7, <2>8, <3>2 DEF Ready, Covered
    <3>4. Len(j) \in 1..Len(j) /\ (i = Len(j) \/ i < Len(j))
      BY <2>2
    <3>5. i < Len(j) => j[i] < j[Len(j)] /\ j[Len(j)] \in 1..Len(s)
      BY <2>2, <3>4 DEF ContextsSound
    <3> QED  BY <2>2, <3>3, <3>4, <3>5
  <2>11. Covered(z, k)
    <3> SUFFICES ASSUME NEW d \in 1..Len(s), Armed(z[d])
                 PROVE  \/ \E i \in 1..Len(k) : k[i] = d
                        \/ \E h \in 1..Len(s) : HasTarget(z[h]) /\ z[h].target = d
      BY <2>4 DEF Covered
    <3>1. d # Len(s) /\ Armed(s[d])
      BY <2>2, <2>9
    <3>2. CASE \E i \in 1..Len(j) : j[i] = d
      <4>1. PICK i \in 1..Len(j) : j[i] = d
        BY <3>2
      <4>2. i \in 1..(Len(j) - 1)
        BY <2>2, <2>10, <3>1, <4>1
      <4> QED  BY <2>5, <4>1, <4>2
    <3>3. CASE \E h \in 1..Len(s) : HasTarget(s[h]) /\ s[h].target = d
      BY <2>9, <3>3
    <3> QED  BY <2>7, <3>1, <3>2, <3>3 DEF Ready, Covered
  <2>12. OutwardTargets(z)
    <3>1. \A h \in 1..Len(z) : h \in 1..Len(s) /\ (HasTarget(z[h]) => z[h] = s[h])
      BY <2>4, <2>9
    <3> QED  BY <2>7, <3>1 DEF Ready, OutwardTargets
  <2> QED  BY <2>11, <2>12 DEF Ready
<1> QED  BY <1>1, <1>2, <1>3 DEF End

LEMMA TakeContextReady == ASSUME IInv, GuardInv, NEW t \in Threads, TakeContext(t) PROVE GuardInv'
<1> DEFINE d == jump[t][Len(jump[t])]  r == [Top(t) EXCEPT !.pc = "unlock", !.target = d]
           s == stack[t]  z == stack'[t]  j == jump[t]  k == SubSeq(j, 1, Len(j) - 1)
<1>1. /\ stack[t] # <<>> /\ Top(t).pc = "top" /\ jump[t] # <<>> /\ SetTop(t, r)
      /\ jump' = [jump EXCEPT ![t] = k] /\ (raced => raced')
  BY DEF TakeContext, At
<1>2. /\ s \in Seq(Frames) /\ s # <<>> /\ j \in Seq(Nat) /\ j # <<>> /\ s[Len(s)] = Top(t)
      /\ stack \in [Threads -> Seq(Frames)] /\ jump \in [Threads -> Seq(Nat)]
      /\ Len(s) \in 1..Len(s) /\ Top(t) \in Frames /\ ContextsSound(s, j)
  BY <1>1, ThreadLemma DEF Sound
<1>3. /\ d \in 1..Len(s) /\ \A h \in 1..Len(s) : HasTarget(s[h]) => d < s[h].target
  BY <1>2, PopContextLemma
<1>4. r \in Frames /\ r.pc = "unlock" /\ r.target = d
  <2>1. d \in Nat
    BY <1>2, <1>3
  <2> HIDE DEF d
  <2> QED  BY <1>2, <2>1, TargetFrame
<1>5. /\ z \in Seq(Frames) /\ Len(z) = Len(s) /\ z[Len(s)] = r
      /\ \A i \in 1..(Len(s) - 1) : z[i] = s[i]
      /\ \A u \in Threads : u # t => stack'[u] = stack[u]
  BY <1>1, <1>2, <1>4, SetTopLemma
<1>6. k \in Seq(Nat) /\ Len(k) = Len(j) - 1 /\ \A i \in 1..(Len(j) - 1) : k[i] = j[i]
  BY <1>2, FrontLemma
<1>7. jump'[t] = k /\ \A u \in Threads : u # t => jump'[u] = jump[u]
  BY <1>1, <1>2
<1> SUFFICES ASSUME ~ raced' PROVE Ready(z, k)
  BY <1>1, <1>5, <1>7, GuardStep
<1>8. Ready(s, j) /\ d = j[Len(j)]
  BY <1>1 DEF GuardInv
<1>9. HasTarget(r) /\ ~ HasTarget(Top(t)) /\ ~ Armed(r)
  BY <1>1, <1>4 DEF HasTarget, Armed
<1> HIDE DEF d, r, s, z, j, k
<1>10. \A h \in 1..Len(s) : \/ h = Len(s) /\ z[h] = r /\ ~ HasTarget(s[h])
                            \/ h \in 1..(Len(s) - 1) /\ z[h] = s[h]
  BY <1>2, <1>5, <1>9
<1>11. Covered(z, k)
  <2> SUFFICES ASSUME NEW e \in 1..Len(s), Armed(z[e])
               PROVE  \/ \E i \in 1..Len(k) : k[i] = e
                      \/ \E h \in 1..Len(s) : HasTarget(z[h]) /\ z[h].target = e
    BY <1>5 DEF Covered
  <2>1. Armed(s[e])
    BY <1>9, <1>10
  <2>2. CASE \E i \in 1..Len(j) : j[i] = e
    <3>1. PICK i \in 1..Len(j) : j[i] = e
      BY <2>2
    <3>2. CASE i = Len(j)
      BY <1>2, <1>4, <1>5, <1>8, <1>9, <3>1, <3>2
    <3>3. CASE i # Len(j)
      <4>1. i \in 1..(Len(j) - 1)
        BY <1>2, <3>3
      <4> QED  BY <1>6, <3>1, <4>1
    <3> QED  BY <3>2, <3>3
  <2>3. CASE \E h \in 1..Len(s) : HasTarget(s[h]) /\ s[h].target = e
    BY <1>10, <2>3
  <2> QED  BY <1>8, <2>1, <2>2, <2>3 DEF Ready, Covered
<1>12. OutwardTargets(z)
  <2> SUFFICES ASSUME NEW h \in 1..Len(s), NEW m \in 1..Len(s), h < m,
                      HasTarget(z[h]), HasTarget(z[m])
               PROVE  z[m].target < z[h].target
    BY <1>5 DEF OutwardTargets
  <2>1. h \in 1..(Len(s) - 1) /\ z[h] = s[h]
    BY <1>2, <1>10
  <2>2. CASE m = Len(s)
    BY <1>3, <1>4, <1>5, <2>1, <2>2
  <2>3. CASE m # Len(s)
    BY <1>8, <1>10, <2>1, <2>3 DEF Ready, OutwardTargets
  <2> QED  BY <2>2, <2>3
<1> QED  BY <1>11, <1>12 DEF Ready

\* What longjmp cuts off takes no target with it that is still below: those of
\* the handlers that are interrupted lie further in than its own.
LEMMA LongJmpReady == ASSUME IInv, GuardInv, NEW t \in Threads, LongJmp(t) PROVE GuardInv'
<1> DEFINE s == stack[t]  j == jump[t]  d == Top(t).target  c == SubSeq(s, 1, d)
           r == [s[d] EXCEPT !.pc = "raise", !.sig = Top(t).sig]
           z == [c EXCEPT ![d] = r]
<1>1. /\ stack[t] # <<>> /\ Top(t).pc = "longjmp" /\ stack' = [stack EXCEPT ![t] = z]
      /\ jump' = jump /\ raced' = raced
  BY DEF LongJmp, At
<1>2. /\ s \in Seq(Frames) /\ s # <<>> /\ j \in Seq(Nat) /\ s[Len(s)] = Top(t)
      /\ stack \in [Threads -> Seq(Frames)]
      /\ Len(s) \in 1..Len(s) /\ Top(t) \in Frames /\ ContextsSound(s, j)
  BY <1>1, ThreadLemma DEF Sound
<1>3. HasTarget(s[Len(s)]) /\ s[Len(s)].target = d /\ d \in 1..(Len(s) - 1)
  BY <1>1, <1>2 DEF HasTarget, ContextsSound
<1>4. r.pc = "raise" /\ r \in Frames
  <2>1. s[d] \in Frames
    BY <1>2, <1>3
  <2> QED  BY <1>2, <2>1, RaiseFrame
<1> HIDE DEF s, j, d, r, c
<1>5. c \in Seq(Frames) /\ Len(c) = d /\ \A i \in 1..d : c[i] = s[i]
  <2>1. \A i \in 1..d : s[i] \in Frames
    BY <1>2, <1>3
  <2>2. d \in Int /\ 1 \in Int /\ d >= 1 /\ d - 1 + 1 = d /\ \A i \in 1..d : 1 + i - 1 = i
    BY <1>3
  <2>3. /\ SubSeq(s, 1, d) \in Seq(Frames)
        /\ Len(SubSeq(s, 1, d)) = IF 1 <= d THEN d - 1 + 1 ELSE 0
        /\ \A i \in 1..(d - 1 + 1) : SubSeq(s, 1, d)[i] = s[1 + i - 1]
    BY <2>1, <2>2, SubSeqProperties
  <2> QED  BY <2>2, <2>3 DEF c
<1>6. /\ z \in Seq(Frames) /\ Len(z) = d
      /\ \A i \in 1..d : z[i] = IF i = d THEN r ELSE s[i]
  <2>1. d \in 1..Len(c)
    BY <1>3, <1>5
  <2>2. z \in Seq(Frames) /\ Len(z) = d /\ \A i \in 1..d : z[i] = IF i = d THEN r ELSE c[i]
    BY <1>4, <1>5, <2>1, ExceptSeq
  <2> HIDE DEF z
  <2> QED  BY <1>5, <2>2
<1> HIDE DEF z
<1>7. stack'[t] = z /\ \A u \in Threads : u # t => stack'[u] = stack[u]
  BY <1>1, <1>2
<1> SUFFICES ASSUME ~ raced' PROVE Ready(z, j)
  BY <1>1, <1>7, GuardStep DEF j
<1>8. Ready(s, j)
  BY <1>1 DEF GuardInv, s, j
<1>9. ~ Armed(r) /\ ~ HasTarget(r)
  BY <1>4 DEF Armed, HasTarget
<1>10. \A h \in 1..d : h \in 1..Len(s)
  BY <1>2, <1>3
<1>11. Covered(z, j)
  <2> SUFFICES ASSUME NEW e \in 1..d, Armed(z[e])
               PROVE  \/ \E i \in 1..Len(j) : j[i] = e
                      \/ \E h \in 1..d : HasTarget(z[h]) /\ z[h].target = e
    BY <1>6 DEF Covered
  <2>1. e < d /\ Armed(s[e]) /\ e \in 1..Len(s)
    BY <1>3, <1>6, <1>9, <1>10
  <2>2. CASE \E h \in 1..Len(s) : HasTarget(s[h]) /\ s[h].target = e
    <3>1. PICK h \in 1..Len(s) : HasTarget(s[h]) /\ s[h].target = e
      BY <2>2
    <3>2. h < Len(s) => d < e
      BY <1>2, <1>3, <1>8, <3>1 DEF Ready, OutwardTargets
    <3>3. ~ (h < Len(s)) => h = Len(s)
      BY <1>2
    <3>4. FALSE
      BY <1>3, <2>1, <3>1, <3>2, <3>3
    <3> QED  BY <3>4
  <2> QED  BY <1>8, <2>1, <2>2 DEF Ready, Covered
<1>12. OutwardTargets(z)
  <2>1. \A h \in 1..Len(z) : HasTarget(z[h]) => h \in 1..Len(s) /\ z[h] = s[h]
    BY <1>6, <1>9, <1>10
  <2>2. \A h \in 1..Len(z) : h \in 1..Len(s)
    BY <1>6, <1>10
  <2> QED  BY <1>8, <2>1, <2>2 DEF Ready, OutwardTargets
<1> QED  BY <1>11, <1>12 DEF Ready

-----------------------------------------------------------------------------

LEMMA SignalReady ==
  ASSUME IInv, GuardInv, NEW t \in Threads, Fault(t) \/ Interrupt(t) \/ NoContext(t)
  PROVE  GuardInv'
<1>1. CASE Fault(t)
  <2>1. stack[t] # <<>> /\ Operand(t) \in Signals
    BY <1>1, OperandLemma DEF Fault, IInv, Sound
  <2> QED  BY <1>1, <2>1, DeliverReady DEF Fault
<1>2. CASE Interrupt(t)
  <2>1. "SIGINT" \in Signals
    BY DEF Signals
  <2> QED  BY <1>2, <2>1, DeliverReady DEF Interrupt
<1>3. CASE NoContext(t)
  <2>1. "SIGSEGV" \in Signals /\ stack[t] # <<>> /\ jump' = jump /\ (raced => raced')
    BY <1>3 DEF Signals, NoContext, At
  <2>2. CASE Deliver(t, "SIGSEGV")
    BY <2>1, <2>2, DeliverReady
  <2>3. CASE UNCHANGED stack
    BY <2>1, <2>3, GuardFrozen
  <2> QED  BY <1>3, <2>2, <2>3 DEF NoContext
<1> QED  BY <1>1, <1>2, <1>3

LEMMA GuardInvariant == IInv /\ GuardInv /\ [Next]_vars => GuardInv'
<1> SUFFICES ASSUME IInv, GuardInv, [Next]_vars PROVE GuardInv'
  OBVIOUS
<1>1. CASE UNCHANGED vars
  BY <1>1, GuardFrozen DEF vars
<1>2. ASSUME NEW t \in Threads, Step(t) \/ KeyPressed(t) \/ Interrupt(t) PROVE GuardInv'
  BY <1>2, MovesReady, SymboliseReady, RaiseReady, ReturnReady, CallReady, SpawnReady,
     PushContextReady, EndReady, TakeContextReady, LongJmpReady, SignalReady
     DEF Step
<1> QED  BY <1>1, <1>2 DEF Next, Over

\* The stack of a thread in the initial state.
LEMMA SingleLemma ==
  ASSUME NEW r, NEW s, s = <<r>> \/ s = <<>>
  PROVE  Len(s) \in 0..1 /\ \A h \in 1..Len(s) : s[h] = r
<1>1. CASE s = <<>>
  BY <1>1
<1>2. CASE s = <<r>>
  <2>1. Len(s) = 1 /\ s[1] = r
    BY <1>2
  <2> QED  BY <2>1
<1> QED  BY <1>1, <1>2

LEMMA GuardHolds == Spec => []GuardInv
<1>1. Init => GuardInv
  <2> SUFFICES ASSUME Init, NEW t \in Threads PROVE Ready(stack[t], jump[t])
    BY DEF GuardInv
  <2> DEFINE r == NewFrame(Entry[Main])
  <2>1. ~ Armed(r) /\ ~ HasTarget(r)
    BY DEF NewFrame, Armed, HasTarget
  <2>2. stack[t] = <<r>> \/ stack[t] = <<>>
    BY DEF Init
  <2> HIDE DEF r
  <2>3. \A h \in 1..Len(stack[t]) : stack[t][h] = r
    BY <2>2, SingleLemma
  <2> QED  BY <2>1, <2>3 DEF Ready, Covered, OutwardTargets
<1> QED  BY <1>1, GuardInvariant, Invariance, PTL DEF Spec

\* In every program, with any nesting of calls, faults and interrupts: as long as
\* there is no data race on the maps, every activation inside its guarded body can
\* be jumped to (SystemMacros.hpp:14).
THEOREM EveryGuardIsArmed == Spec => []EveryGuardArmed
<1>1. GuardInv => EveryGuardArmed
  BY DEF GuardInv, EveryGuardArmed, Ready, Covered, Depth
<1> QED  BY <1>1, GuardHolds, PTL

-----------------------------------------------------------------------------
(* Reports, in programs whose faults are in guarded functions.  The handler  *)
(* of a fault has the activation that faulted right below it, and is the one *)
(* that takes its context: between the call stack it records and the report  *)
(* nothing of the thread comes but a Ctrl-C, after which it does not go on.  *)

AtFault(f, sig) ==
  f.ip \in 1..Len(Body[f.fn]) /\ Body[f.fn][f.ip] = [op |-> "fault", arg |-> sig]

\* What is below a handler for a fault: what faulted, or a handler that found no
\* context, which then holds the mutex.
AnswersAt(s, h) ==
  s[h].fn = Handler /\ s[h].sig # "SIGINT" =>
    /\ h > 1
    /\ \/ /\ Armed(s[h - 1]) /\ AtFault(s[h - 1], s[h].sig)
          /\ HasTarget(s[h]) => s[h].target = h - 1
       \/ InCriticalSection(s[h - 1])

Answers(s) == \A h \in 1..Len(s) : AnswersAt(s, h)
Calling(s) == \A h \in 1..(Len(s) - 1) : s[h + 1].fn # Handler => s[h].pc = "body"

\* The innermost activation f, at depth d, with c the call stack recorded last.
Recorded(f, d, c) ==
  /\ f.pc \in {"top", "unlock", "longjmp"} => c = d - 1
  /\ f.pc = "raise" => IF f.sig = "SIGINT" THEN c >= d ELSE c = d /\ AtFault(f, f.sig)

Reported(f, d) ==
  f.pc = "report" => IF f.sig = "SIGINT" THEN f.trace >= d ELSE f.trace = d /\ AtFault(f, f.sig)

Told(s, c) == /\ Answers(s) /\ Calling(s)
              /\ s # <<>> => Recorded(s[Len(s)], Len(s), c)
              /\ \A d \in 1..Len(s) : Reported(s[d], d)

ReportInv == ~ raced => \A t \in Threads : Told(stack[t], callStack[t])

LEMMA ReplaceTold ==
  ASSUME NEW s \in Seq(Frames), NEW z \in Seq(Frames), NEW c, NEW e,
         s # <<>>, Len(z) = Len(s), \A i \in 1..(Len(s) - 1) : z[i] = s[i],
         Told(s, c), z[Len(s)].fn = s[Len(s)].fn, AnswersAt(z, Len(s)),
         Recorded(z[Len(s)], Len(s), e), Reported(z[Len(s)], Len(s))
  PROVE  Told(z, e)
<1>1. \A h \in 1..Len(s) : h = Len(s) \/ (h \in 1..(Len(s) - 1) /\ z[h] = s[h])
  OBVIOUS
<1>2. Answers(z)
  <2> SUFFICES ASSUME NEW h \in 1..Len(s), h # Len(s) PROVE AnswersAt(z, h)
    BY DEF Answers
  <2>1. z[h] = s[h] /\ (h > 1 => h - 1 \in 1..(Len(s) - 1))
    BY <1>1
  <2>2. h > 1 => z[h - 1] = s[h - 1]
    BY <2>1
  <2> QED  BY <2>1, <2>2 DEF Told, Answers, AnswersAt
<1>3. Calling(z)
  <2> SUFFICES ASSUME NEW h \in 1..(Len(s) - 1), z[h + 1].fn # Handler PROVE z[h].pc = "body"
    BY DEF Calling
  <2>1. h + 1 \in 1..Len(s) /\ z[h] = s[h]
    OBVIOUS
  <2>2. s[h + 1].fn # Handler
    BY <1>1, <2>1
  <2> QED  BY <2>1, <2>2 DEF Told, Calling
<1>4. \A d \in 1..Len(z) : Reported(z[d], d)
  BY <1>1 DEF Told
<1> QED  BY <1>2, <1>3, <1>4 DEF Told

LEMMA AddTold ==
  ASSUME NEW s \in Seq(Frames), NEW z \in Seq(Frames), NEW c,
         Len(z) = Len(s) + 1, \A i \in 1..Len(s) : z[i] = s[i],
         Told(s, c), z[Len(z)].pc \in {"begin", "body", "unblock"}, AnswersAt(z, Len(z)),
         s # <<>> /\ z[Len(z)].fn # Handler => s[Len(s)].pc = "body"
  PROVE  Told(z, c)
<1>1. \A h \in 1..Len(z) : h = Len(z) \/ (h \in 1..Len(s) /\ z[h] = s[h])
  OBVIOUS
<1>2. Answers(z)
  <2> SUFFICES ASSUME NEW h \in 1..Len(s) PROVE AnswersAt(z, h)
    BY <1>1 DEF Answers
  <2>1. z[h] = s[h] /\ (h > 1 => h - 1 \in 1..Len(s))
    OBVIOUS
  <2>2. h > 1 => z[h - 1] = s[h - 1]
    BY <2>1
  <2> QED  BY <2>1, <2>2 DEF Told, Answers, AnswersAt
<1>3. Calling(z)
  <2> SUFFICES ASSUME NEW h \in 1..Len(s), z[h + 1].fn # Handler PROVE z[h].pc = "body"
    BY DEF Calling
  <2>1. CASE h = Len(s)
    BY <2>1
  <2>2. CASE h # Len(s)
    <3>1. h \in 1..(Len(s) - 1) /\ z[h] = s[h] /\ z[h + 1] = s[h + 1]
      BY <2>2
    <3> QED  BY <3>1 DEF Told, Calling
  <2> QED  BY <2>1, <2>2
<1>4. Recorded(z[Len(z)], Len(z), c) /\ Reported(z[Len(z)], Len(z))
  BY DEF Recorded, Reported
<1>5. \A d \in 1..Len(z) : Reported(z[d], d)
  BY <1>1, <1>4 DEF Told
<1> QED  BY <1>2, <1>3, <1>4, <1>5 DEF Told

\* The activation that called has its body to go on with.
LEMMA DropTold ==
  ASSUME NEW s \in Seq(Frames), NEW z \in Seq(Frames), NEW c,
         s # <<>>, Len(z) = Len(s) - 1, \A i \in 1..(Len(s) - 1) : z[i] = s[i],
         Told(s, c), s[Len(s)].fn # Handler
  PROVE  Told(z, c)
<1>1. \A h \in 1..Len(z) : h \in 1..Len(s) /\ z[h] = s[h]
  OBVIOUS
<1>2. Answers(z)
  <2> SUFFICES ASSUME NEW h \in 1..Len(z) PROVE AnswersAt(z, h)
    BY DEF Answers
  <2>1. h \in 1..Len(s) /\ z[h] = s[h] /\ (h > 1 => h - 1 \in 1..Len(z))
    BY <1>1
  <2>2. h > 1 => z[h - 1] = s[h - 1]
    BY <2>1
  <2> QED  BY <2>1, <2>2 DEF Told, Answers, AnswersAt
<1>3. Calling(z)
  <2> SUFFICES ASSUME NEW h \in 1..(Len(z) - 1), z[h + 1].fn # Handler PROVE z[h].pc = "body"
    BY DEF Calling
  <2>1. h \in 1..(Len(s) - 1) /\ z[h] = s[h] /\ z[h + 1] = s[h + 1]
    BY <1>1
  <2> QED  BY <2>1 DEF Told, Calling
<1>4. ASSUME z # <<>> PROVE Recorded(z[Len(z)], Len(z), c)
  <2>1. Len(s) - 1 \in 1..(Len(s) - 1) /\ (Len(s) - 1) + 1 = Len(s) /\ z[Len(z)] = s[Len(s) - 1]
    BY <1>4
  <2>2. s[Len(s) - 1].pc = "body"
    BY <2>1 DEF Told, Calling
  <2> QED  BY <2>1, <2>2 DEF Recorded
<1> QED  BY <1>1, <1>2, <1>3, <1>4 DEF Told

-----------------------------------------------------------------------------
(* Steps of a thread *)

LEMMA ToldStep ==
  ASSUME ReportInv, NEW t \in Threads, raced => raced',
         \A u \in Threads : u # t => stack'[u] = stack[u] /\ callStack'[u] = callStack[u],
         ~ raced' => Told(stack'[t], callStack'[t])
  PROVE  ReportInv'
BY DEF ReportInv

LEMMA ToldFrozen ==
  ASSUME ReportInv, UNCHANGED <<stack, callStack>>, raced => raced'
  PROVE  ReportInv'
BY DEF ReportInv

\* The innermost activation changes; if it is a handler, neither its signal nor
\* its target does.
LEMMA SetTopTold ==
  ASSUME IInv, ReportInv, NEW t \in Threads, stack[t] # <<>>, NEW r \in Frames, SetTop(t, r),
         \A u \in Threads : u # t => callStack'[u] = callStack[u], raced => raced',
         r.fn = Top(t).fn,
         r.fn = Handler => /\ r.sig = Top(t).sig
                           /\ HasTarget(r) => HasTarget(Top(t)) /\ r.target = Top(t).target,
         ~ raced' => /\ Recorded(r, Len(stack[t]), callStack'[t])
                     /\ Reported(r, Len(stack[t]))
  PROVE  ReportInv'
<1> DEFINE s == stack[t]  z == stack'[t]  c == callStack[t]  e == callStack'[t]
<1>1. /\ s \in Seq(Frames) /\ s # <<>> /\ s[Len(s)] = Top(t)
      /\ Len(s) \in 1..Len(s) /\ stack \in [Threads -> Seq(Frames)]
  BY ThreadLemma
<1>2. /\ z \in Seq(Frames) /\ Len(z) = Len(s) /\ z[Len(s)] = r
      /\ \A i \in 1..(Len(s) - 1) : z[i] = s[i]
      /\ \A u \in Threads : u # t => stack'[u] = stack[u]
  BY <1>1, SetTopLemma
<1> SUFFICES ASSUME ~ raced' PROVE Told(z, e)
  BY <1>2, ToldStep
<1>3. Told(s, c) /\ Recorded(r, Len(s), e) /\ Reported(r, Len(s))
  BY DEF ReportInv
<1> HIDE DEF s, z, c, e
<1>4. AnswersAt(s, Len(s))
  BY <1>1, <1>3 DEF Told, Answers
<1>5. Len(s) > 1 => z[Len(s) - 1] = s[Len(s) - 1]
  <2>1. Len(s) > 1 => Len(s) - 1 \in 1..(Len(s) - 1)
    BY <1>1
  <2> QED  BY <1>2, <2>1
<1>6. AnswersAt(z, Len(s))
  BY <1>1, <1>2, <1>4, <1>5 DEF AnswersAt
<1> QED  BY <1>1, <1>2, <1>3, <1>6, ReplaceTold

LEMMA GotoKeeps ==
  ASSUME NEW f \in Frames, NEW p
  PROVE  [f EXCEPT !.pc = p].sig = f.sig
BY DEF Frames

LEMMA GotoTold ==
  ASSUME IInv, ReportInv, NEW t \in Threads, stack[t] # <<>>,
         NEW p \in FunctionPCs \union HandlerPCs, Goto(t, p),
         callStack' = callStack, raced => raced',
         p \notin {"top", "unlock", "raise", "report"},
         p = "longjmp" => Top(t).pc = "unlock"
  PROVE  ReportInv'
<1> DEFINE r == [Top(t) EXCEPT !.pc = p]
<1>1. /\ r \in Frames /\ r.fn = Top(t).fn /\ r.pc = p /\ r.sig = Top(t).sig
      /\ r.target = Top(t).target
  <2>1. Top(t) \in Frames
    BY ThreadLemma
  <2> QED  BY <2>1, GotoFrame, GotoKeeps
<1>2. SetTop(t, r)
  BY DEF Goto
<1> HIDE DEF r
<1>3. HasTarget(r) => HasTarget(Top(t))
  BY <1>1 DEF HasTarget
<1>4. Reported(r, Len(stack[t]))
  BY <1>1 DEF Reported
<1>5. ~ raced => Recorded(Top(t), Len(stack[t]), callStack[t])
  BY ThreadLemma DEF ReportInv, Told
<1>6. ~ raced => Recorded(r, Len(stack[t]), callStack[t])
  BY <1>1, <1>5 DEF Recorded
<1> QED  BY <1>1, <1>2, <1>3, <1>4, <1>6, SetTopTold

LEMMA AdvanceTold ==
  ASSUME IInv, ReportInv, NEW t \in Threads, stack[t] # <<>>, Advance(t),
         callStack' = callStack, raced => raced', Top(t).pc \in {"body", "naming"}
  PROVE  ReportInv'
<1> DEFINE r == [Top(t) EXCEPT !.pc = "body", !.ip = @ + 1]
<1>1. r \in Frames /\ r.fn = Top(t).fn /\ r.pc = "body"
  BY ThreadLemma, AdvanceFrame DEF FunctionPCs
<1>2. SetTop(t, r)
  BY DEF Advance
<1> HIDE DEF r
<1>3. r.fn # Handler
  BY <1>1, ThreadLemma DEF Sound, Shape, HandlerPCs
<1>4. Reported(r, Len(stack[t])) /\ Recorded(r, Len(stack[t]), callStack[t])
  BY <1>1 DEF Reported, Recorded
<1> QED  BY <1>1, <1>2, <1>3, <1>4, SetTopTold

\* A signal comes.
LEMMA DeliverTold ==
  ASSUME IInv, ReportInv, NEW t \in Threads, stack[t] # <<>>, NEW sig \in Signals,
         Deliver(t, sig), callStack' = callStack, raced => raced',
         ~ raced' => \/ sig = "SIGINT"
                     \/ Armed(Top(t)) /\ AtFault(Top(t), sig)
                     \/ InCriticalSection(Top(t))
  PROVE  ReportInv'
<1>1. CASE UNCHANGED stack
  BY <1>1, ToldFrozen
<1>2. CASE Push(t, HandlerFrame(sig))
  <2> DEFINE s == stack[t]  z == stack'[t]  c == callStack[t]  r == HandlerFrame(sig)
  <2>1. /\ s \in Seq(Frames) /\ s[Len(s)] = Top(t) /\ s # <<>>
        /\ Len(s) \in 1..Len(s) /\ stack \in [Threads -> Seq(Frames)]
    BY ThreadLemma
  <2>2. r \in Frames /\ r.pc = "unblock" /\ r.fn = Handler /\ r.sig = sig
    BY HandlerFrameType DEF HandlerFrame
  <2>3. /\ z \in Seq(Frames) /\ Len(z) = Len(s) + 1 /\ z[Len(s) + 1] = r
        /\ \A i \in 1..Len(s) : z[i] = s[i]
        /\ \A u \in Threads : u # t => stack'[u] = stack[u]
    BY <1>2, <2>1, <2>2, PushLemma
  <2> SUFFICES ASSUME ~ raced' PROVE Told(z, c)
    BY <2>3, ToldStep
  <2>4. Told(s, c)
    BY DEF ReportInv
  <2> HIDE DEF s, z, c, r
  <2>5. z[Len(z) - 1] = Top(t) /\ Len(z) > 1
    BY <2>1, <2>3
  <2>6. AnswersAt(z, Len(z))
    BY <2>2, <2>3, <2>5 DEF AnswersAt, HasTarget
  <2> QED  BY <2>1, <2>2, <2>3, <2>4, <2>6, AddTold
<1> QED  BY <1>1, <1>2 DEF Deliver

\* The steps in which the innermost activation moves on by itself.
LEMMA MovesTold ==
  ASSUME IInv, ReportInv, NEW t \in Threads,
         \/ Join(t) \/ InitLock(t) \/ InitUnlock(t) \/ SigAction(t) \/ Work(t) \/ KeyPressed(t)
         \/ Begin(t) \/ Report(t) \/ Unblock(t) \/ Lock(t) \/ Unlock(t)
  PROVE  ReportInv'
<1>1. CASE Join(t) \/ InitUnlock(t) \/ SigAction(t) \/ Work(t) \/ KeyPressed(t)
  BY <1>1, AdvanceTold DEF Join, InitUnlock, SigAction, Work, KeyPressed, Running, At
<1>2. CASE InitLock(t) \/ Begin(t) \/ Report(t) \/ Unblock(t) \/ Lock(t) \/ Unlock(t)
  <2>1. {"naming", "pushing", "return", "lock", "record", "longjmp"}
          \subseteq FunctionPCs \union HandlerPCs
    BY DEF FunctionPCs, HandlerPCs
  <2> QED  BY <1>2, <2>1, GotoTold DEF InitLock, Begin, Report, Unblock, Lock, Unlock, Running, At
<1> QED  BY <1>1, <1>2

LEMMA RecordTold == ASSUME IInv, ReportInv, NEW t \in Threads, Record(t) PROVE ReportInv'
<1> DEFINE r == [Top(t) EXCEPT !.pc = "top"]
<1>1. /\ stack[t] # <<>> /\ SetTop(t, r) /\ raced' = raced
      /\ callStack' = [callStack EXCEPT ![t] = Len(stack[t]) - 1]
  BY DEF Record, At, Goto, Depth
<1>2. r \in Frames /\ r.fn = Top(t).fn /\ r.pc = "top" /\ r.sig = Top(t).sig
  <2>1. "top" \in FunctionPCs \union HandlerPCs
    BY DEF HandlerPCs
  <2> QED  BY <1>1, <2>1, ThreadLemma, GotoFrame, GotoKeeps
<1> HIDE DEF r
<1>3. callStack'[t] = Len(stack[t]) - 1 /\ \A u \in Threads : u # t => callStack'[u] = callStack[u]
  BY <1>1 DEF IInv, TypeOK
<1>4. ~ HasTarget(r) /\ Reported(r, Len(stack[t])) /\ Recorded(r, Len(stack[t]), callStack'[t])
  BY <1>2, <1>3 DEF HasTarget, Reported, Recorded
<1> QED  BY <1>1, <1>2, <1>3, <1>4, SetTopTold

LEMMA CorruptTold ==
  ASSUME ReportInv, NEW t \in Threads, NEW m, Corrupt(t, m) PROVE ReportInv'
BY ToldFrozen DEF Corrupt

LEMMA SymboliseTold == ASSUME IInv, ReportInv, NEW t \in Threads, Symbolise(t) PROVE ReportInv'
<1>1. /\ stack[t] # <<>> /\ Top(t).pc = "record" /\ callStack' = callStack /\ (raced => raced')
  BY DEF Symbolise, At
<1>2. CASE Goto(t, "recording")
  <2>1. "recording" \in FunctionPCs \union HandlerPCs
    BY DEF HandlerPCs
  <2> QED  BY <1>1, <1>2, <2>1, GotoTold
<1>3. CASE UNCHANGED stack
  BY <1>1, <1>3, ToldFrozen
<1> QED  BY <1>2, <1>3 DEF Symbolise

LEMMA PushContextTold == ASSUME IInv, ReportInv, NEW t \in Threads, PushContext(t) PROVE ReportInv'
<1>1. CASE Corrupt(t, "jump")
  BY <1>1, CorruptTold
<1>2. CASE ~ Corrupt(t, "jump")
  <2>1. "body" \in FunctionPCs \union HandlerPCs
    BY DEF FunctionPCs
  <2> QED  BY <1>2, <2>1, GotoTold DEF PushContext, At
<1> QED  BY <1>1, <1>2

LEMMA EndTold == ASSUME IInv, ReportInv, NEW t \in Threads, End(t) PROVE ReportInv'
<1>1. CASE Corrupt(t, "jump")
  BY <1>1, CorruptTold
<1>2. CASE UNCHANGED <<stack, callStack, raced>>
  BY <1>2, ToldFrozen
<1>3. CASE Goto(t, "return") /\ callStack' = callStack /\ (raced => raced')
  <2>1. "return" \in FunctionPCs \union HandlerPCs
    BY DEF FunctionPCs
  <2> QED  BY <1>3, <2>1, GotoTold DEF End, At
<1> QED  BY <1>1, <1>2, <1>3 DEF End

\* The exception carries the call stack that was recorded for this fault.
LEMMA RaiseTold == ASSUME IInv, ReportInv, NEW t \in Threads, Raise(t) PROVE ReportInv'
<1>1. CASE Corrupt(t, "callStack") \/ Corrupt(t, "name")
  BY <1>1, CorruptTold
<1>2. CASE ~ (Corrupt(t, "callStack") \/ Corrupt(t, "name"))
  <2> DEFINE race == Racing(t, "callStack") \/ Racing(t, "name")
  <2>1. /\ stack[t] # <<>> /\ Top(t).pc = "raise" /\ callStack' = callStack
        /\ raced' = (raced \/ race)
    BY <1>2 DEF Raise, At
  <2>2. PICK trace \in {callStack[t]} \union (IF race THEN {0} ELSE {}) :
           SetTop(t, [Top(t) EXCEPT !.pc = "report", !.trace = trace])
    BY <1>2 DEF Raise
  <2> DEFINE r == [Top(t) EXCEPT !.pc = "report", !.trace = trace]
  <2>3. Top(t) \in Frames /\ trace \in Nat /\ Top(t) = stack[t][Len(stack[t])]
    BY <2>1, ThreadLemma DEF IInv, TypeOK
  <2>4. /\ r \in Frames /\ r.pc = "report" /\ r.fn = Top(t).fn /\ r.ip = Top(t).ip
        /\ r.sig = Top(t).sig /\ r.trace = trace
    BY <2>3 DEF Frames, FunctionPCs
  <2>5. SetTop(t, r)
    BY <2>2
  <2> HIDE DEF r
  <2>6. Recorded(r, Len(stack[t]), callStack[t]) /\ ~ HasTarget(r)
    BY <2>4 DEF Recorded, HasTarget
  <2>7. ASSUME ~ raced' PROVE Reported(r, Len(stack[t]))
    <3>1. trace = callStack[t] /\ Recorded(Top(t), Len(stack[t]), callStack[t])
      BY <2>1, <2>2, <2>3, <2>7 DEF ReportInv, Told
    <3> QED  BY <2>1, <2>4, <3>1 DEF Recorded, Reported, AtFault
  <2> QED  BY <2>1, <2>4, <2>5, <2>6, <2>7, SetTopTold
<1> QED  BY <1>1, <1>2

LEMMA ReturnTold == ASSUME IInv, ReportInv, NEW t \in Threads, Return(t) PROVE ReportInv'
<1> DEFINE s == stack[t]  z == stack'[t]  c == callStack[t]
<1>1. stack[t] # <<>> /\ Pop(t) /\ callStack' = callStack /\ raced' = raced
  BY DEF Return, At
<1>2. /\ s \in Seq(Frames) /\ s[Len(s)] = Top(t) /\ stack \in [Threads -> Seq(Frames)]
      /\ Len(s) \in 1..Len(s) /\ Shape(s)
  BY <1>1, ThreadLemma DEF Sound
<1>3. Top(t).fn # Handler
  BY <1>2 DEF Return, At, Shape, HandlerPCs
<1>4. /\ z \in Seq(Frames) /\ Len(z) = Len(s) - 1
      /\ \A i \in 1..(Len(s) - 1) : z[i] = s[i]
      /\ \A u \in Threads : u # t => stack'[u] = stack[u]
  BY <1>1, <1>2, PopLemma
<1> SUFFICES ASSUME ~ raced' PROVE Told(z, c)
  BY <1>1, <1>4, ToldStep
<1>5. Told(s, c)
  BY <1>1 DEF ReportInv
<1> HIDE DEF s, z, c
<1> QED  BY <1>1, <1>2, <1>3, <1>4, <1>5, DropTold DEF s

LEMMA CallTold == ASSUME IInv, ReportInv, NEW t \in Threads, Call(t) PROVE ReportInv'
<1> DEFINE f == [Top(t) EXCEPT !.ip = @ + 1]  r == NewFrame(Operand(t))
           s == stack[t]  c == callStack[t]  y == [s EXCEPT ![Len(s)] = f]
           z == Append(y, r)
<1>1. /\ stack[t] # <<>> /\ Top(t).pc = "body" /\ Operand(t) \in Functions
      /\ Top(t).fn \in Functions
  BY OperandLemma DEF Call, IInv, Sound
<1>2. /\ s \in Seq(Frames) /\ s # <<>> /\ s[Len(s)] = Top(t)
      /\ stack \in [Threads -> Seq(Frames)] /\ Len(s) \in 1..Len(s) /\ Top(t) \in Frames
  BY <1>1, ThreadLemma
<1>3. f \in Frames /\ f.fn = Top(t).fn /\ f.pc = "body"
  BY <1>1, <1>2, NextFrame
<1>4. r \in Frames /\ r.fn # Handler /\ r.pc \in {"begin", "body"}
  BY <1>1, NewFrameType
<1>5. stack' = [stack EXCEPT ![t] = z] /\ callStack' = callStack /\ raced' = raced
  BY DEF Call, Depth
<1> HIDE DEF f, r, s, c, z
<1>6. /\ y \in Seq(Frames) /\ Len(y) = Len(s) /\ y[Len(s)] = f
      /\ \A i \in 1..(Len(s) - 1) : y[i] = s[i]
  BY <1>2, <1>3, ExceptSeq
<1> HIDE DEF y
<1>7. /\ z \in Seq(Frames) /\ Len(z) = Len(y) + 1 /\ z[Len(z)] = r
      /\ \A i \in 1..Len(y) : z[i] = y[i]
  BY <1>4, <1>6, AppendProperties DEF z
<1>8. stack'[t] = z /\ \A u \in Threads : u # t => stack'[u] = stack[u]
  BY <1>2, <1>5
<1> SUFFICES ASSUME ~ raced' PROVE Told(z, c)
  BY <1>5, <1>8, ToldStep DEF c
<1>9. Told(s, c)
  BY <1>5 DEF ReportInv, s, c
<1>10. Top(t).fn # Handler
  BY <1>1, FunctionAssumption
<1>11. Told(y, c)
  <2>1. AnswersAt(y, Len(s)) /\ Recorded(f, Len(s), c) /\ Reported(f, Len(s))
    BY <1>3, <1>6, <1>10 DEF AnswersAt, Recorded, Reported
  <2> QED  BY <1>2, <1>3, <1>6, <1>9, <2>1, ReplaceTold
<1>12. AnswersAt(z, Len(z))
  BY <1>4, <1>7 DEF AnswersAt
<1> QED  BY <1>2, <1>3, <1>4, <1>6, <1>7, <1>11, <1>12, AddTold

LEMMA SpawnTold == ASSUME IInv, ReportInv, NEW t \in Threads, Spawn(t) PROVE ReportInv'
<1> DEFINE u == Operand(t)  f == [Top(t) EXCEPT !.ip = @ + 1]  r == NewFrame(Entry[u])
           s == stack[t]  y == [s EXCEPT ![Len(s)] = f]  x == <<r>>
<1>1. stack[t] # <<>> /\ Top(t).pc = "body" /\ u \in Threads /\ Top(t).fn \in Functions
  BY OperandLemma DEF Spawn, IInv, Sound
<1>2. /\ s \in Seq(Frames) /\ s # <<>> /\ s[Len(s)] = Top(t)
      /\ stack \in [Threads -> Seq(Frames)] /\ Len(s) \in 1..Len(s) /\ Top(t) \in Frames
  BY <1>1, ThreadLemma
<1>3. f \in Frames /\ f.fn = Top(t).fn /\ f.pc = "body"
  BY <1>1, <1>2, NextFrame
<1>4. r \in Frames /\ r.fn # Handler /\ r.pc \in {"begin", "body"}
  BY <1>1, NewFrameType, ProgramAssumption
<1>5. /\ u # t /\ stack' = [stack EXCEPT ![t] = y, ![u] = x]
      /\ callStack' = callStack /\ raced' = raced
  BY DEF Spawn, Depth
<1>6. Len(x) = 1 /\ x[1] = r
  OBVIOUS
<1> HIDE DEF u, f, r, s, x
<1>7. /\ y \in Seq(Frames) /\ Len(y) = Len(s) /\ y[Len(s)] = f
      /\ \A i \in 1..(Len(s) - 1) : y[i] = s[i]
  BY <1>2, <1>3, ExceptSeq
<1> HIDE DEF y
<1>8. /\ stack'[t] = y /\ stack'[u] = x
      /\ \A v \in Threads : v # t /\ v # u => stack'[v] = stack[v]
  BY <1>1, <1>2, <1>5
<1> SUFFICES ASSUME ~ raced, NEW v \in Threads PROVE Told(stack'[v], callStack[v])
  BY <1>5 DEF ReportInv
<1>9. CASE v = t
  <2>1. Top(t).fn # Handler
    BY <1>1, FunctionAssumption
  <2>2. AnswersAt(y, Len(s)) /\ Recorded(f, Len(s), callStack[t]) /\ Reported(f, Len(s))
    BY <1>3, <1>7, <2>1 DEF AnswersAt, Recorded, Reported
  <2>3. Told(s, callStack[t])
    BY DEF ReportInv, s
  <2>4. Told(y, callStack[t])
    BY <1>2, <1>3, <1>7, <2>2, <2>3, ReplaceTold
  <2> QED  BY <1>8, <1>9, <2>4
<1>10. CASE v = u
  <2>1. \A h \in 1..Len(x) : x[h] = r
    BY <1>6
  <2>2. Answers(x) /\ Calling(x)
    BY <1>4, <1>6, <2>1 DEF Answers, AnswersAt, Calling
  <2>3. Recorded(x[Len(x)], Len(x), callStack[v]) /\ \A d \in 1..Len(x) : Reported(x[d], d)
    BY <1>4, <1>6, <2>1 DEF Recorded, Reported
  <2> QED  BY <1>8, <1>10, <2>2, <2>3 DEF Told
<1>11. CASE v # t /\ v # u
  BY <1>8, <1>11 DEF ReportInv
<1> QED  BY <1>9, <1>10, <1>11

-----------------------------------------------------------------------------
(* The steps of a fault, from the signal to the jump *)

\* A handler that has the mutex and sits on an activation in its guarded body
\* finds the context of that one.
LEMMA OwnContext ==
  ASSUME IInv, GuardInv, ~ raced, NEW t \in Threads, stack[t] # <<>>, Top(t).pc = "top",
         Len(stack[t]) > 1, Armed(stack[t][Len(stack[t]) - 1])
  PROVE  jump[t] # <<>> /\ jump[t][Len(jump[t])] = Len(stack[t]) - 1
<1> DEFINE s == stack[t]  j == jump[t]  d == Len(s) - 1
<1>1. /\ s \in Seq(Frames) /\ j \in Seq(Nat) /\ s[Len(s)] = Top(t) /\ Ready(s, j)
      /\ ContextsSound(s, j) /\ d \in 1..Len(s) /\ Len(s) \in Nat /\ d < Len(s)
  BY ThreadLemma DEF GuardInv, Sound
<1>2. s[Len(s)].pc = "top" /\ Armed(s[d])
  BY <1>1
<1> HIDE DEF s, j, d
<1>3. ~ Armed(s[Len(s)]) /\ ~ HasTarget(s[Len(s)])
  BY <1>2 DEF Armed, HasTarget
<1>4. ASSUME NEW h \in 1..Len(s), HasTarget(s[h]) PROVE s[h].target # d
  <2>1. s[h].target \in 1..(h - 1) /\ h # Len(s)
    BY <1>1, <1>3, <1>4 DEF ContextsSound
  <2> QED  BY <1>1, <2>1 DEF d
<1>5. PICK i \in 1..Len(j) : j[i] = d
  BY <1>1, <1>2, <1>4 DEF Ready, Covered
<1>6. j # <<>> /\ Len(j) \in 1..Len(j)
  BY <1>1, <1>5
<1>7. j[Len(j)] \in 1..Len(s) /\ j[Len(j)] # Len(s)
  BY <1>1, <1>3, <1>6 DEF ContextsSound
<1>8. i = Len(j) \/ i < Len(j)
  BY <1>1, <1>5, <1>6
<1>9. i < Len(j) => j[i] < j[Len(j)]
  BY <1>1, <1>5, <1>6 DEF ContextsSound
<1>10. d < j[Len(j)] => FALSE
  BY <1>1, <1>7 DEF d
<1> QED  BY <1>5, <1>6, <1>8, <1>9, <1>10 DEF s, j, d

\* The operation an activation faults at, in a program that guards its faults.
LEMMA FaultLemma ==
  ASSUME IInv, FaultsAreGuarded, NEW t \in Threads, Running(t, "fault")
  PROVE  Armed(Top(t)) /\ AtFault(Top(t), Operand(t))
<1> DEFINE f == Top(t)  b == Body[f.fn][f.ip]
<1>1. f.pc = "body" /\ f.fn \in Functions
  BY OperandLemma DEF IInv, Sound
<1>2. Body[f.fn] \in Seq(Operations)
  BY <1>1, ProgramAssumption
<1>3. f.ip \in 1..Len(Body[f.fn]) /\ b.op = "fault" /\ Operand(t) = b.arg
  BY DEF Running, Operand
<1>4. b \in Operations
  BY <1>2, <1>3
<1>5. f.fn \in Guarded
  BY <1>1, <1>3 DEF FaultsAreGuarded
<1>6. b = [op |-> "fault", arg |-> Operand(t)]
  <2> HIDE DEF b
  <2>1. b \in [op : {"fault"}, arg : Signals]
    BY <1>3, <1>4 DEF Operations
  <2> QED  BY <1>3, <2>1
<1> QED  BY <1>1, <1>3, <1>5, <1>6 DEF Armed, AtFault

LEMMA SignalTold ==
  ASSUME IInv, ReportInv, FaultsAreGuarded, NEW t \in Threads,
         Fault(t) \/ Interrupt(t) \/ NoContext(t)
  PROVE  ReportInv'
<1>1. CASE Fault(t)
  <2>1. stack[t] # <<>> /\ Operand(t) \in Signals /\ Armed(Top(t)) /\ AtFault(Top(t), Operand(t))
    BY <1>1, OperandLemma, FaultLemma DEF Fault, IInv, Sound
  <2> QED  BY <1>1, <2>1, DeliverTold DEF Fault
<1>2. CASE Interrupt(t)
  <2>1. "SIGINT" \in Signals
    BY DEF Signals
  <2> QED  BY <1>2, <2>1, DeliverTold DEF Interrupt
<1>3. CASE NoContext(t)
  <2>1. /\ "SIGSEGV" \in Signals /\ stack[t] # <<>> /\ callStack' = callStack
        /\ (raced => raced') /\ InCriticalSection(Top(t))
    BY <1>3 DEF Signals, NoContext, At, InCriticalSection
  <2>2. CASE Deliver(t, "SIGSEGV")
    BY <2>1, <2>2, DeliverTold
  <2>3. CASE UNCHANGED stack
    BY <2>1, <2>3, ToldFrozen
  <2> QED  BY <1>3, <2>2, <2>3 DEF NoContext
<1> QED  BY <1>1, <1>2, <1>3

LEMMA TakeContextTold ==
  ASSUME IInv, GuardInv, ReportInv, NEW t \in Threads, TakeContext(t) PROVE ReportInv'
<1> DEFINE d == jump[t][Len(jump[t])]  r == [Top(t) EXCEPT !.pc = "unlock", !.target = d]
           s == stack[t]  z == stack'[t]  c == callStack[t]
<1>1. /\ stack[t] # <<>> /\ Top(t).pc = "top" /\ jump[t] # <<>> /\ SetTop(t, r)
      /\ callStack' = callStack /\ (raced => raced')
  BY DEF TakeContext, At
<1>2. /\ s \in Seq(Frames) /\ s # <<>> /\ s[Len(s)] = Top(t)
      /\ stack \in [Threads -> Seq(Frames)]
      /\ Len(s) \in 1..Len(s) /\ Top(t) \in Frames /\ Waiting(s)
      /\ jump[t] \in Seq(Nat)
  BY <1>1, ThreadLemma DEF Sound
<1>3. r \in Frames /\ r.fn = Top(t).fn /\ r.pc = "unlock" /\ r.target = d /\ r.sig = Top(t).sig
  <2>1. d \in Nat
    BY <1>1, <1>2
  <2> HIDE DEF d
  <2>2. r.sig = Top(t).sig
    BY <1>2 DEF Frames
  <2>3. r \in Frames /\ r.fn = Top(t).fn /\ r.pc = "unlock" /\ r.target = d
    BY <1>2, <2>1, TargetFrame
  <2> QED  BY <2>2, <2>3
<1>4. /\ z \in Seq(Frames) /\ Len(z) = Len(s) /\ z[Len(s)] = r
      /\ \A i \in 1..(Len(s) - 1) : z[i] = s[i]
      /\ \A u \in Threads : u # t => stack'[u] = stack[u]
  BY <1>1, <1>2, <1>3, SetTopLemma
<1> SUFFICES ASSUME ~ raced' PROVE Told(z, c)
  BY <1>1, <1>4, ToldStep
<1>5. Told(s, c)
  BY <1>1 DEF ReportInv
<1>6. Len(s) > 1 /\ Armed(s[Len(s) - 1]) => d = Len(s) - 1
  BY <1>1, OwnContext
<1> HIDE DEF d, r, s, z, c
<1>7. AnswersAt(z, Len(s))
  <2> SUFFICES ASSUME r.fn = Handler, r.sig # "SIGINT"
               PROVE  /\ Len(s) > 1
                      /\ Armed(s[Len(s) - 1]) /\ AtFault(s[Len(s) - 1], r.sig)
                      /\ r.target = Len(s) - 1
    <3>1. Len(s) > 1 => Len(s) - 1 \in 1..(Len(s) - 1)
      BY <1>2
    <3>2. Len(s) > 1 => z[Len(s) - 1] = s[Len(s) - 1]
      BY <1>4, <3>1
    <3> QED  BY <1>4, <3>2 DEF AnswersAt
  <2>1. AnswersAt(s, Len(s))
    BY <1>2, <1>5 DEF Told, Answers
  <2>2. Len(s) > 1 => ~ InCriticalSection(s[Len(s) - 1])
    <3>1. Len(s) > 1 => Len(s) - 1 \in 1..Len(s) /\ Len(s) - 1 < Len(s)
      BY <1>2
    <3> QED  BY <1>1, <1>2, <3>1 DEF Waiting
  <2> QED  BY <1>2, <1>3, <1>6, <2>1, <2>2 DEF AnswersAt
<1>8. Recorded(s[Len(s)], Len(s), c)
  BY <1>2, <1>5 DEF Told
<1>9. Recorded(r, Len(s), c) /\ Reported(r, Len(s))
  BY <1>1, <1>2, <1>3, <1>8 DEF Recorded, Reported
<1> QED  BY <1>2, <1>3, <1>4, <1>5, <1>7, <1>9, ReplaceTold

\* The function that faulted is entered again, at its fault and with its signal.
LEMMA LongJmpTold == ASSUME IInv, ReportInv, NEW t \in Threads, LongJmp(t) PROVE ReportInv'
<1> DEFINE s == stack[t]  e == callStack[t]  d == Top(t).target  c == SubSeq(s, 1, d)
           r == [s[d] EXCEPT !.pc = "raise", !.sig = Top(t).sig]
           z == [c EXCEPT ![d] = r]
<1>1. /\ stack[t] # <<>> /\ Top(t).pc = "longjmp" /\ stack' = [stack EXCEPT ![t] = z]
      /\ callStack' = callStack /\ raced' = raced
  BY DEF LongJmp, At
<1>2. /\ s \in Seq(Frames) /\ s # <<>> /\ s[Len(s)] = Top(t)
      /\ stack \in [Threads -> Seq(Frames)]
      /\ Len(s) \in 1..Len(s) /\ Top(t) \in Frames
      /\ ContextsSound(s, jump[t]) /\ Shape(s) /\ Waiting(s)
  BY <1>1, ThreadLemma DEF Sound
<1>3. /\ HasTarget(s[Len(s)]) /\ s[Len(s)].target = d /\ d \in 1..(Len(s) - 1) /\ Armed(s[d])
      /\ s[Len(s)].fn = Handler
  BY <1>1, <1>2 DEF HasTarget, ContextsSound, Shape, HandlerPCs
<1>4. s[d] \in Frames
  BY <1>2, <1>3
<1>5. /\ r \in Frames /\ r.pc = "raise" /\ r.fn = s[d].fn /\ r.ip = s[d].ip
      /\ r.sig = Top(t).sig
  <2>1. r.ip = s[d].ip /\ r.sig = Top(t).sig
    BY <1>4 DEF Frames
  <2> QED  BY <1>2, <1>4, <2>1, RaiseFrame
<1> HIDE DEF s, e, d, r, c
<1>6. c \in Seq(Frames) /\ Len(c) = d /\ \A i \in 1..d : c[i] = s[i]
  <2>1. \A i \in 1..d : s[i] \in Frames
    BY <1>2, <1>3
  <2>2. d \in Int /\ 1 \in Int /\ d >= 1 /\ d - 1 + 1 = d /\ \A i \in 1..d : 1 + i - 1 = i
    BY <1>3
  <2>3. /\ SubSeq(s, 1, d) \in Seq(Frames)
        /\ Len(SubSeq(s, 1, d)) = IF 1 <= d THEN d - 1 + 1 ELSE 0
        /\ \A i \in 1..(d - 1 + 1) : SubSeq(s, 1, d)[i] = s[1 + i - 1]
    BY <2>1, <2>2, SubSeqProperties
  <2> QED  BY <2>2, <2>3 DEF c
<1>7. /\ z \in Seq(Frames) /\ Len(z) = d
      /\ \A i \in 1..d : z[i] = IF i = d THEN r ELSE s[i]
  <2>1. d \in 1..Len(c)
    BY <1>3, <1>6
  <2>2. z \in Seq(Frames) /\ Len(z) = d /\ \A i \in 1..d : z[i] = IF i = d THEN r ELSE c[i]
    BY <1>5, <1>6, <2>1, ExceptSeq
  <2> HIDE DEF z
  <2> QED  BY <1>6, <2>2
<1> HIDE DEF z
<1>8. stack'[t] = z /\ \A u \in Threads : u # t => stack'[u] = stack[u]
  BY <1>1, <1>2
<1> SUFFICES ASSUME ~ raced' PROVE Told(z, e)
  BY <1>1, <1>8, ToldStep DEF e
<1>9. Told(s, e)
  BY <1>1 DEF ReportInv, s, e
<1>10. Len(s) \in Nat /\ d \in Nat /\ d >= 1 /\ d < Len(s) /\ \A h \in 1..d : h \in 1..Len(s)
  BY <1>2, <1>3
<1>11. s[d].fn # Handler
  <2>1. s[d].pc \notin HandlerPCs
    BY <1>3, <1>2 DEF Armed, HandlerPCs
  <2> QED  BY <1>2, <1>10, <2>1 DEF Shape
<1>12. e = Len(s) - 1
  BY <1>1, <1>2, <1>9 DEF Told, Recorded
<1>13. r.sig # "SIGINT" => d = Len(s) - 1 /\ AtFault(s[d], r.sig)
  <2>1. AnswersAt(s, Len(s))
    BY <1>2, <1>9 DEF Told, Answers
  <2>2. ~ InCriticalSection(s[Len(s) - 1])
    <3>1. Len(s) - 1 \in 1..Len(s) /\ Len(s) - 1 < Len(s)
      BY <1>10
    <3> QED  BY <1>1, <1>2, <3>1 DEF Waiting
  <2> QED  BY <1>2, <1>3, <1>5, <2>1, <2>2 DEF AnswersAt
<1>14. Recorded(r, d, e) /\ Reported(r, d)
  <2>1. e >= d
    BY <1>10, <1>12
  <2> QED  BY <1>5, <1>12, <1>13, <2>1 DEF Recorded, Reported, AtFault
<1>15. Answers(z)
  <2> SUFFICES ASSUME NEW h \in 1..d PROVE AnswersAt(z, h)
    BY <1>7 DEF Answers
  <2>1. CASE h = d
    BY <1>5, <1>7, <1>11, <2>1 DEF AnswersAt
  <2>2. CASE h # d
    <3>1. z[h] = s[h] /\ (h > 1 => h - 1 \in 1..d /\ h - 1 # d)
      BY <1>7, <1>10, <2>2
    <3>2. h > 1 => z[h - 1] = s[h - 1]
      BY <1>7, <3>1
    <3>3. AnswersAt(s, h)
      BY <1>9, <1>10 DEF Told, Answers
    <3> QED  BY <3>1, <3>2, <3>3 DEF AnswersAt
  <2> QED  BY <2>1, <2>2
<1>16. Calling(z)
  <2> SUFFICES ASSUME NEW h \in 1..(d - 1), z[h + 1].fn # Handler PROVE z[h].pc = "body"
    BY <1>7 DEF Calling
  <2>1. h \in 1..(Len(s) - 1) /\ z[h] = s[h] /\ h + 1 \in 1..d
    BY <1>7, <1>10
  <2>2. s[h + 1].fn # Handler
    BY <1>7, <1>11, <2>1
  <2> QED  BY <1>9, <2>1, <2>2 DEF Told, Calling
<1>17. \A h \in 1..Len(z) : Reported(z[h], h)
  BY <1>7, <1>9, <1>10, <1>14 DEF Told
<1>18. Recorded(z[Len(z)], Len(z), e)
  BY <1>7, <1>10, <1>14
<1> QED  BY <1>15, <1>16, <1>17, <1>18 DEF Told

LEMMA ReportInvariant ==
  ASSUME FaultsAreGuarded PROVE IInv /\ GuardInv /\ ReportInv /\ [Next]_vars => ReportInv'
<1> SUFFICES ASSUME IInv, GuardInv, ReportInv, [Next]_vars PROVE ReportInv'
  OBVIOUS
<1>1. CASE UNCHANGED vars
  BY <1>1, ToldFrozen DEF vars
<1>2. ASSUME NEW t \in Threads, Step(t) \/ KeyPressed(t) \/ Interrupt(t) PROVE ReportInv'
  BY <1>2, MovesTold, RecordTold, SymboliseTold, PushContextTold, EndTold, RaiseTold, ReturnTold,
     CallTold, SpawnTold, SignalTold, TakeContextTold, LongJmpTold
     DEF Step
<1> QED  BY <1>1, <1>2 DEF Next, Over

LEMMA ReportHolds == ASSUME FaultsAreGuarded PROVE Spec => []ReportInv
<1>1. Init => ReportInv
  <2> SUFFICES ASSUME Init, NEW t \in Threads PROVE Told(stack[t], callStack[t])
    BY DEF ReportInv
  <2> DEFINE r == NewFrame(Entry[Main])
  <2>1. r.fn # Handler /\ r.pc \in {"begin", "body"}
    BY NewFrameType, ProgramAssumption, ThreadsAssumption
  <2>2. stack[t] = <<r>> \/ stack[t] = <<>>
    BY DEF Init
  <2> HIDE DEF r
  <2>3. Len(stack[t]) \in 0..1 /\ \A h \in 1..Len(stack[t]) : stack[t][h] = r
    BY <2>2, SingleLemma
  <2> QED  BY <2>1, <2>3 DEF Told, Answers, AnswersAt, Calling, Recorded, Reported
<1> QED  BY <1>1, ReportInvariant, Invariance, GuardHolds, PTL DEF Spec

\* Every report is about the fault of its own body and carries the call stack
\* recorded for it, in a program whose faults are in guarded functions: the
\* entry that the handler writes without a lock (SystemUtilities.hpp:308) is
\* still the one the catch reads (SystemMacros.hpp:52-63).
THEOREM ReportsNameTheirFaults == ASSUME FaultsAreGuarded PROVE Spec => []ReportNamesItsFault
<1>1. TypeOK /\ ReportInv => ReportNamesItsFault
  <2> SUFFICES ASSUME TypeOK, ReportInv, ~ raced, NEW t \in Threads, NEW d \in 1..Depth(t),
                      stack[t][d].pc = "report"
               PROVE  LET f == stack[t][d] IN
                        IF f.sig = "SIGINT" THEN f.trace >= d
                        ELSE /\ f.ip <= Len(Body[f.fn])
                             /\ Body[f.fn][f.ip] = [op |-> "fault", arg |-> f.sig]
                             /\ f.trace = d
    BY DEF ReportNamesItsFault
  <2> DEFINE f == stack[t][d]
  <2>1. Reported(f, d)
    BY DEF ReportInv, Told, Depth
  <2>2. f.sig # "SIGINT" => f.ip \in 1..Len(Body[f.fn])
    BY <2>1 DEF Reported, AtFault
  <2> HIDE DEF f
  <2>3. f.sig # "SIGINT" => f.ip <= Len(Body[f.fn])
    BY <2>2
  <2> QED  BY <2>1, <2>3 DEF Reported, AtFault, f
<1> QED  BY <1>1, ReportHolds, TypeCorrect, PTL

-----------------------------------------------------------------------------
(* Without races and Ctrl-C, and with every fault guarded, there is at most  *)
(* one handler on a stack, and it is the innermost activation.               *)

Alone(s) ==
  \A h \in 1..Len(s) : s[h].fn = Handler => h = Len(s) /\ h > 1 /\ Armed(s[h - 1])

AloneInv == ~ raced /\ interrupts = 0 => \A t \in Threads : Alone(stack[t])

LEMMA AloneStep ==
  ASSUME AloneInv, NEW t \in Threads, raced => raced', interrupts' = 0 => interrupts = 0,
         \A u \in Threads : u # t => stack'[u] = stack[u],
         ~ raced' /\ interrupts' = 0 => Alone(stack'[t])
  PROVE  AloneInv'
BY DEF AloneInv

LEMMA AloneFrozen ==
  ASSUME AloneInv, UNCHANGED stack, raced => raced', interrupts' = 0 => interrupts = 0
  PROVE  AloneInv'
BY DEF AloneInv

\* The innermost activation of t goes on.
LEMMA SetTopAlone ==
  ASSUME IInv, AloneInv, NEW t \in Threads, stack[t] # <<>>, NEW r \in Frames, SetTop(t, r),
         r.fn = Top(t).fn, raced => raced', interrupts' = interrupts
  PROVE  AloneInv'
<1> DEFINE s == stack[t]  z == stack'[t]
<1>1. /\ s \in Seq(Frames) /\ s # <<>> /\ s[Len(s)] = Top(t)
      /\ Len(s) \in 1..Len(s) /\ stack \in [Threads -> Seq(Frames)]
  BY ThreadLemma
<1>2. /\ z \in Seq(Frames) /\ Len(z) = Len(s) /\ z[Len(s)] = r
      /\ \A i \in 1..(Len(s) - 1) : z[i] = s[i]
      /\ \A u \in Threads : u # t => stack'[u] = stack[u]
  BY <1>1, SetTopLemma
<1> SUFFICES ASSUME ~ raced', interrupts' = 0 PROVE Alone(z)
  BY <1>2, AloneStep
<1>3. Alone(s)
  BY DEF AloneInv
<1> HIDE DEF s, z
<1> SUFFICES ASSUME NEW h \in 1..Len(s), z[h].fn = Handler
             PROVE  h = Len(s) /\ h > 1 /\ Armed(z[h - 1])
  BY <1>2 DEF Alone
<1>4. s[h].fn = Handler
  BY <1>1, <1>2
<1>5. h = Len(s) /\ h > 1 /\ Armed(s[h - 1])
  BY <1>3, <1>4 DEF Alone
<1>6. h - 1 \in 1..(Len(s) - 1)
  BY <1>1, <1>5
<1> QED  BY <1>2, <1>5, <1>6

LEMMA GotoAlone ==
  ASSUME IInv, AloneInv, NEW t \in Threads, stack[t] # <<>>,
         NEW p \in FunctionPCs \union HandlerPCs, Goto(t, p),
         raced => raced', interrupts' = interrupts
  PROVE  AloneInv'
<1> DEFINE r == [Top(t) EXCEPT !.pc = p]
<1>1. r \in Frames /\ r.fn = Top(t).fn
  BY ThreadLemma, GotoFrame
<1>2. SetTop(t, r)
  BY DEF Goto
<1> HIDE DEF r
<1> QED  BY <1>1, <1>2, SetTopAlone

LEMMA AdvanceAlone ==
  ASSUME IInv, AloneInv, NEW t \in Threads, stack[t] # <<>>, Advance(t),
         raced => raced', interrupts' = interrupts
  PROVE  AloneInv'
<1> DEFINE r == [Top(t) EXCEPT !.pc = "body", !.ip = @ + 1]
<1>1. r \in Frames /\ r.fn = Top(t).fn
  BY ThreadLemma, AdvanceFrame DEF FunctionPCs
<1>2. SetTop(t, r)
  BY DEF Advance
<1> HIDE DEF r
<1> QED  BY <1>1, <1>2, SetTopAlone

\* The steps in which the innermost activation moves on by itself.
LEMMA MovesAlone ==
  ASSUME IInv, AloneInv, NEW t \in Threads,
         \/ Join(t) \/ InitLock(t) \/ InitUnlock(t) \/ SigAction(t) \/ Work(t) \/ KeyPressed(t)
         \/ Begin(t) \/ Report(t) \/ Unblock(t) \/ Lock(t) \/ Record(t) \/ Unlock(t)
  PROVE  AloneInv'
<1>1. CASE Join(t) \/ InitUnlock(t) \/ SigAction(t) \/ Work(t) \/ KeyPressed(t)
  BY <1>1, AdvanceAlone DEF Join, InitUnlock, SigAction, Work, KeyPressed, Running, At
<1>2. CASE \/ InitLock(t) \/ Begin(t) \/ Report(t) \/ Unblock(t) \/ Lock(t) \/ Record(t)
          \/ Unlock(t)
  <2>1. {"naming", "pushing", "return", "lock", "record", "top", "longjmp"}
          \subseteq FunctionPCs \union HandlerPCs
    BY DEF FunctionPCs, HandlerPCs
  <2> QED  BY <1>2, <2>1, GotoAlone
           DEF InitLock, Begin, Report, Unblock, Lock, Record, Unlock, Running, At
<1> QED  BY <1>1, <1>2

\* Those that may also end the process.
LEMMA ChecksAlone ==
  ASSUME IInv, AloneInv, NEW t \in Threads,
         Symbolise(t) \/ PushContext(t) \/ End(t) \/ Raise(t) \/ TakeContext(t)
  PROVE  AloneInv'
<1>1. stack[t] # <<>> /\ (raced => raced') /\ interrupts' = interrupts
  <2>1. stack[t] # <<>>
    BY DEF Symbolise, PushContext, End, Raise, TakeContext, At
  <2>2. raced => raced'
    BY DEF Symbolise, PushContext, End, Raise, TakeContext, Corrupt
  <2>3. interrupts' = interrupts
    BY DEF Symbolise, PushContext, End, Raise, TakeContext, Corrupt
  <2> QED  BY <2>1, <2>2, <2>3
<1>2. {"recording", "body", "return"} \subseteq FunctionPCs \union HandlerPCs
  BY DEF FunctionPCs, HandlerPCs
<1>3. CASE UNCHANGED stack
  BY <1>1, <1>3, AloneFrozen
<1>4. CASE Goto(t, "recording") \/ Goto(t, "body") \/ Goto(t, "return")
  BY <1>1, <1>2, <1>4, GotoAlone
<1>5. ASSUME NEW trace \in Nat, SetTop(t, [Top(t) EXCEPT !.pc = "report", !.trace = trace])
      PROVE  AloneInv'
  <2> DEFINE r == [Top(t) EXCEPT !.pc = "report", !.trace = trace]
  <2>1. r \in Frames /\ r.fn = Top(t).fn
    BY <1>1, ThreadLemma DEF Frames, FunctionPCs
  <2>2. SetTop(t, r)
    BY <1>5
  <2> HIDE DEF r
  <2> QED  BY <1>1, <2>1, <2>2, SetTopAlone
<1>6. ASSUME NEW d \in Nat, SetTop(t, [Top(t) EXCEPT !.pc = "unlock", !.target = d])
      PROVE  AloneInv'
  <2> DEFINE r == [Top(t) EXCEPT !.pc = "unlock", !.target = d]
  <2>1. r \in Frames /\ r.fn = Top(t).fn
    BY <1>1, ThreadLemma, TargetFrame
  <2>2. SetTop(t, r)
    BY <1>6
  <2> HIDE DEF r
  <2> QED  BY <1>1, <2>1, <2>2, SetTopAlone
<1>7. CASE Raise(t)
  <2>1. callStack[t] \in Nat
    BY DEF IInv, TypeOK
  <2> QED  BY <1>3, <1>5, <1>7, <2>1 DEF Raise, Corrupt
<1>8. CASE TakeContext(t)
  <2>1. jump[t][Len(jump[t])] \in Nat
    BY <1>8 DEF TakeContext, IInv, TypeOK
  <2> QED  BY <1>6, <1>8, <2>1 DEF TakeContext
<1>9. CASE Symbolise(t) \/ PushContext(t) \/ End(t)
  BY <1>3, <1>4, <1>9 DEF Symbolise, PushContext, End, Corrupt
<1> QED  BY <1>7, <1>8, <1>9

\* A stack whose innermost activation is a function has no handler.
LEMMA FlatLemma ==
  ASSUME IInv, NEW t \in Threads, stack[t] # <<>>, Top(t).fn # Handler
  PROVE  \A h \in 1..Len(stack[t]) : stack[t][h].fn # Handler
<1>1. /\ stack[t] \in Seq(Frames) /\ stack[t][Len(stack[t])] = Top(t)
      /\ Len(stack[t]) \in 1..Len(stack[t]) /\ Shape(stack[t])
  BY ThreadLemma DEF Sound
<1> QED  BY <1>1 DEF Shape

LEMMA ReturnAlone == ASSUME IInv, AloneInv, NEW t \in Threads, Return(t) PROVE AloneInv'
<1>1. stack[t] # <<>> /\ Pop(t) /\ raced' = raced /\ interrupts' = interrupts
  BY DEF Return, At
<1>2. /\ stack[t] \in Seq(Frames) /\ stack[t][Len(stack[t])] = Top(t)
      /\ stack \in [Threads -> Seq(Frames)] /\ Len(stack[t]) \in 1..Len(stack[t]) /\ Shape(stack[t])
  BY <1>1, ThreadLemma DEF Sound
<1>3. Top(t).fn # Handler
  BY <1>2 DEF Return, At, Shape, HandlerPCs
<1>4. /\ Len(stack'[t]) = Len(stack[t]) - 1
      /\ \A i \in 1..(Len(stack[t]) - 1) : stack'[t][i] = stack[t][i]
      /\ \A u \in Threads : u # t => stack'[u] = stack[u]
  BY <1>1, <1>2, PopLemma
<1>5. \A h \in 1..Len(stack'[t]) : h \in 1..Len(stack[t]) /\ stack'[t][h] = stack[t][h]
  BY <1>2, <1>4
<1>6. Alone(stack'[t])
  BY <1>1, <1>3, <1>5, FlatLemma DEF Alone
<1> QED  BY <1>1, <1>4, <1>6, AloneStep

LEMMA LongJmpAlone == ASSUME IInv, AloneInv, NEW t \in Threads, LongJmp(t) PROVE AloneInv'
<1> DEFINE s == stack[t]  d == Top(t).target  c == SubSeq(s, 1, d)
           r == [s[d] EXCEPT !.pc = "raise", !.sig = Top(t).sig]
           z == [c EXCEPT ![d] = r]
<1>1. /\ stack[t] # <<>> /\ Top(t).pc = "longjmp" /\ stack' = [stack EXCEPT ![t] = z]
      /\ raced' = raced /\ interrupts' = interrupts
  BY DEF LongJmp, At
<1>2. /\ s \in Seq(Frames) /\ s[Len(s)] = Top(t) /\ stack \in [Threads -> Seq(Frames)]
      /\ Len(s) \in 1..Len(s) /\ Top(t) \in Frames /\ ContextsSound(s, jump[t]) /\ Shape(s)
  BY <1>1, ThreadLemma DEF Sound
<1>3. d \in 1..(Len(s) - 1) /\ Armed(s[d])
  BY <1>1, <1>2 DEF HasTarget, ContextsSound
<1>4. s[d] \in Frames
  BY <1>2, <1>3
<1>5. r \in Frames /\ r.fn = s[d].fn
  BY <1>2, <1>4, RaiseFrame
<1> HIDE DEF s, d, r, c
<1>6. c \in Seq(Frames) /\ Len(c) = d /\ \A i \in 1..d : c[i] = s[i]
  <2>1. \A i \in 1..d : s[i] \in Frames
    BY <1>2, <1>3
  <2>2. d \in Int /\ 1 \in Int /\ d >= 1 /\ d - 1 + 1 = d /\ \A i \in 1..d : 1 + i - 1 = i
    BY <1>3
  <2>3. /\ SubSeq(s, 1, d) \in Seq(Frames)
        /\ Len(SubSeq(s, 1, d)) = IF 1 <= d THEN d - 1 + 1 ELSE 0
        /\ \A i \in 1..(d - 1 + 1) : SubSeq(s, 1, d)[i] = s[1 + i - 1]
    BY <2>1, <2>2, SubSeqProperties
  <2> QED  BY <2>2, <2>3 DEF c
<1>7. Len(z) = d /\ \A i \in 1..d : z[i] = IF i = d THEN r ELSE s[i]
  <2>1. d \in 1..Len(c)
    BY <1>3, <1>6
  <2>2. Len(z) = d /\ \A i \in 1..d : z[i] = IF i = d THEN r ELSE c[i]
    BY <1>5, <1>6, <2>1, ExceptSeq
  <2> HIDE DEF z
  <2> QED  BY <1>6, <2>2
<1> HIDE DEF z
<1>8. stack'[t] = z /\ \A u \in Threads : u # t => stack'[u] = stack[u]
  BY <1>1, <1>2
<1>9. \A h \in 1..d : s[h].fn # Handler
  <2>1. d \in 1..Len(s) /\ \A h \in 1..d : h \in 1..Len(s)
    BY <1>2, <1>3
  <2>2. s[d].fn # Handler
    BY <1>2, <1>3, <2>1 DEF Armed, Shape, HandlerPCs
  <2>3. \A h \in 1..d : h = d \/ h < d
    BY <1>3
  <2> QED  BY <1>2, <2>1, <2>2, <2>3 DEF Shape
<1>10. \A h \in 1..Len(z) : z[h].fn # Handler
  BY <1>5, <1>7, <1>9
<1>11. Alone(z)
  BY <1>10 DEF Alone
<1> QED  BY <1>1, <1>8, <1>11, AloneStep

LEMMA CallAlone == ASSUME IInv, AloneInv, NEW t \in Threads, Call(t) PROVE AloneInv'
<1> DEFINE f == [Top(t) EXCEPT !.ip = @ + 1]  r == NewFrame(Operand(t))
           s == stack[t]  y == [s EXCEPT ![Len(s)] = f]  z == Append(y, r)
<1>1. /\ stack[t] # <<>> /\ Top(t).pc = "body" /\ Operand(t) \in Functions
      /\ Top(t).fn \in Functions
  BY OperandLemma DEF Call, IInv, Sound
<1>2. /\ s \in Seq(Frames) /\ s # <<>> /\ s[Len(s)] = Top(t)
      /\ stack \in [Threads -> Seq(Frames)] /\ Len(s) \in 1..Len(s) /\ Top(t) \in Frames
  BY <1>1, ThreadLemma
<1>3. f \in Frames /\ f.fn = Top(t).fn
  BY <1>1, <1>2, NextFrame
<1>4. r \in Frames /\ r.fn # Handler
  BY <1>1, NewFrameType
<1>5. stack' = [stack EXCEPT ![t] = z] /\ raced' = raced /\ interrupts' = interrupts
  BY DEF Call, Depth
<1>6. \A h \in 1..Len(s) : s[h].fn # Handler
  BY <1>1, FunctionAssumption, FlatLemma DEF s
<1> HIDE DEF f, r, s, z
<1>7. /\ y \in Seq(Frames) /\ Len(y) = Len(s) /\ y[Len(s)] = f
      /\ \A i \in 1..(Len(s) - 1) : y[i] = s[i]
  BY <1>2, <1>3, ExceptSeq
<1> HIDE DEF y
<1>8. Len(z) = Len(y) + 1 /\ z[Len(z)] = r /\ \A i \in 1..Len(y) : z[i] = y[i]
  BY <1>4, <1>7, AppendProperties DEF z
<1>9. stack'[t] = z /\ \A u \in Threads : u # t => stack'[u] = stack[u]
  BY <1>2, <1>5
<1>10. \A h \in 1..Len(y) : y[h].fn # Handler
  BY <1>2, <1>3, <1>6, <1>7
<1>11. \A h \in 1..Len(z) : z[h].fn # Handler
  BY <1>2, <1>4, <1>7, <1>8, <1>10
<1>12. Alone(z)
  BY <1>11 DEF Alone
<1> QED  BY <1>5, <1>9, <1>12, AloneStep

LEMMA SpawnAlone == ASSUME IInv, AloneInv, NEW t \in Threads, Spawn(t) PROVE AloneInv'
<1> DEFINE u == Operand(t)  f == [Top(t) EXCEPT !.ip = @ + 1]  r == NewFrame(Entry[u])
           s == stack[t]  y == [s EXCEPT ![Len(s)] = f]  x == <<r>>
<1>1. stack[t] # <<>> /\ Top(t).pc = "body" /\ u \in Threads /\ Top(t).fn \in Functions
  BY OperandLemma DEF Spawn, IInv, Sound
<1>2. /\ s \in Seq(Frames) /\ s # <<>> /\ s[Len(s)] = Top(t)
      /\ stack \in [Threads -> Seq(Frames)] /\ Len(s) \in 1..Len(s) /\ Top(t) \in Frames
  BY <1>1, ThreadLemma
<1>3. f \in Frames /\ f.fn = Top(t).fn
  BY <1>1, <1>2, NextFrame
<1>4. r.fn # Handler
  BY <1>1, NewFrameType, ProgramAssumption
<1>5. /\ u # t /\ stack' = [stack EXCEPT ![t] = y, ![u] = x]
      /\ raced' = raced /\ interrupts' = interrupts
  BY DEF Spawn, Depth
<1>6. \A h \in 1..Len(x) : x[h].fn # Handler
  BY <1>4, SingleLemma
<1>7. \A h \in 1..Len(s) : s[h].fn # Handler
  BY <1>1, FunctionAssumption, FlatLemma DEF s
<1> HIDE DEF u, f, r, s, x
<1>8. /\ y \in Seq(Frames) /\ Len(y) = Len(s) /\ y[Len(s)] = f
      /\ \A i \in 1..(Len(s) - 1) : y[i] = s[i]
  BY <1>2, <1>3, ExceptSeq
<1> HIDE DEF y
<1>9. /\ stack'[t] = y /\ stack'[u] = x
      /\ \A v \in Threads : v # t /\ v # u => stack'[v] = stack[v]
  BY <1>1, <1>2, <1>5
<1>10. \A h \in 1..Len(y) : y[h].fn # Handler
  BY <1>2, <1>3, <1>7, <1>8
<1> SUFFICES ASSUME ~ raced, interrupts = 0, NEW v \in Threads PROVE Alone(stack'[v])
  BY <1>5 DEF AloneInv
<1> QED  BY <1>6, <1>9, <1>10 DEF AloneInv, Alone

\* A handler that is alone on its stack finds the context of what it interrupts.
LEMMA HandlerOnGuard ==
  ASSUME IInv, GuardInv, ~ raced, NEW t \in Threads, stack[t] # <<>>, Top(t).pc = "top",
         Alone(stack[t])
  PROVE  jump[t] # <<>>
<1>1. /\ Len(stack[t]) \in 1..Len(stack[t]) /\ stack[t][Len(stack[t])] = Top(t)
      /\ Shape(stack[t])
  BY ThreadLemma DEF Sound
<1>2. stack[t][Len(stack[t])].fn = Handler
  BY <1>1 DEF Shape, HandlerPCs
<1>3. Len(stack[t]) > 1 /\ Armed(stack[t][Len(stack[t]) - 1])
  BY <1>1, <1>2 DEF Alone
<1> QED  BY <1>3, OwnContext

\* A fault puts its handler on functions only; nothing else needs one.
LEMMA SignalAlone ==
  ASSUME IInv, GuardInv, ReportInv, AloneInv, FaultsAreGuarded, NEW t \in Threads,
         Fault(t) \/ Interrupt(t) \/ NoContext(t)
  PROVE  AloneInv'
<1>1. CASE Fault(t)
  <2>1. /\ stack[t] # <<>> /\ Operand(t) \in Signals /\ Armed(Top(t)) /\ Top(t).fn \in Functions
        /\ raced' = raced /\ interrupts' = interrupts /\ Deliver(t, Operand(t))
    BY <1>1, OperandLemma, FaultLemma DEF Fault, IInv, Sound
  <2>2. CASE UNCHANGED stack
    BY <2>1, <2>2, AloneFrozen
  <2>3. CASE Push(t, HandlerFrame(Operand(t)))
    <3> DEFINE s == stack[t]  z == stack'[t]  r == HandlerFrame(Operand(t))
    <3>1. /\ s \in Seq(Frames) /\ s[Len(s)] = Top(t) /\ Len(s) \in 1..Len(s)
          /\ stack \in [Threads -> Seq(Frames)] /\ r \in Frames
      BY <2>1, ThreadLemma, HandlerFrameType
    <3>2. /\ Len(z) = Len(s) + 1 /\ \A i \in 1..Len(s) : z[i] = s[i]
          /\ \A u \in Threads : u # t => stack'[u] = stack[u]
      BY <2>3, <3>1, PushLemma
    <3>3. \A h \in 1..Len(s) : s[h].fn # Handler
      BY <2>1, FlatLemma, FunctionAssumption
    <3> HIDE DEF s, z, r
    <3>4. Alone(z)
      <4> SUFFICES ASSUME NEW h \in 1..Len(z), z[h].fn = Handler
                   PROVE  h = Len(z) /\ h > 1 /\ Armed(z[h - 1])
        BY DEF Alone
      <4>1. h = Len(s) + 1
        BY <3>1, <3>2, <3>3
      <4>2. z[h - 1] = Top(t)
        BY <3>1, <3>2, <4>1
      <4> QED  BY <2>1, <3>1, <3>2, <4>1, <4>2
    <3> QED  BY <2>1, <3>2, <3>4, AloneStep DEF z
  <2> QED  BY <2>1, <2>2, <2>3 DEF Deliver
<1>2. CASE Interrupt(t)
  <2>1. interrupts \in Nat /\ interrupts' = interrupts + 1
    BY <1>2, BoundAssumption DEF IInv, TypeOK, Interrupt
  <2> QED  BY <2>1 DEF AloneInv
<1>3. CASE NoContext(t)
  <2>1. /\ stack[t] # <<>> /\ Top(t).pc = "top" /\ (~ raced' => ~ raced /\ jump[t] = <<>>)
        /\ interrupts' = interrupts
    BY <1>3 DEF NoContext, At
  <2> SUFFICES ASSUME ~ raced', interrupts' = 0 PROVE FALSE
    BY DEF AloneInv
  <2>2. Alone(stack[t]) /\ ~ raced
    BY <2>1 DEF AloneInv
  <2>3. jump[t] # <<>>
    BY <2>1, <2>2, HandlerOnGuard
  <2> QED  BY <2>1, <2>3
<1> QED  BY <1>1, <1>2, <1>3

LEMMA AloneInvariant ==
  ASSUME FaultsAreGuarded
  PROVE  IInv /\ GuardInv /\ ReportInv /\ AloneInv /\ [Next]_vars => AloneInv'
<1> SUFFICES ASSUME IInv, GuardInv, ReportInv, AloneInv, [Next]_vars PROVE AloneInv'
  OBVIOUS
<1>1. CASE UNCHANGED vars
  BY <1>1, AloneFrozen DEF vars
<1>2. ASSUME NEW t \in Threads, Step(t) \/ KeyPressed(t) \/ Interrupt(t) PROVE AloneInv'
  BY <1>2, MovesAlone, ChecksAlone, ReturnAlone, LongJmpAlone, CallAlone, SpawnAlone, SignalAlone
     DEF Step
<1> QED  BY <1>1, <1>2 DEF Next, Over

LEMMA AloneHolds == ASSUME FaultsAreGuarded PROVE Spec => []AloneInv
<1>1. Init => AloneInv
  <2> SUFFICES ASSUME Init, NEW t \in Threads PROVE Alone(stack[t])
    BY DEF AloneInv
  <2> DEFINE r == NewFrame(Entry[Main])
  <2>1. r.fn # Handler
    BY NewFrameType, ProgramAssumption, ThreadsAssumption
  <2>2. stack[t] = <<r>> \/ stack[t] = <<>>
    BY DEF Init
  <2> HIDE DEF r
  <2>3. \A h \in 1..Len(stack[t]) : stack[t][h] = r
    BY <2>2, SingleLemma
  <2> QED  BY <2>1, <2>3 DEF Alone
<1> QED  BY <1>1, AloneInvariant, Invariance, GuardHolds, ReportHolds, PTL DEF Spec

\* The handler of a fault finds the context of the body that faulted, whatever
\* calls and faults came before (SystemMacros.hpp:14 and :69,
\* SystemUtilities.hpp:312), in a program whose faults are in guarded functions
\* and as long as there is neither a race nor a Ctrl-C.
THEOREM FaultsHaveContexts == ASSUME FaultsAreGuarded PROVE Spec => []FaultHasContext
<1>1. IInv /\ GuardInv /\ AloneInv => FaultHasContext
  BY HandlerOnGuard DEF AloneInv, FaultHasContext, HandlerHasContext, At
<1> QED  BY <1>1, Invariance, GuardHolds, AloneHolds, PTL

\* Under the same conditions no handler waits for the mutex that its own thread
\* holds: no second handler comes between lock() and unlock()
\* (SystemUtilities.hpp:298).
THEOREM NoThreadWaitsForItself == ASSUME FaultsAreGuarded PROVE Spec => []NoSelfDeadlock
<1>1. IInv /\ AloneInv => NoSelfDeadlock
  <2> SUFFICES ASSUME IInv, AloneInv, ~ raced, interrupts = 0, NEW t \in Threads,
                      At(t, "lock"), holder = t
               PROVE  FALSE
    BY DEF NoSelfDeadlock
  <2>1. PICK h \in 1..Len(stack[t]) : InCriticalSection(stack[t][h])
    BY DEF IInv, Holds
  <2>2. stack[t] # <<>> /\ Top(t).pc = "lock" /\ Top(t) = stack[t][Len(stack[t])]
    BY DEF At, Top
  <2>3. stack[t][h].fn = Handler
    BY <2>1 DEF IInv, Sound, Shape, InCriticalSection, HandlerPCs
  <2>4. h = Len(stack[t])
    BY <2>3 DEF AloneInv, Alone
  <2> QED  BY <2>1, <2>2, <2>4 DEF InCriticalSection
<1> QED  BY <1>1, Invariance, AloneHolds, PTL

=============================================================================
