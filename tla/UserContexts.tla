---------------------------- MODULE UserContexts ----------------------------
(***************************************************************************)
(* main15_ucontext.cpp: n_ucs contexts that hand the processor around a    *)
(* ring until max_switchs switches have been made.  All of it is one       *)
(* thread, so a step lasts from one switch to the next.                    *)
(*                                                                         *)
(* A ucontext_t holds a place to go on at, which swapcontext() stores and  *)
(* uses up: a context that is resumed from a place it has already left     *)
(* would run on a stack that it has written over since.                    *)
(***************************************************************************)
EXTENDS Integers

CONSTANTS MaxContexts,   \* bound: argv[ 1 ]
          MaxSwitches    \* bound: argv[ 2 ]

ASSUME ArgumentAssumption == MaxContexts \in Nat /\ MaxSwitches \in Nat

VARIABLES n_ucs, max_switchs,    \* the arguments
          n_switchs, tid,        \* the globals that func() shares
          cpu,                   \* what runs: main, a context, or nothing any more
          ucs,                   \* ucs[i]: the place a context is to go on at
          main_at,               \* where main is: <<loop, its counter>>
          turns                  \* turns[i]: switches that context i has made (history)

contextVars == <<n_ucs, max_switchs, n_switchs, tid, cpu, ucs, main_at, turns>>

Engine  == -1     \* main, saved in engine_uc while the contexts run
Nothing == -2     \* the process has ended
Wild    == -3     \* the process runs on a context that was never made

Contexts == 0..(n_ucs - 1)
\* malloc()ed memory, the entry of func(), the test of its loop, a place that
\* has been used up, a stack that has been freed.
ResumePoints == {"raw", "func", "loop", "used", "freed"}
Resumable(p) == p \in {"func", "loop"}

\* atoi() of anything that is no number is 0; a number below 0 is left out (malloc()
\* gets the size of it, and no context is made).
ContextsInit ==
  /\ n_ucs \in 0..MaxContexts /\ max_switchs \in 0..MaxSwitches
  /\ n_switchs = 0 /\ tid = 0
  /\ cpu = Engine
  /\ ucs = [i \in Contexts |-> "raw"]
  /\ main_at = <<"make", 0>>
  /\ turns = [i \in Contexts |-> 0]

\* getcontext(), a stack and makecontext() for one context.
Make ==
  /\ cpu = Engine
  /\ main_at[1] = "make" /\ main_at[2] < n_ucs
  /\ ucs' = [ucs EXCEPT ![main_at[2]] = "func"]
  /\ main_at' = <<"make", main_at[2] + 1>>
  /\ UNCHANGED <<n_ucs, max_switchs, n_switchs, tid, cpu, turns>>

\* The context that runs is `i`, from the place saved in `saved`; what was there
\* is used up.
Resume(i, saved) ==
  IF i \in Contexts /\ Resumable(saved[i])
  THEN cpu' = i /\ ucs' = [saved EXCEPT ![i] = "used"]
  ELSE cpu' = Wild /\ ucs' = saved

\* swapcontext( &engine_uc, &ucs[ tid ] )
Start ==
  /\ cpu = Engine
  /\ main_at = <<"make", n_ucs>>
  /\ Resume(tid, ucs)
  /\ main_at' = <<"free", 0>>
  /\ UNCHANGED <<n_ucs, max_switchs, n_switchs, tid, turns>>

\* Slip: the context is switched away from without being saved.
TurnUnsaved(i) ==
  /\ cpu = i /\ i \in Contexts
  /\ n_switchs < max_switchs
  /\ n_switchs' = n_switchs + 1
  /\ tid' = (tid + 1) % n_ucs
  /\ turns' = [turns EXCEPT ![i] = @ + 1]
  /\ Resume((tid + 1) % n_ucs, ucs)
  /\ UNCHANGED <<n_ucs, max_switchs, main_at>>

\* An iteration of func(): swapcontext( &ucs[ c_tid ], &ucs[ n_tid ] ).  What it
\* saves goes where tid says, not where it runs.
Turn(i) ==
  /\ cpu = i /\ i \in Contexts
  /\ n_switchs < max_switchs
  /\ n_switchs' = n_switchs + 1
  /\ tid' = (tid + 1) % n_ucs
  /\ turns' = [turns EXCEPT ![i] = @ + 1]
  /\ Resume((tid + 1) % n_ucs, [ucs EXCEPT ![tid] = "loop"])
  /\ UNCHANGED <<n_ucs, max_switchs, main_at>>

\* Slip: without uc_link the thread ends where func() does.
ReturnEnds(i) ==
  /\ cpu = i /\ i \in Contexts
  /\ n_switchs >= max_switchs
  /\ cpu' = Nothing
  /\ UNCHANGED <<n_ucs, max_switchs, n_switchs, tid, ucs, main_at, turns>>

\* func() returns, and uc_link leads to engine_uc.
Return(i) ==
  /\ cpu = i /\ i \in Contexts
  /\ n_switchs >= max_switchs
  /\ cpu' = Engine
  /\ UNCHANGED <<n_ucs, max_switchs, n_switchs, tid, ucs, main_at, turns>>

\* main frees the stacks, of contexts that are still in func() too, and returns.
Free ==
  /\ cpu = Engine
  /\ main_at[1] = "free" /\ main_at[2] < n_ucs
  /\ ucs' = [ucs EXCEPT ![main_at[2]] = "freed"]
  /\ main_at' = <<"free", main_at[2] + 1>>
  /\ UNCHANGED <<n_ucs, max_switchs, n_switchs, tid, cpu, turns>>

Exit ==
  /\ cpu = Engine
  /\ main_at = <<"free", n_ucs>>
  /\ cpu' = Nothing
  /\ UNCHANGED <<n_ucs, max_switchs, n_switchs, tid, ucs, main_at, turns>>

ContextStep == Make \/ Start \/ Free \/ Exit \/ \E i \in Contexts : Turn(i) \/ Return(i)
ContextsStop == cpu \in {Nothing, Wild} /\ UNCHANGED contextVars

ContextsNext == ContextStep \/ ContextsStop

\* The only thread of the process is scheduled again and again.
ContextsSpec == ContextsInit /\ [][ContextsNext]_contextVars /\ WF_contextVars(ContextStep)

-----------------------------------------------------------------------------
(* Properties *)

ContextsTypeOK ==
  /\ n_ucs \in Nat /\ max_switchs \in Nat /\ n_switchs \in Nat
  /\ tid \in Nat /\ (n_ucs > 0 => tid \in Contexts)
  /\ cpu \in Contexts \union {Engine, Nothing, Wild}
  /\ ucs \in [Contexts -> ResumePoints]
  /\ main_at \in {"make", "free"} \X (0..n_ucs)
  /\ turns \in [Contexts -> Nat]

\* The turns go around: no context is ever more than one turn ahead of another,
\* those ahead are the ones before tid, and the one that runs is the one tid
\* names, whose place the next switch will save.  So every switch finds a context
\* that was made or saved and has not run since: the process never goes on from
\* memory that malloc() returned, from a place that has been used, or on a stack
\* that has been freed, if there is at least one context; "main15 x" has none
\* (main15_ucontext.cpp:19-24, :53, :58, :65).
RoundRobin ==
  /\ n_ucs > 0 => cpu # Wild
  /\ cpu \in Contexts => cpu = tid
  /\ \A i, j \in Contexts : i < j =>
       turns[i] - turns[j] = IF i < tid /\ tid <= j THEN 1 ELSE 0

\* main gets the processor back, after exactly the switches it asked for, frees
\* every stack and ends the process (main15_ucontext.cpp:19, :53, :58-67).
EngineResumes ==
  (n_ucs > 0) ~> /\ cpu = Nothing /\ n_switchs = max_switchs
                 /\ \A i \in Contexts : ucs[i] = "freed"

=============================================================================
