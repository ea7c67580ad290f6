-------------------------- MODULE ExceptionValues --------------------------
(***************************************************************************)
(* What CallStackFrame.hpp and Exception.hpp promise: frames and           *)
(* exceptions are values.  Each has texts of its own, a copy is equal and  *)
(* independent, a move leaves nothing behind, an exception keeps the call  *)
(* stack it was given.  An empty text is no text.                          *)
(***************************************************************************)
EXTENDS Integers, Sequences

CONSTANTS Frames, Stacks, Exceptions,  \* the variables of the program
          FrameArgs, ExceptionArgs,    \* texts given to the constructors
          Signals,                     \* signal numbers given to Exception()
          Length,                      \* Length[s]: what strlen( s ) returns
          None                         \* a null pointer instead of a text

VARIABLES frames,      \* the texts of every frame that exists
          stacks,      \* the frames of every vector that exists
          exceptions   \* the members of every exception that exists

vars == <<frames, stacks, exceptions>>

Init == frames = <<>> /\ stacks = <<>> /\ exceptions = <<>>

Normal(w)  == [i \in DOMAIN w |-> IF w[i] = None \/ Length[w[i]] = 0 THEN None ELSE w[i]]
Nothing(w) == [i \in DOMAIN w |-> None]
Set(fun, x, v)  == [y \in DOMAIN fun \union {x} |-> IF y = x THEN v ELSE fun[y]]
Without(fun, x) == [y \in DOMAIN fun \ {x} |-> fun[y]]

NewFrame(f)     == \E a \in FrameArgs : frames' = Set(frames, f, Normal(a))
CopyFrame(f, g) == frames' = Set(frames, f, frames[g])
TakeFrame(f, g) == f \notin DOMAIN frames
                   /\ frames' = Set(Set(frames, g, Nothing(frames[g])), f, frames[g])
SwapFrames(f, g) == f \in DOMAIN frames
                    /\ frames' = [frames EXCEPT ![f] = frames[g], ![g] = frames[f]]
DropFrame(f)    == frames' = Without(frames, f)

ChangeFrames ==
  /\ \E f \in Frames :
       \/ NewFrame(f) \/ DropFrame(f)
       \/ \E g \in DOMAIN frames : CopyFrame(f, g) \/ TakeFrame(f, g) \/ SwapFrames(f, g)
  /\ UNCHANGED <<stacks, exceptions>>

Given(e) == exceptions[e].call_stack

\* A frame is copied or moved into a vector; one of its own frames is copied.
Push(s) ==
  \/ \E f \in DOMAIN frames : stacks' = [stacks EXCEPT ![s] = Append(@, frames[f])]
                              /\ frames' \in {frames, [frames EXCEPT ![f] = Nothing(@)]}
  \/ \E i \in 1..Len(stacks[s]) :
       stacks' = [stacks EXCEPT ![s] = Append(@, @[i])] /\ UNCHANGED frames

\* A vector is made, copied from an exception, destroyed or shortened.
ChangeStack(s) ==
  \/ stacks' = Set(stacks, s, <<>>)
  \/ \E e \in DOMAIN exceptions : stacks' = Set(stacks, s, Given(e))
  \/ stacks' = Without(stacks, s)
  \/ s \in DOMAIN stacks /\ \E n \in 0..Len(stacks[s]) :
       stacks' = [stacks EXCEPT ![s] = SubSeq(@, 1, n)]

ChangeStacks ==
  /\ \/ \E s \in DOMAIN stacks : Push(s)
     \/ UNCHANGED frames /\ \E s \in Stacks : ChangeStack(s)
  /\ UNCHANGED exceptions

NewException(e) ==
  \E a \in ExceptionArgs, sig \in Signals, cs \in {<<>>} \union {stacks[s] : s \in DOMAIN stacks} :
    exceptions' = Set(exceptions, e,
                      [texts |-> Normal(a), signal |-> sig % 2^16, call_stack |-> cs])

Blank(e) == [texts |-> Nothing(exceptions[e].texts), signal |-> 0, call_stack |-> <<>>]

ChangeException(e) ==
  \/ NewException(e)
  \/ exceptions' = Without(exceptions, e)
  \/ \E x \in DOMAIN exceptions :
       \/ exceptions' = Set(exceptions, e, exceptions[x])
       \/ exceptions' = Set(Set(exceptions, x, Blank(x)), e, exceptions[x])
       \/ /\ e \in DOMAIN exceptions
          /\ exceptions' = [exceptions EXCEPT ![e] = exceptions[x], ![x] = exceptions[e]]

ChangeExceptions == (\E e \in Exceptions : ChangeException(e)) /\ UNCHANGED <<frames, stacks>>

Next == ChangeFrames \/ ChangeStacks \/ ChangeExceptions

Spec == Init /\ [][Next]_vars

=============================================================================
