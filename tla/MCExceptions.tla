--------------------------- MODULE MCExceptions ---------------------------
(* Model checking of Exceptions: texts of no, one and two characters. *)
EXTENDS Exceptions, TLC

MCLength == ("" :> 0) @@ ("a" :> 1) @@ ("bb" :> 2)

\* Null, empty and full texts next to one another.
MCFrameArgs     == {<<"a", "", "bb">>, <<None, "bb", "a">>, <<"", None, "">>}
MCExceptionArgs == {<<"bb", None, "a", "", "a">>, <<"", "", None, "", None>>}
MCSignals       == {11, -1}

\* Blocks are told apart by what they hold, not by their addresses: no member
\* compares addresses, and which free block operator new takes does not matter.
\* The number of blocks shows those that two objects share or nobody owns.
Holds(b)  == IF b \in DOMAIN heap THEN heap[b] ELSE Null
SeenTexts(o) == [o EXCEPT !.buffer = Holds(@)]
SeenVector(v) == [v EXCEPT !.cells = [i \in DOMAIN @ |-> SeenTexts(@[i])]]
SeenStack(b) == IF b \in DOMAIN heap THEN SeenVector(heap[b]) ELSE Null

Contents ==
  <<[q \in Frames |-> IF Live(frame[q]) THEN SeenTexts(frame[q]) ELSE Absent],
    [q \in Stacks |-> IF Live(stack[q]) THEN SeenVector(stack[q]) ELSE Absent],
    [q \in Exceptions |-> IF Live(exception[q])
                         THEN [exception[q] EXCEPT !.texts = SeenTexts(@), !.call_stack = SeenStack(@)]
                         ELSE Absent],
    Cardinality(DOMAIN heap), dangling>>

\* All frames and vectors of up to two of them as long as there is no exception;
\* with one, frames of one kind, a vector of one, and one frame outside of it.
OneKind(o) == o = NoFrame \/ o.ptr = Pointers(<<"a", "", "bb">>)
Short(v)   == Len(v.cells) <= 1 /\ \A i \in DOMAIN v.cells : OneKind(v.cells[i])
Small ==
  \/ \A q \in Exceptions : ~ Live(exception[q])
  \/ /\ Cardinality({q \in Frames : Live(frame[q])}) <= 1
     /\ \A q \in Frames : Live(frame[q]) => OneKind(frame[q])
     /\ \A q \in Stacks : Live(stack[q]) => Short(stack[q])
     /\ \A q \in Exceptions : Live(exception[q]) /\ exception[q].call_stack \in DOMAIN heap
                              => Short(heap[exception[q].call_stack])

Symmetry == Permutations(Exceptions) \union Permutations(Frames)
=============================================================================
