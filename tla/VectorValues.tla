--------------------------- MODULE VectorValues ---------------------------
(***************************************************************************)
(* What Vector.hpp promises: every vector is a sequence of its own.  An    *)
(* operation on one vector changes that vector and no other, except a move *)
(* or a swap, which exchanges two.                                         *)
(***************************************************************************)
EXTENDS Integers, Sequences

CONSTANTS Vectors,    \* names of the vectors of the program
          Values,     \* values of an element
          Blank,      \* the value of T()
          MaxSize     \* bound: elements of a vector

Elements == Values \union {Blank}
Contents == UNION {[1..n -> Elements] : n \in 0..MaxSize}

VARIABLE seq    \* seq[v]: the elements of v, for every v that exists

Init == seq = <<>>

Live(v) == v \in DOMAIN seq

Change(v, s) == seq' = [w \in DOMAIN seq \union {v} |-> IF w = v THEN s ELSE seq[w]]

Make(v) == ~ Live(v) /\ \E s \in Contents : Change(v, s)
Drop(v) == Live(v) /\ seq' = [w \in DOMAIN seq \ {v} |-> seq[w]]

\* n copies of x after the first i elements.
Insert(v, i, n, x) ==
  Live(v) /\ Change(v, SubSeq(seq[v], 1, i) \o [j \in 1..n |-> x]
                       \o SubSeq(seq[v], i + 1, Len(seq[v])))

\* The elements i + 1 to j go.
Remove(v, i, j) ==
  Live(v) /\ Change(v, SubSeq(seq[v], 1, i) \o SubSeq(seq[v], j + 1, Len(seq[v])))

\* The vector grows by elements that are not specified.
Extend(v) ==
  Live(v) /\ \E s \in Contents : /\ Len(s) > Len(seq[v])
                                 /\ SubSeq(s, 1, Len(seq[v])) = seq[v]
                                 /\ Change(v, s)

\* A copy, into a vector that exists or not; v = w leaves it as it was.
Copy(v, w) == Live(w) /\ Change(v, seq[w])

\* A vector that is made by a move takes the elements and leaves none.
MoveNew(v, w)  == /\ ~ Live(v) /\ Live(w)
                  /\ seq' = [u \in DOMAIN seq \union {v} |->
                               IF u = v THEN seq[w] ELSE IF u = w THEN <<>> ELSE seq[u]]
Exchange(v, w) == Live(v) /\ Live(w) /\ seq' = [seq EXCEPT ![v] = seq[w], ![w] = seq[v]]

Next ==
  \E v \in Vectors :
    \/ Make(v) \/ Drop(v) \/ Extend(v)
    \/ Live(v) /\ \E i \in 0..Len(seq[v]) :
         \/ \E n \in 1..MaxSize, x \in Elements : Insert(v, i, n, x)
         \/ \E j \in i..Len(seq[v]) : Remove(v, i, j)
    \/ \E w \in Vectors : Copy(v, w) \/ MoveNew(v, w) \/ Exchange(v, w)

Spec == Init /\ [][Next]_seq

=============================================================================
