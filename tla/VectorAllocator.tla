-------------------------- MODULE VectorAllocator --------------------------
(***************************************************************************)
(* VectorAllocator of main11_VectorAllocator.cpp: a vector over memory in  *)
(* which it constructs and destroys the elements itself.                   *)
(*                                                                         *)
(* The block of a vector is a sequence of cells, each one Raw or the value *)
(* of a constructed element.  `ended` is set where the program uses a cell *)
(* that was never constructed, one beyond the block, or a block that has   *)
(* been deallocated.  The copy constructor is declared and not defined.    *)
(***************************************************************************)
EXTENDS Integers, Sequences

CONSTANTS Vectors,     \* names of the vectors
          Values,      \* values of an element
          Blank,       \* the value of T()
          Raw,         \* no element: memory as allocate() returns it
          FirstRoom,   \* 10 in the code
          MaxSize      \* bound: sizes and capacities that callers ask for

VARIABLES vector,      \* vector[v]: its members, or Absent
          ended,       \* why the program ended, or "no"
          spare        \* spare[v]: the cells behind the elements of v when its block
                       \* was replaced by a larger one (history)

allocatorVars == <<vector, ended, spare>>

\* Raw memory is no value, and the first block has a cell.
ASSUME CellsAssumption ==
  Raw \notin Values \union {Blank} /\ FirstRoom \in Nat \ {0} /\ MaxSize \in Nat

Absent  == [sz |-> -1, elem |-> <<>>]
Exists(v) == vector[v] # Absent
Space(v) == Len(vector[v].elem)

AllocatorInit == vector = [v \in Vectors |-> Absent] /\ ended = "no"
                 /\ spare = [v \in Vectors |-> {}]

End(cause) == ended' = cause /\ UNCHANGED <<vector, spare>>

Constructed(elem, n) == \A i \in 1..n : elem[i] # Raw

Cells(n, x) == [i \in 1..n |-> x]

\* Slip: the last cell of the new block is not constructed.
GrownButLast(m, n) ==
  [m EXCEPT !.elem = SubSeq(@, 1, m.sz) \o Cells(Len(@) - m.sz, Raw)
                       \o Cells(n - Len(@) - 1, Blank) \o <<Raw>>]

\* reserve(), if it allocates: the elements are moved, T() is constructed in the
\* cells behind the old block, and the cells between the two stay as they are.
Grown(m, n) ==
  [m EXCEPT !.elem = SubSeq(@, 1, m.sz) \o Cells(Len(@) - m.sz, Raw) \o Cells(n - Len(@), Blank)]

\* reserve( n ), and what is done then with the members it leaves.
Reserving(v, n, then(_)) ==
  LET m == vector[v] IN
  IF n <= Len(m.elem) THEN then(m) /\ UNCHANGED spare
  ELSE IF ~ Constructed(m.elem, m.sz) THEN End("raw")
  ELSE /\ then(Grown(m, n))
       /\ spare' = [spare EXCEPT ![v] = (m.sz + 1)..Len(m.elem)]

SetMembers(v, m) == vector' = [vector EXCEPT ![v] = m] /\ UNCHANGED ended

\* VectorAllocator(), VectorAllocator( n )
ConstructVector(v, n) ==
  /\ ~ Exists(v)
  /\ SetMembers(v, Grown([sz |-> 0, elem |-> <<>>], n))
  /\ UNCHANGED spare

ReserveCells(v, n) == Exists(v) /\ Reserving(v, n, LAMBDA m : SetMembers(v, m))
ResizeCells(v, n) == Exists(v) /\ Reserving(v, n, LAMBDA m : SetMembers(v, [m EXCEPT !.sz = n]))

\* push_back() assigns to the cell, constructed or not.
Room(v) == IF Space(v) = 0 THEN FirstRoom
           ELSE IF vector[v].sz = Space(v) THEN 2 * Space(v) ELSE 0
PushBack(v, x) ==
  /\ Exists(v) /\ vector[v].sz < MaxSize
  /\ Reserving(v, Room(v), LAMBDA m :
       IF m.elem[m.sz + 1] = Raw THEN ended' = "raw" /\ UNCHANGED vector
       ELSE SetMembers(v, [m EXCEPT !.elem[m.sz + 1] = x, !.sz = @ + 1]))

\* v.push_back( v[ i ] ) reads its argument after reserve().
PushOwn(v, i) ==
  /\ Exists(v) /\ i \in 1..vector[v].sz
  /\ IF vector[v].elem[i] = Raw THEN End("raw")
     ELSE IF vector[v].sz = Space(v) THEN End("freed")
     ELSE PushBack(v, vector[v].elem[i])

\* operator=: into the cells there are, constructed or not, or into a block of
\* just the size; the old one is destroyed up to its size.  v = v does nothing.
AssignVector(v, w) ==
  /\ Exists(v) /\ Exists(w) /\ v # w
  /\ LET n == vector[w].sz IN
       IF ~ Constructed(vector[w].elem, n) THEN End("raw")
       ELSE IF n > Space(v)
       THEN IF ~ Constructed(vector[v].elem, vector[v].sz) THEN End("raw")
            ELSE /\ SetMembers(v, [sz |-> n, elem |-> SubSeq(vector[w].elem, 1, n)])
                 /\ spare' = [spare EXCEPT ![v] = {}]
       ELSE IF ~ Constructed(vector[v].elem, n) THEN End("raw")
       ELSE /\ SetMembers(v, [sz |-> n, elem |-> SubSeq(vector[w].elem, 1, n)
                                   \o SubSeq(vector[v].elem, n + 1, Space(v))])
            /\ UNCHANGED spare

\* operator[] tests nothing; at() throws an exception for what is no element.
Subscript(v, i) ==
  /\ Exists(v)
  /\ IF i > Space(v) THEN End("bounds")
     ELSE IF vector[v].elem[i] = Raw THEN End("raw")
     ELSE UNCHANGED allocatorVars
CheckedAt(v, i) == Exists(v) /\ IF i > vector[v].sz THEN UNCHANGED allocatorVars ELSE Subscript(v, i)

\* `delete elem` destroys the first cell, whether or not it is an element, and
\* none of the others.
DestroyVector(v) ==
  /\ Exists(v)
  /\ IF Space(v) > 0 /\ vector[v].elem[1] = Raw THEN End("raw")
     ELSE SetMembers(v, Absent) /\ spare' = [spare EXCEPT ![v] = {}]

AllocatorStep ==
  \E v \in Vectors :
    \/ \E n \in 0..MaxSize : ConstructVector(v, n) \/ ReserveCells(v, n) \/ ResizeCells(v, n)
    \/ \E x \in Values : PushBack(v, x)
    \/ \E i \in 1..(MaxSize + 1) : PushOwn(v, i) \/ Subscript(v, i) \/ CheckedAt(v, i)
    \/ \E w \in Vectors : AssignVector(v, w)
    \/ DestroyVector(v)

AllocatorNext ==
  \/ ended = "no" /\ AllocatorStep
  \/ ended # "no" /\ UNCHANGED allocatorVars

AllocatorSpec == AllocatorInit /\ [][AllocatorNext]_allocatorVars

-----------------------------------------------------------------------------
(* Properties *)

\* The cells of a vector that were never constructed are those that were spare
\* when it grew: reserve() constructs behind the old block, and moves only the
\* elements (main11_VectorAllocator.cpp:82-93).  They stay raw, as push_back() and
\* operator= assign to them without constructing them, which ends the program, and
\* nothing else makes it use raw memory: a program that never reserves or resizes
\* with room to spare is safe from it, whatever else it does.
RawCells ==
  /\ \A v \in Vectors : {i \in 1..Space(v) : vector[v].elem[i] = Raw} = spare[v]
  /\ ended = "raw" => \E v \in Vectors : spare[v] # {}

=============================================================================
