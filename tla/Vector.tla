------------------------------ MODULE Vector ------------------------------
(***************************************************************************)
(* NSTD::Vector<T> of Vector.hpp: vectors that own a buffer of the heap.   *)
(*                                                                         *)
(* heap maps the blocks that are allocated to their elements; a vector is  *)
(* the record of its members.  new T[n] gives n elements T(), written      *)
(* Blank.  The elements of a block from v_size on are not tracked (they    *)
(* are Blank): only resize() can show them, and it may show anything.      *)
(*                                                                         *)
(* An access of an element beyond its block is undefined behaviour: it     *)
(* sets `overrun`, and the model stops there.  Callers respect the         *)
(* preconditions of std::vector (no pop_back() of an empty vector,         *)
(* iterators of this vector), except in EraseAnywhere.  Calls is what they *)
(* call: which calls together are safe is a question the runs ask.         *)
(***************************************************************************)
EXTENDS Integers, Sequences, FiniteSets

CONSTANTS Vectors,    \* names of the vectors of the program
          Values,     \* values of an element
          Blank,      \* the value of T()
          MaxSize,    \* bound: elements of a vector
          Positions,  \* bound: positions callers pass, beyond the end too
          Calls       \* the members that callers use

Null   == 0
Blocks == 1..(Cardinality(Vectors) + 1)
Sizes  == 1..MaxSize
Elements == Values \union {Blank}
AllBlank == [i \in Sizes |-> Blank]

ASSUME VectorsAssumption == IsFiniteSet(Vectors)
ASSUME SizeAssumption == MaxSize \in Nat \ {0} /\ Positions \subseteq Nat

\* The members of a vector.  No call lets the capacity get beyond the double of
\* the largest size.
Members == [values : Blocks \union {Null}, v_size : -1..MaxSize,
            v_capacity : 0..(2 * MaxSize), ctor_initialized : BOOLEAN]

VARIABLES heap,      \* the blocks that are allocated, with their elements
          vec,       \* vec[v]: the members of v, or NoVector before its constructor
          overrun    \* has an access left its block

vars == <<heap, vec, overrun>>

NoVector == [values |-> Null, v_size |-> -1, v_capacity |-> 0, ctor_initialized |-> FALSE]
Live(v)  == vec[v] # NoVector

Cells(v) == IF vec[v].values \in DOMAIN heap THEN heap[vec[v].values] ELSE <<>>
Room(v)  == Len(Cells(v))
Items(v) == SubSeq(Cells(v), 1, IF vec[v].v_size <= Room(v) THEN vec[v].v_size ELSE Room(v))

Init == heap = <<>> /\ vec = [v \in Vectors |-> NoVector] /\ overrun = FALSE

\* The elements s, as far as they fit, in a block of n.
Filled(s, n) == [i \in 1..n |-> IF i <= Len(s) THEN s[i] ELSE Blank]

\* The block the allocator returns, the heap without the block of v, and the
\* heap h with block b.
Fresh   == CHOOSE b \in Blocks : b \notin DOMAIN heap
Free(v) == [b \in DOMAIN heap \ {vec[v].values} |-> heap[b]]
Allocated(h, b, s) == [c \in DOMAIN h \union {b} |-> IF c = b THEN s ELSE h[c]]

\* v gets elements s in a new block of `cap`; the old one is deleted.  Writing
\* more than fits leaves the block.
Renew(v, s, cap, init) ==
  /\ heap' = Allocated(Free(v), Fresh, Filled(s, cap))
  /\ vec' = [vec EXCEPT ![v] = [values |-> Fresh, v_size |-> Len(s),
                                v_capacity |-> cap, ctor_initialized |-> init]]
  /\ overrun' = (Len(s) > cap)

\* v gets elements s in the block it has.
Rewrite(v, s) ==
  /\ heap' = IF vec[v].values = Null THEN heap
             ELSE [heap EXCEPT ![vec[v].values] = Filled(s, Room(v))]
  /\ vec' = [vec EXCEPT ![v].v_size = Len(s)]
  /\ overrun' = (Len(s) > Room(v))

-----------------------------------------------------------------------------
(* Constructors, destructor, assignment *)

Default(v) ==
  /\ ~ Live(v)
  /\ vec' = [vec EXCEPT ![v].v_size = 0]
  /\ UNCHANGED <<heap, overrun>>

\* Vector( sz ), Vector( sz, x ); Vector( { ... } ) leaves ctor_initialized false.
Sized(v, n, x) == ~ Live(v) /\ Renew(v, [i \in 1..n |-> x], n, TRUE)
Listed(v, s)   == ~ Live(v) /\ Renew(v, s, Len(s), FALSE)

\* Slip: the copy takes the pointer.
CopyPointer(v, w) ==
  /\ ~ Live(v) /\ Live(w)
  /\ vec' = [vec EXCEPT ![v] = [vec[w] EXCEPT !.ctor_initialized = FALSE]]
  /\ UNCHANGED <<heap, overrun>>

\* Vector( src ), from a reference or a pointer.
Copy(v, w) == ~ Live(v) /\ Live(w) /\ Renew(v, Items(w), vec[w].v_capacity, FALSE)

\* swap() exchanges everything but ctor_initialized.
Swapped(a, b) == [a EXCEPT !.values = b.values, !.v_size = b.v_size,
                           !.v_capacity = b.v_capacity]

\* The move constructor swaps with a vector that is still empty.
MoveNew(v, w) ==
  /\ ~ Live(v) /\ Live(w)
  /\ vec' = [vec EXCEPT ![v] = Swapped([NoVector EXCEPT !.v_size = 0], vec[w]),
                        ![w] = Swapped(vec[w], [NoVector EXCEPT !.v_size = 0])]
  /\ UNCHANGED <<heap, overrun>>

\* Slip: the assignment does not delete the buffer it replaces.
AssignLeaks(v, w) ==
  /\ Live(v) /\ Live(w)
  /\ heap' = Allocated(heap, Fresh, Filled(Items(w), vec[w].v_capacity))
  /\ vec' = [vec EXCEPT ![v] = [Swapped(vec[v], vec[w]) EXCEPT !.values = Fresh]]
  /\ UNCHANGED overrun

\* operator=( const Vector& ): the buffer of v is deleted before that of w is
\* read.  If they are the same vector its elements are those of the new buffer.
Assign(v, w) ==
  /\ Live(v) /\ Live(w)
  /\ Renew(v, IF v = w THEN [i \in 1..vec[w].v_size |-> Blank] ELSE Items(w),
           vec[w].v_capacity, vec[v].ctor_initialized)

\* operator=( Vector&& ) and swap().
Swap(v, w) ==
  /\ Live(v) /\ Live(w)
  /\ vec' = [vec EXCEPT ![v] = Swapped(vec[v], vec[w]), ![w] = Swapped(vec[w], vec[v])]
  /\ UNCHANGED <<heap, overrun>>

Destroy(v) ==
  /\ Live(v)
  /\ heap' = Free(v)
  /\ vec' = [vec EXCEPT ![v] = NoVector]
  /\ UNCHANGED overrun

-----------------------------------------------------------------------------
(* Modifiers *)

Full(v) == vec[v].v_size = vec[v].v_capacity

\* Slip: growth by half.
GrownByHalf(v) ==
  LET cap == vec[v].v_capacity IN
  CASE ~ Full(v)               -> cap
    [] vec[v].ctor_initialized -> cap + cap \div 2
    [] vec[v].v_size = 0       -> 1
    [] vec[v].v_size \in 1..7  -> cap + 1
    [] OTHER                   -> cap + cap \div 2

\* The capacity emplace_back() grows to.
Grown(v) ==
  LET cap == vec[v].v_capacity IN
  CASE ~ Full(v)               -> cap
    [] vec[v].ctor_initialized -> cap * 2
    [] vec[v].v_size = 0       -> 1
    [] vec[v].v_size \in 1..7  -> cap + 1
    [] OTHER                   -> cap * 2

\* reallocate() runs whenever the vector is full, also when doubling a capacity
\* of 0 leaves it 0.
EmplaceBack(v, x) ==
  /\ Live(v)
  /\ vec[v].v_size < MaxSize
  /\ IF Full(v) THEN Renew(v, Append(Items(v), x), Grown(v), vec[v].ctor_initialized)
     ELSE Rewrite(v, Append(Items(v), x))

Inserted(v, i, n, x) ==
  SubSeq(Items(v), 1, i) \o [j \in 1..n |-> x] \o SubSeq(Items(v), i + 1, vec[v].v_size)

\* emplace() and insert() of one element, after the first i.
Emplace(v, i, x) ==
  /\ Live(v)
  /\ i \in 0..vec[v].v_size
  /\ vec[v].v_size < MaxSize
  /\ IF i = vec[v].v_capacity THEN EmplaceBack(v, x)
     ELSE IF Full(v)
     THEN Renew(v, Inserted(v, i, 1, x), vec[v].v_capacity * 2, vec[v].ctor_initialized)
     ELSE Rewrite(v, Inserted(v, i, 1, x))

\* insert() of n elements: the capacity is doubled once, whatever n is.
InsertMany(v, i, n, x) ==
  /\ Live(v)
  /\ i \in 0..vec[v].v_size
  /\ vec[v].v_size + n <= MaxSize
  /\ IF vec[v].v_size + n > vec[v].v_capacity
     THEN Renew(v, Inserted(v, i, n, x), vec[v].v_capacity * 2, vec[v].ctor_initialized)
     ELSE Rewrite(v, Inserted(v, i, n, x))

PopBack(v) ==
  /\ Live(v)
  /\ vec[v].v_size > 0
  /\ Rewrite(v, SubSeq(Items(v), 1, vec[v].v_size - 1))

Clear(v) == Live(v) /\ Rewrite(v, <<>>)

\* The smallest power of two from 4 up that is at least n; 0 for 0.
PowerOfTwo(n) ==
  IF n = 0 THEN 0
  ELSE CHOOSE c \in {2^i : i \in 2..(n + 2)} :
         c >= n /\ \A i \in 2..(n + 2) : 2^i >= n => c <= 2^i

\* The elements but the one at dist, which may be beyond the end.
Without(s, dist) == IF dist < Len(s) THEN SubSeq(s, 1, dist) \o SubSeq(s, dist + 2, Len(s))
                    ELSE s

\* erase(): the size goes down by one and the others are copied to a new buffer,
\* the last one too if dist is beyond it; the size does not count that one.
EraseAnywhere(v, dist) ==
  /\ Live(v)
  /\ LET size == IF vec[v].v_size = 0 THEN 0 ELSE vec[v].v_size - 1
         cap  == PowerOfTwo(size)
         kept == Without(Items(v), dist)
     IN  IF size = 0
         THEN /\ vec' = [vec EXCEPT ![v].v_size = 0, ![v].v_capacity = 0]
              /\ heap' = IF vec[v].values = Null THEN heap
                         ELSE [heap EXCEPT ![vec[v].values] = Filled(<<>>, Room(v))]
              /\ UNCHANGED overrun
         ELSE /\ heap' = Allocated(Free(v), Fresh, Filled(SubSeq(kept, 1, size), cap))
              /\ vec' = [vec EXCEPT ![v].values = Fresh, ![v].v_size = size,
                                    ![v].v_capacity = cap]
              /\ overrun' = (Len(kept) > cap)

\* erase() of an element the vector has.
Erase(v, dist) ==
  /\ Live(v)
  /\ dist \in 0..(vec[v].v_size - 1)
  /\ EraseAnywhere(v, dist)

\* erase( first, last ) keeps the buffer.
EraseRange(v, first, last) ==
  /\ Live(v)
  /\ first <= last /\ last <= vec[v].v_size
  /\ Rewrite(v, SubSeq(Items(v), 1, first) \o SubSeq(Items(v), last + 1, vec[v].v_size))

\* Slip: reserve() only notes the capacity.
ReserveNothing(v, n) ==
  /\ Live(v)
  /\ vec' = [vec EXCEPT ![v].v_capacity = IF n > @ THEN n ELSE @]
  /\ UNCHANGED <<heap, overrun>>

\* Slip: reserve( n ) makes room for n more.
ReserveMore(v, n) ==
  Live(v) /\ Renew(v, Items(v), vec[v].v_capacity + n, vec[v].ctor_initialized)

Reserve(v, n) ==
  /\ Live(v)
  /\ IF n > vec[v].v_capacity THEN Renew(v, Items(v), n, vec[v].ctor_initialized)
     ELSE UNCHANGED vars

ShrinkToFit(v) ==
  Live(v) /\ Renew(v, Items(v), vec[v].v_size, vec[v].ctor_initialized)

\* The size becomes n; elements that are new are those of `rest`.
ResizeWith(v, n, rest) ==
  LET s == SubSeq(Items(v) \o rest, 1, n) IN
    IF n > vec[v].v_capacity THEN Renew(v, s, n, TRUE) ELSE Rewrite(v, s)

\* resize( n ): a new buffer is filled with T(), in the old one resize( n ) shows
\* what is there.
Resize(v, n) ==
  /\ Live(v)
  /\ IF n > vec[v].v_capacity THEN ResizeWith(v, n, AllBlank)
     ELSE \E rest \in [Sizes -> Elements] : ResizeWith(v, n, rest)

\* resize( n, x )
ResizeTo(v, n, x) == Live(v) /\ ResizeWith(v, n, [i \in Sizes |-> x])

-----------------------------------------------------------------------------

Contents == UNION {[1..n -> Values] : n \in 0..MaxSize}

Construct(v) ==
  \/ "Default" \in Calls /\ Default(v)
  \/ "Listed" \in Calls /\ \E s \in Contents : Listed(v, s)
  \/ "Sized" \in Calls /\ \E n \in Sizes, x \in Elements : Sized(v, n, x)
  \/ "SizedEmpty" \in Calls /\ Sized(v, 0, Blank)
  \/ "Copy" \in Calls /\ \E w \in Vectors : Copy(v, w)
  \/ "Move" \in Calls /\ \E w \in Vectors : MoveNew(v, w)

Whole(v) ==
  \/ "Assign" \in Calls /\ \E w \in Vectors \ {v} : Assign(v, w)
  \/ "AssignSelf" \in Calls /\ Assign(v, v)
  \/ "Move" \in Calls /\ \E w \in Vectors : Swap(v, w)
  \/ Destroy(v)

Modify(v) ==
  \/ \E x \in Values :
       \/ "Push" \in Calls /\ EmplaceBack(v, x)
       \/ "Insert" \in Calls /\ \E i \in Positions : Emplace(v, i, x)
       \/ "InsertMany" \in Calls /\ \E i \in Positions, n \in Sizes : InsertMany(v, i, n, x)
  \/ "Pop" \in Calls /\ (PopBack(v) \/ Clear(v))
  \/ "Erase" \in Calls /\ \E i \in Positions : Erase(v, i)
  \/ "EraseAnywhere" \in Calls /\ \E i \in Positions : EraseAnywhere(v, i)
  \/ "EraseRange" \in Calls /\ \E i, j \in Positions : EraseRange(v, i, j)
  \/ "Reserve" \in Calls /\ \E n \in Sizes : Reserve(v, n)
  \/ "Shrink" \in Calls /\ ShrinkToFit(v)
  \/ "Resize" \in Calls /\ \E n \in 0..MaxSize :
       Resize(v, n) \/ \E x \in Values : ResizeTo(v, n, x)

Stop == overrun /\ UNCHANGED vars

Next == \/ ~ overrun /\ \E v \in Vectors : Construct(v) \/ Whole(v) \/ Modify(v)
        \/ Stop

Spec == Init /\ [][Next]_vars

-----------------------------------------------------------------------------
(* Properties *)

TypeOK ==
  /\ DOMAIN heap \subseteq Blocks
  /\ \A b \in DOMAIN heap : heap[b] \in Seq(Elements)
  /\ vec \in [Vectors -> Members]
  /\ overrun \in BOOLEAN

\* Every block of the heap is the buffer of exactly one vector, and a vector has
\* no other: copies, moves, swaps and reallocations leak no buffer, delete none
\* twice and leave no vector with a deleted one (Vector.hpp:415-457, 1025-1040).
OwnBuffers ==
  /\ \A b \in DOMAIN heap : \E v \in Vectors :
       /\ vec[v].values = b
       /\ \A w \in Vectors : vec[w].values = b => w = v
  /\ \A v \in Vectors : vec[v].values \in DOMAIN heap \union {Null}

\* The capacity is what the buffer holds at least, and the elements are within
\* it, over any sequence of calls and whichever of the two growth rules applies
\* (Vector.hpp:655-699, 873-892).
RoomForSize ==
  ~ overrun => \A v \in Vectors : Live(v) => vec[v].v_size <= vec[v].v_capacity
                                /\ vec[v].v_capacity <= Room(v)

\* A call leaves the buffer of its vector only in three ways: it adds an element
\* to a vector that was given a size and has lost all its capacity, since it
\* doubles 0 (Vector.hpp:666); it inserts n elements, since it doubles once
\* (Vector.hpp:774); it erases beyond the end (Vector.hpp:898).
OverrunCauses ==
  [][~ overrun /\ overrun' =>
       \E v \in Vectors :
         \/ vec[v].ctor_initialized /\ vec[v].v_capacity = 0 /\ vec'[v].v_size = 1
         \/ \E i \in Positions, n \in Sizes, x \in Values :
              vec[v].v_size + n > 2 * vec[v].v_capacity /\ InsertMany(v, i, n, x)
         \/ \E i \in Positions : i >= vec[v].v_size /\ EraseAnywhere(v, i)]_vars

\* "neither does it crash when you pass an iterator that is out of range"
\* (Vector.hpp:858-860): erase() stays within its buffers whatever it is given.
EraseNeverOverruns ==
  [][\A v \in Vectors, i \in Positions : EraseAnywhere(v, i) => ~ overrun']_vars

Abstract == INSTANCE VectorValues
              WITH seq <- [v \in {u \in Vectors : Live(u)} |-> Items(v)]

\* Vectors behave as sequences: a call changes the elements it is about in the
\* vector it is about, wherever the buffers are and whenever they are replaced.
ImplementsValues == Abstract!Spec

=============================================================================
