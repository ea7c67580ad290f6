-------------------------- MODULE ExceptionsProofs --------------------------
(***************************************************************************)
(* Theorems about Exceptions, for every set of variables and of texts.     *)
(*                                                                         *)
(* What is inductive is not "every block has one owner", stated over names *)
(* of owners, but IInv: each variable is good (its pointers lead into live *)
(* blocks laid out as _copy_values() does), what two variables own is      *)
(* disjoint, and every block is owned.  Own follows the pointers: a frame  *)
(* owns a buffer, a vector the buffers of its cells, an exception both and *)
(* a vector on the heap.                                                   *)
(*                                                                         *)
(* A step changes one or two variables; ChangeIsSound says when the others *)
(* stay good and keep showing what they did, and each action has a lemma   *)
(* that proves Agrees: IInv afterwards, and a step of ExceptionValues or   *)
(* none.  The properties of Exceptions.tla follow from IInv.  The sums     *)
(* that place the fields are recursive functions: what is true of all of   *)
(* them has no smallest counterexample (Minimum).                          *)
(***************************************************************************)
EXTENDS Exceptions, FiniteSetTheorems, SequenceTheorems, WellFoundedInduction, TLAPS

-----------------------------------------------------------------------------
(* Sums *)

\* Induction: a property of all numbers has no smallest counterexample.
LEMMA Minimum ==
  ASSUME NEW T \in SUBSET Nat, T # {}
  PROVE  \E x \in T : \A y \in T : x <= y
<1>1. IsWellFoundedOn(OpToRel(<, Nat), Nat)
  BY NatLessThanWellFounded
<1>2. PICK x \in T : \A y \in T : ~ (<<y, x>> \in OpToRel(<, Nat))
  BY <1>1, WFMin
<1>3. ASSUME NEW y \in T, y < x PROVE FALSE
  <2> DEFINE p == <<y, x>>
  <2>1. p \in Nat \X Nat /\ p[1] = y /\ p[2] = x
    OBVIOUS
  <2> HIDE DEF p
  <2>2. p \in OpToRel(<, Nat)
    BY <1>3, <2>1 DEF OpToRel
  <2> QED  BY <1>2, <2>2 DEF p
<1>4. \A y \in T : x \in Nat /\ y \in Nat
  OBVIOUS
<1> QED  BY <1>3, <1>4

\* f[i] is the sum of the first i numbers of r.
Adds(f, r, n) == f \in [0..n -> Nat] /\ f[0] = 0 /\ \A i \in 1..n : f[i] = f[i - 1] + r[i]

LEMMA SumsExist ==
  ASSUME NEW n \in Nat, NEW r \in [1..n -> Nat]
  PROVE  \E f : Adds(f, r, n)
<1> DEFINE T == {m \in 0..n : ~ \E f : Adds(f, r, m)}
<1>1. SUFFICES ASSUME T # {} PROVE FALSE
  <2>1. n \in 0..n
    OBVIOUS
  <2> QED  BY <2>1
<1>2. PICK m \in T : \A k \in T : m <= k
  <2>1. T \in SUBSET Nat
    OBVIOUS
  <2> HIDE DEF T
  <2> QED  BY <1>1, <2>1, Minimum
<1>3. m \in 0..n /\ ~ \E f : Adds(f, r, m)
  BY <1>2
<1>4. m # 0
  <2>1. Adds([i \in 0..0 |-> 0], r, 0)
    BY DEF Adds
  <2> QED  BY <1>3, <2>1
<1>5. m - 1 \in 0..n /\ m - 1 \notin T
  BY <1>2, <1>3, <1>4
<1>6. PICK f : Adds(f, r, m - 1)
  BY <1>5
<1> DEFINE g == [i \in 0..m |-> IF i = m THEN f[m - 1] + r[m] ELSE f[i]]
<1>7. f[m - 1] \in Nat /\ r[m] \in Nat /\ \A i \in 0..m : i # m => i \in 0..(m - 1)
  BY <1>3, <1>4, <1>6 DEF Adds
<1>8. g \in [0..m -> Nat]
  BY <1>3, <1>4, <1>6, <1>7 DEF Adds
<1>9. g[0] = 0
  BY <1>3, <1>4, <1>6 DEF Adds
<1>10. ASSUME NEW i \in 1..m PROVE g[i] = g[i - 1] + r[i]
  <2>1. i - 1 \in 0..m /\ i \in 0..m /\ i - 1 # m /\ g[i - 1] = f[i - 1]
    BY <1>3
  <2>2. CASE i = m
    BY <2>1, <2>2
  <2>3. CASE i # m
    BY <1>3, <1>6, <2>1, <2>3 DEF Adds
  <2> QED  BY <2>2, <2>3
<1> HIDE DEF g
<1>11. Adds(g, r, m)
  BY <1>8, <1>9, <1>10 DEF Adds
<1> QED  BY <1>3, <1>11

LEMMA SumsAdd ==
  ASSUME NEW n \in Nat, NEW r \in [1..n -> Nat]
  PROVE  Adds(Sums(r), r, n)
<1> DEFINE upto(f) == [i \in 0..n |-> IF i = 0 THEN 0 ELSE f[i - 1] + r[i]]
<1>1. Sums(r) = CHOOSE f : f = upto(f)
  <2>1. r \in Seq(Nat) /\ Len(r) = n
    OBVIOUS
  <2> QED  BY <2>1 DEF Sums
<1>2. PICK f : Adds(f, r, n)
  BY SumsExist
<1>3. f = upto(f)
  <2>1. \A i \in 0..n : f[i] = IF i = 0 THEN 0 ELSE f[i - 1] + r[i]
    BY <1>2 DEF Adds
  <2>2. f = [i \in 0..n |-> f[i]]
    BY <1>2 DEF Adds
  <2> QED  BY <2>1, <2>2
<1> HIDE DEF upto
<1>4. Sums(r) = upto(Sums(r))
  BY <1>1, <1>3
<1> DEFINE g == Sums(r)
<1>5. DOMAIN g = 0..n /\ \A i \in 0..n : g[i] = IF i = 0 THEN 0 ELSE g[i - 1] + r[i]
  BY <1>4 DEF upto
<1> HIDE DEF g
<1> DEFINE T == {m \in 0..n : g[m] # f[m]}
<1>6. T = {}
  <2> SUFFICES ASSUME T # {} PROVE FALSE
    OBVIOUS
  <2>1. T \in SUBSET Nat
    OBVIOUS
  <2>2. PICK m \in T : \A k \in T : m <= k
    <3> HIDE DEF T
    <3> QED  BY <2>1, Minimum
  <2>3. m \in 1..n /\ g[m] # f[m]
    BY <1>2, <1>5, <2>2 DEF Adds
  <2>4. m - 1 \in 0..n /\ m - 1 \notin T
    BY <2>2, <2>3
  <2>5. g[m] = g[m - 1] + r[m] /\ f[m] = f[m - 1] + r[m] /\ g[m - 1] = f[m - 1]
    BY <1>2, <1>5, <2>3, <2>4 DEF Adds
  <2> QED  BY <2>3, <2>5
<1>7. \A m \in 0..n : g[m] = f[m]
  BY <1>6
<1>8. g = f
  <2>1. g = [i \in 0..n |-> g[i]] /\ f = [i \in 0..n |-> f[i]]
    BY <1>2, <1>4 DEF Adds, upto, g
  <2> QED  BY <1>7, <2>1
<1> QED  BY <1>2, <1>8 DEF g

LEMMA SumsGrow ==
  ASSUME NEW n \in Nat, NEW r \in [1..n -> Nat], NEW f, Adds(f, r, n)
  PROVE  \A j \in 0..n : \A i \in 0..j : f[i] <= f[j]
<1> DEFINE T == {j \in 0..n : ~ \A i \in 0..j : f[i] <= f[j]}
<1> SUFFICES ASSUME T # {} PROVE FALSE
  OBVIOUS
<1>1. T \in SUBSET Nat
  OBVIOUS
<1>2. PICK m \in T : \A k \in T : m <= k
  <2> HIDE DEF T
  <2> QED  BY <1>1, Minimum
<1>3. PICK i \in 0..m : ~ (f[i] <= f[m])
  BY <1>2
<1>4. m \in 0..n /\ f[m] \in Nat /\ f[i] \in Nat
  BY <1>2, <1>3 DEF Adds
<1>5. m # 0 /\ i # m /\ i \in 0..(m - 1)
  BY <1>3, <1>4
<1>6. m - 1 \in 0..n /\ m - 1 \notin T
  BY <1>2, <1>4, <1>5
<1>7. f[i] <= f[m - 1]
  BY <1>5, <1>6
<1>8. f[m] = f[m - 1] + r[m] /\ r[m] \in Nat /\ f[m - 1] \in Nat
  BY <1>4, <1>5, <1>6 DEF Adds
<1> QED  BY <1>3, <1>4, <1>7, <1>8

LEMMA SumsCompare ==
  ASSUME NEW n \in Nat, NEW r \in [1..n -> Nat], NEW q \in [1..n -> Nat],
         NEW f, Adds(f, r, n), NEW g, Adds(g, q, n), \A i \in 1..n : r[i] <= q[i]
  PROVE  \A i \in 0..n : f[i] <= g[i]
<1> DEFINE T == {j \in 0..n : ~ (f[j] <= g[j])}
<1> SUFFICES ASSUME T # {} PROVE FALSE
  OBVIOUS
<1>1. T \in SUBSET Nat
  OBVIOUS
<1>2. PICK m \in T : \A k \in T : m <= k
  <2> HIDE DEF T
  <2> QED  BY <1>1, Minimum
<1>3. m \in 1..n /\ ~ (f[m] <= g[m])
  BY <1>2 DEF Adds
<1>4. m - 1 \in 0..n /\ m - 1 \notin T
  BY <1>2, <1>3
<1>5. f[m - 1] <= g[m - 1]
  BY <1>4
<1>6. f[m] = f[m - 1] + r[m] /\ g[m] = g[m - 1] + q[m] /\ r[m] <= q[m]
      /\ f[m - 1] \in Nat /\ g[m - 1] \in Nat /\ r[m] \in Nat /\ q[m] \in Nat
  BY <1>3, <1>4 DEF Adds
<1> QED  BY <1>3, <1>5, <1>6

-----------------------------------------------------------------------------
(* The buffer of texts *)

\* Texts for an object with n fields.
Wording(n) == [1..n -> DOMAIN Length \union {None}]

\* Those that the object shows: an empty text is no text.
Seen(w) == [i \in DOMAIN w |-> IF Held(w, i) THEN w[i] ELSE None]

LEMMA Assumed ==
  /\ Length \in [DOMAIN Length -> Nat] /\ None \notin DOMAIN Length
  /\ Null \notin Blocks /\ Null \notin Nat /\ Blocks \subseteq Nat
  /\ MaxFrames \in Nat /\ MaxFrames >= 1 /\ Signals \subseteq Int
BY ArgsAssumption DEF Null

\* Where the texts begin, and the room that they take.
HeldRooms(w) == [i \in DOMAIN w |-> IF Held(w, i) THEN Room(w, i) ELSE 0]
Rooms(w)     == [i \in DOMAIN w |-> Room(w, i)]

LEMMA RoomsType ==
  ASSUME NEW n \in Nat, NEW w \in Wording(n)
  PROVE  /\ DOMAIN w = 1..n /\ Len(w) = n
         /\ Rooms(w) \in [1..n -> Nat] /\ HeldRooms(w) \in [1..n -> Nat]
         /\ \A i \in 1..n : HeldRooms(w)[i] <= Rooms(w)[i]
         /\ \A i \in 1..n : Held(w, i) =>
              w[i] \in DOMAIN Length /\ Length[w[i]] \in Nat /\ HeldRooms(w)[i] = Length[w[i]] + 1
<1>1. DOMAIN w = 1..n /\ Len(w) = n
  <2>1. w \in Seq(DOMAIN Length \union {None})
    BY DEF Wording
  <2> QED  BY DEF Wording
<1>2. ASSUME NEW i \in 1..n
      PROVE  /\ Room(w, i) \in Nat /\ (Held(w, i) => w[i] \in DOMAIN Length /\ Length[w[i]] \in Nat
                                                      /\ Room(w, i) = Length[w[i]] + 1)
  <2>1. w[i] \in DOMAIN Length \union {None}
    BY DEF Wording
  <2> QED  BY <2>1, Assumed DEF Room, Held
<1> QED  BY <1>1, <1>2 DEF Rooms, HeldRooms

\* Each text ends in front of the next, and the last one inside the buffer.
LEMMA Layout ==
  ASSUME NEW n \in Nat, NEW w \in Wording(n)
  PROVE  /\ Total(w) \in Nat
         /\ \A i \in 1..n : Offset(w, i) \in Nat
         /\ \A i \in 1..n : Held(w, i) => Offset(w, i) + Length[w[i]] < Total(w)
         /\ \A i, j \in 1..n : Held(w, i) /\ i < j => Offset(w, i) + Length[w[i]] < Offset(w, j)
         /\ Total(w) = 0 => \A i \in 1..n : w[i] = None
<1> DEFINE f == Sums(HeldRooms(w))
           g == Sums(Rooms(w))
<1>1. Adds(f, HeldRooms(w), n) /\ Adds(g, Rooms(w), n)
  BY RoomsType, SumsAdd
<1>2. \A i \in 1..n : Offset(w, i) = f[i - 1]
  BY DEF Offset, HeldRooms
<1>3. Total(w) = g[n]
  BY RoomsType DEF Total, Rooms
<1> HIDE DEF f, g
<1>4. \A j \in 0..n : \A i \in 0..j : f[i] <= f[j] /\ g[i] <= g[j]
  BY <1>1, RoomsType, SumsGrow
<1>5. \A i \in 0..n : f[i] <= g[i]
  BY <1>1, RoomsType, SumsCompare
<1>6. \A i \in 0..n : f[i] \in Nat /\ g[i] \in Nat
  BY <1>1 DEF Adds
<1>7. \A i \in 1..n : i - 1 \in 0..n /\ i \in 0..n /\ i \in Nat
  OBVIOUS
<1>8. ASSUME NEW i \in 1..n, Held(w, i)
      PROVE  f[i] = f[i - 1] + Length[w[i]] + 1 /\ Length[w[i]] \in Nat
  <2>1. f[i] = f[i - 1] + HeldRooms(w)[i]
    BY <1>1 DEF Adds
  <2>2. HeldRooms(w)[i] = Length[w[i]] + 1 /\ Length[w[i]] \in Nat
    BY <1>8, RoomsType
  <2> QED  BY <1>6, <1>7, <2>1, <2>2
<1>9. ASSUME NEW i \in 1..n, Held(w, i) PROVE Offset(w, i) + Length[w[i]] < Total(w)
  <2>1. f[i] <= g[n]
    <3>1. f[i] <= f[n] /\ f[n] <= g[n] /\ f[i] \in Nat /\ f[n] \in Nat /\ g[n] \in Nat
      BY <1>4, <1>5, <1>6, <1>7
    <3> QED  BY <3>1
  <2> QED  BY <1>2, <1>3, <1>6, <1>7, <1>8, <1>9, <2>1
<1>10. ASSUME NEW i \in 1..n, NEW j \in 1..n, Held(w, i), i < j
       PROVE  Offset(w, i) + Length[w[i]] < Offset(w, j)
  <2>1. f[i] <= f[j - 1] /\ f[i - 1] \in Nat /\ f[i] \in Nat /\ f[j - 1] \in Nat
    <3>1. j - 1 \in 0..n /\ i \in 0..(j - 1)
      BY <1>10
    <3> QED  BY <1>4, <1>6, <1>7, <3>1
  <2> QED  BY <1>2, <1>8, <1>10, <2>1
<1>11. ASSUME NEW i \in 1..n, Total(w) = 0 PROVE w[i] = None
  <2>1. g[i] <= g[n] /\ g[i] = g[i - 1] + Room(w, i) /\ Room(w, i) \in Nat
    <3>1. g[i] = g[i - 1] + Rooms(w)[i] /\ n \in 0..n /\ i \in 0..n
      BY <1>1 DEF Adds
    <3>2. Rooms(w)[i] = Room(w, i) /\ Rooms(w)[i] \in Nat
      BY RoomsType DEF Rooms
    <3> QED  BY <1>4, <3>1, <3>2
  <2>2. Room(w, i) = 0
    BY <1>3, <1>6, <1>7, <1>11, <2>1
  <2>3. w[i] \in DOMAIN Length \union {None}
    BY DEF Wording
  <2> QED  BY <2>2, <2>3, Assumed DEF Room
<1> QED  BY <1>2, <1>3, <1>6, <1>7, <1>9, <1>10, <1>11

LEMMA BufferHolds ==
  ASSUME NEW n \in Nat, NEW w \in Wording(n)
  PROVE  /\ Buffer(w).size = Total(w) /\ IsBuffer(Buffer(w)) /\ ~ IsVector(Buffer(w))
         /\ \A i \in 1..n : Held(w, i) => Buffer(w).str[Offset(w, i)] = w[i]
<1>1. DOMAIN w = 1..n /\ Total(w) \in Nat
  BY RoomsType, Layout
<1>2. ~ IsVector(Buffer(w)) /\ Buffer(w).size = Total(w) /\ DOMAIN Buffer(w).str = 0..(Total(w) - 1)
  BY DEF IsVector, Buffer
<1>3. ASSUME NEW p \in 0..(Total(w) - 1), NEW i \in 1..n, Held(w, i), Offset(w, i) = p
      PROVE  Buffer(w).str[p] = w[i]
  <2> DEFINE at == {k \in DOMAIN w : Held(w, k) /\ Offset(w, k) = p}
             k == CHOOSE k \in DOMAIN w : Held(w, k) /\ Offset(w, k) = p
  <2>1. Buffer(w).str[p] = w[k] /\ k \in 1..n /\ Held(w, k) /\ Offset(w, k) = p
    BY <1>1, <1>3 DEF Buffer
  <2> HIDE DEF k
  <2>2. Length[w[i]] \in Nat /\ Length[w[k]] \in Nat /\ Offset(w, i) \in Nat
    BY <1>3, <2>1, RoomsType, Layout
  <2>3. ~ (i < k) /\ ~ (k < i)
    BY <1>3, <2>1, <2>2, Layout
  <2>4. i = k
    BY <2>1, <2>3
  <2> QED  BY <2>1, <2>4
<1>4. ASSUME NEW i \in 1..n, Held(w, i) PROVE Buffer(w).str[Offset(w, i)] = w[i]
  <2>1. Offset(w, i) \in 0..(Total(w) - 1)
    <3>1. Offset(w, i) \in Nat /\ Length[w[i]] \in Nat /\ Offset(w, i) + Length[w[i]] < Total(w)
      BY <1>4, RoomsType, Layout
    <3> QED  BY <1>1, <3>1
  <2> QED  BY <1>3, <1>4, <2>1
<1>5. ASSUME NEW p \in 0..(Total(w) - 1) PROVE Buffer(w).str[p] \in DOMAIN Length \union {None}
  <2>1. CASE \E i \in 1..n : Held(w, i) /\ Offset(w, i) = p
    BY <1>3, <2>1 DEF Wording
  <2>2. CASE ~ \E i \in 1..n : Held(w, i) /\ Offset(w, i) = p
    BY <1>1, <2>2 DEF Buffer
  <2> QED  BY <2>1, <2>2
<1>6. IsBuffer(Buffer(w))
  BY <1>1, <1>2, <1>5 DEF IsBuffer, Buffer
<1> QED  BY <1>2, <1>4, <1>6

LEMMA SeenType ==
  ASSUME NEW n \in Nat, NEW w \in Wording(n)
  PROVE  /\ Seen(w) \in Wording(n) /\ Seen(Seen(w)) = Seen(w)
         /\ Seen(w) = Abstract!Normal(w)
         /\ Total(w) = 0 => w = [i \in 1..n |-> None]
         /\ Total(w) = 0 <=> \A i \in 1..n : w[i] = None
<1>1. Seen(w) \in Wording(n)
  BY DEF Seen, Wording
<1>2. \A i \in 1..n : w[i] \in DOMAIN Length => Length[w[i]] \in Nat
  BY Assumed
<1>3. Seen(Seen(w)) = Seen(w)
  BY <1>1 DEF Seen, Held, Wording
<1>4. Seen(w) = Abstract!Normal(w)
  <2>1. \A i \in 1..n : Held(w, i) <=> ~ (w[i] = None \/ Length[w[i]] = 0)
    BY <1>2 DEF Held, Wording
  <2> QED  BY <2>1 DEF Seen, Abstract!Normal, Wording
<1>5. Total(w) = 0 => w = [i \in 1..n |-> None]
  BY Layout DEF Wording
<1>6. ASSUME \A i \in 1..n : w[i] = None PROVE Total(w) = 0
  <2> DEFINE g == Sums(Rooms(w))
             T == {m \in 0..n : g[m] # 0}
  <2>1. Adds(g, Rooms(w), n) /\ Total(w) = g[n]
    BY RoomsType, SumsAdd DEF Total, Rooms
  <2>2. \A i \in 1..n : Rooms(w)[i] = 0
    BY <1>6, RoomsType DEF Rooms, Room
  <2> HIDE DEF g
  <2>3. T = {}
    <3> SUFFICES ASSUME T # {} PROVE FALSE
      OBVIOUS
    <3>1. T \in SUBSET Nat
      OBVIOUS
    <3>2. PICK m \in T : \A k \in T : m <= k
      <4> HIDE DEF T
      <4> QED  BY <3>1, Minimum
    <3>3. m \in 1..n /\ g[m] # 0
      BY <2>1, <3>2 DEF Adds
    <3>4. m - 1 \in 0..n /\ m - 1 \notin T
      BY <3>2, <3>3
    <3>5. g[m] = g[m - 1] + Rooms(w)[m] /\ g[m - 1] = 0
      BY <2>1, <3>3, <3>4 DEF Adds
    <3> QED  BY <2>2, <3>3, <3>5
  <2> QED  BY <2>1, <2>3
<1> QED  BY <1>1, <1>3, <1>4, <1>5, <1>6

-----------------------------------------------------------------------------
(* Objects *)

\* The object o shows the texts w, laid out in a buffer of its own.
Shows(h, o, w) ==
  /\ o = Laid(w, o.buffer)
  /\ Total(w) # 0 => o.buffer \in DOMAIN h /\ h[o.buffer] = Buffer(w)

Good(h, o, n) == \E w \in Wording(n) : Shows(h, o, w)

\* The block that it owns.
TextOwn(o) == {o.buffer} \ {Null}

LEMMA ShownIs ==
  ASSUME NEW n \in Nat, NEW w \in Wording(n), NEW h, DOMAIN h \subseteq Blocks, NEW o, Shows(h, o, w)
  PROVE  /\ DOMAIN o.ptr = 1..n /\ o.ptr = Pointers(w) /\ o.buffer_total_size = Total(w)
         /\ o = [ptr |-> o.ptr, buffer |-> o.buffer, buffer_total_size |-> o.buffer_total_size]
         /\ o.buffer = Null <=> Total(w) = 0
         /\ o.buffer # Null => o.buffer \in DOMAIN h /\ h[o.buffer] = Buffer(w)
         /\ \A i \in 1..n : o.ptr[i] = Null <=> ~ Held(w, i)
         /\ \A i \in 1..n : Held(w, i) => o.ptr[i] = Offset(w, i) /\ o.buffer # Null
<1> DEFINE b == o.buffer
<1>1. o = [ptr |-> Pointers(w), buffer |-> IF Total(w) = 0 THEN Null ELSE b,
           buffer_total_size |-> Total(w)]
  BY DEF Shows, Laid
<1> HIDE DEF b
<1>2. o.ptr = Pointers(w) /\ o.buffer_total_size = Total(w)
      /\ o.buffer = (IF Total(w) = 0 THEN Null ELSE b)
      /\ o = [ptr |-> o.ptr, buffer |-> o.buffer, buffer_total_size |-> o.buffer_total_size]
  BY <1>1
<1>3. o.buffer = Null <=> Total(w) = 0
  BY <1>2, Assumed DEF Shows
<1>4. DOMAIN w = 1..n /\ \A i \in 1..n : Offset(w, i) \in Nat
  BY RoomsType, Layout
<1>5. \A i \in 1..n : o.ptr[i] = IF Held(w, i) THEN Offset(w, i) ELSE Null
  BY <1>2, <1>4 DEF Pointers
<1>6. ASSUME NEW i \in 1..n, Held(w, i) PROVE Total(w) # 0
  BY <1>6, SeenType DEF Held
<1>7. DOMAIN o.ptr = 1..n
  BY <1>2, <1>4 DEF Pointers
<1> QED  BY <1>2, <1>3, <1>4, <1>5, <1>6, <1>7, Assumed DEF Shows

LEMMA ShownWords ==
  ASSUME NEW n \in Nat, NEW w \in Wording(n), NEW h, DOMAIN h \subseteq Blocks, NEW o, Shows(h, o, w)
  PROVE  Words(h, o) = Seen(w)
<1>1. DOMAIN o.ptr = 1..n /\ DOMAIN w = 1..n
  BY ShownIs, RoomsType
<1>2. ASSUME NEW i \in 1..n
      PROVE  (IF o.ptr[i] = Null THEN None ELSE h[o.buffer].str[o.ptr[i]])
               = IF Held(w, i) THEN w[i] ELSE None
  <2>1. CASE Held(w, i)
    <3>1. o.ptr[i] = Offset(w, i) /\ o.ptr[i] # Null /\ h[o.buffer] = Buffer(w)
      BY <2>1, ShownIs
    <3>2. Buffer(w).str[Offset(w, i)] = w[i]
      BY <2>1, BufferHolds
    <3> QED  BY <2>1, <3>1, <3>2
  <2>2. CASE ~ Held(w, i)
    BY <2>2, ShownIs
  <2> QED  BY <2>1, <2>2
<1> QED  BY <1>1, <1>2 DEF Words, Seen

\* A good object, its type, and what it shows.
LEMMA GoodIs ==
  ASSUME NEW n \in Nat, NEW h, DOMAIN h \subseteq Blocks, NEW o, Good(h, o, n)
  PROVE  /\ o \in Texts(n) /\ o # Absent
         /\ Words(h, o) \in Wording(n) /\ Seen(Words(h, o)) = Words(h, o)
         /\ TextOwn(o) \subseteq DOMAIN h
         /\ o.buffer # Null => o.buffer \in DOMAIN h /\ ~ IsVector(h[o.buffer]) /\ IsBuffer(h[o.buffer])
         /\ o.buffer = Null => Words(h, o) = [i \in 1..n |-> None]
<1>1. PICK w \in Wording(n) : Shows(h, o, w)
  BY DEF Good
<1>2. Words(h, o) = Seen(w)
  BY <1>1, ShownWords
<1>3. Words(h, o) \in Wording(n) /\ Seen(Words(h, o)) = Words(h, o)
  BY <1>2, SeenType
<1>4. o \in Texts(n)
  <2>1. o = [ptr |-> o.ptr, buffer |-> o.buffer, buffer_total_size |-> o.buffer_total_size]
    BY <1>1, ShownIs
  <2>2. o.buffer \in Blocks \union {Null} /\ o.buffer_total_size \in Nat
    BY <1>1, ShownIs, Layout
  <2>3. o.ptr \in [1..n -> Nat \union {Null}]
    <3>1. DOMAIN w = 1..n /\ \A i \in DOMAIN w : Offset(w, i) \in Nat
      BY RoomsType, Layout
    <3>2. Pointers(w) \in [1..n -> Nat \union {Null}]
      BY <3>1 DEF Pointers
    <3> QED  BY <1>1, <3>2, ShownIs
  <2> QED  BY <2>1, <2>2, <2>3 DEF Texts
<1>5. o # Absent
  BY <1>4 DEF Texts, Absent
<1>6. o.buffer # Null => o.buffer \in DOMAIN h /\ h[o.buffer] = Buffer(w)
  BY <1>1, ShownIs
<1>7. o.buffer = Null => Words(h, o) = [i \in 1..n |-> None]
  <2>1. ASSUME o.buffer = Null PROVE Seen(w) = [i \in 1..n |-> None]
    <3>1. w = [i \in 1..n |-> None]
      BY <1>1, <2>1, ShownIs, SeenType
    <3> QED  BY <3>1 DEF Seen, Held
  <2> QED  BY <1>2, <2>1
<1> QED  BY <1>3, <1>4, <1>5, <1>6, <1>7, BufferHolds DEF TextOwn

\* The blocks B are in the heap g what they were in h.
Same(h, g, B) == \A b \in B : b \in DOMAIN h => b \in DOMAIN g /\ g[b] = h[b]

LEMMA GoodKept ==
  ASSUME NEW n \in Nat, NEW h, NEW g, DOMAIN h \subseteq Blocks, DOMAIN g \subseteq Blocks,
         NEW o, Good(h, o, n), Same(h, g, TextOwn(o))
  PROVE  Good(g, o, n) /\ Words(g, o) = Words(h, o)
<1>1. PICK w \in Wording(n) : Shows(h, o, w)
  BY DEF Good
<1>2. Shows(g, o, w)
  <2>1. Total(w) # 0 => o.buffer \in TextOwn(o) /\ o.buffer \in DOMAIN h
    BY <1>1, Assumed DEF Shows, TextOwn
  <2> QED  BY <1>1, <2>1 DEF Shows, Same
<1> QED  BY <1>1, <1>2, ShownWords DEF Good

\* A heap in which the blocks B have taken the place of the blocks A.
Exchanged(h, g, A, B) ==
  /\ DOMAIN g = (DOMAIN h \ A) \union B
  /\ B \intersect (DOMAIN h \ A) = {}
  /\ \A b \in DOMAIN h \ A : g[b] = h[b]
  /\ DOMAIN g \subseteq Blocks

LEMMA ExchangedTwice ==
  ASSUME NEW h, NEW g, NEW k, NEW A, NEW B, NEW C, Exchanged(h, g, A, B), Exchanged(g, k, B, C)
  PROVE  Exchanged(h, k, A, C)
BY DEF Exchanged

\* Blocks C that stay may be seen as exchanged.
LEMMA ExchangedMore ==
  ASSUME NEW h, NEW g, NEW A, NEW B, NEW C, Exchanged(h, g, A, B), C \subseteq DOMAIN h \ A
  PROVE  Exchanged(h, g, A \union C, B \union C)
BY DEF Exchanged

LEMMA FreeExchanges ==
  ASSUME NEW h, DOMAIN h \subseteq Blocks, NEW A
  PROVE  Exchanged(h, Free(h, A), A, {}) /\ Exchanged(h, Free(h, A), A \ {Null}, {})
BY Assumed DEF Exchanged, Free

LEMMA NewIs ==
  ASSUME NEW h, NEW S, NEW at \in New(h, S)
  PROVE  /\ at \in [S -> Blocks \ DOMAIN h]
         /\ \A i, j \in S : at[i] = at[j] => i = j
BY DEF New

LEMMA NewBlockIs ==
  ASSUME NEW h, NEW b \in NewBlock(h)
  PROVE  b \in Blocks \ DOMAIN h
BY NewIs DEF NewBlock

LEMMA WithExchanges ==
  ASSUME NEW h, DOMAIN h \subseteq Blocks, NEW b \in Blocks \ DOMAIN h, NEW x
  PROVE  Exchanged(h, With(h, b, x), {}, {b}) /\ With(h, b, x)[b] = x
BY DEF Exchanged, With

\* _copy_values() lays the texts w out in a new block.
LEMMA WrittenIs ==
  ASSUME NEW n \in Nat, NEW w \in Wording(n), NEW h, DOMAIN h \subseteq Blocks,
         NEW b \in Blocks \ DOMAIN h
  PROVE  /\ Exchanged(h, Written(h, w, b), {}, TextOwn(Laid(w, b)))
         /\ Shows(Written(h, w, b), Laid(w, b), w)
         /\ Good(Written(h, w, b), Laid(w, b), n)
         /\ Words(Written(h, w, b), Laid(w, b)) = Seen(w)
         /\ TextOwn(Laid(w, b)) \subseteq {b}
<1> DEFINE o == Laid(w, b)
<1>1. o.buffer = (IF Total(w) = 0 THEN Null ELSE b) /\ b # Null
  BY Assumed DEF Laid
<1>2. o = Laid(w, o.buffer)
  BY <1>1 DEF Laid
<1> HIDE DEF o
<1>3. CASE Total(w) = 0
  <2>1. TextOwn(o) = {} /\ Written(h, w, b) = h
    BY <1>1, <1>3 DEF TextOwn, Written
  <2>2. Exchanged(h, h, {}, {})
    BY DEF Exchanged
  <2>3. Shows(h, o, w)
    BY <1>2, <1>3 DEF Shows
  <2> QED  BY <2>1, <2>2, <2>3, ShownWords DEF Good, o
<1>4. CASE Total(w) # 0
  <2>1. TextOwn(o) = {b} /\ Written(h, w, b) = With(h, b, Buffer(w))
    BY <1>1, <1>4 DEF TextOwn, Written
  <2>2. Exchanged(h, With(h, b, Buffer(w)), {}, {b}) /\ With(h, b, Buffer(w))[b] = Buffer(w)
    BY WithExchanges
  <2> DEFINE g == With(h, b, Buffer(w))
  <2> HIDE DEF g
  <2>3. Shows(g, o, w) /\ DOMAIN g \subseteq Blocks
    BY <1>1, <1>2, <1>4, <2>2 DEF Shows, Exchanged, g
  <2> QED  BY <2>1, <2>2, <2>3, ShownWords DEF Good, o, g
<1> QED  BY <1>3, <1>4

LEMMA EmptyIsGood ==
  ASSUME NEW n \in Nat, NEW h, DOMAIN h \subseteq Blocks
  PROVE  /\ Good(h, NoTexts(n), n) /\ TextOwn(NoTexts(n)) = {}
         /\ NoTexts(n).buffer = Null
         /\ Words(h, NoTexts(n)) = [i \in 1..n |-> None]
<1> DEFINE w == [i \in 1..n |-> None]
<1>1. w \in Wording(n) /\ \A i \in 1..n : ~ Held(w, i)
  BY DEF Wording, Held
<1>2. Total(w) = 0
  BY <1>1, SeenType
<1>3. Pointers(w) = [i \in 1..n |-> Null]
  BY <1>1 DEF Pointers
<1> HIDE DEF w
<1>4. NoTexts(n) = Laid(w, Null) /\ NoTexts(n).buffer = Null
  BY <1>2, <1>3 DEF NoTexts, Laid
<1>5. Shows(h, NoTexts(n), w)
  BY <1>2, <1>4 DEF Shows
<1>6. Good(h, NoTexts(n), n)
  BY <1>1, <1>5 DEF Good
<1> QED  BY <1>4, <1>6, GoodIs DEF TextOwn

-----------------------------------------------------------------------------
(* Vectors of frames *)

CellsOwn(c) == {c[i].buffer : i \in DOMAIN c} \ {Null}

\* Cells whose frames are good and share no buffer.
GoodCells(h, c) ==
  /\ c \in Seq(Texts(3)) /\ Len(c) <= MaxFrames
  /\ \A i \in 1..Len(c) : Good(h, c[i], 3)
  /\ \A i, j \in 1..Len(c) : c[i].buffer = c[j].buffer /\ c[i].buffer # Null => i = j

GoodVector(h, v) ==
  /\ v = [cells |-> v.cells, v_size |-> v.v_size]
  /\ GoodCells(h, v.cells)
  /\ v.v_size \in 0..Len(v.cells)

\* The words w are those of the first n cells.
CellsShow(h, c, n, w) == \A i \in 1..n : Words(h, c[i]) = w[i]

LEMMA CellsAre ==
  ASSUME NEW h, DOMAIN h \subseteq Blocks, NEW c, GoodCells(h, c)
  PROVE  /\ Len(c) \in Nat /\ DOMAIN c = 1..Len(c) /\ Len(c) <= MaxFrames
         /\ CellsOwn(c) \subseteq DOMAIN h
         /\ \A b \in CellsOwn(c) : ~ IsVector(h[b]) /\ IsBuffer(h[b])
         /\ \A i \in 1..Len(c) : TextOwn(c[i]) \subseteq CellsOwn(c)
<1>1. Len(c) \in Nat /\ DOMAIN c = 1..Len(c)
  BY DEF GoodCells
<1>2. \A i \in 1..Len(c) : Good(h, c[i], 3)
  BY DEF GoodCells
<1> QED  BY <1>1, <1>2, GoodIs DEF CellsOwn, TextOwn, GoodCells

LEMMA CellsKept ==
  ASSUME NEW h, NEW g, DOMAIN h \subseteq Blocks, DOMAIN g \subseteq Blocks,
         NEW c, GoodCells(h, c), Same(h, g, CellsOwn(c))
  PROVE  GoodCells(g, c) /\ \A i \in 1..Len(c) : Words(g, c[i]) = Words(h, c[i])
<1>1. ASSUME NEW i \in 1..Len(c) PROVE Good(g, c[i], 3) /\ Words(g, c[i]) = Words(h, c[i])
  <2>1. TextOwn(c[i]) \subseteq CellsOwn(c)
    BY CellsAre
  <2>2. Same(h, g, TextOwn(c[i]))
    BY <2>1 DEF Same
  <2>3. Good(h, c[i], 3)
    BY DEF GoodCells
  <2> QED  BY <2>2, <2>3, GoodKept
<1> QED  BY <1>1 DEF GoodCells

LEMMA VectorIs ==
  ASSUME NEW h, DOMAIN h \subseteq Blocks, NEW v, GoodVector(h, v)
  PROVE  /\ v \in Vectors /\ v # Absent /\ IsVector(v)
         /\ v.v_size \in Nat /\ v.v_size <= Len(v.cells) /\ Len(v.cells) \in Nat /\ v.v_size <= MaxFrames
         /\ Values(h, v) \in Seq(Wording(3)) /\ Len(Values(h, v)) = v.v_size
         /\ DOMAIN Values(h, v) = 1..v.v_size
         /\ \A i \in 1..v.v_size : /\ Values(h, v)[i] = Words(h, v.cells[i])
                                   /\ Values(h, v)[i] \in Wording(3)
                                   /\ Seen(Values(h, v)[i]) = Values(h, v)[i]
<1>1. Len(v.cells) \in Nat /\ v.v_size \in 0..Len(v.cells) /\ GoodCells(h, v.cells)
      /\ Len(v.cells) <= MaxFrames
  BY CellsAre DEF GoodVector
<1>2. \A i \in 1..v.v_size : i \in 1..Len(v.cells) /\ Good(h, v.cells[i], 3)
  BY <1>1 DEF GoodCells
<1>3. \A i \in 1..v.v_size : /\ Words(h, v.cells[i]) \in Wording(3)
                             /\ Seen(Words(h, v.cells[i])) = Words(h, v.cells[i])
  BY <1>2, GoodIs
<1>4. v = [cells |-> v.cells, v_size |-> v.v_size]
  BY DEF GoodVector
<1>5. v \in Vectors
  BY <1>1, <1>4, Assumed DEF Vectors, GoodCells
<1>6. v # Absent /\ IsVector(v)
  BY <1>4 DEF Absent, IsVector
<1>7. /\ Values(h, v) \in Seq(Wording(3)) /\ Len(Values(h, v)) = v.v_size
      /\ DOMAIN Values(h, v) = 1..v.v_size
      /\ \A i \in 1..v.v_size : Values(h, v)[i] = Words(h, v.cells[i])
  BY <1>1, <1>3 DEF Values
<1> QED  BY <1>1, <1>3, <1>5, <1>6, <1>7, Assumed

\* What a vector shows is what its cells show.
LEMMA ValuesAre ==
  ASSUME NEW h, NEW n \in Nat, NEW c, NEW w \in Seq(Wording(3)), Len(w) = n, CellsShow(h, c, n, w)
  PROVE  Values(h, [cells |-> c, v_size |-> n]) = w
<1>1. w = [i \in 1..n |-> w[i]]
  OBVIOUS
<1>2. Values(h, [cells |-> c, v_size |-> n]) = [i \in 1..n |-> Words(h, c[i])]
  BY DEF Values
<1> QED  BY <1>1, <1>2 DEF CellsShow

LEMMA VectorKept ==
  ASSUME NEW h, NEW g, DOMAIN h \subseteq Blocks, DOMAIN g \subseteq Blocks,
         NEW v, GoodVector(h, v), Same(h, g, CellsOwn(v.cells))
  PROVE  GoodVector(g, v) /\ Values(g, v) = Values(h, v)
<1>1. GoodCells(g, v.cells) /\ \A i \in 1..Len(v.cells) : Words(g, v.cells[i]) = Words(h, v.cells[i])
  BY CellsKept DEF GoodVector
<1>2. \A i \in 1..v.v_size : i \in 1..Len(v.cells)
  BY VectorIs
<1> QED  BY <1>1, <1>2 DEF GoodVector, Values

LEMMA NoStackIsGood ==
  ASSUME NEW h, DOMAIN h \subseteq Blocks
  PROVE  GoodVector(h, NoStack) /\ CellsOwn(NoStack.cells) = {} /\ Values(h, NoStack) = <<>>
BY Assumed DEF GoodVector, GoodCells, NoStack, CellsOwn, Values

\* The cells of a copy of v.
Copied(h, v, cap, r) ==
  /\ Exchanged(h, r.heap, {}, CellsOwn(r.cells))
  /\ GoodCells(r.heap, r.cells) /\ Len(r.cells) = cap
  /\ CellsShow(r.heap, r.cells, v.v_size, Values(h, v))

LEMMA CopyCellsIs ==
  ASSUME NEW h, DOMAIN h \subseteq Blocks, NEW v, GoodVector(h, v), NEW cap \in Nat,
         v.v_size <= cap, cap <= MaxFrames, NEW at \in New(h, Filled(h, v))
  PROVE  Copied(h, v, cap, CopyCells(h, v, cap, at))
<1> DEFINE w == Values(h, v)
           F == Filled(h, v)
           r == CopyCells(h, v, cap, at)
           g == r.heap
           c == r.cells
<1>1. \A i \in 1..v.v_size : w[i] \in Wording(3) /\ Seen(w[i]) = w[i]
  BY VectorIs
<1>2. F = {i \in 1..v.v_size : Total(w[i]) > 0}
  BY DEF Filled
<1>3. at \in [F -> Blocks \ DOMAIN h] /\ \A i, j \in F : at[i] = at[j] => i = j
  BY NewIs
<1>4. /\ g = [b \in DOMAIN h \union {at[i] : i \in F} |->
                IF b \in DOMAIN h THEN h[b] ELSE Buffer(w[CHOOSE i \in F : at[i] = b])]
      /\ c = [i \in 1..cap |-> IF i \in F THEN Laid(w[i], at[i]) ELSE NoFrame]
  BY <1>3 DEF CopyCells
<1>5. v.v_size \in Nat /\ F \subseteq 1..cap
  BY <1>2, VectorIs
<1> HIDE DEF w, F, g, c
<1>6. \A i \in F : g[at[i]] = Buffer(w[i]) /\ at[i] \in DOMAIN g /\ at[i] \notin DOMAIN h /\ at[i] \in Blocks
  <2> SUFFICES ASSUME NEW i \in F
               PROVE  g[at[i]] = Buffer(w[i]) /\ at[i] \in DOMAIN g /\ at[i] \notin DOMAIN h
                      /\ at[i] \in Blocks
    OBVIOUS
  <2> DEFINE k == CHOOSE k \in F : at[k] = at[i]
  <2>1. k \in F /\ at[k] = at[i]
    OBVIOUS
  <2>2. k = i
    BY <1>3, <2>1
  <2>3. at[i] \in Blocks \ DOMAIN h
    BY <1>3
  <2>4. g[at[i]] = Buffer(w[k])
    BY <1>4, <2>3
  <2> QED  BY <1>4, <2>2, <2>3, <2>4
<1>7. DOMAIN g = DOMAIN h \union {at[i] : i \in F} /\ DOMAIN g \subseteq Blocks
      /\ \A b \in DOMAIN h : g[b] = h[b]
  BY <1>3, <1>4
<1>8. \A i \in F : c[i] = Laid(w[i], at[i]) /\ Total(w[i]) # 0
  <2>1. \A i \in F : Total(w[i]) # 0
    BY <1>1, <1>2, Layout
  <2> QED  BY <1>4, <1>5, <2>1
<1>9. \A i \in 1..cap : i \notin F => c[i] = NoFrame
  BY <1>4
<1>10. ASSUME NEW i \in F
       PROVE  /\ Good(g, c[i], 3) /\ Words(g, c[i]) = w[i] /\ c[i].buffer = at[i] /\ c[i].buffer # Null
  <2>0. c[i] = Laid(w[i], at[i]) /\ Total(w[i]) # 0
    BY <1>8
  <2>1. c[i].buffer = at[i] /\ c[i] = Laid(w[i], c[i].buffer)
    <3>1. Laid(w[i], at[i]).buffer = at[i]
      BY <2>0 DEF Laid
    <3> QED  BY <2>0, <3>1
  <2>2. i \in 1..v.v_size /\ w[i] \in Wording(3) /\ Seen(w[i]) = w[i]
    BY <1>1, <1>2
  <2>3. Shows(g, c[i], w[i])
    BY <1>6, <2>1 DEF Shows
  <2>4. at[i] # Null
    BY <1>6, Assumed
  <2> QED  BY <1>7, <2>1, <2>2, <2>3, <2>4, ShownWords DEF Good
<1>11. ASSUME NEW i \in 1..cap, i \notin F
       PROVE  Good(g, c[i], 3) /\ Words(g, c[i]) = [k \in 1..3 |-> None] /\ c[i].buffer = Null
  BY <1>7, <1>9, <1>11, EmptyIsGood DEF NoFrame
<1>12. DOMAIN c = 1..cap /\ c = [i \in 1..cap |-> c[i]]
  BY <1>4
<1>13. \A i \in 1..cap : Good(g, c[i], 3)
  BY <1>10, <1>11
<1>14. \A i \in 1..cap : c[i] \in Texts(3)
  BY <1>7, <1>13, GoodIs
<1>15. c \in Seq(Texts(3)) /\ Len(c) = cap
  BY <1>12, <1>14
<1>16. CellsOwn(c) = {at[i] : i \in F}
  <2>1. \A i \in F : i \in DOMAIN c /\ c[i].buffer = at[i] /\ at[i] # Null
    BY <1>5, <1>10, <1>12
  <2>2. \A i \in DOMAIN c : i \in F \/ c[i].buffer = Null
    BY <1>11, <1>12
  <2> QED  BY <2>1, <2>2 DEF CellsOwn
<1>17. Exchanged(h, g, {}, CellsOwn(c))
  BY <1>6, <1>7, <1>16 DEF Exchanged
<1>18. \A i, j \in 1..cap : c[i].buffer = c[j].buffer /\ c[i].buffer # Null => i = j
  BY <1>3, <1>10, <1>11
<1>19. GoodCells(g, c)
  BY <1>13, <1>15, <1>18 DEF GoodCells
<1>20. ASSUME NEW i \in 1..v.v_size PROVE Words(g, c[i]) = w[i]
  <2>1. CASE i \in F
    BY <1>10, <2>1
  <2>2. CASE i \notin F
    <3>1. Total(w[i]) = 0
      BY <1>1, <1>2, <2>2, Layout
    <3>2. w[i] = [k \in 1..3 |-> None]
      BY <1>1, <3>1, SeenType
    <3>3. i \in 1..cap
      BY <1>5
    <3> QED  BY <1>11, <2>2, <3>2, <3>3
  <2> QED  BY <2>1, <2>2
<1> QED  BY <1>15, <1>17, <1>19, <1>20 DEF Copied, CellsShow, g, c, w

\* New blocks B are taken, and then the old blocks A are given back.
LEMMA TakenThenFreed ==
  ASSUME NEW h, NEW g, NEW k, NEW A, NEW B, A \subseteq DOMAIN h,
         Exchanged(h, g, {}, B), Exchanged(g, k, A, {})
  PROVE  Exchanged(h, k, A, B) /\ Same(g, k, B)
BY DEF Exchanged, Same

\* Vector v with room for another frame.
Grown(h, v, r) ==
  /\ Exchanged(h, r.heap, CellsOwn(v.cells), CellsOwn(r.cells))
  /\ GoodCells(r.heap, r.cells) /\ v.v_size < Len(r.cells)
  /\ CellsShow(r.heap, r.cells, v.v_size, Values(h, v))

LEMMA FreeCellsExchanges ==
  ASSUME NEW h, DOMAIN h \subseteq Blocks, NEW v
  PROVE  Exchanged(h, FreeCells(h, v), CellsOwn(v.cells), {})
<1> DEFINE A == {v.cells[i].buffer : i \in DOMAIN v.cells}
<1>1. FreeCells(h, v) = Free(h, A) /\ CellsOwn(v.cells) = A \ {Null}
  BY DEF FreeCells, CellsOwn
<1> HIDE DEF A
<1> QED  BY <1>1, FreeExchanges

LEMMA GrowIs ==
  ASSUME NEW h, DOMAIN h \subseteq Blocks, NEW v, GoodVector(h, v), v.v_size < MaxFrames,
         NEW at \in New(h, Relocated(h, v))
  PROVE  Grown(h, v, Grow(h, v, at))
<1>1. v.v_size \in Nat /\ Len(v.cells) \in Nat /\ v.v_size <= Len(v.cells) /\ GoodCells(h, v.cells)
      /\ CellsOwn(v.cells) \subseteq DOMAIN h
  BY VectorIs, CellsAre DEF GoodVector
<1>2. CASE ~ Full(v)
  <2>1. Grow(h, v, at) = [heap |-> h, cells |-> v.cells]
    BY <1>2 DEF Grow
  <2>2. Exchanged(h, h, CellsOwn(v.cells), CellsOwn(v.cells))
    BY <1>1 DEF Exchanged
  <2>3. CellsShow(h, v.cells, v.v_size, Values(h, v))
    BY VectorIs DEF CellsShow
  <2>4. v.v_size < Len(v.cells)
    BY <1>1, <1>2 DEF Full
  <2> QED  BY <1>1, <2>1, <2>2, <2>3, <2>4 DEF Grown
<1>3. CASE Full(v)
  <2> DEFINE cap == Len(v.cells) + 1
             r == CopyCells(h, v, cap, at)
             k == FreeCells(r.heap, v)
  <2>1. at \in New(h, Filled(h, v)) /\ Grow(h, v, at) = [heap |-> k, cells |-> r.cells]
    BY <1>3 DEF Relocated, Grow
  <2>2. cap \in Nat /\ v.v_size < cap /\ v.v_size <= cap /\ cap <= MaxFrames
    BY <1>1, <1>3, Assumed DEF Full
  <2> HIDE DEF cap
  <2>3. Copied(h, v, cap, r)
    BY <2>1, <2>2, CopyCellsIs
  <2> HIDE DEF r
  <2>4. DOMAIN r.heap \subseteq Blocks
    BY <2>3 DEF Copied, Exchanged
  <2>5. Exchanged(r.heap, k, CellsOwn(v.cells), {})
    BY <2>4, FreeCellsExchanges
  <2> HIDE DEF k
  <2>6. Exchanged(h, k, CellsOwn(v.cells), CellsOwn(r.cells)) /\ Same(r.heap, k, CellsOwn(r.cells))
    BY <1>1, <2>3, <2>5, TakenThenFreed DEF Copied
  <2>7. DOMAIN k \subseteq Blocks /\ GoodCells(r.heap, r.cells) /\ Len(r.cells) = cap
    BY <2>3, <2>6 DEF Exchanged, Copied
  <2>8. GoodCells(k, r.cells) /\ \A i \in 1..cap : Words(k, r.cells[i]) = Words(r.heap, r.cells[i])
    BY <2>4, <2>6, <2>7, CellsKept
  <2>9. CellsShow(k, r.cells, v.v_size, Values(h, v))
    <3>1. \A i \in 1..v.v_size : i \in 1..cap
      BY <1>1, <2>2
    <3> QED  BY <2>3, <2>8, <3>1 DEF Copied, CellsShow
  <2> QED  BY <2>1, <2>2, <2>6, <2>7, <2>8, <2>9 DEF Grown
<1> QED  BY <1>2, <1>3

\* The heap and the cells after frame o has taken the place of the one in cell n.
Placed(h, c, n, o, g, d) ==
  /\ Exchanged(h, g, CellsOwn(c) \union TextOwn(o), CellsOwn(d))
  /\ GoodCells(g, d) /\ Len(d) = Len(c)
  /\ \A i \in 1..Len(c) : Words(g, d[i]) = Words(h, IF i = n THEN o ELSE c[i])

LEMMA PlacedIs ==
  ASSUME NEW h, DOMAIN h \subseteq Blocks, NEW c, GoodCells(h, c), NEW n \in 1..Len(c),
         NEW o, Good(h, o, 3), TextOwn(o) \intersect CellsOwn(c) = {}
  PROVE  Placed(h, c, n, o, Clear(h, c[n]), [c EXCEPT ![n] = o])
<1> DEFINE g == Clear(h, c[n])
           d == [c EXCEPT ![n] = o]
<1>1. Exchanged(h, g, {c[n].buffer} \ {Null}, {})
  BY FreeExchanges DEF Clear
<1>2. c \in Seq(Texts(3)) /\ Len(c) \in Nat /\ DOMAIN c = 1..Len(c) /\ Len(c) <= MaxFrames
      /\ CellsOwn(c) \subseteq DOMAIN h
  BY CellsAre DEF GoodCells
<1>3. o \in Texts(3) /\ TextOwn(o) \subseteq DOMAIN h
  BY GoodIs
<1>4. d \in Seq(Texts(3)) /\ Len(d) = Len(c) /\ DOMAIN d = 1..Len(c)
      /\ \A i \in 1..Len(c) : d[i] = IF i = n THEN o ELSE c[i]
  BY <1>2, <1>3
<1> HIDE DEF d, g
<1>5. \A i, j \in 1..Len(c) : c[i].buffer = c[j].buffer /\ c[i].buffer # Null => i = j
  BY DEF GoodCells
<1>6. \A i \in 1..Len(c) : c[i].buffer # Null => c[i].buffer # o.buffer
  BY <1>2 DEF CellsOwn, TextOwn
<1>7. CellsOwn(d) = (CellsOwn(c) \ ({c[n].buffer} \ {Null})) \union TextOwn(o)
  <2>1. CellsOwn(d) \subseteq (CellsOwn(c) \ ({c[n].buffer} \ {Null})) \union TextOwn(o)
    BY <1>2, <1>4, <1>5 DEF CellsOwn, TextOwn
  <2>2. TextOwn(o) \subseteq CellsOwn(d)
    BY <1>4 DEF CellsOwn, TextOwn
  <2>3. CellsOwn(c) \ ({c[n].buffer} \ {Null}) \subseteq CellsOwn(d)
    BY <1>2, <1>4, <1>5 DEF CellsOwn
  <2> QED  BY <2>1, <2>2, <2>3
<1>8. Exchanged(h, g, CellsOwn(c) \union TextOwn(o), CellsOwn(d))
  <2>1. {c[n].buffer} \ {Null} \subseteq CellsOwn(c)
    BY <1>2 DEF CellsOwn
  <2> QED  BY <1>1, <1>2, <1>3, <1>7, <2>1 DEF Exchanged
<1>9. ASSUME NEW i \in 1..Len(c) PROVE Good(g, d[i], 3) /\ Words(g, d[i]) = Words(h, d[i])
  <2>1. Good(h, d[i], 3)
    BY <1>4 DEF GoodCells
  <2>2. TextOwn(d[i]) \intersect ({c[n].buffer} \ {Null}) = {}
    BY <1>4, <1>5, <1>6 DEF TextOwn
  <2>3. Same(h, g, TextOwn(d[i])) /\ DOMAIN g \subseteq Blocks
    BY <1>1, <2>2 DEF Exchanged, Same
  <2> QED  BY <2>1, <2>3, GoodKept
<1>10. ASSUME NEW i \in 1..Len(c), NEW j \in 1..Len(c), d[i].buffer = d[j].buffer, d[i].buffer # Null
       PROVE  i = j
  BY <1>4, <1>5, <1>6, <1>10
<1>11. GoodCells(g, d)
  BY <1>2, <1>4, <1>9, <1>10 DEF GoodCells
<1> QED  BY <1>4, <1>8, <1>9, <1>11 DEF Placed, g, d

\* The heap and the vector that EmplaceBack leaves, of frame o into the cells c,
\* which show the texts ws.
Emplaced(h, c, ws, o, g, u) ==
  /\ Exchanged(h, g, CellsOwn(c) \union TextOwn(o), CellsOwn(u.cells))
  /\ GoodVector(g, u)
  /\ Values(g, u) = Append(ws, Words(h, o))

LEMMA EmplaceIs ==
  ASSUME NEW h, DOMAIN h \subseteq Blocks, NEW c, GoodCells(h, c),
         NEW ws \in Seq(Wording(3)), Len(ws) < Len(c), CellsShow(h, c, Len(ws), ws),
         NEW n, n = Len(ws) + 1,
         NEW o, Good(h, o, 3), TextOwn(o) \intersect CellsOwn(c) = {}
  PROVE  Emplaced(h, c, ws, o, Clear(h, c[n]), [cells |-> [c EXCEPT ![n] = o], v_size |-> n])
<1> DEFINE g == Clear(h, c[n])
           d == [c EXCEPT ![n] = o]
           u == [cells |-> d, v_size |-> n]
<1>1. Len(c) \in Nat /\ Len(ws) \in Nat /\ n \in 1..Len(c) /\ n \in Nat
  BY CellsAre
<1>2. /\ Exchanged(h, g, CellsOwn(c) \union TextOwn(o), CellsOwn(d))
      /\ GoodCells(g, d) /\ Len(d) = Len(c)
      /\ \A i \in 1..Len(c) : Words(g, d[i]) = Words(h, IF i = n THEN o ELSE c[i])
  <2>1. Placed(h, c, n, o, Clear(h, c[n]), [c EXCEPT ![n] = o])
    BY <1>1, PlacedIs
  <2>2. Placed(h, c, n, o, g, d)
    BY <2>1
  <2> HIDE DEF g, d
  <2> QED  BY <2>2 DEF Placed
<1> HIDE DEF g, d
<1>3. GoodVector(g, u) /\ u.cells = d
  BY <1>1, <1>2 DEF GoodVector
<1> DEFINE x == Words(h, o)
           w == Append(ws, x)
<1>4. x \in Wording(3)
  BY GoodIs
<1> HIDE DEF x
<1>5. /\ w \in Seq(Wording(3)) /\ Len(w) = n
      /\ \A i \in 1..n : w[i] = IF i = n THEN x ELSE ws[i]
  BY <1>1, <1>4
<1>6. CellsShow(g, d, n, w)
  <2> SUFFICES ASSUME NEW i \in 1..n PROVE Words(g, d[i]) = w[i]
    BY DEF CellsShow
  <2>1. i \in 1..Len(c) /\ (i # n => i \in 1..Len(ws))
    BY <1>1
  <2> HIDE DEF w
  <2>2. CASE i = n
    BY <1>2, <1>5, <2>1, <2>2 DEF x
  <2>3. CASE i # n
    <3>1. Words(g, d[i]) = Words(h, c[i]) /\ w[i] = ws[i]
      BY <1>2, <1>5, <2>1, <2>3
    <3> QED  BY <2>1, <2>3, <3>1 DEF CellsShow
  <2> QED  BY <2>2, <2>3
<1> HIDE DEF w
<1>7. Values(g, u) = w
  BY <1>1, <1>5, <1>6, ValuesAre
<1> QED  BY <1>2, <1>3, <1>7 DEF Emplaced, g, d, w, x

\* The heap and the vector that push_back leaves, of a frame with the texts w.
\* The blocks A of that frame become the vector's.
Pushed(h, v, w, A, g, u) ==
  /\ Exchanged(h, g, CellsOwn(v.cells) \union A, CellsOwn(u.cells))
  /\ GoodVector(g, u)
  /\ Values(g, u) = Append(Values(h, v), w)

LEMMA PushCopyIs ==
  ASSUME NEW h, DOMAIN h \subseteq Blocks, NEW v, GoodVector(h, v),
         NEW w \in Wording(3), Seen(w) = w,
         NEW r, Grown(h, v, r), NEW b \in NewBlock(r.heap), NEW n, n = v.v_size + 1
  PROVE  Pushed(h, v, w, {}, Clear(Written(r.heap, w, b), r.cells[n]),
                [cells |-> [r.cells EXCEPT ![n] = Laid(w, b)], v_size |-> n])
<1> DEFINE k == Written(r.heap, w, b)
           o == Laid(w, b)
           g == Clear(k, r.cells[n])
           u == [cells |-> [r.cells EXCEPT ![n] = o], v_size |-> n]
           ws == Values(h, v)
<1>1. ws \in Seq(Wording(3)) /\ Len(ws) = v.v_size
  BY VectorIs
<1>2. /\ Exchanged(h, r.heap, CellsOwn(v.cells), CellsOwn(r.cells)) /\ DOMAIN r.heap \subseteq Blocks
      /\ GoodCells(r.heap, r.cells) /\ v.v_size < Len(r.cells) /\ CellsShow(r.heap, r.cells, v.v_size, ws)
  BY DEF Grown, Exchanged
<1>3. b \in Blocks \ DOMAIN r.heap
  BY NewBlockIs
<1>4. /\ Exchanged(r.heap, k, {}, TextOwn(o)) /\ Good(k, o, 3) /\ Words(k, o) = w
      /\ TextOwn(o) \subseteq {b}
  BY <1>2, <1>3, WrittenIs
<1> HIDE DEF k, o
<1>5. CellsOwn(r.cells) \subseteq DOMAIN r.heap
  BY <1>2, CellsAre
<1>6. TextOwn(o) \intersect CellsOwn(r.cells) = {} /\ DOMAIN k \subseteq Blocks
      /\ Same(r.heap, k, CellsOwn(r.cells))
  BY <1>3, <1>4, <1>5 DEF Exchanged, Same
<1>7. GoodCells(k, r.cells)
      /\ \A i \in 1..Len(r.cells) : Words(k, r.cells[i]) = Words(r.heap, r.cells[i])
  BY <1>2, <1>6, CellsKept
<1>8. CellsShow(k, r.cells, v.v_size, ws)
  <2>1. \A i \in 1..v.v_size : i \in 1..Len(r.cells)
    BY <1>2, VectorIs, CellsAre
  <2> QED  BY <1>2, <1>7, <2>1 DEF CellsShow
<1> HIDE DEF ws
<1>9. Emplaced(k, r.cells, ws, o, g, u)
  BY <1>1, <1>2, <1>4, <1>6, <1>7, <1>8, EmplaceIs
<1> HIDE DEF g, u
<1>10. Exchanged(h, g, CellsOwn(v.cells) \union {}, CellsOwn(u.cells))
  <2>1. Exchanged(h, k, CellsOwn(v.cells), CellsOwn(r.cells) \union TextOwn(o))
    BY <1>2, <1>4, <1>5 DEF Exchanged
  <2>2. Exchanged(h, g, CellsOwn(v.cells), CellsOwn(u.cells))
    BY <1>9, <2>1, ExchangedTwice DEF Emplaced
  <2> QED  BY <2>2
<1> QED  BY <1>4, <1>9, <1>10 DEF Pushed, Emplaced, g, u, ws, k, o

LEMMA PushMoveIs ==
  ASSUME NEW h, DOMAIN h \subseteq Blocks, NEW v, GoodVector(h, v),
         NEW o, Good(h, o, 3), TextOwn(o) \intersect CellsOwn(v.cells) = {},
         NEW r, Grown(h, v, r), NEW n, n = v.v_size + 1
  PROVE  Pushed(h, v, Words(h, o), TextOwn(o), Clear(r.heap, r.cells[n]),
                [cells |-> [r.cells EXCEPT ![n] = o], v_size |-> n])
<1> DEFINE k == r.heap
           g == Clear(k, r.cells[n])
           u == [cells |-> [r.cells EXCEPT ![n] = o], v_size |-> n]
           ws == Values(h, v)
<1>1. ws \in Seq(Wording(3)) /\ Len(ws) = v.v_size
  BY VectorIs
<1>2. /\ Exchanged(h, k, CellsOwn(v.cells), CellsOwn(r.cells)) /\ DOMAIN k \subseteq Blocks
      /\ GoodCells(k, r.cells) /\ v.v_size < Len(r.cells) /\ CellsShow(k, r.cells, v.v_size, ws)
  BY DEF Grown, Exchanged
<1> HIDE DEF k, ws
<1>3. TextOwn(o) \subseteq DOMAIN h /\ TextOwn(o) \intersect CellsOwn(v.cells) = {}
  BY GoodIs
<1>4. TextOwn(o) \intersect CellsOwn(r.cells) = {} /\ Same(h, k, TextOwn(o))
  BY <1>2, <1>3 DEF Exchanged, Same
<1>5. Good(k, o, 3) /\ Words(k, o) = Words(h, o)
  BY <1>2, <1>4, GoodKept
<1>6. Emplaced(k, r.cells, ws, o, g, u)
  BY <1>1, <1>2, <1>4, <1>5, EmplaceIs
<1> HIDE DEF g, u
<1>7. Exchanged(h, k, CellsOwn(v.cells) \union TextOwn(o), CellsOwn(r.cells) \union TextOwn(o))
  BY <1>2, <1>3, ExchangedMore
<1>8. Exchanged(h, g, CellsOwn(v.cells) \union TextOwn(o), CellsOwn(u.cells))
  BY <1>6, <1>7, ExchangedTwice DEF Emplaced
<1> QED  BY <1>5, <1>6, <1>8 DEF Pushed, Emplaced, g, u, ws, k

-----------------------------------------------------------------------------
(* Exceptions *)

CarriedBy(h, x) == IF x.call_stack = Null THEN NoStack ELSE h[x.call_stack]

\* The blocks of its call stack, and all of its blocks.
CarriedOwn(h, x) ==
  IF x.call_stack = Null THEN {} ELSE {x.call_stack} \union CellsOwn(h[x.call_stack].cells)
ExceptionOwn(h, x) == TextOwn(x.texts) \union CarriedOwn(h, x)

Word16 == 0..(2^16 - 1)

GoodException(h, x) ==
  /\ x = [texts |-> x.texts, signal |-> x.signal, call_stack |-> x.call_stack]
  /\ Good(h, x.texts, 5)
  /\ x.signal \in Word16
  /\ x.call_stack # Null => /\ x.call_stack \in DOMAIN h
                            /\ GoodVector(h, h[x.call_stack])
                            /\ TextOwn(x.texts) \intersect CellsOwn(h[x.call_stack].cells) = {}

\* What an exception shows.
Shown(h, x) == [texts |-> Words(h, x.texts), signal |-> x.signal,
                call_stack |-> Values(h, CarriedBy(h, x))]

LEMMA Uint16Type == 0 \in Word16 /\ \A n \in Int : Uint16(n) \in Word16
BY DEF Uint16, Word16

LEMMA ExceptionIs ==
  ASSUME NEW h, DOMAIN h \subseteq Blocks, NEW x, GoodException(h, x)
  PROVE  /\ x # Absent /\ x.texts \in Texts(5) /\ x.call_stack \in Blocks \union {Null}
         /\ ExceptionOwn(h, x) \subseteq DOMAIN h
         /\ TextOwn(x.texts) \intersect CarriedOwn(h, x) = {}
         /\ GoodVector(h, CarriedBy(h, x)) /\ CellsOwn(CarriedBy(h, x).cells) \subseteq CarriedOwn(h, x)
         /\ x.call_stack # Null =>
              /\ x.call_stack \in DOMAIN h /\ IsVector(h[x.call_stack])
              /\ x.call_stack \notin CellsOwn(h[x.call_stack].cells)
              /\ x.call_stack \notin TextOwn(x.texts)
<1>1. x # Absent
  <2>1. x = [texts |-> x.texts, signal |-> x.signal, call_stack |-> x.call_stack]
    BY DEF GoodException
  <2> QED  BY <2>1 DEF Absent
<1>2. Good(h, x.texts, 5)
  BY DEF GoodException
<1>3. /\ x.texts \in Texts(5) /\ TextOwn(x.texts) \subseteq DOMAIN h
      /\ \A b \in TextOwn(x.texts) : ~ IsVector(h[b])
  BY <1>2, GoodIs DEF TextOwn
<1>4. CASE x.call_stack = Null
  BY <1>1, <1>3, <1>4, NoStackIsGood DEF ExceptionOwn, CarriedOwn, CarriedBy
<1>5. CASE x.call_stack # Null
  <2>1. x.call_stack \in DOMAIN h /\ GoodVector(h, h[x.call_stack])
        /\ TextOwn(x.texts) \intersect CellsOwn(h[x.call_stack].cells) = {}
    BY <1>5 DEF GoodException
  <2>2. IsVector(h[x.call_stack]) /\ GoodCells(h, h[x.call_stack].cells)
    BY <2>1, VectorIs DEF GoodVector
  <2>3. CellsOwn(h[x.call_stack].cells) \subseteq DOMAIN h
        /\ \A b \in CellsOwn(h[x.call_stack].cells) : ~ IsVector(h[b])
    BY <2>2, CellsAre
  <2> QED  BY <1>1, <1>3, <1>5, <2>1, <2>2, <2>3 DEF ExceptionOwn, CarriedOwn, CarriedBy
<1> QED  BY <1>4, <1>5

LEMMA ExceptionKept ==
  ASSUME NEW h, NEW g, DOMAIN h \subseteq Blocks, DOMAIN g \subseteq Blocks,
         NEW x, GoodException(h, x), Same(h, g, ExceptionOwn(h, x))
  PROVE  /\ GoodException(g, x) /\ ExceptionOwn(g, x) = ExceptionOwn(h, x) /\ Shown(g, x) = Shown(h, x)
         /\ CarriedOwn(g, x) = CarriedOwn(h, x) /\ CarriedBy(g, x) = CarriedBy(h, x)
<1>1. Good(h, x.texts, 5) /\ Same(h, g, TextOwn(x.texts))
  BY DEF GoodException, ExceptionOwn, Same
<1>2. Good(g, x.texts, 5) /\ Words(g, x.texts) = Words(h, x.texts)
  BY <1>1, GoodKept
<1>3. CASE x.call_stack = Null
  <2>1. CarriedBy(g, x) = NoStack /\ CarriedBy(h, x) = NoStack
        /\ CarriedOwn(g, x) = {} /\ CarriedOwn(h, x) = {}
    BY <1>3 DEF CarriedBy, CarriedOwn
  <2>2. Values(g, NoStack) = <<>> /\ Values(h, NoStack) = <<>>
    BY NoStackIsGood
  <2> QED  BY <1>2, <1>3, <2>1, <2>2 DEF GoodException, ExceptionOwn, Shown
<1>4. CASE x.call_stack # Null
  <2> DEFINE v == h[x.call_stack]
  <2>1. x.call_stack \in DOMAIN h /\ GoodVector(h, v)
        /\ TextOwn(x.texts) \intersect CellsOwn(v.cells) = {}
    BY <1>4 DEF GoodException
  <2>2. x.call_stack \in ExceptionOwn(h, x) /\ CellsOwn(v.cells) \subseteq ExceptionOwn(h, x)
    BY <1>4 DEF ExceptionOwn, CarriedOwn
  <2>3. x.call_stack \in DOMAIN g /\ g[x.call_stack] = v /\ Same(h, g, CellsOwn(v.cells))
    BY <2>1, <2>2 DEF Same
  <2>4. CarriedBy(g, x) = v /\ CarriedBy(h, x) = v /\ CarriedOwn(g, x) = CarriedOwn(h, x)
    BY <1>4, <2>3 DEF CarriedBy, CarriedOwn
  <2> HIDE DEF v
  <2>5. GoodVector(g, v) /\ Values(g, v) = Values(h, v)
    BY <2>1, <2>3, VectorKept
  <2> QED  BY <1>2, <2>1, <2>3, <2>4, <2>5 DEF GoodException, ExceptionOwn, Shown
<1> QED  BY <1>3, <1>4

LEMMA NoExceptionIsGood ==
  ASSUME NEW h, DOMAIN h \subseteq Blocks
  PROVE  /\ GoodException(h, NoException) /\ ExceptionOwn(h, NoException) = {}
         /\ Shown(h, NoException) = [texts |-> [i \in 1..5 |-> None], signal |-> 0, call_stack |-> <<>>]
         /\ NoException.texts = NoTexts(5) /\ NoException.call_stack = Null
<1>1. NoException.texts = NoTexts(5) /\ NoException.signal = 0 /\ NoException.call_stack = Null
      /\ NoException = [texts |-> NoException.texts, signal |-> NoException.signal,
                        call_stack |-> NoException.call_stack]
  BY DEF NoException
<1>2. Good(h, NoTexts(5), 5) /\ TextOwn(NoTexts(5)) = {}
      /\ Words(h, NoTexts(5)) = [i \in 1..5 |-> None]
  BY EmptyIsGood
<1>3. 0 \in Word16
  BY Uint16Type
<1>4. GoodException(h, NoException)
  BY <1>1, <1>2, <1>3 DEF GoodException
<1>5. Values(h, NoStack) = <<>>
  BY NoStackIsGood
<1> QED  BY <1>1, <1>2, <1>4, <1>5 DEF ExceptionOwn, CarriedOwn, Shown, CarriedBy

LEMMA ClearExceptionIs ==
  ASSUME NEW h, DOMAIN h \subseteq Blocks, NEW x, GoodException(h, x)
  PROVE  Exchanged(h, ClearException(h, x), ExceptionOwn(h, x), {})
<1> DEFINE k == Clear(h, x.texts)
<1>1. Exchanged(h, k, TextOwn(x.texts), {})
  BY FreeExchanges DEF Clear, TextOwn
<1> HIDE DEF k
<1>2. CASE x.call_stack = Null
  <2>1. ClearException(h, x) = k /\ ExceptionOwn(h, x) = TextOwn(x.texts)
    BY <1>2 DEF ClearException, k, ExceptionOwn, CarriedOwn
  <2> QED  BY <1>1, <2>1
<1>3. CASE x.call_stack # Null
  <2> DEFINE v == h[x.call_stack]
             g == FreeCells(k, v)
  <2>1. x.call_stack \in DOMAIN h /\ x.call_stack \notin TextOwn(x.texts)
    BY <1>3, ExceptionIs
  <2>2. k[x.call_stack] = v /\ DOMAIN k \subseteq Blocks
    BY <1>1, <2>1 DEF Exchanged
  <2>3. ClearException(h, x) = Free(g, {x.call_stack})
    BY <1>3, <2>2 DEF ClearException, k
  <2> HIDE DEF v
  <2>4. Exchanged(k, g, CellsOwn(v.cells), {})
    BY <2>2, FreeCellsExchanges
  <2> HIDE DEF g
  <2>5. Exchanged(g, Free(g, {x.call_stack}), {x.call_stack}, {})
    <3>1. DOMAIN g \subseteq Blocks
      BY <2>4 DEF Exchanged
    <3> QED  BY <3>1, FreeExchanges
  <2>6. ExceptionOwn(h, x) = TextOwn(x.texts) \union {x.call_stack} \union CellsOwn(v.cells)
    BY <1>3 DEF ExceptionOwn, CarriedOwn, v
  <2> QED  BY <1>1, <2>3, <2>4, <2>5, <2>6 DEF Exchanged
<1> QED  BY <1>2, <1>3

\* The heap g with the vector u, in the block d, of copies of the frames of v.
Carries(k, v, d, u, g) ==
  /\ Exchanged(k, g, {}, {d} \union CellsOwn(u.cells))
  /\ d \in DOMAIN g /\ g[d] = u /\ d # Null
  /\ GoodVector(g, u) /\ Values(g, u) = Values(k, v)

LEMMA CarriesIs ==
  ASSUME NEW k, DOMAIN k \subseteq Blocks, NEW v, GoodVector(k, v),
         NEW r, Copied(k, v, Len(v.cells), r), NEW d \in NewBlock(r.heap)
  PROVE  Carries(k, v, d, [cells |-> r.cells, v_size |-> v.v_size],
                 With(r.heap, d, [cells |-> r.cells, v_size |-> v.v_size]))
<1> DEFINE u == [cells |-> r.cells, v_size |-> v.v_size]
           m == r.heap
           g == With(m, d, u)
           c == r.cells
<1>1. Len(v.cells) \in Nat /\ v.v_size \in 0..Len(v.cells)
  BY VectorIs
<1>2. /\ Exchanged(k, m, {}, CellsOwn(c)) /\ DOMAIN m \subseteq Blocks
      /\ GoodCells(m, c) /\ Len(c) = Len(v.cells)
      /\ CellsShow(m, c, v.v_size, Values(k, v))
  BY DEF Copied, Exchanged
<1>3. d \in Blocks \ DOMAIN m /\ d # Null
  BY NewBlockIs, Assumed
<1> HIDE DEF m, u
<1>4. Exchanged(m, g, {}, {d}) /\ g[d] = u
  BY <1>2, <1>3, WithExchanges
<1> HIDE DEF g
<1>5. d \in DOMAIN g /\ DOMAIN g \subseteq Blocks
  BY <1>4 DEF Exchanged
<1>6. CellsOwn(c) \subseteq DOMAIN m
  BY <1>2, CellsAre
<1>7. Same(m, g, CellsOwn(c))
  BY <1>4, <1>6 DEF Exchanged, Same
<1>8. GoodCells(g, c) /\ \A i \in 1..Len(c) : Words(g, c[i]) = Words(m, c[i])
  BY <1>2, <1>5, <1>7, CellsKept
<1>9. CellsShow(g, c, v.v_size, Values(k, v))
  <2>1. \A i \in 1..v.v_size : i \in 1..Len(c)
    BY <1>1, <1>2
  <2> QED  BY <1>2, <1>8, <2>1 DEF CellsShow
<1>10. GoodVector(g, u) /\ u.cells = c
  BY <1>1, <1>2, <1>8 DEF GoodVector, u
<1>11. Values(g, u) = Values(k, v)
  BY <1>1, <1>9, VectorIs, ValuesAre DEF u
<1>12. Exchanged(k, g, {}, {d} \union CellsOwn(c))
  BY <1>2, <1>4, <1>6 DEF Exchanged
<1> QED  BY <1>3, <1>4, <1>5, <1>10, <1>11, <1>12 DEF Carries, g, m, u

\* The heap g and an exception y with the texts o, a signal and frames that show ws.
Assembled(k, o, sig, ws, g, y) ==
  /\ Exchanged(k, g, TextOwn(o), ExceptionOwn(g, y))
  /\ GoodException(g, y)
  /\ Shown(g, y) = [texts |-> Words(k, o), signal |-> sig, call_stack |-> ws]

LEMMA AssembledIs ==
  ASSUME NEW k, DOMAIN k \subseteq Blocks, NEW o, Good(k, o, 5), NEW sig \in Word16,
         NEW v, NEW d, NEW u, NEW g, Carries(k, v, d, u, g)
  PROVE  Assembled(k, o, sig, Values(k, v), g, [texts |-> o, signal |-> sig, call_stack |-> d])
<1> DEFINE y == [texts |-> o, signal |-> sig, call_stack |-> d]
<1>1. /\ Exchanged(k, g, {}, {d} \union CellsOwn(u.cells)) /\ DOMAIN g \subseteq Blocks
      /\ d \in DOMAIN g /\ g[d] = u /\ d # Null
      /\ GoodVector(g, u) /\ Values(g, u) = Values(k, v)
  BY DEF Carries, Exchanged
<1>2. TextOwn(o) \subseteq DOMAIN k
  BY GoodIs
<1>3. Same(k, g, TextOwn(o)) /\ TextOwn(o) \intersect CellsOwn(u.cells) = {}
  BY <1>1, <1>2 DEF Exchanged, Same
<1>4. Good(g, o, 5) /\ Words(g, o) = Words(k, o)
  BY <1>1, <1>3, GoodKept
<1>5. y.texts = o /\ y.signal = sig /\ y.call_stack = d
      /\ y = [texts |-> y.texts, signal |-> y.signal, call_stack |-> y.call_stack]
  OBVIOUS
<1> HIDE DEF y
<1>6. GoodException(g, y)
  BY <1>1, <1>3, <1>4, <1>5 DEF GoodException
<1>7. ExceptionOwn(g, y) = TextOwn(o) \union ({d} \union CellsOwn(u.cells))
  BY <1>1, <1>5 DEF ExceptionOwn, CarriedOwn
<1>8. Exchanged(k, g, TextOwn(o), ExceptionOwn(g, y))
  BY <1>1, <1>2, <1>7 DEF Exchanged
<1>9. Shown(g, y) = [texts |-> Words(k, o), signal |-> sig, call_stack |-> Values(k, v)]
  BY <1>1, <1>4, <1>5 DEF Shown, CarriedBy
<1> QED  BY <1>6, <1>8, <1>9 DEF Assembled, y

LEMMA BareExceptionIs ==
  ASSUME NEW k, DOMAIN k \subseteq Blocks, NEW o, Good(k, o, 5), NEW sig \in Word16
  PROVE  Assembled(k, o, sig, <<>>, k, [texts |-> o, signal |-> sig, call_stack |-> Null])
<1> DEFINE y == [texts |-> o, signal |-> sig, call_stack |-> Null]
<1>1. y.texts = o /\ y.signal = sig /\ y.call_stack = Null
      /\ y = [texts |-> y.texts, signal |-> y.signal, call_stack |-> y.call_stack]
  OBVIOUS
<1> HIDE DEF y
<1>2. GoodException(k, y)
  BY <1>1 DEF GoodException
<1>3. ExceptionOwn(k, y) = TextOwn(o)
  BY <1>1 DEF ExceptionOwn, CarriedOwn
<1>4. Values(k, NoStack) = <<>>
  BY NoStackIsGood
<1>5. Shown(k, y) = [texts |-> Words(k, o), signal |-> sig, call_stack |-> <<>>]
  BY <1>1, <1>4 DEF Shown, CarriedBy
<1>6. Exchanged(k, k, TextOwn(o), ExceptionOwn(k, y))
  <2>1. TextOwn(o) \subseteq DOMAIN k
    BY GoodIs
  <2> QED  BY <1>3, <2>1 DEF Exchanged
<1> QED  BY <1>2, <1>5, <1>6 DEF Assembled, y

\* _copy_values() of an exception that was x: the texts w, a signal and the vector v,
\* into the new blocks b, at and d.  The heap, and the exception.
Target(j, w, b, v, at, d) ==
  LET k == Written(j, w, b)
      r == CopyCells(k, v, Len(v.cells), at)
  IN  IF v.v_size = 0 THEN k ELSE With(r.heap, d, [cells |-> r.cells, v_size |-> v.v_size])
Made(w, sig, b, v, d) == [texts |-> Laid(w, b), signal |-> Uint16(sig),
                          call_stack |-> IF v.v_size = 0 THEN Null ELSE d]

LEMMA MadeIs ==
  ASSUME NEW k, DOMAIN k \subseteq Blocks, NEW w, NEW b, Good(k, Laid(w, b), 5), NEW sig \in Int,
         NEW v, GoodVector(k, v), NEW at \in New(k, Filled(k, v)),
         NEW r, Copied(k, v, Len(v.cells), r), NEW d \in NewBlock(r.heap)
  PROVE  Assembled(k, Laid(w, b), Uint16(sig), Values(k, v),
                   IF v.v_size = 0 THEN k
                   ELSE With(r.heap, d, [cells |-> r.cells, v_size |-> v.v_size]),
                   Made(w, sig, b, v, d))
<1> DEFINE o == Laid(w, b)
           n == Uint16(sig)
           u == [cells |-> r.cells, v_size |-> v.v_size]
           g == With(r.heap, d, u)
<1>1. Uint16(sig) \in Word16
  BY Uint16Type
<1>2. Good(k, o, 5)
  OBVIOUS
<1>3. Made(w, sig, b, v, d) = [texts |-> o, signal |-> n, call_stack |-> IF v.v_size = 0 THEN Null ELSE d]
  BY DEF Made
<1>4. Carries(k, v, d, u, g)
  BY CarriesIs
<1> HIDE DEF o, n, u, g
<1>5. CASE v.v_size = 0
  <2>1. Values(k, v) = <<>>
    BY <1>5, VectorIs
  <2>2. Assembled(k, o, n, <<>>, k, [texts |-> o, signal |-> n, call_stack |-> Null])
    BY <1>1, <1>2, BareExceptionIs DEF n
  <2> QED  BY <1>3, <1>5, <2>1, <2>2 DEF o, n
<1>6. CASE v.v_size # 0
  <2>1. Assembled(k, o, n, Values(k, v), g, [texts |-> o, signal |-> n, call_stack |-> d])
    BY <1>1, <1>2, <1>4, AssembledIs DEF n
  <2> QED  BY <1>3, <1>6, <2>1 DEF o, n, g, u
<1> QED  BY <1>5, <1>6

\* The heap g and the exception y after _copy_values() of an exception that was x,
\* from the texts w, a signal and frames that show ws.
Replaced(h, x, w, sig, ws, g, y) ==
  /\ Exchanged(h, g, ExceptionOwn(h, x), ExceptionOwn(g, y))
  /\ GoodException(g, y)
  /\ Shown(g, y) = [texts |-> Seen(w), signal |-> Uint16(sig), call_stack |-> ws]

LEMMA ReplaceIs ==
  ASSUME NEW h, DOMAIN h \subseteq Blocks, NEW x, GoodException(h, x),
         NEW w \in Wording(5), NEW sig \in Int,
         NEW v, GoodVector(h, v), CellsOwn(v.cells) \intersect ExceptionOwn(h, x) = {},
         NEW b \in NewBlock(ClearException(h, x)),
         NEW at \in New(Written(ClearException(h, x), w, b), Filled(Written(ClearException(h, x), w, b), v)),
         NEW d \in NewBlock(CopyCells(Written(ClearException(h, x), w, b), v, Len(v.cells), at).heap)
  PROVE  Replaced(h, x, w, sig, Values(h, v), Target(ClearException(h, x), w, b, v, at, d),
                  Made(w, sig, b, v, d))
<1> DEFINE o == Laid(w, b)
           j == ClearException(h, x)
           k == Written(j, w, b)
           cap == Len(v.cells)
           r == CopyCells(k, v, cap, at)
           g == Target(j, w, b, v, at, d)
           y == Made(w, sig, b, v, d)
<1>0. b \in NewBlock(j) /\ at \in New(k, Filled(k, v)) /\ d \in NewBlock(r.heap)
  OBVIOUS
<1>1. Exchanged(h, j, ExceptionOwn(h, x), {})
  BY ClearExceptionIs
<1>2. DOMAIN j \subseteq Blocks
  BY <1>1 DEF Exchanged
<1>3. b \in Blocks \ DOMAIN j
  BY NewBlockIs
<1> HIDE DEF j
<1>4. /\ Exchanged(j, k, {}, TextOwn(o)) /\ Good(k, o, 5) /\ Words(k, o) = Seen(w)
  BY <1>2, <1>3, WrittenIs
<1>5. g = IF v.v_size = 0 THEN k ELSE With(r.heap, d, [cells |-> r.cells, v_size |-> v.v_size])
  BY DEF Target
<1> HIDE DEF k, y, g, o
<1>6. Exchanged(h, k, ExceptionOwn(h, x), TextOwn(o)) /\ DOMAIN k \subseteq Blocks
  <2>1. Exchanged(h, k, ExceptionOwn(h, x), TextOwn(o))
    BY <1>1, <1>4, ExchangedTwice
  <2> QED  BY <2>1 DEF Exchanged
<1>7. GoodVector(k, v) /\ Values(k, v) = Values(h, v)
  <2>1. CellsOwn(v.cells) \subseteq DOMAIN h
    BY CellsAre DEF GoodVector
  <2>2. Same(h, k, CellsOwn(v.cells))
    BY <1>6, <2>1 DEF Exchanged, Same
  <2> QED  BY <1>6, <2>2, VectorKept
<1>8. cap \in Nat /\ v.v_size <= cap /\ cap <= MaxFrames
  BY VectorIs, CellsAre DEF GoodVector
<1> HIDE DEF cap
<1>9. Copied(k, v, cap, r)
  BY <1>0, <1>6, <1>7, <1>8, CopyCellsIs
<1> HIDE DEF r
<1>10. Assembled(k, o, Uint16(sig), Values(k, v), g, y)
  BY <1>0, <1>4, <1>5, <1>6, <1>7, <1>9, MadeIs DEF y, o, cap
<1>11. Exchanged(h, g, ExceptionOwn(h, x), ExceptionOwn(g, y))
  BY <1>6, <1>10, ExchangedTwice DEF Assembled
<1>12. Replaced(h, x, w, sig, Values(h, v), g, y)
  BY <1>4, <1>7, <1>10, <1>11 DEF Replaced, Assembled
<1> QED  BY <1>12 DEF g, y, j

-----------------------------------------------------------------------------
(* All objects of the program together *)

Things == {<<"frame", f>> : f \in Frames} \union {<<"stack", s>> : s \in Stacks}
          \union {<<"exception", e>> : e \in Exceptions}

\* What each of them is.
Is(fr, st, ex) ==
  [t \in Things |-> IF t[1] = "frame" THEN fr[t[2]] ELSE IF t[1] = "stack" THEN st[t[2]] ELSE ex[t[2]]]

\* An object x of the kind k: that it is good, the blocks it owns, what it shows.
GoodAs(k, h, x) == Live(x) => IF k = "frame" THEN Good(h, x, 3)
                              ELSE IF k = "stack" THEN GoodVector(h, x) ELSE GoodException(h, x)
OwnAs(k, h, x)  == IF ~ Live(x) THEN {}
                   ELSE IF k = "frame" THEN TextOwn(x)
                   ELSE IF k = "stack" THEN CellsOwn(x.cells) ELSE ExceptionOwn(h, x)
ViewAs(k, h, x) == IF k = "frame" THEN Words(h, x)
                   ELSE IF k = "stack" THEN Values(h, x) ELSE Shown(h, x)

Own(h, is, t) == OwnAs(t[1], h, is[t])

\* Every object is good, and every block has exactly one owner.
Sound(h, is) ==
  /\ DOMAIN h \subseteq Blocks
  /\ \A t \in Things : GoodAs(t[1], h, is[t])
  /\ \A t, u \in Things : t # u => Own(h, is, t) \intersect Own(h, is, u) = {}
  /\ \A b \in DOMAIN h : \E t \in Things : b \in Own(h, is, t)

LEMMA IsOf ==
  ASSUME NEW fr, NEW st, NEW ex
  PROVE  /\ \A f \in Frames : <<"frame", f>> \in Things /\ Is(fr, st, ex)[<<"frame", f>>] = fr[f]
         /\ \A s \in Stacks : <<"stack", s>> \in Things /\ Is(fr, st, ex)[<<"stack", s>>] = st[s]
         /\ \A e \in Exceptions : /\ <<"exception", e>> \in Things
                                  /\ Is(fr, st, ex)[<<"exception", e>>] = ex[e]
BY DEF Is, Things

LEMMA OwnIs ==
  ASSUME NEW h, DOMAIN h \subseteq Blocks, NEW k, NEW x, GoodAs(k, h, x)
  PROVE  OwnAs(k, h, x) \subseteq DOMAIN h
<1>1. CASE ~ Live(x)
  BY <1>1 DEF OwnAs
<1>2. CASE Live(x) /\ k = "frame"
  BY <1>2, GoodIs DEF OwnAs, GoodAs
<1>3. CASE Live(x) /\ k = "stack"
  BY <1>3, CellsAre DEF OwnAs, GoodAs, GoodVector
<1>4. CASE Live(x) /\ k # "frame" /\ k # "stack"
  BY <1>4, ExceptionIs DEF OwnAs, GoodAs
<1> QED  BY <1>1, <1>2, <1>3, <1>4

LEMMA ThingKept ==
  ASSUME NEW h, NEW g, DOMAIN h \subseteq Blocks, DOMAIN g \subseteq Blocks, NEW k, NEW x,
         GoodAs(k, h, x), Same(h, g, OwnAs(k, h, x))
  PROVE  /\ GoodAs(k, g, x) /\ OwnAs(k, g, x) = OwnAs(k, h, x)
         /\ Live(x) => ViewAs(k, g, x) = ViewAs(k, h, x)
<1>1. CASE ~ Live(x)
  BY <1>1 DEF OwnAs, GoodAs
<1>2. CASE Live(x) /\ k = "frame"
  <2>1. Good(h, x, 3) /\ Same(h, g, TextOwn(x))
    BY <1>2 DEF OwnAs, GoodAs
  <2>2. Good(g, x, 3) /\ Words(g, x) = Words(h, x)
    BY <2>1, GoodKept
  <2> QED  BY <1>2, <2>2 DEF OwnAs, GoodAs, ViewAs
<1>3. CASE Live(x) /\ k = "stack"
  <2>1. GoodVector(h, x) /\ Same(h, g, CellsOwn(x.cells))
    BY <1>3 DEF OwnAs, GoodAs
  <2>2. GoodVector(g, x) /\ Values(g, x) = Values(h, x)
    BY <2>1, VectorKept
  <2> QED  BY <1>3, <2>2 DEF OwnAs, GoodAs, ViewAs
<1>4. CASE Live(x) /\ k # "frame" /\ k # "stack"
  <2>1. GoodException(h, x) /\ Same(h, g, ExceptionOwn(h, x))
    BY <1>4 DEF OwnAs, GoodAs
  <2>2. GoodException(g, x) /\ ExceptionOwn(g, x) = ExceptionOwn(h, x) /\ Shown(g, x) = Shown(h, x)
    BY <2>1, ExceptionKept
  <2> QED  BY <1>4, <2>2 DEF OwnAs, GoodAs, ViewAs
<1> QED  BY <1>1, <1>2, <1>3, <1>4

\* Only the things t and u change, and only the blocks that are theirs.
Change(h, is, g, now, t, u) ==
  /\ \A r \in Things : r # t /\ r # u => now[r] = is[r]
  /\ Exchanged(h, g, Own(h, is, t) \union Own(h, is, u), Own(g, now, t) \union Own(g, now, u))
  /\ t # u => Own(g, now, t) \intersect Own(g, now, u) = {}
  /\ GoodAs(t[1], g, now[t]) /\ GoodAs(u[1], g, now[u])

\* The others show what they showed.
Untouched(h, is, g, now, t, u) ==
  \A r \in Things : r # t /\ r # u => /\ now[r] = is[r]
                                      /\ Live(is[r]) => ViewAs(r[1], g, is[r]) = ViewAs(r[1], h, is[r])

LEMMA ChangeIsSound ==
  ASSUME NEW h, NEW is, Sound(h, is), NEW g, NEW now, NEW t \in Things, NEW u \in Things,
         Change(h, is, g, now, t, u)
  PROVE  Sound(g, now) /\ Untouched(h, is, g, now, t, u)
<1> DEFINE A == Own(h, is, t) \union Own(h, is, u)
           B == Own(g, now, t) \union Own(g, now, u)
<1>1. /\ DOMAIN h \subseteq Blocks
      /\ \A r \in Things : GoodAs(r[1], h, is[r])
      /\ \A r, q \in Things : r # q => Own(h, is, r) \intersect Own(h, is, q) = {}
      /\ \A b \in DOMAIN h : \E r \in Things : b \in Own(h, is, r)
  BY DEF Sound
<1>2. /\ \A r \in Things : r # t /\ r # u => now[r] = is[r]
      /\ Exchanged(h, g, A, B) /\ DOMAIN g \subseteq Blocks
      /\ t # u => Own(g, now, t) \intersect Own(g, now, u) = {}
      /\ GoodAs(t[1], g, now[t]) /\ GoodAs(u[1], g, now[u])
  BY DEF Change, Exchanged
<1>3. /\ Own(h, is, t) \subseteq A /\ Own(h, is, u) \subseteq A
      /\ Own(g, now, t) \subseteq B /\ Own(g, now, u) \subseteq B
      /\ \A b \in A : b \in Own(h, is, t) \/ b \in Own(h, is, u)
      /\ \A b \in B : b \in Own(g, now, t) \/ b \in Own(g, now, u)
  OBVIOUS
<1> HIDE DEF A, B
<1>4. ASSUME NEW r \in Things, r # t, r # u
      PROVE  /\ GoodAs(r[1], g, now[r]) /\ Own(g, now, r) = Own(h, is, r) /\ now[r] = is[r]
             /\ Own(h, is, r) \subseteq DOMAIN h \ A
             /\ Live(is[r]) => ViewAs(r[1], g, is[r]) = ViewAs(r[1], h, is[r])
  <2>1. GoodAs(r[1], h, is[r]) /\ now[r] = is[r]
    BY <1>1, <1>2, <1>4
  <2>2. Own(h, is, r) = OwnAs(r[1], h, is[r]) /\ Own(g, now, r) = OwnAs(r[1], g, is[r])
    BY <2>1 DEF Own
  <2>3. Own(h, is, r) \subseteq DOMAIN h \ A
    <3>1. Own(h, is, r) \subseteq DOMAIN h
      BY <1>1, <2>1, <2>2, OwnIs
    <3>2. Own(h, is, r) \intersect Own(h, is, t) = {} /\ Own(h, is, r) \intersect Own(h, is, u) = {}
      BY <1>1, <1>4
    <3> QED  BY <1>3, <3>1, <3>2
  <2>4. Same(h, g, OwnAs(r[1], h, is[r]))
    BY <1>2, <2>2, <2>3 DEF Same, Exchanged
  <2>5. /\ GoodAs(r[1], g, is[r]) /\ OwnAs(r[1], g, is[r]) = OwnAs(r[1], h, is[r])
        /\ Live(is[r]) => ViewAs(r[1], g, is[r]) = ViewAs(r[1], h, is[r])
    BY <1>1, <1>2, <2>1, <2>4, ThingKept
  <2> QED  BY <2>1, <2>2, <2>3, <2>5
<1>5. \A r \in Things : GoodAs(r[1], g, now[r])
  BY <1>2, <1>4
<1>6. ASSUME NEW r \in Things, NEW q \in Things, r # q
      PROVE  Own(g, now, r) \intersect Own(g, now, q) = {}
  <2>1. CASE r # t /\ r # u /\ q # t /\ q # u
    BY <1>1, <1>4, <1>6, <2>1
  <2>2. ASSUME NEW p \in Things, p # t, p # u PROVE Own(g, now, p) \intersect B = {}
    BY <1>2, <1>4, <2>2 DEF Exchanged
  <2>3. CASE r # t /\ r # u /\ (q = t \/ q = u)
    BY <1>3, <2>2, <2>3
  <2>4. CASE q # t /\ q # u /\ (r = t \/ r = u)
    BY <1>3, <2>2, <2>4
  <2>5. CASE (r = t /\ q = u) \/ (r = u /\ q = t)
    BY <1>2, <1>6, <2>5
  <2> QED  BY <1>6, <2>1, <2>3, <2>4, <2>5
<1>7. ASSUME NEW b \in DOMAIN g PROVE \E r \in Things : b \in Own(g, now, r)
  <2>1. CASE b \in B
    BY <1>3, <2>1
  <2>2. CASE b \notin B
    <3>1. b \in DOMAIN h /\ b \notin A
      BY <1>2, <2>2 DEF Exchanged
    <3>2. PICK r \in Things : b \in Own(h, is, r)
      BY <1>1, <3>1
    <3>3. r # t /\ r # u
      BY <1>3, <3>1, <3>2
    <3> QED  BY <1>4, <3>2, <3>3
  <2> QED  BY <2>1, <2>2
<1> QED  BY <1>2, <1>4, <1>5, <1>6, <1>7 DEF Sound, Untouched

-----------------------------------------------------------------------------
(* The values that the objects of one kind show *)

ViewsOf(k, h, fun) == [x \in Alive(fun) |-> ViewAs(k, h, fun[x])]

\* All but those of S show in the heap g what they showed in h.
KeptAs(k, h, fun, g, now, S) ==
  /\ DOMAIN now = DOMAIN fun
  /\ \A x \in DOMAIN fun \ S : /\ now[x] = fun[x]
                               /\ Live(fun[x]) => ViewAs(k, g, fun[x]) = ViewAs(k, h, fun[x])

LEMMA ViewsSame ==
  ASSUME NEW k, NEW h, NEW fun, NEW g, NEW now, KeptAs(k, h, fun, g, now, {})
  PROVE  ViewsOf(k, g, now) = ViewsOf(k, h, fun)
<1>1. Alive(now) = Alive(fun) /\ \A x \in Alive(fun) : ViewAs(k, g, now[x]) = ViewAs(k, h, fun[x])
  BY DEF KeptAs, Alive
<1> QED  BY <1>1 DEF ViewsOf

LEMMA ViewsSet ==
  ASSUME NEW k, NEW h, NEW fun, NEW g, NEW now, NEW x \in DOMAIN fun,
         KeptAs(k, h, fun, g, now, {x}), Live(now[x])
  PROVE  ViewsOf(k, g, now) = Abstract!Set(ViewsOf(k, h, fun), x, ViewAs(k, g, now[x]))
<1>1. /\ Alive(now) = Alive(fun) \union {x}
      /\ \A y \in Alive(now) : ViewAs(k, g, now[y]) = IF y = x THEN ViewAs(k, g, now[x])
                                                      ELSE ViewsOf(k, h, fun)[y]
  BY DEF KeptAs, Alive, ViewsOf
<1>2. DOMAIN ViewsOf(k, h, fun) = Alive(fun)
  BY DEF ViewsOf
<1> QED  BY <1>1, <1>2 DEF ViewsOf, Abstract!Set

LEMMA ViewsDrop ==
  ASSUME NEW k, NEW h, NEW fun, NEW g, NEW now, NEW x \in DOMAIN fun,
         KeptAs(k, h, fun, g, now, {x}), ~ Live(now[x])
  PROVE  ViewsOf(k, g, now) = Abstract!Without(ViewsOf(k, h, fun), x)
<1>1. /\ Alive(now) = Alive(fun) \ {x}
      /\ \A y \in Alive(now) : ViewAs(k, g, now[y]) = ViewsOf(k, h, fun)[y]
  BY DEF KeptAs, Alive, ViewsOf
<1>2. DOMAIN ViewsOf(k, h, fun) = Alive(fun)
  BY DEF ViewsOf
<1> QED  BY <1>1, <1>2 DEF ViewsOf, Abstract!Without

LEMMA ViewsTwo ==
  ASSUME NEW k, NEW h, NEW fun, NEW g, NEW now, NEW x \in DOMAIN fun, NEW y \in DOMAIN fun,
         KeptAs(k, h, fun, g, now, {x, y}), Live(now[x]), Live(now[y])
  PROVE  ViewsOf(k, g, now) = Abstract!Set(Abstract!Set(ViewsOf(k, h, fun), y, ViewAs(k, g, now[y])),
                                           x, ViewAs(k, g, now[x]))
<1> DEFINE v == ViewsOf(k, h, fun)
           a == Abstract!Set(v, y, ViewAs(k, g, now[y]))
           b == Abstract!Set(a, x, ViewAs(k, g, now[x]))
<1>1. /\ Alive(now) = Alive(fun) \union {x, y} /\ DOMAIN v = Alive(fun)
      /\ \A z \in Alive(now) : z # x /\ z # y => ViewAs(k, g, now[z]) = v[z]
  BY DEF KeptAs, Alive, ViewsOf
<1> HIDE DEF v
<1>2. DOMAIN a = Alive(fun) \union {y} /\ \A z \in DOMAIN a : a[z] = IF z = y THEN ViewAs(k, g, now[y]) ELSE v[z]
  BY <1>1 DEF Abstract!Set
<1>3. b = [z \in DOMAIN a \union {x} |-> IF z = x THEN ViewAs(k, g, now[x]) ELSE a[z]]
  BY DEF Abstract!Set
<1> HIDE DEF a, b
<1>4. b = [z \in Alive(now) |-> ViewAs(k, g, now[z])]
  <2>1. DOMAIN a \union {x} = Alive(now)
    BY <1>1, <1>2
  <2>2. \A z \in Alive(now) : (IF z = x THEN ViewAs(k, g, now[x]) ELSE a[z]) = ViewAs(k, g, now[z])
    BY <1>1, <1>2
  <2> QED  BY <1>3, <2>1, <2>2
<1> QED  BY <1>4 DEF a, b, v, ViewsOf

IsFun(fun) == fun = [x \in DOMAIN fun |-> fun[x]]

\* What Set does to a function is EXCEPT, twice in any order for two arguments.
LEMMA SetIsExcept ==
  ASSUME NEW fun, IsFun(fun), NEW x \in DOMAIN fun, NEW v
  PROVE  Abstract!Set(fun, x, v) = [fun EXCEPT ![x] = v]
BY DEF Abstract!Set, IsFun

LEMMA SwapIs ==
  ASSUME NEW fun, IsFun(fun), NEW x \in DOMAIN fun, NEW y \in DOMAIN fun
  PROVE  Abstract!Set(Abstract!Set(fun, y, fun[x]), x, fun[y]) = [fun EXCEPT ![x] = fun[y], ![y] = fun[x]]
<1> DEFINE g == [fun EXCEPT ![y] = fun[x]]
<1>1. Abstract!Set(fun, y, fun[x]) = g
  BY SetIsExcept
<1>2. IsFun(g) /\ x \in DOMAIN g
  BY DEF IsFun
<1>3. [g EXCEPT ![x] = fun[y]] = [fun EXCEPT ![x] = fun[y], ![y] = fun[x]]
  OBVIOUS
<1> HIDE DEF g
<1>4. Abstract!Set(g, x, fun[y]) = [g EXCEPT ![x] = fun[y]]
  BY <1>2, SetIsExcept
<1> QED  BY <1>1, <1>3, <1>4

LEMMA KeptOf ==
  ASSUME NEW h, NEW g, NEW fr, NEW st, NEW ex, NEW fr2, NEW st2, NEW ex2, NEW t, NEW u,
         DOMAIN fr = Frames, DOMAIN st = Stacks, DOMAIN ex = Exceptions,
         DOMAIN fr2 = Frames, DOMAIN st2 = Stacks, DOMAIN ex2 = Exceptions,
         Untouched(h, Is(fr, st, ex), g, Is(fr2, st2, ex2), t, u), NEW F, NEW S, NEW E,
         \A f \in Frames \ F : <<"frame", f>> # t /\ <<"frame", f>> # u,
         \A s \in Stacks \ S : <<"stack", s>> # t /\ <<"stack", s>> # u,
         \A e \in Exceptions \ E : <<"exception", e>> # t /\ <<"exception", e>> # u
  PROVE  /\ KeptAs("frame", h, fr, g, fr2, F)
         /\ KeptAs("stack", h, st, g, st2, S)
         /\ KeptAs("exception", h, ex, g, ex2, E)
<1>1. ASSUME NEW f \in Frames \ F
      PROVE  fr2[f] = fr[f] /\ (Live(fr[f]) => ViewAs("frame", g, fr[f]) = ViewAs("frame", h, fr[f]))
  <2> DEFINE r == <<"frame", f>>
  <2>1. r \in Things /\ r # t /\ r # u /\ r[1] = "frame"
    BY IsOf
  <2>2. Is(fr, st, ex)[r] = fr[f] /\ Is(fr2, st2, ex2)[r] = fr2[f]
    BY IsOf
  <2> HIDE DEF r
  <2> QED  BY <2>1, <2>2 DEF Untouched
<1>2. ASSUME NEW s \in Stacks \ S
      PROVE  st2[s] = st[s] /\ (Live(st[s]) => ViewAs("stack", g, st[s]) = ViewAs("stack", h, st[s]))
  <2> DEFINE r == <<"stack", s>>
  <2>1. r \in Things /\ r # t /\ r # u /\ r[1] = "stack"
    BY IsOf
  <2>2. Is(fr, st, ex)[r] = st[s] /\ Is(fr2, st2, ex2)[r] = st2[s]
    BY IsOf
  <2> HIDE DEF r
  <2> QED  BY <2>1, <2>2 DEF Untouched
<1>3. ASSUME NEW e \in Exceptions \ E
      PROVE  ex2[e] = ex[e]
             /\ (Live(ex[e]) => ViewAs("exception", g, ex[e]) = ViewAs("exception", h, ex[e]))
  <2> DEFINE r == <<"exception", e>>
  <2>1. r \in Things /\ r # t /\ r # u /\ r[1] = "exception"
    BY IsOf
  <2>2. Is(fr, st, ex)[r] = ex[e] /\ Is(fr2, st2, ex2)[r] = ex2[e]
    BY IsOf
  <2> HIDE DEF r
  <2> QED  BY <2>1, <2>2 DEF Untouched
<1> QED  BY <1>1, <1>2, <1>3 DEF KeptAs

-----------------------------------------------------------------------------
(* Steps *)

Domains == DOMAIN frame = Frames /\ DOMAIN stack = Stacks /\ DOMAIN exception = Exceptions

IInv == /\ Domains
        /\ Sound(heap, Is(frame, stack, exception))
        /\ OnlySelfDangles

LEMMA ViewsAre ==
  /\ FrameViews = ViewsOf("frame", heap, frame)
  /\ StackViews = ViewsOf("stack", heap, stack)
  /\ ExceptionViews = ViewsOf("exception", heap, exception)
BY DEF FrameViews, StackViews, ExceptionViews, ViewsOf, ViewAs, Shown, Carried, CarriedBy

LEMMA ViewsAreNext ==
  /\ FrameViews' = ViewsOf("frame", heap', frame')
  /\ StackViews' = ViewsOf("stack", heap', stack')
  /\ ExceptionViews' = ViewsOf("exception", heap', exception')
BY DEF FrameViews, StackViews, ExceptionViews, ViewsOf, ViewAs, Shown, Carried, CarriedBy, Alive

LEMMA IInvIs ==
  ASSUME IInv
  PROVE  /\ DOMAIN heap \subseteq Blocks
         /\ \A f \in Frames : Live(frame[f]) => Good(heap, frame[f], 3)
         /\ \A s \in Stacks : Live(stack[s]) => GoodVector(heap, stack[s])
         /\ \A e \in Exceptions : Live(exception[e]) => GoodException(heap, exception[e])
<1>1. Sound(heap, Is(frame, stack, exception))
  BY DEF IInv
<1> DEFINE is == Is(frame, stack, exception)
<1>2. DOMAIN heap \subseteq Blocks /\ \A t \in Things : GoodAs(t[1], heap, is[t])
  BY <1>1 DEF Sound
<1>3. ASSUME NEW f \in Frames, Live(frame[f]) PROVE Good(heap, frame[f], 3)
  <2> DEFINE t == <<"frame", f>>
  <2>1. t \in Things /\ is[t] = frame[f] /\ t[1] = "frame"
    BY IsOf
  <2> HIDE DEF t, is
  <2>2. GoodAs("frame", heap, frame[f])
    BY <1>2, <2>1
  <2> QED  BY <1>3, <2>2 DEF GoodAs
<1>4. ASSUME NEW s \in Stacks, Live(stack[s]) PROVE GoodVector(heap, stack[s])
  <2> DEFINE t == <<"stack", s>>
  <2>1. t \in Things /\ is[t] = stack[s] /\ t[1] = "stack"
    BY IsOf
  <2> HIDE DEF t, is
  <2>2. GoodAs("stack", heap, stack[s])
    BY <1>2, <2>1
  <2> QED  BY <1>4, <2>2 DEF GoodAs
<1>5. ASSUME NEW e \in Exceptions, Live(exception[e]) PROVE GoodException(heap, exception[e])
  <2> DEFINE t == <<"exception", e>>
  <2>1. t \in Things /\ is[t] = exception[e] /\ t[1] = "exception"
    BY IsOf
  <2> HIDE DEF t, is
  <2>2. GoodAs("exception", heap, exception[e])
    BY <1>2, <2>1
  <2> QED  BY <1>5, <2>2 DEF GoodAs
<1> QED  BY <1>2, <1>3, <1>4, <1>5

\* Two things own nothing in common.
LEMMA IInvApart ==
  ASSUME IInv, NEW t \in Things, NEW u \in Things, t # u
  PROVE  OwnAs(t[1], heap, Is(frame, stack, exception)[t])
           \intersect OwnAs(u[1], heap, Is(frame, stack, exception)[u]) = {}
BY DEF IInv, Sound, Own

\* Only fun[x] changes, to y.
Puts(fun, now, x, y) ==
  DOMAIN now = DOMAIN fun /\ now[x] = y /\ \A z \in DOMAIN fun : z # x => now[z] = fun[z]

\* All objects are good again, and all but those of F, S and E show what they did.
Moved(h, fr, st, ex, g, fr2, st2, ex2, F, S, E) ==
  /\ Sound(g, Is(fr2, st2, ex2))
  /\ KeptAs("frame", h, fr, g, fr2, F)
  /\ KeptAs("stack", h, st, g, st2, S)
  /\ KeptAs("exception", h, ex, g, ex2, E)

Indexed(fr, st, ex) == DOMAIN fr = Frames /\ DOMAIN st = Stacks /\ DOMAIN ex = Exceptions

\* The things of F, S and E are t and u, if any.
Names(F, S, E, t, u) ==
  /\ \A f \in Frames \ F : <<"frame", f>> # t /\ <<"frame", f>> # u
  /\ \A s \in Stacks \ S : <<"stack", s>> # t /\ <<"stack", s>> # u
  /\ \A e \in Exceptions \ E : <<"exception", e>> # t /\ <<"exception", e>> # u
Others(F, S, E, t, u) ==
  /\ \A f \in F : <<"frame", f>> = t \/ <<"frame", f>> = u
  /\ \A s \in S : <<"stack", s>> = t \/ <<"stack", s>> = u
  /\ \A e \in E : <<"exception", e>> = t \/ <<"exception", e>> = u

LEMMA MovedIs ==
  ASSUME NEW h, NEW fr, NEW st, NEW ex, NEW g, NEW fr2, NEW st2, NEW ex2,
         Indexed(fr, st, ex), Indexed(fr2, st2, ex2), Sound(h, Is(fr, st, ex)),
         NEW F, NEW S, NEW E, NEW t \in Things, NEW u \in Things,
         Names(F, S, E, t, u), Others(F, S, E, t, u),
         \A f \in Frames \ F : fr2[f] = fr[f], \A s \in Stacks \ S : st2[s] = st[s],
         \A e \in Exceptions \ E : ex2[e] = ex[e],
         Exchanged(h, g, OwnAs(t[1], h, Is(fr, st, ex)[t]) \union OwnAs(u[1], h, Is(fr, st, ex)[u]),
                   OwnAs(t[1], g, Is(fr2, st2, ex2)[t]) \union OwnAs(u[1], g, Is(fr2, st2, ex2)[u])),
         t # u => OwnAs(t[1], g, Is(fr2, st2, ex2)[t]) \intersect OwnAs(u[1], g, Is(fr2, st2, ex2)[u]) = {},
         GoodAs(t[1], g, Is(fr2, st2, ex2)[t]), GoodAs(u[1], g, Is(fr2, st2, ex2)[u])
  PROVE  Moved(h, fr, st, ex, g, fr2, st2, ex2, F, S, E)
<1> DEFINE is == Is(fr, st, ex)
           now == Is(fr2, st2, ex2)
<1>1. ASSUME NEW r \in Things, r # t, r # u PROVE now[r] = is[r]
  <2>1. ASSUME NEW f \in Frames, r = <<"frame", f>> PROVE now[r] = is[r]
    <3>1. f \in Frames \ F
      BY <1>1, <2>1 DEF Others
    <3>2. is[<<"frame", f>>] = fr[f] /\ now[<<"frame", f>>] = fr2[f]
      BY IsOf
    <3> QED  BY <2>1, <3>1, <3>2
  <2>2. ASSUME NEW s \in Stacks, r = <<"stack", s>> PROVE now[r] = is[r]
    <3>1. s \in Stacks \ S
      BY <1>1, <2>2 DEF Others
    <3>2. is[<<"stack", s>>] = st[s] /\ now[<<"stack", s>>] = st2[s]
      BY IsOf
    <3> QED  BY <2>2, <3>1, <3>2
  <2>3. ASSUME NEW e \in Exceptions, r = <<"exception", e>> PROVE now[r] = is[r]
    <3>1. e \in Exceptions \ E
      BY <1>1, <2>3 DEF Others
    <3>2. is[<<"exception", e>>] = ex[e] /\ now[<<"exception", e>>] = ex2[e]
      BY IsOf
    <3> QED  BY <2>3, <3>1, <3>2
  <2> HIDE DEF is, now
  <2> QED  BY <2>1, <2>2, <2>3 DEF Things
<1>2. Change(h, is, g, now, t, u)
  <2>1. /\ Own(h, is, t) = OwnAs(t[1], h, is[t]) /\ Own(h, is, u) = OwnAs(u[1], h, is[u])
        /\ Own(g, now, t) = OwnAs(t[1], g, now[t]) /\ Own(g, now, u) = OwnAs(u[1], g, now[u])
    BY DEF Own
  <2> HIDE DEF is, now
  <2> QED  BY <1>1, <2>1 DEF Change, is, now
<1> HIDE DEF is, now
<1>3. Sound(g, now) /\ Untouched(h, is, g, now, t, u)
  BY <1>2, ChangeIsSound DEF is
<1>4. /\ KeptAs("frame", h, fr, g, fr2, F)
      /\ KeptAs("stack", h, st, g, st2, S)
      /\ KeptAs("exception", h, ex, g, ex2, E)
  <2>1. Untouched(h, Is(fr, st, ex), g, Is(fr2, st2, ex2), t, u)
    BY <1>3 DEF is, now
  <2> QED  BY <2>1, KeptOf DEF Indexed, Names
<1> QED  BY <1>3, <1>4 DEF Moved, now

LEMMA FrameMoved ==
  ASSUME NEW h, NEW fr, NEW st, NEW ex, NEW g, NEW fr2, NEW f \in Frames, NEW x,
         Indexed(fr, st, ex), Sound(h, Is(fr, st, ex)), Puts(fr, fr2, f, x),
         GoodAs("frame", g, x),
         Exchanged(h, g, OwnAs("frame", h, fr[f]), OwnAs("frame", g, x))
  PROVE  Moved(h, fr, st, ex, g, fr2, st, ex, {f}, {}, {})
<1> DEFINE t == <<"frame", f>>
<1>1. /\ t \in Things /\ t[1] = "frame" /\ Names({f}, {}, {}, t, t) /\ Others({f}, {}, {}, t, t)
      /\ Is(fr, st, ex)[t] = fr[f] /\ Is(fr2, st, ex)[t] = x /\ Indexed(fr2, st, ex)
      /\ \A q \in Frames \ {f} : fr2[q] = fr[q]
  BY IsOf DEF Names, Others, Puts, Indexed
<1> HIDE DEF t
<1>2. /\ OwnAs("frame", h, fr[f]) = OwnAs(t[1], h, Is(fr, st, ex)[t]) \union OwnAs(t[1], h, Is(fr, st, ex)[t])
      /\ OwnAs("frame", g, x) = OwnAs(t[1], g, Is(fr2, st, ex)[t]) \union OwnAs(t[1], g, Is(fr2, st, ex)[t])
  BY <1>1
<1> QED  BY <1>1, <1>2, MovedIs

LEMMA StackMoved ==
  ASSUME NEW h, NEW fr, NEW st, NEW ex, NEW g, NEW st2, NEW s \in Stacks, NEW x,
         Indexed(fr, st, ex), Sound(h, Is(fr, st, ex)), Puts(st, st2, s, x),
         GoodAs("stack", g, x),
         Exchanged(h, g, OwnAs("stack", h, st[s]), OwnAs("stack", g, x))
  PROVE  Moved(h, fr, st, ex, g, fr, st2, ex, {}, {s}, {})
<1> DEFINE t == <<"stack", s>>
<1>1. /\ t \in Things /\ t[1] = "stack" /\ Names({}, {s}, {}, t, t) /\ Others({}, {s}, {}, t, t)
      /\ Is(fr, st, ex)[t] = st[s] /\ Is(fr, st2, ex)[t] = x /\ Indexed(fr, st2, ex)
      /\ \A q \in Stacks \ {s} : st2[q] = st[q]
  BY IsOf DEF Names, Others, Puts, Indexed
<1> HIDE DEF t
<1>2. /\ OwnAs("stack", h, st[s]) = OwnAs(t[1], h, Is(fr, st, ex)[t]) \union OwnAs(t[1], h, Is(fr, st, ex)[t])
      /\ OwnAs("stack", g, x) = OwnAs(t[1], g, Is(fr, st2, ex)[t]) \union OwnAs(t[1], g, Is(fr, st2, ex)[t])
  BY <1>1
<1> QED  BY <1>1, <1>2, MovedIs

LEMMA ExceptionMoved ==
  ASSUME NEW h, NEW fr, NEW st, NEW ex, NEW g, NEW ex2, NEW e \in Exceptions, NEW x,
         Indexed(fr, st, ex), Sound(h, Is(fr, st, ex)), Puts(ex, ex2, e, x),
         GoodAs("exception", g, x),
         Exchanged(h, g, OwnAs("exception", h, ex[e]), OwnAs("exception", g, x))
  PROVE  Moved(h, fr, st, ex, g, fr, st, ex2, {}, {}, {e})
<1> DEFINE t == <<"exception", e>>
<1>1. /\ t \in Things /\ t[1] = "exception" /\ Names({}, {}, {e}, t, t) /\ Others({}, {}, {e}, t, t)
      /\ Is(fr, st, ex)[t] = ex[e] /\ Is(fr, st, ex2)[t] = x /\ Indexed(fr, st, ex2)
      /\ \A q \in Exceptions \ {e} : ex2[q] = ex[q]
  BY IsOf DEF Names, Others, Puts, Indexed
<1> HIDE DEF t
<1>2. /\ OwnAs("exception", h, ex[e]) = OwnAs(t[1], h, Is(fr, st, ex)[t]) \union OwnAs(t[1], h, Is(fr, st, ex)[t])
      /\ OwnAs("exception", g, x) = OwnAs(t[1], g, Is(fr, st, ex2)[t]) \union OwnAs(t[1], g, Is(fr, st, ex2)[t])
  BY <1>1
<1> QED  BY <1>1, <1>2, MovedIs

\* fun[x] becomes v, and fun[y] w.
PutsTwo(fun, now, x, v, y, w) ==
  /\ DOMAIN now = DOMAIN fun /\ now[x] = v /\ now[y] = w
  /\ \A z \in DOMAIN fun : z # x /\ z # y => now[z] = fun[z]

\* Two objects of one kind hand blocks over.
HandOver(k, h, fun, x, v, y, w) ==
  /\ OwnAs(k, h, v) \union OwnAs(k, h, w) = OwnAs(k, h, fun[x]) \union OwnAs(k, h, fun[y])
  /\ x # y => OwnAs(k, h, v) \intersect OwnAs(k, h, w) = {}
  /\ GoodAs(k, h, v) /\ GoodAs(k, h, w)

LEMMA FramesMoved ==
  ASSUME NEW h, NEW fr, NEW st, NEW ex, NEW fr2, NEW f \in Frames, NEW x, NEW q \in Frames, NEW y,
         Indexed(fr, st, ex), Sound(h, Is(fr, st, ex)), PutsTwo(fr, fr2, f, x, q, y),
         HandOver("frame", h, fr, f, x, q, y)
  PROVE  Moved(h, fr, st, ex, h, fr2, st, ex, {f, q}, {}, {})
<1> DEFINE t == <<"frame", f>>
           u == <<"frame", q>>
<1>1. /\ t \in Things /\ t[1] = "frame" /\ u \in Things /\ u[1] = "frame" /\ (t # u => f # q)
      /\ Names({f, q}, {}, {}, t, u) /\ Others({f, q}, {}, {}, t, u)
      /\ Indexed(fr2, st, ex) /\ \A z \in Frames \ {f, q} : fr2[z] = fr[z]
  BY IsOf DEF Names, Others, PutsTwo, Indexed
<1>2. /\ Is(fr, st, ex)[t] = fr[f] /\ Is(fr2, st, ex)[t] = x
      /\ Is(fr, st, ex)[u] = fr[q] /\ Is(fr2, st, ex)[u] = y
  BY IsOf DEF PutsTwo
<1> HIDE DEF t, u
<1>3. OwnAs("frame", h, fr[f]) \subseteq DOMAIN h /\ OwnAs("frame", h, fr[q]) \subseteq DOMAIN h
      /\ DOMAIN h \subseteq Blocks
  <2>1. GoodAs(t[1], h, Is(fr, st, ex)[t]) /\ GoodAs(u[1], h, Is(fr, st, ex)[u]) /\ DOMAIN h \subseteq Blocks
    BY <1>1 DEF Sound
  <2> QED  BY <1>1, <1>2, <2>1, OwnIs
<1>4. Exchanged(h, h, OwnAs("frame", h, fr[f]) \union OwnAs("frame", h, fr[q]),
                OwnAs("frame", h, x) \union OwnAs("frame", h, y))
  BY <1>3 DEF Exchanged, HandOver
<1>5. /\ Exchanged(h, h, OwnAs(t[1], h, Is(fr, st, ex)[t]) \union OwnAs(u[1], h, Is(fr, st, ex)[u]),
                   OwnAs(t[1], h, Is(fr2, st, ex)[t]) \union OwnAs(u[1], h, Is(fr2, st, ex)[u]))
      /\ t # u => OwnAs(t[1], h, Is(fr2, st, ex)[t]) \intersect OwnAs(u[1], h, Is(fr2, st, ex)[u]) = {}
      /\ GoodAs(t[1], h, Is(fr2, st, ex)[t]) /\ GoodAs(u[1], h, Is(fr2, st, ex)[u])
  BY <1>1, <1>2, <1>4 DEF HandOver
<1> QED  BY <1>1, <1>5, MovedIs

LEMMA ExceptionsMoved ==
  ASSUME NEW h, NEW fr, NEW st, NEW ex, NEW ex2, NEW e \in Exceptions, NEW x, NEW q \in Exceptions, NEW y,
         Indexed(fr, st, ex), Sound(h, Is(fr, st, ex)), PutsTwo(ex, ex2, e, x, q, y),
         HandOver("exception", h, ex, e, x, q, y)
  PROVE  Moved(h, fr, st, ex, h, fr, st, ex2, {}, {}, {e, q})
<1> DEFINE t == <<"exception", e>>
           u == <<"exception", q>>
<1>1. /\ t \in Things /\ t[1] = "exception" /\ u \in Things /\ u[1] = "exception" /\ (t # u => e # q)
      /\ Names({}, {}, {e, q}, t, u) /\ Others({}, {}, {e, q}, t, u)
      /\ Indexed(fr, st, ex2) /\ \A z \in Exceptions \ {e, q} : ex2[z] = ex[z]
  BY IsOf DEF Names, Others, PutsTwo, Indexed
<1>2. /\ Is(fr, st, ex)[t] = ex[e] /\ Is(fr, st, ex2)[t] = x
      /\ Is(fr, st, ex)[u] = ex[q] /\ Is(fr, st, ex2)[u] = y
  BY IsOf DEF PutsTwo
<1> HIDE DEF t, u
<1>3. OwnAs("exception", h, ex[e]) \subseteq DOMAIN h /\ OwnAs("exception", h, ex[q]) \subseteq DOMAIN h
      /\ DOMAIN h \subseteq Blocks
  <2>1. GoodAs(t[1], h, Is(fr, st, ex)[t]) /\ GoodAs(u[1], h, Is(fr, st, ex)[u]) /\ DOMAIN h \subseteq Blocks
    BY <1>1 DEF Sound
  <2> QED  BY <1>1, <1>2, <2>1, OwnIs
<1>4. Exchanged(h, h, OwnAs("exception", h, ex[e]) \union OwnAs("exception", h, ex[q]),
                OwnAs("exception", h, x) \union OwnAs("exception", h, y))
  BY <1>3 DEF Exchanged, HandOver
<1>5. /\ Exchanged(h, h, OwnAs(t[1], h, Is(fr, st, ex)[t]) \union OwnAs(u[1], h, Is(fr, st, ex)[u]),
                   OwnAs(t[1], h, Is(fr, st, ex2)[t]) \union OwnAs(u[1], h, Is(fr, st, ex2)[u]))
      /\ t # u => OwnAs(t[1], h, Is(fr, st, ex2)[t]) \intersect OwnAs(u[1], h, Is(fr, st, ex2)[u]) = {}
      /\ GoodAs(t[1], h, Is(fr, st, ex2)[t]) /\ GoodAs(u[1], h, Is(fr, st, ex2)[u])
  BY <1>1, <1>2, <1>4 DEF HandOver
<1> QED  BY <1>1, <1>5, MovedIs

\* A frame hands its block over to a vector, which exchanges its own.
LEMMA FrameAndStackMoved ==
  ASSUME NEW h, NEW fr, NEW st, NEW ex, NEW g, NEW fr2, NEW st2,
         NEW f \in Frames, NEW x, NEW s \in Stacks, NEW v,
         Indexed(fr, st, ex), Sound(h, Is(fr, st, ex)), Puts(fr, fr2, f, x), Puts(st, st2, s, v),
         GoodAs("frame", g, x), GoodAs("stack", g, v), OwnAs("frame", g, x) = {},
         Exchanged(h, g, OwnAs("frame", h, fr[f]) \union OwnAs("stack", h, st[s]), OwnAs("stack", g, v))
  PROVE  Moved(h, fr, st, ex, g, fr2, st2, ex, {f}, {s}, {})
<1> DEFINE t == <<"frame", f>>
           u == <<"stack", s>>
<1>1. /\ t \in Things /\ t[1] = "frame" /\ u \in Things /\ u[1] = "stack"
      /\ Names({f}, {s}, {}, t, u) /\ Others({f}, {s}, {}, t, u)
      /\ Indexed(fr2, st2, ex)
      /\ \A z \in Frames \ {f} : fr2[z] = fr[z]
      /\ \A z \in Stacks \ {s} : st2[z] = st[z]
  BY IsOf DEF Names, Others, Puts, Indexed
<1>2. /\ Is(fr, st, ex)[t] = fr[f] /\ Is(fr2, st2, ex)[t] = x
      /\ Is(fr, st, ex)[u] = st[s] /\ Is(fr2, st2, ex)[u] = v
  BY IsOf DEF Puts
<1> HIDE DEF t, u
<1>3. /\ Exchanged(h, g, OwnAs(t[1], h, Is(fr, st, ex)[t]) \union OwnAs(u[1], h, Is(fr, st, ex)[u]),
                   OwnAs(t[1], g, Is(fr2, st2, ex)[t]) \union OwnAs(u[1], g, Is(fr2, st2, ex)[u]))
      /\ t # u => OwnAs(t[1], g, Is(fr2, st2, ex)[t]) \intersect OwnAs(u[1], g, Is(fr2, st2, ex)[u]) = {}
      /\ GoodAs(t[1], g, Is(fr2, st2, ex)[t]) /\ GoodAs(u[1], g, Is(fr2, st2, ex)[u])
  BY <1>1, <1>2
<1> QED  BY <1>1, <1>3, MovedIs

\* The same for a step of the program.
Moves(F, S, E) == Moved(heap, frame, stack, exception, heap', frame', stack', exception', F, S, E)

LEMMA MovesKeep ==
  ASSUME IInv, NEW F, NEW S, NEW E, Moves(F, S, E), UNCHANGED dangling
  PROVE  IInv'
<1>1. /\ Sound(heap', Is(frame', stack', exception'))
      /\ DOMAIN frame' = DOMAIN frame /\ DOMAIN stack' = DOMAIN stack
      /\ DOMAIN exception' = DOMAIN exception
  BY DEF Moves, Moved, KeptAs
<1>2. Is(frame, stack, exception)' = Is(frame', stack', exception')
  BY DEF Is, Things
<1>3. Sound(heap, Is(frame, stack, exception))'
  BY <1>1, <1>2 DEF Sound, Own, OwnAs, GoodAs, Things
<1>4. Domains' /\ OnlySelfDangles'
  BY <1>1 DEF IInv, Domains, OnlySelfDangles
<1> QED  BY <1>3, <1>4 DEF IInv

\* What is seen of it.
FramesKept     == FrameViews' = FrameViews
StacksKept     == StackViews' = StackViews
ExceptionsKept == ExceptionViews' = ExceptionViews

LEMMA MovesShow ==
  ASSUME NEW F, NEW S, NEW E, Moves(F, S, E)
  PROVE  /\ F = {} => FramesKept
         /\ S = {} => StacksKept
         /\ E = {} => ExceptionsKept
<1>1. /\ KeptAs("frame", heap, frame, heap', frame', F)
      /\ KeptAs("stack", heap, stack, heap', stack', S)
      /\ KeptAs("exception", heap, exception, heap', exception', E)
  BY DEF Moves, Moved
<1>2. F = {} => ViewsOf("frame", heap', frame') = ViewsOf("frame", heap, frame)
  BY <1>1, ViewsSame
<1>3. S = {} => ViewsOf("stack", heap', stack') = ViewsOf("stack", heap, stack)
  BY <1>1, ViewsSame
<1>4. E = {} => ViewsOf("exception", heap', exception') = ViewsOf("exception", heap, exception)
  BY <1>1, ViewsSame
<1> QED  BY <1>2, <1>3, <1>4, ViewsAre, ViewsAreNext DEF FramesKept, StacksKept, ExceptionsKept

LEMMA FrameShows ==
  ASSUME IInv, NEW f \in Frames, NEW S, NEW E, Moves({f}, S, E)
  PROVE  /\ Live(frame'[f]) => FrameViews' = Abstract!Set(FrameViews, f, Words(heap', frame'[f]))
         /\ ~ Live(frame'[f]) => FrameViews' = Abstract!Without(FrameViews, f)
<1>1. KeptAs("frame", heap, frame, heap', frame', {f}) /\ f \in DOMAIN frame
  BY DEF Moves, Moved, IInv, Domains
<1>2. Live(frame'[f]) => ViewsOf("frame", heap', frame') =
                          Abstract!Set(ViewsOf("frame", heap, frame), f, ViewAs("frame", heap', frame'[f]))
  BY <1>1, ViewsSet
<1>3. ~ Live(frame'[f]) => ViewsOf("frame", heap', frame') = Abstract!Without(ViewsOf("frame", heap, frame), f)
  BY <1>1, ViewsDrop
<1> QED  BY <1>2, <1>3, ViewsAre, ViewsAreNext DEF ViewAs

LEMMA StackShows ==
  ASSUME IInv, NEW s \in Stacks, NEW F, NEW E, Moves(F, {s}, E)
  PROVE  /\ Live(stack'[s]) => StackViews' = Abstract!Set(StackViews, s, Values(heap', stack'[s]))
         /\ ~ Live(stack'[s]) => StackViews' = Abstract!Without(StackViews, s)
<1>1. KeptAs("stack", heap, stack, heap', stack', {s}) /\ s \in DOMAIN stack
  BY DEF Moves, Moved, IInv, Domains
<1>2. Live(stack'[s]) => ViewsOf("stack", heap', stack') =
                          Abstract!Set(ViewsOf("stack", heap, stack), s, ViewAs("stack", heap', stack'[s]))
  BY <1>1, ViewsSet
<1>3. ~ Live(stack'[s]) => ViewsOf("stack", heap', stack') = Abstract!Without(ViewsOf("stack", heap, stack), s)
  BY <1>1, ViewsDrop
<1> QED  BY <1>2, <1>3, ViewsAre, ViewsAreNext DEF ViewAs

LEMMA ExceptionShows ==
  ASSUME IInv, NEW e \in Exceptions, NEW F, NEW S, Moves(F, S, {e})
  PROVE  /\ Live(exception'[e]) =>
              ExceptionViews' = Abstract!Set(ExceptionViews, e, Shown(heap', exception'[e]))
         /\ ~ Live(exception'[e]) => ExceptionViews' = Abstract!Without(ExceptionViews, e)
<1>1. KeptAs("exception", heap, exception, heap', exception', {e}) /\ e \in DOMAIN exception
  BY DEF Moves, Moved, IInv, Domains
<1>2. Live(exception'[e]) =>
        ViewsOf("exception", heap', exception') =
          Abstract!Set(ViewsOf("exception", heap, exception), e, ViewAs("exception", heap', exception'[e]))
  BY <1>1, ViewsSet
<1>3. ~ Live(exception'[e]) => ViewsOf("exception", heap', exception') =
                                Abstract!Without(ViewsOf("exception", heap, exception), e)
  BY <1>1, ViewsDrop
<1> QED  BY <1>2, <1>3, ViewsAre, ViewsAreNext DEF ViewAs

-----------------------------------------------------------------------------
(* Steps of the frames *)

\* What is to be shown of every step.
Agrees == IInv' /\ (Abstract!Next \/ UNCHANGED <<FrameViews, StackViews, ExceptionViews>>)

LEMMA DangleIs ==
  ASSUME IInv, NEW x, Dangle(x, x)
  PROVE  Agrees
<1>1. UNCHANGED <<heap, frame, stack, exception>> /\ dangling' = <<x, x>>
  BY DEF Dangle
<1>2. Is(frame, stack, exception)' = Is(frame, stack, exception)
  BY <1>1 DEF Is
<1>3. Sound(heap, Is(frame, stack, exception))' /\ Domains'
  BY <1>1, <1>2 DEF IInv, Domains, Sound, Own, OwnAs, GoodAs, Things
<1>4. OnlySelfDangles'
  BY <1>1 DEF OnlySelfDangles
<1>5. UNCHANGED <<FrameViews, StackViews, ExceptionViews>>
  BY <1>1, ViewsAre, ViewsAreNext
<1> QED  BY <1>3, <1>4, <1>5 DEF Agrees, IInv


\* Texts w take the place of those of o.
LEMMA ClearedAndWritten ==
  ASSUME NEW h, DOMAIN h \subseteq Blocks, NEW o, Good(h, o, 3), NEW w \in Wording(3),
         NEW b \in NewBlock(Clear(h, o)), NEW g, g = Written(Clear(h, o), w, b)
  PROVE  /\ Exchanged(h, g, TextOwn(o), TextOwn(Laid(w, b)))
         /\ Good(g, Laid(w, b), 3) /\ Words(g, Laid(w, b)) = Seen(w)
<1> DEFINE k == Clear(h, o)
           x == Laid(w, b)
<1>1. Exchanged(h, k, TextOwn(o), {}) /\ b \in Blocks \ DOMAIN k
  BY FreeExchanges, NewBlockIs DEF Clear, TextOwn
<1> HIDE DEF k, x
<1>2. DOMAIN k \subseteq Blocks
  BY <1>1 DEF Exchanged
<1>3. Exchanged(k, g, {}, TextOwn(x)) /\ Good(g, x, 3) /\ Words(g, x) = Seen(w)
  BY <1>1, <1>2, WrittenIs DEF k, x
<1>4. Exchanged(h, g, TextOwn(o), TextOwn(x))
  BY <1>1, <1>3, ExchangedTwice
<1> QED  BY <1>3, <1>4 DEF x

LEMMA SetFrameIs ==
  ASSUME IInv, NEW f \in Frames, NEW o, NEW w \in Wording(3), SetFrame(f, o, w),
         IF Live(frame[f]) THEN o = frame[f] ELSE o = NoFrame
  PROVE  /\ IInv' /\ StacksKept /\ ExceptionsKept
         /\ FrameViews' = Abstract!Set(FrameViews, f, Seen(w))
<1>1. PICK b \in NewBlock(Clear(heap, o)) :
        /\ heap' = Written(Clear(heap, o), w, b)
        /\ frame' = [frame EXCEPT ![f] = Laid(w, b)]
        /\ UNCHANGED <<stack, exception, dangling>>
  BY DEF SetFrame
<1>2. Good(heap, o, 3) /\ OwnAs("frame", heap, frame[f]) = TextOwn(o) /\ DOMAIN heap \subseteq Blocks
  <2>1. CASE Live(frame[f])
    BY <2>1, IInvIs DEF OwnAs
  <2>2. CASE ~ Live(frame[f])
    BY <2>2, IInvIs, EmptyIsGood DEF OwnAs, NoFrame
  <2> QED  BY <2>1, <2>2
<1>3. /\ Exchanged(heap, heap', TextOwn(o), TextOwn(Laid(w, b)))
      /\ Good(heap', Laid(w, b), 3) /\ Words(heap', Laid(w, b)) = Seen(w)
  BY <1>1, <1>2, ClearedAndWritten
<1>4. f \in DOMAIN frame /\ Indexed(frame, stack, exception) /\ Sound(heap, Is(frame, stack, exception))
  BY DEF IInv, Domains, Indexed
<1>5. Puts(frame, frame', f, Laid(w, b))
  BY <1>1, <1>4 DEF Puts
<1>6. UNCHANGED <<stack, exception, dangling>>
  BY <1>1
<1> DEFINE x == Laid(w, b)
<1>7. Live(x) /\ GoodAs("frame", heap', x) /\ OwnAs("frame", heap', x) = TextOwn(x)
  <2>1. Live(x)
    BY DEF Laid, Absent, Live
  <2> QED  BY <1>3, <2>1 DEF GoodAs, OwnAs
<1> HIDE DEF x
<1>8. Moves({f}, {}, {})
  <2>1. Moved(heap, frame, stack, exception, heap', frame', stack, exception, {f}, {}, {})
    BY <1>2, <1>3, <1>4, <1>5, <1>7, FrameMoved DEF x
  <2> QED  BY <1>6, <2>1 DEF Moves
<1>9. frame'[f] = x
  BY <1>5 DEF Puts, x
<1> QED  BY <1>3, <1>6, <1>7, <1>8, <1>9, MovesKeep, MovesShow, FrameShows DEF x

\* A step of the frames that is one of the abstract ones.
FramesChange(f) ==
  \/ Abstract!NewFrame(f)
  \/ Abstract!DropFrame(f)
  \/ \E g \in DOMAIN FrameViews :
       Abstract!CopyFrame(f, g) \/ Abstract!TakeFrame(f, g) \/ Abstract!SwapFrames(f, g)

LEMMA ChangeFramesIs ==
  ASSUME StacksKept, ExceptionsKept, NEW f \in Frames, FramesChange(f)
  PROVE  Abstract!Next
<1>1. Abstract!ChangeFrames
  BY DEF Abstract!ChangeFrames, FramesChange, StacksKept, ExceptionsKept
<1> QED  BY <1>1 DEF Abstract!Next

\* What the frames that exist show.
LEMMA FrameShown ==
  ASSUME IInv, NEW f \in Frames, Live(frame[f])
  PROVE  /\ Good(heap, frame[f], 3) /\ f \in DOMAIN FrameViews
         /\ FrameViews[f] = Words(heap, frame[f])
         /\ Words(heap, frame[f]) \in Wording(3) /\ Seen(FrameViews[f]) = FrameViews[f]
<1>1. Good(heap, frame[f], 3) /\ f \in DOMAIN frame /\ DOMAIN heap \subseteq Blocks
  BY IInvIs DEF IInv, Domains
<1>2. Words(heap, frame[f]) \in Wording(3) /\ Seen(Words(heap, frame[f])) = Words(heap, frame[f])
  BY <1>1, GoodIs
<1> QED  BY <1>1, <1>2 DEF FrameViews, Alive

LEMMA FramesThatLive ==
  ASSUME IInv, NEW f \in DOMAIN FrameViews
  PROVE  f \in Frames /\ Live(frame[f])
BY DEF FrameViews, Alive, IInv, Domains


LEMMA NewFrameIs ==
  ASSUME IInv, NEW f \in Frames, NEW a \in FrameArgs, NewFrame(f, a)
  PROVE  Agrees
<1>1. a \in Wording(3) /\ ~ Live(frame[f]) /\ SetFrame(f, NoFrame, a)
  BY ArgsAssumption DEF Wording, NewFrame
<1>2. IInv' /\ StacksKept /\ ExceptionsKept /\ FrameViews' = Abstract!Set(FrameViews, f, Seen(a))
  BY <1>1, SetFrameIs
<1>3. Abstract!NewFrame(f)
  BY <1>1, <1>2, SeenType DEF Abstract!NewFrame
<1> QED  BY <1>2, <1>3, ChangeFramesIs DEF Agrees, FramesChange

\* Frame f becomes a copy of g.
LEMMA CopyIs ==
  ASSUME IInv, NEW f \in Frames, NEW g \in Frames, Live(frame[g]), NEW o,
         IF Live(frame[f]) THEN o = frame[f] ELSE o = NoFrame,
         SetFrame(f, o, Words(heap, frame[g]))
  PROVE  Agrees
<1>1. /\ Words(heap, frame[g]) \in Wording(3) /\ g \in DOMAIN FrameViews
      /\ Seen(Words(heap, frame[g])) = FrameViews[g]
  BY FrameShown
<1> DEFINE w == Words(heap, frame[g])
<1>2. w \in Wording(3) /\ SetFrame(f, o, w)
  BY <1>1
<1> HIDE DEF w
<1>3. IInv' /\ StacksKept /\ ExceptionsKept /\ FrameViews' = Abstract!Set(FrameViews, f, Seen(w))
  BY <1>2, SetFrameIs
<1>4. Abstract!CopyFrame(f, g)
  BY <1>1, <1>3 DEF Abstract!CopyFrame, w
<1> QED  BY <1>1, <1>3, <1>4, ChangeFramesIs DEF Agrees, FramesChange

LEMMA CopyFrameIs ==
  ASSUME IInv, NEW f \in Frames, NEW g \in Frames, CopyFrame(f, g)
  PROVE  Agrees
<1>1. ~ Live(frame[f]) /\ Live(frame[g]) /\ SetFrame(f, NoFrame, Words(heap, frame[g]))
  BY DEF CopyFrame
<1> QED  BY <1>1, CopyIs

LEMMA FramesOwnApart ==
  ASSUME IInv, NEW f \in Frames, NEW g \in Frames, f # g
  PROVE  OwnAs("frame", heap, frame[f]) \intersect OwnAs("frame", heap, frame[g]) = {}
<1> DEFINE t == <<"frame", f>>
           u == <<"frame", g>>
<1>1. /\ t \in Things /\ t[1] = "frame" /\ u \in Things /\ u[1] = "frame" /\ t # u
      /\ Is(frame, stack, exception)[t] = frame[f] /\ Is(frame, stack, exception)[u] = frame[g]
  BY IsOf
<1> HIDE DEF t, u
<1> QED  BY <1>1, IInvApart

\* Where f is not g, the texts of g survive those of f.
LEMMA ApartIsReadable ==
  ASSUME IInv, NEW f \in Frames, NEW g \in Frames, Live(frame[f]), Live(frame[g]), f # g
  PROVE  Readable(Clear(heap, frame[f]), frame[g])
<1>3. TextOwn(frame[f]) \intersect TextOwn(frame[g]) = {}
  BY FramesOwnApart DEF OwnAs
<1>4. Good(heap, frame[g], 3) /\ DOMAIN heap \subseteq Blocks
  BY IInvIs
<1>5. CASE frame[g].buffer = Null
  <2>1. PICK w \in Wording(3) : Shows(heap, frame[g], w)
    BY <1>4 DEF Good
  <2>2. frame[g].ptr = Pointers(w) /\ Total(w) = 0
    BY <1>4, <1>5, <2>1, ShownIs
  <2>3. \A i \in 1..3 : ~ Held(w, i)
    BY <2>2, SeenType DEF Held
  <2>4. \A i \in DOMAIN Pointers(w) : Pointers(w)[i] = Null
    BY <2>3 DEF Pointers, Wording
  <2> QED  BY <2>2, <2>4 DEF Readable
<1>6. CASE frame[g].buffer # Null
  <2>1. frame[g].buffer \in DOMAIN heap
    BY <1>4, <1>6, GoodIs
  <2>2. frame[g].buffer # frame[f].buffer
    BY <1>3, <1>6 DEF TextOwn
  <2> QED  BY <2>1, <2>2 DEF Readable, Clear, Free
<1> QED  BY <1>5, <1>6

LEMMA AssignFrameIs ==
  ASSUME IInv, NEW f \in Frames, NEW g \in Frames, AssignFrame(f, g)
  PROVE  Agrees
<1>1. Live(frame[f]) /\ Live(frame[g])
  BY DEF AssignFrame
<1>2. CASE Readable(Clear(heap, frame[f]), frame[g])
  <2>1. SetFrame(f, frame[f], Words(heap, frame[g]))
    BY <1>2 DEF AssignFrame
  <2> QED  BY <1>1, <2>1, CopyIs
<1>3. CASE ~ Readable(Clear(heap, frame[f]), frame[g])
  <2>1. Dangle(f, g) /\ f = g
    BY <1>1, <1>3, ApartIsReadable DEF AssignFrame
  <2> QED  BY <2>1, DangleIs
<1> QED  BY <1>2, <1>3

\* Two frames get what both of them had, and show it.
LEMMA TwoFramesIs ==
  ASSUME IInv, NEW f \in Frames, NEW x, NEW g \in Frames, NEW y, PutsTwo(frame, frame', f, x, g, y),
         HandOver("frame", heap, frame, f, x, g, y), UNCHANGED <<heap, stack, exception, dangling>>,
         Live(x), Live(y)
  PROVE  /\ IInv' /\ StacksKept /\ ExceptionsKept
         /\ FrameViews' = Abstract!Set(Abstract!Set(FrameViews, g, Words(heap, y)), f, Words(heap, x))
<1>1. f \in DOMAIN frame /\ g \in DOMAIN frame /\ Indexed(frame, stack, exception)
      /\ Sound(heap, Is(frame, stack, exception))
  BY DEF IInv, Domains, Indexed
<1>2. Moved(heap, frame, stack, exception, heap, frame', stack, exception, {f, g}, {}, {})
  BY <1>1, FramesMoved
<1>3. Moves({f, g}, {}, {})
  BY <1>2 DEF Moves
<1>4. IInv' /\ StacksKept /\ ExceptionsKept
  BY <1>3, MovesKeep, MovesShow
<1>5. KeptAs("frame", heap, frame, heap, frame', {f, g}) /\ frame'[f] = x /\ frame'[g] = y
  BY <1>2 DEF Moved, PutsTwo
<1>6. ViewsOf("frame", heap, frame') =
        Abstract!Set(Abstract!Set(ViewsOf("frame", heap, frame), g, ViewAs("frame", heap, frame'[g])),
                     f, ViewAs("frame", heap, frame'[f]))
  <2> DEFINE now == frame'
  <2>1. KeptAs("frame", heap, frame, heap, now, {f, g}) /\ Live(now[f]) /\ Live(now[g])
    BY <1>5
  <2> HIDE DEF now
  <2>2. ViewsOf("frame", heap, now) =
          Abstract!Set(Abstract!Set(ViewsOf("frame", heap, frame), g, ViewAs("frame", heap, now[g])),
                       f, ViewAs("frame", heap, now[f]))
    BY <1>1, <2>1, ViewsTwo
  <2> QED  BY <2>2 DEF now
<1>7. heap' = heap
  OBVIOUS
<1> QED  BY <1>4, <1>5, <1>6, <1>7, ViewsAre, ViewsAreNext DEF ViewAs

LEMMA TakeFrameIs ==
  ASSUME IInv, NEW f \in Frames, NEW g \in Frames, TakeFrame(f, g)
  PROVE  Agrees
<1>1. /\ ~ Live(frame[f]) /\ Live(frame[g]) /\ f # g /\ DOMAIN frame = Frames
      /\ frame' = [frame EXCEPT ![f] = frame[g], ![g] = NoFrame]
      /\ UNCHANGED <<heap, stack, exception, dangling>>
  BY DEF TakeFrame, IInv, Domains
<1>2. PutsTwo(frame, frame', f, frame[g], g, NoFrame)
  BY <1>1 DEF PutsTwo
<1>3. /\ Good(heap, NoFrame, 3) /\ TextOwn(NoFrame) = {} /\ Live(NoFrame)
      /\ Words(heap, NoFrame) = [i \in 1..3 |-> None]
  BY IInvIs, EmptyIsGood, GoodIs DEF NoFrame, Live
<1>4. HandOver("frame", heap, frame, f, frame[g], g, NoFrame)
  BY <1>1, <1>3, IInvIs DEF HandOver, OwnAs, GoodAs
<1>5. /\ IInv' /\ StacksKept /\ ExceptionsKept
      /\ FrameViews' = Abstract!Set(Abstract!Set(FrameViews, g, Words(heap, NoFrame)), f, Words(heap, frame[g]))
  <2>1. UNCHANGED <<heap, stack, exception, dangling>> /\ Live(frame[g])
    BY <1>1
  <2> QED  BY <1>2, <1>3, <1>4, <2>1, TwoFramesIs
<1>6. /\ f \notin DOMAIN FrameViews /\ g \in DOMAIN FrameViews
      /\ FrameViews[g] = Words(heap, frame[g])
      /\ Words(heap, NoFrame) = Abstract!Nothing(FrameViews[g])
  <2>1. g \in DOMAIN FrameViews /\ FrameViews[g] = Words(heap, frame[g]) /\ FrameViews[g] \in Wording(3)
    BY <1>1, FrameShown
  <2>2. f \notin DOMAIN FrameViews
    BY <1>1, FramesThatLive
  <2> QED  BY <1>3, <2>1, <2>2 DEF Abstract!Nothing, Wording
<1>7. Abstract!TakeFrame(f, g)
  BY <1>5, <1>6 DEF Abstract!TakeFrame
<1> QED  BY <1>5, <1>6, <1>7, ChangeFramesIs DEF Agrees, FramesChange

LEMMA SwapFramesIs ==
  ASSUME IInv, NEW f \in Frames, NEW g \in Frames, SwapFrames(f, g)
  PROVE  Agrees
<1>1. /\ Live(frame[f]) /\ Live(frame[g]) /\ DOMAIN frame = Frames
      /\ frame' = [frame EXCEPT ![f] = frame[g], ![g] = frame[f]]
      /\ UNCHANGED <<heap, stack, exception, dangling>>
  BY DEF SwapFrames, IInv, Domains
<1>2. PutsTwo(frame, frame', f, frame[g], g, frame[f])
  BY <1>1 DEF PutsTwo
<1>3. HandOver("frame", heap, frame, f, frame[g], g, frame[f])
  <2>1. GoodAs("frame", heap, frame[g]) /\ GoodAs("frame", heap, frame[f])
    BY IInvIs DEF GoodAs
  <2>2. f # g => OwnAs("frame", heap, frame[g]) \intersect OwnAs("frame", heap, frame[f]) = {}
    BY FramesOwnApart
  <2> QED  BY <2>1, <2>2 DEF HandOver
<1>4. /\ IInv' /\ StacksKept /\ ExceptionsKept
      /\ FrameViews' = Abstract!Set(Abstract!Set(FrameViews, g, Words(heap, frame[f])), f, Words(heap, frame[g]))
  <2>1. UNCHANGED <<heap, stack, exception, dangling>> /\ Live(frame[f]) /\ Live(frame[g])
    BY <1>1
  <2> QED  BY <1>2, <1>3, <2>1, TwoFramesIs
<1>5. /\ f \in DOMAIN FrameViews /\ g \in DOMAIN FrameViews
      /\ FrameViews[g] = Words(heap, frame[g]) /\ FrameViews[f] = Words(heap, frame[f])
  BY <1>1, FrameShown
<1>6. FrameViews' = [FrameViews EXCEPT ![f] = FrameViews[g], ![g] = FrameViews[f]]
  <2>1. IsFun(FrameViews)
    BY DEF FrameViews, IsFun
  <2>2. FrameViews' = Abstract!Set(Abstract!Set(FrameViews, g, FrameViews[f]), f, FrameViews[g])
    BY <1>4, <1>5
  <2> QED  BY <1>5, <2>1, <2>2, SwapIs
<1>7. Abstract!SwapFrames(f, g)
  BY <1>5, <1>6 DEF Abstract!SwapFrames
<1> QED  BY <1>4, <1>5, <1>7, ChangeFramesIs DEF Agrees, FramesChange

LEMMA DropFrameIs ==
  ASSUME IInv, NEW f \in Frames, DropFrame(f)
  PROVE  Agrees
<1>1. /\ Live(frame[f]) /\ heap' = Clear(heap, frame[f])
      /\ frame' = [frame EXCEPT ![f] = Absent] /\ UNCHANGED <<stack, exception, dangling>>
  BY DEF DropFrame
<1>2. f \in DOMAIN frame /\ Indexed(frame, stack, exception) /\ Sound(heap, Is(frame, stack, exception))
  BY DEF IInv, Domains, Indexed
<1>3. DOMAIN heap \subseteq Blocks
  BY IInvIs
<1>4. Exchanged(heap, heap', TextOwn(frame[f]), {})
  BY <1>1, <1>3, FreeExchanges DEF Clear, TextOwn
<1>5. Puts(frame, frame', f, Absent)
  BY <1>1, <1>2 DEF Puts
<1>6. OwnAs("frame", heap, frame[f]) = TextOwn(frame[f])
      /\ OwnAs("frame", heap', Absent) = {} /\ GoodAs("frame", heap', Absent) /\ ~ Live(Absent)
  BY <1>1 DEF OwnAs, GoodAs, Live
<1>7. Moved(heap, frame, stack, exception, heap', frame', stack, exception, {f}, {}, {})
  BY <1>2, <1>4, <1>5, <1>6, FrameMoved
<1>8. Moves({f}, {}, {}) /\ frame'[f] = Absent
  BY <1>1, <1>5, <1>7 DEF Moves, Puts
<1>9. IInv' /\ StacksKept /\ ExceptionsKept /\ FrameViews' = Abstract!Without(FrameViews, f)
  BY <1>1, <1>6, <1>8, MovesKeep, MovesShow, FrameShows
<1>10. Abstract!DropFrame(f)
  BY <1>9 DEF Abstract!DropFrame
<1> QED  BY <1>9, <1>10, ChangeFramesIs DEF Agrees, FramesChange

LEMMA FrameStepIs ==
  ASSUME IInv, FrameStep
  PROVE  Agrees
<1>1. PICK f \in Frames :
        \/ \E a \in FrameArgs : NewFrame(f, a)
        \/ \E g \in Frames : CopyFrame(f, g) \/ TakeFrame(f, g) \/ AssignFrame(f, g) \/ SwapFrames(f, g)
        \/ DropFrame(f)
  BY DEF FrameStep
<1> QED  BY <1>1, NewFrameIs, CopyFrameIs, TakeFrameIs, AssignFrameIs, SwapFramesIs, DropFrameIs

-----------------------------------------------------------------------------
(* Steps of the vectors *)

LEMMA PushIs ==
  ASSUME ExceptionsKept, NEW s \in DOMAIN StackViews, Abstract!Push(s)
  PROVE  Abstract!Next
<1>1. Abstract!ChangeStacks
  BY DEF Abstract!ChangeStacks, ExceptionsKept
<1> QED  BY <1>1 DEF Abstract!Next

LEMMA ChangeStackIs ==
  ASSUME FramesKept, ExceptionsKept, NEW s \in Stacks, Abstract!ChangeStack(s)
  PROVE  Abstract!Next
<1>1. Abstract!ChangeStacks
  BY DEF Abstract!ChangeStacks, FramesKept, ExceptionsKept
<1> QED  BY <1>1 DEF Abstract!Next

LEMMA StackShown ==
  ASSUME IInv, NEW s \in Stacks, Live(stack[s])
  PROVE  /\ GoodVector(heap, stack[s]) /\ s \in DOMAIN StackViews
         /\ StackViews[s] = Values(heap, stack[s]) /\ Len(StackViews[s]) = stack[s].v_size
         /\ IsFun(StackViews)
<1>1. GoodVector(heap, stack[s]) /\ s \in DOMAIN stack /\ DOMAIN heap \subseteq Blocks
  BY IInvIs DEF IInv, Domains
<1>2. s \in DOMAIN StackViews /\ StackViews[s] = Values(heap, stack[s]) /\ IsFun(StackViews)
  BY <1>1 DEF StackViews, Alive, IsFun
<1> QED  BY <1>1, <1>2, VectorIs

\* A step of one vector, which becomes v.
OneStack(s, v) ==
  /\ Puts(stack, stack', s, v)
  /\ GoodAs("stack", heap', v)
  /\ Exchanged(heap, heap', OwnAs("stack", heap, stack[s]), OwnAs("stack", heap', v))
  /\ UNCHANGED <<frame, exception, dangling>>

LEMMA OneStackIs ==
  ASSUME IInv, NEW s \in Stacks, NEW v, OneStack(s, v)
  PROVE  /\ IInv' /\ FramesKept /\ ExceptionsKept
         /\ Live(v) => StackViews' = Abstract!Set(StackViews, s, Values(heap', v))
         /\ ~ Live(v) => StackViews' = Abstract!Without(StackViews, s)
<1>1. Indexed(frame, stack, exception) /\ Sound(heap, Is(frame, stack, exception))
  BY DEF IInv, Domains, Indexed
<1>2. Moved(heap, frame, stack, exception, heap', frame, stack', exception, {}, {s}, {})
  BY <1>1, StackMoved DEF OneStack
<1>3. UNCHANGED <<frame, exception, dangling>> /\ stack'[s] = v
  BY DEF OneStack, Puts
<1>4. Moves({}, {s}, {})
  BY <1>2, <1>3 DEF Moves
<1> QED  BY <1>3, <1>4, MovesKeep, MovesShow, StackShows

LEMMA NewStackIs ==
  ASSUME IInv, NEW s \in Stacks, NewStack(s)
  PROVE  Agrees
<1>1. /\ ~ Live(stack[s]) /\ stack' = [stack EXCEPT ![s] = NoStack] /\ s \in DOMAIN stack
      /\ UNCHANGED <<heap, frame, exception, dangling>> /\ DOMAIN heap \subseteq Blocks
  BY IInvIs DEF NewStack, IInv, Domains
<1>2. Puts(stack, stack', s, NoStack)
  BY <1>1 DEF Puts
<1>3. /\ GoodVector(heap, NoStack) /\ CellsOwn(NoStack.cells) = {} /\ Values(heap, NoStack) = <<>>
      /\ Live(NoStack)
  BY <1>1, NoStackIsGood, VectorIs DEF Live
<1>4. OneStack(s, NoStack)
  BY <1>1, <1>2, <1>3 DEF OneStack, OwnAs, GoodAs, Exchanged
<1>5. IInv' /\ FramesKept /\ ExceptionsKept /\ StackViews' = Abstract!Set(StackViews, s, <<>>)
  BY <1>1, <1>3, <1>4, OneStackIs
<1>6. Abstract!ChangeStack(s)
  BY <1>5 DEF Abstract!ChangeStack
<1> QED  BY <1>5, <1>6, ChangeStackIs DEF Agrees

LEMMA DropStackIs ==
  ASSUME IInv, NEW s \in Stacks, DropStack(s)
  PROVE  Agrees
<1>1. /\ Live(stack[s]) /\ stack' = [stack EXCEPT ![s] = Absent] /\ s \in DOMAIN stack
      /\ heap' = FreeCells(heap, stack[s])
      /\ UNCHANGED <<frame, exception, dangling>> /\ DOMAIN heap \subseteq Blocks
  BY IInvIs DEF DropStack, IInv, Domains
<1>2. Puts(stack, stack', s, Absent)
  BY <1>1 DEF Puts
<1>3. Exchanged(heap, heap', CellsOwn(stack[s].cells), {})
  BY <1>1, FreeCellsExchanges
<1>4. ~ Live(Absent)
  BY DEF Live
<1>5. OneStack(s, Absent)
  BY <1>1, <1>2, <1>3, <1>4 DEF OneStack, OwnAs, GoodAs
<1>6. IInv' /\ FramesKept /\ ExceptionsKept /\ StackViews' = Abstract!Without(StackViews, s)
  BY <1>4, <1>5, OneStackIs
<1>7. Abstract!ChangeStack(s)
  BY <1>6 DEF Abstract!ChangeStack
<1> QED  BY <1>6, <1>7, ChangeStackIs DEF Agrees

\* pop_back() and clear() keep the first n frames.
LEMMA ShortenedIs ==
  ASSUME NEW h, DOMAIN h \subseteq Blocks, NEW v, GoodVector(h, v), NEW n \in Nat, n < v.v_size
  PROVE  /\ GoodVector(h, [v EXCEPT !.v_size = n])
         /\ [v EXCEPT !.v_size = n].cells = v.cells
         /\ Values(h, [v EXCEPT !.v_size = n]) = SubSeq(Values(h, v), 1, n)
<1> DEFINE u == [v EXCEPT !.v_size = n]
<1>1. u.cells = v.cells /\ u.v_size = n /\ u = [cells |-> u.cells, v_size |-> u.v_size]
  BY DEF GoodVector
<1>2. v.v_size \in 0..Len(v.cells) /\ Len(v.cells) \in Nat
  BY VectorIs
<1> HIDE DEF u
<1>3. GoodVector(h, u)
  BY <1>1, <1>2 DEF GoodVector
<1>4. Values(h, u) = [i \in 1..n |-> Words(h, v.cells[i])]
  BY <1>1 DEF Values
<1>5. /\ DOMAIN Values(h, v) = 1..v.v_size /\ Values(h, v) \in Seq(Wording(3))
      /\ \A i \in 1..n : Values(h, v)[i] = Words(h, v.cells[i])
  BY <1>2, VectorIs
<1>6. SubSeq(Values(h, v), 1, n) = [i \in 1..n |-> Values(h, v)[i]]
  BY <1>2, <1>5
<1> QED  BY <1>1, <1>3, <1>4, <1>5, <1>6 DEF u

LEMMA ShortenIs ==
  ASSUME IInv, NEW s \in Stacks, NEW n \in Nat, Shorten(s, n)
  PROVE  Agrees
<1> DEFINE v == [stack[s] EXCEPT !.v_size = n]
<1>1. /\ Live(stack[s]) /\ n < stack[s].v_size /\ stack' = [stack EXCEPT ![s] = v] /\ s \in DOMAIN stack
      /\ UNCHANGED <<heap, frame, exception, dangling>> /\ DOMAIN heap \subseteq Blocks
  BY IInvIs DEF Shorten, IInv, Domains
<1>2. Puts(stack, stack', s, v)
  BY <1>1 DEF Puts
<1>3. /\ GoodVector(heap, stack[s]) /\ s \in DOMAIN StackViews /\ IsFun(StackViews)
      /\ StackViews[s] = Values(heap, stack[s]) /\ Len(StackViews[s]) = stack[s].v_size
  BY <1>1, StackShown
<1>4. /\ GoodVector(heap, v) /\ v.cells = stack[s].cells
      /\ Values(heap, v) = SubSeq(StackViews[s], 1, n)
  BY <1>1, <1>3, ShortenedIs
<1>5. CellsOwn(stack[s].cells) \subseteq DOMAIN heap
  BY <1>1, <1>3, CellsAre DEF GoodVector
<1> HIDE DEF v
<1>6. Live(v)
  BY <1>1, <1>4, VectorIs DEF Live
<1>7. heap' = heap /\ UNCHANGED <<frame, exception, dangling>>
  BY <1>1
<1>8. OneStack(s, v)
  <2>1. Live(stack[s]) /\ DOMAIN heap \subseteq Blocks
    BY <1>1
  <2>2. OwnAs("stack", heap, stack[s]) = CellsOwn(stack[s].cells) /\ OwnAs("stack", heap, v) = CellsOwn(stack[s].cells)
    BY <1>4, <1>6, <2>1 DEF OwnAs
  <2>3. Exchanged(heap, heap, CellsOwn(stack[s].cells), CellsOwn(stack[s].cells))
    BY <1>5, <2>1 DEF Exchanged
  <2> QED  BY <1>2, <1>4, <1>7, <2>2, <2>3 DEF OneStack, GoodAs
<1>9. IInv' /\ FramesKept /\ ExceptionsKept /\ StackViews' = Abstract!Set(StackViews, s, SubSeq(StackViews[s], 1, n))
  BY <1>4, <1>6, <1>7, <1>8, OneStackIs
<1>10. StackViews' = [StackViews EXCEPT ![s] = SubSeq(@, 1, n)]
  BY <1>3, <1>9, SetIsExcept
<1>11. n \in 0..Len(StackViews[s])
  BY <1>1, <1>3, VectorIs
<1>12. Abstract!ChangeStack(s)
  BY <1>3, <1>10, <1>11 DEF Abstract!ChangeStack
<1> QED  BY <1>9, <1>12, ChangeStackIs DEF Agrees

\* A copy of v in an array of its own.
LEMMA CopiedIsGood ==
  ASSUME NEW h, DOMAIN h \subseteq Blocks, NEW v, GoodVector(h, v), NEW r, Copied(h, v, Len(v.cells), r)
  PROVE  /\ GoodVector(r.heap, [cells |-> r.cells, v_size |-> v.v_size])
         /\ Values(r.heap, [cells |-> r.cells, v_size |-> v.v_size]) = Values(h, v)
<1>1. /\ v.v_size \in 0..Len(v.cells) /\ v.v_size \in Nat
      /\ Values(h, v) \in Seq(Wording(3)) /\ Len(Values(h, v)) = v.v_size
  BY VectorIs
<1>2. /\ GoodCells(r.heap, r.cells) /\ Len(r.cells) = Len(v.cells)
      /\ CellsShow(r.heap, r.cells, v.v_size, Values(h, v))
  BY DEF Copied
<1>3. Values(r.heap, [cells |-> r.cells, v_size |-> v.v_size]) = Values(h, v)
  BY <1>1, <1>2, ValuesAre
<1> QED  BY <1>1, <1>2, <1>3 DEF GoodVector

LEMMA CopyStackIs ==
  ASSUME IInv, NEW s \in Stacks, NEW e \in Exceptions, CopyStack(s, e)
  PROVE  Agrees
<1> DEFINE v == heap[exception[e].call_stack]
<1>1. /\ ~ Live(stack[s]) /\ Live(exception[e]) /\ exception[e].call_stack # Null
      /\ s \in DOMAIN stack /\ e \in DOMAIN exception /\ DOMAIN heap \subseteq Blocks
      /\ UNCHANGED <<frame, exception, dangling>>
  BY IInvIs DEF CopyStack, IInv, Domains
<1>2. GoodException(heap, exception[e])
  BY <1>1, IInvIs
<1>3. CarriedBy(heap, exception[e]) = v /\ Carried(exception[e]) = v
  BY <1>1 DEF CarriedBy, Carried
<1>4. GoodVector(heap, v)
  BY <1>1, <1>2, <1>3, ExceptionIs
<1>5. PICK at \in New(heap, Filled(heap, v)) :
        /\ heap' = CopyCells(heap, v, Len(v.cells), at).heap
        /\ stack' = [stack EXCEPT ![s] = [cells |-> CopyCells(heap, v, Len(v.cells), at).cells,
                                          v_size |-> v.v_size]]
  BY DEF CopyStack
<1> DEFINE r == CopyCells(heap, v, Len(v.cells), at)
           u == [cells |-> r.cells, v_size |-> v.v_size]
<1>6. heap' = r.heap /\ Puts(stack, stack', s, u) /\ u.cells = r.cells
  BY <1>1, <1>5 DEF Puts
<1>7. Copied(heap, v, Len(v.cells), r)
  <2>1. Len(v.cells) \in Nat /\ v.v_size <= Len(v.cells) /\ Len(v.cells) <= MaxFrames
    BY <1>1, <1>4, VectorIs, CellsAre DEF GoodVector
  <2> QED  BY <1>1, <1>4, <2>1, CopyCellsIs
<1>8. e \in DOMAIN ExceptionViews /\ ExceptionViews[e].call_stack = Values(heap, v)
  BY <1>1, <1>3 DEF ExceptionViews, Alive
<1> HIDE DEF v, r
<1>9. GoodVector(r.heap, u) /\ Values(r.heap, u) = Values(heap, v)
  BY <1>1, <1>4, <1>7, CopiedIsGood
<1>10. Exchanged(heap, r.heap, {}, CellsOwn(r.cells))
  BY <1>7 DEF Copied
<1> HIDE DEF u
<1>11. Live(u)
  <2>1. DOMAIN r.heap \subseteq Blocks
    BY <1>10 DEF Exchanged
  <2> QED  BY <1>9, <2>1, VectorIs DEF Live
<1>12. OneStack(s, u)
  BY <1>1, <1>6, <1>9, <1>10, <1>11 DEF OneStack, OwnAs, GoodAs
<1>13. /\ IInv' /\ FramesKept /\ ExceptionsKept
       /\ StackViews' = Abstract!Set(StackViews, s, ExceptionViews[e].call_stack)
  BY <1>6, <1>8, <1>9, <1>11, <1>12, OneStackIs
<1>14. Abstract!ChangeStack(s)
  BY <1>8, <1>13 DEF Abstract!ChangeStack, Abstract!Given
<1> QED  BY <1>13, <1>14, ChangeStackIs DEF Agrees

\* The vector s gets the texts w in a frame of its own.
LEMMA EmplaceCopyIs ==
  ASSUME IInv, NEW s \in Stacks, CanGrow(s), NEW r, Grown(heap, stack[s], r),
         NEW w \in Wording(3), Seen(w) = w, EmplaceCopy(s, r, w), UNCHANGED frame
  PROVE  /\ IInv' /\ FramesKept /\ ExceptionsKept
         /\ s \in DOMAIN StackViews
         /\ StackViews' = [StackViews EXCEPT ![s] = Append(@, w)]
<1> DEFINE n == stack[s].v_size + 1
           v == stack[s]
<1>1. PICK b \in NewBlock(r.heap) : EmplaceBack(s, r.cells, Written(r.heap, w, b), Laid(w, b))
  BY DEF EmplaceCopy
<1> DEFINE u == [cells |-> [r.cells EXCEPT ![n] = Laid(w, b)], v_size |-> n]
<1>2. /\ heap' = Clear(Written(r.heap, w, b), r.cells[n]) /\ stack' = [stack EXCEPT ![s] = u]
      /\ UNCHANGED <<exception, dangling>>
  BY <1>1 DEF EmplaceBack
<1>3. /\ Live(v) /\ s \in DOMAIN stack /\ DOMAIN heap \subseteq Blocks
      /\ GoodVector(heap, v) /\ s \in DOMAIN StackViews /\ IsFun(StackViews)
      /\ StackViews[s] = Values(heap, v)
  BY StackShown, IInvIs DEF CanGrow, IInv, Domains
<1>4. Puts(stack, stack', s, u)
  BY <1>2, <1>3 DEF Puts
<1>5. Pushed(heap, v, w, {}, heap', u)
  <2>1. Pushed(heap, v, w, {}, Clear(Written(r.heap, w, b), r.cells[n]), u)
    BY <1>3, PushCopyIs
  <2> QED  BY <1>2, <2>1
<1>6. UNCHANGED <<frame, exception, dangling>>
  BY <1>2
<1> HIDE DEF u, v
<1>7. Exchanged(heap, heap', CellsOwn(v.cells), CellsOwn(u.cells)) /\ GoodVector(heap', u)
      /\ Values(heap', u) = Append(StackViews[s], w)
  BY <1>3, <1>5 DEF Pushed
<1>8. Live(u)
  <2>1. DOMAIN heap' \subseteq Blocks
    BY <1>7 DEF Exchanged
  <2> QED  BY <1>7, <2>1, VectorIs DEF Live
<1>9. OneStack(s, u)
  <2>1. OwnAs("stack", heap, stack[s]) = CellsOwn(v.cells) /\ OwnAs("stack", heap', u) = CellsOwn(u.cells)
    BY <1>3, <1>8 DEF OwnAs, v
  <2> QED  BY <1>4, <1>6, <1>7, <2>1 DEF OneStack, GoodAs
<1>10. /\ IInv' /\ FramesKept /\ ExceptionsKept
       /\ StackViews' = Abstract!Set(StackViews, s, Append(StackViews[s], w))
  BY <1>7, <1>8, <1>9, OneStackIs
<1> QED  BY <1>3, <1>10, SetIsExcept

LEMMA PushCopyStepIs ==
  ASSUME IInv, NEW s \in Stacks, NEW f \in Frames, PushCopy(s, f)
  PROVE  Agrees
<1>1. /\ CanGrow(s) /\ Live(frame[f]) /\ Live(stack[s]) /\ stack[s].v_size < MaxFrames /\ UNCHANGED frame
      /\ DOMAIN heap \subseteq Blocks /\ GoodVector(heap, stack[s])
  BY IInvIs DEF PushCopy, CanGrow
<1>2. PICK at \in New(heap, Relocated(heap, stack[s])) :
        EmplaceCopy(s, Grow(heap, stack[s], at), Words(heap, frame[f]))
  BY DEF PushCopy
<1> DEFINE r == Grow(heap, stack[s], at)
           w == Words(heap, frame[f])
<1>3. Grown(heap, stack[s], r)
  BY <1>1, GrowIs
<1>4. EmplaceCopy(s, r, w)
  BY <1>2
<1>5. w \in Wording(3) /\ Seen(w) = w /\ f \in DOMAIN FrameViews /\ FrameViews[f] = w
  BY <1>1, FrameShown
<1> HIDE DEF r, w
<1>6. /\ IInv' /\ FramesKept /\ ExceptionsKept
      /\ s \in DOMAIN StackViews /\ StackViews' = [StackViews EXCEPT ![s] = Append(@, w)]
  BY <1>1, <1>3, <1>4, <1>5, EmplaceCopyIs
<1>7. Abstract!Push(s)
  BY <1>5, <1>6 DEF Abstract!Push, FramesKept
<1> QED  BY <1>6, <1>7, PushIs DEF Agrees

LEMMA PushOwnIs ==
  ASSUME IInv, NEW s \in Stacks, NEW i \in Nat, PushOwn(s, i)
  PROVE  Agrees
<1>1. CASE Dangle(s, s)
  BY <1>1, DangleIs
<1> DEFINE r == [heap |-> heap, cells |-> stack[s].cells]
           w == Words(heap, stack[s].cells[i])
<1>2. CASE ~ Full(stack[s]) /\ EmplaceCopy(s, r, w) /\ UNCHANGED frame
  <2>1. /\ CanGrow(s) /\ i \in 1..stack[s].v_size /\ Live(stack[s])
        /\ DOMAIN heap \subseteq Blocks /\ GoodVector(heap, stack[s])
    BY IInvIs DEF PushOwn, CanGrow
  <2>2. /\ s \in DOMAIN StackViews /\ StackViews[s] = Values(heap, stack[s])
        /\ Len(StackViews[s]) = stack[s].v_size
        /\ StackViews[s][i] = w /\ w \in Wording(3) /\ Seen(w) = w
        /\ stack[s].v_size \in 0..Len(stack[s].cells) /\ Len(stack[s].cells) \in Nat
    <3>1. /\ s \in DOMAIN StackViews /\ StackViews[s] = Values(heap, stack[s])
          /\ Len(StackViews[s]) = stack[s].v_size
      BY <2>1, StackShown
    <3>2. /\ Values(heap, stack[s])[i] = w /\ Values(heap, stack[s])[i] \in Wording(3)
          /\ Seen(Values(heap, stack[s])[i]) = Values(heap, stack[s])[i]
      BY <2>1, VectorIs
    <3>3. stack[s].v_size \in 0..Len(stack[s].cells) /\ Len(stack[s].cells) \in Nat
      BY <2>1, VectorIs
    <3> QED  BY <3>1, <3>2, <3>3
  <2>3. Grown(heap, stack[s], r)
    <3>1. CellsOwn(stack[s].cells) \subseteq DOMAIN heap /\ GoodCells(heap, stack[s].cells)
      BY <2>1, CellsAre DEF GoodVector
    <3>2. stack[s].v_size < Len(stack[s].cells)
      BY <1>2, <2>2 DEF Full
    <3>3. CellsShow(heap, stack[s].cells, stack[s].v_size, Values(heap, stack[s]))
      BY <2>1, VectorIs DEF CellsShow
    <3> QED  BY <2>1, <3>1, <3>2, <3>3 DEF Grown, Exchanged
  <2> HIDE DEF r, w
  <2>4. /\ IInv' /\ FramesKept /\ ExceptionsKept
        /\ StackViews' = [StackViews EXCEPT ![s] = Append(@, w)]
    BY <1>2, <2>1, <2>2, <2>3, EmplaceCopyIs
  <2>5. i \in 1..Len(StackViews[s]) /\ StackViews' = [StackViews EXCEPT ![s] = Append(@, @[i])]
    BY <2>1, <2>2, <2>4
  <2>6. Abstract!Push(s)
    BY <2>4, <2>5 DEF Abstract!Push, FramesKept
  <2> QED  BY <2>2, <2>4, <2>6, PushIs DEF Agrees
<1> QED  BY <1>1, <1>2 DEF PushOwn

\* A step in which a frame becomes x and a vector v.
FrameAndStack(f, x, s, v) ==
  /\ Puts(frame, frame', f, x) /\ Puts(stack, stack', s, v)
  /\ GoodAs("frame", heap', x) /\ GoodAs("stack", heap', v) /\ OwnAs("frame", heap', x) = {}
  /\ Exchanged(heap, heap', OwnAs("frame", heap, frame[f]) \union OwnAs("stack", heap, stack[s]),
               OwnAs("stack", heap', v))
  /\ Live(x) /\ Live(v)
  /\ UNCHANGED <<exception, dangling>>

LEMMA FrameAndStackIs ==
  ASSUME IInv, NEW f \in Frames, NEW x, NEW s \in Stacks, NEW v, FrameAndStack(f, x, s, v)
  PROVE  /\ IInv' /\ ExceptionsKept
         /\ FrameViews' = Abstract!Set(FrameViews, f, Words(heap', x))
         /\ StackViews' = Abstract!Set(StackViews, s, Values(heap', v))
<1>1. Indexed(frame, stack, exception) /\ Sound(heap, Is(frame, stack, exception))
  BY DEF IInv, Domains, Indexed
<1>2. Moved(heap, frame, stack, exception, heap', frame', stack', exception, {f}, {s}, {})
  BY <1>1, FrameAndStackMoved DEF FrameAndStack
<1>3. UNCHANGED <<exception, dangling>> /\ frame'[f] = x /\ stack'[s] = v /\ Live(x) /\ Live(v)
  BY DEF FrameAndStack, Puts
<1>4. Moves({f}, {s}, {})
  BY <1>2, <1>3 DEF Moves
<1> QED  BY <1>3, <1>4, MovesKeep, MovesShow, FrameShows, StackShows

LEMMA FrameApartFromStack ==
  ASSUME IInv, NEW f \in Frames, NEW s \in Stacks
  PROVE  OwnAs("frame", heap, frame[f]) \intersect OwnAs("stack", heap, stack[s]) = {}
<1> DEFINE t == <<"frame", f>>
           u == <<"stack", s>>
<1>1. /\ t \in Things /\ t[1] = "frame" /\ u \in Things /\ u[1] = "stack" /\ t # u
      /\ Is(frame, stack, exception)[t] = frame[f] /\ Is(frame, stack, exception)[u] = stack[s]
  BY IsOf
<1> HIDE DEF t, u
<1> QED  BY <1>1, IInvApart

LEMMA PushMoveStepIs ==
  ASSUME IInv, NEW s \in Stacks, NEW f \in Frames, PushMove(s, f)
  PROVE  Agrees
<1> DEFINE v == stack[s]
           o == frame[f]
           n == stack[s].v_size + 1
<1>1. /\ Live(o) /\ Live(v) /\ v.v_size < MaxFrames
      /\ DOMAIN heap \subseteq Blocks /\ GoodVector(heap, v) /\ Good(heap, o, 3)
      /\ f \in DOMAIN frame /\ s \in DOMAIN stack
      /\ frame' = [frame EXCEPT ![f] = NoFrame]
  BY IInvIs DEF PushMove, CanGrow, IInv, Domains
<1>2. PICK at \in New(heap, Relocated(heap, v)) :
        EmplaceBack(s, Grow(heap, v, at).cells, Grow(heap, v, at).heap, o)
  BY DEF PushMove
<1> DEFINE r == Grow(heap, v, at)
           u == [cells |-> [r.cells EXCEPT ![n] = o], v_size |-> n]
<1>3. Grown(heap, v, r)
  BY <1>1, GrowIs
<1>4. /\ heap' = Clear(r.heap, r.cells[n]) /\ stack' = [stack EXCEPT ![s] = u]
      /\ UNCHANGED <<exception, dangling>>
  BY <1>2 DEF EmplaceBack
<1>5. Puts(stack, stack', s, u) /\ Puts(frame, frame', f, NoFrame)
  BY <1>1, <1>4 DEF Puts
<1>6. TextOwn(o) \intersect CellsOwn(v.cells) = {}
  BY <1>1, FrameApartFromStack DEF OwnAs
<1>7. Pushed(heap, v, Words(heap, o), TextOwn(o), heap', u)
  <2>1. Pushed(heap, v, Words(heap, o), TextOwn(o), Clear(r.heap, r.cells[n]), u)
    BY <1>1, <1>3, <1>6, PushMoveIs
  <2> QED  BY <1>4, <2>1
<1>8. /\ f \in DOMAIN FrameViews /\ FrameViews[f] = Words(heap, o) /\ Words(heap, o) \in Wording(3)
      /\ s \in DOMAIN StackViews /\ StackViews[s] = Values(heap, v) /\ IsFun(StackViews)
      /\ IsFun(FrameViews)
  BY <1>1, FrameShown, StackShown DEF FrameViews, IsFun
<1>9. UNCHANGED <<exception, dangling>>
  BY <1>4
<1> HIDE DEF u
<1>10. /\ Exchanged(heap, heap', CellsOwn(v.cells) \union TextOwn(o), CellsOwn(u.cells))
       /\ GoodVector(heap', u) /\ DOMAIN heap' \subseteq Blocks
       /\ Values(heap', u) = Append(Values(heap, v), Words(heap, o))
  BY <1>7 DEF Pushed, Exchanged
<1>11. Live(u) /\ OwnAs("stack", heap', u) = CellsOwn(u.cells)
  BY <1>10, VectorIs DEF Live, OwnAs
<1>12. /\ Good(heap', NoFrame, 3) /\ TextOwn(NoFrame) = {} /\ Live(NoFrame)
       /\ Words(heap', NoFrame) = [i \in 1..3 |-> None] /\ OwnAs("frame", heap', NoFrame) = {}
  BY <1>10, EmptyIsGood, GoodIs DEF NoFrame, Live, OwnAs
<1>13. FrameAndStack(f, NoFrame, s, u)
  <2>1. OwnAs("frame", heap, frame[f]) \union OwnAs("stack", heap, stack[s]) = CellsOwn(v.cells) \union TextOwn(o)
    BY <1>1 DEF OwnAs
  <2> QED  BY <1>5, <1>9, <1>10, <1>11, <1>12, <2>1 DEF FrameAndStack, GoodAs
<1>14. /\ IInv' /\ ExceptionsKept
       /\ FrameViews' = Abstract!Set(FrameViews, f, Abstract!Nothing(FrameViews[f]))
       /\ StackViews' = Abstract!Set(StackViews, s, Append(StackViews[s], FrameViews[f]))
  <2>1. Abstract!Nothing(FrameViews[f]) = [i \in 1..3 |-> None]
    BY <1>8 DEF Abstract!Nothing, Wording
  <2>2. /\ IInv' /\ ExceptionsKept
        /\ FrameViews' = Abstract!Set(FrameViews, f, Words(heap', NoFrame))
        /\ StackViews' = Abstract!Set(StackViews, s, Values(heap', u))
    BY <1>13, FrameAndStackIs
  <2> QED  BY <1>8, <1>10, <1>12, <2>1, <2>2
<1>15. /\ FrameViews' = [FrameViews EXCEPT ![f] = Abstract!Nothing(@)]
       /\ StackViews' = [StackViews EXCEPT ![s] = Append(@, FrameViews[f])]
  BY <1>8, <1>14, SetIsExcept
<1>16. Abstract!Push(s)
  BY <1>8, <1>15 DEF Abstract!Push
<1> QED  BY <1>8, <1>14, <1>16, PushIs DEF Agrees

LEMMA StackStepIs ==
  ASSUME IInv, StackStep
  PROVE  Agrees
<1>1. PICK s \in Stacks :
        \/ NewStack(s) \/ DropStack(s)
        \/ \E f \in Frames : PushCopy(s, f) \/ PushMove(s, f)
        \/ \E i \in 1..MaxFrames : PushOwn(s, i)
        \/ \E n \in 0..MaxFrames : Shorten(s, n)
        \/ \E e \in Exceptions : CopyStack(s, e)
  BY DEF StackStep
<1>2. ASSUME NEW i \in 1..MaxFrames, PushOwn(s, i) PROVE Agrees
  BY <1>2, PushOwnIs
<1>3. ASSUME NEW n \in 0..MaxFrames, Shorten(s, n) PROVE Agrees
  BY <1>3, ShortenIs
<1> QED  BY <1>1, <1>2, <1>3, NewStackIs, DropStackIs, PushCopyStepIs, PushMoveStepIs, CopyStackIs

-----------------------------------------------------------------------------
(* Steps of the exceptions *)

LEMMA ChangeExceptionIs ==
  ASSUME FramesKept, StacksKept, NEW e \in Exceptions, Abstract!ChangeException(e)
  PROVE  Abstract!Next
<1>1. Abstract!ChangeExceptions
  BY DEF Abstract!ChangeExceptions, FramesKept, StacksKept
<1> QED  BY <1>1 DEF Abstract!Next

LEMMA ExceptionShown ==
  ASSUME IInv, NEW e \in Exceptions, Live(exception[e])
  PROVE  /\ GoodException(heap, exception[e]) /\ e \in DOMAIN ExceptionViews
         /\ ExceptionViews[e] = Shown(heap, exception[e])
         /\ Words(heap, exception[e].texts) \in Wording(5)
         /\ Seen(Words(heap, exception[e].texts)) = Words(heap, exception[e].texts)
         /\ Carried(exception[e]) = CarriedBy(heap, exception[e])
         /\ GoodVector(heap, Carried(exception[e])) /\ exception[e].signal \in Word16
         /\ IsFun(ExceptionViews)
<1>1. /\ GoodException(heap, exception[e]) /\ e \in DOMAIN exception /\ DOMAIN heap \subseteq Blocks
      /\ Carried(exception[e]) = CarriedBy(heap, exception[e])
  BY IInvIs DEF IInv, Domains, Carried, CarriedBy
<1>2. Good(heap, exception[e].texts, 5) /\ exception[e].signal \in Word16
  BY <1>1 DEF GoodException
<1>3. Words(heap, exception[e].texts) \in Wording(5)
      /\ Seen(Words(heap, exception[e].texts)) = Words(heap, exception[e].texts)
  BY <1>1, <1>2, GoodIs
<1>4. GoodVector(heap, CarriedBy(heap, exception[e]))
  BY <1>1, ExceptionIs
<1>5. e \in DOMAIN ExceptionViews /\ ExceptionViews[e] = Shown(heap, exception[e]) /\ IsFun(ExceptionViews)
  BY <1>1 DEF ExceptionViews, Alive, IsFun, Shown
<1> QED  BY <1>1, <1>2, <1>3, <1>4, <1>5

LEMMA ExceptionsThatLive ==
  ASSUME IInv, NEW e \in Exceptions, ~ Live(exception[e])
  PROVE  e \notin DOMAIN ExceptionViews
BY DEF ExceptionViews, Alive

\* A step of one exception, which becomes y.
OneException(e, y) ==
  /\ Puts(exception, exception', e, y)
  /\ GoodAs("exception", heap', y)
  /\ Exchanged(heap, heap', OwnAs("exception", heap, exception[e]), OwnAs("exception", heap', y))
  /\ UNCHANGED <<frame, stack, dangling>>

LEMMA OneExceptionIs ==
  ASSUME IInv, NEW e \in Exceptions, NEW y, OneException(e, y)
  PROVE  /\ IInv' /\ FramesKept /\ StacksKept
         /\ Live(y) => ExceptionViews' = Abstract!Set(ExceptionViews, e, Shown(heap', y))
         /\ ~ Live(y) => ExceptionViews' = Abstract!Without(ExceptionViews, e)
<1>1. Indexed(frame, stack, exception) /\ Sound(heap, Is(frame, stack, exception))
  BY DEF IInv, Domains, Indexed
<1>2. Moved(heap, frame, stack, exception, heap', frame, stack, exception', {}, {}, {e})
  BY <1>1, ExceptionMoved DEF OneException
<1>3. UNCHANGED <<frame, stack, dangling>> /\ exception'[e] = y
  BY DEF OneException, Puts
<1>4. Moves({}, {}, {e})
  BY <1>2, <1>3 DEF Moves
<1> QED  BY <1>3, <1>4, MovesKeep, MovesShow, ExceptionShows

\* _copy_values() into e, which was x.
LEMMA SetExceptionIs ==
  ASSUME IInv, NEW e \in Exceptions, NEW x, NEW w \in Wording(5), NEW sig \in Int, NEW v,
         IF Live(exception[e]) THEN x = exception[e] ELSE x = NoException,
         GoodVector(heap, v), CellsOwn(v.cells) \intersect ExceptionOwn(heap, x) = {},
         SetException(e, x, w, sig, v)
  PROVE  /\ IInv' /\ FramesKept /\ StacksKept
         /\ ExceptionViews' = Abstract!Set(ExceptionViews, e,
              [texts |-> Seen(w), signal |-> Uint16(sig), call_stack |-> Values(heap, v)])
<1>1. PICK b \in NewBlock(ClearException(heap, x)) :
        \E at \in New(Written(ClearException(heap, x), w, b),
                      Filled(Written(ClearException(heap, x), w, b), v)) :
          \E d \in NewBlock(CopyCells(Written(ClearException(heap, x), w, b), v, Len(v.cells), at).heap) :
            /\ heap' = Target(ClearException(heap, x), w, b, v, at, d)
            /\ exception' = [exception EXCEPT ![e] = Made(w, sig, b, v, d)]
            /\ UNCHANGED <<frame, stack, dangling>>
  BY DEF SetException, Target, Made
<1>2. PICK at \in New(Written(ClearException(heap, x), w, b),
                      Filled(Written(ClearException(heap, x), w, b), v)) :
        \E d \in NewBlock(CopyCells(Written(ClearException(heap, x), w, b), v, Len(v.cells), at).heap) :
          /\ heap' = Target(ClearException(heap, x), w, b, v, at, d)
          /\ exception' = [exception EXCEPT ![e] = Made(w, sig, b, v, d)]
          /\ UNCHANGED <<frame, stack, dangling>>
  BY <1>1
<1>3. PICK d \in NewBlock(CopyCells(Written(ClearException(heap, x), w, b), v, Len(v.cells), at).heap) :
        /\ heap' = Target(ClearException(heap, x), w, b, v, at, d)
        /\ exception' = [exception EXCEPT ![e] = Made(w, sig, b, v, d)]
        /\ UNCHANGED <<frame, stack, dangling>>
  BY <1>2
<1>4. GoodException(heap, x) /\ OwnAs("exception", heap, exception[e]) = ExceptionOwn(heap, x)
      /\ DOMAIN heap \subseteq Blocks /\ e \in DOMAIN exception
  <2>1. CASE Live(exception[e])
    BY <2>1, IInvIs DEF OwnAs, IInv, Domains
  <2>2. CASE ~ Live(exception[e])
    BY <2>2, IInvIs, NoExceptionIsGood DEF OwnAs, IInv, Domains
  <2> QED  BY <2>1, <2>2
<1> DEFINE y == Made(w, sig, b, v, d)
<1>5. Replaced(heap, x, w, sig, Values(heap, v), heap', y)
  <2>1. Replaced(heap, x, w, sig, Values(heap, v), Target(ClearException(heap, x), w, b, v, at, d), y)
    BY <1>4, ReplaceIs
  <2> QED  BY <1>3, <2>1
<1>6. Puts(exception, exception', e, y) /\ UNCHANGED <<frame, stack, dangling>>
  BY <1>3, <1>4 DEF Puts
<1> HIDE DEF y
<1>7. /\ Exchanged(heap, heap', ExceptionOwn(heap, x), ExceptionOwn(heap', y))
      /\ GoodException(heap', y)
      /\ Shown(heap', y) = [texts |-> Seen(w), signal |-> Uint16(sig), call_stack |-> Values(heap, v)]
  BY <1>5 DEF Replaced
<1>8. Live(y)
  <2>1. DOMAIN heap' \subseteq Blocks
    BY <1>7 DEF Exchanged
  <2> QED  BY <1>7, <2>1, ExceptionIs DEF Live
<1>9. OneException(e, y)
  BY <1>4, <1>6, <1>7, <1>8 DEF OneException, OwnAs, GoodAs
<1> QED  BY <1>7, <1>8, <1>9, OneExceptionIs

LEMMA NewExceptionIs ==
  ASSUME IInv, NEW e \in Exceptions, NEW a \in ExceptionArgs, NEW sig \in Signals,
         NEW v \in {NoStack} \union {stack[s] : s \in {t \in Stacks : Live(stack[t])}},
         NewException(e, a, sig, v)
  PROVE  Agrees
<1>1. /\ a \in Wording(5) /\ sig \in Int /\ ~ Live(exception[e]) /\ SetException(e, NoException, a, sig, v)
      /\ DOMAIN heap \subseteq Blocks
  BY ArgsAssumption, IInvIs DEF Wording, NewException
<1>2. /\ GoodVector(heap, v)
      /\ Values(heap, v) \in {<<>>} \union {StackViews[s] : s \in DOMAIN StackViews}
  <2>1. CASE v = NoStack
    BY <1>1, <2>1, NoStackIsGood
  <2>2. CASE v # NoStack
    BY <2>2, StackShown
  <2> QED  BY <2>1, <2>2
<1>3. CellsOwn(v.cells) \intersect ExceptionOwn(heap, NoException) = {}
  BY <1>1, NoExceptionIsGood
<1>4. /\ IInv' /\ FramesKept /\ StacksKept
      /\ ExceptionViews' = Abstract!Set(ExceptionViews, e,
              [texts |-> Seen(a), signal |-> Uint16(sig), call_stack |-> Values(heap, v)])
  BY <1>1, <1>2, <1>3, SetExceptionIs
<1>5. Seen(a) = Abstract!Normal(a) /\ Uint16(sig) = sig % 2^16
  BY <1>1, SeenType DEF Uint16
<1>6. Abstract!NewException(e)
  BY <1>2, <1>4, <1>5 DEF Abstract!NewException
<1>7. Abstract!ChangeException(e)
  BY <1>6 DEF Abstract!ChangeException
<1> QED  BY <1>4, <1>7, ChangeExceptionIs DEF Agrees

LEMMA Word16Is ==
  ASSUME NEW n \in Word16
  PROVE  Uint16(n) = n /\ n \in Int
BY DEF Word16, Uint16

\* Exception e becomes a copy of g.
LEMMA CopyOfExceptionIs ==
  ASSUME IInv, NEW e \in Exceptions, NEW g \in Exceptions, Live(exception[g]), NEW x,
         IF Live(exception[e]) THEN x = exception[e] ELSE x = NoException,
         CellsOwn(Carried(exception[g]).cells) \intersect ExceptionOwn(heap, x) = {},
         SetException(e, x, Words(heap, exception[g].texts), exception[g].signal, Carried(exception[g]))
  PROVE  Agrees
<1> DEFINE w == Words(heap, exception[g].texts)
           sig == exception[g].signal
           v == Carried(exception[g])
<1>1. /\ w \in Wording(5) /\ Seen(w) = w /\ sig \in Word16 /\ GoodVector(heap, v)
      /\ g \in DOMAIN ExceptionViews /\ v = CarriedBy(heap, exception[g])
      /\ ExceptionViews[g] = Shown(heap, exception[g])
  BY ExceptionShown
<1>2. Uint16(sig) = sig /\ sig \in Int
  BY <1>1, Word16Is
<1>3. ExceptionViews[g] = [texts |-> w, signal |-> sig, call_stack |-> Values(heap, v)]
  BY <1>1 DEF Shown
<1>4. CellsOwn(v.cells) \intersect ExceptionOwn(heap, x) = {} /\ SetException(e, x, w, sig, v)
  OBVIOUS
<1> HIDE DEF w, sig, v
<1>5. /\ IInv' /\ FramesKept /\ StacksKept
      /\ ExceptionViews' = Abstract!Set(ExceptionViews, e,
              [texts |-> Seen(w), signal |-> Uint16(sig), call_stack |-> Values(heap, v)])
  BY <1>1, <1>2, <1>4, SetExceptionIs
<1>6. Abstract!ChangeException(e)
  BY <1>1, <1>2, <1>3, <1>5 DEF Abstract!ChangeException
<1> QED  BY <1>5, <1>6, ChangeExceptionIs DEF Agrees

LEMMA CopyExceptionIs ==
  ASSUME IInv, NEW e \in Exceptions, NEW g \in Exceptions, CopyException(e, g)
  PROVE  Agrees
<1>1. /\ ~ Live(exception[e]) /\ Live(exception[g])
      /\ SetException(e, NoException, Words(heap, exception[g].texts), exception[g].signal,
                      Carried(exception[g]))
      /\ DOMAIN heap \subseteq Blocks
  BY IInvIs DEF CopyException
<1>2. CellsOwn(Carried(exception[g]).cells) \intersect ExceptionOwn(heap, NoException) = {}
  BY <1>1, NoExceptionIsGood
<1> QED  BY <1>1, <1>2, CopyOfExceptionIs

LEMMA ExceptionsOwnApart ==
  ASSUME IInv, NEW e \in Exceptions, NEW g \in Exceptions, e # g
  PROVE  OwnAs("exception", heap, exception[e]) \intersect OwnAs("exception", heap, exception[g]) = {}
<1> DEFINE t == <<"exception", e>>
           u == <<"exception", g>>
<1>1. /\ t \in Things /\ t[1] = "exception" /\ u \in Things /\ u[1] = "exception" /\ t # u
      /\ Is(frame, stack, exception)[t] = exception[e] /\ Is(frame, stack, exception)[u] = exception[g]
  BY IsOf
<1> HIDE DEF t, u
<1> QED  BY <1>1, IInvApart

\* The members of an exception that owns nothing of A survive when A is deleted.
LEMMA SurvivesIs ==
  ASSUME NEW h, DOMAIN h \subseteq Blocks, NEW y, GoodException(h, y), NEW A, NEW g,
         Exchanged(h, g, A, {}), ExceptionOwn(h, y) \intersect A = {}
  PROVE  Readable(g, y.texts) /\ y.call_stack \in DOMAIN g \union {Null}
<1>1. ExceptionOwn(h, y) \subseteq DOMAIN g
  BY ExceptionIs DEF Exchanged
<1>2. y.call_stack \in DOMAIN g \union {Null}
  BY <1>1 DEF ExceptionOwn, CarriedOwn
<1>3. Good(h, y.texts, 5)
  BY DEF GoodException
<1>4. Readable(g, y.texts)
  <2> DEFINE o == y.texts
  <2>1. CASE o.buffer # Null
    BY <1>1, <2>1 DEF ExceptionOwn, TextOwn, Readable
  <2>2. CASE o.buffer = Null
    <3>1. PICK w \in Wording(5) : Shows(h, o, w)
      BY <1>3 DEF Good
    <3>2. o.ptr = Pointers(w) /\ Total(w) = 0
      BY <2>2, <3>1, ShownIs
    <3>3. \A i \in 1..5 : ~ Held(w, i)
      BY <3>2, SeenType DEF Held
    <3>4. \A i \in DOMAIN Pointers(w) : Pointers(w)[i] = Null
      BY <3>3 DEF Pointers, Wording
    <3> QED  BY <3>2, <3>4 DEF Readable
  <2> QED  BY <2>1, <2>2
<1> QED  BY <1>2, <1>4

LEMMA AssignExceptionIs ==
  ASSUME IInv, NEW e \in Exceptions, NEW g \in Exceptions, AssignException(e, g)
  PROVE  Agrees
<1> DEFINE k == ClearException(heap, exception[e])
           y == exception[g]
           Readables == Readable(k, y.texts) /\ y.call_stack \in DOMAIN k \union {Null}
<1>1. /\ Live(exception[e]) /\ Live(y) /\ DOMAIN heap \subseteq Blocks
      /\ GoodException(heap, exception[e]) /\ GoodException(heap, y)
      /\ Readables => SetException(e, exception[e], Words(heap, y.texts), y.signal, Carried(y))
      /\ ~ Readables => Dangle(e, g)
  BY IInvIs DEF AssignException
<1>2. Exchanged(heap, k, ExceptionOwn(heap, exception[e]), {})
  BY <1>1, ClearExceptionIs
<1>3. e # g => ExceptionOwn(heap, y) \intersect ExceptionOwn(heap, exception[e]) = {}
  BY <1>1, ExceptionsOwnApart DEF OwnAs
<1> HIDE DEF k, y, Readables
<1>4. CASE Readables
  <2>1. CellsOwn(Carried(y).cells) \intersect ExceptionOwn(heap, exception[e]) = {}
    <3>1. CASE e # g
      <4>1. CellsOwn(Carried(y).cells) \subseteq ExceptionOwn(heap, y)
        <5>1. CellsOwn(CarriedBy(heap, y).cells) \subseteq CarriedOwn(heap, y)
          BY <1>1, ExceptionIs
        <5> QED  BY <5>1 DEF Carried, CarriedBy, ExceptionOwn
      <4> QED  BY <1>3, <3>1, <4>1
    <3>2. CASE e = g
      <4>1. y.call_stack # Null => y.call_stack \notin DOMAIN k
        BY <1>2, <3>2 DEF Exchanged, ExceptionOwn, CarriedOwn, y
      <4>2. Carried(y) = NoStack
        BY <1>4, <4>1 DEF Readables, Carried
      <4> QED  BY <1>1, <4>2, NoStackIsGood
    <3> QED  BY <3>1, <3>2
  <2> QED  BY <1>1, <1>4, <2>1, CopyOfExceptionIs DEF y
<1>5. CASE ~ Readables
  <2>1. e = g
    BY <1>1, <1>2, <1>3, <1>5, SurvivesIs DEF Readables
  <2> QED  BY <1>1, <1>5, <2>1, DangleIs
<1> QED  BY <1>4, <1>5

LEMMA TwoExceptionsIs ==
  ASSUME IInv, NEW e \in Exceptions, NEW x, NEW g \in Exceptions, NEW y,
         PutsTwo(exception, exception', e, x, g, y),
         HandOver("exception", heap, exception, e, x, g, y), UNCHANGED <<heap, frame, stack, dangling>>,
         Live(x), Live(y)
  PROVE  /\ IInv' /\ FramesKept /\ StacksKept
         /\ ExceptionViews' = Abstract!Set(Abstract!Set(ExceptionViews, g, Shown(heap, y)), e, Shown(heap, x))
<1>1. e \in DOMAIN exception /\ g \in DOMAIN exception /\ Indexed(frame, stack, exception)
      /\ Sound(heap, Is(frame, stack, exception))
  BY DEF IInv, Domains, Indexed
<1>2. Moved(heap, frame, stack, exception, heap, frame, stack, exception', {}, {}, {e, g})
  BY <1>1, ExceptionsMoved
<1>3. Moves({}, {}, {e, g})
  BY <1>2 DEF Moves
<1>4. IInv' /\ FramesKept /\ StacksKept
  BY <1>3, MovesKeep, MovesShow
<1>5. KeptAs("exception", heap, exception, heap, exception', {e, g}) /\ exception'[e] = x /\ exception'[g] = y
  BY <1>2 DEF Moved, PutsTwo
<1>6. ViewsOf("exception", heap, exception') =
        Abstract!Set(Abstract!Set(ViewsOf("exception", heap, exception), g,
                                  ViewAs("exception", heap, exception'[g])),
                     e, ViewAs("exception", heap, exception'[e]))
  <2> DEFINE now == exception'
  <2>1. KeptAs("exception", heap, exception, heap, now, {e, g}) /\ Live(now[e]) /\ Live(now[g])
    BY <1>5
  <2> HIDE DEF now
  <2>2. ViewsOf("exception", heap, now) =
          Abstract!Set(Abstract!Set(ViewsOf("exception", heap, exception), g,
                                    ViewAs("exception", heap, now[g])),
                       e, ViewAs("exception", heap, now[e]))
    BY <1>1, <2>1, ViewsTwo
  <2> QED  BY <2>2 DEF now
<1>7. heap' = heap
  OBVIOUS
<1> QED  BY <1>4, <1>5, <1>6, <1>7, ViewsAre, ViewsAreNext DEF ViewAs

LEMMA TakeExceptionIs ==
  ASSUME IInv, NEW e \in Exceptions, NEW g \in Exceptions, TakeException(e, g)
  PROVE  Agrees
<1>1. /\ ~ Live(exception[e]) /\ Live(exception[g]) /\ e # g /\ DOMAIN exception = Exceptions
      /\ exception' = [exception EXCEPT ![e] = exception[g], ![g] = NoException]
      /\ UNCHANGED <<heap, frame, stack, dangling>>
  BY DEF TakeException, IInv, Domains
<1>2. PutsTwo(exception, exception', e, exception[g], g, NoException)
  BY <1>1 DEF PutsTwo
<1>3. /\ GoodException(heap, NoException) /\ ExceptionOwn(heap, NoException) = {} /\ Live(NoException)
      /\ Shown(heap, NoException) = [texts |-> [i \in 1..5 |-> None], signal |-> 0, call_stack |-> <<>>]
  BY IInvIs, NoExceptionIsGood, ExceptionIs DEF Live
<1>4. HandOver("exception", heap, exception, e, exception[g], g, NoException)
  BY <1>1, <1>3, IInvIs DEF HandOver, OwnAs, GoodAs
<1>5. /\ IInv' /\ FramesKept /\ StacksKept
      /\ ExceptionViews' = Abstract!Set(Abstract!Set(ExceptionViews, g, Shown(heap, NoException)),
                                        e, Shown(heap, exception[g]))
  <2>1. UNCHANGED <<heap, frame, stack, dangling>> /\ Live(exception[g])
    BY <1>1
  <2> QED  BY <1>2, <1>3, <1>4, <2>1, TwoExceptionsIs
<1>6. /\ g \in DOMAIN ExceptionViews /\ ExceptionViews[g] = Shown(heap, exception[g])
      /\ Shown(heap, NoException) = Abstract!Blank(g)
  <2>1. /\ g \in DOMAIN ExceptionViews /\ ExceptionViews[g] = Shown(heap, exception[g])
        /\ Words(heap, exception[g].texts) \in Wording(5)
    BY <1>1, ExceptionShown
  <2>2. DOMAIN ExceptionViews[g].texts = 1..5
    BY <2>1 DEF Shown, Wording
  <2> QED  BY <1>3, <2>1, <2>2 DEF Abstract!Blank, Abstract!Nothing
<1>7. Abstract!ChangeException(e)
  BY <1>5, <1>6 DEF Abstract!ChangeException
<1> QED  BY <1>5, <1>7, ChangeExceptionIs DEF Agrees

LEMMA SwapExceptionsIs ==
  ASSUME IInv, NEW e \in Exceptions, NEW g \in Exceptions, SwapExceptions(e, g)
  PROVE  Agrees
<1>1. /\ Live(exception[e]) /\ Live(exception[g]) /\ DOMAIN exception = Exceptions
      /\ exception' = [exception EXCEPT ![e] = exception[g], ![g] = exception[e]]
      /\ UNCHANGED <<heap, frame, stack, dangling>>
  BY DEF SwapExceptions, IInv, Domains
<1>2. PutsTwo(exception, exception', e, exception[g], g, exception[e])
  BY <1>1 DEF PutsTwo
<1>3. HandOver("exception", heap, exception, e, exception[g], g, exception[e])
  <2>1. GoodAs("exception", heap, exception[g]) /\ GoodAs("exception", heap, exception[e])
    BY IInvIs DEF GoodAs
  <2>2. e # g => OwnAs("exception", heap, exception[g]) \intersect OwnAs("exception", heap, exception[e]) = {}
    BY ExceptionsOwnApart
  <2> QED  BY <2>1, <2>2 DEF HandOver
<1>4. /\ IInv' /\ FramesKept /\ StacksKept
      /\ ExceptionViews' = Abstract!Set(Abstract!Set(ExceptionViews, g, Shown(heap, exception[e])),
                                        e, Shown(heap, exception[g]))
  <2>1. UNCHANGED <<heap, frame, stack, dangling>> /\ Live(exception[e]) /\ Live(exception[g])
    BY <1>1
  <2> QED  BY <1>2, <1>3, <2>1, TwoExceptionsIs
<1>5. /\ e \in DOMAIN ExceptionViews /\ g \in DOMAIN ExceptionViews /\ IsFun(ExceptionViews)
      /\ ExceptionViews[g] = Shown(heap, exception[g]) /\ ExceptionViews[e] = Shown(heap, exception[e])
  BY <1>1, ExceptionShown
<1>6. ExceptionViews' = [ExceptionViews EXCEPT ![e] = ExceptionViews[g], ![g] = ExceptionViews[e]]
  <2>1. ExceptionViews' = Abstract!Set(Abstract!Set(ExceptionViews, g, ExceptionViews[e]), e, ExceptionViews[g])
    BY <1>4, <1>5
  <2> QED  BY <1>5, <2>1, SwapIs
<1>7. Abstract!ChangeException(e)
  BY <1>5, <1>6 DEF Abstract!ChangeException
<1> QED  BY <1>4, <1>7, ChangeExceptionIs DEF Agrees

LEMMA DropExceptionIs ==
  ASSUME IInv, NEW e \in Exceptions, DropException(e)
  PROVE  Agrees
<1>1. /\ Live(exception[e]) /\ exception' = [exception EXCEPT ![e] = Absent] /\ e \in DOMAIN exception
      /\ heap' = ClearException(heap, exception[e])
      /\ UNCHANGED <<frame, stack, dangling>> /\ DOMAIN heap \subseteq Blocks
      /\ GoodException(heap, exception[e])
  BY IInvIs DEF DropException, IInv, Domains
<1>2. Puts(exception, exception', e, Absent)
  BY <1>1 DEF Puts
<1>3. Exchanged(heap, heap', ExceptionOwn(heap, exception[e]), {})
  BY <1>1, ClearExceptionIs
<1>4. ~ Live(Absent)
  BY DEF Live
<1>5. OneException(e, Absent)
  BY <1>1, <1>2, <1>3, <1>4 DEF OneException, OwnAs, GoodAs
<1>6. IInv' /\ FramesKept /\ StacksKept /\ ExceptionViews' = Abstract!Without(ExceptionViews, e)
  BY <1>4, <1>5, OneExceptionIs
<1>7. Abstract!ChangeException(e)
  BY <1>6 DEF Abstract!ChangeException
<1> QED  BY <1>6, <1>7, ChangeExceptionIs DEF Agrees

LEMMA ExceptionStepIs ==
  ASSUME IInv, ExceptionStep
  PROVE  Agrees
<1>1. PICK e \in Exceptions :
        \/ \E a \in ExceptionArgs, sig \in Signals,
              v \in {NoStack} \union {stack[s] : s \in {t \in Stacks : Live(stack[t])}} :
             NewException(e, a, sig, v)
        \/ \E g \in Exceptions : \/ CopyException(e, g) \/ TakeException(e, g)
                                \/ AssignException(e, g) \/ SwapExceptions(e, g)
        \/ DropException(e)
  BY DEF ExceptionStep
<1>2. CASE \E a \in ExceptionArgs, sig \in Signals,
              v \in {NoStack} \union {stack[s] : s \in {t \in Stacks : Live(stack[t])}} :
             NewException(e, a, sig, v)
  BY <1>2, NewExceptionIs
<1> QED  BY <1>1, <1>2, CopyExceptionIs, TakeExceptionIs, AssignExceptionIs, SwapExceptionsIs, DropExceptionIs

-----------------------------------------------------------------------------
(* The inductive invariant *)

LEMMA InitIs ==
  ASSUME Init
  PROVE  IInv /\ Abstract!Init
<1>1. Domains /\ OnlySelfDangles
  BY DEF Init, Domains, OnlySelfDangles
<1> DEFINE is == Is(frame, stack, exception)
<1>2. \A t \in Things : ~ Live(is[t])
  <2>1. /\ \A f \in Frames : is[<<"frame", f>>] = Absent
        /\ \A s \in Stacks : is[<<"stack", s>>] = Absent
        /\ \A e \in Exceptions : is[<<"exception", e>>] = Absent
    BY IsOf DEF Init
  <2> HIDE DEF is
  <2> QED  BY <2>1 DEF Things, Live
<1>3. DOMAIN heap = {}
  BY DEF Init
<1> HIDE DEF is
<1>4. Sound(heap, is)
  BY <1>2, <1>3 DEF Sound, Own, OwnAs, GoodAs
<1>5. /\ Alive(frame) = {} /\ Alive(stack) = {} /\ Alive(exception) = {}
  BY DEF Init, Alive, Live
<1>6. FrameViews = <<>> /\ StackViews = <<>> /\ ExceptionViews = <<>>
  BY <1>5 DEF FrameViews, StackViews, ExceptionViews
<1> QED  BY <1>1, <1>4, <1>6 DEF IInv, is, Abstract!Init

AbstractVars == <<FrameViews, StackViews, ExceptionViews>>

LEMMA StepIs ==
  ASSUME IInv, [Next]_vars
  PROVE  IInv' /\ [Abstract!Next]_AbstractVars
<1>1. CASE UNCHANGED vars
  <2>1. UNCHANGED <<heap, frame, stack, exception, dangling>>
    BY <1>1 DEF vars
  <2>2. Is(frame, stack, exception)' = Is(frame, stack, exception)
    BY <2>1 DEF Is
  <2>3. IInv'
    <3>1. Sound(heap, Is(frame, stack, exception))' /\ Domains'
      BY <2>1, <2>2 DEF IInv, Domains, Sound, Own, OwnAs, GoodAs, Things
    <3>2. OnlySelfDangles'
      BY <2>1 DEF IInv, OnlySelfDangles
    <3> QED  BY <3>1, <3>2 DEF IInv
  <2>4. UNCHANGED AbstractVars
    BY <2>1, ViewsAre, ViewsAreNext DEF AbstractVars
  <2> QED  BY <2>3, <2>4
<1>2. CASE dangling = <<>> /\ (FrameStep \/ StackStep \/ ExceptionStep)
  <2>1. Agrees
    BY <1>2, FrameStepIs, StackStepIs, ExceptionStepIs
  <2> QED  BY <2>1 DEF Agrees, AbstractVars
<1> QED  BY <1>1, <1>2 DEF Next, Stop

\* In every reachable state each object is good, owns its blocks alone, and every
\* block of the heap has an owner; only an object that is its own source dangles.
THEOREM IInvHolds == Spec => []IInv
<1>1. Init => IInv
  BY InitIs
<1>2. IInv /\ [Next]_vars => IInv'
  BY StepIs
<1> QED  BY <1>1, <1>2, PTL DEF Spec

\* Whatever is copied, moved, assigned, pushed or destroyed, frames and exceptions
\* behave as the values of ExceptionValues.tla.
THEOREM ExceptionsAreValues == Spec => ImplementsExceptionValues
<1>1. Init => Abstract!Init
  BY InitIs
<1>2. IInv /\ [Next]_vars => [Abstract!Next]_AbstractVars
  BY StepIs
<1>3. AbstractVars = Abstract!vars
  BY DEF AbstractVars, Abstract!vars
<1> QED  BY <1>1, <1>2, <1>3, IInvHolds, PTL DEF Spec, ImplementsExceptionValues, Abstract!Spec, AbstractVars, Abstract!vars

-----------------------------------------------------------------------------
(* The properties of Exceptions.tla *)

\* Whatever the steps before, only an object that is its own source reads what it
\* has deleted (OnlySelfDangles).
THEOREM OnlySelfDanglesHolds == Spec => []OnlySelfDangles
<1>1. IInv => OnlySelfDangles
  BY DEF IInv
<1> QED  BY <1>1, IInvHolds, PTL

\* A block and what it is, by the thing that owns it.
LEMMA BlocksAre ==
  ASSUME IInv, NEW b \in DOMAIN heap
  PROVE  /\ IF IsVector(heap[b]) THEN heap[b] \in Vectors ELSE IsBuffer(heap[b])
         /\ IsVector(heap[b]) =>
              \E e \in Exceptions : /\ Live(exception[e]) /\ exception[e].call_stack = b
                                    /\ exception[e].call_stack # Null
<1> DEFINE is == Is(frame, stack, exception)
<1>1. Sound(heap, is) /\ DOMAIN heap \subseteq Blocks
  BY DEF IInv, Sound
<1>2. PICK t \in Things : b \in Own(heap, is, t)
  BY <1>1 DEF Sound
<1> HIDE DEF is
<1>3. CASE t \in {<<"frame", f>> : f \in Frames}
  <2>1. PICK f \in Frames : t = <<"frame", f>>
    BY <1>3
  <2>2. is[t] = frame[f] /\ t[1] = "frame"
    BY <2>1, IsOf DEF is
  <2>3. Live(frame[f]) /\ b \in TextOwn(frame[f])
    BY <1>2, <2>2 DEF Own, OwnAs
  <2>4. Good(heap, frame[f], 3)
    BY <2>3, IInvIs
  <2> QED  BY <1>1, <2>3, <2>4, GoodIs DEF TextOwn
<1>4. CASE t \in {<<"stack", s>> : s \in Stacks}
  <2>1. PICK s \in Stacks : t = <<"stack", s>>
    BY <1>4
  <2>2. is[t] = stack[s] /\ t[1] = "stack"
    BY <2>1, IsOf DEF is
  <2>3. Live(stack[s]) /\ b \in CellsOwn(stack[s].cells)
    BY <1>2, <2>2 DEF Own, OwnAs
  <2>4. GoodCells(heap, stack[s].cells)
    BY <2>3, IInvIs DEF GoodVector
  <2> QED  BY <1>1, <2>3, <2>4, CellsAre
<1>5. CASE t \in {<<"exception", e>> : e \in Exceptions}
  <2>1. PICK e \in Exceptions : t = <<"exception", e>>
    BY <1>5
  <2> DEFINE x == exception[e]
  <2>2. is[t] = x /\ t[1] = "exception"
    BY <2>1, IsOf DEF is
  <2>3. Live(x) /\ b \in ExceptionOwn(heap, x)
    BY <1>2, <2>2 DEF Own, OwnAs
  <2>4. GoodException(heap, x)
    BY <2>3, IInvIs
  <2>5. CASE b \in TextOwn(x.texts)
    <3>1. Good(heap, x.texts, 5)
      BY <2>4 DEF GoodException
    <3> QED  BY <1>1, <2>5, <3>1, GoodIs DEF TextOwn
  <2>6. CASE b \in CarriedOwn(heap, x)
    <3> DEFINE v == heap[x.call_stack]
    <3>1. x.call_stack # Null /\ GoodVector(heap, v) /\ GoodCells(heap, v.cells)
      BY <2>4, <2>6 DEF CarriedOwn, GoodException, GoodVector
    <3>2. CASE b = x.call_stack
      <4>1. heap[b] \in Vectors /\ IsVector(heap[b])
        BY <1>1, <3>1, <3>2, VectorIs
      <4> QED  BY <2>3, <3>1, <3>2, <4>1
    <3>3. CASE b \in CellsOwn(v.cells)
      BY <1>1, <3>1, <3>3, CellsAre
    <3> QED  BY <2>6, <3>1, <3>2, <3>3 DEF CarriedOwn
  <2> QED  BY <2>3, <2>5, <2>6 DEF ExceptionOwn
<1> QED  BY <1>3, <1>4, <1>5 DEF Things

LEMMA IInvTypes ==
  ASSUME IInv
  PROVE  TypeOK
<1>1. DOMAIN heap \subseteq Blocks
  BY IInvIs
<1>2. \A f \in Frames : frame[f] \in Texts(3) \union {Absent}
  BY <1>1, IInvIs, GoodIs DEF Live
<1>3. \A s \in Stacks : stack[s] \in Vectors \union {Absent}
  BY <1>1, IInvIs, VectorIs DEF Live
<1>4. ASSUME NEW e \in Exceptions, Live(exception[e])
      PROVE  /\ exception[e].texts \in Texts(5)
             /\ exception[e].signal \in 0..(2^16 - 1)
             /\ exception[e].call_stack \in Blocks \union {Null}
  <2>1. GoodException(heap, exception[e])
    BY <1>4, IInvIs
  <2>2. exception[e].texts \in Texts(5) /\ exception[e].call_stack \in Blocks \union {Null}
    BY <1>1, <2>1, ExceptionIs
  <2>3. exception[e].signal \in Word16
    BY <2>1 DEF GoodException
  <2> QED  BY <2>2, <2>3 DEF Word16
<1>5. \A b \in DOMAIN heap : IF IsVector(heap[b]) THEN heap[b] \in Vectors ELSE IsBuffer(heap[b])
  BY BlocksAre
<1> QED  BY <1>1, <1>2, <1>3, <1>4, <1>5 DEF TypeOK

\* The state keeps its types (TypeOK).
THEOREM TypeCorrect == Spec => []TypeOK
BY IInvTypes, IInvHolds, PTL

-----------------------------------------------------------------------------
(* The fields of an object in its buffer *)

FieldsLie(h, o) ==
  /\ h[o.buffer].size = o.buffer_total_size
  /\ \A i \in DOMAIN o.ptr : o.ptr[i] # Null =>
       /\ o.ptr[i] + Length[h[o.buffer].str[o.ptr[i]]] < h[o.buffer].size
       /\ \A j \in DOMAIN o.ptr :
            o.ptr[j] > o.ptr[i] => o.ptr[i] + Length[h[o.buffer].str[o.ptr[i]]] < o.ptr[j]
       /\ \A j \in DOMAIN o.ptr : o.ptr[j] = o.ptr[i] => j = i

LEMMA FieldsAre ==
  ASSUME NEW n \in Nat, NEW h, DOMAIN h \subseteq Blocks, NEW o, Good(h, o, n), o.buffer # Null
  PROVE  FieldsLie(h, o)
<1>1. PICK w \in Wording(n) : Shows(h, o, w)
  BY DEF Good
<1>2. /\ DOMAIN o.ptr = 1..n /\ h[o.buffer] = Buffer(w) /\ o.buffer_total_size = Total(w)
      /\ \A i \in 1..n : o.ptr[i] = Null <=> ~ Held(w, i)
      /\ \A i \in 1..n : Held(w, i) => o.ptr[i] = Offset(w, i)
  BY <1>1, ShownIs
<1>3. /\ Buffer(w).size = Total(w) /\ Total(w) \in Nat
      /\ \A i \in 1..n : Held(w, i) => /\ Buffer(w).str[Offset(w, i)] = w[i]
                                       /\ Length[w[i]] \in Nat /\ Offset(w, i) \in Nat
                                       /\ Offset(w, i) + Length[w[i]] < Total(w)
  BY BufferHolds, Layout, RoomsType
<1>4. ASSUME NEW i \in 1..n, o.ptr[i] # Null
      PROVE  /\ Held(w, i) /\ o.ptr[i] = Offset(w, i) /\ h[o.buffer].str[o.ptr[i]] = w[i]
             /\ Offset(w, i) \in Nat /\ Length[w[i]] \in Nat
  BY <1>2, <1>3, <1>4
<1>5. ASSUME NEW i \in 1..n, o.ptr[i] # Null, NEW j \in 1..n
      PROVE  /\ o.ptr[j] > o.ptr[i] => o.ptr[i] + Length[w[i]] < o.ptr[j]
             /\ o.ptr[j] = o.ptr[i] => j = i
  <2>1. CASE o.ptr[j] = Null
    BY <1>4, <1>5, <2>1 DEF Null
  <2>2. CASE o.ptr[j] # Null
    <3>1. /\ Held(w, i) /\ o.ptr[i] = Offset(w, i) /\ Offset(w, i) \in Nat /\ Length[w[i]] \in Nat
          /\ Held(w, j) /\ o.ptr[j] = Offset(w, j) /\ Offset(w, j) \in Nat /\ Length[w[j]] \in Nat
      BY <1>4, <1>5, <2>2
    <3>2. i < j => Offset(w, i) + Length[w[i]] < Offset(w, j)
      BY <3>1, Layout
    <3>3. j < i => Offset(w, j) + Length[w[j]] < Offset(w, i)
      BY <3>1, Layout
    <3> QED  BY <3>1, <3>2, <3>3
  <2> QED  BY <2>1, <2>2
<1> QED  BY <1>2, <1>3, <1>4, <1>5 DEF FieldsLie

LEMMA CellsAreGood ==
  ASSUME NEW h, NEW v, GoodVector(h, v), NEW o \in Cells(v)
  PROVE  Good(h, o, 3)
BY DEF GoodVector, GoodCells, Cells

LEMMA IInvFields ==
  ASSUME IInv
  PROVE  FieldsApart
<1> SUFFICES ASSUME NEW o \in AllTexts, o.buffer # Null PROVE FieldsLie(heap, o)
  BY DEF FieldsApart, FieldsLie
<1>1. DOMAIN heap \subseteq Blocks
  BY IInvIs
<1>2. Good(heap, o, 3) \/ Good(heap, o, 5)
  <2>0. o \in FrameTexts \/ o \in ExceptionTexts \/ o \in StackTexts \/ o \in HeapTexts
    BY DEF AllTexts
  <2>1. CASE o \in FrameTexts
    BY <2>1, IInvIs DEF FrameTexts, Alive, IInv, Domains
  <2>2. CASE o \in ExceptionTexts
    BY <2>2, IInvIs DEF ExceptionTexts, Alive, IInv, Domains, GoodException
  <2>3. CASE o \in StackTexts
    BY <2>3, IInvIs, CellsAreGood DEF StackTexts, Alive, IInv, Domains
  <2>4. CASE o \in HeapTexts
    <3>1. PICK b \in VectorBlocks : o \in Cells(heap[b])
      BY <2>4 DEF HeapTexts
    <3>2. PICK e \in Exceptions : /\ Live(exception[e]) /\ exception[e].call_stack = b
                                  /\ exception[e].call_stack # Null
      BY BlocksAre DEF VectorBlocks
    <3>3. GoodVector(heap, heap[b])
      BY <3>2, IInvIs DEF GoodException
    <3> QED  BY <3>1, <3>3, CellsAreGood
  <2> QED  BY <2>0, <2>1, <2>2, <2>3, <2>4
<1> QED  BY <1>1, <1>2, FieldsAre

\* The texts of every object lie apart in its buffer, each with its zero (FieldsApart).
THEOREM FieldsApartHolds == Spec => []FieldsApart
BY IInvFields, IInvHolds, PTL

-----------------------------------------------------------------------------
(* The owners of the blocks *)

\* The owners that a thing consists of: itself, and the cells of its vectors.
Belongs(t, o) ==
  IF t[1] = "frame" THEN Live(frame[t[2]]) /\ o = <<t, 0, frame[t[2]].buffer>>
  ELSE IF t[1] = "stack" THEN Live(stack[t[2]]) /\ o \in CellOwners(t, stack[t[2]])
  ELSE LET x == exception[t[2]] IN
         /\ Live(x)
         /\ \/ o = <<t, 0, x.texts.buffer>>
            \/ o = <<t, 1, x.call_stack>>
            \/ x.call_stack # Null /\ o \in CellOwners(<<"heap", x.call_stack>>, heap[x.call_stack])

LEMMA OwnersBelong ==
  ASSUME IInv, NEW o \in Owners
  PROVE  \E t \in Things : Belongs(t, o)
<1>0. o \in FrameOwners \/ o \in StackOwners \/ o \in BufferOwners \/ o \in VectorOwners \/ o \in HeapOwners
  BY DEF Owners
<1>5. /\ \A f \in Alive(frame) : f \in Frames /\ Live(frame[f])
      /\ \A s \in Alive(stack) : s \in Stacks /\ Live(stack[s])
      /\ \A e \in Alive(exception) : e \in Exceptions /\ Live(exception[e])
  BY DEF Alive, IInv, Domains
<1>1. CASE o \in FrameOwners
  <2>1. PICK f \in Alive(frame) : o = <<<<"frame", f>>, 0, frame[f].buffer>>
    BY <1>1 DEF FrameOwners
  <2> DEFINE t == <<"frame", f>>
  <2>2. t \in Things /\ t[1] = "frame" /\ t[2] = f
    BY <1>5 DEF Things
  <2> QED  BY <1>5, <2>1, <2>2 DEF Belongs
<1>2. CASE o \in StackOwners
  <2>1. PICK s \in Alive(stack) : o \in CellOwners(<<"stack", s>>, stack[s])
    BY <1>2 DEF StackOwners
  <2> DEFINE t == <<"stack", s>>
  <2>2. t \in Things /\ t[1] = "stack" /\ t[2] = s
    BY <1>5 DEF Things
  <2> QED  BY <1>5, <2>1, <2>2 DEF Belongs
<1>3. CASE o \in BufferOwners \/ o \in VectorOwners
  <2>1. PICK e \in Alive(exception) : \/ o = <<<<"exception", e>>, 0, exception[e].texts.buffer>>
                                      \/ o = <<<<"exception", e>>, 1, exception[e].call_stack>>
    BY <1>3 DEF BufferOwners, VectorOwners
  <2> DEFINE t == <<"exception", e>>
  <2>2. t \in Things /\ t[1] = "exception" /\ t[2] = e
    BY <1>5 DEF Things
  <2> QED  BY <1>5, <2>1, <2>2 DEF Belongs
<1>4. CASE o \in HeapOwners
  <2>1. PICK b \in VectorBlocks : o \in CellOwners(<<"heap", b>>, heap[b])
    BY <1>4 DEF HeapOwners
  <2>2. PICK e \in Exceptions : /\ Live(exception[e]) /\ exception[e].call_stack = b
                                /\ exception[e].call_stack # Null
    BY BlocksAre DEF VectorBlocks
  <2> DEFINE t == <<"exception", e>>
  <2>3. t \in Things /\ t[1] = "exception" /\ t[2] = e
    BY DEF Things
  <2> QED  BY <2>1, <2>2, <2>3 DEF Belongs
<1> QED  BY <1>0, <1>1, <1>2, <1>3, <1>4

\* The owners of cells, by block.
CellsOwned(name, v) ==
  /\ \A o \in CellOwners(name, v) : o[3] # Null => o[3] \in CellsOwn(v.cells)
  /\ \A o, p \in CellOwners(name, v) : o[3] = p[3] /\ o[3] # Null => o = p
  /\ \A b \in CellsOwn(v.cells) : \E o \in CellOwners(name, v) : o[3] = b

LEMMA CellOwnersAre ==
  ASSUME NEW h, NEW v, GoodVector(h, v), NEW name
  PROVE  CellsOwned(name, v)
<1>1. /\ DOMAIN v.cells = 1..Len(v.cells)
      /\ \A i, j \in 1..Len(v.cells) : v.cells[i].buffer = v.cells[j].buffer /\ v.cells[i].buffer # Null => i = j
  BY DEF GoodVector, GoodCells
<1>2. \A o \in CellOwners(name, v) : o[3] # Null => o[3] \in CellsOwn(v.cells)
  BY DEF CellOwners, CellsOwn
<1>3. ASSUME NEW o \in CellOwners(name, v), NEW p \in CellOwners(name, v), o[3] = p[3], o[3] # Null
      PROVE  o = p
  <2>1. PICK i \in DOMAIN v.cells : o = <<name, i, v.cells[i].buffer>>
    BY DEF CellOwners
  <2>2. PICK j \in DOMAIN v.cells : p = <<name, j, v.cells[j].buffer>>
    BY DEF CellOwners
  <2>3. i = j
    BY <1>1, <1>3, <2>1, <2>2
  <2> QED  BY <2>1, <2>2, <2>3
<1>4. ASSUME NEW b \in CellsOwn(v.cells) PROVE \E o \in CellOwners(name, v) : o[3] = b
  <2>1. PICK i \in DOMAIN v.cells : b = v.cells[i].buffer
    BY DEF CellsOwn
  <2> DEFINE o == <<name, i, v.cells[i].buffer>>
  <2>2. o \in CellOwners(name, v) /\ o[3] = b
    BY <2>1 DEF CellOwners
  <2> QED  BY <2>2
<1> QED  BY <1>2, <1>3, <1>4 DEF CellsOwned

\* Whether the owners of a thing are right: each owns a block of the thing, no two the same,
\* and all of its blocks.
Owned(t) ==
  /\ \A o : Belongs(t, o) /\ o[3] # Null => o[3] \in Own(heap, Is(frame, stack, exception), t)
  /\ \A o, p : Belongs(t, o) /\ Belongs(t, p) /\ o[3] = p[3] /\ o[3] # Null => o = p
  /\ \A b \in Own(heap, Is(frame, stack, exception), t) : \E o \in Owners : o[3] = b

LEMMA FrameOwned ==
  ASSUME IInv, NEW f \in Frames
  PROVE  Owned(<<"frame", f>>)
<1> DEFINE t == <<"frame", f>>
<1>1. t[1] = "frame" /\ t[2] = f /\ Is(frame, stack, exception)[t] = frame[f]
      /\ (Live(frame[f]) => f \in Alive(frame))
  BY IsOf DEF IInv, Domains, Alive
<1> DEFINE mine == <<t, 0, frame[f].buffer>>
<1>2. mine[3] = frame[f].buffer /\ (Live(frame[f]) => mine \in Owners)
  BY <1>1 DEF Owners, FrameOwners
<1> HIDE DEF t
<1>3. Own(heap, Is(frame, stack, exception), t) = IF Live(frame[f]) THEN TextOwn(frame[f]) ELSE {}
  BY <1>1 DEF Own, OwnAs
<1>4. \A o : Belongs(t, o) <=> Live(frame[f]) /\ o = <<t, 0, frame[f].buffer>>
  BY <1>1 DEF Belongs
<1>5. Owned(t)
  <2>1. Live(frame[f]) => \E p \in Owners : p[3] = frame[f].buffer
    BY <1>2
  <2> HIDE DEF mine
  <2> QED  BY <1>2, <1>3, <1>4, <2>1 DEF Owned, TextOwn
<1> QED  BY <1>5 DEF t

LEMMA StackOwned ==
  ASSUME IInv, NEW s \in Stacks
  PROVE  Owned(<<"stack", s>>)
<1> DEFINE t == <<"stack", s>>
<1>1. t[1] = "stack" /\ t[2] = s /\ Is(frame, stack, exception)[t] = stack[s]
      /\ (Live(stack[s]) => s \in Alive(stack))
  BY IsOf DEF IInv, Domains, Alive
<1>2. Live(stack[s]) => CellOwners(t, stack[s]) \subseteq Owners
  BY <1>1 DEF Owners, StackOwners
<1> HIDE DEF t
<1>3. Own(heap, Is(frame, stack, exception), t) = IF Live(stack[s]) THEN CellsOwn(stack[s].cells) ELSE {}
  BY <1>1 DEF Own, OwnAs
<1>4. \A o : Belongs(t, o) <=> Live(stack[s]) /\ o \in CellOwners(t, stack[s])
  BY <1>1 DEF Belongs
<1>5. Live(stack[s]) => GoodVector(heap, stack[s])
  BY IInvIs
<1>6. Live(stack[s]) => CellsOwned(t, stack[s])
  BY <1>5, CellOwnersAre
<1>7. Owned(t)
  BY <1>2, <1>3, <1>4, <1>6 DEF Owned, CellsOwned
<1> QED  BY <1>7 DEF t

LEMMA ExceptionOwned ==
  ASSUME IInv, NEW e \in Exceptions
  PROVE  Owned(<<"exception", e>>)
<1> DEFINE t == <<"exception", e>>
           x == exception[e]
           v == heap[x.call_stack]
           c == <<"heap", x.call_stack>>
<1>1. t[1] = "exception" /\ t[2] = e /\ Is(frame, stack, exception)[t] = x
      /\ (Live(x) => e \in Alive(exception)) /\ DOMAIN heap \subseteq Blocks /\ c # t
  BY IsOf, IInvIs DEF IInv, Domains, Alive
<1>2. Live(x) => GoodException(heap, x)
  BY IInvIs
<1>3. Live(x) => TextOwn(x.texts) \intersect CarriedOwn(heap, x) = {}
  BY <1>1, <1>2, ExceptionIs
<1>4. Live(x) /\ x.call_stack # Null =>
        /\ x.call_stack \in VectorBlocks /\ x.call_stack \notin CellsOwn(v.cells)
        /\ x.call_stack \notin TextOwn(x.texts) /\ GoodVector(heap, v)
        /\ TextOwn(x.texts) \intersect CellsOwn(v.cells) = {}
  BY <1>1, <1>2, ExceptionIs DEF VectorBlocks, GoodException
<1>5. Live(x) /\ x.call_stack # Null => CellsOwned(c, v)
  <2>1. Live(x) /\ x.call_stack # Null => GoodVector(heap, v)
    BY <1>4
  <2> HIDE DEF v, c, x
  <2> QED  BY <2>1, CellOwnersAre
<1>6. Live(x) => /\ <<t, 0, x.texts.buffer>> \in Owners /\ <<t, 1, x.call_stack>> \in Owners
                 /\ x.call_stack # Null => CellOwners(c, v) \subseteq Owners
  <2>1. Live(x) => <<t, 0, x.texts.buffer>> \in BufferOwners
    BY <1>1 DEF BufferOwners
  <2>2. Live(x) => <<t, 1, x.call_stack>> \in VectorOwners
    BY <1>1 DEF VectorOwners
  <2>3. Live(x) /\ x.call_stack # Null => CellOwners(c, v) \subseteq HeapOwners
    BY <1>4 DEF HeapOwners
  <2> QED  BY <2>1, <2>2, <2>3 DEF Owners
<1> DEFINE AsBuffer(o) == o = <<t, 0, x.texts.buffer>>
           AsVector(o) == o = <<t, 1, x.call_stack>>
           AsCell(o) == x.call_stack # Null /\ o \in CellOwners(c, v)
<1>7. \A o : Belongs(t, o) <=> Live(x) /\ (AsBuffer(o) \/ AsVector(o) \/ AsCell(o))
  BY <1>1 DEF Belongs
<1>8. Own(heap, Is(frame, stack, exception), t) = IF Live(x) THEN ExceptionOwn(heap, x) ELSE {}
  BY <1>1 DEF Own, OwnAs
<1> HIDE DEF t, c, v, x
<1>9. ASSUME NEW o, Belongs(t, o), o[3] # Null
      PROVE  /\ o[3] \in ExceptionOwn(heap, x)
             /\ AsBuffer(o) => o[3] \in TextOwn(x.texts)
             /\ AsVector(o) => o[3] = x.call_stack
             /\ AsCell(o) => o[3] \in CellsOwn(v.cells) /\ x.call_stack # Null
  <2>1. AsBuffer(o) => o[3] \in TextOwn(x.texts)
    BY <1>9 DEF TextOwn
  <2>2. AsVector(o) => o[3] = x.call_stack /\ x.call_stack # Null
    BY <1>9
  <2>3. AsCell(o) => o[3] \in CellsOwn(v.cells) /\ x.call_stack # Null
    BY <1>5, <1>7, <1>9 DEF CellsOwned
  <2>4. x.call_stack # Null => CarriedOwn(heap, x) = {x.call_stack} \union CellsOwn(v.cells)
    BY DEF CarriedOwn, v
  <2> QED  BY <1>7, <1>9, <2>1, <2>2, <2>3, <2>4 DEF ExceptionOwn
<1>10. ASSUME NEW o, NEW p, Belongs(t, o), Belongs(t, p), o[3] = p[3], o[3] # Null
       PROVE  o = p
  <2>1. Live(x)
    BY <1>7, <1>10
  <2>2. CASE AsBuffer(o) /\ AsBuffer(p)
    BY <2>2
  <2>3. CASE AsVector(o) /\ AsVector(p)
    BY <2>3
  <2>4. CASE AsCell(o) /\ AsCell(p)
    BY <1>5, <1>10, <2>1, <2>4 DEF CellsOwned
  <2>5. ~ (AsBuffer(o) /\ AsVector(p)) /\ ~ (AsVector(o) /\ AsBuffer(p))
    BY <1>4, <1>9, <1>10, <2>1
  <2>6. ~ (AsBuffer(o) /\ AsCell(p)) /\ ~ (AsCell(o) /\ AsBuffer(p))
    BY <1>4, <1>9, <1>10, <2>1
  <2>7. ~ (AsVector(o) /\ AsCell(p)) /\ ~ (AsCell(o) /\ AsVector(p))
    BY <1>4, <1>9, <1>10, <2>1
  <2> HIDE DEF AsBuffer, AsVector, AsCell
  <2> QED  BY <1>7, <1>10, <2>2, <2>3, <2>4, <2>5, <2>6, <2>7
<1>11. ASSUME Live(x), NEW b \in ExceptionOwn(heap, x) PROVE \E o \in Owners : o[3] = b
  <2>1. CASE b \in TextOwn(x.texts)
    BY <1>6, <1>11, <2>1 DEF TextOwn
  <2>2. CASE x.call_stack # Null /\ b = x.call_stack
    BY <1>6, <1>11, <2>2
  <2>3. CASE x.call_stack # Null /\ b \in CellsOwn(v.cells)
    BY <1>5, <1>6, <1>11, <2>3 DEF CellsOwned
  <2> QED  BY <1>11, <2>1, <2>2, <2>3 DEF ExceptionOwn, CarriedOwn, v
<1>12. Owned(t)
  BY <1>7, <1>8, <1>9, <1>10, <1>11 DEF Owned
<1> QED  BY <1>12 DEF t

LEMMA ThingsOwned ==
  ASSUME IInv, NEW t \in Things
  PROVE  Owned(t)
BY FrameOwned, StackOwned, ExceptionOwned DEF Things

LEMMA IInvOwns ==
  ASSUME IInv
  PROVE  OwnTexts
<1> DEFINE is == Is(frame, stack, exception)
<1>1. /\ Sound(heap, is) /\ DOMAIN heap \subseteq Blocks /\ Null \notin Blocks
  BY Assumed DEF IInv, Sound
<1> HIDE DEF is
<1>2. ASSUME NEW o \in Owners, o[3] # Null PROVE o[3] \in DOMAIN heap
  <2>1. PICK t \in Things : Belongs(t, o)
    BY OwnersBelong
  <2>2. o[3] \in Own(heap, is, t)
    BY <1>2, <2>1, ThingsOwned DEF Owned, is
  <2>3. GoodAs(t[1], heap, is[t])
    BY <1>1 DEF Sound
  <2>4. Own(heap, is, t) \subseteq DOMAIN heap
    BY <1>1, <2>3, OwnIs DEF Own
  <2> QED  BY <2>2, <2>4
<1>3. ASSUME NEW b \in DOMAIN heap PROVE Cardinality({o \in Owners : o[3] = b}) = 1
  <2>1. PICK t \in Things : b \in Own(heap, is, t)
    BY <1>1 DEF Sound
  <2>2. PICK o \in Owners : o[3] = b
    BY <2>1, ThingsOwned DEF Owned, is
  <2>3. ASSUME NEW p \in Owners, p[3] = b PROVE p = o
    <3>1. PICK u \in Things : Belongs(u, o)
      BY OwnersBelong
    <3>2. PICK q \in Things : Belongs(q, p)
      BY OwnersBelong
    <3>3. b # Null
      BY <1>1
    <3>4. b \in Own(heap, is, u) /\ b \in Own(heap, is, q)
      BY <2>2, <2>3, <3>1, <3>2, <3>3, ThingsOwned DEF Owned, is
    <3>5. u = q
      BY <1>1, <3>4 DEF Sound
    <3> QED  BY <2>2, <2>3, <3>1, <3>2, <3>3, <3>5, ThingsOwned DEF Owned
  <2>4. {p \in Owners : p[3] = b} = {o}
    BY <2>2, <2>3
  <2> QED  BY <2>4, FS_Singleton
<1> QED  BY <1>2, <1>3 DEF OwnTexts

\* Every buffer and every vector on the heap has exactly one owner, and nobody owns
\* a deleted one (OwnTexts).
THEOREM TextsAreOwned == Spec => []OwnTexts
BY IInvOwns, IInvHolds, PTL

=============================================================================
