---------------------------- MODULE VectorProofs ----------------------------
(***************************************************************************)
(* Theorems about Vector, for every number of vectors, every size and      *)
(* every set of calls.                                                     *)
(*                                                                         *)
(* The invariant has two parts.  Owned: blocks and vectors match one to    *)
(* one, so that there are fewer blocks than names for them and new finds   *)
(* one.  Roomy: what a vector says of its capacity is true, unless the     *)
(* program overran a buffer.  A call changes one vector in one of four     *)
(* ways (a new buffer, the old one, an exchange, none), and each way has   *)
(* its lemma.  That erase() finds a power of two, and not a large one, is   *)
(* induction: it is proved by a smallest counterexample.                   *)
(*                                                                         *)
(* Last, that a program of lists sees sequences: without a size given to a *)
(* constructor or to resize(), every call is a step of VectorValues.       *)
(***************************************************************************)
EXTENDS Vector, SequenceTheorems, FiniteSetTheorems, WellFoundedInduction, TLAPS

-----------------------------------------------------------------------------
(* Powers of two, counted as sets of subsets *)

\* Induction: a property of all numbers has no smallest counterexample.
LEMMA Minimum ==
  ASSUME NEW T \in SUBSET Nat, T # {}
  PROVE  \E x \in T : \A y \in T : x <= y
<1>1. IsWellFoundedOn(OpToRel(<, Nat), Nat)
  BY NatLessThanWellFounded
<1>2. PICK x \in T : \A y \in T : ~ (<<y, x>> \in OpToRel(<, Nat))
  BY <1>1, WFMin
<1>3. ASSUME NEW y \in T, y < x PROVE FALSE
  <2> DEFINE p == <<y, x>>
  <2>1. p \in Nat \X Nat /\ p[1] = y /\ p[2] = x
    OBVIOUS
  <2> HIDE DEF p
  <2>2. p \in OpToRel(<, Nat)
    BY <1>3, <2>1 DEF OpToRel
  <2> QED  BY <1>2, <2>2 DEF p
<1>4. \A y \in T : x \in Nat /\ y \in Nat
  OBVIOUS
<1> QED  BY <1>3, <1>4

LEMMA PowerIsNat == ASSUME NEW i \in Nat PROVE 2^i \in Nat
<1>1. IsFiniteSet(1..i) /\ Cardinality(1..i) = i
  BY FS_Interval
<1>2. IsFiniteSet(SUBSET (1..i)) /\ Cardinality(SUBSET (1..i)) = 2^i
  BY <1>1, FS_SUBSET
<1> QED  BY <1>2, FS_CardinalityType

LEMMA Doubling == ASSUME NEW i \in Nat PROVE 2^(i + 1) = 2^i + 2^i
<1> DEFINE A == 1..i  x == i + 1  B == 1..(i + 1)
           P == SUBSET A  Q == {C \union {x} : C \in P}
<1>1. IsFiniteSet(A) /\ Cardinality(A) = i /\ IsFiniteSet(B) /\ Cardinality(B) = i + 1
  BY FS_Interval
<1>2. /\ IsFiniteSet(P) /\ Cardinality(P) = 2^i
      /\ IsFiniteSet(SUBSET B) /\ Cardinality(SUBSET B) = 2^(i + 1)
  BY <1>1, FS_SUBSET
<1>3. B = A \union {x} /\ x \notin A
  OBVIOUS
<1> HIDE DEF A, x, B
<1>4. IsFiniteSet(Q) /\ Cardinality(Q) = Cardinality(P)
  <2> DEFINE f == [C \in P |-> C \union {x}]
  <2>1. f \in Bijection(P, Q)
    <3>1. f \in [P -> Q]
      OBVIOUS
    <3>2. ASSUME NEW C \in P, NEW D \in P, f[C] = f[D] PROVE C = D
      <4>1. C \union {x} = D \union {x} /\ x \notin C /\ x \notin D
        BY <1>3, <3>2
      <4> QED  BY <4>1
    <3>3. \A q \in Q : \E C \in P : f[C] = q
      OBVIOUS
    <3> QED  BY <3>1, <3>2, <3>3 DEF Bijection, Injection, Surjection, IsInjective
  <2> QED  BY <1>2, <2>1, FS_Bijection DEF ExistsBijection
<1>5. SUBSET B = P \union Q
  <2>1. ASSUME NEW C \in SUBSET B PROVE C \in P \union Q
    <3>1. CASE x \notin C
      BY <1>3, <3>1
    <3>2. CASE x \in C
      <4>1. C \ {x} \in P /\ C = (C \ {x}) \union {x}
        BY <1>3, <3>2
      <4> QED  BY <4>1
    <3> QED  BY <3>1, <3>2
  <2>2. \A C \in P : C \in SUBSET B /\ C \union {x} \in SUBSET B
    BY <1>3
  <2> QED  BY <2>1, <2>2
<1>6. P \cap Q = {}
  BY <1>3
<1> HIDE DEF P, Q
<1>7. Cardinality(P \union Q) = Cardinality(P) + Cardinality(Q) - Cardinality(P \cap Q)
  BY <1>2, <1>4, FS_Union
<1>8. 2^i \in Nat
  BY PowerIsNat
<1>9. Cardinality(P \cap Q) = 0
  BY <1>6, FS_EmptySet
<1>10. Cardinality(P \union Q) = 2^(i + 1)
  BY <1>2, <1>5
<1> QED  BY <1>2, <1>4, <1>7, <1>8, <1>9, <1>10

LEMMA PowerGrows == ASSUME NEW n \in Nat PROVE n < 2^n
<1> DEFINE T == {m \in Nat : ~ (m < 2^m)}
<1> SUFFICES ASSUME T # {} PROVE FALSE
  OBVIOUS
<1>1. PICK m \in T : \A y \in T : m <= y
  BY Minimum
<1>2. m # 0
  <2>1. 2^0 = 1 /\ ~ (m < 2^m)
    BY <1>1
  <2>2. 0 < 2^0
    BY <2>1
  <2> QED  BY <2>1, <2>2, Zenon
<1>3. m - 1 \in Nat /\ (m - 1) + 1 = m /\ m - 1 \notin T
  BY <1>1, <1>2
<1>4. m - 1 < 2^(m - 1) /\ 2^(m - 1) \in Nat
  BY <1>3, PowerIsNat
<1>5. 2^m = 2^(m - 1) + 2^(m - 1)
  BY <1>3, Doubling
<1> QED  BY <1>1, <1>3, <1>4, <1>5

\* erase() makes room for at least the elements it keeps, and not for much more.
LEMMA PowerOfTwoLemma ==
  ASSUME NEW n \in Nat, n # 0
  PROVE  PowerOfTwo(n) \in n..(2 * n + 2)
<1> DEFINE Fits == {i \in 2..(n + 2) : 2^i >= n}
<1>1. n + 2 \in Fits
  <2>1. 2^(n + 2) \in Nat /\ n + 2 < 2^(n + 2)
    BY PowerIsNat, PowerGrows
  <2> QED  BY <2>1
<1>2. PICK k \in Fits : \A i \in Fits : k <= i
  <2>1. Fits \in SUBSET Nat /\ Fits # {}
    BY <1>1
  <2> HIDE DEF Fits
  <2> QED  BY <2>1, Minimum
<1>3. ASSUME NEW i \in Fits PROVE 2^k <= 2^i
  <2> DEFINE T == {j \in Nat : j >= k /\ ~ (2^k <= 2^j)}
  <2>0. i \in Nat /\ i >= k
    BY <1>2
  <2> SUFFICES ASSUME T # {} PROVE FALSE
    BY <2>0
  <2>1. PICK j \in T : \A y \in T : j <= y
    BY Minimum
  <2>2. j # k /\ j - 1 >= k /\ j - 1 \in Nat /\ j - 1 + 1 = j /\ j - 1 \notin T
    <3>1. k \in Nat /\ 2^k \in Nat /\ j \in Nat
      BY PowerIsNat
    <3> QED  BY <2>1, <3>1
  <2>3. 2^k <= 2^(j - 1) /\ 2^(j - 1) \in Nat /\ 2^k \in Nat /\ 2^j = 2^(j - 1) + 2^(j - 1)
    BY <2>2, PowerIsNat, Doubling
  <2> QED  BY <2>1, <2>3
<1>4. PowerOfTwo(n) \in {2^i : i \in 2..(n + 2)} /\ PowerOfTwo(n) >= n
      /\ \A i \in 2..(n + 2) : 2^i >= n => PowerOfTwo(n) <= 2^i
  <2> DEFINE S == {2^i : i \in 2..(n + 2)}
             Q(c) == c >= n /\ \A i \in 2..(n + 2) : 2^i >= n => c <= 2^i
  <2>1. 2^k \in S /\ Q(2^k)
    BY <1>2, <1>3
  <2>2. PowerOfTwo(n) = CHOOSE c \in S : Q(c)
    BY DEF PowerOfTwo
  <2> HIDE DEF S, Q
  <2>3. PowerOfTwo(n) \in S /\ Q(PowerOfTwo(n))
    BY <2>1, <2>2
  <2> QED  BY <2>3 DEF S, Q
<1>5. PowerOfTwo(n) \in Nat /\ PowerOfTwo(n) <= 2^k
  BY <1>2, <1>4, PowerIsNat
<1>6. 2^k <= 2 * n + 2
  <2>1. CASE k = 2
    <3>1. 2^2 = 4
      OBVIOUS
    <3> QED  BY <2>1, <3>1
  <2>2. CASE k # 2
    <3>1. k - 1 \in 2..(n + 2) /\ k - 1 \in Nat /\ k - 1 + 1 = k /\ k - 1 \notin Fits
      BY <1>2, <2>2
    <3>2. ~ (2^(k - 1) >= n) /\ 2^(k - 1) \in Nat /\ 2^k = 2^(k - 1) + 2^(k - 1)
      BY <3>1, PowerIsNat, Doubling
    <3> QED  BY <3>2
  <2> QED  BY <2>1, <2>2
<1>7. 2^k \in Nat
  BY PowerIsNat
<1> QED  BY <1>4, <1>5, <1>6, <1>7

-----------------------------------------------------------------------------
(* The inductive invariant, and what it says of one vector *)

Typed == /\ DOMAIN heap \subseteq Blocks /\ \A b \in DOMAIN heap : heap[b] \in Seq(Elements)
         /\ vec \in [Vectors -> Members]

Owned == /\ Typed /\ OwnBuffers
         /\ \A v \in Vectors : vec[v].v_size = -1 => vec[v] = NoVector

Roomy == \A v \in Vectors : Live(v) => /\ vec[v].v_size <= vec[v].v_capacity
                                      /\ vec[v].v_capacity <= Room(v)

IInv == overrun \in BOOLEAN /\ Owned /\ (~ overrun => Roomy)

\* The memory as every call finds it: none comes after an overrun.
Fits == Owned /\ Roomy

LEMMA SizeType == MaxSize \in Nat /\ MaxSize >= 1 /\ Blank \in Elements
BY SizeAssumption DEF Elements

\* There are fewer buffers than vectors, so the allocator finds a block.
LEMMA FreshLemma ==
  ASSUME Owned
  PROVE  Fresh \in Blocks /\ Fresh \notin DOMAIN heap /\ Fresh # Null
<1> DEFINE D == DOMAIN heap  owner == [b \in D |-> CHOOSE v \in Vectors : vec[v].values = b]
<1>1. \A b \in D : owner[b] \in Vectors /\ vec[owner[b]].values = b
  BY DEF Owned, OwnBuffers
<1>2. owner \in Injection(D, Vectors)
  <2>1. owner \in [D -> Vectors]
    BY <1>1
  <2>2. \A b, c \in D : owner[b] = owner[c] => b = c
    BY <1>1
  <2> HIDE DEF owner, D
  <2> QED  BY <2>1, <2>2 DEF Injection, IsInjective
<1> HIDE DEF owner
<1>3. Cardinality(Vectors) \in Nat /\ Cardinality(D) <= Cardinality(Vectors)
  BY <1>2, VectorsAssumption, FS_Injection, FS_CardinalityType
<1>4. Cardinality(Blocks) = Cardinality(Vectors) + 1
  BY <1>3, FS_Interval DEF Blocks
<1>5. D \subseteq Blocks /\ D # Blocks
  <2>1. Cardinality(D) # Cardinality(Blocks)
    <3>1. IsFiniteSet(D)
      BY <1>2, VectorsAssumption, FS_Injection
    <3>2. Cardinality(D) \in Nat
      BY <3>1, FS_CardinalityType
    <3> QED  BY <1>3, <1>4, <3>2
  <2> QED  BY <2>1 DEF Owned, Typed
<1>6. \E b \in Blocks : b \notin DOMAIN heap
  BY <1>5
<1>7. Fresh \in Blocks /\ Fresh \notin DOMAIN heap
  BY <1>6 DEF Fresh
<1> QED  BY <1>3, <1>7 DEF Blocks, Null

LEMMA FilledLemma ==
  ASSUME NEW s \in Seq(Elements), NEW n \in Nat
  PROVE  /\ Filled(s, n) \in Seq(Elements) /\ Len(Filled(s, n)) = n
         /\ \A i \in 1..n : Filled(s, n)[i] = IF i <= Len(s) THEN s[i] ELSE Blank
<1>1. \A i \in 1..n : (IF i <= Len(s) THEN s[i] ELSE Blank) \in Elements
  BY SizeType
<1> QED  BY <1>1 DEF Filled

LEMMA SubSeqLemma ==
  ASSUME NEW S, NEW s \in Seq(S), NEW m \in Nat, NEW n \in Nat, m >= 1, n <= Len(s)
  PROVE  /\ SubSeq(s, m, n) \in Seq(S)
         /\ Len(SubSeq(s, m, n)) = IF m <= n THEN n - m + 1 ELSE 0
         /\ \A i \in 1..Len(SubSeq(s, m, n)) : SubSeq(s, m, n)[i] = s[m + i - 1]
<1>1. \A i \in m..n : s[i] \in S
  <2>1. \A i \in m..n : i \in 1..Len(s)
    OBVIOUS
  <2> QED  BY <2>1
<1>2. m \in Int /\ n \in Int
  OBVIOUS
<1>3. /\ SubSeq(s, m, n) \in Seq(S)
      /\ Len(SubSeq(s, m, n)) = IF m <= n THEN n - m + 1 ELSE 0
      /\ \A i \in 1..n - m + 1 : SubSeq(s, m, n)[i] = s[m + i - 1]
  BY <1>1, <1>2, SubSeqProperties
<1> QED  BY <1>3

\* The members of a vector that exists, and its buffer.
LEMMA VectorLemma ==
  ASSUME Fits, NEW v \in Vectors, Live(v)
  PROVE  /\ vec[v] \in Members /\ vec[v].v_size \in 0..MaxSize
         /\ vec[v].v_capacity \in 0..(2 * MaxSize)
         /\ Cells(v) \in Seq(Elements) /\ Room(v) \in Nat /\ Room(v) = Len(Cells(v))
         /\ vec[v].v_size <= vec[v].v_capacity /\ vec[v].v_capacity <= Room(v)
<1>1. vec[v] \in Members
  BY DEF Fits, Owned, Typed
<1>2. vec[v].v_size \in 0..MaxSize /\ vec[v].v_capacity \in 0..(2 * MaxSize)
  <2>1. vec[v].v_size \in -1..MaxSize /\ vec[v].v_capacity \in 0..(2 * MaxSize)
    BY <1>1 DEF Members
  <2>2. vec[v].v_size # -1
    BY DEF Fits, Owned, Live
  <2> QED  BY <2>1, <2>2, SizeType
<1>3. Cells(v) \in Seq(Elements)
  BY DEF Cells, Fits, Owned, Typed
<1>4. Room(v) \in Nat /\ Room(v) = Len(Cells(v))
  BY <1>3 DEF Room
<1> QED  BY <1>1, <1>2, <1>3, <1>4 DEF Fits, Roomy

LEMMA ItemsLemma ==
  ASSUME Fits, NEW v \in Vectors, Live(v)
  PROVE  /\ Items(v) \in Seq(Elements) /\ Len(Items(v)) = vec[v].v_size
         /\ Items(v) = SubSeq(Cells(v), 1, vec[v].v_size)
         /\ \A i \in 1..vec[v].v_size : Items(v)[i] = Cells(v)[i]
<1> DEFINE c == Cells(v)  n == vec[v].v_size
<1>1. c \in Seq(Elements) /\ n \in Nat /\ n <= Len(c) /\ Room(v) = Len(c)
  BY VectorLemma, SizeType
<1>2. Items(v) = SubSeq(c, 1, n)
  BY <1>1 DEF Items
<1> HIDE DEF c, n
<1>3. /\ SubSeq(c, 1, n) \in Seq(Elements)
      /\ Len(SubSeq(c, 1, n)) = IF 1 <= n THEN n - 1 + 1 ELSE 0
      /\ \A i \in 1..Len(SubSeq(c, 1, n)) : SubSeq(c, 1, n)[i] = c[1 + i - 1]
  BY <1>1, SubSeqLemma
<1>4. Len(SubSeq(c, 1, n)) = n
  BY <1>1, <1>3
<1>5. \A i \in 1..n : SubSeq(c, 1, n)[i] = c[i]
  BY <1>1, <1>3, <1>4
<1> QED  BY <1>2, <1>3, <1>4, <1>5 DEF c, n

-----------------------------------------------------------------------------
(* The ways in which a call changes members and buffers *)

\* v gets the members r, with a new buffer.
LEMMA NewBuffer ==
  ASSUME Fits, NEW v \in Vectors, NEW r \in Members,
         NEW c \in Seq(Elements),
         r.values = Fresh, r.v_size \in Nat,
         vec' = [vec EXCEPT ![v] = r], heap' = Allocated(Free(v), Fresh, c)
  PROVE  Owned' /\ (r.v_size <= r.v_capacity /\ r.v_capacity <= Len(c) => Fits')
<1> DEFINE b == Fresh  old == vec[v].values
<1>1. b \in Blocks /\ b \notin DOMAIN heap /\ b # Null
  BY FreshLemma DEF Fits, Owned
<1>2. vec \in [Vectors -> Members] /\ DOMAIN heap \subseteq Blocks
      /\ \A d \in DOMAIN heap : heap[d] \in Seq(Elements)
  BY DEF Fits, Owned, Typed
<1>3. /\ DOMAIN heap' = (DOMAIN heap \ {old}) \union {b}
      /\ heap'[b] = c /\ \A d \in DOMAIN heap \ {old} : heap'[d] = heap[d]
  BY <1>1 DEF Allocated, Free
<1>4. vec' \in [Vectors -> Members] /\ vec'[v] = r /\ \A w \in Vectors : w # v => vec'[w] = vec[w]
  BY <1>2
<1> HIDE DEF b
<1>5. r.values = b
  BY DEF b
<1>6. Typed'
  BY <1>1, <1>2, <1>3, <1>4 DEF Typed
<1>7. \A w \in Vectors : w # v => vec[w].values # b
  BY <1>1 DEF Fits, Owned, OwnBuffers
<1>8. OwnBuffers'
  <2>1. ASSUME NEW d \in DOMAIN heap'
        PROVE  \E u \in Vectors : /\ vec'[u].values = d
                                  /\ \A w \in Vectors : vec'[w].values = d => w = u
    <3>1. CASE d = b
      BY <1>4, <1>5, <1>7, <3>1
    <3>2. CASE d # b
      <4>1. d \in DOMAIN heap /\ d # old
        BY <1>3, <2>1, <3>2
      <4>2. PICK u \in Vectors : vec[u].values = d /\ \A w \in Vectors : vec[w].values = d => w = u
        BY <4>1 DEF Fits, Owned, OwnBuffers
      <4>3. u # v
        BY <4>1, <4>2
      <4> QED  BY <1>4, <1>5, <3>2, <4>2, <4>3
    <3> QED  BY <3>1, <3>2
  <2>2. ASSUME NEW w \in Vectors PROVE vec'[w].values \in DOMAIN heap' \union {Null}
    <3>1. CASE w = v
      BY <1>3, <1>4, <1>5, <3>1
    <3>2. CASE w # v
      <4>1. vec[w].values \in DOMAIN heap \union {Null}
        BY DEF Fits, Owned, OwnBuffers
      <4>2. vec[w].values \in DOMAIN heap => vec[w].values # old
        BY <3>2 DEF Fits, Owned, OwnBuffers
      <4> QED  BY <1>3, <1>4, <3>2, <4>1, <4>2
    <3> QED  BY <3>1, <3>2
  <2> QED  BY <2>1, <2>2 DEF OwnBuffers
<1>9. \A w \in Vectors : w # v => (Live(w)' <=> Live(w)) /\ Room(w)' = Room(w)
  <2> SUFFICES ASSUME NEW w \in Vectors, w # v PROVE (Live(w)' <=> Live(w)) /\ Room(w)' = Room(w)
    OBVIOUS
  <2>1. vec'[w] = vec[w] /\ vec[w].values # b
    BY <1>4, <1>7
  <2>2. vec[w].values \in DOMAIN heap => vec[w].values # old
    BY DEF Fits, Owned, OwnBuffers
  <2> QED  BY <1>3, <2>1, <2>2 DEF Live, Room, Cells
<1>10. Room(v)' = Len(c)
  BY <1>3, <1>4, <1>5 DEF Room, Cells
<1>11. r.v_size <= r.v_capacity /\ r.v_capacity <= Len(c) => Roomy'
  BY <1>4, <1>9, <1>10 DEF Roomy, Fits
<1>12. \A w \in Vectors : vec'[w].v_size = -1 => vec'[w] = NoVector
  BY <1>4 DEF Fits, Owned
<1> QED  BY <1>6, <1>8, <1>11, <1>12 DEF Fits, Owned

\* v keeps its buffer, if it has one, and gets the size n and a capacity.
LEMMA SameBuffer ==
  ASSUME Fits, NEW v \in Vectors, NEW r \in Members,
         r.values = vec[v].values, r.v_size \in Nat,
         vec' = [vec EXCEPT ![v] = r],
         \/ heap' = heap
         \/ \E c \in Seq(Elements) : Len(c) = Room(v) /\ heap' = [heap EXCEPT ![vec[v].values] = c],
         r.v_size <= r.v_capacity, r.v_capacity <= Room(v)
  PROVE  Fits'
<1> DEFINE old == vec[v].values
<1>1. vec \in [Vectors -> Members] /\ DOMAIN heap \subseteq Blocks
      /\ \A d \in DOMAIN heap : heap[d] \in Seq(Elements)
  BY DEF Fits, Owned, Typed
<1>2. /\ DOMAIN heap' = DOMAIN heap
      /\ \A d \in DOMAIN heap : heap'[d] \in Seq(Elements) /\ Len(heap'[d]) = Len(heap[d])
  <2>1. CASE heap' = heap
    BY <1>1, <2>1
  <2>2. ASSUME NEW c \in Seq(Elements), Len(c) = Room(v), heap' = [heap EXCEPT ![old] = c]
        PROVE  <1>2
    <3>1. DOMAIN heap' = DOMAIN heap
      BY <2>2
    <3>2. \A d \in DOMAIN heap : heap'[d] = IF d = old THEN c ELSE heap[d]
      BY <2>2
    <3>3. old \in DOMAIN heap => Len(c) = Len(heap[old])
      BY <2>2 DEF Room, Cells
    <3> QED  BY <1>1, <3>1, <3>2, <3>3
  <2> QED  BY <2>1, <2>2
<1>3. vec' \in [Vectors -> Members] /\ vec'[v] = r /\ \A w \in Vectors : w # v => vec'[w] = vec[w]
  BY <1>1
<1>4. \A w \in Vectors : vec'[w].values = vec[w].values /\ Room(w)' = Room(w)
  <2>1. \A w \in Vectors : vec'[w].values = vec[w].values
    BY <1>3
  <2>2. Len(<<>>) = Len(<<>>)
    OBVIOUS
  <2> QED  BY <1>2, <2>1 DEF Room, Cells
<1>5. Typed'
  BY <1>1, <1>2, <1>3 DEF Typed
<1>6. OwnBuffers'
  BY <1>2, <1>4 DEF OwnBuffers, Fits, Owned
<1>7. Roomy'
  <2> SUFFICES ASSUME NEW w \in Vectors, Live(w)'
               PROVE  vec'[w].v_size <= vec'[w].v_capacity /\ vec'[w].v_capacity <= Room(w)'
    BY DEF Roomy
  <2>1. CASE w = v
    BY <1>3, <1>4, <2>1
  <2>2. CASE w # v
    BY <1>3, <1>4, <2>2 DEF Fits, Roomy, Live
  <2> QED  BY <2>1, <2>2
<1>8. \A w \in Vectors : vec'[w].v_size = -1 => vec'[w] = NoVector
  BY <1>3 DEF Fits, Owned
<1> QED  BY <1>5, <1>6, <1>7, <1>8 DEF Fits, Owned

\* v moves to a new buffer.
LEMMA RenewStep ==
  ASSUME Fits, NEW v \in Vectors, NEW s \in Seq(Elements), Len(s) <= MaxSize,
         NEW cap \in 0..(2 * MaxSize), NEW init \in BOOLEAN, Renew(v, s, cap, init)
  PROVE  Owned' /\ (Len(s) <= cap => Fits' /\ ~ overrun') /\ (~ overrun' => Fits')
<1> DEFINE r == [values |-> Fresh, v_size |-> Len(s), v_capacity |-> cap, ctor_initialized |-> init]
           c == Filled(s, cap)
<1>1. Len(s) \in Nat /\ cap \in Nat
  BY SizeType
<1>2. r \in Members /\ r.values = Fresh /\ r.v_size = Len(s) /\ r.v_capacity = cap
  BY <1>1, FreshLemma, SizeType DEF Members, Fits, Owned
<1>3. c \in Seq(Elements) /\ Len(c) = cap
  BY <1>1, FilledLemma
<1>4. vec' = [vec EXCEPT ![v] = r] /\ heap' = Allocated(Free(v), Fresh, c) /\ overrun' = (Len(s) > cap)
  BY DEF Renew
<1> HIDE DEF r, c
<1>5. Owned' /\ (Len(s) <= cap => Fits')
  <2>1. r.v_size \in Nat /\ (Len(s) <= cap => r.v_size <= r.v_capacity /\ r.v_capacity <= Len(c))
    BY <1>1, <1>2, <1>3
  <2> QED  BY <1>2, <1>3, <1>4, <2>1, NewBuffer
<1>6. Len(s) <= cap => ~ (Len(s) > cap)
  BY <1>1
<1>7. Len(s) <= cap => ~ overrun'
  BY <1>4, <1>6, Zenon
<1>8. ~ (Len(s) <= cap) => Len(s) > cap
  BY <1>1
<1>9. ~ (Len(s) <= cap) => overrun'
  BY <1>4, <1>8, Zenon
<1> QED  BY <1>5, <1>7, <1>9

\* v keeps its buffer, which has room.
LEMMA RewriteStep ==
  ASSUME Fits, NEW v \in Vectors, Live(v), NEW s \in Seq(Elements),
         Len(s) <= MaxSize, Len(s) <= vec[v].v_capacity, Rewrite(v, s)
  PROVE  Fits' /\ ~ overrun'
<1> DEFINE r == [vec[v] EXCEPT !.v_size = Len(s)]  c == Filled(s, Room(v))
<1>1. /\ Len(s) \in 0..MaxSize /\ vec[v] \in Members /\ Room(v) \in Nat
      /\ vec[v].v_capacity \in Nat /\ vec[v].v_capacity <= Room(v)
  BY VectorLemma, SizeType
<1>2. /\ r \in Members /\ r.values = vec[v].values /\ r.v_size = Len(s)
      /\ r.v_capacity = vec[v].v_capacity
  <2>1. Len(s) \in -1..MaxSize
    BY <1>1
  <2> QED  BY <1>1, <2>1 DEF Members
<1>3. c \in Seq(Elements) /\ Len(c) = Room(v)
  BY <1>1, FilledLemma
<1>4. /\ vec' = [vec EXCEPT ![v] = r] /\ overrun' = (Len(s) > Room(v))
      /\ heap' = heap \/ heap' = [heap EXCEPT ![vec[v].values] = c]
  BY DEF Rewrite
<1> HIDE DEF r, c
<1>5. ~ (Len(s) > Room(v)) /\ Len(s) \in Nat
  BY <1>1, SizeType
<1>6. ~ overrun'
  BY <1>4, <1>5, Zenon
<1>7. Fits'
  BY <1>1, <1>2, <1>3, <1>4, <1>5, SameBuffer
<1> QED  BY <1>6, <1>7

-----------------------------------------------------------------------------
(* The calls *)

LEMMA EmptyLemma ==
  LET r == [NoVector EXCEPT !.v_size = 0] IN
    r \in Members /\ r.values = Null /\ r.v_size = 0 /\ r.v_capacity = 0
<1> DEFINE r == [NoVector EXCEPT !.v_size = 0]
<1>1. /\ NoVector.values = Null /\ NoVector.v_capacity = 0 /\ NoVector \in Members
      /\ 0 \in -1..MaxSize
  BY SizeType DEF NoVector, Members
<1> QED  BY <1>1 DEF Members

\* A vector without a buffer has no room.
LEMMA EmptyRoom ==
  ASSUME Fits, NEW v \in Vectors, vec[v] = NoVector
  PROVE  vec[v].values = Null /\ vec[v].v_capacity = 0 /\ Room(v) = 0
<1>1. vec[v].values = Null /\ vec[v].v_capacity = 0
  BY DEF NoVector
<1>2. Null \notin Blocks
  BY VectorsAssumption, FS_CardinalityType DEF Null, Blocks
<1>3. Null \notin DOMAIN heap
  BY <1>2 DEF Fits, Owned, Typed
<1>4. Cells(v) = <<>>
  BY <1>1, <1>3 DEF Cells
<1> QED  BY <1>1, <1>4 DEF Room

LEMMA SwappedLemma ==
  ASSUME NEW a \in Members, NEW b \in Members
  PROVE  /\ Swapped(a, b) \in Members /\ Swapped(a, b).values = b.values
         /\ Swapped(a, b).v_size = b.v_size /\ Swapped(a, b).v_capacity = b.v_capacity
BY DEF Swapped, Members

LEMMA DefaultStep ==
  ASSUME Fits, ~ overrun, NEW v \in Vectors, Default(v) PROVE Fits' /\ ~ overrun'
<1> DEFINE r == [NoVector EXCEPT !.v_size = 0]
<1>1. vec[v] = NoVector /\ vec' = [vec EXCEPT ![v].v_size = 0] /\ heap' = heap /\ overrun' = overrun
  BY DEF Default, Live
<1>2. vec' = [vec EXCEPT ![v] = r]
  BY <1>1
<1>3. r \in Members /\ r.values = Null /\ r.v_size = 0 /\ r.v_capacity = 0
  BY EmptyLemma
<1>4. Room(v) = 0 /\ vec[v].values = Null
  BY <1>1, EmptyRoom
<1> HIDE DEF r
<1>5. r.v_size \in Nat /\ r.v_size <= r.v_capacity /\ r.v_capacity <= Room(v)
  BY <1>3, <1>4
<1>6. Fits'
  BY <1>1, <1>2, <1>3, <1>4, <1>5, SameBuffer
<1> QED  BY <1>1, <1>6

LEMMA SizedStep ==
  ASSUME Fits, NEW v \in Vectors, NEW n \in 0..MaxSize, NEW x \in Elements, Sized(v, n, x)
  PROVE  Fits' /\ ~ overrun'
<1> DEFINE s == [i \in 1..n |-> x]  init == TRUE
<1>1. /\ n \in Nat /\ n <= MaxSize /\ n \in 0..(2 * MaxSize)
      /\ s \in Seq(Elements) /\ Len(s) = n
  BY SizeType
<1>2. Renew(v, s, n, init) /\ init \in BOOLEAN
  BY DEF Sized
<1> HIDE DEF s, init
<1> QED  BY <1>1, <1>2, RenewStep

LEMMA ListedStep ==
  ASSUME Fits, NEW v \in Vectors, NEW s \in Contents, Listed(v, s)
  PROVE  Fits' /\ ~ overrun'
<1>1. s \in Seq(Elements) /\ Len(s) \in 0..MaxSize
  BY SizeType DEF Contents, Elements
<1>2. Len(s) \in 0..(2 * MaxSize) /\ Len(s) <= MaxSize
  BY <1>1, SizeType
<1> DEFINE init == FALSE
<1>3. Renew(v, s, Len(s), init) /\ init \in BOOLEAN
  BY DEF Listed
<1> HIDE DEF init
<1> QED  BY <1>1, <1>2, <1>3, RenewStep

LEMMA CopyStep ==
  ASSUME Fits, NEW v \in Vectors, NEW w \in Vectors, Copy(v, w)
  PROVE  Fits' /\ ~ overrun'
<1>1. Items(w) \in Seq(Elements) /\ Len(Items(w)) = vec[w].v_size
  BY ItemsLemma DEF Copy
<1>2. /\ vec[w].v_size <= MaxSize /\ vec[w].v_capacity \in 0..(2 * MaxSize)
      /\ vec[w].v_size <= vec[w].v_capacity
  BY VectorLemma, SizeType DEF Copy
<1> DEFINE init == FALSE
<1>3. Renew(v, Items(w), vec[w].v_capacity, init) /\ init \in BOOLEAN
  BY DEF Copy
<1> HIDE DEF init
<1> QED  BY <1>1, <1>2, <1>3, RenewStep

LEMMA AssignStep ==
  ASSUME Fits, NEW v \in Vectors, NEW w \in Vectors, Assign(v, w)
  PROVE  Fits' /\ ~ overrun'
<1> DEFINE s == IF v = w THEN [i \in 1..vec[w].v_size |-> Blank] ELSE Items(w)
<1>1. /\ vec[w].v_size \in Nat /\ vec[w].v_size <= MaxSize
      /\ vec[w].v_capacity \in 0..(2 * MaxSize) /\ vec[w].v_size <= vec[w].v_capacity
      /\ vec[v].ctor_initialized \in BOOLEAN
  BY VectorLemma, SizeType DEF Assign, Members
<1>2. s \in Seq(Elements) /\ Len(s) = vec[w].v_size
  <2>1. CASE v = w
    BY <1>1, <2>1, SizeType
  <2>2. CASE v # w
    BY <2>2, ItemsLemma DEF Assign
  <2> QED  BY <2>1, <2>2
<1>3. Renew(v, s, vec[w].v_capacity, vec[v].ctor_initialized)
  BY DEF Assign
<1> HIDE DEF s
<1> QED  BY <1>1, <1>2, <1>3, RenewStep

\* The vectors exchange their buffers in pairs; the heap stays as it is.
Exchanges(swap) ==
  /\ swap \in [Vectors -> Vectors] /\ \A u \in Vectors : swap[swap[u]] = u
  /\ heap' = heap /\ vec' \in [Vectors -> Members]
  /\ \A u \in Vectors : /\ vec'[u].values = vec[swap[u]].values
                        /\ vec'[u].v_capacity = vec[swap[u]].v_capacity
                        /\ \/ vec'[u].v_size = vec[swap[u]].v_size
                           \/ vec'[u].v_size = 0 /\ vec[swap[u]].v_size = -1
  /\ \A u \in Vectors : vec'[u].v_size = -1 => vec'[u] = NoVector

LEMMA ExchangeStep == ASSUME Fits, NEW swap, Exchanges(swap) PROVE Fits'
<1>1. Typed'
  BY DEF Typed, Fits, Owned, Exchanges
<1>2. \A u \in Vectors : swap[u] \in Vectors /\ swap[swap[u]] = u
  BY DEF Exchanges
<1>3. OwnBuffers'
  <2>1. ASSUME NEW d \in DOMAIN heap
        PROVE  \E u \in Vectors : /\ vec'[u].values = d
                                  /\ \A x \in Vectors : vec'[x].values = d => x = u
    <3>1. PICK u \in Vectors : vec[u].values = d /\ \A x \in Vectors : vec[x].values = d => x = u
      BY DEF Fits, Owned, OwnBuffers
    <3>2. swap[u] \in Vectors /\ vec'[swap[u]].values = d
      BY <1>2, <3>1 DEF Exchanges
    <3>3. ASSUME NEW x \in Vectors, vec'[x].values = d PROVE x = swap[u]
      BY <1>2, <3>1, <3>3 DEF Exchanges
    <3> QED  BY <3>2, <3>3
  <2>2. ASSUME NEW u \in Vectors PROVE vec'[u].values \in DOMAIN heap \union {Null}
    <3>1. swap[u] \in Vectors /\ vec'[u].values = vec[swap[u]].values
      BY <1>2 DEF Exchanges
    <3> QED  BY <3>1 DEF Fits, Owned, OwnBuffers
  <2> QED  BY <2>1, <2>2 DEF OwnBuffers, Exchanges
<1>4. Roomy'
  <2> SUFFICES ASSUME NEW u \in Vectors, Live(u)'
               PROVE  vec'[u].v_size <= vec'[u].v_capacity /\ vec'[u].v_capacity <= Room(u)'
    BY DEF Roomy
  <2> DEFINE x == swap[u]
  <2>1. /\ x \in Vectors /\ vec'[u].values = vec[x].values /\ vec'[u].v_capacity = vec[x].v_capacity
        /\ \/ vec'[u].v_size = vec[x].v_size
           \/ vec'[u].v_size = 0 /\ vec[x].v_size = -1
    BY <1>2 DEF Exchanges
  <2> HIDE DEF x
  <2>2. Room(u)' = Room(x)
    BY <2>1 DEF Room, Cells, Exchanges
  <2>3. vec'[u].v_size # -1
    BY DEF Live, Exchanges
  <2>4. CASE vec'[u].v_size = vec[x].v_size
    <3>1. Live(x)
      BY <2>3, <2>4 DEF Live, NoVector
    <3> QED  BY <2>1, <2>2, <2>4, <3>1 DEF Fits, Roomy
  <2>5. CASE vec'[u].v_size = 0 /\ vec[x].v_size = -1
    <3>1. vec[x] = NoVector
      BY <2>1, <2>5 DEF Fits, Owned
    <3> QED  BY <2>1, <2>2, <2>5, <3>1, EmptyRoom
  <2> QED  BY <2>1, <2>4, <2>5
<1> QED  BY <1>1, <1>3, <1>4 DEF Fits, Owned, Exchanges

LEMMA SwapStep ==
  ASSUME Fits, ~ overrun, NEW v \in Vectors, NEW w \in Vectors, Swap(v, w)
  PROVE  Fits' /\ ~ overrun'
<1> DEFINE swap == [u \in Vectors |-> IF u = v THEN w ELSE IF u = w THEN v ELSE u]
           a == Swapped(vec[v], vec[w])  b == Swapped(vec[w], vec[v])
<1>1. swap \in [Vectors -> Vectors] /\ \A u \in Vectors : swap[swap[u]] = u
  OBVIOUS
<1>2. /\ vec \in [Vectors -> Members] /\ vec[v] \in Members /\ vec[w] \in Members
      /\ vec[v].v_size # -1 /\ vec[w].v_size # -1
  BY DEF Fits, Owned, Typed, Swap, Live
<1>3. /\ a \in Members /\ a.values = vec[w].values /\ a.v_size = vec[w].v_size
      /\ a.v_capacity = vec[w].v_capacity
      /\ b \in Members /\ b.values = vec[v].values /\ b.v_size = vec[v].v_size
      /\ b.v_capacity = vec[v].v_capacity
  BY <1>2, SwappedLemma
<1>4. vec' = [vec EXCEPT ![v] = a, ![w] = b] /\ heap' = heap /\ overrun' = overrun
  BY DEF Swap
<1> HIDE DEF a, b
<1>5. /\ vec' \in [Vectors -> Members]
      /\ \A u \in Vectors : vec'[u] = IF u = w THEN b ELSE IF u = v THEN a ELSE vec[u]
  BY <1>2, <1>3, <1>4
<1>6. \A u \in Vectors : /\ vec'[u].values = vec[swap[u]].values
                        /\ vec'[u].v_capacity = vec[swap[u]].v_capacity
                        /\ vec'[u].v_size = vec[swap[u]].v_size
  BY <1>3, <1>5
<1>7. \A u \in Vectors : vec'[u].v_size = -1 => vec'[u] = NoVector
  BY <1>2, <1>3, <1>5 DEF Fits, Owned
<1> HIDE DEF swap
<1>10. Fits'
  BY <1>1, <1>4, <1>5, <1>6, <1>7, ExchangeStep DEF Exchanges
<1> QED  BY <1>4, <1>10

LEMMA MoveNewStep ==
  ASSUME Fits, ~ overrun, NEW v \in Vectors, NEW w \in Vectors, MoveNew(v, w)
  PROVE  Fits' /\ ~ overrun'
<1> DEFINE swap == [u \in Vectors |-> IF u = v THEN w ELSE IF u = w THEN v ELSE u]
           e == [NoVector EXCEPT !.v_size = 0]
           a == Swapped(e, vec[w])  b == Swapped(vec[w], e)
<1>1. swap \in [Vectors -> Vectors] /\ \A u \in Vectors : swap[swap[u]] = u
  OBVIOUS
<1>2. /\ vec \in [Vectors -> Members] /\ vec[w] \in Members
      /\ vec[v] = NoVector /\ vec[w].v_size # -1 /\ v # w
  BY DEF Fits, Owned, Typed, MoveNew, Live
<1>3. e \in Members /\ e.values = Null /\ e.v_size = 0 /\ e.v_capacity = 0
  BY EmptyLemma
<1>4. vec' = [vec EXCEPT ![v] = a, ![w] = b] /\ heap' = heap /\ overrun' = overrun
  BY DEF MoveNew
<1> HIDE DEF e
<1>5. /\ a \in Members /\ a.values = vec[w].values /\ a.v_size = vec[w].v_size
      /\ a.v_capacity = vec[w].v_capacity
      /\ b \in Members /\ b.values = Null /\ b.v_size = 0 /\ b.v_capacity = 0
  BY <1>2, <1>3, SwappedLemma
<1> HIDE DEF a, b
<1>6. /\ vec' \in [Vectors -> Members]
      /\ \A u \in Vectors : vec'[u] = IF u = w THEN b ELSE IF u = v THEN a ELSE vec[u]
  BY <1>2, <1>4, <1>5
<1>7. vec[v].values = Null /\ vec[v].v_size = -1 /\ vec[v].v_capacity = 0
  BY <1>2 DEF NoVector
<1>8. \A u \in Vectors : /\ vec'[u].values = vec[swap[u]].values
                        /\ vec'[u].v_capacity = vec[swap[u]].v_capacity
                        /\ \/ vec'[u].v_size = vec[swap[u]].v_size
                           \/ vec'[u].v_size = 0 /\ vec[swap[u]].v_size = -1
  BY <1>2, <1>5, <1>6, <1>7
<1>9. \A u \in Vectors : vec'[u].v_size = -1 => vec'[u] = NoVector
  BY <1>2, <1>5, <1>6 DEF Fits, Owned
<1> HIDE DEF swap
<1>10. Fits'
  BY <1>1, <1>4, <1>6, <1>8, <1>9, ExchangeStep DEF Exchanges
<1> QED  BY <1>4, <1>10

LEMMA DestroyStep ==
  ASSUME Fits, ~ overrun, NEW v \in Vectors, Destroy(v) PROVE Fits' /\ ~ overrun'
<1> DEFINE old == vec[v].values
<1>1. /\ vec \in [Vectors -> Members] /\ DOMAIN heap \subseteq Blocks
      /\ \A d \in DOMAIN heap : heap[d] \in Seq(Elements)
  BY DEF Fits, Owned, Typed
<1>2. NoVector \in Members /\ NoVector.values = Null
  BY SizeType DEF NoVector, Members
<1>3. heap' = Free(v) /\ vec' = [vec EXCEPT ![v] = NoVector] /\ overrun' = overrun
  BY DEF Destroy
<1>4. /\ vec' \in [Vectors -> Members] /\ vec'[v] = NoVector
      /\ \A w \in Vectors : w # v => vec'[w] = vec[w]
  BY <1>1, <1>2, <1>3
<1>5. DOMAIN heap' = DOMAIN heap \ {old} /\ \A d \in DOMAIN heap' : heap'[d] = heap[d]
  BY <1>3 DEF Free
<1>6. \A w \in Vectors : w # v => vec[w].values \notin DOMAIN heap \/ vec[w].values # old
  BY DEF Fits, Owned, OwnBuffers
<1>7. \A w \in Vectors : w # v => (Live(w)' <=> Live(w)) /\ Room(w)' = Room(w)
  <2> SUFFICES ASSUME NEW w \in Vectors, w # v PROVE (Live(w)' <=> Live(w)) /\ Room(w)' = Room(w)
    OBVIOUS
  <2>1. vec'[w] = vec[w]
    BY <1>4
  <2> QED  BY <1>5, <1>6, <2>1 DEF Live, Room, Cells
<1>8. Typed'
  BY <1>1, <1>4, <1>5 DEF Typed
<1>9. OwnBuffers'
  <2>1. ASSUME NEW d \in DOMAIN heap'
        PROVE  \E u \in Vectors : /\ vec'[u].values = d
                                  /\ \A w \in Vectors : vec'[w].values = d => w = u
    <3>1. d \in DOMAIN heap /\ d # old
      BY <1>5
    <3>2. PICK u \in Vectors : vec[u].values = d /\ \A w \in Vectors : vec[w].values = d => w = u
      BY <3>1 DEF Fits, Owned, OwnBuffers
    <3>3. u # v /\ d # Null
      <4>1. d \in Blocks /\ Null \notin Blocks
        BY <1>1, <3>1, VectorsAssumption, FS_CardinalityType DEF Null, Blocks
      <4> QED  BY <3>1, <3>2, <4>1
    <3> QED  BY <1>2, <1>4, <3>2, <3>3
  <2>2. ASSUME NEW w \in Vectors PROVE vec'[w].values \in DOMAIN heap' \union {Null}
    <3>1. CASE w = v
      BY <1>2, <1>4, <3>1
    <3>2. CASE w # v
      BY <1>4, <1>5, <1>6, <3>2 DEF Fits, Owned, OwnBuffers
    <3> QED  BY <3>1, <3>2
  <2> QED  BY <2>1, <2>2 DEF OwnBuffers
<1>10. Roomy'
  BY <1>4, <1>7 DEF Roomy, Fits, Live
<1>11. \A w \in Vectors : vec'[w].v_size = -1 => vec'[w] = NoVector
  BY <1>4 DEF Fits, Owned
<1>12. Fits'
  BY <1>8, <1>9, <1>10, <1>11 DEF Fits, Owned
<1> QED  BY <1>3, <1>12

-----------------------------------------------------------------------------
(* Growing *)

LEMMA RepeatLemma ==
  ASSUME NEW n \in Nat, NEW x \in Elements
  PROVE  [j \in 1..n |-> x] \in Seq(Elements) /\ Len([j \in 1..n |-> x]) = n
OBVIOUS

LEMMA InsertedLemma ==
  ASSUME Fits, NEW v \in Vectors, Live(v), NEW i \in 0..vec[v].v_size,
         NEW n \in Nat, NEW x \in Elements
  PROVE  Inserted(v, i, n, x) \in Seq(Elements) /\ Len(Inserted(v, i, n, x)) = vec[v].v_size + n
<1> DEFINE s == Items(v)  k == vec[v].v_size  a == SubSeq(s, 1, i)
           b == [j \in 1..n |-> x]  c == SubSeq(s, i + 1, k)
<1>1. s \in Seq(Elements) /\ Len(s) = k /\ k \in Nat /\ i \in Nat /\ i <= k
  BY ItemsLemma, VectorLemma, SizeType
<1>2. b \in Seq(Elements) /\ Len(b) = n
  BY RepeatLemma
<1> HIDE DEF s, k
<1>3. a \in Seq(Elements) /\ Len(a) = i
  <2>1. 1 \in Nat /\ 1 >= 1 /\ i <= Len(s)
    BY <1>1
  <2>2. a \in Seq(Elements) /\ Len(a) = IF 1 <= i THEN i - 1 + 1 ELSE 0
    BY <1>1, <2>1, SubSeqLemma
  <2> QED  BY <1>1, <2>2
<1>4. c \in Seq(Elements) /\ Len(c) = k - i
  <2>1. i + 1 \in Nat /\ i + 1 >= 1 /\ k <= Len(s)
    BY <1>1
  <2>2. c \in Seq(Elements) /\ Len(c) = IF i + 1 <= k THEN k - (i + 1) + 1 ELSE 0
    BY <1>1, <2>1, SubSeqLemma
  <2> QED  BY <1>1, <2>2
<1>5. Inserted(v, i, n, x) = (a \o b) \o c
  BY DEF Inserted, s, k
<1> HIDE DEF a, b, c
<1>6. (a \o b) \o c \in Seq(Elements) /\ Len((a \o b) \o c) = k + n
  <2> DEFINE d == a \o b
  <2>1. d \in Seq(Elements) /\ Len(d) = i + n
    BY <1>2, <1>3
  <2> HIDE DEF d
  <2>2. d \o c \in Seq(Elements) /\ Len(d \o c) = (i + n) + (k - i)
    BY <1>4, <2>1
  <2>3. (i + n) + (k - i) = k + n
    BY <1>1
  <2> QED  BY <2>2, <2>3 DEF d
<1> QED  BY <1>5, <1>6 DEF k

\* Doubling a capacity of 0 leaves no room for the new element.
Starved(v) == vec[v].ctor_initialized /\ vec[v].v_capacity = 0 /\ vec'[v].v_size = 1

LEMMA PushStep ==
  ASSUME Fits, NEW v \in Vectors, NEW x \in Elements, EmplaceBack(v, x)
  PROVE  Owned' /\ (~ overrun' => Fits') /\ (Starved(v) \/ ~ overrun')
<1> DEFINE s == Append(Items(v), x)  k == vec[v].v_size  cap == vec[v].v_capacity
           init == vec[v].ctor_initialized  g == Grown(v)
<1>1. Live(v) /\ k < MaxSize
  BY DEF EmplaceBack
<1>2. k \in Nat /\ cap \in Nat /\ k <= cap /\ cap <= 2 * MaxSize /\ init \in BOOLEAN
  BY <1>1, VectorLemma, SizeType DEF Members
<1>3. s \in Seq(Elements) /\ Len(s) = k + 1
  BY <1>1, ItemsLemma
<1>4. k + 1 <= MaxSize
  BY <1>1, <1>2, SizeType
<1>5. CASE ~ Full(v)
  <2>1. Rewrite(v, s)
    BY <1>5 DEF EmplaceBack
  <2>2. Len(s) <= vec[v].v_capacity
    BY <1>2, <1>3, <1>5 DEF Full
  <2> HIDE DEF s
  <2>3. Fits' /\ ~ overrun'
    BY <1>1, <1>3, <1>4, <2>1, <2>2, RewriteStep
  <2> QED  BY <2>3 DEF Fits
<1>6. CASE Full(v)
  <2>1. Renew(v, s, g, init)
    BY <1>6 DEF EmplaceBack
  <2>2. cap = k
    BY <1>6 DEF Full
  <2>3. g \in 0..(2 * MaxSize) /\ (g >= k + 1 \/ (init /\ cap = 0))
    <3>1. CASE init
      BY <1>2, <1>4, <1>6, <2>2, <3>1, SizeType DEF Grown
    <3>2. CASE ~ init
      BY <1>2, <1>4, <1>6, <2>2, <3>2, SizeType DEF Grown
    <3> QED  BY <3>1, <3>2
  <2> HIDE DEF s, g
  <2>4. Owned' /\ (Len(s) <= g => Fits' /\ ~ overrun') /\ (~ overrun' => Fits')
    BY <1>2, <1>3, <1>4, <2>1, <2>3, RenewStep
  <2>5. vec' = [vec EXCEPT ![v] = [values |-> Fresh, v_size |-> Len(s), v_capacity |-> g,
                                   ctor_initialized |-> init]]
    BY <2>1 DEF Renew
  <2>6. vec'[v].v_size = k + 1
    BY <1>3, <2>5 DEF Fits, Owned, Typed
  <2>7. CASE g >= k + 1
    BY <1>3, <2>3, <2>4, <2>7
  <2>8. CASE init /\ cap = 0
    BY <2>2, <2>4, <2>6, <2>8 DEF Starved
  <2> QED  BY <2>3, <2>7, <2>8
<1> QED  BY <1>5, <1>6

LEMMA EmplaceStep ==
  ASSUME Fits, NEW v \in Vectors, NEW i \in Nat, NEW x \in Elements, Emplace(v, i, x)
  PROVE  Owned' /\ (~ overrun' => Fits') /\ (Starved(v) \/ ~ overrun')
<1> DEFINE one == 1  s == Inserted(v, i, one, x)  k == vec[v].v_size  cap == vec[v].v_capacity
           init == vec[v].ctor_initialized
<1>1. Live(v) /\ k < MaxSize /\ i \in 0..k
  BY DEF Emplace
<1>2. k \in Nat /\ cap \in Nat /\ k <= cap /\ cap <= 2 * MaxSize /\ init \in BOOLEAN
  BY <1>1, VectorLemma, SizeType DEF Members
<1>3. s \in Seq(Elements) /\ Len(s) = k + one
  BY <1>1, InsertedLemma
<1>4. Len(s) = k + 1 /\ Len(s) <= MaxSize
  BY <1>1, <1>2, <1>3, SizeType
<1>5. CASE i = cap
  BY <1>5, PushStep DEF Emplace
<1>6. CASE i # cap /\ Full(v)
  <2>1. Renew(v, s, cap * 2, init)
    BY <1>6 DEF Emplace
  <2>2. cap * 2 \in 0..(2 * MaxSize) /\ Len(s) <= cap * 2
    BY <1>1, <1>2, <1>4, <1>6, SizeType DEF Full
  <2> HIDE DEF s
  <2>3. Owned' /\ (Len(s) <= cap * 2 => Fits' /\ ~ overrun') /\ (~ overrun' => Fits')
    BY <1>2, <1>3, <1>4, <2>1, <2>2, RenewStep
  <2> QED  BY <2>2, <2>3
<1>7. CASE i # cap /\ ~ Full(v)
  <2>1. Rewrite(v, s)
    BY <1>7 DEF Emplace
  <2>2. Len(s) <= vec[v].v_capacity
    BY <1>2, <1>4, <1>7 DEF Full
  <2> HIDE DEF s
  <2>3. Fits' /\ ~ overrun'
    BY <1>1, <1>3, <1>4, <2>1, <2>2, RewriteStep
  <2> QED  BY <2>3 DEF Fits
<1> QED  BY <1>5, <1>6, <1>7

LEMMA InsertManyStep ==
  ASSUME Fits, NEW v \in Vectors, NEW i \in Nat, NEW n \in Sizes, NEW x \in Elements,
         InsertMany(v, i, n, x)
  PROVE  Owned' /\ (~ overrun' => Fits') /\ (vec[v].v_size + n > 2 * vec[v].v_capacity \/ ~ overrun')
<1> DEFINE s == Inserted(v, i, n, x)  k == vec[v].v_size  cap == vec[v].v_capacity
           init == vec[v].ctor_initialized
<1>1. Live(v) /\ k + n <= MaxSize /\ i \in 0..k /\ n \in Nat
  BY SizeType DEF InsertMany, Sizes
<1>2. k \in Nat /\ cap \in Nat /\ k <= cap /\ cap <= 2 * MaxSize /\ init \in BOOLEAN
  BY <1>1, VectorLemma, SizeType DEF Members
<1>3. s \in Seq(Elements) /\ Len(s) = k + n /\ Len(s) <= MaxSize
  BY <1>1, InsertedLemma
<1>4. CASE k + n > cap
  <2>1. Renew(v, s, cap * 2, init)
    BY <1>4 DEF InsertMany
  <2>2. cap * 2 \in 0..(2 * MaxSize)
    BY <1>1, <1>2, <1>4, SizeType
  <2> HIDE DEF s
  <2>3. Owned' /\ (Len(s) <= cap * 2 => Fits' /\ ~ overrun') /\ (~ overrun' => Fits')
    BY <1>2, <1>3, <2>1, <2>2, RenewStep
  <2>4. Len(s) <= cap * 2 \/ k + n > 2 * cap
    BY <1>1, <1>2, <1>3
  <2> QED  BY <2>3, <2>4
<1>5. CASE ~ (k + n > cap)
  <2>1. Rewrite(v, s)
    BY <1>5 DEF InsertMany
  <2>2. Len(s) <= vec[v].v_capacity
    BY <1>1, <1>2, <1>3, <1>5
  <2> HIDE DEF s
  <2>3. Fits' /\ ~ overrun'
    BY <1>1, <1>3, <2>1, <2>2, RewriteStep
  <2> QED  BY <2>3 DEF Fits
<1> QED  BY <1>4, <1>5

LEMMA ReserveStep ==
  ASSUME Fits, ~ overrun, NEW v \in Vectors, NEW n \in Sizes, Reserve(v, n)
  PROVE  Fits' /\ ~ overrun'
<1> DEFINE s == Items(v)  init == vec[v].ctor_initialized
<1>1. Live(v) /\ n \in Nat /\ n <= MaxSize /\ n \in 0..(2 * MaxSize)
  BY SizeType DEF Reserve, Sizes
<1>2. /\ vec[v].v_size <= vec[v].v_capacity /\ vec[v].v_capacity \in Nat
      /\ vec[v].v_size \in Nat /\ init \in BOOLEAN /\ vec[v].v_size <= MaxSize
  BY <1>1, VectorLemma, SizeType DEF Members
<1>3. s \in Seq(Elements) /\ Len(s) = vec[v].v_size
  BY <1>1, ItemsLemma
<1>4. CASE n > vec[v].v_capacity
  <2>1. Renew(v, s, n, init) /\ Len(s) <= n /\ Len(s) <= MaxSize
    BY <1>1, <1>2, <1>3, <1>4 DEF Reserve
  <2> HIDE DEF s, init
  <2>2. Owned' /\ (Len(s) <= n => Fits' /\ ~ overrun') /\ (~ overrun' => Fits')
    BY <1>1, <1>2, <1>3, <2>1, RenewStep DEF init
  <2> QED  BY <2>1, <2>2
<1>5. CASE ~ (n > vec[v].v_capacity)
  <2>1. heap' = heap /\ vec' = vec /\ overrun' = overrun
    BY <1>5 DEF Reserve, vars
  <2> QED
    BY <2>1 DEF Fits, Owned, Typed, OwnBuffers, Roomy, Live, Room, Cells
<1> QED  BY <1>4, <1>5

LEMMA ShrinkStep ==
  ASSUME Fits, NEW v \in Vectors, ShrinkToFit(v) PROVE Fits' /\ ~ overrun'
<1> DEFINE s == Items(v)  k == vec[v].v_size  init == vec[v].ctor_initialized
<1>1. Renew(v, s, k, init) /\ Live(v)
  BY DEF ShrinkToFit
<1>2. k \in 0..(2 * MaxSize) /\ k <= MaxSize /\ init \in BOOLEAN
  BY <1>1, VectorLemma, SizeType DEF Members
<1>3. s \in Seq(Elements) /\ Len(s) = k
  BY <1>1, ItemsLemma
<1>4. Len(s) <= MaxSize /\ Len(s) <= k
  BY <1>2, <1>3
<1> HIDE DEF s, k, init
<1>5. Owned' /\ (Len(s) <= k => Fits' /\ ~ overrun') /\ (~ overrun' => Fits')
  BY <1>1, <1>2, <1>3, <1>4, RenewStep
<1> QED  BY <1>4, <1>5

LEMMA ResizedLemma ==
  ASSUME Fits, NEW v \in Vectors, Live(v), NEW n \in 0..MaxSize, NEW rest \in [Sizes -> Elements]
  PROVE  /\ SubSeq(Items(v) \o rest, 1, n) \in Seq(Elements)
         /\ Len(SubSeq(Items(v) \o rest, 1, n)) = n
<1> DEFINE s == Items(v)  a == s \o rest
<1>1. s \in Seq(Elements) /\ rest \in Seq(Elements) /\ Len(rest) = MaxSize
  BY ItemsLemma, SizeType DEF Sizes
<1>2. n \in Nat /\ n <= MaxSize /\ MaxSize \in Nat
  BY SizeType
<1> HIDE DEF s
<1>3. a \in Seq(Elements) /\ n <= Len(a)
  BY <1>1, <1>2
<1> HIDE DEF a
<1>4. SubSeq(a, 1, n) \in Seq(Elements) /\ Len(SubSeq(a, 1, n)) = IF 1 <= n THEN n - 1 + 1 ELSE 0
  BY <1>2, <1>3, SubSeqLemma
<1>5. Len(SubSeq(a, 1, n)) = n
  BY <1>2, <1>4
<1> QED  BY <1>4, <1>5 DEF a, s

LEMMA ResizeWithStep ==
  ASSUME Fits, NEW v \in Vectors, Live(v), NEW n \in 0..MaxSize, NEW rest \in [Sizes -> Elements],
         ResizeWith(v, n, rest)
  PROVE  Fits' /\ ~ overrun'
<1> DEFINE s == SubSeq(Items(v) \o rest, 1, n)  cap == vec[v].v_capacity  init == TRUE
<1>1. s \in Seq(Elements) /\ Len(s) = n /\ n \in Nat /\ n <= MaxSize /\ n \in 0..(2 * MaxSize)
  <2>1. s \in Seq(Elements) /\ Len(s) = n
    BY ResizedLemma
  <2>2. n \in Nat /\ n <= MaxSize /\ n \in 0..(2 * MaxSize)
    BY SizeType
  <2> QED  BY <2>1, <2>2
<1>2. cap \in Nat /\ init \in BOOLEAN
  BY VectorLemma, SizeType
<1>3. IF n > cap THEN Renew(v, s, n, init) ELSE Rewrite(v, s)
  BY DEF ResizeWith
<1> HIDE DEF s, init
<1>4. CASE n > cap
  <2>1. Owned' /\ (Len(s) <= n => Fits' /\ ~ overrun') /\ (~ overrun' => Fits')
    BY <1>1, <1>2, <1>3, <1>4, RenewStep
  <2> QED  BY <1>1, <2>1
<1>5. CASE ~ (n > cap)
  <2>1. Len(s) <= cap /\ Len(s) <= MaxSize /\ Rewrite(v, s)
    BY <1>1, <1>2, <1>3, <1>5
  <2> QED  BY <1>1, <2>1, RewriteStep
<1> QED  BY <1>4, <1>5

LEMMA ResizeStep ==
  ASSUME Fits, NEW v \in Vectors, NEW n \in 0..MaxSize,
         Resize(v, n) \/ \E x \in Values : ResizeTo(v, n, x)
  PROVE  Fits' /\ ~ overrun'
<1>1. Live(v)
  BY DEF Resize, ResizeTo
<1>2. PICK rest \in [Sizes -> Elements] : ResizeWith(v, n, rest)
  <2>1. CASE Resize(v, n)
    <3>1. AllBlank \in [Sizes -> Elements]
      BY SizeType DEF AllBlank
    <3> QED  BY <2>1, <3>1 DEF Resize
  <2>2. ASSUME NEW x \in Values, ResizeTo(v, n, x)
        PROVE  \E rest \in [Sizes -> Elements] : ResizeWith(v, n, rest)
    <3>1. [i \in Sizes |-> x] \in [Sizes -> Elements]
      BY DEF Elements
    <3> QED  BY <2>2, <3>1 DEF ResizeTo
  <2> QED  BY <2>1, <2>2
<1> QED  BY <1>1, <1>2, ResizeWithStep

-----------------------------------------------------------------------------
(* Shrinking *)

LEMMA PopStep ==
  ASSUME Fits, NEW v \in Vectors, PopBack(v) \/ Clear(v) PROVE Fits' /\ ~ overrun'
<1>1. Live(v)
  BY DEF PopBack, Clear
<1> DEFINE k == vec[v].v_size
<1>2. k \in Nat /\ k <= MaxSize /\ vec[v].v_capacity \in Nat /\ k <= vec[v].v_capacity
  BY <1>1, VectorLemma, SizeType
<1>3. PICK s \in Seq(Elements) : Rewrite(v, s) /\ Len(s) <= k
  <2>1. CASE Clear(v)
    <3>1. <<>> \in Seq(Elements) /\ Len(<<>>) <= k
      BY <1>2
    <3> QED  BY <2>1, <3>1 DEF Clear
  <2>2. CASE PopBack(v)
    <3> DEFINE a == Items(v)  n == k - 1  s == SubSeq(a, 1, n)
    <3>1. Rewrite(v, s) /\ k > 0
      BY <2>2 DEF PopBack
    <3>2. a \in Seq(Elements) /\ Len(a) = k
      BY <1>1, ItemsLemma
    <3>3. n \in Nat /\ n <= Len(a)
      BY <1>2, <3>1, <3>2
    <3> HIDE DEF a, n
    <3>4. s \in Seq(Elements) /\ Len(s) = IF 1 <= n THEN n - 1 + 1 ELSE 0
      BY <3>2, <3>3, SubSeqLemma
    <3>5. Len(s) <= k
      BY <1>2, <3>3, <3>4 DEF n
    <3> QED  BY <3>1, <3>4, <3>5
  <2> QED  BY <2>1, <2>2
<1>4. Len(s) <= MaxSize /\ Len(s) <= vec[v].v_capacity
  BY <1>2, <1>3, SizeType
<1> QED  BY <1>1, <1>3, <1>4, RewriteStep

\* What is left of s when the elements i + 1 to j go.
LEMMA CutLemma ==
  ASSUME NEW s \in Seq(Elements), NEW i \in Nat, NEW j \in Nat, i <= j, j <= Len(s)
  PROVE  /\ SubSeq(s, 1, i) \o SubSeq(s, j + 1, Len(s)) \in Seq(Elements)
         /\ Len(SubSeq(s, 1, i) \o SubSeq(s, j + 1, Len(s))) = i + (Len(s) - j)
<1> DEFINE k == Len(s)  p == SubSeq(s, 1, i)  q == SubSeq(s, j + 1, k)
<1>1. p \in Seq(Elements) /\ Len(p) = i
  <2>1. i <= Len(s)
    OBVIOUS
  <2>2. p \in Seq(Elements) /\ Len(p) = IF 1 <= i THEN i - 1 + 1 ELSE 0
    BY <2>1, SubSeqLemma
  <2> QED  BY <2>2
<1>2. q \in Seq(Elements) /\ Len(q) = k - j
  <2>1. j + 1 \in Nat /\ j + 1 >= 1 /\ k \in Nat /\ k <= Len(s)
    OBVIOUS
  <2>2. q \in Seq(Elements) /\ Len(q) = IF j + 1 <= k THEN k - (j + 1) + 1 ELSE 0
    BY <2>1, SubSeqLemma
  <2> QED  BY <2>1, <2>2
<1> HIDE DEF p, q
<1>3. p \o q \in Seq(Elements) /\ Len(p \o q) = i + (k - j)
  BY <1>1, <1>2
<1> QED  BY <1>3 DEF p, q

LEMMA EraseRangeStep ==
  ASSUME Fits, NEW v \in Vectors, NEW i \in Nat, NEW j \in Nat, EraseRange(v, i, j)
  PROVE  Fits' /\ ~ overrun'
<1> DEFINE a == Items(v)  k == vec[v].v_size  s == SubSeq(a, 1, i) \o SubSeq(a, j + 1, k)
<1>1. Live(v) /\ i <= j /\ j <= k /\ Rewrite(v, s)
  BY DEF EraseRange
<1>2. k \in Nat /\ k <= MaxSize /\ vec[v].v_capacity \in Nat /\ k <= vec[v].v_capacity
  BY <1>1, VectorLemma, SizeType
<1>3. a \in Seq(Elements) /\ Len(a) = k
  BY <1>1, ItemsLemma
<1>4. s \in Seq(Elements) /\ Len(s) = i + (k - j)
  <2>1. i <= j /\ j <= Len(a)
    BY <1>1, <1>3
  <2> HIDE DEF a
  <2>2. /\ SubSeq(a, 1, i) \o SubSeq(a, j + 1, Len(a)) \in Seq(Elements)
        /\ Len(SubSeq(a, 1, i) \o SubSeq(a, j + 1, Len(a))) = i + (Len(a) - j)
    BY <1>3, <2>1, CutLemma
  <2> QED  BY <1>3, <2>2
<1>5. Len(s) <= MaxSize /\ Len(s) <= vec[v].v_capacity
  BY <1>1, <1>2, <1>4, SizeType
<1> HIDE DEF s
<1> QED  BY <1>1, <1>4, <1>5, RewriteStep

LEMMA WithoutLemma ==
  ASSUME NEW s \in Seq(Elements), NEW dist \in Nat
  PROVE  /\ Without(s, dist) \in Seq(Elements)
         /\ Len(Without(s, dist)) = IF dist < Len(s) THEN Len(s) - 1 ELSE Len(s)
<1>1. CASE dist < Len(s)
  <2> DEFINE j == dist + 1  t == SubSeq(s, 1, dist) \o SubSeq(s, j + 1, Len(s))
  <2>1. j \in Nat /\ dist <= j /\ j <= Len(s) /\ j + 1 = dist + 2
    BY <1>1
  <2>2. Without(s, dist) = t
    BY <1>1, <2>1 DEF Without
  <2> HIDE DEF j
  <2>3. t \in Seq(Elements) /\ Len(t) = dist + (Len(s) - j)
    BY <2>1, CutLemma
  <2>4. dist + (Len(s) - j) = Len(s) - 1
    BY DEF j
  <2> QED  BY <1>1, <2>2, <2>3, <2>4
<1>2. CASE ~ (dist < Len(s))
  BY <1>2 DEF Without
<1> QED  BY <1>1, <1>2

LEMMA EraseAnywhereStep ==
  ASSUME Fits, ~ overrun, NEW v \in Vectors, NEW dist \in Nat, EraseAnywhere(v, dist)
  PROVE  Fits' /\ (dist >= vec[v].v_size \/ ~ overrun')
<1> DEFINE k == vec[v].v_size  size == IF k = 0 THEN 0 ELSE k - 1
           cap == PowerOfTwo(size)  a == Items(v)  kept == Without(a, dist)
<1>1. Live(v)
  BY DEF EraseAnywhere
<1>2. /\ k \in Nat /\ k <= MaxSize /\ k <= vec[v].v_capacity /\ vec[v] \in Members
      /\ Room(v) \in Nat
  BY <1>1, VectorLemma, SizeType
<1>3. a \in Seq(Elements) /\ Len(a) = k
  BY <1>1, ItemsLemma
<1> HIDE DEF a
<1>4. kept \in Seq(Elements) /\ Len(kept) = IF dist < k THEN k - 1 ELSE k
  BY <1>3, WithoutLemma
<1> HIDE DEF kept
<1>5. size \in Nat /\ size <= MaxSize /\ size <= Len(kept)
      /\ (size # 0 => 2 * size + 2 <= 2 * MaxSize)
  <2> HIDE DEF k
  <2> QED  BY <1>2, <1>4, SizeType
<1>6. CASE size = 0
  <2> DEFINE r == [vec[v] EXCEPT !.v_size = 0, !.v_capacity = 0]  c == Filled(<<>>, Room(v))
  <2>1. /\ vec' = [vec EXCEPT ![v].v_size = 0, ![v].v_capacity = 0] /\ overrun' = overrun
        /\ heap' = heap \/ heap' = [heap EXCEPT ![vec[v].values] = c]
    BY <1>6 DEF EraseAnywhere, a, kept
  <2>2. vec' = [vec EXCEPT ![v] = r]
    BY <2>1
  <2>3. r \in Members /\ r.values = vec[v].values /\ r.v_size = 0 /\ r.v_capacity = 0
    <3>1. 0 \in -1..MaxSize /\ 0 \in 0..(2 * MaxSize)
      BY SizeType
    <3> QED  BY <1>2, <3>1 DEF Members
  <2>4. c \in Seq(Elements) /\ Len(c) = Room(v)
    <3>1. <<>> \in Seq(Elements)
      OBVIOUS
    <3> QED  BY <1>2, <3>1, FilledLemma
  <2> HIDE DEF r, c
  <2>5. r.v_size \in Nat /\ r.v_size <= r.v_capacity /\ r.v_capacity <= Room(v)
    BY <1>2, <2>3
  <2>6. Fits'
    BY <2>1, <2>2, <2>3, <2>4, <2>5, SameBuffer
  <2> QED  BY <2>1, <2>6 DEF Fits
<1>7. CASE size # 0
  <2> DEFINE s == SubSeq(kept, 1, size)  c == Filled(s, cap)
             r == [vec[v] EXCEPT !.values = Fresh, !.v_size = size, !.v_capacity = cap]
  <2>1. /\ heap' = Allocated(Free(v), Fresh, c)
        /\ vec' = [vec EXCEPT ![v].values = Fresh, ![v].v_size = size, ![v].v_capacity = cap]
        /\ overrun' = (Len(kept) > cap)
    BY <1>7 DEF EraseAnywhere, a, kept
  <2>2. vec' = [vec EXCEPT ![v] = r]
    BY <2>1
  <2> HIDE DEF size
  <2>3. cap \in Nat /\ size <= cap /\ cap <= 2 * MaxSize
    <3>1. cap \in size..(2 * size + 2)
      BY <1>5, <1>7, PowerOfTwoLemma
    <3> HIDE DEF cap
    <3> QED  BY <1>5, <1>7, <3>1, SizeType
  <2>4. s \in Seq(Elements)
    BY <1>4, <1>5, SubSeqLemma
  <2> HIDE DEF s, cap
  <2>5. c \in Seq(Elements) /\ Len(c) = cap
    BY <2>3, <2>4, FilledLemma
  <2>6. r \in Members /\ r.values = Fresh /\ r.v_size = size /\ r.v_capacity = cap
    <3>1. Fresh \in Blocks
      BY FreshLemma DEF Fits
    <3>2. size \in -1..MaxSize /\ cap \in 0..(2 * MaxSize)
      BY <1>5, <2>3, SizeType
    <3> QED  BY <1>2, <3>1, <3>2 DEF Members
  <2> HIDE DEF c, r
  <2>7. r.v_size \in Nat /\ r.v_size <= r.v_capacity /\ r.v_capacity <= Len(c)
    BY <1>5, <2>3, <2>5, <2>6
  <2>8. Fits'
    BY <2>1, <2>2, <2>5, <2>6, <2>7, NewBuffer
  <2>9. dist < k => ~ (Len(kept) > cap)
    BY <1>2, <1>4, <1>7, <2>3 DEF size
  <2>10. dist < k => ~ overrun'
    BY <2>1, <2>9, Zenon
  <2>11. dist < k \/ dist >= k
    BY <1>2
  <2> QED  BY <2>8, <2>10, <2>11 DEF Fits
<1> QED  BY <1>6, <1>7

-----------------------------------------------------------------------------
(* Every call *)

\* The ways in which a call can leave a buffer.
Cause ==
  \E v \in Vectors :
    \/ vec[v].ctor_initialized /\ vec[v].v_capacity = 0 /\ vec'[v].v_size = 1
    \/ \E i \in Positions, n \in Sizes, x \in Values :
         vec[v].v_size + n > 2 * vec[v].v_capacity /\ InsertMany(v, i, n, x)
    \/ \E i \in Positions : i >= vec[v].v_size /\ EraseAnywhere(v, i)

LEMMA ConstructStep ==
  ASSUME Fits, ~ overrun, NEW v \in Vectors, Construct(v) PROVE Fits' /\ ~ overrun'
<1>1. CASE Default(v)
  BY <1>1, DefaultStep
<1>2. ASSUME NEW s \in Contents, Listed(v, s) PROVE Fits' /\ ~ overrun'
  BY <1>2, ListedStep
<1>3. ASSUME NEW n \in Sizes, NEW x \in Elements, Sized(v, n, x) PROVE Fits' /\ ~ overrun'
  <2>1. n \in 0..MaxSize
    BY SizeType DEF Sizes
  <2> QED  BY <1>3, <2>1, SizedStep
<1>4. CASE Sized(v, 0, Blank)
  <2>1. 0 \in 0..MaxSize /\ Blank \in Elements
    BY SizeType
  <2> QED  BY <1>4, <2>1, SizedStep
<1>5. ASSUME NEW w \in Vectors, Copy(v, w) PROVE Fits' /\ ~ overrun'
  BY <1>5, CopyStep
<1>6. ASSUME NEW w \in Vectors, MoveNew(v, w) PROVE Fits' /\ ~ overrun'
  BY <1>6, MoveNewStep
<1> QED  BY <1>1, <1>2, <1>3, <1>4, <1>5, <1>6 DEF Construct

LEMMA WholeStep ==
  ASSUME Fits, ~ overrun, NEW v \in Vectors, Whole(v) PROVE Fits' /\ ~ overrun'
<1>1. ASSUME NEW w \in Vectors, Assign(v, w) PROVE Fits' /\ ~ overrun'
  BY <1>1, AssignStep
<1>2. ASSUME NEW w \in Vectors, Swap(v, w) PROVE Fits' /\ ~ overrun'
  BY <1>2, SwapStep
<1>3. CASE Destroy(v)
  BY <1>3, DestroyStep
<1> QED  BY <1>1, <1>2, <1>3 DEF Whole

LEMMA ModifyStep ==
  ASSUME Fits, ~ overrun, NEW v \in Vectors, Modify(v)
  PROVE  Owned' /\ (~ overrun' => Fits') /\ (Cause \/ ~ overrun')
<1> DEFINE Goal == Owned' /\ (~ overrun' => Fits') /\ (Cause \/ ~ overrun')
<1>0. /\ Fits' => Owned'
      /\ Starved(v) => Cause
      /\ Positions \subseteq Nat
      /\ \A x \in Values : x \in Elements
  BY SizeAssumption DEF Fits, Starved, Cause, Elements
<1>1. ASSUME NEW x \in Values, EmplaceBack(v, x) PROVE Goal
  BY <1>0, <1>1, PushStep
<1>2. ASSUME NEW x \in Values, NEW i \in Positions, Emplace(v, i, x) PROVE Goal
  BY <1>0, <1>2, EmplaceStep
<1>3. ASSUME NEW x \in Values, NEW i \in Positions, NEW n \in Sizes, InsertMany(v, i, n, x)
      PROVE  Goal
  <2>1. Owned' /\ (~ overrun' => Fits') /\ (vec[v].v_size + n > 2 * vec[v].v_capacity \/ ~ overrun')
    BY <1>0, <1>3, InsertManyStep
  <2> QED  BY <1>3, <2>1 DEF Cause
<1>4. CASE PopBack(v) \/ Clear(v)
  BY <1>0, <1>4, PopStep
<1>5. ASSUME NEW i \in Positions, EraseAnywhere(v, i) PROVE Goal
  <2>1. Fits' /\ (i >= vec[v].v_size \/ ~ overrun')
    BY <1>0, <1>5, EraseAnywhereStep
  <2> QED  BY <1>0, <1>5, <2>1 DEF Cause
<1>6. ASSUME NEW i \in Positions, NEW j \in Positions, EraseRange(v, i, j) PROVE Goal
  BY <1>0, <1>6, EraseRangeStep
<1>7. ASSUME NEW n \in Sizes, Reserve(v, n) PROVE Goal
  BY <1>0, <1>7, ReserveStep
<1>8. CASE ShrinkToFit(v)
  BY <1>0, <1>8, ShrinkStep
<1>9. ASSUME NEW n \in 0..MaxSize, Resize(v, n) \/ \E x \in Values : ResizeTo(v, n, x)
      PROVE  Goal
  BY <1>0, <1>9, ResizeStep
<1> HIDE DEF Goal
<1>10. \/ \E x \in Values : EmplaceBack(v, x)
       \/ \E x \in Values, i \in Positions : Emplace(v, i, x)
       \/ \E x \in Values, i \in Positions, n \in Sizes : InsertMany(v, i, n, x)
       \/ PopBack(v) \/ Clear(v) \/ \E i \in Positions : Erase(v, i)
       \/ \E i \in Positions : EraseAnywhere(v, i)
       \/ \E i, j \in Positions : EraseRange(v, i, j)
       \/ \E n \in Sizes : Reserve(v, n)
       \/ ShrinkToFit(v)
       \/ \E n \in 0..MaxSize : Resize(v, n) \/ \E x \in Values : ResizeTo(v, n, x)
  BY Zenon DEF Modify
<1>11. ASSUME NEW i \in Positions, Erase(v, i) PROVE Goal
  BY <1>5, <1>11, Zenon DEF Erase
<1>12. Goal
  <2>1. CASE \E x \in Values : EmplaceBack(v, x)
    BY <1>1, <2>1, Zenon
  <2>2. CASE \E x \in Values, i \in Positions : Emplace(v, i, x)
    BY <1>2, <2>2, Zenon
  <2>3. CASE \E x \in Values, i \in Positions, n \in Sizes : InsertMany(v, i, n, x)
    BY <1>3, <2>3, Zenon
  <2>4. CASE \E i, j \in Positions : EraseRange(v, i, j)
    BY <1>6, <2>4, Zenon
  <2>5. CASE \E n \in 0..MaxSize : Resize(v, n) \/ \E x \in Values : ResizeTo(v, n, x)
    BY <1>9, <2>5, Zenon
  <2>6. CASE \E n \in Sizes : Reserve(v, n)
    BY <1>7, <2>6, Zenon
  <2>7. CASE (\E i \in Positions : EraseAnywhere(v, i)) \/ \E i \in Positions : Erase(v, i)
    BY <1>5, <1>11, <2>7, Zenon
  <2>8. CASE PopBack(v) \/ Clear(v)
    BY <1>4, <2>8 DEF Goal
  <2>9. CASE ShrinkToFit(v)
    BY <1>8, <2>9 DEF Goal
  <2> QED  BY <1>10, <2>1, <2>2, <2>3, <2>4, <2>5, <2>6, <2>7, <2>8, <2>9, Zenon
<1> QED  BY <1>12 DEF Goal

LEMMA RenewTells ==
  ASSUME NEW v, NEW s, NEW cap, NEW init, Renew(v, s, cap, init) PROVE overrun' \in BOOLEAN
<1>1. overrun' = (Len(s) > cap)
  BY Zenon DEF Renew
<1> QED  BY <1>1

LEMMA RewriteTells == ASSUME NEW v, NEW s, Rewrite(v, s) PROVE overrun' \in BOOLEAN
<1>1. overrun' = (Len(s) > Room(v))
  BY Zenon DEF Rewrite
<1> QED  BY <1>1

LEMMA CallTells ==
  ASSUME overrun \in BOOLEAN, NEW v \in Vectors, Construct(v) \/ Whole(v) \/ Modify(v)
  PROVE  overrun' \in BOOLEAN
<1> USE RenewTells, RewriteTells
<1>1. ASSUME overrun' = overrun PROVE overrun' \in BOOLEAN
  BY <1>1, Zenon
<1>2. CASE Construct(v)
  <2>1. ASSUME NEW n, NEW x, Sized(v, n, x) PROVE overrun' \in BOOLEAN
    BY <2>1, Zenon DEF Sized
  <2>2. ASSUME NEW s, Listed(v, s) PROVE overrun' \in BOOLEAN
    BY <2>2, Zenon DEF Listed
  <2>3. ASSUME NEW w, Copy(v, w) PROVE overrun' \in BOOLEAN
    BY <2>3, Zenon DEF Copy
  <2>4. ASSUME NEW w, Default(v) \/ MoveNew(v, w) PROVE overrun' \in BOOLEAN
    BY <1>1, <2>4, Zenon DEF Default, MoveNew
  <2> QED  BY <1>2, <2>1, <2>2, <2>3, <2>4, Zenon DEF Construct
<1>3. CASE Whole(v)
  <2>1. ASSUME NEW w, Assign(v, w) PROVE overrun' \in BOOLEAN
    BY <2>1, Zenon DEF Assign
  <2>2. ASSUME NEW w, Destroy(v) \/ Swap(v, w) PROVE overrun' \in BOOLEAN
    BY <1>1, <2>2, Zenon DEF Destroy, Swap
  <2> QED  BY <1>3, <2>1, <2>2, Zenon DEF Whole
<1>4. CASE Modify(v)
  <2>1. ASSUME NEW x, EmplaceBack(v, x) PROVE overrun' \in BOOLEAN
    BY <2>1, Zenon DEF EmplaceBack
  <2>2. ASSUME NEW i, NEW x, Emplace(v, i, x) PROVE overrun' \in BOOLEAN
    BY <2>1, <2>2, Zenon DEF Emplace
  <2>3. ASSUME NEW i, NEW n, NEW x, InsertMany(v, i, n, x) PROVE overrun' \in BOOLEAN
    BY <2>3, Zenon DEF InsertMany
  <2>4. ASSUME PopBack(v) \/ Clear(v) PROVE overrun' \in BOOLEAN
    BY <2>4, Zenon DEF PopBack, Clear
  <2>5. ASSUME NEW i, EraseAnywhere(v, i) PROVE overrun' \in BOOLEAN
    <3> DEFINE size == IF vec[v].v_size = 0 THEN 0 ELSE vec[v].v_size - 1
               kept == Without(Items(v), i)
    <3>1. overrun' = overrun \/ overrun' = (Len(kept) > PowerOfTwo(size))
      BY <2>5, Zenon DEF EraseAnywhere
    <3> HIDE DEF size, kept
    <3>2. ASSUME overrun' = (Len(kept) > PowerOfTwo(size)) PROVE overrun' \in BOOLEAN
      BY <3>2
    <3> QED  BY <1>1, <3>1, <3>2, Zenon
  <2>6. ASSUME NEW i, NEW j, EraseRange(v, i, j) PROVE overrun' \in BOOLEAN
    BY <2>6, Zenon DEF EraseRange
  <2>7. ASSUME NEW n, Reserve(v, n) PROVE overrun' \in BOOLEAN
    <3>1. Renew(v, Items(v), n, vec[v].ctor_initialized) \/ overrun' = overrun
      BY <2>7, Zenon DEF Reserve, vars
    <3> QED  BY <1>1, <3>1, Zenon
  <2>8. ASSUME ShrinkToFit(v) PROVE overrun' \in BOOLEAN
    BY <2>8, Zenon DEF ShrinkToFit
  <2>9. ASSUME NEW n, NEW rest, ResizeWith(v, n, rest) PROVE overrun' \in BOOLEAN
    BY <2>9, Zenon DEF ResizeWith
  <2>10. ASSUME NEW n, NEW x, Resize(v, n) \/ ResizeTo(v, n, x) PROVE overrun' \in BOOLEAN
    BY <2>9, <2>10, Zenon DEF Resize, ResizeTo
  <2> QED
    BY <1>4, <2>1, <2>2, <2>3, <2>4, <2>5, <2>6, <2>7, <2>8, <2>10, Zenon DEF Modify, Erase
<1> QED  BY <1>2, <1>3, <1>4

-----------------------------------------------------------------------------
(* The theorems *)

LEMMA InitInvariant == Init => IInv
<1> SUFFICES ASSUME Init PROVE IInv
  OBVIOUS
<1>1. heap = <<>> /\ vec = [v \in Vectors |-> NoVector] /\ overrun = FALSE
  BY DEF Init
<1>2. NoVector \in Members /\ NoVector.values = Null
  BY SizeType DEF NoVector, Members
<1>3. DOMAIN heap = {}
  BY <1>1
<1>4. Owned /\ Roomy
  BY <1>1, <1>2, <1>3 DEF Owned, Typed, OwnBuffers, Roomy, Live
<1> QED  BY <1>1, <1>4 DEF IInv

LEMMA StepInvariant ==
  ASSUME IInv, ~ overrun, NEW v \in Vectors, Construct(v) \/ Whole(v) \/ Modify(v)
  PROVE  IInv' /\ (Cause \/ ~ overrun')
<1>1. Fits /\ overrun \in BOOLEAN
  BY DEF IInv, Fits
<1>2. Owned' /\ (~ overrun' => Fits') /\ (Cause \/ ~ overrun')
  <2>1. CASE Construct(v)
    BY <1>1, <2>1, ConstructStep DEF Fits
  <2>2. CASE Whole(v)
    BY <1>1, <2>2, WholeStep DEF Fits
  <2>3. CASE Modify(v)
    BY <1>1, <2>3, ModifyStep
  <2> QED  BY <2>1, <2>2, <2>3
<1>3. overrun' \in BOOLEAN
  BY <1>1, CallTells
<1> QED  BY <1>2, <1>3, Zenon DEF IInv, Fits

LEMMA NextInvariant == IInv /\ [Next]_vars => IInv'
<1> SUFFICES ASSUME IInv, [Next]_vars PROVE IInv'
  OBVIOUS
<1>1. CASE Next /\ ~ overrun
  BY <1>1, StepInvariant DEF Next, Stop
<1>2. CASE UNCHANGED vars
  <2>1. heap' = heap /\ vec' = vec /\ overrun' = overrun
    BY <1>2 DEF vars
  <2> QED
    BY <2>1, Zenon DEF IInv, Owned, Typed, OwnBuffers, Roomy, Live, Room, Cells
<1> QED  BY <1>1, <1>2 DEF Next, Stop

LEMMA Invariance == Spec => []IInv
BY InitInvariant, NextInvariant, PTL DEF Spec

\* The members of every vector have their types; the capacity never gets beyond
\* the double of the largest size, whatever rule it grew by (Vector.hpp:655-699).
THEOREM TypeCorrect == Spec => []TypeOK
<1>1. IInv => TypeOK
  BY Zenon DEF IInv, Owned, Typed, TypeOK
<1> QED  BY <1>1, Invariance, PTL

\* Every block belongs to one vector, and every vector to its own block: nothing
\* leaks, nothing is deleted twice (Vector.hpp:415-457, 1025-1040).
THEOREM OneBufferEach == Spec => []OwnBuffers
<1>1. IInv => OwnBuffers
  BY DEF IInv, Owned
<1> QED  BY <1>1, Invariance, PTL

\* Until an overrun, the size is within the capacity and the capacity within the
\* buffer (Vector.hpp:655-699, 873-892).
THEOREM CapacityIsReal == Spec => []RoomForSize
<1>1. IInv => RoomForSize
  BY DEF IInv, Roomy, RoomForSize
<1> QED  BY <1>1, Invariance, PTL

\* A buffer is left only when a capacity of 0 is doubled (Vector.hpp:666), when
\* more is inserted than one doubling makes room for (774), or when an element
\* beyond the end is erased (898): there is no fourth way.
THEOREM BuffersAreLeftInThreeWays == Spec => OverrunCauses
<1>1. IInv /\ [Next]_vars => [~ overrun /\ overrun' => Cause]_vars
  <2> SUFFICES ASSUME IInv, Next, ~ overrun, overrun' PROVE Cause
    OBVIOUS
  <2>1. \E v \in Vectors : Construct(v) \/ Whole(v) \/ Modify(v)
    BY DEF Next, Stop
  <2> QED  BY <2>1, StepInvariant
<1>2. Spec => [][~ overrun /\ overrun' => Cause]_vars
  BY <1>1, Invariance, PTL DEF Spec
<1> QED  BY <1>2 DEF OverrunCauses, Cause

-----------------------------------------------------------------------------
(* Vectors as sequences of their own *)

\* What the vectors show of themselves.
Shown == [v \in {u \in Vectors : Live(u)} |-> Items(v)]

\* The call leaves v with the elements s, and no other vector changes.
Becomes(v, s) ==
  /\ Live(v)' /\ Items(v)' = s
  /\ \A w \in Vectors : w # v => (Live(w)' <=> Live(w)) /\ Items(w)' = Items(w)

LEMMA HeadLemma ==
  ASSUME NEW s \in Seq(Elements), NEW n \in Nat, Len(s) <= n
  PROVE  SubSeq(Filled(s, n), 1, Len(s)) = s
<1> DEFINE c == Filled(s, n)  k == Len(s)  t == SubSeq(c, 1, k)
<1>1. c \in Seq(Elements) /\ Len(c) = n /\ \A i \in 1..n : c[i] = IF i <= k THEN s[i] ELSE Blank
  BY FilledLemma
<1>2. k \in Nat /\ k <= n
  OBVIOUS
<1> HIDE DEF c
<1>3. /\ t \in Seq(Elements) /\ Len(t) = IF 1 <= k THEN k - 1 + 1 ELSE 0
      /\ \A i \in 1..Len(t) : t[i] = c[1 + i - 1]
  BY <1>1, <1>2, SubSeqLemma
<1> HIDE DEF t
<1>4. Len(t) = Len(s)
  BY <1>2, <1>3
<1>5. \A i \in 1..Len(t) : t[i] = s[i]
  BY <1>1, <1>2, <1>3, <1>4
<1>6. t = s
  BY <1>3, <1>4, <1>5, SeqEqual
<1> QED  BY <1>6 DEF t, c

\* A vector whose members and buffer stay shows what it did.
LEMMA StillItems ==
  ASSUME NEW w \in Vectors, vec'[w] = vec[w], Cells(w)' = Cells(w)
  PROVE  (Live(w)' <=> Live(w)) /\ Items(w)' = Items(w)
<1> DEFINE f(x, y, z) == SubSeq(x, 1, IF y <= z THEN y ELSE z)
<1>1. Room(w)' = Room(w)
  BY DEF Room
<1>2. Items(w) = f(Cells(w), vec[w].v_size, Room(w))
  BY DEF Items
<1>3. Items(w)' = f(Cells(w)', vec'[w].v_size, Room(w)')
  BY DEF Items
<1> HIDE DEF f
<1> QED  BY <1>1, <1>2, <1>3 DEF Live

LEMMA NewItems ==
  ASSUME Fits, NEW v \in Vectors, NEW r \in Members, NEW c \in Seq(Elements),
         r.values = Fresh, r.v_size \in Nat, r.v_size <= Len(c),
         vec' = [vec EXCEPT ![v] = r], heap' = Allocated(Free(v), Fresh, c)
  PROVE  Becomes(v, SubSeq(c, 1, r.v_size))
<1> DEFINE b == Fresh  old == vec[v].values
<1>1. b \notin DOMAIN heap
  BY FreshLemma DEF Fits
<1>2. vec \in [Vectors -> Members]
  BY DEF Fits, Owned, Typed
<1>3. /\ DOMAIN heap' = (DOMAIN heap \ {old}) \union {b}
      /\ heap'[b] = c /\ \A d \in DOMAIN heap \ {old} : heap'[d] = heap[d]
  BY <1>1 DEF Allocated, Free
<1>4. vec'[v] = r /\ \A w \in Vectors : w # v => vec'[w] = vec[w]
  BY <1>2
<1> HIDE DEF b
<1>5. r.values = b
  BY DEF b
<1>6. Cells(v)' = c
  BY <1>3, <1>4, <1>5 DEF Cells
<1>7. Items(v)' = SubSeq(c, 1, r.v_size)
  BY <1>4, <1>6 DEF Items, Room
<1>8. r # NoVector
  BY DEF NoVector
<1>9. ASSUME NEW w \in Vectors, w # v PROVE (Live(w)' <=> Live(w)) /\ Items(w)' = Items(w)
  <2>1. vec'[w] = vec[w] /\ vec[w].values # b
    BY <1>1, <1>4, <1>9, FreshLemma DEF Fits, Owned, OwnBuffers, b
  <2>2. vec[w].values \in DOMAIN heap => vec[w].values # old
    BY <1>9 DEF Fits, Owned, OwnBuffers
  <2>3. Cells(w)' = Cells(w)
    BY <1>3, <2>1, <2>2 DEF Cells
  <2> QED  BY <2>1, <2>3, StillItems
<1> QED  BY <1>4, <1>7, <1>8, <1>9 DEF Becomes, Live

LEMMA SameItems ==
  ASSUME Fits, NEW v \in Vectors, NEW r \in Members, NEW c \in Seq(Elements),
         r.values = vec[v].values, r.v_size \in Nat, Len(c) = Room(v), r.v_size <= Room(v),
         vec' = [vec EXCEPT ![v] = r],
         heap' = IF vec[v].values = Null THEN heap ELSE [heap EXCEPT ![vec[v].values] = c]
  PROVE  Becomes(v, SubSeq(c, 1, r.v_size))
<1> DEFINE old == vec[v].values
<1>1. vec \in [Vectors -> Members] /\ DOMAIN heap \subseteq Blocks /\ old \in DOMAIN heap \union {Null}
  BY DEF Fits, Owned, Typed, OwnBuffers
<1>2. vec'[v] = r /\ \A w \in Vectors : w # v => vec'[w] = vec[w]
  BY <1>1
<1>3. Null \notin Blocks
  BY VectorsAssumption, FS_CardinalityType DEF Null, Blocks
<1>4. DOMAIN heap' = DOMAIN heap /\ \A d \in DOMAIN heap : d # old => heap'[d] = heap[d]
  OBVIOUS
<1>5. Cells(v)' = c
  <2>1. CASE old \in DOMAIN heap
    <3>1. old # Null /\ heap'[old] = c
      BY <1>1, <1>3, <2>1
    <3> QED  BY <1>2, <1>4, <2>1, <3>1 DEF Cells
  <2>2. CASE old \notin DOMAIN heap
    <3>1. Cells(v) = <<>> /\ Cells(v)' = <<>>
      BY <1>2, <1>4, <2>2 DEF Cells
    <3>2. Len(c) = 0
      BY <3>1 DEF Room
    <3>3. c = <<>>
      BY <3>2
    <3> QED  BY <3>1, <3>3
  <2> QED  BY <2>1, <2>2
<1>6. Items(v)' = SubSeq(c, 1, r.v_size)
  BY <1>2, <1>5 DEF Items, Room
<1>7. r # NoVector
  BY DEF NoVector
<1>8. ASSUME NEW w \in Vectors, w # v PROVE (Live(w)' <=> Live(w)) /\ Items(w)' = Items(w)
  <2>1. vec'[w] = vec[w]
    BY <1>2, <1>8
  <2>2. vec[w].values \in DOMAIN heap => vec[w].values # old
    BY <1>8 DEF Fits, Owned, OwnBuffers
  <2>3. Cells(w)' = Cells(w)
    BY <1>4, <2>1, <2>2 DEF Cells
  <2> QED  BY <2>1, <2>3, StillItems
<1> QED  BY <1>2, <1>6, <1>7, <1>8 DEF Becomes, Live

LEMMA RenewItems ==
  ASSUME Fits, NEW v \in Vectors, NEW s \in Seq(Elements), Len(s) <= MaxSize,
         NEW cap \in 0..(2 * MaxSize), NEW init \in BOOLEAN, Len(s) <= cap, Renew(v, s, cap, init)
  PROVE  Becomes(v, s)
<1> DEFINE r == [values |-> Fresh, v_size |-> Len(s), v_capacity |-> cap, ctor_initialized |-> init]
           c == Filled(s, cap)
<1>1. Len(s) \in Nat /\ cap \in Nat
  BY SizeType
<1>2. r \in Members /\ r.values = Fresh /\ r.v_size = Len(s)
  BY <1>1, FreshLemma, SizeType DEF Members, Fits, Owned
<1>3. c \in Seq(Elements) /\ Len(c) = cap /\ SubSeq(c, 1, Len(s)) = s
  BY <1>1, FilledLemma, HeadLemma
<1>4. vec' = [vec EXCEPT ![v] = r] /\ heap' = Allocated(Free(v), Fresh, c)
  BY DEF Renew
<1> HIDE DEF r, c
<1>5. r.v_size \in Nat /\ r.v_size <= Len(c)
  BY <1>1, <1>2, <1>3
<1>6. Becomes(v, SubSeq(c, 1, r.v_size))
  BY <1>2, <1>3, <1>4, <1>5, NewItems
<1> QED  BY <1>2, <1>3, <1>6

LEMMA RewriteItems ==
  ASSUME Fits, NEW v \in Vectors, Live(v), NEW s \in Seq(Elements),
         Len(s) <= MaxSize, Len(s) <= vec[v].v_capacity, Rewrite(v, s)
  PROVE  Becomes(v, s)
<1> DEFINE r == [vec[v] EXCEPT !.v_size = Len(s)]  c == Filled(s, Room(v))
<1>1. /\ Len(s) \in 0..MaxSize /\ vec[v] \in Members /\ Room(v) \in Nat
      /\ vec[v].v_capacity \in Nat /\ vec[v].v_capacity <= Room(v)
  BY VectorLemma, SizeType
<1>2. r \in Members /\ r.values = vec[v].values /\ r.v_size = Len(s)
  <2>1. Len(s) \in -1..MaxSize
    BY <1>1
  <2> QED  BY <1>1, <2>1 DEF Members
<1>3. Len(s) \in Nat /\ Len(s) <= Room(v)
  BY <1>1, SizeType
<1>4. c \in Seq(Elements) /\ Len(c) = Room(v) /\ SubSeq(c, 1, Len(s)) = s
  BY <1>1, <1>3, FilledLemma, HeadLemma
<1>5. /\ vec' = [vec EXCEPT ![v] = r]
      /\ heap' = IF vec[v].values = Null THEN heap ELSE [heap EXCEPT ![vec[v].values] = c]
  BY DEF Rewrite
<1> HIDE DEF r, c
<1>6. Becomes(v, SubSeq(c, 1, r.v_size))
  BY <1>2, <1>3, <1>4, <1>5, SameItems
<1> QED  BY <1>2, <1>4, <1>6

LEMMA ChangeLemma ==
  ASSUME NEW v \in Vectors, NEW s, Becomes(v, s) PROVE Abstract!Change(v, s)
<1> DEFINE L == {u \in Vectors : Live(u)}  M == {u \in Vectors : Live(u)'}
<1>1. M = L \union {v}
  BY DEF Becomes
<1>2. Shown' = [u \in M |-> Items(u)']
  BY DEF Shown
<1>3. \A u \in M : Items(u)' = IF u = v THEN s ELSE Shown[u]
  BY <1>1 DEF Becomes, Shown
<1>4. DOMAIN Shown = L
  BY DEF Shown
<1>5. Shown' = [u \in DOMAIN Shown \union {v} |-> IF u = v THEN s ELSE Shown[u]]
  BY <1>1, <1>2, <1>3, <1>4
<1> QED  BY <1>5 DEF Abstract!Change, Shown

LEMMA ShownLemma ==
  ASSUME NEW v \in Vectors PROVE (v \in DOMAIN Shown <=> Live(v)) /\ (Live(v) => Shown[v] = Items(v))
BY DEF Shown

\* The steps of VectorValues, told by what becomes of one vector.
LEMMA MakeStep ==
  ASSUME NEW v \in Vectors, ~ Live(v), NEW s \in Seq(Elements), Len(s) <= MaxSize, Becomes(v, s)
  PROVE  Abstract!Next
<1>1. s \in Abstract!Contents
  <2>1. Len(s) \in 0..MaxSize /\ s \in [1..Len(s) -> Elements]
    BY SizeType
  <2>2. Abstract!Elements = Elements
    BY DEF Abstract!Elements, Elements
  <2> QED  BY <2>1, <2>2 DEF Abstract!Contents
<1>2. ~ Abstract!Live(v)
  BY ShownLemma DEF Abstract!Live, Shown
<1>3. Abstract!Make(v)
  BY <1>1, <1>2, ChangeLemma DEF Abstract!Make
<1> QED  BY <1>3 DEF Abstract!Next

LEMMA LiveLemma == ASSUME NEW v \in Vectors, Live(v) PROVE Abstract!Live(v)
BY ShownLemma DEF Abstract!Live, Shown

LEMMA CopiedStep ==
  ASSUME NEW v \in Vectors, NEW w \in Vectors, Live(w), Becomes(v, Items(w)) PROVE Abstract!Next
<1>1. Abstract!Change(v, Items(w)) /\ Abstract!Live(w)
  BY ChangeLemma, LiveLemma
<1>2. Abstract!Copy(v, w)
  BY <1>1, ShownLemma DEF Abstract!Copy, Shown
<1> QED  BY <1>2 DEF Abstract!Next

LEMMA InsertedStep ==
  ASSUME NEW v \in Vectors, Live(v), NEW i \in 0..Len(Items(v)), NEW n \in 1..MaxSize,
         NEW x \in Elements,
         Becomes(v, SubSeq(Items(v), 1, i) \o [j \in 1..n |-> x]
                    \o SubSeq(Items(v), i + 1, Len(Items(v))))
  PROVE  Abstract!Next
<1> DEFINE new(t) == SubSeq(t, 1, i) \o [j \in 1..n |-> x] \o SubSeq(t, i + 1, Len(t))
<1>1. Abstract!Change(v, new(Items(v))) /\ Abstract!Live(v) /\ Shown[v] = Items(v)
  BY ChangeLemma, LiveLemma, ShownLemma
<1>2. Abstract!Change(v, new(Shown[v])) /\ i \in 0..Len(Shown[v])
  BY <1>1
<1>3. Abstract!Insert(v, i, n, x)
  BY <1>1, <1>2 DEF Abstract!Insert, Shown
<1>4. x \in Abstract!Elements
  BY DEF Abstract!Elements, Elements
<1> QED  BY <1>1, <1>2, <1>3, <1>4 DEF Abstract!Next, Shown

LEMMA RemovedStep ==
  ASSUME NEW v \in Vectors, Live(v), NEW i \in 0..Len(Items(v)), NEW j \in i..Len(Items(v)),
         Becomes(v, SubSeq(Items(v), 1, i) \o SubSeq(Items(v), j + 1, Len(Items(v))))
  PROVE  Abstract!Next
<1> DEFINE new(t) == SubSeq(t, 1, i) \o SubSeq(t, j + 1, Len(t))
<1>1. Abstract!Change(v, new(Items(v))) /\ Abstract!Live(v) /\ Shown[v] = Items(v)
  BY ChangeLemma, LiveLemma, ShownLemma
<1>2. Abstract!Change(v, new(Shown[v])) /\ i \in 0..Len(Shown[v]) /\ j \in i..Len(Shown[v])
  BY <1>1
<1>3. Abstract!Remove(v, i, j)
  BY <1>1, <1>2 DEF Abstract!Remove, Shown
<1> QED  BY <1>1, <1>2, <1>3 DEF Abstract!Next, Shown

-----------------------------------------------------------------------------
(* Each call of a program without sizes is a step of VectorValues *)

\* No vector was given a size, so none doubles a capacity of 0.
Unsized == \A v \in Vectors : ~ vec[v].ctor_initialized

LEMMA RenewUnsized ==
  ASSUME Fits, Unsized, NEW v \in Vectors, NEW s, NEW cap, NEW init, ~ init, Renew(v, s, cap, init)
  PROVE  Unsized'
<1> DEFINE r == [values |-> Fresh, v_size |-> Len(s), v_capacity |-> cap, ctor_initialized |-> init]
<1>1. vec' = [vec EXCEPT ![v] = r] /\ vec \in [Vectors -> Members]
  BY DEF Renew, Fits, Owned, Typed
<1>2. ~ r.ctor_initialized
  OBVIOUS
<1> HIDE DEF r
<1> QED  BY <1>1, <1>2 DEF Unsized

LEMMA RewriteUnsized ==
  ASSUME Fits, Unsized, NEW v \in Vectors, NEW s, Rewrite(v, s) PROVE Unsized'
<1>1. vec' = [vec EXCEPT ![v].v_size = Len(s)] /\ vec \in [Vectors -> Members]
  BY DEF Rewrite, Fits, Owned, Typed
<1>2. \A w \in Vectors : vec'[w].ctor_initialized = vec[w].ctor_initialized
  BY <1>1 DEF Members
<1> QED  BY <1>2 DEF Unsized

\* A call that does what VectorValues says, and keeps the memory in order.
Follows == Fits' /\ ~ overrun' /\ Unsized' /\ (Abstract!Next \/ Shown' = Shown)

LEMMA DefaultFollows ==
  ASSUME Fits, ~ overrun, Unsized, NEW v \in Vectors, Default(v) PROVE Follows
<1> DEFINE r == [NoVector EXCEPT !.v_size = 0]  none == <<>>
<1>1. Fits' /\ ~ overrun'
  BY DefaultStep
<1>2. /\ vec[v] = NoVector /\ ~ Live(v) /\ vec \in [Vectors -> Members] /\ heap' = heap
      /\ vec' = [vec EXCEPT ![v] = r]
  BY DEF Default, Live, Fits, Owned, Typed
<1>3. r \in Members /\ r.values = Null /\ r.v_size = 0 /\ ~ r.ctor_initialized
  BY EmptyLemma DEF NoVector
<1>4. Room(v) = 0 /\ vec[v].values = Null
  BY <1>2, EmptyRoom
<1> HIDE DEF r
<1>5. Unsized'
  BY <1>2, <1>3 DEF Unsized
<1>6. none \in Seq(Elements) /\ Len(none) = 0 /\ SubSeq(none, 1, 0) = none
  OBVIOUS
<1> HIDE DEF none
<1>7. Becomes(v, none)
  <2>1. r.v_size \in Nat /\ r.v_size <= Room(v) /\ Len(none) = Room(v)
    BY <1>3, <1>4, <1>6
  <2>2. heap' = IF vec[v].values = Null THEN heap ELSE [heap EXCEPT ![vec[v].values] = none]
    BY <1>2, <1>4
  <2>3. Becomes(v, SubSeq(none, 1, r.v_size))
    BY <1>2, <1>3, <1>4, <1>6, <2>1, <2>2, SameItems
  <2> QED  BY <1>3, <1>6, <2>3
<1>8. Len(none) <= MaxSize
  BY <1>6, SizeType
<1>9. Abstract!Next
  BY <1>2, <1>6, <1>7, <1>8, MakeStep
<1> QED  BY <1>1, <1>5, <1>9 DEF Follows

LEMMA ListedFollows ==
  ASSUME Fits, Unsized, NEW v \in Vectors, NEW s \in Contents, Listed(v, s) PROVE Follows
<1>1. s \in Seq(Elements) /\ Len(s) \in 0..MaxSize
  BY SizeType DEF Contents, Elements
<1>2. Len(s) \in 0..(2 * MaxSize) /\ Len(s) <= MaxSize /\ Len(s) <= Len(s)
  BY <1>1, SizeType
<1> DEFINE init == FALSE
<1>3. Renew(v, s, Len(s), init) /\ init \in BOOLEAN /\ ~ init /\ ~ Live(v)
  BY DEF Listed
<1> HIDE DEF init
<1>4. Becomes(v, s) /\ Unsized'
  BY <1>1, <1>2, <1>3, RenewItems, RenewUnsized
<1>5. Abstract!Next
  BY <1>1, <1>2, <1>3, <1>4, MakeStep
<1> QED  BY <1>4, <1>5, ListedStep DEF Follows

LEMMA CopyFollows ==
  ASSUME Fits, Unsized, NEW v \in Vectors, NEW w \in Vectors, Copy(v, w) PROVE Follows
<1>1. Items(w) \in Seq(Elements) /\ Len(Items(w)) = vec[w].v_size /\ Live(w)
  BY ItemsLemma DEF Copy
<1>2. /\ vec[w].v_size <= MaxSize /\ vec[w].v_capacity \in 0..(2 * MaxSize)
      /\ vec[w].v_size <= vec[w].v_capacity
  BY VectorLemma, SizeType DEF Copy
<1> DEFINE init == FALSE
<1>3. Renew(v, Items(w), vec[w].v_capacity, init) /\ init \in BOOLEAN /\ ~ init
  BY DEF Copy
<1> HIDE DEF init
<1>4. Becomes(v, Items(w)) /\ Unsized'
  BY <1>1, <1>2, <1>3, RenewItems, RenewUnsized
<1>5. Abstract!Next
  BY <1>1, <1>4, CopiedStep
<1> QED  BY <1>4, <1>5, CopyStep DEF Follows

LEMMA AssignFollows ==
  ASSUME Fits, Unsized, NEW v \in Vectors, NEW w \in Vectors, v # w, Assign(v, w) PROVE Follows
<1> DEFINE init == vec[v].ctor_initialized
<1>1. Items(w) \in Seq(Elements) /\ Len(Items(w)) = vec[w].v_size /\ Live(w)
  BY ItemsLemma DEF Assign
<1>2. /\ vec[w].v_size <= MaxSize /\ vec[w].v_capacity \in 0..(2 * MaxSize)
      /\ vec[w].v_size <= vec[w].v_capacity /\ init \in BOOLEAN
  BY VectorLemma, SizeType DEF Assign, Members
<1>3. Renew(v, Items(w), vec[w].v_capacity, init) /\ ~ init
  BY DEF Assign, Unsized
<1> HIDE DEF init
<1>4. Becomes(v, Items(w)) /\ Unsized'
  BY <1>1, <1>2, <1>3, RenewItems, RenewUnsized
<1>5. Abstract!Next
  BY <1>1, <1>4, CopiedStep
<1> QED  BY <1>4, <1>5, AssignStep DEF Follows

LEMMA DestroyFollows ==
  ASSUME Fits, ~ overrun, Unsized, NEW v \in Vectors, Destroy(v) PROVE Follows
<1> DEFINE old == vec[v].values
<1>1. /\ Live(v) /\ heap' = Free(v) /\ vec' = [vec EXCEPT ![v] = NoVector]
      /\ vec \in [Vectors -> Members] /\ ~ NoVector.ctor_initialized
  BY DEF Destroy, Fits, Owned, Typed, NoVector
<1>2. vec'[v] = NoVector /\ \A w \in Vectors : w # v => vec'[w] = vec[w]
  BY <1>1
<1>3. DOMAIN heap' = DOMAIN heap \ {old} /\ \A d \in DOMAIN heap' : heap'[d] = heap[d]
  BY <1>1 DEF Free
<1>4. ASSUME NEW w \in Vectors, w # v PROVE (Live(w)' <=> Live(w)) /\ Items(w)' = Items(w)
  <2>1. vec'[w] = vec[w]
    BY <1>2, <1>4
  <2>2. vec[w].values \in DOMAIN heap => vec[w].values # old
    BY <1>4 DEF Fits, Owned, OwnBuffers
  <2>3. Cells(w)' = Cells(w)
    BY <1>3, <2>1, <2>2 DEF Cells
  <2> QED  BY <2>1, <2>3, StillItems
<1>5. Unsized'
  BY <1>1, <1>2 DEF Unsized
<1> DEFINE L == {u \in Vectors : Live(u)}  M == {u \in Vectors : Live(u)'}
<1>6. M = L \ {v}
  BY <1>2, <1>4 DEF Live
<1>7. Shown' = [u \in M |-> Items(u)'] /\ DOMAIN Shown = L
  BY DEF Shown
<1>8. \A u \in M : Items(u)' = Shown[u]
  BY <1>4, <1>6 DEF Shown
<1>9. Shown' = [u \in DOMAIN Shown \ {v} |-> Shown[u]]
  BY <1>6, <1>7, <1>8
<1>10. Abstract!Drop(v)
  BY <1>1, <1>9, LiveLemma DEF Abstract!Drop, Shown
<1> QED  BY <1>5, <1>10, DestroyStep DEF Follows, Abstract!Next

\* A vector that took the buffer and the size of x shows what x did.
LEMMA TakenItems ==
  ASSUME NEW u \in Vectors, NEW x \in Vectors, heap' = heap,
         vec'[u].values = vec[x].values, vec'[u].v_size = vec[x].v_size
  PROVE  Items(u)' = Items(x)
<1> DEFINE f(c, y, z) == SubSeq(c, 1, IF y <= z THEN y ELSE z)
<1>1. Cells(u)' = Cells(x)
  BY DEF Cells
<1>2. Room(u)' = Room(x)
  BY <1>1 DEF Room
<1>3. Items(x) = f(Cells(x), vec[x].v_size, Room(x))
  BY DEF Items
<1>4. Items(u)' = f(Cells(u)', vec'[u].v_size, Room(u)')
  BY DEF Items
<1> HIDE DEF f
<1> QED  BY <1>1, <1>2, <1>3, <1>4

LEMMA SwapFollows ==
  ASSUME Fits, ~ overrun, Unsized, NEW v \in Vectors, NEW w \in Vectors, Swap(v, w) PROVE Follows
<1> DEFINE a == Swapped(vec[v], vec[w])  b == Swapped(vec[w], vec[v])
<1>1. /\ vec \in [Vectors -> Members] /\ vec[v] \in Members /\ vec[w] \in Members
      /\ Live(v) /\ Live(w) /\ vec[v].v_size # -1 /\ vec[w].v_size # -1
  BY DEF Fits, Owned, Typed, Swap, Live
<1>2. /\ a.values = vec[w].values /\ a.v_size = vec[w].v_size
      /\ b.values = vec[v].values /\ b.v_size = vec[v].v_size
  BY <1>1, SwappedLemma
<1>3. ~ a.ctor_initialized /\ ~ b.ctor_initialized
  BY <1>1 DEF Swapped, Unsized, Members
<1>4. vec' = [vec EXCEPT ![v] = a, ![w] = b] /\ heap' = heap
  BY DEF Swap
<1> HIDE DEF a, b
<1>5. \A u \in Vectors : vec'[u] = IF u = w THEN b ELSE IF u = v THEN a ELSE vec[u]
  BY <1>1, <1>4
<1>6. Unsized'
  BY <1>3, <1>5 DEF Unsized
<1>7. /\ Items(w)' = Items(v) /\ Items(v)' = Items(w)
      /\ \A u \in Vectors : u # v /\ u # w => Items(u)' = Items(u)
  <2>1. vec'[w].values = vec[v].values /\ vec'[w].v_size = vec[v].v_size
    BY <1>2, <1>5
  <2>2. vec'[v].values = vec[w].values /\ vec'[v].v_size = vec[w].v_size
    BY <1>2, <1>5
  <2>3. \A u \in Vectors : u # v /\ u # w => vec'[u] = vec[u]
    BY <1>5
  <2> QED  BY <1>4, <2>1, <2>2, <2>3, TakenItems
<1> DEFINE L == {u \in Vectors : Live(u)}  M == {u \in Vectors : Live(u)'}
<1>8. a # NoVector /\ b # NoVector
  BY <1>1, <1>2 DEF NoVector
<1>9. M = L /\ v \in L /\ w \in L
  BY <1>1, <1>5, <1>8 DEF Live
<1>10. Shown' = [u \in M |-> Items(u)'] /\ DOMAIN Shown = L /\ \A u \in L : Shown[u] = Items(u)
  BY DEF Shown
<1> HIDE DEF L, M
<1>11. \A u \in L : u \in Vectors
  BY DEF L
<1>12. Shown' = [Shown EXCEPT ![v] = Shown[w], ![w] = Shown[v]]
  <2> DEFINE new == [Shown EXCEPT ![v] = Shown[w], ![w] = Shown[v]]
  <2>1. Shown = [u \in L |-> Items(u)]
    BY DEF Shown, L
  <2>2. new = [u \in L |-> IF u = w THEN Shown[v] ELSE IF u = v THEN Shown[w] ELSE Shown[u]]
    BY <1>9, <2>1
  <2>3. \A u \in L : Items(u)' = IF u = w THEN Shown[v] ELSE IF u = v THEN Shown[w] ELSE Shown[u]
    BY <1>7, <1>9, <1>10, <1>11
  <2> QED  BY <1>9, <1>10, <2>2, <2>3
<1>13. Abstract!Exchange(v, w)
  BY <1>1, <1>12, LiveLemma DEF Abstract!Exchange, Shown
<1> QED  BY <1>6, <1>13, SwapStep DEF Follows, Abstract!Next

LEMMA MoveNewFollows ==
  ASSUME Fits, ~ overrun, Unsized, NEW v \in Vectors, NEW w \in Vectors, MoveNew(v, w)
  PROVE  Follows
<1> DEFINE e == [NoVector EXCEPT !.v_size = 0]
           a == Swapped(e, vec[w])  b == Swapped(vec[w], e)
<1>1. /\ vec \in [Vectors -> Members] /\ vec[w] \in Members /\ ~ Live(v) /\ Live(w)
      /\ vec[w].v_size # -1 /\ v # w
  BY DEF Fits, Owned, Typed, MoveNew, Live
<1>2. e \in Members /\ e.values = Null /\ e.v_size = 0 /\ ~ e.ctor_initialized
  BY EmptyLemma DEF NoVector
<1>3. vec' = [vec EXCEPT ![v] = a, ![w] = b] /\ heap' = heap
  BY DEF MoveNew
<1> HIDE DEF e
<1>4. a.values = vec[w].values /\ a.v_size = vec[w].v_size /\ b.values = Null /\ b.v_size = 0
  BY <1>1, <1>2, SwappedLemma
<1>5. ~ a.ctor_initialized /\ ~ b.ctor_initialized
  BY <1>1, <1>2 DEF Swapped, Unsized, Members
<1> HIDE DEF a, b
<1>6. \A u \in Vectors : vec'[u] = IF u = w THEN b ELSE IF u = v THEN a ELSE vec[u]
  BY <1>1, <1>3
<1>7. Unsized'
  BY <1>5, <1>6 DEF Unsized
<1>8. Items(v)' = Items(w) /\ \A u \in Vectors : u # v /\ u # w => Items(u)' = Items(u)
  <2>1. vec'[v].values = vec[w].values /\ vec'[v].v_size = vec[w].v_size
    BY <1>1, <1>4, <1>6
  <2>2. \A u \in Vectors : u # v /\ u # w => vec'[u] = vec[u]
    BY <1>6
  <2> QED  BY <1>3, <2>1, <2>2, TakenItems
<1>9. Items(w)' = <<>>
  <2>1. vec'[w].v_size = 0 /\ vec'[w].values = Null
    BY <1>4, <1>6
  <2>2. Null \notin Blocks /\ DOMAIN heap \subseteq Blocks
    BY VectorsAssumption, FS_CardinalityType DEF Null, Blocks, Fits, Owned, Typed
  <2>3. Cells(w)' = <<>>
    BY <1>3, <2>1, <2>2 DEF Cells
  <2>4. Items(w)' = SubSeq(<<>>, 1, 0)
    BY <2>1, <2>3 DEF Items, Room
  <2> QED  BY <2>4
<1> DEFINE L == {u \in Vectors : Live(u)}  M == {u \in Vectors : Live(u)'}
<1>10. a # NoVector /\ b # NoVector
  BY <1>1, <1>4 DEF NoVector
<1>11. M = L \union {v} /\ v \notin L /\ w \in L
  BY <1>1, <1>6, <1>10 DEF Live
<1>12. Shown' = [u \in M |-> Items(u)'] /\ DOMAIN Shown = L /\ \A u \in L : Shown[u] = Items(u)
  BY DEF Shown
<1> HIDE DEF L, M
<1>13. \A u \in L : u \in Vectors
  BY DEF L
<1>14. Shown' = [u \in DOMAIN Shown \union {v} |->
                  IF u = v THEN Shown[w] ELSE IF u = w THEN <<>> ELSE Shown[u]]
  BY <1>8, <1>9, <1>11, <1>12, <1>13
<1>15. ~ Abstract!Live(v) /\ Abstract!Live(w)
  BY <1>1, LiveLemma, ShownLemma DEF Abstract!Live, Shown
<1>16. Abstract!MoveNew(v, w)
  BY <1>14, <1>15 DEF Abstract!MoveNew, Shown
<1> QED  BY <1>7, <1>16, MoveNewStep DEF Follows, Abstract!Next

\* The call gives v the elements s and keeps the memory in order.
Gives(v, s) == Fits' /\ ~ overrun' /\ Unsized' /\ Becomes(v, s)

LEMMA RenewGives ==
  ASSUME Fits, Unsized, NEW v \in Vectors, NEW s \in Seq(Elements), Len(s) <= MaxSize,
         NEW cap \in 0..(2 * MaxSize), NEW init \in BOOLEAN, ~ init, Len(s) <= cap,
         Renew(v, s, cap, init)
  PROVE  Gives(v, s)
BY RenewStep, RenewItems, RenewUnsized DEF Gives

LEMMA RewriteGives ==
  ASSUME Fits, Unsized, NEW v \in Vectors, Live(v), NEW s \in Seq(Elements),
         Len(s) <= MaxSize, Len(s) <= vec[v].v_capacity, Rewrite(v, s)
  PROVE  Gives(v, s)
BY RewriteStep, RewriteItems, RewriteUnsized DEF Gives

\* Head and tail of a sequence.
LEMMA EndsLemma ==
  ASSUME NEW s \in Seq(Elements)
  PROVE  /\ SubSeq(s, 1, Len(s)) = s /\ SubSeq(s, 1, 0) = <<>>
         /\ \A i \in Nat : i >= Len(s) => SubSeq(s, i + 1, Len(s)) = <<>>
<1> DEFINE k == Len(s)
<1>1. k \in Nat
  OBVIOUS
<1>2. SubSeq(s, 1, k) = s
  <2> DEFINE t == SubSeq(s, 1, k)
  <2>1. /\ t \in Seq(Elements) /\ Len(t) = IF 1 <= k THEN k - 1 + 1 ELSE 0
        /\ \A i \in 1..Len(t) : t[i] = s[1 + i - 1]
    BY <1>1, SubSeqLemma
  <2> HIDE DEF t
  <2>2. Len(t) = k
    BY <1>1, <2>1
  <2>3. \A i \in 1..Len(t) : t[i] = s[i]
    BY <1>1, <2>1, <2>2
  <2> QED  BY <2>1, <2>2, <2>3, SeqEqual DEF t
<1>3. SubSeq(s, 1, 0) = <<>>
  BY <1>1, SubSeqProperties
<1>4. ASSUME NEW i \in Nat, i >= k PROVE SubSeq(s, i + 1, k) = <<>>
  BY <1>1, <1>4, SubSeqProperties
<1> QED  BY <1>2, <1>3, <1>4

LEMMA AppendLemma ==
  ASSUME NEW s \in Seq(Elements), NEW x \in Elements
  PROVE  SubSeq(s, 1, Len(s)) \o [j \in 1..1 |-> x] \o SubSeq(s, Len(s) + 1, Len(s)) = Append(s, x)
<1> DEFINE b == [j \in 1..1 |-> x]
<1>1. SubSeq(s, 1, Len(s)) = s /\ SubSeq(s, Len(s) + 1, Len(s)) = <<>>
  BY EndsLemma
<1>2. b = <<x>>
  OBVIOUS
<1> HIDE DEF b
<1>3. s \o b = Append(s, x) /\ s \o b \in Seq(Elements)
  BY <1>2, AppendIsConcat
<1>4. (s \o b) \o <<>> = s \o b
  BY <1>3, ConcatEmptySeq
<1> QED  BY <1>1, <1>3, <1>4 DEF b

LEMMA PushFollows ==
  ASSUME Fits, Unsized, NEW v \in Vectors, NEW x \in Elements, EmplaceBack(v, x) PROVE Follows
<1> DEFINE s == Append(Items(v), x)  k == vec[v].v_size  cap == vec[v].v_capacity
           init == vec[v].ctor_initialized  g == Grown(v)
<1>1. Live(v) /\ k < MaxSize
  BY DEF EmplaceBack
<1>2. k \in Nat /\ cap \in Nat /\ k <= cap /\ cap <= 2 * MaxSize /\ init \in BOOLEAN /\ ~ init
  BY <1>1, VectorLemma, SizeType DEF Members, Unsized
<1>3. Items(v) \in Seq(Elements) /\ Len(Items(v)) = k /\ s \in Seq(Elements) /\ Len(s) = k + 1
  BY <1>1, ItemsLemma
<1>4. Len(s) <= MaxSize
  BY <1>1, <1>2, <1>3, SizeType
<1>5. Gives(v, s)
  <2>1. CASE ~ Full(v)
    <3>1. Rewrite(v, s) /\ Len(s) <= vec[v].v_capacity
      BY <1>2, <1>3, <2>1 DEF EmplaceBack, Full
    <3> HIDE DEF s
    <3> QED  BY <1>1, <1>3, <1>4, <3>1, RewriteGives
  <2>2. CASE Full(v)
    <3>1. Renew(v, s, g, init) /\ cap = k
      BY <2>2 DEF EmplaceBack, Full
    <3>2. g \in 0..(2 * MaxSize) /\ g >= k + 1
      BY <1>1, <1>2, <2>2, <3>1, SizeType DEF Grown
    <3>3. Len(s) <= g
      BY <1>2, <1>3, <3>2
    <3> HIDE DEF s, g, init
    <3> QED  BY <1>2, <1>3, <1>4, <3>1, <3>2, <3>3, RenewGives
  <2> QED  BY <2>1, <2>2
<1>6. Abstract!Next
  <2> DEFINE one == 1  n == Len(Items(v))
  <2>1. SubSeq(Items(v), 1, n) \o [j \in 1..one |-> x] \o SubSeq(Items(v), n + 1, n) = s
    BY <1>3, AppendLemma
  <2>2. n \in 0..Len(Items(v)) /\ one \in 1..MaxSize
    BY <1>2, <1>3, SizeType
  <2> HIDE DEF s, one
  <2>3. Becomes(v, SubSeq(Items(v), 1, n) \o [j \in 1..one |-> x]
                   \o SubSeq(Items(v), n + 1, Len(Items(v))))
    BY <1>5, <2>1 DEF Gives
  <2> HIDE DEF n
  <2> QED  BY <1>1, <2>2, <2>3, InsertedStep
<1> QED  BY <1>5, <1>6 DEF Follows, Gives

LEMMA EmplaceFollows ==
  ASSUME Fits, Unsized, NEW v \in Vectors, NEW i \in Nat, NEW x \in Elements, Emplace(v, i, x)
  PROVE  Follows
<1> DEFINE one == 1  s == Inserted(v, i, one, x)  k == vec[v].v_size  cap == vec[v].v_capacity
           init == vec[v].ctor_initialized
<1>1. Live(v) /\ k < MaxSize /\ i \in 0..k
  BY DEF Emplace
<1>2. k \in Nat /\ cap \in Nat /\ k <= cap /\ cap <= 2 * MaxSize /\ init \in BOOLEAN /\ ~ init
  BY <1>1, VectorLemma, SizeType DEF Members, Unsized
<1>3. s \in Seq(Elements) /\ Len(s) = k + one
  BY <1>1, InsertedLemma
<1>4. Len(s) = k + 1 /\ Len(s) <= MaxSize
  BY <1>1, <1>2, <1>3, SizeType
<1>5. CASE i = cap
  BY <1>5, PushFollows DEF Emplace
<1>6. CASE i # cap
  <2>1. Gives(v, s)
    <3>1. CASE Full(v)
      <4>1. Renew(v, s, cap * 2, init)
        BY <1>6, <3>1 DEF Emplace
      <4>2. cap * 2 \in 0..(2 * MaxSize) /\ Len(s) <= cap * 2
        BY <1>1, <1>2, <1>4, <1>6, <3>1, SizeType DEF Full
      <4> HIDE DEF s, init
      <4> QED  BY <1>2, <1>3, <1>4, <4>1, <4>2, RenewGives
    <3>2. CASE ~ Full(v)
      <4>1. Rewrite(v, s)
        BY <1>6, <3>2 DEF Emplace
      <4>2. Len(s) <= vec[v].v_capacity
        BY <1>2, <1>4, <3>2 DEF Full
      <4> HIDE DEF s
      <4> QED  BY <1>1, <1>3, <1>4, <4>1, <4>2, RewriteGives
    <3> QED  BY <3>1, <3>2
  <2>2. Len(Items(v)) = k
    BY <1>1, ItemsLemma
  <2>3. Becomes(v, SubSeq(Items(v), 1, i) \o [j \in 1..one |-> x]
                   \o SubSeq(Items(v), i + 1, Len(Items(v))))
    BY <2>1, <2>2 DEF Gives, Inserted
  <2>4. i \in 0..Len(Items(v)) /\ one \in 1..MaxSize
    BY <1>1, <2>2, SizeType
  <2> HIDE DEF one
  <2>5. Abstract!Next
    BY <1>1, <2>3, <2>4, InsertedStep
  <2> QED  BY <2>1, <2>5 DEF Follows, Gives
<1> QED  BY <1>5, <1>6

\* The elements i + 1 to j go.
LEMMA CutGives ==
  ASSUME Fits, Unsized, NEW v \in Vectors, Live(v), NEW i \in Nat, NEW j \in Nat,
         i <= j, j <= vec[v].v_size,
         Gives(v, SubSeq(Items(v), 1, i) \o SubSeq(Items(v), j + 1, vec[v].v_size))
  PROVE  Follows
<1>1. Len(Items(v)) = vec[v].v_size /\ vec[v].v_size \in Nat
  BY ItemsLemma, VectorLemma, SizeType
<1>2. i \in 0..Len(Items(v)) /\ j \in i..Len(Items(v))
  BY <1>1
<1>3. Becomes(v, SubSeq(Items(v), 1, i) \o SubSeq(Items(v), j + 1, Len(Items(v))))
  BY <1>1 DEF Gives
<1>4. Abstract!Next
  BY <1>2, <1>3, RemovedStep
<1> QED  BY <1>4 DEF Follows, Gives

LEMMA EraseRangeFollows ==
  ASSUME Fits, Unsized, NEW v \in Vectors, NEW i \in Nat, NEW j \in Nat, EraseRange(v, i, j)
  PROVE  Follows
<1> DEFINE a == Items(v)  k == vec[v].v_size  s == SubSeq(a, 1, i) \o SubSeq(a, j + 1, k)
<1>1. Live(v) /\ i <= j /\ j <= k /\ Rewrite(v, s)
  BY DEF EraseRange
<1>2. k \in Nat /\ k <= MaxSize /\ vec[v].v_capacity \in Nat /\ k <= vec[v].v_capacity
  BY <1>1, VectorLemma, SizeType
<1>3. a \in Seq(Elements) /\ Len(a) = k
  BY <1>1, ItemsLemma
<1>4. s \in Seq(Elements) /\ Len(s) = i + (k - j)
  <2>1. i <= j /\ j <= Len(a)
    BY <1>1, <1>3
  <2> HIDE DEF a
  <2>2. /\ SubSeq(a, 1, i) \o SubSeq(a, j + 1, Len(a)) \in Seq(Elements)
        /\ Len(SubSeq(a, 1, i) \o SubSeq(a, j + 1, Len(a))) = i + (Len(a) - j)
    BY <1>3, <2>1, CutLemma
  <2> QED  BY <1>3, <2>2
<1>5. Len(s) <= MaxSize /\ Len(s) <= vec[v].v_capacity
  BY <1>1, <1>2, <1>4, SizeType
<1>6. Gives(v, s)
  <2> HIDE DEF s
  <2> QED  BY <1>1, <1>4, <1>5, RewriteGives
<1> QED  BY <1>1, <1>6, CutGives

\* pop_back() and clear() are cuts at the end.
LEMMA PopFollows ==
  ASSUME Fits, Unsized, NEW v \in Vectors, PopBack(v) \/ Clear(v) PROVE Follows
<1> DEFINE a == Items(v)  k == vec[v].v_size  i == IF PopBack(v) THEN k - 1 ELSE 0
           s == SubSeq(a, 1, i) \o SubSeq(a, k + 1, k)
<1>1. Live(v)
  BY DEF PopBack, Clear
<1>2. k \in Nat /\ k <= MaxSize /\ vec[v].v_capacity \in Nat /\ k <= vec[v].v_capacity
  BY <1>1, VectorLemma, SizeType
<1>3. a \in Seq(Elements) /\ Len(a) = k
  BY <1>1, ItemsLemma
<1>4. i \in Nat /\ i <= k
  BY <1>2 DEF PopBack
<1>5. SubSeq(a, k + 1, k) = <<>> /\ SubSeq(a, 1, 0) = <<>>
  BY <1>2, <1>3, EndsLemma
<1>6. Rewrite(v, SubSeq(a, 1, i))
  BY <1>5 DEF PopBack, Clear
<1> HIDE DEF i
<1>7. SubSeq(a, 1, i) \in Seq(Elements) /\ s = SubSeq(a, 1, i)
  <2>1. SubSeq(a, 1, i) \in Seq(Elements)
    BY <1>3, <1>4, SubSeqLemma
  <2> QED  BY <1>5, <2>1, ConcatEmptySeq
<1>8. s \in Seq(Elements) /\ Len(s) = i + (k - k)
  BY <1>2, <1>3, <1>4, CutLemma
<1>9. Len(s) <= MaxSize /\ Len(s) <= vec[v].v_capacity
  BY <1>2, <1>4, <1>8, SizeType
<1>10. Rewrite(v, s)
  BY <1>6, <1>7
<1>11. Gives(v, s)
  <2> HIDE DEF s
  <2> QED  BY <1>1, <1>8, <1>9, <1>10, RewriteGives
<1> QED  BY <1>1, <1>2, <1>4, <1>11, CutGives

LEMMA StayFollows ==
  ASSUME Fits, NEW v \in Vectors, Live(v), Gives(v, Items(v)) PROVE Follows
<1>1. Abstract!Next
  BY CopiedStep DEF Gives
<1> QED  BY <1>1 DEF Follows, Gives

LEMMA ReserveFollows ==
  ASSUME Fits, ~ overrun, Unsized, NEW v \in Vectors, NEW n \in Sizes, Reserve(v, n) PROVE Follows
<1> DEFINE s == Items(v)  init == vec[v].ctor_initialized
<1>1. Live(v) /\ n \in Nat /\ n <= MaxSize /\ n \in 0..(2 * MaxSize)
  BY SizeType DEF Reserve, Sizes
<1>2. /\ vec[v].v_size <= vec[v].v_capacity /\ vec[v].v_capacity \in Nat
      /\ vec[v].v_size \in Nat /\ init \in BOOLEAN /\ ~ init /\ vec[v].v_size <= MaxSize
  BY <1>1, VectorLemma, SizeType DEF Members, Unsized
<1>3. s \in Seq(Elements) /\ Len(s) = vec[v].v_size
  BY <1>1, ItemsLemma
<1>4. CASE n > vec[v].v_capacity
  <2>1. Renew(v, s, n, init) /\ Len(s) <= n /\ Len(s) <= MaxSize
    BY <1>1, <1>2, <1>3, <1>4 DEF Reserve
  <2>2. Gives(v, s)
    <3> HIDE DEF s, init
    <3> QED  BY <1>1, <1>2, <1>3, <2>1, RenewGives
  <2> QED  BY <1>1, <2>2, StayFollows
<1>5. CASE ~ (n > vec[v].v_capacity)
  <2>1. heap' = heap /\ vec' = vec /\ overrun' = overrun
    BY <1>5 DEF Reserve, vars
  <2>2. Shown' = Shown
    BY <2>1, Zenon DEF Shown, Live, Items, Room, Cells
  <2>3. Unsized'
    BY <2>1 DEF Unsized
  <2> QED  BY <2>2, <2>3, ReserveStep DEF Follows
<1> QED  BY <1>4, <1>5

LEMMA ShrinkFollows ==
  ASSUME Fits, Unsized, NEW v \in Vectors, ShrinkToFit(v) PROVE Follows
<1> DEFINE s == Items(v)  k == vec[v].v_size  init == vec[v].ctor_initialized
<1>1. Renew(v, s, k, init) /\ Live(v)
  BY DEF ShrinkToFit
<1>2. k \in 0..(2 * MaxSize) /\ k <= MaxSize /\ init \in BOOLEAN /\ ~ init
  BY <1>1, VectorLemma, SizeType DEF Members, Unsized
<1>3. s \in Seq(Elements) /\ Len(s) = k
  BY <1>1, ItemsLemma
<1>4. Len(s) <= MaxSize /\ Len(s) <= k
  BY <1>2, <1>3
<1>5. Gives(v, s)
  <2> HIDE DEF s, k, init
  <2> QED  BY <1>1, <1>2, <1>3, <1>4, RenewGives
<1> QED  BY <1>1, <1>5, StayFollows

LEMMA EraseFollows ==
  ASSUME Fits, ~ overrun, Unsized, NEW v \in Vectors, NEW dist \in Nat, Erase(v, dist)
  PROVE  Follows
<1> DEFINE k == vec[v].v_size  size == IF k = 0 THEN 0 ELSE k - 1
           cap == PowerOfTwo(size)  a == Items(v)  kept == Without(a, dist)  j == dist + 1
<1>1. Live(v) /\ dist \in 0..(k - 1) /\ EraseAnywhere(v, dist)
  BY DEF Erase
<1>2. k \in Nat /\ k <= MaxSize /\ vec[v] \in Members /\ Room(v) \in Nat
  BY <1>1, VectorLemma, SizeType
<1>3. a \in Seq(Elements) /\ Len(a) = k
  BY <1>1, ItemsLemma
<1>4. /\ j \in Nat /\ dist <= j /\ j <= k /\ j + 1 = dist + 2 /\ dist < k
      /\ size = k - 1 /\ size \in Nat /\ size <= MaxSize
  <2> HIDE DEF k
  <2> QED  BY <1>1, <1>2, SizeType
<1>5. kept = SubSeq(a, 1, dist) \o SubSeq(a, j + 1, k)
  BY <1>3, <1>4 DEF Without
<1>6. kept \in Seq(Elements) /\ Len(kept) = size
  BY <1>3, <1>4, WithoutLemma
<1>7. ~ (dist >= k)
  BY <1>4, <1>2
<1>8. Fits' /\ ~ overrun'
  BY <1>1, <1>7, EraseAnywhereStep
<1>9. Unsized' /\ Becomes(v, kept)
  <2>1. CASE size = 0
    <3> DEFINE none == <<>>  c == Filled(none, Room(v))
               r == [vec[v] EXCEPT !.v_size = 0, !.v_capacity = 0]
    <3>1. /\ vec' = [vec EXCEPT ![v].v_size = 0, ![v].v_capacity = 0]
          /\ heap' = IF vec[v].values = Null THEN heap ELSE [heap EXCEPT ![vec[v].values] = c]
      BY <1>1, <2>1 DEF EraseAnywhere
    <3>2. vec' = [vec EXCEPT ![v] = r] /\ vec \in [Vectors -> Members]
      BY <3>1 DEF Fits, Owned, Typed
    <3>3. r \in Members /\ r.values = vec[v].values /\ r.v_size = 0 /\ ~ r.ctor_initialized
      <4>1. 0 \in -1..MaxSize /\ 0 \in 0..(2 * MaxSize)
        BY SizeType
      <4>2. r \in Members /\ r.values = vec[v].values /\ r.v_size = 0
        BY <1>2, <4>1 DEF Members
      <4>3. ~ r.ctor_initialized
        BY DEF Unsized
      <4> QED  BY <4>2, <4>3
    <3>4. none \in Seq(Elements) /\ Len(none) = 0
      OBVIOUS
    <3>5. kept = none
      BY <1>6, <2>1
    <3> HIDE DEF none
    <3>6. c \in Seq(Elements) /\ Len(c) = Room(v) /\ SubSeq(c, 1, Len(none)) = none
      <4>1. Len(none) <= Room(v)
        BY <1>2, <3>4
      <4> QED  BY <1>2, <3>4, <4>1, FilledLemma, HeadLemma
    <3> HIDE DEF r, c, kept, size
    <3>7. r.v_size \in Nat /\ r.v_size <= Room(v)
      BY <1>2, <3>3
    <3>8. Becomes(v, SubSeq(c, 1, r.v_size))
      BY <3>1, <3>2, <3>3, <3>6, <3>7, SameItems
    <3>9. Unsized'
      BY <3>2, <3>3 DEF Unsized
    <3> QED  BY <3>3, <3>4, <3>5, <3>6, <3>8, <3>9
  <2>2. CASE size # 0
    <3> DEFINE s == SubSeq(kept, 1, size)  c == Filled(s, cap)
               r == [vec[v] EXCEPT !.values = Fresh, !.v_size = size, !.v_capacity = cap]
    <3>1. /\ heap' = Allocated(Free(v), Fresh, c)
          /\ vec' = [vec EXCEPT ![v].values = Fresh, ![v].v_size = size, ![v].v_capacity = cap]
      BY <1>1, <2>2 DEF EraseAnywhere
    <3>2. vec' = [vec EXCEPT ![v] = r] /\ vec \in [Vectors -> Members]
      BY <3>1 DEF Fits, Owned, Typed
    <3> HIDE DEF kept, size
    <3>3. s = kept
      BY <1>6, EndsLemma
    <3>4. cap \in Nat /\ size <= cap /\ cap <= 2 * MaxSize
      <4>1. cap \in size..(2 * size + 2)
        BY <1>4, <2>2, PowerOfTwoLemma
      <4>2. 2 * size + 2 <= 2 * MaxSize
        BY <1>2, <1>4, SizeType
      <4> HIDE DEF cap
      <4> QED  BY <1>4, <2>2, <4>1, <4>2, SizeType
    <3> HIDE DEF cap, s
    <3>5. c \in Seq(Elements) /\ Len(c) = cap /\ SubSeq(c, 1, size) = kept
      BY <1>4, <1>6, <3>3, <3>4, FilledLemma, HeadLemma
    <3>6. r \in Members /\ r.values = Fresh /\ r.v_size = size /\ ~ r.ctor_initialized
      <4>1. Fresh \in Blocks
        BY FreshLemma DEF Fits
      <4>2. size \in -1..MaxSize /\ cap \in 0..(2 * MaxSize)
        BY <1>4, <3>4, SizeType
      <4>3. r \in Members /\ r.values = Fresh /\ r.v_size = size
        BY <1>2, <4>1, <4>2 DEF Members
      <4>4. ~ r.ctor_initialized
        BY DEF Unsized
      <4> QED  BY <4>3, <4>4
    <3> HIDE DEF r, c
    <3>7. r.v_size \in Nat /\ r.v_size <= Len(c)
      BY <1>4, <3>4, <3>5, <3>6
    <3>8. Becomes(v, SubSeq(c, 1, r.v_size))
      BY <3>1, <3>2, <3>5, <3>6, <3>7, NewItems
    <3>9. Unsized'
      BY <3>2, <3>6 DEF Unsized
    <3> QED  BY <3>5, <3>6, <3>8, <3>9
  <2> QED  BY <2>1, <2>2
<1>10. Gives(v, kept)
  BY <1>8, <1>9 DEF Gives
<1> HIDE DEF kept, j
<1> QED  BY <1>1, <1>4, <1>5, <1>10, CutGives

-----------------------------------------------------------------------------

\* The calls that a program of lists makes: no vector is given a size, nothing
\* is inserted by the dozen, assigned to itself or erased beyond its end.
ListCalls == {"Default", "Listed", "Copy", "Move", "Assign", "Push", "Insert", "Pop",
              "Erase", "EraseRange", "Reserve", "Shrink"}

LEMMA ListStep ==
  ASSUME Calls \subseteq ListCalls, Fits, ~ overrun, Unsized, NEW v \in Vectors,
         Construct(v) \/ Whole(v) \/ Modify(v)
  PROVE  Follows
<1>0. /\ "Sized" \notin Calls /\ "SizedEmpty" \notin Calls /\ "AssignSelf" \notin Calls
      /\ "InsertMany" \notin Calls /\ "EraseAnywhere" \notin Calls /\ "Resize" \notin Calls
      /\ Positions \subseteq Nat /\ \A x \in Values : x \in Elements
  BY SizeAssumption DEF ListCalls, Elements
<1>1. CASE Construct(v)
  <2>1. \/ Default(v) \/ \E s \in Contents : Listed(v, s)
        \/ \E w \in Vectors : Copy(v, w) \/ MoveNew(v, w)
    BY <1>0, <1>1, Zenon DEF Construct
  <2> QED  BY <2>1, DefaultFollows, ListedFollows, CopyFollows, MoveNewFollows
<1>2. CASE Whole(v)
  <2>1. \/ \E w \in Vectors : v # w /\ Assign(v, w)
        \/ \E w \in Vectors : Swap(v, w)
        \/ Destroy(v)
    BY <1>0, <1>2 DEF Whole
  <2> QED  BY <2>1, AssignFollows, SwapFollows, DestroyFollows
<1>3. CASE Modify(v)
  <2>1. \/ \E x \in Values : EmplaceBack(v, x)
        \/ \E x \in Values, i \in Positions : Emplace(v, i, x)
        \/ PopBack(v) \/ Clear(v) \/ \E i \in Positions : Erase(v, i)
        \/ \E i, l \in Positions : EraseRange(v, i, l)
        \/ \E n \in Sizes : Reserve(v, n)
        \/ ShrinkToFit(v)
    BY <1>0, <1>3, Zenon DEF Modify
  <2>2. ASSUME NEW x \in Values, EmplaceBack(v, x) PROVE Follows
    BY <1>0, <2>2, PushFollows
  <2>3. ASSUME NEW x \in Values, NEW i \in Positions, Emplace(v, i, x) PROVE Follows
    BY <1>0, <2>3, EmplaceFollows
  <2>4. ASSUME NEW i \in Positions, Erase(v, i) PROVE Follows
    BY <1>0, <2>4, EraseFollows
  <2>5. ASSUME NEW i \in Positions, NEW l \in Positions, EraseRange(v, i, l) PROVE Follows
    BY <1>0, <2>5, EraseRangeFollows
  <2>6. CASE \E x \in Values, i \in Positions : Emplace(v, i, x)
    BY <2>3, <2>6, Zenon
  <2>7. CASE \E i, l \in Positions : EraseRange(v, i, l)
    BY <2>5, <2>7, Zenon
  <2>8. CASE PopBack(v) \/ Clear(v)
    BY <2>8, PopFollows
  <2>9. CASE ShrinkToFit(v)
    BY <2>9, ShrinkFollows
  <2>10. CASE \E n \in Sizes : Reserve(v, n)
    BY <2>10, ReserveFollows
  <2> QED  BY <2>1, <2>2, <2>4, <2>6, <2>7, <2>8, <2>9, <2>10, Zenon
<1> QED  BY <1>1, <1>2, <1>3

\* A program that makes its vectors empty or from lists sees independent
\* sequences: construction, copies, moves, insertion, erasure, growth and
\* shrinking (Vector.hpp:415-1040) are the operations of VectorValues.
THEOREM VectorsAreSequences == ASSUME Calls \subseteq ListCalls PROVE Spec => ImplementsValues
<1> DEFINE J == Fits /\ ~ overrun /\ Unsized
<1>1. Init => J /\ Abstract!Init
  <2> SUFFICES ASSUME Init PROVE J /\ Abstract!Init
    OBVIOUS
  <2>1. Fits /\ ~ overrun
    BY InitInvariant DEF Init, IInv, Fits
  <2>2. \A v \in Vectors : vec[v] = NoVector
    BY DEF Init
  <2>3. Unsized
    BY <2>2 DEF Unsized, NoVector
  <2>4. {v \in Vectors : Live(v)} = {}
    BY <2>2 DEF Live
  <2>5. Shown = <<>>
    BY <2>4 DEF Shown
  <2> QED  BY <2>1, <2>3, <2>5 DEF Abstract!Init, Shown
<1>2. J /\ [Next]_vars => J' /\ [Abstract!Next]_Shown
  <2> SUFFICES ASSUME J, [Next]_vars PROVE J' /\ (Abstract!Next \/ Shown' = Shown)
    OBVIOUS
  <2>1. CASE Next
    BY <2>1, ListStep DEF Next, Stop, Follows
  <2>2. CASE UNCHANGED vars
    <3>1. heap' = heap /\ vec' = vec /\ overrun' = overrun
      BY <2>2 DEF vars
    <3>2. Shown' = Shown
      BY <3>1, Zenon DEF Shown, Live, Items, Room, Cells
    <3>3. Fits'
      BY <3>1 DEF Fits, Owned, Typed, OwnBuffers, Roomy, Live, Room, Cells
    <3>4. Unsized'
      BY <3>1 DEF Unsized
    <3> QED  BY <3>1, <3>2, <3>3, <3>4
  <2> QED  BY <2>1, <2>2
<1> HIDE DEF J
<1>3. J /\ [Next]_vars => J' /\ [Abstract!Next]_[v \in {u \in Vectors : Live(u)} |-> Items(v)]
  BY <1>2 DEF Shown
<1> QED  BY <1>1, <1>3, PTL DEF Spec, ImplementsValues, Abstract!Spec

=============================================================================
