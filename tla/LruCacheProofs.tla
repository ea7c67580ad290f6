--------------------------- MODULE LruCacheProofs ---------------------------
(***************************************************************************)
(* Proofs about LruCache, for every capacity, all keys and all values: the *)
(* list is a chain of exactly cp live nodes in both directions, the map    *)
(* never leads to a node that has been deleted, and with every key but 0   *)
(* the cache is the queue of FifoCache.                                    *)
(*                                                                         *)
(* The first two go together: the map is sound because set() takes the key *)
(* of the node it deletes out of it, and that node, the tail, is never the *)
(* new one because it is a node of the list.  The queue is the front of    *)
(* the chain, whose nodes set() made; those of the constructor follow it.  *)
(***************************************************************************)
EXTENDS LruCache, FiniteSetTheorems, SequenceTheorems, WellFoundedInduction, TLAPS

FieldTypes ==
  /\ alive \subseteq Addresses
  /\ next \in [Addresses -> Pointers] /\ prev \in [Addresses -> Pointers]
  /\ key \in [Addresses -> AllKeys] /\ value \in [Addresses -> Values \union {0}]
  /\ mp \in [AllKeys -> Pointers]
  /\ cp \in Capacities /\ head \in Addresses /\ tail \in Addresses
  /\ answer \in {<<>>} \union (Keys \X (Values \union {NotFound, 0}))
  /\ latest \in [Keys -> Values \union {NotFound}]

\* The nodes in their order: s enumerates those that live, from the head to the
\* tail, and the pointers of a node are its neighbours.
Order(s) ==
  /\ \A i \in 1..cp : s[i] \in alive
  /\ \A i, j \in 1..cp : s[i] = s[j] => i = j
  /\ \A a \in alive : \E i \in 1..cp : s[i] = a
Links(s) ==
  /\ s[1] = head /\ s[cp] = tail
  /\ \A i \in 1..(cp - 1) : next[s[i]] = s[i + 1]
  /\ next[s[cp]] = Null
  /\ \A i \in 2..cp : prev[s[i]] = s[i - 1]

Chain == \E s \in [1..cp -> Addresses] : Order(s) /\ Links(s)

\* What MapSound says of a cache that has not been destroyed.
Mapped ==
  /\ \A k \in AllKeys : mp[k] # Null => mp[k] \in alive /\ key[mp[k]] = k
  /\ \A k \in Keys : mp[k] # Null => value[mp[k]] = latest[k]

\* The inductive invariant.
IInv == FieldTypes /\ (~ destroyed => Chain /\ Mapped) /\ (destroyed => alive = {})

-----------------------------------------------------------------------------

\* The place of a new node is none of a node that lives.
LEMMA NewNode ==
  ASSUME cp \in Capacities
  PROVE  /\ Unused \subseteq Addresses
         /\ \A n \in Unused : n \notin alive /\ n # Null
BY CapacityAssumption, AddressAssumption DEF Unused

LEMMA CapacityType == ASSUME cp \in Capacities PROVE cp \in Nat /\ cp >= 1
BY CapacityAssumption

\* Induction: a property of all numbers has no smallest counterexample.
LEMMA Minimum ==
  ASSUME NEW T \in SUBSET Nat, T # {}
  PROVE  \E x \in T : \A y \in T : x <= y
<1>1. IsWellFoundedOn(OpToRel(<, Nat), Nat)
  BY NatLessThanWellFounded
<1>2. PICK x \in T : \A y \in T : ~ (<<y, x>> \in OpToRel(<, Nat))
  BY <1>1, WFMin
<1>3. ASSUME NEW y \in T, y < x PROVE FALSE
  <2> DEFINE p == <<y, x>>
  <2>1. p \in Nat \X Nat /\ p[1] = y /\ p[2] = x
    OBVIOUS
  <2> HIDE DEF p
  <2>2. p \in OpToRel(<, Nat)
    BY <1>3, <2>1 DEF OpToRel
  <2> QED  BY <1>2, <2>2 DEF p
<1>4. \A y \in T : x \in Nat /\ y \in Nat
  OBVIOUS
<1> QED  BY <1>3, <1>4

\* The walk along next meets the nodes of a chain in their order, and no others.
LEMMA WalkLemma ==
  ASSUME FieldTypes, NEW s \in [1..cp -> Addresses], Links(s)
  PROVE  List = s
<1> DEFINE N == 1..(cp + 1)
           hop == [a \in Addresses \union {Null} |-> IF a = Null THEN Null ELSE next[a]]
           along(f) == [i \in N |-> IF i = 1 THEN head ELSE hop[f[i - 1]]]
           w == [i \in N |-> IF i <= cp THEN s[i] ELSE Null]
<1>1. cp \in Nat /\ cp >= 1 /\ Null \notin Addresses
  BY CapacityType, AddressAssumption DEF FieldTypes
<1>2. /\ hop[Null] = Null /\ \A a \in Addresses : hop[a] = next[a]
      /\ s[1] = head /\ \A i \in 1..(cp - 1) : next[s[i]] = s[i + 1]
      /\ next[s[cp]] = Null
  BY <1>1 DEF Links
<1> HIDE DEF hop
<1>3. \A i \in N : i # 1 => i - 1 \in N /\ w[i] = hop[w[i - 1]]
  <2> SUFFICES ASSUME NEW i \in N, i # 1 PROVE i - 1 \in N /\ w[i] = hop[w[i - 1]]
    OBVIOUS
  <2>1. i - 1 \in N /\ i - 1 \in 1..cp /\ w[i - 1] = s[i - 1] /\ s[i - 1] \in Addresses
    BY <1>1
  <2>2. CASE i <= cp
    <3>1. i - 1 \in 1..(cp - 1) /\ (i - 1) + 1 = i /\ w[i] = s[i]
      BY <1>1, <2>2
    <3> HIDE DEF w
    <3>2. next[s[i - 1]] = s[(i - 1) + 1]
      BY <1>2, <3>1
    <3> QED  BY <1>2, <2>1, <3>1, <3>2
  <2>3. CASE ~ (i <= cp)
    <3>1. i - 1 = cp /\ w[i] = Null
      BY <1>1, <2>3
    <3> HIDE DEF w
    <3> QED  BY <1>2, <2>1, <3>1
  <2> QED  BY <2>2, <2>3
<1>4. w[1] = head
  BY <1>1, <1>2
<1>5. w = along(w)
  BY <1>3, <1>4
<1>6. ASSUME NEW f, f = along(f) PROVE f = w
  <2>1. \A i \in N : f[i] = IF i = 1 THEN head ELSE hop[f[i - 1]]
    BY <1>6
  <2> DEFINE T == {i \in N : f[i] # w[i]}
  <2>2. T = {}
    <3> SUFFICES ASSUME T # {} PROVE FALSE
      OBVIOUS
    <3>1. T \in SUBSET Nat
      BY <1>1
    <3>2. PICK i \in T : \A j \in T : i <= j
      <4> HIDE DEF T
      <4> QED  BY <3>1, Minimum
    <3> HIDE DEF w
    <3>3. i \in N /\ f[i] # w[i] /\ i # 1
      BY <1>4, <2>1
    <3>4. i - 1 \in N /\ i - 1 \notin T
      BY <1>1, <1>3, <3>2, <3>3
    <3>5. f[i - 1] = w[i - 1]
      BY <3>4
    <3> QED  BY <1>3, <2>1, <3>3, <3>5
  <2>3. DOMAIN f = N /\ f = [i \in N |-> f[i]]
    BY <1>6
  <2> QED  BY <2>2, <2>3
<1>7. Walk = w
  <2>1. Walk = CHOOSE f : f = along(f)
    BY DEF Walk, hop
  <2> HIDE DEF along, w
  <2> QED  BY <1>5, <1>6, <2>1
<1>8. {j \in N : Walk[j] # Null} = 1..cp
  BY <1>1, <1>7
<1>9. Cardinality({j \in N : Walk[j] # Null}) = cp
  <2>1. Cardinality(1..cp) = cp
    BY <1>1, FS_Interval
  <2> QED  BY <1>8, <2>1
<1>10. List = [i \in 1..cp |-> Walk[i]]
  BY <1>9 DEF List
<1>11. \A i \in 1..cp : Walk[i] = s[i]
  BY <1>1, <1>7
<1> QED  BY <1>10, <1>11

LEMMA InitSound == Init => IInv
<1> SUFFICES ASSUME Init PROVE IInv
  OBVIOUS
<1>1. cp \in Capacities /\ 1..cp \subseteq Addresses /\ cp \in Nat /\ cp >= 1
  BY CapacityAssumption, AddressAssumption DEF Init, Chained
<1>2. FieldTypes
  <2>1. next \in [Addresses -> Pointers] /\ prev \in [Addresses -> Pointers]
    BY <1>1, CapacityAssumption, AddressAssumption DEF Init, Chained, Pointers
  <2> QED  BY <1>1, <2>1 DEF Init, Chained, FieldTypes, AllKeys, Pointers
<1>3. Mapped
  BY DEF Init, Chained, Mapped, AllKeys
<1>4. Chain
  <2> DEFINE s == [i \in 1..cp |-> i]
  <2>1. s \in [1..cp -> Addresses] /\ \A i \in 1..cp : s[i] = i
    BY <1>1
  <2> HIDE DEF s
  <2>2. Order(s)
    BY <1>1, <2>1 DEF Order, Init, Chained
  <2>3. Links(s)
    BY <1>1, <2>1 DEF Links, Init, Chained
  <2> QED  BY <2>1, <2>2, <2>3 DEF Chain
<1>5. ~ destroyed
  BY DEF Init, Chained
<1> QED  BY <1>2, <1>3, <1>4, <1>5 DEF IInv

LEMMA UpdateSound == ASSUME IInv, NEW k \in Keys, NEW v \in Values, Update(k, v) PROVE IInv'
<1>1. FieldTypes'
  BY DEF IInv, FieldTypes, Update, cache
<1>2. \A l \in AllKeys : mp'[l] # Null => mp'[l] \in alive' /\ key'[mp'[l]] = l
  BY DEF IInv, Mapped, Update, cache
<1>3. ASSUME NEW l \in Keys, mp'[l] # Null PROVE value'[mp'[l]] = latest'[l]
  <2>1. /\ mp' = mp /\ value' = [value EXCEPT ![mp[k]] = v]
        /\ latest' = [latest EXCEPT ![k] = v] /\ mp[k] # Null /\ mp[l] # Null
    BY <1>3 DEF Update, cache
  <2>2. l \in AllKeys /\ k \in AllKeys
    BY DEF AllKeys
  <2>3. key[mp[l]] = l /\ key[mp[k]] = k /\ mp[l] \in Addresses /\ mp[k] \in Addresses
        /\ value[mp[l]] = latest[l]
    BY <2>1, <2>2 DEF IInv, FieldTypes, Mapped, Update
  <2>4. CASE l = k
    BY <2>1, <2>3, <2>4 DEF IInv, FieldTypes
  <2>5. CASE l # k
    BY <2>1, <2>3, <2>5 DEF IInv, FieldTypes
  <2> QED  BY <2>4, <2>5
<1>4. Chain'
  <2>1. /\ alive' = alive /\ next' = next /\ prev' = prev
        /\ cp' = cp /\ head' = head /\ tail' = tail /\ Chain
    BY DEF IInv, Update, cache
  <2> QED  BY <2>1 DEF Chain, Order, Links
<1>5. ~ destroyed'
  BY DEF Update
<1> QED  BY <1>1, <1>2, <1>3, <1>4, <1>5 DEF IInv, Mapped

\* What set() of a new key does, in both of its forms: the new node `n` goes
\* before the nodes s, the last of which is deleted and taken out of the map; r
\* are the nodes then.
Shifts(s, n, r, k, v) ==
  /\ r[1] = n /\ \A i \in 2..cp : r[i] = s[i - 1]
  /\ alive' = (alive \union {n}) \ {s[cp]}
  /\ key' = [key EXCEPT ![n] = k] /\ value' = [value EXCEPT ![n] = v]
  /\ \/ mp' = [mp EXCEPT ![key[s[cp]]] = Null, ![k] = n]
     \/ mp' = [mp EXCEPT ![k] = n, ![key[s[cp]]] = Null]
  /\ latest' = [latest EXCEPT ![k] = v]
  /\ cp' = cp /\ answer' = answer

Pointed == /\ next \in [Addresses -> Pointers] /\ prev \in [Addresses -> Pointers]
           /\ head \in Addresses /\ tail \in Addresses

\* What set() of a new key does to the map, in both of its forms: the new node
\* `n` is put in, and the key of the node `gone` is taken out, before or after.
LEMMA SetMapped ==
  ASSUME FieldTypes, Mapped, NEW k \in Keys, NEW v \in Values,
         NEW n \in Unused, NEW gone, gone # n,
         alive' = (alive \union {n}) \ {gone},
         key' = [key EXCEPT ![n] = k], value' = [value EXCEPT ![n] = v],
         \/ mp' = [mp EXCEPT ![key[gone]] = Null, ![k] = n]
         \/ mp' = [mp EXCEPT ![k] = n, ![key[gone]] = Null],
         latest' = [latest EXCEPT ![k] = v]
  PROVE  /\ Mapped'
         /\ alive' \subseteq Addresses
         /\ key' \in [Addresses -> AllKeys] /\ value' \in [Addresses -> Values \union {0}]
         /\ mp' \in [AllKeys -> Pointers]
         /\ latest' \in [Keys -> Values \union {NotFound}]
<1>1. k \in AllKeys /\ n \in Addresses /\ n \notin alive /\ n # Null
  BY NewNode DEF FieldTypes, AllKeys
<1>2. /\ alive' \subseteq Addresses
      /\ key' \in [Addresses -> AllKeys] /\ value' \in [Addresses -> Values \union {0}]
      /\ latest' \in [Keys -> Values \union {NotFound}]
  BY <1>1 DEF FieldTypes
<1>3. mp' \in [AllKeys -> Pointers]
  BY <1>1 DEF FieldTypes, Pointers
<1>4. /\ \A l \in AllKeys : l # k => mp'[l] \in {mp[l], Null}
      /\ mp'[k] \in {n, Null}
      /\ \A l \in AllKeys : l # k /\ l = key[gone] => mp'[l] = Null
  BY <1>1 DEF FieldTypes
<1>5. ASSUME NEW l \in AllKeys, mp'[l] # Null
      PROVE  /\ mp'[l] \in alive' /\ key'[mp'[l]] = l
             /\ l \in Keys => value'[mp'[l]] = latest'[l]
  <2>1. CASE l = k
    BY <1>1, <1>4, <1>5, <2>1 DEF FieldTypes
  <2>2. CASE l # k
    <3>1. mp'[l] = mp[l] /\ mp[l] \in alive /\ key[mp[l]] = l /\ l # key[gone]
          /\ (l \in Keys => value[mp[l]] = latest[l])
      BY <1>4, <1>5, <2>2 DEF Mapped
    <3>2. mp[l] # n /\ mp[l] # gone /\ mp[l] \in Addresses
      BY <1>1, <3>1 DEF FieldTypes
    <3> QED  BY <2>2, <3>1, <3>2 DEF FieldTypes
  <2> QED  BY <2>1, <2>2
<1>6. Keys \subseteq AllKeys
  BY DEF AllKeys
<1> QED  BY <1>2, <1>3, <1>5, <1>6 DEF Mapped

\* A list of one node: that node is replaced.
LEMMA ReplaceShifts ==
  ASSUME IInv, NEW k \in Keys, NEW v \in Values, Replace(k, v),
         NEW s \in [1..cp -> Addresses], Order(s), Links(s)
  PROVE  \E n \in Unused : \E r \in [1..cp -> Addresses] :
           Shifts(s, n, r, k, v) /\ Order(r)' /\ Links(r)' /\ Pointed'
<1>1. PICK n \in Unused :
        /\ alive' = (alive \union {n}) \ {head}
        /\ next'  = [next EXCEPT ![n] = Null]
        /\ prev'  = [prev EXCEPT ![n] = head]
        /\ key'   = [key EXCEPT ![n] = k]
        /\ value' = [value EXCEPT ![n] = v]
        /\ mp'    = [mp EXCEPT ![key[head]] = Null, ![k] = n]
        /\ head' = n /\ tail' = n
  BY DEF Replace
<1>2. FieldTypes /\ Chain /\ Mapped /\ head = tail /\ cp' = cp
      /\ latest' = [latest EXCEPT ![k] = v] /\ answer' = answer /\ ~ destroyed'
  BY DEF IInv, Replace
<1>3. Order(s) /\ Links(s)
  OBVIOUS
<1>4. cp = 1 /\ head \in alive /\ alive = {head} /\ s[cp] = head
  BY <1>2, <1>3, CapacityType DEF FieldTypes, Order, Links
<1>5. n \in Addresses /\ n \notin alive
  BY <1>2, NewNode DEF FieldTypes
<1>6. alive' = {n} /\ head # n
  BY <1>1, <1>4, <1>5
<1>7. Pointed'
  BY <1>1, <1>2, <1>4, <1>5 DEF FieldTypes, Pointed, Pointers
<1>8. PICK r \in [1..cp -> Addresses] : r[1] = n
  <2>1. [i \in 1..cp |-> n] \in [1..cp -> Addresses] /\ [i \in 1..cp |-> n][1] = n
    BY <1>4, <1>5
  <2> QED  BY <2>1
<1>9. Order(r)'
  BY <1>2, <1>4, <1>6, <1>8 DEF Order
<1>10. Links(r)'
  BY <1>1, <1>2, <1>4, <1>5, <1>8 DEF Links, FieldTypes
<1>11. Shifts(s, n, r, k, v)
  BY <1>1, <1>2, <1>4, <1>8 DEF Shifts
<1> QED  BY <1>7, <1>8, <1>9, <1>10, <1>11

\* A longer one: the new node goes in front and the last one goes.
LEMMA PushFrontShifts ==
  ASSUME IInv, NEW k \in Keys, NEW v \in Values, PushFront(k, v),
         NEW s \in [1..cp -> Addresses], Order(s), Links(s)
  PROVE  \E n \in Unused : \E r \in [1..cp -> Addresses] :
           Shifts(s, n, r, k, v) /\ Order(r)' /\ Links(r)' /\ Pointed'
<1> DEFINE linked(n) == [a \in Addresses |-> IF a = n THEN head
                                             ELSE IF a \in {head} THEN n ELSE prev[a]]
<1>1. PICK n \in Unused :
        /\ alive' = (alive \union {n}) \ {tail}
        /\ next'  = [next EXCEPT ![n] = head, ![linked(n)[tail]] = Null]
        /\ prev'  = linked(n)
        /\ key'   = [key EXCEPT ![n] = k]
        /\ value' = [value EXCEPT ![n] = v]
        /\ mp'    = [mp EXCEPT ![k] = n, ![key[tail]] = Null]
        /\ head' = n
        /\ tail' = linked(n)[tail]
  BY DEF PushFront, Push
<1>2. FieldTypes /\ Chain /\ Mapped /\ head # tail /\ cp' = cp
      /\ latest' = [latest EXCEPT ![k] = v] /\ answer' = answer /\ ~ destroyed'
  BY DEF IInv, PushFront, Push
<1>3. Order(s) /\ Links(s)
  OBVIOUS
<1>4. cp \in Nat /\ cp >= 2
  BY <1>2, <1>3, CapacityType DEF FieldTypes, Links
<1>5. n \in Addresses /\ n \notin alive
  BY <1>2, NewNode DEF FieldTypes
<1>6. /\ head \in alive /\ tail \in alive /\ head \in Addresses /\ tail \in Addresses
      /\ head = s[1] /\ tail = s[cp] /\ prev[tail] = s[cp - 1] /\ s[cp - 1] \in Addresses
  BY <1>2, <1>3, <1>4 DEF Order, Links, FieldTypes
<1>7. linked(n)[tail] = s[cp - 1]
  BY <1>2, <1>5, <1>6
<1>8. prev' = [a \in Addresses |-> IF a = n THEN head ELSE IF a = head THEN n ELSE prev[a]]
  BY <1>1
<1>9. next' = [next EXCEPT ![n] = head, ![s[cp - 1]] = Null] /\ tail' = s[cp - 1]
  BY <1>1, <1>7
<1> HIDE DEF linked
<1>10. Pointed'
  <2>1. next' \in [Addresses -> Pointers] /\ prev' \in [Addresses -> Pointers]
    BY <1>2, <1>5, <1>6, <1>8, <1>9 DEF FieldTypes, Pointers
  <2>2. head' \in Addresses /\ tail' \in Addresses
    BY <1>1, <1>5, <1>6, <1>9
  <2> QED  BY <2>1, <2>2 DEF Pointed
<1>11. PICK r \in [1..cp -> Addresses] : r[1] = n /\ \A i \in 2..cp : r[i] = s[i - 1]
  <2> DEFINE q == [i \in 1..cp |-> IF i = 1 THEN n ELSE s[i - 1]]
  <2>1. q \in [1..cp -> Addresses] /\ q[1] = n /\ \A i \in 2..cp : q[i] = s[i - 1]
    BY <1>4, <1>5
  <2> HIDE DEF q
  <2> QED  BY <2>1
<1>12. Order(r)'
  <2>1. ASSUME NEW i \in 1..cp PROVE r[i] \in alive'
    <3>1. CASE i = 1
      BY <1>1, <1>5, <1>6, <1>11, <3>1
    <3>2. CASE i # 1
      <4>1. r[i] = s[i - 1] /\ i - 1 \in 1..cp /\ i - 1 # cp /\ cp \in 1..cp
        BY <1>4, <1>11, <3>2
      <4>2. s[i - 1] \in alive /\ s[i - 1] # s[cp]
        BY <1>3, <4>1 DEF Order
      <4> QED  BY <1>1, <1>6, <4>1, <4>2
    <3> QED  BY <3>1, <3>2
  <2>2. \A i, j \in 1..cp : r[i] = r[j] => i = j
    BY <1>3, <1>4, <1>5, <1>11 DEF Order
  <2>3. ASSUME NEW a \in alive' PROVE \E i \in 1..cp : r[i] = a
    <3>1. CASE a = n
      BY <1>4, <1>11, <3>1
    <3>2. CASE a # n
      <4>1. PICK i \in 1..cp : s[i] = a /\ i # cp
        BY <1>1, <1>3, <1>6, <3>2 DEF Order
      <4>2. i + 1 \in 2..cp /\ r[i + 1] = a
        BY <1>4, <1>11, <4>1
      <4> QED  BY <1>4, <4>2
    <3> QED  BY <3>1, <3>2
  <2> QED  BY <1>2, <2>1, <2>2, <2>3 DEF Order
<1>13. Links(r)'
  <2>1. r[1] = head' /\ r[cp] = tail'
    BY <1>1, <1>4, <1>9, <1>11
  <2>2. ASSUME NEW i \in 1..(cp - 1) PROVE next'[r[i]] = r[i + 1]
    <3>1. CASE i = 1
      BY <1>2, <1>3, <1>4, <1>5, <1>6, <1>9, <1>11, <3>1 DEF FieldTypes, Order
    <3>2. CASE i # 1
      <4>1. r[i] = s[i - 1] /\ r[i + 1] = s[i] /\ next[s[i - 1]] = s[i]
        <5>1. i - 1 \in 1..(cp - 1) /\ i \in 2..cp /\ i + 1 \in 2..cp
              /\ (i - 1) + 1 = i /\ (i + 1) - 1 = i
          BY <1>4, <3>2
        <5>2. next[s[i - 1]] = s[(i - 1) + 1] /\ r[i + 1] = s[(i + 1) - 1]
          BY <1>3, <1>11, <5>1 DEF Links
        <5> QED  BY <1>11, <5>1, <5>2
      <4>2. s[i - 1] # s[cp - 1] /\ s[i - 1] # n /\ s[i - 1] \in Addresses
        BY <1>3, <1>4, <1>5, <3>2 DEF Order
      <4> QED  BY <1>2, <1>9, <4>1, <4>2 DEF FieldTypes
    <3> QED  BY <3>1, <3>2
  <2>3. next'[r[cp]] = Null
    BY <1>2, <1>4, <1>6, <1>9, <1>11 DEF FieldTypes
  <2>4. ASSUME NEW i \in 2..cp PROVE prev'[r[i]] = r[i - 1]
    <3>1. CASE i = 2
      BY <1>4, <1>5, <1>6, <1>8, <1>11, <3>1
    <3>2. CASE i # 2
      <4>1. r[i] = s[i - 1] /\ r[i - 1] = s[i - 2] /\ prev[s[i - 1]] = s[i - 2]
        BY <1>3, <1>4, <1>11, <3>2 DEF Links
      <4>2. s[i - 1] # head /\ s[i - 1] # n /\ s[i - 1] \in Addresses
        BY <1>3, <1>4, <1>5, <1>6, <3>2 DEF Order
      <4> QED  BY <1>8, <4>1, <4>2
    <3> QED  BY <3>1, <3>2
  <2> QED  BY <1>2, <2>1, <2>2, <2>3, <2>4 DEF Links
<1>14. Shifts(s, n, r, k, v)
  BY <1>1, <1>2, <1>6, <1>11 DEF Shifts
<1> QED  BY <1>10, <1>11, <1>12, <1>13, <1>14

\* set() of a new key.
LEMMA InsertSound ==
  ASSUME IInv, NEW k \in Keys, NEW v \in Values, Replace(k, v) \/ PushFront(k, v) PROVE IInv'
<1>1. FieldTypes /\ Chain /\ Mapped /\ cp \in Nat /\ cp >= 1 /\ ~ destroyed'
  BY CapacityType DEF IInv, FieldTypes, Replace, PushFront, Push
<1>2. PICK s \in [1..cp -> Addresses] : Order(s) /\ Links(s)
  BY <1>1 DEF Chain
<1>3. PICK n \in Unused, r \in [1..cp -> Addresses] :
        Shifts(s, n, r, k, v) /\ Order(r)' /\ Links(r)' /\ Pointed'
  BY <1>2, ReplaceShifts, PushFrontShifts
<1>4. s[cp] # n
  BY <1>1, <1>2, NewNode DEF Order, FieldTypes
<1>5. Mapped' /\ FieldTypes'
  BY <1>1, <1>3, <1>4, SetMapped DEF Shifts, Pointed, FieldTypes
<1>6. Chain'
  BY <1>3 DEF Chain, Shifts
<1> QED  BY <1>1, <1>5, <1>6 DEF IInv

LEMMA GetSound == ASSUME IInv, NEW k \in Keys, Get(k) PROVE IInv'
<1>1. answer' \in Keys \X (Values \union {NotFound, 0})
  <2> DEFINE found == IF mp[k] # Null THEN value[mp[k]] ELSE NotFound
  <2>1. mp[k] # Null => mp[k] \in Addresses
    BY DEF IInv, FieldTypes, AllKeys, Pointers
  <2>2. found \in Values \union {NotFound, 0}
    BY <2>1 DEF IInv, FieldTypes
  <2>3. answer' = <<k, found>>
    BY DEF Get
  <2> HIDE DEF found
  <2> QED  BY <2>2, <2>3
<1>2. /\ UNCHANGED <<alive, next, prev, key, value>> /\ UNCHANGED <<mp, cp, head, tail>>
      /\ latest' = latest /\ ~ destroyed /\ ~ destroyed'
  BY DEF Get, heap, cache
<1>3. FieldTypes'
  BY <1>1, <1>2 DEF IInv, FieldTypes
<1> QED  BY <1>2, <1>3 DEF IInv, Chain, Order, Links, Mapped

LEMMA DestroySound == ASSUME IInv, Destroy PROVE IInv'
<1>1. PICK s \in [1..cp -> Addresses] : Order(s) /\ Links(s)
  BY DEF IInv, Chain, Destroy
<1>2. List = s /\ cp \in Nat
  BY <1>1, WalkLemma, CapacityType DEF IInv, FieldTypes
<1>3. alive' = alive \ {s[i] : i \in 1..cp}
  BY <1>2 DEF Destroy
<1>4. alive' = {}
  BY <1>1, <1>3 DEF Order
<1> QED  BY <1>4 DEF IInv, FieldTypes, Destroy, cache

LEMMA Inductive == IInv /\ [Next]_vars => IInv'
<1> SUFFICES ASSUME IInv, [Next]_vars PROVE IInv'
  OBVIOUS
<1>1. ASSUME NEW k \in Keys, Get(k) PROVE IInv'
  BY <1>1, GetSound
<1>2. ASSUME NEW k \in Keys, NEW v \in Values, Update(k, v) PROVE IInv'
  BY <1>2, UpdateSound
<1>3. ASSUME NEW k \in Keys, NEW v \in Values, Replace(k, v) \/ PushFront(k, v) PROVE IInv'
  BY <1>3, InsertSound
<1>4. CASE Destroy
  BY <1>4, DestroySound
<1>5. CASE UNCHANGED vars
  BY <1>5 DEF IInv, FieldTypes, Chain, Order, Links, Mapped, vars
<1> QED  BY <1>1, <1>2, <1>3, <1>4, <1>5 DEF Next, Done

LEMMA InvariantHolds == Spec => []IInv
BY InitSound, Inductive, PTL DEF Spec

-----------------------------------------------------------------------------

\* For every capacity, and whatever is set in whatever order, key 0 included, the
\* map leads to a live node of the key with the value last set, or to none
\* (main18_linkedlist.cpp:112-180).
THEOREM MapIsSound == Spec => []MapSound
<1>1. IInv => MapSound
  BY DEF IInv, Mapped, MapSound
<1> QED  BY <1>1, InvariantHolds, PTL

\* For every capacity the list is a chain of exactly cp nodes, each other's
\* neighbours in both directions, and no other node lives: set() neither leaks a
\* node nor loses one (main18_linkedlist.cpp:58-85, 131-172).
THEOREM ListIsSound == Spec => []ListSound
<1>1. IInv => ListSound
  <2> SUFFICES ASSUME IInv, ~ destroyed
               PROVE  /\ Len(List) = cp
                      /\ {List[i] : i \in 1..Len(List)} = alive /\ Cardinality(alive) = cp
                      /\ List[Len(List)] = tail
                      /\ \A i \in 2..Len(List) : prev[List[i]] = List[i - 1]
    BY DEF ListSound
  <2>1. PICK s \in [1..cp -> Addresses] : Order(s) /\ Links(s)
    BY DEF IInv, Chain
  <2>2. List = s /\ cp \in Nat /\ Len(s) = cp
    BY <2>1, WalkLemma, CapacityType DEF IInv, FieldTypes
  <2>3. {s[i] : i \in 1..cp} = alive
    BY <2>1 DEF Order
  <2>4. Cardinality(alive) = cp
    <3>1. s \in Bijection(1..cp, alive)
      BY <2>1 DEF Order, Bijection, Injection, Surjection, IsInjective
    <3>2. IsFiniteSet(1..cp) /\ Cardinality(1..cp) = cp
      BY <2>2, FS_Interval
    <3> QED  BY <3>1, <3>2, FS_Bijection DEF ExistsBijection
  <2>5. s[cp] = tail /\ \A i \in 2..cp : prev[s[i]] = s[i - 1]
    BY <2>1 DEF Links
  <2> QED  BY <2>2, <2>3, <2>4, <2>5
<1> QED  BY <1>1, InvariantHolds, PTL

\* The destructor reaches every node (main18_linkedlist.cpp:92-107).
THEOREM DestructorFreesAll == Spec => []AllFreed
<1>1. IInv => AllFreed
  BY DEF IInv, AllFreed
<1> QED  BY <1>1, InvariantHolds, PTL

\* The fields of the nodes and the members of the cache have their types: after
\* the constructor no pointer that set() unlinks by is null
\* (main18_linkedlist.cpp:146-172).
THEOREM TypeCorrect == Spec => []TypeOK
<1> DEFINE B == destroyed \in BOOLEAN
<1>1. Init => B
  BY DEF Init, Chained
<1>2. B /\ [Next]_vars => B'
  BY Zenon DEF Next, Get, Update, Replace, PushFront, Push, Destroy, Done, vars
<1>3. IInv /\ B => TypeOK
  BY Zenon DEF IInv, FieldTypes, TypeOK
<1> QED  BY <1>1, <1>2, <1>3, InvariantHolds, PTL DEF Spec

-----------------------------------------------------------------------------
(* The abstract cache, as long as nobody sets key 0. *)

\* The first m of the nodes s are those that set() made, each of which is in the
\* map; the others are those of the constructor.
Filled(s, m) ==
  /\ \A i \in 1..m : key[s[i]] # FillKey /\ mp[key[s[i]]] = s[i]
  /\ \A i \in (m + 1)..cp : key[s[i]] = FillKey

Fill == \E s \in [1..cp -> Addresses], m \in 0..cp : Order(s) /\ Links(s) /\ Filled(s, m)

\* The invariant of the refinement.
FifoInv == IInv /\ (FillKeyUnused /\ ~ destroyed => mp[FillKey] = Null /\ Fill)

Shown(s, m) == [i \in 1..m |-> [key |-> key[s[i]], value |-> value[s[i]]]]

\* The sequence c after x, no longer than p.
Behind(x, c, p) == [i \in 1..p |-> IF i = 1 THEN x ELSE c[i - 1]]

ItemsAreShown ==
  FieldTypes /\ ~ destroyed =>
    \A s \in [1..cp -> Addresses], m \in 0..cp :
      Links(s) /\ Filled(s, m) => Items = Shown(s, m)

LEMMA ItemsLemma == ItemsAreShown
<1> SUFFICES ASSUME FieldTypes, ~ destroyed,
                    NEW s \in [1..cp -> Addresses], NEW m \in 0..cp, Links(s), Filled(s, m)
             PROVE  Items = Shown(s, m)
  BY DEF ItemsAreShown
<1>1. List = s /\ cp \in Nat /\ Len(s) = cp
  BY WalkLemma, CapacityType DEF FieldTypes
<1>2. {j \in 1..Len(List) : key[List[j]] # FillKey} = 1..m
  <2>1. \A j \in 1..cp : key[s[j]] # FillKey <=> j \in 1..m
    BY <1>1 DEF Filled
  <2> QED  BY <1>1, <2>1
<1>3. Cardinality({j \in 1..Len(List) : key[List[j]] # FillKey}) = m
  <2>1. Cardinality(1..m) = m
    BY <1>1, FS_Interval
  <2> QED  BY <1>2, <2>1
<1> QED  BY <1>1, <1>3 DEF Items, Shown

LEMMA NextItems == ItemsAreShown'
BY ItemsLemma, PTL

\* The nodes of an insertion are filled one further than before.
LEMMA InsertFills ==
  ASSUME FieldTypes, Mapped, NEW k \in Keys, NEW v \in Values, k # FillKey,
         mp[k] = Null, mp[FillKey] = Null,
         NEW s \in [1..cp -> Addresses], Order(s), Links(s),
         NEW m \in 0..cp, Filled(s, m),
         NEW n \in Unused, NEW r \in [1..cp -> Addresses], Shifts(s, n, r, k, v),
         NEW p, m = cp => p = cp, m # cp => p = m + 1
  PROVE  /\ p \in 0..cp /\ Filled(r, p)' /\ mp'[FillKey] = Null
         /\ Shown(r, p)' = Behind([key |-> k, value |-> v], Shown(s, m), p)
<1>1. cp \in Nat /\ cp >= 1 /\ p \in 1..cp /\ p <= m + 1 /\ cp' = cp
  BY CapacityType DEF FieldTypes, Shifts
<1>2. n \in Addresses /\ n \notin alive /\ n # Null /\ k \in AllKeys /\ FillKey \in AllKeys
  BY NewNode DEF FieldTypes, AllKeys
<1>3. /\ r[1] = n /\ key'[n] = k /\ value'[n] = v
      /\ \A a \in Addresses : a # n => key'[a] = key[a] /\ value'[a] = value[a]
  BY <1>2 DEF Shifts, FieldTypes
<1>4. \A i \in 2..cp : /\ i - 1 \in 1..cp /\ r[i] = s[i - 1] /\ s[i - 1] \in Addresses
                       /\ s[i - 1] # n /\ s[i - 1] # Null
  BY <1>1, <1>2, AddressAssumption DEF Shifts, Order
<1>5. \A i \in 2..cp : key'[r[i]] = key[s[i - 1]] /\ value'[r[i]] = value[s[i - 1]]
  BY <1>3, <1>4
<1>6. key[s[cp]] \in AllKeys /\ key[s[cp]] # k
  <2>1. s[cp] \in Addresses /\ cp \in 1..cp
    BY <1>1
  <2>2. cp <= m \/ cp \in (m + 1)..cp
    BY <1>1
  <2>3. s[cp] # Null
    BY <2>1, AddressAssumption
  <2>4. key[s[cp]] # FillKey => mp[key[s[cp]]] = s[cp]
    BY <1>1, <2>1, <2>2 DEF Filled
  <2> QED  BY <2>1, <2>3, <2>4 DEF FieldTypes
<1>7. mp'[k] = n /\ \A l \in AllKeys : l # k /\ l # key[s[cp]] => mp'[l] = mp[l]
  BY <1>2, <1>6 DEF Shifts, FieldTypes
<1>8. mp'[FillKey] = Null
  BY <1>2, <1>6 DEF Shifts, FieldTypes
<1>9. ASSUME NEW i \in 2..p PROVE key'[r[i]] # FillKey /\ mp'[key'[r[i]]] = r[i]
  <2>1. i \in 2..cp /\ i - 1 \in 1..m /\ i - 1 # cp
    BY <1>1
  <2>2. key[s[i - 1]] # FillKey /\ mp[key[s[i - 1]]] = s[i - 1] /\ key[s[i - 1]] \in AllKeys
    BY <1>4, <2>1 DEF Filled, FieldTypes
  <2>3. key[s[i - 1]] # k
    BY <1>4, <2>1, <2>2
  <2>4. key[s[i - 1]] # key[s[cp]]
    <3> SUFFICES ASSUME key[s[i - 1]] = key[s[cp]] PROVE FALSE
      OBVIOUS
    <3>1. cp \in 1..m
      BY <1>1, <2>2 DEF Filled
    <3>2. s[cp] = s[i - 1]
      BY <2>2, <3>1 DEF Filled
    <3> QED  BY <1>1, <1>4, <2>1, <3>2 DEF Order
  <2> QED  BY <1>4, <1>5, <1>7, <2>1, <2>2, <2>3, <2>4
<1>10. ASSUME NEW i \in (p + 1)..cp PROVE key'[r[i]] = FillKey
  <2>1. i \in 2..cp /\ i - 1 \in (m + 1)..cp
    BY <1>1
  <2> QED  BY <1>5, <2>1 DEF Filled
<1>11. Filled(r, p)'
  <2>1. \A i \in 1..p : i = 1 \/ i \in 2..p
    BY <1>1
  <2>2. \A i \in 1..p : key'[r[i]] # FillKey /\ mp'[key'[r[i]]] = r[i]
    BY <1>3, <1>7, <1>9, <2>1
  <2> QED  BY <1>1, <1>10, <2>2 DEF Filled
<1>12. ASSUME NEW i \in 1..p
       PROVE  [key |-> key'[r[i]], value |-> value'[r[i]]]
                = IF i = 1 THEN [key |-> k, value |-> v] ELSE Shown(s, m)[i - 1]
  <2>1. CASE i = 1
    BY <1>3, <2>1
  <2>2. CASE i # 1
    <3>1. i \in 2..cp /\ i - 1 \in 1..m
      BY <1>1, <2>2
    <3>2. Shown(s, m)[i - 1] = [key |-> key[s[i - 1]], value |-> value[s[i - 1]]]
      BY <3>1 DEF Shown
    <3> QED  BY <1>5, <2>2, <3>1, <3>2
  <2> QED  BY <2>1, <2>2
<1>13. Shown(r, p)' = [i \in 1..p |-> [key |-> key'[r[i]], value |-> value'[r[i]]]]
  BY DEF Shown
<1>14. Shown(r, p)' = Behind([key |-> k, value |-> v], Shown(s, m), p)
  BY <1>12, <1>13, Zenon DEF Behind
<1>15. p \in 0..cp
  BY <1>1
<1> QED  BY <1>8, <1>11, <1>14, <1>15, Zenon

\* What the map knows of the nodes that set() made.
Finds(k, s, m) ==
  /\ mp[k] # Null => \E i \in 1..m : s[i] = mp[k] /\ key[s[i]] = k
  /\ mp[k] = Null => \A i \in 1..m : key[s[i]] # k

LEMMA FilledKeys ==
  ASSUME FieldTypes, Mapped, mp[FillKey] = Null, NEW k \in Keys,
         NEW s \in [1..cp -> Addresses], Order(s), NEW m \in 0..cp, Filled(s, m)
  PROVE  Finds(k, s, m)
<1>1. cp \in Nat /\ k \in AllKeys
  BY CapacityType DEF FieldTypes, AllKeys
<1>2. ASSUME mp[k] # Null PROVE \E i \in 1..m : s[i] = mp[k] /\ key[s[i]] = k
  <2>1. mp[k] \in alive /\ key[mp[k]] = k /\ k # FillKey
    BY <1>1, <1>2 DEF Mapped
  <2>2. PICK i \in 1..cp : s[i] = mp[k]
    BY <2>1 DEF Order
  <2>3. i \in 1..m
    BY <1>1, <2>1, <2>2 DEF Filled
  <2> QED  BY <2>1, <2>2, <2>3
<1>3. ASSUME mp[k] = Null, NEW i \in 1..m PROVE key[s[i]] # k
  <2>1. s[i] # Null
    BY <1>1, AddressAssumption
  <2> QED  BY <1>3, <2>1 DEF Filled
<1> QED  BY <1>2, <1>3 DEF Finds

\* Nobody had set key 0 before this step either.
LEMMA StillUnused ==
  ASSUME NotFound \notin Values, FieldTypes, NEW k \in Keys, NEW v \in Values,
         latest' = [latest EXCEPT ![k] = v], FillKeyUnused'
  PROVE  FillKeyUnused /\ k # FillKey
BY DEF FieldTypes, FillKeyUnused

LEMMA UpdateFollows ==
  ASSUME NotFound \notin Values, FifoInv, FillKeyUnused',
         NEW k \in Keys, NEW v \in Values, Update(k, v)
  PROVE  mp'[FillKey] = Null /\ Fill' /\ Abstract!Next
<1>1. /\ ~ destroyed /\ ~ destroyed' /\ mp[k] # Null
      /\ value' = [value EXCEPT ![mp[k]] = v] /\ latest' = [latest EXCEPT ![k] = v]
      /\ UNCHANGED <<alive, next, prev, key, answer>> /\ UNCHANGED <<mp, cp, head, tail>>
  BY DEF Update, cache
<1>2. FieldTypes /\ Mapped /\ FieldTypes'
  BY <1>1, UpdateSound DEF FifoInv, IInv
<1>3. FillKeyUnused
  BY <1>1, <1>2, StillUnused
<1>4. mp[FillKey] = Null /\ Fill
  BY <1>1, <1>3 DEF FifoInv
<1>5. PICK s \in [1..cp -> Addresses], m \in 0..cp : Order(s) /\ Links(s) /\ Filled(s, m)
  BY <1>4 DEF Fill
<1>6. PICK i \in 1..m : s[i] = mp[k] /\ key[s[i]] = k
  <2>1. Finds(k, s, m)
    BY <1>2, <1>4, <1>5, FilledKeys
  <2> QED  BY <1>1, <2>1 DEF Finds
<1>7. Order(s)' /\ Links(s)' /\ Filled(s, m)'
  BY <1>1, <1>5 DEF Order, Links, Filled
<1>8. Items = Shown(s, m) /\ Items' = Shown(s, m)'
  BY <1>1, <1>2, <1>5, <1>7, ItemsLemma, NextItems DEF ItemsAreShown
<1>9. m \in Nat /\ m <= cp /\ cp \in Nat
  BY <1>2, CapacityType DEF FieldTypes
<1>10. \A j \in 1..m : s[j] \in Addresses /\ (s[j] = s[i] => j = i)
  BY <1>5, <1>9 DEF Order
<1>11. Items' = [Items EXCEPT ![i].value = v]
  <2>1. \A j \in 1..m : key'[s[j]] = key[s[j]]
                        /\ value'[s[j]] = IF j = i THEN v ELSE value[s[j]]
    BY <1>1, <1>2, <1>6, <1>10 DEF FieldTypes
  <2>2. Shown(s, m)' = [j \in 1..m |-> [key |-> key[s[j]],
                                         value |-> IF j = i THEN v ELSE value[s[j]]]]
    BY <2>1 DEF Shown
  <2> QED  BY <1>8, <2>2 DEF Shown
<1>12. i \in 1..Len(Items) /\ Items[i].key = k
  BY <1>6, <1>8, <1>9 DEF Shown
<1>13. Abstract!Update(k, v)
  BY <1>1, <1>11, <1>12 DEF Abstract!Update
<1> QED  BY <1>1, <1>4, <1>5, <1>7, <1>13 DEF Fill, Abstract!Next

LEMMA GetFollows ==
  ASSUME FifoInv, FillKeyUnused', NEW k \in Keys, Get(k)
  PROVE  mp'[FillKey] = Null /\ Fill' /\ Abstract!Next
<1>1. /\ ~ destroyed /\ ~ destroyed'
      /\ answer' = <<k, IF mp[k] # Null THEN value[mp[k]] ELSE NotFound>>
      /\ UNCHANGED <<alive, next, prev, key, value>> /\ UNCHANGED <<mp, cp, head, tail>>
      /\ latest' = latest
  BY DEF Get, heap, cache
<1>2. FieldTypes /\ Mapped /\ FieldTypes' /\ FillKeyUnused
  BY <1>1, GetSound DEF FifoInv, IInv, FillKeyUnused
<1>3. mp[FillKey] = Null /\ Fill
  BY <1>1, <1>2 DEF FifoInv
<1>4. PICK s \in [1..cp -> Addresses], m \in 0..cp : Order(s) /\ Links(s) /\ Filled(s, m)
  BY <1>3 DEF Fill
<1>5. Order(s)' /\ Links(s)' /\ Filled(s, m)'
  BY <1>1, <1>4 DEF Order, Links, Filled
<1>6. Items = Shown(s, m) /\ Items' = Shown(s, m)'
  BY <1>1, <1>2, <1>4, <1>5, ItemsLemma, NextItems DEF ItemsAreShown
<1>7. Items' = Items
  BY <1>1, <1>6 DEF Shown
<1>8. Len(Items) = m /\ \A i \in 1..m : Items[i].key = key[s[i]] /\ Items[i].value = value[s[i]]
  BY <1>2, <1>6, CapacityType DEF Shown, FieldTypes
<1>9. Finds(k, s, m)
  BY <1>2, <1>3, <1>4, FilledKeys
<1>10. Abstract!Get(k)
  <2>1. CASE mp[k] # Null
    <3>1. PICK i \in 1..m : s[i] = mp[k] /\ key[s[i]] = k
      BY <1>9, <2>1 DEF Finds
    <3>2. i \in 1..Len(Items) /\ Items[i].key = k /\ answer' = <<k, Items[i].value>>
      BY <1>1, <1>8, <2>1, <3>1
    <3> QED  BY <1>1, <1>7, <3>2 DEF Abstract!Get
  <2>2. CASE mp[k] = Null
    <3>1. \A i \in 1..Len(Items) : Items[i].key # k
      BY <1>8, <1>9, <2>2 DEF Finds
    <3>2. answer' = <<k, Abstract!NotFound>>
      BY <1>1, <2>2 DEF NotFound, Abstract!NotFound
    <3> QED  BY <1>1, <1>7, <3>1, <3>2 DEF Abstract!Get
  <2> QED  BY <2>1, <2>2
<1> QED  BY <1>1, <1>3, <1>4, <1>5, <1>10 DEF Fill, Abstract!Next

LEMMA InsertFollows ==
  ASSUME NotFound \notin Values, FifoInv, FillKeyUnused',
         NEW k \in Keys, NEW v \in Values, Replace(k, v) \/ PushFront(k, v)
  PROVE  mp'[FillKey] = Null /\ Fill' /\ Abstract!Next
<1>1. /\ ~ destroyed /\ ~ destroyed' /\ mp[k] = Null /\ latest' = [latest EXCEPT ![k] = v]
      /\ cp' = cp /\ answer' = answer
  BY DEF FifoInv, IInv, Replace, PushFront, Push
<1>2. FieldTypes /\ Mapped /\ FieldTypes'
  BY <1>1, InsertSound DEF FifoInv, IInv
<1>3. FillKeyUnused /\ k # FillKey
  BY <1>1, <1>2, StillUnused
<1>4. mp[FillKey] = Null /\ Fill
  BY <1>1, <1>3 DEF FifoInv
<1>5. PICK s \in [1..cp -> Addresses], m \in 0..cp : Order(s) /\ Links(s) /\ Filled(s, m)
  BY <1>4 DEF Fill
<1>6. PICK n \in Unused, r \in [1..cp -> Addresses] :
        Shifts(s, n, r, k, v) /\ Order(r)' /\ Links(r)' /\ Pointed'
  BY <1>5, ReplaceShifts, PushFrontShifts DEF FifoInv
<1>7. PICK p : (m = cp => p = cp) /\ (m # cp => p = m + 1)
  <2>1. CASE m = cp
    BY <2>1
  <2>2. CASE m # cp
    BY <2>2
  <2> QED  BY <2>1, <2>2
<1>8. /\ p \in 0..cp /\ Filled(r, p)' /\ mp'[FillKey] = Null
      /\ Shown(r, p)' = Behind([key |-> k, value |-> v], Shown(s, m), p)
  <2>1. p \in 0..cp
    BY <1>1, <1>2, <1>3, <1>4, <1>5, <1>6, <1>7, InsertFills
  <2>2. Filled(r, p)'
    BY <1>1, <1>2, <1>3, <1>4, <1>5, <1>6, <1>7, InsertFills
  <2>3. Shown(r, p)' = Behind([key |-> k, value |-> v], Shown(s, m), p)
    BY <1>1, <1>2, <1>3, <1>4, <1>5, <1>6, <1>7, InsertFills
  <2>4. mp'[FillKey] = Null
    BY <1>1, <1>2, <1>3, <1>4, <1>5, <1>6, <1>7, InsertFills
  <2> QED  BY <2>1, <2>2, <2>3, <2>4
<1>9. Items = Shown(s, m) /\ Items' = Shown(r, p)'
  BY <1>1, <1>2, <1>5, <1>6, <1>8, ItemsLemma, NextItems DEF ItemsAreShown
<1>10. m \in Nat /\ m <= cp /\ cp \in Nat /\ cp >= 1
  BY <1>2, CapacityType DEF FieldTypes
<1>11. Len(Items) = m /\ Items \in Seq([key : AllKeys, value : Values \union {0}])
       /\ \A i \in 1..m : Items[i].key = key[s[i]]
  <2>1. \A i \in 1..m : s[i] \in Addresses
    BY <1>10
  <2>2. \A i \in 1..m : [key |-> key[s[i]], value |-> value[s[i]]]
                          \in [key : AllKeys, value : Values \union {0}]
    BY <1>2, <2>1 DEF FieldTypes
  <2>3. Shown(s, m) \in [1..m -> [key : AllKeys, value : Values \union {0}]]
        /\ \A i \in 1..m : Shown(s, m)[i].key = key[s[i]]
    BY <2>2, Zenon DEF Shown
  <2> DEFINE R == [key : AllKeys, value : Values \union {0}]
  <2> HIDE DEF R
  <2>4. Items \in [1..m -> R] /\ \A i \in 1..m : Items[i].key = key[s[i]]
    BY <1>9, <2>3 DEF R
  <2>5. Items \in Seq(R) /\ Len(Items) = m
    BY <1>10, <2>4
  <2> QED  BY <2>4, <2>5 DEF R
<1>12. \A i \in 1..Len(Items) : Items[i].key # k
  <2>1. Finds(k, s, m)
    BY <1>2, <1>4, <1>5, FilledKeys
  <2> QED  BY <1>1, <1>11, <2>1 DEF Finds
<1> DEFINE x == [key |-> k, value |-> v]
           all == <<x>> \o Items
<1>13. Len(all) = m + 1 /\ \A i \in 1..(m + 1) : all[i] = IF i = 1 THEN x ELSE Items[i - 1]
  BY <1>10, <1>11
<1>14. all \in Seq([key : AllKeys, value : Values \union {0}])
  BY <1>11 DEF AllKeys
<1>15. Items' = [i \in 1..p |-> IF i = 1 THEN x ELSE Items[i - 1]]
  BY <1>8, <1>9 DEF Behind
<1>16. Items' = IF Len(Items) = cp THEN SubSeq(all, 1, cp) ELSE all
  <2> HIDE DEF all, x
  <2>1. CASE m = cp
    <3>1. SubSeq(all, 1, cp) = [i \in 1..cp |-> all[i]]
      BY <1>10, <1>13, <1>14, <2>1
    <3> QED  BY <1>7, <1>10, <1>11, <1>13, <1>15, <2>1, <3>1
  <2>2. CASE m # cp
    <3>1. all = [i \in 1..(m + 1) |-> all[i]]
      BY <1>13, <1>14
    <3> QED  BY <1>7, <1>10, <1>11, <1>13, <1>15, <2>2, <3>1
  <2> QED  BY <2>1, <2>2
<1>17. Abstract!Insert(k, v)
  BY <1>1, <1>12, <1>16 DEF Abstract!Insert
<1> QED  BY <1>1, <1>6, <1>8, <1>17 DEF Fill, Abstract!Next

LEMMA FifoInit == Init => FifoInv /\ Abstract!Init
<1> SUFFICES ASSUME Init PROVE FifoInv /\ Abstract!Init
  OBVIOUS
<1>1. FieldTypes /\ Chain /\ Mapped /\ IInv /\ ~ destroyed
  BY InitSound DEF IInv, Init, Chained
<1>2. PICK s \in [1..cp -> Addresses] : Order(s) /\ Links(s)
  BY <1>1 DEF Chain
<1>3. cp \in Nat /\ cp >= 1 /\ mp[FillKey] = Null /\ answer = <<>>
      /\ \A a \in Addresses : key[a] = FillKey
  BY <1>1, CapacityType DEF FieldTypes, Init, Chained, AllKeys
<1>4. Filled(s, 0)
  BY <1>3 DEF Filled
<1>5. 0 \in 0..cp
  BY <1>3
<1>6. Fill
  BY <1>2, <1>4, <1>5 DEF Fill
<1>7. Items = Shown(s, 0)
  BY <1>1, <1>2, <1>4, <1>5, ItemsLemma DEF ItemsAreShown
<1>8. Shown(s, 0) = <<>>
  BY DEF Shown
<1>9. Abstract!Init
  BY <1>3, <1>7, <1>8 DEF Abstract!Init
<1> QED  BY <1>1, <1>3, <1>6, <1>9 DEF FifoInv

LEMMA DestroyFollows == ASSUME Destroy PROVE Abstract!Next
<1>1. destroyed' /\ cp' = cp /\ answer' = answer
  BY DEF Destroy, cache
<1>2. Items' = <<>>
  BY <1>1 DEF Items
<1> QED  BY <1>1, <1>2 DEF Abstract!Next, Abstract!Clear

\* With every key but 0 the cache keeps the last cp keys that were inserted, with
\* the values last set for them, evicts the oldest and answers from them, whatever
\* the capacity: get() does not reorder (main18_linkedlist.cpp:112-180).  The value
\* that get() returns for a key it does not have is not one that callers set.
THEOREM EvictsTheOldest == ASSUME NotFound \notin Values PROVE Spec => ImplementsFifoCache
<1>1. ASSUME FifoInv, Next
      PROVE  (FillKeyUnused' /\ ~ destroyed' => mp'[FillKey] = Null /\ Fill')
             /\ (\/ FillKeyUnused' => Abstract!Next
                 \/ Items' = Items /\ cp' = cp /\ answer' = answer)
  <2>1. ASSUME NEW k \in Keys, Get(k), FillKeyUnused'
        PROVE  mp'[FillKey] = Null /\ Fill' /\ Abstract!Next
    BY <1>1, <2>1, GetFollows
  <2>2. ASSUME NEW k \in Keys, NEW v \in Values, Update(k, v), FillKeyUnused'
        PROVE  mp'[FillKey] = Null /\ Fill' /\ Abstract!Next
    BY <1>1, <2>2, UpdateFollows
  <2>3. ASSUME NEW k \in Keys, NEW v \in Values, Replace(k, v) \/ PushFront(k, v), FillKeyUnused'
        PROVE  mp'[FillKey] = Null /\ Fill' /\ Abstract!Next
    BY <1>1, <2>3, InsertFollows
  <2>4. CASE Destroy
    BY <2>4, DestroyFollows DEF Destroy
  <2>5. CASE Done
    <3>1. destroyed /\ destroyed' /\ cp' = cp /\ answer' = answer
      BY <2>5 DEF Done, vars
    <3>2. Items' = Items
      BY <3>1 DEF Items
    <3> QED  BY <3>1, <3>2
  <2> QED  BY <1>1, <2>1, <2>2, <2>3, <2>4, <2>5 DEF Next
<1>2. FifoInv /\ [Next]_vars
        => FifoInv' /\ [FillKeyUnused' => Abstract!Next]_<<Items, cp, answer>>
  <2> SUFFICES ASSUME FifoInv, [Next]_vars
               PROVE  FifoInv' /\ (\/ FillKeyUnused' => Abstract!Next
                                   \/ Items' = Items /\ cp' = cp /\ answer' = answer)
    OBVIOUS
  <2>1. IInv'
    BY Inductive DEF FifoInv
  <2>2. CASE Next
    BY <1>1, <2>1, <2>2 DEF FifoInv
  <2>3. CASE UNCHANGED vars
    <3>1. Items' = Items /\ cp' = cp /\ answer' = answer
      BY <2>3 DEF vars, Items, List, Walk
    <3>2. FillKeyUnused' /\ ~ destroyed' => mp'[FillKey] = Null /\ Fill'
      BY <2>3 DEF vars, FifoInv, FillKeyUnused, Fill, Order, Links, Filled
    <3> QED  BY <2>1, <3>1, <3>2 DEF FifoInv
  <2> QED  BY <2>2, <2>3
<1> QED  BY <1>2, FifoInit, PTL DEF Spec, ImplementsFifoCache

=============================================================================
