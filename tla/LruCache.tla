------------------------------ MODULE LruCache ------------------------------
(***************************************************************************)
(* Cache and LRUCache of main18_linkedlist.cpp: a doubly linked list of    *)
(* exactly `capacity` heap nodes and a map from keys to nodes.  The        *)
(* constructor fills the list with nodes of key 0 and value 0; set() puts  *)
(* a node in front and deletes the one at the tail.                        *)
(*                                                                         *)
(* The heap is explicit: Addresses are the places a node may live at, and  *)
(* the fields of a deleted node keep their values, as freed memory does,   *)
(* so that a pointer that is used after its node is gone shows.  mp[k] is  *)
(* Null for a key that operator[] has not seen: it inserts a null pointer. *)
(***************************************************************************)
EXTENDS Integers, Sequences, FiniteSets

CONSTANTS Keys,       \* keys the callers use
          Values,     \* values the callers store
          Capacities, \* arguments of the constructor
          Addresses   \* where the allocator may put a node

Null     == 0
NotFound == -1
FillKey  == 0         \* key and value of the nodes the constructor makes

ASSUME CapacityAssumption == Capacities \subseteq Nat \ {0}
ASSUME AddressAssumption  == /\ \A c \in Capacities : 1..(c + 1) \subseteq Addresses
                             /\ Null \notin Addresses
ASSUME KeyAssumption      == Keys \subseteq Int /\ Values \subseteq Int

AllKeys == Keys \union {FillKey}

VARIABLES alive,     \* addresses that hold a node
          next, prev, key, value,   \* the fields of the nodes
          mp, cp, head, tail,       \* the members of the cache
          answer,    \* the key of the last get() and what it returned
          latest,    \* latest[k]: the value last set for k (a history variable)
          destroyed  \* has the destructor run

heap  == <<alive, next, prev, key, value>>
cache == <<mp, cp, head, tail>>
vars  == <<alive, next, prev, key, value, mp, cp, head, tail, answer, latest, destroyed>>

\* The loop of the constructor: each node goes behind the tail.  The first one
\* ends up with itself as prev, and with no next until the second arrives.
Chained(prevs) ==
  /\ cp \in Capacities
  /\ alive = 1..cp
  /\ next  = [a \in Addresses |-> IF a \in 1..(cp - 1) THEN a + 1 ELSE Null]
  /\ prev  = [a \in Addresses |-> IF a \in 1..cp THEN prevs[a] ELSE Null]
  /\ key   = [a \in Addresses |-> FillKey]
  /\ value = [a \in Addresses |-> 0]
  /\ mp = [k \in AllKeys |-> Null]
  /\ head = 1
  /\ tail = cp
  /\ answer = <<>>
  /\ latest = [k \in Keys |-> NotFound]
  /\ destroyed = FALSE

\* Slip: the constructor does not set prev.
InitOneWay == Chained([a \in Addresses |-> Null])

Init == Chained([a \in Addresses |-> IF a = 1 THEN 1 ELSE a - 1])

\* Where new may put a node: the places that have been used are used again.
Unused == 1..(cp + 1) \ alive

\* set() of a key the map has.
Update(k, v) ==
  /\ ~ destroyed
  /\ mp[k] # Null
  /\ value' = [value EXCEPT ![mp[k]] = v]
  /\ latest' = [latest EXCEPT ![k] = v]
  /\ UNCHANGED <<alive, next, prev, key, cache, answer, destroyed>>

\* set() of a new key when the list is one node: that node is replaced.  The
\* prev of the new one is left pointing at it.
Replace(k, v) ==
  /\ ~ destroyed
  /\ mp[k] = Null
  /\ head = tail
  /\ \E n \in Unused :
       /\ alive' = (alive \union {n}) \ {head}
       /\ next'  = [next EXCEPT ![n] = Null]
       /\ prev'  = [prev EXCEPT ![n] = head]
       /\ key'   = [key EXCEPT ![n] = k]
       /\ value' = [value EXCEPT ![n] = v]
       /\ mp'    = [mp EXCEPT ![key[head]] = Null, ![k] = n]
       /\ head' = n /\ tail' = n
  /\ latest' = [latest EXCEPT ![k] = v]
  /\ UNCHANGED <<cp, answer, destroyed>>

\* set() of a new key otherwise.  The statements in their order: the map gets
\* the new node and loses the key `unmapped` (the same key, if they are equal);
\* the node goes in front, and the prev of the nodes `behind`, which is the old
\* head, is set to it; the tail is deleted, and the node that its prev leads to is
\* the last one.  With two nodes that is the old head, whose own prev has just been
\* set.
Push(k, v, behind, unmapped) ==
  /\ ~ destroyed
  /\ mp[k] = Null
  /\ head # tail
  /\ \E n \in Unused :
       LET linked == [a \in Addresses |-> IF a = n THEN head
                                          ELSE IF a \in behind THEN n ELSE prev[a]]
           last   == linked[tail]
       IN  /\ alive' = (alive \union {n}) \ {tail}
           /\ next'  = [next EXCEPT ![n] = head, ![last] = Null]
           /\ prev'  = linked
           /\ key'   = [key EXCEPT ![n] = k]
           /\ value' = [value EXCEPT ![n] = v]
           /\ mp'    = [mp EXCEPT ![k] = n, ![unmapped] = Null]
           /\ head' = n
           /\ tail' = last
  /\ latest' = [latest EXCEPT ![k] = v]
  /\ UNCHANGED <<cp, answer, destroyed>>

\* Slips: the map keeps the key of the node that is deleted; the old head does
\* not get its new prev.
PushFrontKeepsKey(k, v) == Push(k, v, {head}, FillKey)
PushFrontOneWay(k, v)   == Push(k, v, {}, key[tail])

PushFront(k, v) == Push(k, v, {head}, key[tail])

\* Slip: get() answers with the node at the head.
GetHead(k) ==
  /\ ~ destroyed
  /\ answer' = <<k, IF mp[k] # Null THEN value[head] ELSE NotFound>>
  /\ UNCHANGED <<heap, cache, latest, destroyed>>

\* get(): the order of the list is left alone.
Get(k) ==
  /\ ~ destroyed
  /\ answer' = <<k, IF mp[k] # Null THEN value[mp[k]] ELSE NotFound>>
  /\ UNCHANGED <<heap, cache, latest, destroyed>>

\* The addresses of the list from the head, as long as next leads on.  No more
\* than cp + 1 places are in use.
Walk ==
  LET hop == [a \in Addresses \union {Null} |-> IF a = Null THEN Null ELSE next[a]]
      at[i \in 1..(cp + 1)] == IF i = 1 THEN head ELSE hop[at[i - 1]]
  IN  at
List == [i \in 1..Cardinality({j \in 1..(cp + 1) : Walk[j] # Null}) |-> Walk[i]]

\* Slip: the destructor stops before the last node.
DestroyAllButLast ==
  /\ ~ destroyed
  /\ destroyed' = TRUE
  /\ alive' = alive \ {List[i] : i \in 1..(Len(List) - 1)}
  /\ UNCHANGED <<next, prev, key, value, cache, answer, latest>>

\* The destructor deletes every node it reaches from the head.
Destroy ==
  /\ ~ destroyed
  /\ destroyed' = TRUE
  /\ alive' = alive \ {List[i] : i \in 1..Len(List)}
  /\ UNCHANGED <<next, prev, key, value, cache, answer, latest>>

Done == destroyed /\ UNCHANGED vars

Next == \/ \E k \in Keys : Get(k) \/ \E v \in Values : Update(k, v) \/ Replace(k, v)
                                                       \/ PushFront(k, v)
        \/ Destroy
        \/ Done

Spec == Init /\ [][Next]_vars

-----------------------------------------------------------------------------
(* Properties *)

Pointers == Addresses \union {Null}

TypeOK ==
  /\ alive \subseteq Addresses
  /\ next \in [Addresses -> Pointers] /\ prev \in [Addresses -> Pointers]
  /\ key \in [Addresses -> AllKeys] /\ value \in [Addresses -> Values \union {0}]
  /\ mp \in [AllKeys -> Pointers]
  /\ cp \in Capacities /\ head \in Addresses /\ tail \in Addresses
  /\ answer \in {<<>>} \union (Keys \X (Values \union {NotFound, 0}))
  /\ latest \in [Keys -> Values \union {NotFound}]
  /\ destroyed \in BOOLEAN

\* The pointers that set() and the destructor follow are those of a list of
\* exactly cp live nodes, in both directions and with nothing left over:
\* no node leaks and no deleted node is reached (main18_linkedlist.cpp:146-159).
\* The prev of the head is not part of it: the code leaves it wrong.
ListSound ==
  ~ destroyed =>
    /\ Len(List) = cp
    /\ {List[i] : i \in 1..Len(List)} = alive /\ Cardinality(alive) = cp
    /\ List[Len(List)] = tail
    /\ \A i \in 2..Len(List) : prev[List[i]] = List[i - 1]

\* A key is mapped to no node or to a live node of that key: get() and set()
\* never follow a pointer to a deleted node, key 0 included, which the nodes of
\* the constructor share with a caller, and what is found is the value that was
\* last set for the key (main18_linkedlist.cpp:126 and :140).
MapSound ==
  ~ destroyed =>
    /\ \A k \in AllKeys : mp[k] # Null => mp[k] \in alive /\ key[mp[k]] = k
    /\ \A k \in Keys : mp[k] # Null => value[mp[k]] = latest[k]

\* "map the key to the node in the linked list" (main18_linkedlist.cpp:22): a
\* key that set() has put in the list and that is still there is in the map.
EveryKeyMapped ==
  ~ destroyed => \A k \in Keys :
    (latest[k] # NotFound /\ \E a \in alive : key[a] = k /\ value[a] = latest[k])
      => mp[k] # Null

\* Nobody has set the key of the nodes that the constructor makes.
FillKeyUnused == FillKey \in Keys => latest[FillKey] = NotFound

\* Nothing survives the destructor (main18_linkedlist.cpp:92-107).
AllFreed == destroyed => alive = {}

\* The nodes of the list that set() made, as the abstract cache sees them: those
\* in front, as long as nobody sets key 0.
Items == IF destroyed THEN <<>>
         ELSE [i \in 1..Cardinality({j \in 1..Len(List) : key[List[j]] # FillKey}) |->
                 [key |-> key[List[i]], value |-> value[List[i]]]]

Abstract == INSTANCE FifoCache WITH items <- Items

\* As long as nobody sets key 0 the cache keeps the last cp keys that were
\* inserted, evicts the oldest of them and answers with the latest values.
ImplementsFifoCache ==
  Abstract!Init /\ [][FillKeyUnused' => Abstract!Next]_<<Items, cp, answer>>

=============================================================================
