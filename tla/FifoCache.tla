----------------------------- MODULE FifoCache -----------------------------
(***************************************************************************)
(* What the cache of main18_linkedlist.cpp promises: the last cp     *)
(* keys that were inserted, with their latest values.  get() does not      *)
(* touch the order, so the key that leaves is the one inserted first,      *)
(* whatever the class is called.                                           *)
(***************************************************************************)
EXTENDS Integers, Sequences

CONSTANTS Keys, Values

NotFound == -1

VARIABLES items,    \* records [key, value], the latest inserted first
          cp,       \* capacity
          answer    \* the key of the last get() and what it returned

vars == <<items, cp, answer>>

Init == items = <<>> /\ cp \in Nat \ {0} /\ answer = <<>>

Update(k, v) ==
  /\ \E i \in 1..Len(items) : /\ items[i].key = k
                              /\ items' = [items EXCEPT ![i].value = v]
  /\ UNCHANGED <<cp, answer>>

Insert(k, v) ==
  /\ \A i \in 1..Len(items) : items[i].key # k
  /\ LET all == <<[key |-> k, value |-> v]>> \o items IN
       items' = IF Len(items) = cp THEN SubSeq(all, 1, cp) ELSE all
  /\ UNCHANGED <<cp, answer>>

Get(k) ==
  /\ \/ \E i \in 1..Len(items) : /\ items[i].key = k
                                 /\ answer' = <<k, items[i].value>>
     \/ /\ \A i \in 1..Len(items) : items[i].key # k
        /\ answer' = <<k, NotFound>>
  /\ UNCHANGED <<items, cp>>

\* The cache is destroyed.
Clear == items' = <<>> /\ UNCHANGED <<cp, answer>>

Next == Clear \/ \E k \in Keys : Get(k) \/ \E v \in Values : Update(k, v) \/ Insert(k, v)

Spec == Init /\ [][Next]_vars

=============================================================================
