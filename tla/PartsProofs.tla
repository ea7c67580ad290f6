----------------------------- MODULE PartsProofs -----------------------------
(***************************************************************************)
(* Proofs about the parts of the repository that share nothing with one    *)
(* another, a section for each: UserContexts, VectorAllocator, TimeStamps, *)
(* Indentation, CallStackSymbols.  A section states what the part keeps    *)
(* between its steps (RingInv, CellsInv, StampsInv, IndentInv, SymbolsInv),*)
(* proves that every action keeps it, and ends with the theorems.          *)
(***************************************************************************)
EXTENDS UserContexts, VectorAllocator, TimeStamps, CallStackSymbols, Indentation,
        SequenceTheorems, FiniteSetTheorems, TLAPS

-----------------------------------------------------------------------------
(* UserContexts                                                            *)

\* The ring: the contexts before tid are one turn ahead of the others.
Ring == \A i, j \in Contexts : i < j =>
          turns[i] - turns[j] = IF i < tid /\ tid <= j THEN 1 ELSE 0

\* While main makes the contexts nothing has been counted.
Making ==
  (cpu = Engine /\ main_at[1] = "make") =>
     /\ tid = 0 /\ n_switchs = 0
     /\ \A i \in Contexts : i < main_at[2] => ucs[i] = "func"

\* While a context runs all others wait where a switch can find them.
Switching ==
  cpu \in Contexts =>
     /\ cpu = tid /\ main_at = <<"free", 0>>
     /\ \A i \in Contexts : i # tid => Resumable(ucs[i])

\* main resumes when the last switch has been made.
Freeing ==
  /\ n_switchs <= max_switchs
  /\ (cpu \in {Engine, Nothing} /\ main_at[1] = "free") =>
        /\ n_switchs = max_switchs
        /\ \A i \in Contexts : i < main_at[2] => ucs[i] = "freed"
  /\ cpu = Nothing => main_at = <<"free", n_ucs>>

\* The inductive invariant.
RingInv ==
  /\ ContextsTypeOK
  /\ n_ucs > 0 => cpu # Wild
  /\ Ring /\ Making /\ Switching /\ Freeing

\* What is proved of the end of the process: it is an end that main has reached,
\* after all switches, with every stack freed (main15_ucontext.cpp:58-68).
EndsComplete ==
  cpu = Nothing => /\ n_switchs = max_switchs
                   /\ \A i \in Contexts : ucs[i] = "freed"

-----------------------------------------------------------------------------

\* (tid + 1) % n_ucs is the next context, or the first one after the last.
LEMMA NextOfRing ==
  ASSUME NEW n \in Nat, NEW t \in 0..(n - 1)
  PROVE  /\ (t + 1) % n = IF t + 1 = n THEN 0 ELSE t + 1
         /\ (t + 1) % n \in 0..(n - 1)
<1>1. CASE t + 1 = n
  BY <1>1, SMT
<1>2. CASE t + 1 # n
  BY <1>2, SMT
<1> QED  BY <1>1, <1>2

\* Contexts are told from Engine, Nothing and Wild.
LEMMA ContextsAreNat ==
  ASSUME n_ucs \in Nat
  PROVE  \A i \in Contexts : /\ i \in Nat /\ i < n_ucs
                             /\ i # Engine /\ i # Nothing /\ i # Wild
BY DEF Contexts, Engine, Nothing, Wild

LEMMA RingInitSound == ContextsInit => RingInv
<1> SUFFICES ASSUME ContextsInit PROVE RingInv
  OBVIOUS
<1>1. n_ucs \in Nat /\ max_switchs \in Nat
  BY ArgumentAssumption DEF ContextsInit
<1>2. ContextsTypeOK
  BY <1>1 DEF ContextsInit, ContextsTypeOK, Contexts, ResumePoints
<1>3. cpu = Engine /\ Engine # Wild /\ Engine # Nothing /\ Engine \notin Contexts
  BY <1>1, ContextsAreNat DEF ContextsInit, Engine, Wild, Nothing
<1>4. Ring
  BY <1>1 DEF ContextsInit, Ring, Contexts
<1>5. Making /\ Freeing
  BY <1>1, <1>3 DEF ContextsInit, Making, Freeing, Contexts
<1> QED  BY <1>2, <1>3, <1>4, <1>5 DEF RingInv, Switching

LEMMA MakeSound == ASSUME RingInv, Make PROVE RingInv'
<1>1. ContextsTypeOK'
  BY DEF RingInv, ContextsTypeOK, Make, Contexts, ResumePoints
<1>2. cpu' = Engine /\ Engine # Wild /\ Engine # Nothing /\ Engine \notin Contexts'
  BY ContextsAreNat DEF RingInv, ContextsTypeOK, Make, Engine, Wild, Nothing, Contexts
<1>3. Ring'
  BY DEF RingInv, Ring, Make, Contexts
<1>4. Making'
  BY DEF RingInv, ContextsTypeOK, Making, Make, Contexts
<1>5. Freeing'
  BY <1>2 DEF RingInv, ContextsTypeOK, Freeing, Make, Contexts
<1> QED  BY <1>1, <1>2, <1>3, <1>4, <1>5 DEF RingInv, Switching

\* Without a context the first switch goes wild; with one it finds the first.
LEMMA StartSound == ASSUME RingInv, Start PROVE RingInv'
<1>1. n_ucs \in Nat /\ n_ucs' = n_ucs /\ Contexts' = Contexts /\ tid' = tid /\ tid = 0
      /\ main_at' = <<"free", 0>> /\ main_at = <<"make", n_ucs>>
      /\ max_switchs' = max_switchs /\ n_switchs' = n_switchs /\ turns' = turns
  BY DEF RingInv, ContextsTypeOK, Making, Start, Contexts
<1>2. \A i \in Contexts : ucs[i] = "func"
  BY <1>1 DEF RingInv, Making, Start, Contexts
<1>3. Ring'
  BY <1>1 DEF RingInv, Ring
<1>4. CASE n_ucs > 0
  <2>1. tid \in Contexts /\ cpu' = tid /\ ucs' = [ucs EXCEPT ![tid] = "used"]
    BY <1>1, <1>2, <1>4 DEF Start, Resume, Resumable, Contexts
  <2>2. cpu' # Wild /\ cpu' # Engine /\ cpu' # Nothing
    BY <1>1, <2>1, ContextsAreNat
  <2>3. ContextsTypeOK'
    BY <1>1, <2>1 DEF RingInv, ContextsTypeOK, Contexts, ResumePoints
  <2>4. Switching'
    BY <1>1, <1>2, <2>1 DEF RingInv, ContextsTypeOK, Switching, Resumable
  <2>5. Making' /\ Freeing'
    BY <1>1, <2>2 DEF RingInv, Making, Freeing
  <2> QED  BY <1>3, <2>2, <2>3, <2>4, <2>5 DEF RingInv
<1>5. CASE n_ucs = 0
  <2>1. cpu' = Wild /\ ucs' = ucs /\ Wild \notin Contexts
    BY <1>1, <1>5, ContextsAreNat DEF Start, Resume, Contexts
  <2>2. Wild # Engine /\ Wild # Nothing
    BY DEF Wild, Engine, Nothing
  <2>3. ContextsTypeOK'
    BY <1>1, <2>1 DEF RingInv, ContextsTypeOK
  <2>4. Making' /\ Freeing' /\ Switching'
    BY <1>1, <2>1, <2>2 DEF RingInv, Making, Freeing, Switching
  <2> QED  BY <1>1, <1>3, <1>5, <2>3, <2>4 DEF RingInv
<1> QED  BY <1>1, <1>4, <1>5

LEMMA TurnSound == ASSUME RingInv, NEW i \in Contexts, Turn(i) PROVE RingInv'
<1> DEFINE next == (tid + 1) % n_ucs
           saved == [ucs EXCEPT ![tid] = "loop"]
<1>1. /\ n_ucs \in Nat /\ n_ucs > 0 /\ n_ucs' = n_ucs /\ Contexts' = Contexts
      /\ main_at = <<"free", 0>> /\ main_at' = main_at
      /\ tid \in Contexts /\ i = tid /\ tid' = next
      /\ turns' = [turns EXCEPT ![tid] = @ + 1]
  BY DEF RingInv, ContextsTypeOK, Switching, Turn, Contexts
<1>2. /\ next = IF tid + 1 = n_ucs THEN 0 ELSE tid + 1
      /\ next \in Contexts
  BY <1>1, NextOfRing DEF Contexts
<1>3. saved \in [Contexts -> ResumePoints] /\ \A k \in Contexts : Resumable(saved[k])
  BY <1>1 DEF RingInv, ContextsTypeOK, Switching, Turn, Resumable, ResumePoints
<1>4. cpu' = next /\ ucs' = [saved EXCEPT ![next] = "used"]
  BY <1>2, <1>3 DEF Turn, Resume
<1>5. ContextsTypeOK'
  <2>1. turns' \in [Contexts -> Nat]
    BY <1>1 DEF RingInv, ContextsTypeOK
  <2>2. ucs' \in [Contexts -> ResumePoints]
    BY <1>2, <1>3, <1>4 DEF ResumePoints
  <2>3. next \in Nat
    BY <1>1, <1>2, ContextsAreNat
  <2> HIDE DEF next, saved
  <2> QED  BY <1>1, <1>2, <1>4, <2>1, <2>2, <2>3 DEF RingInv, ContextsTypeOK, Turn
<1>6. cpu' # Wild /\ cpu' # Engine /\ cpu' # Nothing
  BY <1>1, <1>2, <1>4, ContextsAreNat
<1>7. Ring'
  <2> HIDE DEF next
  <2> SUFFICES ASSUME NEW k \in Contexts, NEW l \in Contexts, k < l
               PROVE  turns'[k] - turns'[l] = IF k < next /\ next <= l THEN 1 ELSE 0
    BY <1>1 DEF Ring
  <2>1. turns[k] - turns[l] = IF k < tid /\ tid <= l THEN 1 ELSE 0
    BY DEF RingInv, Ring
  <2>2. turns[k] \in Nat /\ turns[l] \in Nat
    BY DEF RingInv, ContextsTypeOK
  <2>3. /\ turns'[k] = IF k = tid THEN turns[k] + 1 ELSE turns[k]
        /\ turns'[l] = IF l = tid THEN turns[l] + 1 ELSE turns[l]
    BY <1>1 DEF RingInv, ContextsTypeOK
  <2>4. /\ k \in Nat /\ l \in Nat /\ tid \in Nat
        /\ k < n_ucs /\ l < n_ucs /\ tid < n_ucs
    BY <1>1, ContextsAreNat
  <2> QED  BY <1>1, <1>2, <2>1, <2>2, <2>3, <2>4
<1>8. Switching'
  <2> HIDE DEF next
  <2> QED  BY <1>1, <1>2, <1>3, <1>4 DEF Switching, Resumable
<1>9. Making' /\ Freeing'
  BY <1>1, <1>6 DEF RingInv, ContextsTypeOK, Making, Freeing, Turn
<1> QED  BY <1>5, <1>6, <1>7, <1>8, <1>9 DEF RingInv

LEMMA ReturnSound == ASSUME RingInv, NEW i \in Contexts, Return(i) PROVE RingInv'
<1>1. /\ n_ucs \in Nat /\ Contexts' = Contexts /\ main_at = <<"free", 0>>
      /\ cpu' = Engine /\ Engine # Wild /\ Engine # Nothing /\ Engine \notin Contexts
  BY ContextsAreNat DEF RingInv, ContextsTypeOK, Switching, Return, Contexts, Engine, Wild, Nothing
<1>2. ContextsTypeOK'
  BY <1>1 DEF RingInv, ContextsTypeOK, Return
<1>3. Ring'
  BY <1>1 DEF RingInv, Ring, Return
<1>4. Freeing'
  BY <1>1, ContextsAreNat DEF RingInv, ContextsTypeOK, Freeing, Return
<1> QED  BY <1>1, <1>2, <1>3, <1>4 DEF RingInv, Making, Switching, Return

LEMMA FreeSound == ASSUME RingInv, Free PROVE RingInv'
<1>1. /\ n_ucs \in Nat /\ Contexts' = Contexts
      /\ cpu' = Engine /\ Engine # Wild /\ Engine # Nothing /\ Engine \notin Contexts
  BY ContextsAreNat DEF RingInv, ContextsTypeOK, Free, Contexts, Engine, Wild, Nothing
<1>2. /\ main_at[2] \in Contexts /\ main_at' = <<"free", main_at[2] + 1>>
      /\ ucs' = [ucs EXCEPT ![main_at[2]] = "freed"]
  BY DEF RingInv, ContextsTypeOK, Free, Contexts
<1>3. ContextsTypeOK'
  BY <1>1, <1>2 DEF RingInv, ContextsTypeOK, Free, Contexts, ResumePoints
<1>4. Ring'
  BY <1>1 DEF RingInv, Ring, Free
<1>5. Freeing'
  BY <1>1, <1>2, ContextsAreNat DEF RingInv, ContextsTypeOK, Freeing, Free
<1> QED  BY <1>1, <1>2, <1>3, <1>4, <1>5 DEF RingInv, Making, Switching

LEMMA ExitSound == ASSUME RingInv, Exit PROVE RingInv'
<1>1. /\ n_ucs \in Nat /\ Contexts' = Contexts
      /\ cpu' = Nothing /\ Nothing # Wild /\ Engine # Nothing /\ Nothing \notin Contexts
  BY ContextsAreNat DEF RingInv, ContextsTypeOK, Exit, Contexts, Engine, Wild, Nothing
<1>2. ContextsTypeOK'
  BY <1>1 DEF RingInv, ContextsTypeOK, Exit
<1>3. Ring' /\ Freeing'
  BY <1>1 DEF RingInv, Ring, Freeing, Exit
<1> QED  BY <1>1, <1>2, <1>3 DEF RingInv, Making, Switching

LEMMA RingInductive == RingInv /\ [ContextsNext]_contextVars => RingInv'
<1> SUFFICES ASSUME RingInv, [ContextsNext]_contextVars PROVE RingInv'
  OBVIOUS
<1>1. CASE Make                              BY <1>1, MakeSound
<1>2. CASE Start                             BY <1>2, StartSound
<1>3. CASE \E i \in Contexts : Turn(i)       BY <1>3, TurnSound
<1>4. CASE \E i \in Contexts : Return(i)     BY <1>4, ReturnSound
<1>5. CASE Free                              BY <1>5, FreeSound
<1>6. CASE Exit                              BY <1>6, ExitSound
<1>7. CASE UNCHANGED contextVars
  BY <1>7 DEF RingInv, ContextsTypeOK, Ring, Making, Switching, Freeing, Contexts, contextVars
<1> QED  BY <1>1, <1>2, <1>3, <1>4, <1>5, <1>6, <1>7 DEF ContextsNext, ContextStep, ContextsStop

LEMMA RingInvariantHolds == ContextsSpec => []RingInv
BY RingInitSound, RingInductive, PTL DEF ContextsSpec

-----------------------------------------------------------------------------

\* The types hold for every number of contexts and of switches; tid always
\* names one of them (main15_ucontext.cpp:9-15, 21).
THEOREM RingTypeCorrect == ContextsSpec => []ContextsTypeOK
<1>1. RingInv => ContextsTypeOK
  BY DEF RingInv
<1> QED  BY <1>1, RingInvariantHolds, PTL

\* However many contexts there are and however often they switch, their turns
\* go around and no switch leads to a place that cannot be resumed
\* (main15_ucontext.cpp:19-24, 53, 58, 65).
THEOREM TurnsGoAround == ContextsSpec => []RoundRobin
<1>1. RingInv => RoundRobin
  BY DEF RingInv, Ring, Switching, RoundRobin
<1> QED  BY <1>1, RingInvariantHolds, PTL

\* A process that ends has made every switch it was asked for and freed every
\* stack: what EngineResumes promises, but for the promise that it ends
\* (main15_ucontext.cpp:19, 53, 58-68).
THEOREM EndIsComplete == ContextsSpec => []EndsComplete
<1>1. RingInv => EndsComplete
  BY ContextsAreNat DEF RingInv, ContextsTypeOK, Freeing, EndsComplete
<1> QED  BY <1>1, RingInvariantHolds, PTL

-----------------------------------------------------------------------------
(* VectorAllocator                                                         *)

CellValues == Values \union {Blank, Raw}
Members == [sz : Nat, elem : Seq(CellValues)]

\* Members of a vector that lives: no more elements than cells.
Fits(m) == m \in Members /\ m.sz <= Len(m.elem)

\* The inductive invariant.
CellsInv ==
  /\ DOMAIN vector = Vectors /\ spare \in [Vectors -> SUBSET Nat]
  /\ \A v \in Vectors : Exists(v) => Fits(vector[v])
  /\ RawCells

\* The cells that were never constructed.
RawOf(elem) == {i \in 1..Len(elem) : elem[i] = Raw}

-----------------------------------------------------------------------------

LEMMA CellsLemma ==
  ASSUME NEW n \in Nat, NEW x \in CellValues
  PROVE  /\ Cells(n, x) \in Seq(CellValues) /\ Len(Cells(n, x)) = n
         /\ \A i \in 1..n : Cells(n, x)[i] = x
BY IsASeq DEF Cells

\* The first n elements of a sequence.
LEMMA PrefixLemma ==
  ASSUME NEW s \in Seq(CellValues), NEW n \in 0..Len(s)
  PROVE  /\ SubSeq(s, 1, n) \in Seq(CellValues) /\ Len(SubSeq(s, 1, n)) = n
         /\ \A i \in 1..n : SubSeq(s, 1, n)[i] = s[i]
OBVIOUS

\* The elements behind them.
LEMMA SuffixLemma ==
  ASSUME NEW s \in Seq(CellValues), NEW n \in 0..Len(s)
  PROVE  /\ SubSeq(s, n + 1, Len(s)) \in Seq(CellValues)
         /\ Len(SubSeq(s, n + 1, Len(s))) = Len(s) - n
         /\ \A i \in 1..(Len(s) - n) : SubSeq(s, n + 1, Len(s))[i] = s[n + i]
OBVIOUS

LEMMA JoinLemma ==
  ASSUME NEW s \in Seq(CellValues), NEW r \in Seq(CellValues)
  PROVE  /\ s \o r \in Seq(CellValues) /\ Len(s \o r) = Len(s) + Len(r)
         /\ \A i \in 1..(Len(s) + Len(r)) :
               (s \o r)[i] = IF i <= Len(s) THEN s[i] ELSE r[i - Len(s)]
OBVIOUS

\* When a block grows whose elements are constructed, the spare cells get raw.
LEMMA GrownLemma ==
  ASSUME NEW m, Fits(m), NEW n \in Nat, n >= Len(m.elem)
  PROVE  /\ Fits(Grown(m, n)) /\ Grown(m, n).sz = m.sz /\ Len(Grown(m, n).elem) = n
         /\ Constructed(m.elem, m.sz) => RawOf(Grown(m, n).elem) = (m.sz + 1)..Len(m.elem)
<1> DEFINE kept == SubSeq(m.elem, 1, m.sz)
           gap  == Cells(Len(m.elem) - m.sz, Raw)
           new  == Cells(n - Len(m.elem), Blank)
<1>1. m \in Members /\ m.elem \in Seq(CellValues) /\ m.sz \in Nat /\ m.sz <= Len(m.elem)
      /\ Len(m.elem) \in Nat
  BY DEF Fits, Members
<1>2. /\ kept \in Seq(CellValues) /\ Len(kept) = m.sz
      /\ \A i \in 1..m.sz : kept[i] = m.elem[i]
  BY <1>1, PrefixLemma
<1>3. /\ gap \in Seq(CellValues) /\ Len(gap) = Len(m.elem) - m.sz
      /\ \A i \in 1..(Len(m.elem) - m.sz) : gap[i] = Raw
  <2>1. Len(m.elem) - m.sz \in Nat /\ Raw \in CellValues
    BY <1>1 DEF CellValues
  <2> QED  BY <2>1, CellsLemma
<1>4. /\ new \in Seq(CellValues) /\ Len(new) = n - Len(m.elem)
      /\ \A i \in 1..(n - Len(m.elem)) : new[i] = Blank
  <2>1. n - Len(m.elem) \in Nat /\ Blank \in CellValues
    BY <1>1 DEF CellValues
  <2> QED  BY <2>1, CellsLemma
<1>5. Grown(m, n) = [m EXCEPT !.elem = kept \o gap \o new]
  BY DEF Grown
<1> HIDE DEF kept, gap, new
<1>6. /\ Len(kept) = m.sz /\ Len(gap) = Len(m.elem) - m.sz /\ Len(new) = n - Len(m.elem)
      /\ m.sz \in Nat /\ Len(m.elem) \in Nat /\ m.sz <= Len(m.elem)
  <2>1. Len(kept) = m.sz
    BY <1>2
  <2>2. Len(gap) = Len(m.elem) - m.sz
    BY <1>3
  <2>3. Len(new) = n - Len(m.elem)
    BY <1>4
  <2> QED  BY <1>1, <2>1, <2>2, <2>3
<1>7. /\ kept \o gap \in Seq(CellValues) /\ Len(kept \o gap) = Len(m.elem)
      /\ kept \o gap \o new \in Seq(CellValues) /\ Len(kept \o gap \o new) = n
  <2>1. kept \o gap \in Seq(CellValues) /\ Len(kept \o gap) = Len(kept) + Len(gap)
    BY <1>2, <1>3, JoinLemma
  <2>2. /\ kept \o gap \o new \in Seq(CellValues)
        /\ Len(kept \o gap \o new) = Len(kept \o gap) + Len(new)
    BY <1>4, <2>1, JoinLemma
  <2>3. Len(kept \o gap) = Len(m.elem)
    BY <1>6, <2>1
  <2>4. Len(kept \o gap \o new) = n
    BY <1>6, <2>2, <2>3
  <2> QED  BY <2>1, <2>2, <2>3, <2>4
<1>8. Grown(m, n) \in Members /\ Grown(m, n).sz = m.sz /\ Grown(m, n).elem = kept \o gap \o new
  BY <1>1, <1>5, <1>7 DEF Members
<1>9. ASSUME Constructed(m.elem, m.sz)
      PROVE  RawOf(Grown(m, n).elem) = (m.sz + 1)..Len(m.elem)
  <2> DEFINE e    == kept \o gap \o new
             size == Len(m.elem)
  <2>1. ASSUME NEW i \in 1..n
        PROVE  e[i] = IF i <= m.sz THEN m.elem[i] ELSE IF i <= size THEN Raw ELSE Blank
    <3>1. size + Len(new) = n /\ Len(kept) + Len(gap) = size
      BY <1>6
    <3>2. e[i] = IF i <= size THEN (kept \o gap)[i] ELSE new[i - size]
      <4>1. \A k \in 1..(size + Len(new)) : e[k] = IF k <= size THEN (kept \o gap)[k] ELSE new[k - size]
        <5> DEFINE old == kept \o gap
        <5>1. old \in Seq(CellValues) /\ Len(old) = size
          BY <1>7
        <5> HIDE DEF old
        <5>2. \A k \in 1..(Len(old) + Len(new)) :
                (old \o new)[k] = IF k <= Len(old) THEN old[k] ELSE new[k - Len(old)]
          BY <1>4, <5>1, JoinLemma
        <5> QED  BY <5>1, <5>2 DEF old
      <4> QED  BY <3>1, <4>1
    <3>3. i \in 1..size => (kept \o gap)[i] = IF i <= m.sz THEN kept[i] ELSE gap[i - m.sz]
      <4>1. \A k \in 1..(Len(kept) + Len(gap)) : (kept \o gap)[k] = IF k <= m.sz THEN kept[k] ELSE gap[k - m.sz]
        BY <1>2, <1>3, JoinLemma
      <4> QED  BY <3>1, <4>1
    <3> HIDE DEF e, size
    <3>4. CASE i <= m.sz
      <4>1. i <= size /\ i \in 1..size /\ i \in 1..m.sz
        BY <1>1, <3>4 DEF size
      <4> QED  BY <1>2, <3>2, <3>3, <3>4, <4>1
    <3>5. CASE i > m.sz /\ i <= size
      <4>1. i \in 1..size /\ i - m.sz \in 1..(size - m.sz) /\ ~ (i <= m.sz)
        BY <1>1, <3>5 DEF size
      <4> QED  BY <1>3, <3>2, <3>3, <3>5, <4>1 DEF size
    <3>6. CASE i > size
      <4>1. i - size \in 1..(n - size) /\ ~ (i <= m.sz) /\ ~ (i <= size)
        BY <1>1, <3>6 DEF size
      <4> QED  BY <1>4, <3>2, <4>1 DEF size
    <3> QED  BY <1>1, <3>4, <3>5, <3>6 DEF size
  <2>2. \A i \in 1..m.sz : m.elem[i] # Raw
    BY <1>9 DEF Constructed
  <2> HIDE DEF e
  <2>3. \A i \in 1..n : e[i] = Raw <=> i > m.sz /\ i <= size
    BY <1>1, <2>1, <2>2, CellsAssumption
  <2>4. Grown(m, n).elem = e /\ Len(e) = n
    BY <1>7, <1>8 DEF e
  <2> QED  BY <1>1, <2>3, <2>4 DEF RawOf
<1> QED  BY <1>1, <1>7, <1>8, <1>9 DEF Fits

LEMMA SameSpare ==
  ASSUME CellsInv, NEW v \in Vectors
  PROVE  spare = [spare EXCEPT ![v] = spare[v]]
BY DEF CellsInv

\* A call that gives v new members, and says which of their cells are raw,
\* preserves the invariant.
LEMMA BecomesSound ==
  ASSUME CellsInv, NEW v \in Vectors, NEW m, vector' = [vector EXCEPT ![v] = m],
         m = Absent \/ Fits(m), spare' = [spare EXCEPT ![v] = RawOf(m.elem)], ended' # "raw"
  PROVE  CellsInv'
<1>1. DOMAIN vector' = Vectors /\ spare' \in [Vectors -> SUBSET Nat]
  <2>1. RawOf(m.elem) \subseteq Nat
    BY DEF RawOf
  <2> QED  BY <2>1 DEF CellsInv
<1>2. ASSUME NEW u \in Vectors
      PROVE  /\ Exists(u)' => Fits(vector'[u])
             /\ {i \in 1..Len(vector'[u].elem) : vector'[u].elem[i] = Raw} = spare'[u]
  <2>1. CASE u = v
    <3>1. vector'[u] = m /\ spare'[u] = RawOf(m.elem)
      BY <2>1 DEF CellsInv
    <3> QED  BY <3>1 DEF Exists, RawOf
  <2>2. CASE u # v
    <3>1. vector'[u] = vector[u] /\ spare'[u] = spare[u]
      BY <2>2 DEF CellsInv
    <3> QED  BY <3>1 DEF CellsInv, RawCells, Exists, Space
  <2> QED  BY <2>1, <2>2
<1> QED  BY <1>1, <1>2 DEF CellsInv, RawCells, Space

\* m is what reserve( n ) leaves of v.
Left(v, n, m) ==
  IF n <= Len(vector[v].elem) THEN m = vector[v] /\ spare' = spare
  ELSE /\ Constructed(vector[v].elem, vector[v].sz)
       /\ m = Grown(vector[v], n)
       /\ spare' = [spare EXCEPT ![v] = (vector[v].sz + 1)..Len(vector[v].elem)]

LEMMA LeftSound ==
  ASSUME CellsInv, NEW v \in Vectors, Exists(v), NEW n \in Nat, NEW m, Left(v, n, m)
  PROVE  /\ Fits(m) /\ m.sz = vector[v].sz /\ m.sz \in Nat
         /\ Len(m.elem) \in Nat /\ Len(m.elem) >= n /\ Len(m.elem) >= Len(vector[v].elem)
         /\ spare' = [spare EXCEPT ![v] = RawOf(m.elem)]
<1> DEFINE u == vector[v]
<1>1. /\ Fits(u) /\ spare[v] = RawOf(u.elem) /\ DOMAIN spare = Vectors
      /\ u.sz \in Nat /\ u.sz <= Len(u.elem) /\ Len(u.elem) \in Nat
  BY DEF CellsInv, RawCells, RawOf, Space, Fits, Members
<1>2. CASE n <= Len(u.elem)
  <2>1. spare = [spare EXCEPT ![v] = RawOf(u.elem)]
    BY <1>1, SameSpare
  <2> QED  BY <1>1, <1>2, <2>1 DEF Left
<1>3. CASE n > Len(u.elem)
  <2>1. n >= Len(u.elem)
    BY <1>1, <1>3
  <2>2. Constructed(u.elem, u.sz) /\ m = Grown(u, n)
        /\ spare' = [spare EXCEPT ![v] = (u.sz + 1)..Len(u.elem)]
    BY <1>1, <1>3 DEF Left
  <2>3. /\ Fits(Grown(u, n)) /\ Grown(u, n).sz = u.sz /\ Len(Grown(u, n).elem) = n
        /\ RawOf(Grown(u, n).elem) = (u.sz + 1)..Len(u.elem)
    BY <1>1, <2>1, <2>2, GrownLemma
  <2> QED  BY <1>1, <2>1, <2>2, <2>3
<1> QED  BY <1>1, <1>2, <1>3

\* A program that ends leaves the vectors as they are, and has reason to.
LEMMA EndSound ==
  ASSUME CellsInv, NEW cause, End(cause), NEW v \in Vectors, Exists(v), NEW n \in Nat,
         cause = "raw" => n <= Space(v) /\ ~ Constructed(vector[v].elem, n)
  PROVE  CellsInv'
<1>1. Space(v) \in Nat
  BY DEF CellsInv, Fits, Members, Space
<1>2. cause = "raw" => spare[v] # {}
  BY <1>1 DEF CellsInv, RawCells, Constructed
<1> QED  BY <1>2 DEF End, CellsInv, RawCells, Exists, Space

\* reserve() moves elements that were never constructed.
LEMMA EndOfReserving ==
  ASSUME CellsInv, NEW v \in Vectors, Exists(v), End("raw"),
         ~ Constructed(vector[v].elem, vector[v].sz)
  PROVE  CellsInv'
<1>1. vector[v].sz \in Nat /\ vector[v].sz <= Space(v)
  BY DEF CellsInv, Fits, Members, Space
<1> QED  BY <1>1, EndSound

LEMMA ReserveSound ==
  ASSUME CellsInv, ended = "no", NEW v \in Vectors, NEW n \in Nat, ReserveCells(v, n) PROVE CellsInv'
<1>1. CASE \E m : Left(v, n, m) /\ vector' = [vector EXCEPT ![v] = m] /\ ended' = ended
  BY <1>1, LeftSound, BecomesSound DEF ReserveCells
<1>2. CASE End("raw") /\ ~ Constructed(vector[v].elem, vector[v].sz)
  BY <1>2, EndOfReserving DEF ReserveCells
<1> QED  BY <1>1, <1>2 DEF ReserveCells, Reserving, SetMembers, Left

LEMMA ResizeSound ==
  ASSUME CellsInv, ended = "no", NEW v \in Vectors, NEW n \in Nat, ResizeCells(v, n) PROVE CellsInv'
<1>1. CASE \E m : /\ Left(v, n, m) /\ ended' = ended
                  /\ vector' = [vector EXCEPT ![v] = [m EXCEPT !.sz = n]]
  <2>1. PICK m : /\ Left(v, n, m) /\ ended' = ended
                 /\ vector' = [vector EXCEPT ![v] = [m EXCEPT !.sz = n]]
    BY <1>1
  <2>2. Fits(m) /\ Len(m.elem) >= n /\ spare' = [spare EXCEPT ![v] = RawOf(m.elem)]
    BY <2>1, LeftSound DEF ResizeCells
  <2>3. Fits([m EXCEPT !.sz = n]) /\ [m EXCEPT !.sz = n].elem = m.elem
    BY <2>2 DEF Fits, Members
  <2> QED  BY <2>1, <2>2, <2>3, BecomesSound
<1>2. CASE End("raw") /\ ~ Constructed(vector[v].elem, vector[v].sz)
  BY <1>2, EndOfReserving DEF ResizeCells
<1> QED  BY <1>1, <1>2 DEF ResizeCells, Reserving, SetMembers, Left

LEMMA PushBackSound ==
  ASSUME CellsInv, ended = "no", NEW v \in Vectors, NEW x \in CellValues \ {Raw}, PushBack(v, x)
  PROVE  CellsInv'
<1>1. Room(v) \in Nat /\ Exists(v)
      /\ (Len(vector[v].elem) >= vector[v].sz + 1 \/ Room(v) >= vector[v].sz + 1)
  BY CellsAssumption DEF PushBack, CellsInv, Fits, Members, Room, Space
<1>2. CASE \E m : /\ Left(v, Room(v), m) /\ ended' = ended /\ m.elem[m.sz + 1] # Raw
                  /\ vector' = [vector EXCEPT ![v] =
                                  [m EXCEPT !.elem[m.sz + 1] = x, !.sz = @ + 1]]
  <2>1. PICK m : /\ Left(v, Room(v), m) /\ ended' = ended /\ m.elem[m.sz + 1] # Raw
                 /\ vector' = [vector EXCEPT ![v] = [m EXCEPT !.elem[m.sz + 1] = x, !.sz = @ + 1]]
    BY <1>2
  <2> DEFINE r == [m EXCEPT !.elem[m.sz + 1] = x, !.sz = @ + 1]
             e == [m.elem EXCEPT ![m.sz + 1] = x]
  <2>2. /\ Fits(m) /\ m.sz \in Nat /\ m.sz = vector[v].sz
        /\ Len(m.elem) \in Nat /\ Len(m.elem) >= m.sz + 1
        /\ spare' = [spare EXCEPT ![v] = RawOf(m.elem)]
    BY <1>1, <2>1, LeftSound
  <2>3. m.sz + 1 \in 1..Len(m.elem) /\ m.elem \in Seq(CellValues)
    BY <2>2 DEF Fits, Members
  <2>4. /\ e \in Seq(CellValues) /\ Len(e) = Len(m.elem)
        /\ \A j \in 1..Len(m.elem) : e[j] = IF j = m.sz + 1 THEN x ELSE m.elem[j]
    BY <2>3, ExceptSeq
  <2>5. r.elem = e /\ r.sz = m.sz + 1 /\ r \in Members
    <3>1. m \in [sz : Nat, elem : Seq(CellValues)]
      BY <2>2 DEF Fits, Members
    <3>2. r = [m EXCEPT !.elem = e, !.sz = m.sz + 1]
      BY <3>1, Zenon
    <3> HIDE DEF e, r
    <3>3. [m EXCEPT !.elem = e] \in Members /\ [m EXCEPT !.elem = e].elem = e
      BY <2>4, <3>1 DEF Members
    <3>4. r = [[m EXCEPT !.elem = e] EXCEPT !.sz = m.sz + 1]
      BY <3>1, <3>2
    <3>5. m.sz + 1 \in Nat
      BY <2>2
    <3> QED  BY <3>3, <3>4, <3>5 DEF Members
  <2> HIDE DEF e, r
  <2>6. Fits(r)
    BY <2>2, <2>4, <2>5 DEF Fits
  <2>7. RawOf(r.elem) = RawOf(m.elem)
    BY <2>1, <2>2, <2>4, <2>5 DEF RawOf
  <2>8. vector' = [vector EXCEPT ![v] = r]
    BY <2>1 DEF r
  <2> QED  BY <2>1, <2>2, <2>6, <2>7, <2>8, BecomesSound
\* The cell is raw: it has not been constructed by growing.
<1>3. CASE \E m : Left(v, Room(v), m) /\ vector' = vector /\ m.elem[m.sz + 1] = Raw
  <2>1. PICK m : Left(v, Room(v), m) /\ vector' = vector /\ m.elem[m.sz + 1] = Raw
    BY <1>3
  <2>2. /\ m.sz \in Nat /\ m.sz = vector[v].sz
        /\ Len(m.elem) \in Nat /\ Len(m.elem) >= m.sz + 1
        /\ spare' = [spare EXCEPT ![v] = RawOf(m.elem)]
    BY <1>1, <2>1, LeftSound
  <2>3. m.sz + 1 \in RawOf(m.elem) /\ spare'[v] = RawOf(m.elem)
    BY <2>1, <2>2 DEF RawOf, CellsInv
  <2>4. Room(v) <= Len(vector[v].elem)
    <3> SUFFICES ASSUME ~ (Room(v) <= Len(vector[v].elem)) PROVE FALSE
      OBVIOUS
    <3>1. vector[v].sz = Len(vector[v].elem)
      BY <1>1, CellsAssumption DEF Room, Space, CellsInv, Fits, Members
    <3>2. spare'[v] = (vector[v].sz + 1)..Len(vector[v].elem)
      BY <2>1 DEF Left, CellsInv
    <3> QED  BY <2>2, <2>3, <3>1, <3>2
  <2>5. spare' = spare /\ spare[v] # {}
    BY <2>1, <2>3, <2>4 DEF Left
  <2> QED  BY <2>1, <2>5 DEF CellsInv, RawCells, Exists, Space
<1>4. CASE End("raw") /\ ~ Constructed(vector[v].elem, vector[v].sz)
  BY <1>1, <1>4, EndOfReserving
<1> QED  BY <1>2, <1>3, <1>4 DEF PushBack, Reserving, SetMembers, Left

LEMMA PushOwnSound ==
  ASSUME CellsInv, ended = "no", NEW v \in Vectors, NEW i \in Nat, PushOwn(v, i) PROVE CellsInv'
<1>1. CASE End("freed") \/ (End("raw") /\ vector[v].elem[i] = Raw)
  <2>1. i \in 1..Space(v) /\ Space(v) \in Nat
    BY DEF CellsInv, PushOwn, Fits, Members, Space
  <2>2. vector[v].elem[i] = Raw => ~ Constructed(vector[v].elem, i)
    BY <2>1 DEF Constructed
  <2> QED  BY <1>1, <2>1, <2>2, EndSound DEF PushOwn
<1>2. CASE vector[v].elem[i] # Raw /\ PushBack(v, vector[v].elem[i])
  <2>1. Fits(vector[v]) /\ i \in 1..Len(vector[v].elem)
    BY DEF CellsInv, PushOwn, Fits, Members
  <2>2. vector[v].elem[i] \in CellValues \ {Raw}
    BY <1>2, <2>1 DEF Fits, Members
  <2> QED  BY <1>2, <2>2, PushBackSound
<1> QED  BY <1>1, <1>2 DEF PushOwn

LEMMA ConstructSound ==
  ASSUME CellsInv, ended = "no", NEW v \in Vectors, NEW n \in Nat, ConstructVector(v, n) PROVE CellsInv'
<1> DEFINE none == [sz |-> 0, elem |-> <<>>]
<1>1. Fits(none) /\ Len(none.elem) = 0 /\ none.sz = 0 /\ Constructed(none.elem, 0)
  BY DEF Fits, Members, Constructed
<1>2. vector' = [vector EXCEPT ![v] = Grown(none, n)] /\ spare' = spare /\ ended' = ended
  BY DEF ConstructVector, SetMembers
<1>3. spare[v] = {}
  BY DEF ConstructVector, Exists, Absent, CellsInv, RawCells, Space
<1> HIDE DEF none
<1>4. Fits(Grown(none, n)) /\ RawOf(Grown(none, n).elem) = {}
  BY <1>1, GrownLemma
<1>5. spare = [spare EXCEPT ![v] = {}]
  BY <1>3, SameSpare
<1> QED  BY <1>2, <1>4, <1>5, BecomesSound

\* The first n cells of another vector, and the cells behind them.
LEMMA AssignSound ==
  ASSUME CellsInv, ended = "no", NEW v \in Vectors, NEW w \in Vectors, AssignVector(v, w) PROVE CellsInv'
<1> DEFINE n == vector[w].sz
           front == SubSeq(vector[w].elem, 1, n)
           rest  == SubSeq(vector[v].elem, n + 1, Space(v))
<1>1. /\ Fits(vector[v]) /\ Fits(vector[w]) /\ n \in Nat /\ n <= Len(vector[w].elem)
      /\ vector[v].elem \in Seq(CellValues) /\ vector[w].elem \in Seq(CellValues)
      /\ Space(v) = Len(vector[v].elem) /\ Space(v) \in Nat
  BY DEF CellsInv, AssignVector, Fits, Members, Space
<1>2. CASE /\ End("raw")
           /\ \/ ~ Constructed(vector[w].elem, n)
              \/ ~ Constructed(vector[v].elem, vector[v].sz)
              \/ n <= Space(v) /\ ~ Constructed(vector[v].elem, n)
  <2>1. Exists(v) /\ Exists(w) /\ Space(w) = Len(vector[w].elem)
    BY DEF AssignVector, Space
  <2>2. vector[v].sz \in Nat /\ vector[v].sz <= Space(v)
    BY <1>1 DEF Fits, Members, Space
  <2> QED  BY <1>1, <1>2, <2>1, <2>2, EndSound
<1>3. /\ front \in Seq(CellValues) /\ Len(front) = n
      /\ Constructed(vector[w].elem, n) => Constructed(front, n)
  <2>1. n \in 0..Len(vector[w].elem)
    BY <1>1
  <2>2. /\ front \in Seq(CellValues) /\ Len(front) = n
        /\ \A i \in 1..n : front[i] = vector[w].elem[i]
    BY <1>1, <2>1, PrefixLemma
  <2> QED  BY <2>2 DEF Constructed
<1>4. CASE /\ Constructed(vector[w].elem, n)
           /\ vector' = [vector EXCEPT ![v] = [sz |-> n, elem |-> front]]
           /\ spare' = [spare EXCEPT ![v] = {}] /\ ended' = ended
  <2> DEFINE m == [sz |-> n, elem |-> front]
  <2>1. Fits(m) /\ m.elem = front
    BY <1>1, <1>3 DEF Fits, Members
  <2>2. RawOf(m.elem) = {}
    BY <1>3, <1>4, <2>1 DEF Constructed, RawOf
  <2> HIDE DEF m
  <2>3. vector' = [vector EXCEPT ![v] = m]
    BY <1>4 DEF m
  <2> QED  BY <1>4, <2>1, <2>2, <2>3, BecomesSound
<1>5. CASE /\ Constructed(vector[w].elem, n) /\ n <= Space(v) /\ Constructed(vector[v].elem, n)
           /\ vector' = [vector EXCEPT ![v] = [sz |-> n, elem |-> front \o rest]]
           /\ spare' = spare /\ ended' = ended
  <2> DEFINE m == [sz |-> n, elem |-> front \o rest]
  <2>1. /\ rest \in Seq(CellValues) /\ Len(rest) = Space(v) - n
        /\ \A i \in 1..(Space(v) - n) : rest[i] = vector[v].elem[n + i]
    <3>1. n \in 0..Len(vector[v].elem)
      BY <1>1, <1>5
    <3> DEFINE s == vector[v].elem
               k == n
    <3>2. s \in Seq(CellValues) /\ k \in 0..Len(s) /\ Space(v) = Len(s)
      BY <1>1, <3>1
    <3> HIDE DEF s, k
    <3>3. /\ SubSeq(s, k + 1, Len(s)) \in Seq(CellValues)
          /\ Len(SubSeq(s, k + 1, Len(s))) = Len(s) - k
          /\ \A i \in 1..(Len(s) - k) : SubSeq(s, k + 1, Len(s))[i] = s[k + i]
      BY <3>2, SuffixLemma
    <3>4. rest = SubSeq(s, k + 1, Len(s))
      BY <3>2 DEF s, k
    <3> HIDE DEF rest
    <3> QED  BY <3>2, <3>3, <3>4 DEF s, k
  <2> HIDE DEF front, rest
  <2>2. /\ front \o rest \in Seq(CellValues) /\ Len(front \o rest) = Space(v)
        /\ \A i \in 1..Space(v) : (front \o rest)[i] = IF i <= n THEN front[i] ELSE rest[i - n]
    <3>1. Len(front) = n /\ Len(front) + Len(rest) = Space(v)
      BY <1>1, <1>3, <2>1
    <3>2. /\ front \o rest \in Seq(CellValues) /\ Len(front \o rest) = Len(front) + Len(rest)
          /\ \A i \in 1..(Len(front) + Len(rest)) :
               (front \o rest)[i] = IF i <= Len(front) THEN front[i] ELSE rest[i - Len(front)]
      BY <1>3, <2>1, JoinLemma
    <3> QED  BY <3>1, <3>2
  <2>3. m.sz = n /\ m.elem = front \o rest /\ Fits(m)
    BY <1>1, <1>5, <2>2 DEF Fits, Members
  <2>4. RawOf(m.elem) = RawOf(vector[v].elem)
    <3> DEFINE old == vector[v].elem
    <3>1. ASSUME NEW i \in 1..Space(v) PROVE m.elem[i] = Raw <=> old[i] = Raw
      <4>1. CASE i <= n
        <5>1. i \in 1..n
          BY <4>1
        <5>2. front[i] # Raw /\ old[i] # Raw
          BY <1>3, <1>5, <5>1 DEF Constructed
        <5>3. m.elem[i] = front[i]
          BY <2>2, <2>3, <4>1
        <5> QED  BY <5>2, <5>3
      <4>2. CASE i > n
        <5>1. i - n \in 1..(Space(v) - n) /\ n + (i - n) = i
          BY <1>1, <4>2
        <5>2. rest[i - n] = old[n + (i - n)]
          BY <2>1, <5>1
        <5>3. m.elem[i] = rest[i - n]
          <6>1. ~ (i <= n)
            BY <1>1, <4>2
          <6> QED  BY <2>2, <2>3, <6>1
        <5>4. m.elem[i] = old[i]
          BY <5>1, <5>2, <5>3
        <5> QED  BY <5>4
      <4>3. i <= n \/ i > n
        BY <1>1
      <4> QED  BY <4>1, <4>2, <4>3
    <3> QED  BY <1>1, <2>2, <2>3, <3>1 DEF RawOf
  <2>5. spare' = [spare EXCEPT ![v] = RawOf(m.elem)]
    <3>1. spare[v] = RawOf(vector[v].elem)
      BY <1>1 DEF CellsInv, RawCells, RawOf
    <3> QED  BY <1>5, <2>4, <3>1, SameSpare
  <2> HIDE DEF m
  <2>6. vector' = [vector EXCEPT ![v] = m]
    BY <1>5 DEF m
  <2> QED  BY <1>5, <2>3, <2>5, <2>6, BecomesSound
<1> HIDE DEF front, rest
<1>6. n > Space(v) \/ n <= Space(v)
  BY <1>1
<1> QED  BY <1>2, <1>4, <1>5, <1>6 DEF AssignVector, SetMembers, front, rest

LEMMA DestroySound ==
  ASSUME CellsInv, ended = "no", NEW v \in Vectors, DestroyVector(v)
  PROVE  CellsInv'
<1>1. CASE End("raw") /\ Space(v) > 0 /\ vector[v].elem[1] = Raw
  <2>1. Exists(v) /\ 1 <= Space(v) /\ ~ Constructed(vector[v].elem, 1)
    BY <1>1 DEF CellsInv, DestroyVector, Fits, Members, Space, Constructed
  <2> QED  BY <1>1, <2>1, EndSound
<1>2. CASE /\ vector' = [vector EXCEPT ![v] = Absent] /\ ended' = ended
           /\ spare' = [spare EXCEPT ![v] = {}]
  <2>1. RawOf(Absent.elem) = {}
    BY DEF Absent, RawOf
  <2> QED  BY <1>2, <2>1, BecomesSound
<1> QED  BY <1>1, <1>2 DEF DestroyVector, SetMembers

LEMMA UnchangedCellsSound == ASSUME CellsInv, UNCHANGED allocatorVars PROVE CellsInv'
BY DEF CellsInv, RawCells, Exists, Space, allocatorVars

LEMMA AccessSound ==
  ASSUME CellsInv, NEW v \in Vectors, NEW i \in Nat \ {0}, Subscript(v, i)
  PROVE  CellsInv'
<1>1. Exists(v) /\ Space(v) \in Nat
  BY DEF CellsInv, Subscript, Fits, Members, Space
<1>2. CASE End("bounds")
  BY <1>1, <1>2, EndSound
<1>3. CASE End("raw") /\ i <= Space(v) /\ vector[v].elem[i] = Raw
  <2>1. ~ Constructed(vector[v].elem, i)
    BY <1>3 DEF Constructed
  <2> QED  BY <1>1, <1>3, <2>1, EndSound
<1> QED  BY <1>1, <1>2, <1>3, UnchangedCellsSound DEF Subscript

LEMMA CellsInductive == ASSUME CellsInv, [AllocatorNext]_allocatorVars PROVE CellsInv'
<1>1. ASSUME ended = "no", NEW v \in Vectors, NEW n \in 0..MaxSize,
             ConstructVector(v, n) \/ ReserveCells(v, n) \/ ResizeCells(v, n)
      PROVE  CellsInv'
  <2>1. n \in Nat
    BY CellsAssumption
  <2> QED  BY <1>1, <2>1, ConstructSound, ReserveSound, ResizeSound
<1>2. ASSUME ended = "no", NEW v \in Vectors, NEW x \in Values, PushBack(v, x) PROVE CellsInv'
  <2>1. x \in CellValues \ {Raw}
    BY CellsAssumption DEF CellValues
  <2> QED  BY <1>2, <2>1, PushBackSound
<1>3. ASSUME ended = "no", NEW v \in Vectors, NEW i \in 1..(MaxSize + 1),
             PushOwn(v, i) \/ Subscript(v, i) \/ CheckedAt(v, i)
      PROVE  CellsInv'
  <2>1. i \in Nat /\ i \in Nat \ {0}
    BY CellsAssumption
  <2> QED  BY <1>3, <2>1, PushOwnSound, AccessSound, UnchangedCellsSound DEF CheckedAt
<1>4. ASSUME ended = "no", NEW v \in Vectors, NEW w \in Vectors, AssignVector(v, w) PROVE CellsInv'
  BY <1>4, AssignSound
<1>5. ASSUME ended = "no", NEW v \in Vectors, DestroyVector(v) PROVE CellsInv'
  BY <1>5, DestroySound
<1>6. CASE UNCHANGED allocatorVars
  BY <1>6, UnchangedCellsSound
<1> QED  BY <1>1, <1>2, <1>3, <1>4, <1>5, <1>6 DEF AllocatorNext, AllocatorStep

-----------------------------------------------------------------------------

\* Whatever is reserved, resized, pushed and assigned, the cells of a vector that
\* were never constructed are those that were spare when it grew, and only with
\* such cells does a program use raw memory (main11_VectorAllocator.cpp:66-151).
THEOREM CellsAreConstructed == AllocatorSpec => []RawCells
<1>1. AllocatorInit => CellsInv
  <2> SUFFICES ASSUME AllocatorInit PROVE CellsInv
    OBVIOUS
  <2>1. \A v \in Vectors : vector[v] = Absent
    BY DEF AllocatorInit
  <2>2. Absent.elem = <<>> /\ Len(Absent.elem) = 0
    BY DEF Absent
  <2> QED  BY <2>1, <2>2 DEF AllocatorInit, CellsInv, RawCells, Exists, Space
<1>2. CellsInv /\ [AllocatorNext]_allocatorVars => CellsInv'
  BY CellsInductive
<1>3. CellsInv => RawCells
  BY DEF CellsInv
<1> QED  BY <1>1, <1>2, <1>3, PTL DEF AllocatorSpec

-----------------------------------------------------------------------------
(* TimeStamps                                                              *)

Days(c)    == {time[1] : time \in seen[c]}
Seconds(c) == {time[2] : time \in seen[c]}

StampTypes ==
  /\ clock \in Clocks
  /\ call \in [Callers -> {"out", "read", "writing", "written", "formatting", "formatted", "done"}]
  /\ tv \in [Callers -> Clocks]
  /\ DOMAIN seen = Callers
  /\ shared \in [day : Int, second : Int]
  /\ text \in [Callers -> [day : Int, second : Int, digits : Seq(Int)]]

\* A call has seen the times of all calls that are under way with it.
Overlaps ==
  /\ \A c \in Callers : call[c] # "out" => tv[c] \in seen[c]
  /\ \A c, o \in Active : tv[o] \in seen[c]

\* What the shared struct holds while a call relies on it, and what the call has
\* copied out of it, are times that the call has seen.
FieldsSeen ==
  \A c \in Callers :
    /\ call[c] \in {"writing", "written"} => shared.day \in Days(c)
    /\ call[c] \in {"written", "formatting"} => shared.second \in Seconds(c)
    /\ call[c] \in {"formatting", "formatted", "done"} => text[c].day \in Days(c)
    /\ call[c] \in {"formatted", "done"} => text[c].second \in Seconds(c)
    /\ call[c] = "done" => text[c].digits = Digits(tv[c][3])

\* The inductive invariant.
StampsInv == StampTypes /\ Overlaps /\ FieldsSeen

-----------------------------------------------------------------------------

\* Digits without leading zeros are a fraction of a second only if there are three.
LEMMA DigitsLemma ==
  ASSUME NEW n \in 0..999
  PROVE  Fraction(Digits(n)) = n <=> n = 0 \/ n >= 100
<1>1. CASE n < 10
  <2>1. Digits(n) = <<n>> /\ Digits(n) # <<>> /\ Len(Digits(n)) = 1 /\ Digits(n)[1] = n
    BY <1>1 DEF Digits
  <2>2. Fraction(Digits(n)) = n * 100
    BY <2>1 DEF Fraction
  <2> QED  BY <1>1, <2>2
<1>2. CASE n >= 10 /\ n < 100
  <2>1. /\ Digits(n) = <<n \div 10, n % 10>> /\ Digits(n) # <<>> /\ Len(Digits(n)) = 2
        /\ Digits(n)[1] = n \div 10 /\ Digits(n)[2] = n % 10
    BY <1>2 DEF Digits
  <2>2. n \div 10 \in Int /\ n % 10 \in Int /\ n = 10 * (n \div 10) + (n % 10)
    BY <1>2
  <2>3. Fraction(Digits(n)) = (n \div 10) * 100 + (n % 10) * 10
    BY <2>1, <2>2 DEF Fraction
  <2> QED  BY <1>2, <2>2, <2>3
<1>3. CASE n >= 100
  <2>1. /\ Digits(n) = <<n \div 100, (n \div 10) % 10, n % 10>>
        /\ Digits(n) # <<>> /\ Len(Digits(n)) = 3
        /\ Digits(n)[1] = n \div 100 /\ Digits(n)[2] = (n \div 10) % 10
        /\ Digits(n)[3] = n % 10
    BY <1>3 DEF Digits
  <2>2. /\ n \div 100 \in Int /\ (n \div 10) % 10 \in Int /\ n % 10 \in Int
        /\ n = 100 * (n \div 100) + 10 * ((n \div 10) % 10) + (n % 10)
    BY <1>3
  <2>3. Fraction(Digits(n)) = (n \div 100) * 100 + ((n \div 10) % 10) * 10 + (n % 10)
    BY <2>1, <2>2 DEF Fraction
  <2> QED  BY <1>3, <2>2, <2>3
<1> QED  BY <1>1, <1>2, <1>3

LEMMA ClockFields ==
  ASSUME NEW time \in Clocks
  PROVE  time[1] \in Int /\ time[2] \in Int /\ time[3] \in 0..999
BY ClockAssumption

LEMMA TimeFields ==
  ASSUME StampsInv, NEW c \in Callers
  PROVE  tv[c] \in Clocks /\ tv[c][1] \in Int /\ tv[c][2] \in Int /\ tv[c][3] \in 0..999
<1>1. tv[c] \in Clocks
  BY DEF StampsInv, StampTypes
<1> QED  BY <1>1, ClockFields

LEMMA StampsInitSound == ASSUME StampsInit PROVE StampsInv
<1>1. First \in Clocks
  BY ClockAssumption DEF First
<1>2. StampTypes
  BY <1>1, ClockFields DEF StampsInit, StampTypes, NoText
<1> QED  BY <1>2 DEF StampsInv, StampsInit, Overlaps, FieldsSeen, Active

LEMMA GetTimeOfDaySound ==
  ASSUME StampsInv, NEW c \in Callers, GetTimeOfDay(c) PROVE StampsInv'
<1>1. StampTypes'
  BY DEF StampsInv, StampTypes, GetTimeOfDay, NoText
<1>2. /\ c \notin Active /\ Active' = Active \union {c}
      /\ \A u \in Callers : call'[u] = IF u = c THEN "read" ELSE call[u]
      /\ \A u \in Callers : tv'[u] = IF u = c THEN clock ELSE tv[u]
      /\ clock \in seen'[c] /\ \A o \in Active : tv[o] \in seen'[c]
      /\ \A u \in Active : seen'[u] = seen[u] \union {clock}
      /\ \A u \in Callers : u # c => seen[u] \subseteq seen'[u] /\ text'[u] = text[u]
      /\ shared' = shared
  BY DEF StampsInv, StampTypes, GetTimeOfDay, Active
<1>3. Active \subseteq Callers
  BY DEF Active
<1>4. Overlaps'
  BY <1>2, <1>3 DEF StampsInv, Overlaps
<1>5. FieldsSeen'
  BY <1>2 DEF StampsInv, FieldsSeen, Days, Seconds
<1> QED  BY <1>1, <1>4, <1>5 DEF StampsInv

\* A step of a call that is under way leaves what the calls have seen alone.
LEMMA StepOverlaps ==
  ASSUME StampsInv, NEW c \in Callers, c \in Active,
         NEW to, call' = [call EXCEPT ![c] = to], to # "out",
         tv' = tv, seen' = seen
  PROVE  Overlaps'
BY DEF StampsInv, StampTypes, Overlaps, Active

LEMMA WriteDaySound ==
  ASSUME StampsInv, NEW c \in Callers, WriteDay(c) PROVE StampsInv'
<1>1. StampTypes'
  <2>1. tv[c][1] \in Int /\ tv[c][2] \in Int
    BY TimeFields
  <2>2. shared' \in [day : Int, second : Int]
    BY <2>1 DEF StampsInv, StampTypes, WriteDay
  <2> QED  BY <2>2 DEF StampsInv, StampTypes, WriteDay, Goes
<1>2. c \in Active /\ Overlaps'
  BY StepOverlaps DEF WriteDay, Goes, Active
<1>3. /\ \A u \in Callers : call'[u] = IF u = c THEN "writing" ELSE call[u]
      /\ shared'.day = tv[c][1] /\ shared'.second = shared.second
      /\ seen' = seen /\ text' = text /\ tv' = tv
  BY DEF StampsInv, StampTypes, WriteDay, Goes
<1>4. \A u \in Active : tv[c][1] \in Days(u)
  BY <1>2 DEF StampsInv, Overlaps, Days
<1>5. \A u \in Callers : Days(u)' = Days(u) /\ Seconds(u)' = Seconds(u)
  BY <1>3 DEF Days, Seconds
<1>6. FieldsSeen'
  <2> SUFFICES ASSUME NEW u \in Callers
               PROVE  /\ call'[u] \in {"writing", "written"} => shared'.day \in Days(u)
                      /\ call'[u] \in {"written", "formatting"} => shared'.second \in Seconds(u)
                      /\ call'[u] \in {"formatting", "formatted", "done"} => text[u].day \in Days(u)
                      /\ call'[u] \in {"formatted", "done"} => text[u].second \in Seconds(u)
                      /\ call'[u] = "done" => text[u].digits = Digits(tv[u][3])
    BY <1>3, <1>5 DEF FieldsSeen
  <2>1. CASE u = c
    BY <1>2, <1>3, <1>4, <2>1 DEF StampsInv, FieldsSeen
  <2>2. CASE u # c
    BY <1>3, <1>4, <2>2 DEF StampsInv, FieldsSeen, Active
  <2> QED  BY <2>1, <2>2
<1> QED  BY <1>1, <1>2, <1>6 DEF StampsInv

LEMMA WriteSecondSound ==
  ASSUME StampsInv, NEW c \in Callers, WriteSecond(c) PROVE StampsInv'
<1>1. StampTypes'
  <2>1. tv[c][1] \in Int /\ tv[c][2] \in Int
    BY TimeFields
  <2>2. shared' \in [day : Int, second : Int]
    BY <2>1 DEF StampsInv, StampTypes, WriteSecond
  <2> QED  BY <2>2 DEF StampsInv, StampTypes, WriteSecond, Goes
<1>2. c \in Active /\ Overlaps'
  BY StepOverlaps DEF WriteSecond, Goes, Active
<1>3. /\ call[c] = "writing"
      /\ \A u \in Callers : call'[u] = IF u = c THEN "written" ELSE call[u]
      /\ shared'.second = tv[c][2] /\ shared'.day = shared.day
      /\ seen' = seen /\ text' = text /\ tv' = tv
  BY DEF StampsInv, StampTypes, WriteSecond, Goes
<1>4. \A u \in Active : tv[c][2] \in Seconds(u)
  BY <1>2 DEF StampsInv, Overlaps, Seconds
<1>5. \A u \in Callers : Days(u)' = Days(u) /\ Seconds(u)' = Seconds(u)
  BY <1>3 DEF Days, Seconds
<1>6. FieldsSeen'
  <2> SUFFICES ASSUME NEW u \in Callers
               PROVE  /\ call'[u] \in {"writing", "written"} => shared'.day \in Days(u)
                      /\ call'[u] \in {"written", "formatting"} => shared'.second \in Seconds(u)
                      /\ call'[u] \in {"formatting", "formatted", "done"} => text[u].day \in Days(u)
                      /\ call'[u] \in {"formatted", "done"} => text[u].second \in Seconds(u)
                      /\ call'[u] = "done" => text[u].digits = Digits(tv[u][3])
    BY <1>3, <1>5 DEF FieldsSeen
  <2>1. CASE u = c
    BY <1>2, <1>3, <1>4, <2>1 DEF StampsInv, FieldsSeen
  <2>2. CASE u # c
    BY <1>3, <1>4, <2>2 DEF StampsInv, FieldsSeen, Active
  <2> QED  BY <2>1, <2>2
<1> QED  BY <1>1, <1>2, <1>6 DEF StampsInv

LEMMA FormatDaySound ==
  ASSUME StampsInv, NEW c \in Callers, FormatDay(c) PROVE StampsInv'
<1>1. StampTypes'
  BY DEF StampsInv, StampTypes, FormatDay, Goes
<1>2. Overlaps'
  BY StepOverlaps DEF FormatDay, Goes, Active
<1>3. FieldsSeen'
  BY DEF StampsInv, StampTypes, FieldsSeen, Days, Seconds, FormatDay, Goes
<1> QED  BY <1>1, <1>2, <1>3 DEF StampsInv

LEMMA FormatSecondSound ==
  ASSUME StampsInv, NEW c \in Callers, FormatSecond(c) PROVE StampsInv'
<1>1. StampTypes'
  BY DEF StampsInv, StampTypes, FormatSecond, Goes
<1>2. Overlaps'
  BY StepOverlaps DEF FormatSecond, Goes, Active
<1>3. FieldsSeen'
  BY DEF StampsInv, StampTypes, FieldsSeen, Days, Seconds, FormatSecond, Goes
<1> QED  BY <1>1, <1>2, <1>3 DEF StampsInv

LEMMA AppendMillisSound ==
  ASSUME StampsInv, NEW c \in Callers, AppendMillis(c) PROVE StampsInv'
<1>1. Digits(tv[c][3]) \in Seq(Int)
  <2>0. tv[c] \in Clocks
    BY DEF StampsInv, StampTypes
  <2> DEFINE n == tv[c][3]
  <2>1. n \in 0..999
    BY <2>0, ClockFields
  <2> HIDE DEF n
  <2>2. n \in Int
    BY <2>1
  <2>3. n \div 100 \in Int /\ n \div 10 \in Int /\ (n \div 10) % 10 \in Int /\ n % 10 \in Int
    BY <2>2
  <2>4. /\ <<n>> \in Seq(Int) /\ <<n \div 10, n % 10>> \in Seq(Int)
        /\ <<n \div 100, (n \div 10) % 10, n % 10>> \in Seq(Int)
    BY <2>2, <2>3
  <2>5. Digits(n) \in Seq(Int)
    BY <2>4 DEF Digits
  <2> QED  BY <2>5 DEF n
<1>2. StampTypes'
  BY <1>1 DEF StampsInv, StampTypes, AppendMillis, Goes
<1>3. Overlaps'
  BY DEF StampsInv, StampTypes, Overlaps, AppendMillis, Goes, Active
<1>4. FieldsSeen'
  BY DEF StampsInv, StampTypes, FieldsSeen, Days, Seconds, AppendMillis, Goes
<1> QED  BY <1>2, <1>3, <1>4 DEF StampsInv

LEMMA StampsInductive == ASSUME StampsInv, [StampsNext]_stampVars PROVE StampsInv'
<1>1. CASE Tick
  <2>1. StampTypes'
    BY <1>1, ClockAssumption DEF StampsInv, StampTypes, Tick
  <2> QED  BY <1>1, <2>1 DEF StampsInv, Overlaps, FieldsSeen, Days, Seconds, Active, Tick
<1>2. ASSUME NEW c \in Callers, GetTimeOfDay(c) PROVE StampsInv'
  BY <1>2, GetTimeOfDaySound
<1>3. ASSUME NEW c \in Callers, WriteDay(c) PROVE StampsInv'
  BY <1>3, WriteDaySound
<1>4. ASSUME NEW c \in Callers, WriteSecond(c) PROVE StampsInv'
  BY <1>4, WriteSecondSound
<1>5. ASSUME NEW c \in Callers, FormatDay(c) PROVE StampsInv'
  BY <1>5, FormatDaySound
<1>6. ASSUME NEW c \in Callers, FormatSecond(c) PROVE StampsInv'
  BY <1>6, FormatSecondSound
<1>7. ASSUME NEW c \in Callers, AppendMillis(c) PROVE StampsInv'
  BY <1>7, AppendMillisSound
<1>8. CASE UNCHANGED stampVars
  BY <1>8 DEF StampsInv, StampTypes, Overlaps, FieldsSeen, Days, Seconds, Active, stampVars
<1> QED  BY <1>1, <1>2, <1>3, <1>4, <1>5, <1>6, <1>7, <1>8 DEF StampsNext

-----------------------------------------------------------------------------

\* With any number of threads in get_local_date_time() at a time, the day and
\* the second of a stamp are each of a call that overlapped, and its milliseconds
\* are its own, padded or not (CommonUtilities.hpp:150-205).
THEOREM StampsAreOfTheirCalls == StampsSpec => []StampsOfTheirCalls
<1>1. StampsInit => StampsInv
  BY StampsInitSound
<1>2. StampsInv /\ [StampsNext]_stampVars => StampsInv'
  BY StampsInductive
<1>3. StampsInv => StampsOfTheirCalls
  <2> SUFFICES ASSUME StampsInv, NEW c \in Callers, call[c] = "done"
               PROVE  /\ text[c].day \in {time[1] : time \in seen[c]}
                      /\ text[c].second \in {time[2] : time \in seen[c]}
                      /\ Fraction(text[c].digits) = tv[c][3]
                           <=> tv[c][3] = 0 \/ tv[c][3] >= 100
    BY DEF StampsOfTheirCalls
  <2>0. tv[c] \in Clocks
    BY DEF StampsInv, StampTypes
  <2>1. text[c].digits = Digits(tv[c][3])
    BY DEF StampsInv, FieldsSeen
  <2>2. text[c].day \in Days(c) /\ text[c].second \in Seconds(c)
    BY DEF StampsInv, FieldsSeen
  <2>3. Fraction(Digits(tv[c][3])) = tv[c][3] <=> tv[c][3] = 0 \/ tv[c][3] >= 100
    <3> DEFINE n == tv[c][3]
    <3>1. n \in 0..999
      BY <2>0, ClockFields
    <3> HIDE DEF n
    <3>2. Fraction(Digits(n)) = n <=> n = 0 \/ n >= 100
      BY <3>1, DigitsLemma
    <3> QED  BY <3>2 DEF n
  <2>4. Fraction(text[c].digits) = tv[c][3] <=> tv[c][3] = 0 \/ tv[c][3] >= 100
    BY <2>1, <2>3
  <2> QED  BY <2>2, <2>4 DEF Days, Seconds
<1> QED  BY <1>1, <1>2, <1>3, PTL DEF StampsSpec

-----------------------------------------------------------------------------
(* Indentation                                                             *)

\* The types of the members.
IndentTypes ==
  /\ indent \in Int /\ peak \in Nat /\ lost \in Nat
  /\ depth \in [Threads -> Nat]
  /\ DOMAIN macro = Threads
  /\ blanks \subseteq BufferBytes
  /\ overrun \in BOOLEAN /\ disturbed \in BOOLEAN

\* A thread is outside of the macros, or in one; in the second macro it has a
\* call to end, and the counter it has read was one of so many calls.
Moving ==
  \A t \in Threads :
    /\ macro[t][1] \in {"out", "add", "clear", "sub"}
    /\ macro[t][1] = "out" => macro[t] = Out
    /\ macro[t][1] \in {"clear", "sub"} => depth[t] > 0
    /\ macro[t][1] = "clear" => macro[t][2] \in IndentBy..(IndentBy * peak)

\* The counter, and the most calls there ever were.
Counting ==
  /\ indent = IndentBy * (Cardinality(Held) + lost)
  /\ Calls <= peak
  /\ overrun => 2 * IndentBy * peak - IndentBy > BufferSize

\* What the buffer shows while threads do not meet.
Alone == \A t, u \in Threads : macro[t] # Out /\ macro[u] # Out => t = u
Shown ==
  ~ overrun /\ ~ disturbed =>
    /\ Alone
    /\ (\A t \in Threads : macro[t] = Out) => blanks = 0..(indent - 1)
    /\ \A t \in Threads :
         /\ macro[t][1] = "add" => blanks = 0..(indent + IndentBy - 1)
         /\ macro[t][1] = "clear" => macro[t][2] = indent /\ blanks = 0..(indent - 1)
         /\ macro[t][1] = "sub" => blanks = 0..(indent - IndentBy - 1)

\* The inductive invariant.
IndentInv == IndentTypes /\ Moving /\ Counting /\ Shown

-----------------------------------------------------------------------------

\* The calls of a thread that has d of them.
CallsOf(t, d) == {t} \X (1..d)

LEMMA HeldIs ==
  ASSUME NEW c
  PROVE  c \in Held <=> \E t \in Threads : c \in CallsOf(t, depth[t])
BY DEF Held, CallsOf

LEMMA CallsOfFinite ==
  ASSUME NEW t, NEW d \in Nat
  PROVE  IsFiniteSet(CallsOf(t, d))
<1>1. IsFiniteSet({t}) /\ IsFiniteSet(1..d)
  <2>1. IsFiniteSet({t})
    BY FS_Singleton
  <2>2. 1 \in Int /\ d \in Int
    OBVIOUS
  <2> QED  BY <2>1, <2>2, FS_Interval
<1> QED  BY <1>1, FS_Product DEF CallsOf

LEMMA HeldFinite ==
  ASSUME depth \in [Threads -> Nat]
  PROVE  IsFiniteSet(Held) /\ Cardinality(Held) \in Nat
<1> DEFINE f == [t \in Threads |-> CallsOf(t, depth[t])]
           T == {CallsOf(t, depth[t]) : t \in Threads}
<1>1. f \in Surjection(Threads, T)
  BY DEF Surjection
<1>2. IsFiniteSet(T)
  BY <1>1, IndentAssumption, FS_Surjection
<1>3. \A C \in T : IsFiniteSet(C)
  BY CallsOfFinite
<1>4. Held = UNION T
  BY DEF Held, CallsOf
<1> HIDE DEF T, f
<1>5. IsFiniteSet(UNION T)
  BY <1>2, <1>3, FS_UNION
<1> QED  BY <1>4, <1>5, FS_CardinalityType

\* One call more of a thread is one call more.
LEMMA HeldMore ==
  ASSUME depth \in [Threads -> Nat], NEW t \in Threads,
         depth' = [depth EXCEPT ![t] = @ + 1]
  PROVE  Cardinality(Held') = Cardinality(Held) + 1
<1> DEFINE c == <<t, depth[t] + 1>>
<1>1. depth[t] \in Nat /\ c \notin Held
  BY HeldIs DEF CallsOf
<1>2. Held' = Held \union {c}
  <2>1. CallsOf(t, depth[t] + 1) = CallsOf(t, depth[t]) \union {c}
    BY <1>1 DEF CallsOf
  <2>2. \A u \in Threads : depth'[u] = IF u = t THEN depth[u] + 1 ELSE depth[u]
    OBVIOUS
  <2>3. ASSUME NEW e PROVE e \in Held' <=> \E u \in Threads : e \in CallsOf(u, depth'[u])
    BY DEF Held, CallsOf
  <2> HIDE DEF c
  <2>4. ASSUME NEW e PROVE e \in Held' <=> e \in Held \union {c}
    BY <2>1, <2>2, <2>3, HeldIs
  <2> QED  BY <2>4
<1> HIDE DEF c
<1> QED  BY <1>1, <1>2, HeldFinite, FS_AddElement

\* A thread that ends or leaves n calls has n less.
LEMMA HeldLess ==
  ASSUME depth \in [Threads -> Nat], NEW t \in Threads, NEW n \in Nat, n <= depth[t],
         depth' = [depth EXCEPT ![t] = @ - n]
  PROVE  Cardinality(Held') = Cardinality(Held) - n /\ Cardinality(Held) >= n
<1> DEFINE d == depth[t]
           gone == {t} \X ((d - n + 1)..d)
<1>1. d \in Nat /\ d - n \in Nat
  OBVIOUS
<1>2. IsFiniteSet(gone) /\ Cardinality(gone) = n
  <2>1. IsFiniteSet({t}) /\ Cardinality({t}) = 1
    BY FS_Singleton
  <2>2. IsFiniteSet((d - n + 1)..d) /\ Cardinality((d - n + 1)..d) = n
    <3> DEFINE a == d - n + 1
    <3>1. a \in Int /\ d \in Int /\ (IF a > d THEN 0 ELSE d - a + 1) = n
      BY <1>1
    <3> HIDE DEF a, d
    <3>2. IsFiniteSet(a..d) /\ Cardinality(a..d) = n
      BY <3>1, FS_Interval
    <3> QED  BY <3>2 DEF a
  <2>3. IsFiniteSet(gone) /\ Cardinality(gone) = Cardinality({t}) * Cardinality((d - n + 1)..d)
    BY <2>1, <2>2, FS_Product
  <2> QED  BY <2>1, <2>2, <2>3
<1>3. \A u \in Threads : depth'[u] = IF u = t THEN d - n ELSE depth[u]
  OBVIOUS
<1>4. gone \subseteq CallsOf(t, d) /\ CallsOf(t, d - n) = CallsOf(t, d) \ gone
  BY <1>1 DEF CallsOf
<1>5. ASSUME NEW u \in Threads, u # t PROVE CallsOf(u, depth[u]) \intersect gone = {}
  BY <1>5 DEF CallsOf
<1>6. ASSUME NEW e PROVE e \in Held' <=> \E u \in Threads : e \in CallsOf(u, depth'[u])
  BY DEF Held, CallsOf
<1> HIDE DEF gone
<1>7. gone \subseteq Held
  BY <1>4, HeldIs
<1>8. ASSUME NEW e PROVE e \in Held' <=> e \in Held \ gone
  <2>1. CASE e \in CallsOf(t, d)
    BY <1>3, <1>4, <1>5, <1>6, <2>1, HeldIs DEF CallsOf
  <2>2. CASE e \notin CallsOf(t, d)
    <3>1. e \notin CallsOf(t, depth'[t])
      BY <1>3, <1>4, <2>2
    <3> QED  BY <1>3, <1>4, <1>6, <2>2, <3>1, HeldIs
  <2> QED  BY <2>1, <2>2
<1>9. Held' = Held \ gone
  BY <1>8
<1>10. Held \intersect gone = gone
  BY <1>7
<1> HIDE DEF d
<1>11. Cardinality(Held \ gone) = Cardinality(Held) - Cardinality(gone)
  BY <1>10, HeldFinite, FS_Difference
<1>12. Cardinality(gone) <= Cardinality(Held)
  BY <1>7, HeldFinite, FS_Subset
<1> QED  BY <1>2, <1>9, <1>11, <1>12, HeldFinite

LEMMA AddingFinite == IsFiniteSet(Adding) /\ Cardinality(Adding) \in Nat
<1>1. Adding \in SUBSET Threads
  BY DEF Adding
<1> QED  BY <1>1, IndentAssumption, FS_Subset, FS_CardinalityType

\* What the invariant says in numbers.
LEMMA CountingIs ==
  ASSUME IndentInv
  PROVE  /\ Cardinality(Held) \in Nat /\ Cardinality(Adding) \in Nat
         /\ indent = 2 * (Cardinality(Held) + lost) /\ lost \in Nat /\ peak \in Nat
         /\ Cardinality(Held) + lost + Cardinality(Adding) <= peak
         /\ Calls = Cardinality(Held) + lost + Cardinality(Adding)
         /\ indent \in 0..(2 * peak)
<1>1. /\ Cardinality(Held) \in Nat /\ Cardinality(Adding) \in Nat
  BY HeldFinite, AddingFinite DEF IndentInv, IndentTypes
<1>2. /\ indent = 2 * (Cardinality(Held) + lost) /\ lost \in Nat /\ peak \in Nat
      /\ Calls <= peak /\ Calls = Cardinality(Held) + lost + Cardinality(Adding)
  BY DEF IndentInv, IndentTypes, Counting, IndentBy, Calls
<1> QED  BY <1>1, <1>2

\* A thread with a call to end has an indentation.
LEMMA IndentedIs ==
  ASSUME IndentInv, NEW t \in Threads, depth[t] > 0
  PROVE  indent >= 2
<1>1. <<t, 1>> \in CallsOf(t, depth[t])
  BY DEF CallsOf, IndentInv, IndentTypes
<1>2. Held # {}
  BY <1>1, HeldIs
<1>3. Cardinality(Held) # 0
  BY <1>2, HeldFinite, FS_EmptySet DEF IndentInv, IndentTypes
<1> QED  BY <1>3, CountingIs

\* Where the threads are after one has moved.
LEMMA MovesIs ==
  ASSUME IndentInv, NEW t \in Threads, NEW from, NEW to, Moves(t, from, to)
  PROVE  /\ macro[t][1] = from /\ DOMAIN macro' = Threads /\ macro'[t] = to
         /\ \A u \in Threads : u # t => macro'[u] = macro[u]
BY DEF Moves, IndentInv, IndentTypes

\* No thread begins to indent: as many are at it as before, or one less.
LEMMA AddingIs ==
  ASSUME IndentInv, NEW t \in Threads, NEW from, NEW to, Moves(t, from, to)
  PROVE  Cardinality(Adding') = Cardinality(Adding)
             + (IF from = "add" THEN -1 ELSE 0) + (IF to[1] = "add" THEN 1 ELSE 0)
<1>1. /\ macro[t][1] = from /\ macro'[t] = to
      /\ \A u \in Threads : u # t => macro'[u] = macro[u]
  BY MovesIs
<1>2. CASE from = "add"
  <2>1. Adding \ {t} = Adding' \ {t} /\ t \in Adding
    BY <1>1, <1>2 DEF Adding
  <2>2. IsFiniteSet(Adding \ {t}) /\ Cardinality(Adding \ {t}) = Cardinality(Adding) - 1
    BY <2>1, AddingFinite, FS_RemoveElement
  <2>3. CASE to[1] = "add"
    <3>1. Adding' = Adding
      BY <1>1, <1>2, <2>3 DEF Adding
    <3> QED  BY <1>2, <2>3, <3>1, AddingFinite
  <2>4. CASE to[1] # "add"
    <3>1. Adding' = Adding \ {t}
      BY <1>1, <1>2, <2>4 DEF Adding
    <3> QED  BY <1>2, <2>2, <2>4, <3>1, AddingFinite
  <2> QED  BY <2>3, <2>4
<1>3. CASE from # "add"
  <2>1. CASE to[1] = "add"
    <3>1. Adding' = Adding \union {t} /\ t \notin Adding
      BY <1>1, <1>3, <2>1 DEF Adding
    <3>2. Cardinality(Adding \union {t}) = Cardinality(Adding) + 1
      BY <3>1, AddingFinite, FS_AddElement
    <3> QED  BY <1>3, <2>1, <3>1, <3>2, AddingFinite
  <2>2. CASE to[1] # "add"
    <3>1. Adding' = Adding
      BY <1>1, <1>3, <2>2 DEF Adding
    <3> QED  BY <1>3, <2>2, <3>1, AddingFinite
  <2> QED  BY <2>1, <2>2
<1> QED  BY <1>2, <1>3

\* A step that changes no number of calls, and how the buffer was left if it was.
LEMMA SameCounts ==
  ASSUME IndentInv, Cardinality(Adding') = Cardinality(Adding),
         UNCHANGED <<indent, depth, lost, peak>>,
         overrun' => overrun \/ 2 * IndentBy * peak - IndentBy > BufferSize
  PROVE  Counting'
<1>1. Held' = Held
  BY DEF Held
<1> QED  BY <1>1 DEF IndentInv, Counting, Calls

\* The counters that the invariant of the moving threads relates stay.
LEMMA SameMoving ==
  ASSUME IndentInv, NEW t \in Threads, NEW from, NEW to, Moves(t, from, to),
         UNCHANGED <<depth, peak>>,
         to[1] \in {"out", "add", "clear", "sub"}, to[1] = "out" => to = Out,
         to[1] \in {"clear", "sub"} => depth[t] > 0,
         to[1] = "clear" => to[2] \in IndentBy..(IndentBy * peak)
  PROVE  Moving'
BY MovesIs DEF IndentInv, Moving

\* More calls at a time explain what fewer explain; a write that leaves the buffer
\* at the counter is explained by the calls there are.
LEMMA PeakGrows ==
  ASSUME NEW p \in Nat, NEW q \in Nat, p <= q, NEW b \in Nat, 4 * p - 2 > b
  PROVE  4 * q - 2 > b
OBVIOUS

LEMMA PeakExplains ==
  ASSUME NEW q \in Nat, NEW b \in Nat, NEW c \in Nat, NEW i \in Nat,
         i <= 2 * c, c + 1 <= q, i + 1 > b - 1
  PROVE  4 * q - 2 > b
OBVIOUS

LEMMA IncWriteSound ==
  ASSUME IndentInv, NEW t \in Threads, IncWrite(t) PROVE IndentInv'
<1> DEFINE bytes == indent..(indent + 1)
<1>1. /\ Moves(t, "out", <<"add", 0>>) /\ Wrote(t, bytes, blanks \union bytes)
      /\ peak' = IF Calls < peak THEN peak ELSE Calls + 1
      /\ UNCHANGED <<indent, depth, lost>>
  BY DEF IncWrite, IndentBy
<1>2. /\ macro[t][1] = "out" /\ DOMAIN macro' = Threads /\ macro'[t] = <<"add", 0>>
      /\ \A u \in Threads : u # t => macro'[u] = macro[u]
  BY <1>1, MovesIs
<1>3. Cardinality(Adding') = Cardinality(Adding) + 1
  <2>1. <<"add", 0>>[1] = "add"
    OBVIOUS
  <2> QED  BY <1>1, <2>1, AddingIs, AddingFinite
<1>4. Held' = Held /\ Calls' = Calls + 1
  <2>1. Held' = Held
    BY <1>1 DEF Held
  <2> QED  BY <1>1, <1>3, <2>1, CountingIs DEF Calls
<1>5. Calls \in Nat /\ peak' \in Nat /\ peak' >= peak /\ peak' >= Calls + 1 /\ peak \in Nat
  BY <1>1, CountingIs
<1>6. IndentTypes'
  BY <1>1, <1>2, <1>5 DEF IndentInv, IndentTypes, Wrote, BufferBytes
<1>7. Moving'
  <2>1. ASSUME NEW u \in Threads, u # t PROVE
           macro[u][1] = "clear" => macro[u][2] \in IndentBy..(IndentBy * peak')
    BY <1>5 DEF IndentInv, Moving, IndentBy
  <2> QED  BY <1>1, <1>2, <2>1 DEF IndentInv, Moving
<1>8. Counting'
  <2>1. Calls' <= peak'
    BY <1>4, <1>5
  <2>2. indent' = IndentBy * (Cardinality(Held') + lost')
    BY <1>1, <1>4 DEF IndentInv, Counting
  <2>3. CASE overrun
    <3>1. 2 * IndentBy * peak - IndentBy > BufferSize
      BY <2>3 DEF IndentInv, Counting
    <3>2. \A p \in Nat : 2 * IndentBy * p - IndentBy = 4 * p - 2
      BY DEF IndentBy
    <3>3. 4 * peak' - 2 > BufferSize
      BY <1>5, <3>1, <3>2, PeakGrows, IndentAssumption
    <3>4. 2 * IndentBy * peak' - IndentBy > BufferSize
      BY <1>5, <3>2, <3>3
    <3> QED  BY <2>1, <2>2, <3>4 DEF Counting
  <2>4. CASE ~ overrun /\ overrun'
    <3>1. ~ bytes \subseteq BufferBytes
      BY <1>1, <2>4 DEF Wrote
    <3>2. indent + 1 > BufferSize - 1
      BY <3>1, CountingIs, IndentAssumption DEF BufferBytes
    <3>3. indent \in Nat /\ indent <= 2 * Calls
      BY CountingIs
    <3>4. 4 * peak' - 2 > BufferSize
      BY <1>5, <3>2, <3>3, PeakExplains, IndentAssumption
    <3>5. 2 * IndentBy * peak' - IndentBy > BufferSize
      BY <1>5, <3>4 DEF IndentBy
    <3> QED  BY <2>1, <2>2, <3>5 DEF Counting
  <2>5. CASE ~ overrun'
    BY <2>1, <2>2, <2>5 DEF Counting
  <2> QED  BY <2>3, <2>4, <2>5
<1>9. Shown'
  <2> SUFFICES ASSUME ~ overrun', ~ disturbed' PROVE Shown'
    BY DEF Shown
  <2>1. ~ overrun /\ ~ disturbed /\ bytes \subseteq BufferBytes /\ \A u \in Threads \ {t} : macro[u] = Out
    BY <1>1 DEF Wrote
  <2>2. macro[t] = Out
    BY <1>2 DEF IndentInv, Moving
  <2>3. blanks = 0..(indent - 1)
    BY <2>1, <2>2 DEF IndentInv, Shown
  <2>4. blanks' = 0..(indent + 1)
    BY <1>1, <2>1, <2>3, CountingIs DEF Wrote, IndentInv, IndentTypes
  <2> HIDE DEF bytes
  <2>5. Alone' /\ macro'[t] # Out
    BY <1>2, <2>1 DEF Alone, Out
  <2>6. blanks' = 0..(indent' + IndentBy - 1)
    BY <1>1, <2>4, CountingIs DEF IndentBy
  <2> QED  BY <1>2, <2>1, <2>5, <2>6 DEF Shown, Out
<1> QED  BY <1>6, <1>7, <1>8, <1>9 DEF IndentInv

LEMMA IncAddSound ==
  ASSUME IndentInv, NEW t \in Threads, IncAdd(t) PROVE IndentInv'
<1>1. /\ Moves(t, "add", Out) /\ indent' = indent + 2 /\ depth' = [depth EXCEPT ![t] = @ + 1]
      /\ UNCHANGED <<blanks, lost, overrun, peak, disturbed>>
  BY DEF IncAdd, IndentBy
<1>2. /\ macro[t][1] = "add" /\ DOMAIN macro' = Threads /\ macro'[t] = Out
      /\ \A u \in Threads : u # t => macro'[u] = macro[u]
  BY <1>1, MovesIs
<1>3. Cardinality(Adding') = Cardinality(Adding) - 1
  <2>1. Out[1] # "add"
    BY DEF Out
  <2> QED  BY <1>1, <2>1, AddingIs, AddingFinite
<1>4. Cardinality(Held') = Cardinality(Held) + 1
  BY <1>1, HeldMore DEF IndentInv, IndentTypes
<1>5. IndentTypes'
  BY <1>1, <1>2 DEF IndentInv, IndentTypes, BufferBytes
<1>6. Moving'
  BY <1>1, <1>2 DEF IndentInv, IndentTypes, Moving, Out
<1>7. Counting'
  <2>1. Calls' = Calls
    BY <1>1, <1>3, <1>4, CountingIs DEF Calls
  <2>2. indent' = IndentBy * (Cardinality(Held') + lost')
    BY <1>1, <1>4, CountingIs DEF IndentBy
  <2> QED  BY <1>1, <2>1, <2>2 DEF IndentInv, Counting
<1>8. Shown'
  <2> SUFFICES ASSUME ~ overrun', ~ disturbed' PROVE Shown'
    BY DEF Shown
  <2>1. macro[t] # Out
    BY <1>2 DEF Out
  <2>2. Alone /\ blanks = 0..(indent + IndentBy - 1)
    BY <1>1, <1>2 DEF IndentInv, Shown
  <2>3. \A u \in Threads : macro'[u] = Out
    BY <1>2, <2>1, <2>2 DEF Alone
  <2>4. blanks' = 0..(indent' - 1)
    BY <1>1, <2>2, CountingIs DEF IndentBy
  <2> QED  BY <2>3, <2>4 DEF Shown, Alone, Out
<1> QED  BY <1>5, <1>6, <1>7, <1>8 DEF IndentInv

LEMMA DecReadSound ==
  ASSUME IndentInv, NEW t \in Threads, DecRead(t) PROVE IndentInv'
<1>1. /\ depth[t] > 0 /\ Moves(t, "out", <<"clear", indent>>)
      /\ disturbed' = (disturbed \/ \E u \in Threads \ {t} : macro[u] # Out)
      /\ UNCHANGED <<indent, blanks, depth, lost, overrun, peak>>
  BY DEF DecRead
<1>2. /\ macro[t][1] = "out" /\ DOMAIN macro' = Threads /\ macro'[t] = <<"clear", indent>>
      /\ \A u \in Threads : u # t => macro'[u] = macro[u]
  BY <1>1, MovesIs
<1>3. Cardinality(Adding') = Cardinality(Adding)
  <2>1. <<"clear", indent>>[1] # "add"
    OBVIOUS
  <2> QED  BY <1>1, <2>1, AddingIs, AddingFinite
<1>4. IndentTypes'
  BY <1>1, <1>2 DEF IndentInv, IndentTypes, BufferBytes
<1>5. Moving'
  <2>1. indent \in IndentBy..(IndentBy * peak)
    BY <1>1, IndentedIs, CountingIs DEF IndentBy
  <2> QED  BY <1>1, <1>2, <2>1 DEF IndentInv, Moving
<1>6. Counting'
  BY <1>1, <1>3, SameCounts
<1>7. Shown'
  <2> SUFFICES ASSUME ~ overrun', ~ disturbed' PROVE Shown'
    BY DEF Shown
  <2>1. ~ overrun /\ ~ disturbed /\ \A u \in Threads \ {t} : macro[u] = Out
    BY <1>1
  <2>2. macro[t] = Out
    BY <1>2 DEF IndentInv, Moving
  <2>3. blanks' = 0..(indent' - 1)
    BY <1>1, <2>1, <2>2 DEF IndentInv, Shown
  <2>4. Alone' /\ macro'[t] # Out
    BY <1>2, <2>1 DEF Alone, Out
  <2> QED  BY <1>1, <1>2, <2>1, <2>3, <2>4 DEF Shown, Out
<1> QED  BY <1>4, <1>5, <1>6, <1>7 DEF IndentInv

LEMMA DecWriteSound ==
  ASSUME IndentInv, NEW t \in Threads, DecWrite(t) PROVE IndentInv'
<1>1. /\ Moves(t, "clear", <<"sub", 0>>) /\ UNCHANGED <<indent, depth, lost, peak>>
  BY DEF DecWrite
<1>2. PICK a, b : /\ \/ a = macro[t][2] /\ b = indent
                     \/ a = indent /\ b = macro[t][2]
                  /\ Wrote(t, (a - 2)..(a - 2 + b - 1), blanks \ ((a - 2)..(a - 2 + b - 1)))
  <2>1. PICK s \in {<<macro[t][2], indent>>, <<indent, macro[t][2]>>} :
          Wrote(t, (s[1] - 2)..(s[1] - 2 + s[2] - 1),
                blanks \ ((s[1] - 2)..(s[1] - 2 + s[2] - 1)))
    BY DEF DecWrite, IndentBy
  <2>2. \/ s[1] = macro[t][2] /\ s[2] = indent
        \/ s[1] = indent /\ s[2] = macro[t][2]
    OBVIOUS
  <2> QED  BY <2>1, <2>2
<1> DEFINE bytes == (a - 2)..(a - 2 + b - 1)
<1>3. /\ macro[t][1] = "clear" /\ DOMAIN macro' = Threads /\ macro'[t] = <<"sub", 0>>
      /\ \A u \in Threads : u # t => macro'[u] = macro[u]
  BY <1>1, MovesIs
<1>4. depth[t] > 0 /\ macro[t][2] \in 2..(2 * peak) /\ indent \in 2..(2 * peak) /\ peak \in Nat
  BY <1>3, IndentedIs, CountingIs DEF IndentInv, Moving, IndentBy
<1>5. Cardinality(Adding') = Cardinality(Adding)
  <2>1. <<"sub", 0>>[1] # "add"
    OBVIOUS
  <2> QED  BY <1>1, <2>1, AddingIs, AddingFinite
<1>6. IndentTypes'
  BY <1>1, <1>2, <1>3 DEF IndentInv, IndentTypes, Wrote, BufferBytes
<1>7. Moving'
  BY <1>1, <1>3, <1>4 DEF IndentInv, Moving
<1>8. Counting'
  <2>1. a \in 2..(2 * peak) /\ b \in 2..(2 * peak)
    BY <1>2, <1>4
  <2>2. ASSUME ~ bytes \subseteq BufferBytes PROVE 4 * peak - 2 > BufferSize
    <3>1. PICK k \in bytes : k \notin BufferBytes
      BY <2>2
    <3>2. k \in Int /\ k >= 0 /\ k <= 4 * peak - 3
      BY <1>4, <2>1, <3>1
    <3>3. k > BufferSize - 1
      BY <3>1, <3>2, IndentAssumption DEF BufferBytes
    <3> QED  BY <1>4, <3>2, <3>3, IndentAssumption
  <2>3. overrun' = (overrun \/ ~ bytes \subseteq BufferBytes)
    BY <1>2 DEF Wrote
  <2>4. 2 * IndentBy * peak - IndentBy = 4 * peak - 2
    BY <1>4 DEF IndentBy
  <2> HIDE DEF bytes
  <2>5. overrun' => overrun \/ 2 * IndentBy * peak - IndentBy > BufferSize
    BY <2>2, <2>3, <2>4
  <2> QED  BY <1>1, <1>5, <2>5, SameCounts
<1>9. Shown'
  <2> SUFFICES ASSUME ~ overrun', ~ disturbed' PROVE Shown'
    BY DEF Shown
  <2>1. ~ overrun /\ ~ disturbed /\ \A u \in Threads \ {t} : macro[u] = Out
    BY <1>2 DEF Wrote
  <2>2. macro[t][2] = indent /\ blanks = 0..(indent - 1)
    BY <1>3, <2>1 DEF IndentInv, Shown
  <2>3. bytes = (indent - 2)..(2 * indent - 3)
    BY <1>2, <1>4, <2>2
  <2>4. blanks' = 0..(indent - 3)
    <3>1. blanks' = (blanks \ bytes) \intersect BufferBytes /\ blanks \subseteq BufferBytes
      BY <1>2 DEF Wrote, IndentInv, IndentTypes
    <3> HIDE DEF bytes
    <3>2. ASSUME NEW k PROVE k \in blanks /\ k \notin bytes <=> k \in 0..(indent - 3)
      BY <1>4, <2>2, <2>3
    <3> QED  BY <3>1, <3>2
  <2>5. Alone' /\ macro'[t] # Out
    BY <1>3, <2>1 DEF Alone, Out
  <2>6. blanks' = 0..(indent' - IndentBy - 1)
    BY <1>1, <1>4, <2>4 DEF IndentBy
  <2> QED  BY <1>3, <2>1, <2>5, <2>6 DEF Shown, Out
<1> QED  BY <1>6, <1>7, <1>8, <1>9 DEF IndentInv

LEMMA DecSubSound ==
  ASSUME IndentInv, NEW t \in Threads, DecSub(t) PROVE IndentInv'
<1>1. /\ Moves(t, "sub", Out) /\ indent' = indent - 2 /\ depth' = [depth EXCEPT ![t] = @ - 1]
      /\ UNCHANGED <<blanks, lost, overrun, peak, disturbed>>
  BY DEF DecSub, IndentBy
<1>2. /\ macro[t][1] = "sub" /\ DOMAIN macro' = Threads /\ macro'[t] = Out
      /\ \A u \in Threads : u # t => macro'[u] = macro[u]
  BY <1>1, MovesIs
<1>3. Cardinality(Adding') = Cardinality(Adding)
  <2>1. Out[1] # "add"
    BY DEF Out
  <2> QED  BY <1>1, <2>1, AddingIs, AddingFinite
<1>4. depth[t] \in Nat /\ depth[t] > 0 /\ depth \in [Threads -> Nat]
  BY <1>2 DEF IndentInv, IndentTypes, Moving
<1>5. Cardinality(Held') = Cardinality(Held) - 1 /\ Cardinality(Held) >= 1
  <2>1. 1 \in Nat /\ 1 <= depth[t]
    BY <1>4
  <2> QED  BY <1>1, <1>4, <2>1, HeldLess
<1>6. IndentTypes'
  BY <1>1, <1>2, <1>4 DEF IndentInv, IndentTypes, BufferBytes
<1>7. Moving'
  BY <1>1, <1>2 DEF IndentInv, IndentTypes, Moving, Out
<1>8. Counting'
  <2>1. Calls' <= peak'
    BY <1>1, <1>3, <1>5, CountingIs DEF Calls
  <2>2. indent' = IndentBy * (Cardinality(Held') + lost')
    BY <1>1, <1>5, CountingIs DEF IndentBy
  <2> QED  BY <1>1, <2>1, <2>2 DEF IndentInv, Counting
<1>9. Shown'
  <2> SUFFICES ASSUME ~ overrun', ~ disturbed' PROVE Shown'
    BY DEF Shown
  <2>1. macro[t] # Out
    BY <1>2 DEF Out
  <2>2. Alone /\ blanks = 0..(indent - IndentBy - 1)
    BY <1>1, <1>2 DEF IndentInv, Shown
  <2>3. \A u \in Threads : macro'[u] = Out
    BY <1>2, <2>1, <2>2 DEF Alone
  <2>4. blanks' = 0..(indent' - 1)
    BY <1>1, <2>2, CountingIs DEF IndentBy
  <2> QED  BY <2>3, <2>4 DEF Shown, Alone, Out
<1> QED  BY <1>6, <1>7, <1>8, <1>9 DEF IndentInv

\* A thread that leaves calls behind is in no macro, and the others keep theirs.
LEMMA AbandonSound ==
  ASSUME IndentInv, NEW t \in Threads, NEW n, Abandon(t, n) PROVE IndentInv'
<1>1. /\ macro[t] = Out /\ n \in 1..depth[t] /\ depth' = [depth EXCEPT ![t] = @ - n]
      /\ lost' = lost + n /\ UNCHANGED <<indent, blanks, macro, overrun, peak, disturbed>>
  BY DEF Abandon
<1>2. depth[t] \in Nat /\ n \in Nat /\ n <= depth[t] /\ depth \in [Threads -> Nat]
  BY <1>1 DEF IndentInv, IndentTypes
<1>3. Cardinality(Held') = Cardinality(Held) - n /\ Cardinality(Held) >= n
  BY <1>1, <1>2, HeldLess
<1>4. IndentTypes'
  BY <1>1, <1>2 DEF IndentInv, IndentTypes, BufferBytes
<1>5. Moving'
  BY <1>1, <1>2 DEF IndentInv, IndentTypes, Moving, Out
<1>6. Counting'
  <2>1. Adding' = Adding
    BY <1>1 DEF Adding
  <2>2. Calls' = Calls /\ indent' = IndentBy * (Cardinality(Held') + lost')
    BY <1>1, <1>2, <1>3, <2>1, CountingIs DEF Calls, IndentBy
  <2> QED  BY <1>1, <2>2 DEF IndentInv, Counting
<1>7. Shown'
  BY <1>1 DEF IndentInv, Shown, Alone
<1> QED  BY <1>4, <1>5, <1>6, <1>7 DEF IndentInv

LEMMA ClearBufferSound ==
  ASSUME IndentInv, NEW t \in Threads, ClearBuffer(t) PROVE IndentInv'
<1>1. /\ macro[t] = Out /\ blanks' = {}
      /\ disturbed' = (disturbed \/ indent > 0 \/ \E u \in Threads \ {t} : macro[u] # Out)
      /\ UNCHANGED <<indent, macro, depth, lost, overrun, peak>>
  BY DEF ClearBuffer
<1>2. IndentTypes' /\ Moving'
  BY <1>1 DEF IndentInv, IndentTypes, Moving
<1>3. Counting'
  <2>1. Adding' = Adding
    BY <1>1 DEF Adding
  <2> QED  BY <1>1, <2>1, SameCounts
<1>4. Shown'
  <2> SUFFICES ASSUME ~ overrun', ~ disturbed' PROVE Shown'
    BY DEF Shown
  <2>1. ~ indent > 0 /\ (\A u \in Threads : macro[u] = Out) /\ macro' = macro
    BY <1>1
  <2>2. indent = 0
    BY <2>1, CountingIs
  <2>3. blanks' = 0..(indent' - 1)
    BY <1>1, <2>2
  <2> QED  BY <2>1, <2>3 DEF Shown, Alone, Out
<1> QED  BY <1>2, <1>3, <1>4 DEF IndentInv

LEMMA IndentInitSound == ASSUME IndentInit PROVE IndentInv
<1>1. /\ indent = 0 /\ blanks = {} /\ lost = 0 /\ overrun = FALSE /\ peak = 0 /\ disturbed = FALSE
      /\ DOMAIN macro = Threads /\ \A t \in Threads : macro[t] = Out
      /\ depth \in [Threads -> Nat] /\ \A t \in Threads : depth[t] = 0
  BY DEF IndentInit
<1>2. IndentTypes
  <2>1. overrun \in BOOLEAN /\ disturbed \in BOOLEAN /\ blanks \subseteq BufferBytes
    BY <1>1
  <2>2. indent \in Int /\ peak \in Nat /\ lost \in Nat
    BY <1>1
  <2> QED  BY <1>1, <2>1, <2>2 DEF IndentTypes
<1>6. Moving
  BY <1>1 DEF Moving, Out
<1>3. Held = {} /\ Adding = {}
  <2>1. \A t \in Threads : CallsOf(t, depth[t]) = {}
    BY <1>1 DEF CallsOf
  <2> QED  BY <1>1, <2>1, HeldIs DEF Adding, Out
<1>4. Counting
  BY <1>1, <1>3, FS_EmptySet DEF Counting, Calls, IndentBy
<1>5. Shown
  BY <1>1 DEF Shown, Alone, Out
<1> QED  BY <1>2, <1>4, <1>5, <1>6 DEF IndentInv

LEMMA IndentInductive == ASSUME IndentInv, [IndentNext]_indentVars PROVE IndentInv'
<1>1. ASSUME NEW t \in Threads,
             IncWrite(t) \/ IncAdd(t) \/ DecRead(t) \/ DecWrite(t) \/ DecSub(t) \/ ClearBuffer(t)
      PROVE  IndentInv'
  BY <1>1, IncWriteSound, IncAddSound, DecReadSound, DecWriteSound, DecSubSound, ClearBufferSound
<1>2. ASSUME NEW t \in Threads, NEW n, Abandon(t, n) PROVE IndentInv'
  BY <1>2, AbandonSound
<1>3. CASE UNCHANGED indentVars
  BY <1>3 DEF IndentInv, IndentTypes, Moving, Counting, Shown, Alone, Calls, Held, Adding, indentVars
<1> QED  BY <1>1, <1>2, <1>3 DEF IndentNext

-----------------------------------------------------------------------------

\* For any number of threads, any depth of calls and a buffer of any size: however
\* the macros interleave and whatever longjmp() leaves behind, the counter is
\* exact, and the buffer is left only where so many calls were active at a time
\* that twice the indentation, without the last call's, is longer than the buffer
\* (CommonMacros.hpp:6-15).
THEOREM IndentationIsSound == IndentSpec => []IndentSound
<1>1. IndentInit => IndentInv
  BY IndentInitSound
<1>2. IndentInv /\ [IndentNext]_indentVars => IndentInv'
  BY IndentInductive
<1>3. IndentInv => IndentSound
  BY DEF IndentInv, Counting, Shown, IndentSound
<1> QED  BY <1>1, <1>2, <1>3, PTL DEF IndentSpec

-----------------------------------------------------------------------------
(* CallStackSymbols                                                        *)

Frames == {Expected(kind, answer) : kind \in DOMAIN Lines, answer \in DOMAIN Answers}

\* The frame that a line has brought, among those that were made.
Place(i) == Cardinality({j \in KeptLines : j <= i})

\* What is known of a stack whose loop has come to a line.
LoopSound ==
  /\ trace \in Seq((DOMAIN Lines) \X (DOMAIN Answers))
  /\ index \in Nat /\ result \in Seq(Frames)
  /\ index <= StackOffset => index = 0 /\ trace = <<>> /\ result = <<>> /\ state = "run"

\* Every kept line that the loop has passed has its frame.
EachPlaced ==
  /\ Len(result) = Cardinality(KeptLines)
  /\ \A i \in KeptLines :
       /\ result[Place(i)] = Expected(trace[i][1], trace[i][2])
       /\ trace[i][2] \notin {"silent", "failed"}

\* Where the loop has ended, and why.
StopSound ==
  /\ state \in {"run", "done", "terminate", "throw"}
  /\ state \in {"terminate", "throw"} =>
       /\ index \in 1..Len(trace)
       /\ trace[index] \in Kept \X {IF state = "throw" THEN "failed" ELSE "silent"}
  /\ state = "done" => index > Len(trace)

\* The inductive invariant.
SymbolsInv == LoopSound /\ EachPlaced /\ StopSound

-----------------------------------------------------------------------------

\* The tokens of all texts.
Tokens == {"main", "(", "run", "+", "0x5", ")", Bracket, "0xabc", "]", "[", "f()", AtFile,
           "main.cpp", ":", "12", "\n", "??", "?", Gap, "0"}

\* The tokens that begin with a blank are different from the others.
LEMMA BlanksApart ==
  /\ AtFile # Gap /\ Bracket \notin {"main", "(", "run", "+", "0x5", ")", "[", "0xabc", "]"}
  /\ AtFile \notin {"f()", "main.cpp", ":", "12", "\n", "??", "?", "0"}
  /\ Gap \notin {"f()", "main.cpp", ":", "12", "\n", "??", "?", "0"}
BY Zenon DEF AtFile, Gap, Bracket

\* A text of n tokens.
Text(s, n) == s \in Seq(Tokens) /\ Len(s) = n

LEMMA MinIs ==
  ASSUME NEW S, NEW n \in S, \A y \in S : y \in Int /\ n <= y
  PROVE  Min(S) = n
<1>1. \E x \in S : \A y \in S : x <= y
  OBVIOUS
<1>2. Min(S) \in S /\ \A y \in S : Min(S) <= y
  BY <1>1, Zenon DEF Min
<1> QED  BY <1>2

\* find() returns the first place of a token, or npos.
LEMMA FindIs ==
  ASSUME NEW words, Len(words) \in Nat, NEW token, NEW pos \in Nat, pos < Len(words),
         words[pos + 1] = token, \A i \in 1..pos : words[i] # token
  PROVE  FindIn(words, token) = pos
<1> DEFINE hits == {i \in 1..Len(words) : words[i] = token}
<1>1. pos + 1 \in hits /\ \A i \in hits : i \in Int /\ pos + 1 <= i
  OBVIOUS
<1> HIDE DEF hits
<1>2. Min(hits) = pos + 1
  BY <1>1, MinIs
<1> QED  BY <1>1, <1>2 DEF FindIn, hits

LEMMA FindNone ==
  ASSUME NEW words, NEW token, \A i \in 1..Len(words) : words[i] # token
  PROVE  FindIn(words, token) = -1
BY DEF FindIn

LEMMA FindPairIs ==
  ASSUME NEW words, Len(words) \in Nat, NEW x, NEW y, NEW pos \in Nat, pos + 1 < Len(words),
         words[pos + 1] = x, words[pos + 2] = y, \A i \in 1..pos : words[i] # x
  PROVE  FindPair(words, x, y) = pos
<1> DEFINE hits == {i \in 1..(Len(words) - 1) : words[i] = x /\ words[i + 1] = y}
<1>1. pos + 1 \in hits /\ \A i \in hits : i \in Int /\ pos + 1 <= i
  OBVIOUS
<1> HIDE DEF hits
<1>2. Min(hits) = pos + 1
  BY <1>1, MinIs
<1>3. FindPair(words, x, y) = IF hits = {} THEN -1 ELSE Min(hits) - 1
  BY Zenon DEF FindPair, hits
<1> QED  BY <1>1, <1>2, <1>3

LEMMA FindPairNone ==
  ASSUME NEW words, NEW x, NEW y,
         \A i \in 1..(Len(words) - 1) : ~ (words[i] = x /\ words[i + 1] = y)
  PROVE  FindPair(words, x, y) = -1
BY DEF FindPair

\* substr() copies a part of the text.
LEMMA SubstrIs ==
  ASSUME NEW n \in Nat, NEW words, Text(words, n),
         NEW pos \in Nat, NEW len \in Nat, pos + len <= n,
         NEW r, Text(r, len), \A i \in 1..len : r[i] = words[pos + i]
  PROVE  SubstrOf(words, pos, len) = r
<1>1. /\ words \in Seq(Tokens) /\ Len(words) = n /\ r \in Seq(Tokens) /\ Len(r) = len
      /\ pos + len \in Int
  BY DEF Text
<1>2. Min({pos + len, Len(words)}) = pos + len
  <2> DEFINE S == {pos + len, Len(words)}
             m == pos + len
  <2>1. m \in S /\ \A y \in S : y \in Int /\ m <= y
    BY <1>1
  <2> HIDE DEF S, m
  <2>2. Min(S) = m
    BY <2>1, MinIs
  <2> QED  BY <2>2 DEF S, m
<1>3. SubstrOf(words, pos, len) = SubSeq(words, pos + 1, pos + len)
  <2>1. ~ len < 0
    BY <1>1
  <2> QED  BY <1>2, <2>1, Zenon DEF SubstrOf
<1>4. SubSeq(words, pos + 1, pos + len) = r
  <2> DEFINE q == SubSeq(words, pos + 1, pos + len)
  <2>1. q \in Seq(Tokens)
    BY <1>1
  <2>2. Len(q) = len
    BY <1>1
  <2>3. ASSUME NEW i \in 1..len PROVE q[i] = words[pos + i]
    <3>1. (pos + 1) + i - 1 = pos + i /\ i \in 1..((pos + len) + 1 - (pos + 1))
      OBVIOUS
    <3> QED  BY <1>1, <3>1
  <2> HIDE DEF q
  <2>4. q = r
    BY <1>1, <2>1, <2>2, <2>3, SeqEqual
  <2> QED  BY <2>4 DEF q
<1> QED  BY <1>3, <1>4


\* The places in a text that the lemmas below need.
LEMMA Finds ==
  ASSUME NEW n \in Nat, NEW s, Text(s, n), NEW x
  PROVE  /\ n >= 2 /\ s[1] # x /\ s[2] = x => FindIn(s, x) = 1
         /\ n >= 3 /\ s[1] # x /\ s[2] # x /\ s[3] = x => FindIn(s, x) = 2
         /\ n >= 4 /\ s[1] # x /\ s[2] # x /\ s[3] # x /\ s[4] = x => FindIn(s, x) = 3
         /\ n >= 5 /\ s[1] # x /\ s[2] # x /\ s[3] # x /\ s[4] # x /\ s[5] = x => FindIn(s, x) = 4
         /\ n >= 6 /\ s[1] # x /\ s[2] # x /\ s[3] # x /\ s[4] # x /\ s[5] # x /\ s[6] = x
           => FindIn(s, x) = 5
         /\ /\ n >= 7 /\ s[1] # x /\ s[2] # x /\ s[3] # x /\ s[4] # x
              /\ s[5] # x /\ s[6] # x /\ s[7] = x
           => FindIn(s, x) = 6
<1>0. Len(s) = n
  BY DEF Text
<1>1. ASSUME n >= 2, s[1] # x, s[2] = x
      PROVE  FindIn(s, x) = 1
  BY <1>0, <1>1, FindIs
<1>2. ASSUME n >= 3, s[1] # x, s[2] # x, s[3] = x
      PROVE  FindIn(s, x) = 2
  BY <1>0, <1>2, FindIs
<1>3. ASSUME n >= 4, s[1] # x, s[2] # x, s[3] # x, s[4] = x
      PROVE  FindIn(s, x) = 3
  BY <1>0, <1>3, FindIs
<1>4. ASSUME n >= 5, s[1] # x, s[2] # x, s[3] # x, s[4] # x, s[5] = x
      PROVE  FindIn(s, x) = 4
  BY <1>0, <1>4, FindIs
<1>5. ASSUME n >= 6, s[1] # x, s[2] # x, s[3] # x, s[4] # x, s[5] # x, s[6] = x
      PROVE  FindIn(s, x) = 5
  <2>1. \A i \in 1..5 : s[i] # x
    BY <1>5
  <2>2. 5 < n /\ s[5 + 1] = x /\ n \in Nat
    BY <1>5
  <2> QED  BY <1>0, <2>1, <2>2, FindIs
<1>6. ASSUME n >= 7, s[1] # x, s[2] # x, s[3] # x, s[4] # x, s[5] # x, s[6] # x, s[7] = x
      PROVE  FindIn(s, x) = 6
  <2>1. \A i \in 1..6 : s[i] # x
    BY <1>6
  <2>2. 6 < n /\ s[6 + 1] = x /\ n \in Nat
    BY <1>6
  <2> QED  BY <1>0, <2>1, <2>2, FindIs
<1> QED  BY <1>1, <1>2, <1>3, <1>4, <1>5, <1>6

LEMMA Cuts ==
  ASSUME NEW n \in Nat, NEW s, Text(s, n)
  PROVE  /\ n >= 3 => SubstrOf(s, 2, 1) = <<s[3]>>
         /\ n >= 6 => SubstrOf(s, 0, 6) = <<s[1], s[2], s[3], s[4], s[5], s[6]>>
         /\ n >= 5 => SubstrOf(s, 0, 5) = <<s[1], s[2], s[3], s[4], s[5]>>
         /\ n >= 4 => SubstrOf(s, 0, 4) = <<s[1], s[2], s[3], s[4]>>
         /\ n >= 3 => SubstrOf(s, 0, 3) = <<s[1], s[2], s[3]>>
         /\ n >= 1 => SubstrOf(s, 0, 1) = <<s[1]>>
         /\ n >= 6 => SubstrOf(s, 1, 5) = <<s[2], s[3], s[4], s[5], s[6]>>
         /\ n >= 5 => SubstrOf(s, 1, 4) = <<s[2], s[3], s[4], s[5]>>
         /\ n >= 3 => SubstrOf(s, 1, 2) = <<s[2], s[3]>>
         /\ n >= 4 => SubstrOf(s, 2, 2) = <<s[3], s[4]>>
         /\ n >= 5 => SubstrOf(s, 2, 3) = <<s[3], s[4], s[5]>>
         /\ n >= 4 => SubstrOf(s, 3, 1) = <<s[4]>>
         /\ n >= 5 => SubstrOf(s, 4, 1) = <<s[5]>>
<1>1. ASSUME n >= 3 PROVE SubstrOf(s, 2, 1) = <<s[3]>>
  <2> DEFINE pos == 2
             len == 1
             r == <<s[3]>>
  <2>1. pos \in Nat /\ len \in Nat /\ pos + len <= n
    BY <1>1
  <2>2. r[1] = s[3]
    OBVIOUS
  <2>3. s[3] \in Tokens
    BY <1>1 DEF Text
  <2>4. Text(r, len)
    BY <2>3 DEF Text
  <2> HIDE DEF r
  <2>5. \A i \in 1..len : r[i] = s[pos + i]
    BY <2>2
  <2> HIDE DEF pos, len
  <2>6. SubstrOf(s, pos, len) = r
    BY <2>1, <2>4, <2>5, SubstrIs
  <2> QED  BY <2>6 DEF pos, len, r
<1>2. ASSUME n >= 6 PROVE SubstrOf(s, 0, 6) = <<s[1], s[2], s[3], s[4], s[5], s[6]>>
  <2> DEFINE pos == 0
             len == 6
             r == <<s[1], s[2], s[3], s[4], s[5], s[6]>>
  <2>1. pos \in Nat /\ len \in Nat /\ pos + len <= n
    BY <1>2
  <2>2. r[1] = s[1] /\ r[2] = s[2] /\ r[3] = s[3] /\ r[4] = s[4] /\ r[5] = s[5] /\ r[6] = s[6]
    OBVIOUS
  <2>3. /\ s[1] \in Tokens /\ s[2] \in Tokens /\ s[3] \in Tokens /\ s[4] \in Tokens
        /\ s[5] \in Tokens /\ s[6] \in Tokens
    BY <1>2 DEF Text
  <2>4. Text(r, len)
    BY <2>3 DEF Text
  <2> HIDE DEF r
  <2>5. \A i \in 1..len : r[i] = s[pos + i]
    BY <2>2
  <2> HIDE DEF pos, len
  <2>6. SubstrOf(s, pos, len) = r
    BY <2>1, <2>4, <2>5, SubstrIs
  <2> QED  BY <2>6 DEF pos, len, r
<1>3. ASSUME n >= 5 PROVE SubstrOf(s, 0, 5) = <<s[1], s[2], s[3], s[4], s[5]>>
  <2> DEFINE pos == 0
             len == 5
             r == <<s[1], s[2], s[3], s[4], s[5]>>
  <2>1. pos \in Nat /\ len \in Nat /\ pos + len <= n
    BY <1>3
  <2>2. r[1] = s[1] /\ r[2] = s[2] /\ r[3] = s[3] /\ r[4] = s[4] /\ r[5] = s[5]
    OBVIOUS
  <2>3. s[1] \in Tokens /\ s[2] \in Tokens /\ s[3] \in Tokens /\ s[4] \in Tokens /\ s[5] \in Tokens
    BY <1>3 DEF Text
  <2>4. Text(r, len)
    BY <2>3 DEF Text
  <2> HIDE DEF r
  <2>5. \A i \in 1..len : r[i] = s[pos + i]
    BY <2>2
  <2> HIDE DEF pos, len
  <2>6. SubstrOf(s, pos, len) = r
    BY <2>1, <2>4, <2>5, SubstrIs
  <2> QED  BY <2>6 DEF pos, len, r
<1>4. ASSUME n >= 4 PROVE SubstrOf(s, 0, 4) = <<s[1], s[2], s[3], s[4]>>
  <2> DEFINE pos == 0
             len == 4
             r == <<s[1], s[2], s[3], s[4]>>
  <2>1. pos \in Nat /\ len \in Nat /\ pos + len <= n
    BY <1>4
  <2>2. r[1] = s[1] /\ r[2] = s[2] /\ r[3] = s[3] /\ r[4] = s[4]
    OBVIOUS
  <2>3. s[1] \in Tokens /\ s[2] \in Tokens /\ s[3] \in Tokens /\ s[4] \in Tokens
    BY <1>4 DEF Text
  <2>4. Text(r, len)
    BY <2>3 DEF Text
  <2> HIDE DEF r
  <2>5. \A i \in 1..len : r[i] = s[pos + i]
    BY <2>2
  <2> HIDE DEF pos, len
  <2>6. SubstrOf(s, pos, len) = r
    BY <2>1, <2>4, <2>5, SubstrIs
  <2> QED  BY <2>6 DEF pos, len, r
<1>5. ASSUME n >= 3 PROVE SubstrOf(s, 0, 3) = <<s[1], s[2], s[3]>>
  <2> DEFINE pos == 0
             len == 3
             r == <<s[1], s[2], s[3]>>
  <2>1. pos \in Nat /\ len \in Nat /\ pos + len <= n
    BY <1>5
  <2>2. r[1] = s[1] /\ r[2] = s[2] /\ r[3] = s[3]
    OBVIOUS
  <2>3. s[1] \in Tokens /\ s[2] \in Tokens /\ s[3] \in Tokens
    BY <1>5 DEF Text
  <2>4. Text(r, len)
    BY <2>3 DEF Text
  <2> HIDE DEF r
  <2>5. \A i \in 1..len : r[i] = s[pos + i]
    BY <2>2
  <2> HIDE DEF pos, len
  <2>6. SubstrOf(s, pos, len) = r
    BY <2>1, <2>4, <2>5, SubstrIs
  <2> QED  BY <2>6 DEF pos, len, r
<1>6. ASSUME n >= 1 PROVE SubstrOf(s, 0, 1) = <<s[1]>>
  <2> DEFINE pos == 0
             len == 1
             r == <<s[1]>>
  <2>1. pos \in Nat /\ len \in Nat /\ pos + len <= n
    BY <1>6
  <2>2. r[1] = s[1]
    OBVIOUS
  <2>3. s[1] \in Tokens
    BY <1>6 DEF Text
  <2>4. Text(r, len)
    BY <2>3 DEF Text
  <2> HIDE DEF r
  <2>5. \A i \in 1..len : r[i] = s[pos + i]
    BY <2>2
  <2> HIDE DEF pos, len
  <2>6. SubstrOf(s, pos, len) = r
    BY <2>1, <2>4, <2>5, SubstrIs
  <2> QED  BY <2>6 DEF pos, len, r
<1>7. ASSUME n >= 6 PROVE SubstrOf(s, 1, 5) = <<s[2], s[3], s[4], s[5], s[6]>>
  <2> DEFINE pos == 1
             len == 5
             r == <<s[2], s[3], s[4], s[5], s[6]>>
  <2>1. pos \in Nat /\ len \in Nat /\ pos + len <= n
    BY <1>7
  <2>2. r[1] = s[2] /\ r[2] = s[3] /\ r[3] = s[4] /\ r[4] = s[5] /\ r[5] = s[6]
    OBVIOUS
  <2>3. s[2] \in Tokens /\ s[3] \in Tokens /\ s[4] \in Tokens /\ s[5] \in Tokens /\ s[6] \in Tokens
    BY <1>7 DEF Text
  <2>4. Text(r, len)
    BY <2>3 DEF Text
  <2> HIDE DEF r
  <2>5. \A i \in 1..len : r[i] = s[pos + i]
    BY <2>2
  <2> HIDE DEF pos, len
  <2>6. SubstrOf(s, pos, len) = r
    BY <2>1, <2>4, <2>5, SubstrIs
  <2> QED  BY <2>6 DEF pos, len, r
<1>8. ASSUME n >= 5 PROVE SubstrOf(s, 1, 4) = <<s[2], s[3], s[4], s[5]>>
  <2> DEFINE pos == 1
             len == 4
             r == <<s[2], s[3], s[4], s[5]>>
  <2>1. pos \in Nat /\ len \in Nat /\ pos + len <= n
    BY <1>8
  <2>2. r[1] = s[2] /\ r[2] = s[3] /\ r[3] = s[4] /\ r[4] = s[5]
    OBVIOUS
  <2>3. s[2] \in Tokens /\ s[3] \in Tokens /\ s[4] \in Tokens /\ s[5] \in Tokens
    BY <1>8 DEF Text
  <2>4. Text(r, len)
    BY <2>3 DEF Text
  <2> HIDE DEF r
  <2>5. \A i \in 1..len : r[i] = s[pos + i]
    BY <2>2
  <2> HIDE DEF pos, len
  <2>6. SubstrOf(s, pos, len) = r
    BY <2>1, <2>4, <2>5, SubstrIs
  <2> QED  BY <2>6 DEF pos, len, r
<1>9. ASSUME n >= 3 PROVE SubstrOf(s, 1, 2) = <<s[2], s[3]>>
  <2> DEFINE pos == 1
             len == 2
             r == <<s[2], s[3]>>
  <2>1. pos \in Nat /\ len \in Nat /\ pos + len <= n
    BY <1>9
  <2>2. r[1] = s[2] /\ r[2] = s[3]
    OBVIOUS
  <2>3. s[2] \in Tokens /\ s[3] \in Tokens
    BY <1>9 DEF Text
  <2>4. Text(r, len)
    BY <2>3 DEF Text
  <2> HIDE DEF r
  <2>5. \A i \in 1..len : r[i] = s[pos + i]
    BY <2>2
  <2> HIDE DEF pos, len
  <2>6. SubstrOf(s, pos, len) = r
    BY <2>1, <2>4, <2>5, SubstrIs
  <2> QED  BY <2>6 DEF pos, len, r
<1>10. ASSUME n >= 4 PROVE SubstrOf(s, 2, 2) = <<s[3], s[4]>>
  <2> DEFINE pos == 2
             len == 2
             r == <<s[3], s[4]>>
  <2>1. pos \in Nat /\ len \in Nat /\ pos + len <= n
    BY <1>10
  <2>2. r[1] = s[3] /\ r[2] = s[4]
    OBVIOUS
  <2>3. s[3] \in Tokens /\ s[4] \in Tokens
    BY <1>10 DEF Text
  <2>4. Text(r, len)
    BY <2>3 DEF Text
  <2> HIDE DEF r
  <2>5. \A i \in 1..len : r[i] = s[pos + i]
    BY <2>2
  <2> HIDE DEF pos, len
  <2>6. SubstrOf(s, pos, len) = r
    BY <2>1, <2>4, <2>5, SubstrIs
  <2> QED  BY <2>6 DEF pos, len, r
<1>11. ASSUME n >= 5 PROVE SubstrOf(s, 2, 3) = <<s[3], s[4], s[5]>>
  <2> DEFINE pos == 2
             len == 3
             r == <<s[3], s[4], s[5]>>
  <2>1. pos \in Nat /\ len \in Nat /\ pos + len <= n
    BY <1>11
  <2>2. r[1] = s[3] /\ r[2] = s[4] /\ r[3] = s[5]
    OBVIOUS
  <2>3. s[3] \in Tokens /\ s[4] \in Tokens /\ s[5] \in Tokens
    BY <1>11 DEF Text
  <2>4. Text(r, len)
    BY <2>3 DEF Text
  <2> HIDE DEF r
  <2>5. \A i \in 1..len : r[i] = s[pos + i]
    BY <2>2
  <2> HIDE DEF pos, len
  <2>6. SubstrOf(s, pos, len) = r
    BY <2>1, <2>4, <2>5, SubstrIs
  <2> QED  BY <2>6 DEF pos, len, r
<1>12. ASSUME n >= 4 PROVE SubstrOf(s, 3, 1) = <<s[4]>>
  <2> DEFINE pos == 3
             len == 1
             r == <<s[4]>>
  <2>1. pos \in Nat /\ len \in Nat /\ pos + len <= n
    BY <1>12
  <2>2. r[1] = s[4]
    OBVIOUS
  <2>3. s[4] \in Tokens
    BY <1>12 DEF Text
  <2>4. Text(r, len)
    BY <2>3 DEF Text
  <2> HIDE DEF r
  <2>5. \A i \in 1..len : r[i] = s[pos + i]
    BY <2>2
  <2> HIDE DEF pos, len
  <2>6. SubstrOf(s, pos, len) = r
    BY <2>1, <2>4, <2>5, SubstrIs
  <2> QED  BY <2>6 DEF pos, len, r
<1>13. ASSUME n >= 5 PROVE SubstrOf(s, 4, 1) = <<s[5]>>
  <2> DEFINE pos == 4
             len == 1
             r == <<s[5]>>
  <2>1. pos \in Nat /\ len \in Nat /\ pos + len <= n
    BY <1>13
  <2>2. r[1] = s[5]
    OBVIOUS
  <2>3. s[5] \in Tokens
    BY <1>13 DEF Text
  <2>4. Text(r, len)
    BY <2>3 DEF Text
  <2> HIDE DEF r
  <2>5. \A i \in 1..len : r[i] = s[pos + i]
    BY <2>2
  <2> HIDE DEF pos, len
  <2>6. SubstrOf(s, pos, len) = r
    BY <2>1, <2>4, <2>5, SubstrIs
  <2> QED  BY <2>6 DEF pos, len, r
<1> QED  BY <1>1, <1>2, <1>3, <1>4, <1>5, <1>6, <1>7, <1>8, <1>9, <1>10, <1>11, <1>12, <1>13

\* The rest of a text from its third token, which is the last one.
LEMMA RestIs ==
  ASSUME NEW s, Text(s, 3)
  PROVE  SubstrOf(s, 2, -1) = <<s[3]>>
<1>1. SubstrOf(s, 2, 1) = <<s[3]>>
  BY Cuts
<1>2. Min({2 + 1, Len(s)}) = 3
  <2> DEFINE S == {2 + 1, Len(s)}
  <2>1. 3 \in S /\ \A y \in S : y \in Int /\ 3 <= y
    BY DEF Text
  <2> HIDE DEF S
  <2>2. Min(S) = 3
    BY <2>1, MinIs
  <2> QED  BY <2>2 DEF S
<1>3. SubstrOf(s, 2, 1) = SubSeq(s, 2 + 1, 3)
  BY <1>2 DEF SubstrOf
<1>4. SubstrOf(s, 2, -1) = SubSeq(s, 2 + 1, 3)
  BY DEF SubstrOf, Text
<1> QED  BY <1>1, <1>3, <1>4

-----------------------------------------------------------------------------

\* What the two compilers' branches find in each kind of line: the file, and the
\* offset or the address.
LEMMA ClangExported == ClangSymbol(Lines["exported"]) = <<<<"main">>, <<"+", "0x5">>>>
<1> DEFINE line   == Lines["exported"]
           file   == <<"main", "(", "run", "+", "0x5", ")">>
           inside == <<"(", "run", "+", "0x5", ")">>
<1>1. /\ Text(line, 9)
      /\ line[1] = "main" /\ line[2] = "(" /\ line[3] = "run" /\ line[4] = "+"
      /\ line[5] = "0x5" /\ line[6] = ")" /\ line[7] = Bracket /\ line[8] = "0xabc"
      /\ line[9] = "]"
  BY DEF Lines, Text, Tokens
<1>2. /\ Text(file, 6)
      /\ file[1] = "main" /\ file[2] = "(" /\ file[3] = "run" /\ file[4] = "+"
      /\ file[5] = "0x5" /\ file[6] = ")"
  BY DEF Text, Tokens
<1>3. /\ Text(inside, 5)
      /\ inside[1] = "(" /\ inside[2] = "run" /\ inside[3] = "+" /\ inside[4] = "0x5"
      /\ inside[5] = ")"
  BY DEF Text, Tokens
<1> HIDE DEF line
<1>4. FindIn(line, Bracket) = 6 /\ SubstrOf(line, 0, 6) = file
  <2>1. FindIn(line, Bracket) = 6
    BY <1>1, BlanksApart, Finds
  <2>2. SubstrOf(line, 0, 6) = <<line[1], line[2], line[3], line[4], line[5], line[6]>>
    BY <1>1, Cuts
  <2> QED  BY <1>1, <2>1, <2>2
<1> HIDE DEF file
<1>5. /\ FindIn(file, "(") = 1 /\ FindIn(file, ")") = 5 /\ SubstrOf(file, 0, 1) = <<"main">>
      /\ SubstrOf(file, 1, 5) = inside
  BY <1>2, Finds, Cuts
<1> HIDE DEF inside
<1>6. FindIn(inside, "+") = 2 /\ FindIn(inside, ")") = 4 /\ SubstrOf(inside, 2, 2) = <<"+", "0x5">>
  BY <1>3, Finds, Cuts
<1>7. ClangSymbol(line) = <<SubstrOf(file, 0, 1), SubstrOf(inside, 2, 2)>>
  <2>1. 6 # -1 /\ 1 # -1 /\ 5 # -1 /\ 2 # -1 /\ 5 - 1 + 1 = 5 /\ 4 - 2 = 2
    OBVIOUS
  <2>2. SubstrOf(inside, 2, 2) # <<>>
    BY <1>6
  <2> QED  BY <1>4, <1>5, <1>6, <2>1, <2>2, Zenon DEF ClangSymbol
<1> QED  BY <1>5, <1>6, <1>7 DEF line

LEMMA ClangLocal == ClangSymbol(Lines["local"]) = <<<<"main">>, <<"+", "0x5">>>>
<1> DEFINE line   == Lines["local"]
           file   == <<"main", "(", "+", "0x5", ")">>
           inside == <<"(", "+", "0x5", ")">>
<1>1. /\ Text(line, 8)
      /\ line[1] = "main" /\ line[2] = "(" /\ line[3] = "+" /\ line[4] = "0x5" /\ line[5] = ")"
      /\ line[6] = Bracket /\ line[7] = "0xabc" /\ line[8] = "]"
  BY DEF Lines, Text, Tokens
<1>2. /\ Text(file, 5)
      /\ file[1] = "main" /\ file[2] = "(" /\ file[3] = "+" /\ file[4] = "0x5" /\ file[5] = ")"
  BY DEF Text, Tokens
<1>3. /\ Text(inside, 4)
      /\ inside[1] = "(" /\ inside[2] = "+" /\ inside[3] = "0x5" /\ inside[4] = ")"
  BY DEF Text, Tokens
<1> HIDE DEF line
<1>4. FindIn(line, Bracket) = 5 /\ SubstrOf(line, 0, 5) = file
  <2>1. FindIn(line, Bracket) = 5
    BY <1>1, BlanksApart, Finds
  <2>2. SubstrOf(line, 0, 5) = <<line[1], line[2], line[3], line[4], line[5]>>
    BY <1>1, Cuts
  <2> QED  BY <1>1, <2>1, <2>2
<1> HIDE DEF file
<1>5. /\ FindIn(file, "(") = 1 /\ FindIn(file, ")") = 4 /\ SubstrOf(file, 0, 1) = <<"main">>
      /\ SubstrOf(file, 1, 4) = inside
  BY <1>2, Finds, Cuts
<1> HIDE DEF inside
<1>6. FindIn(inside, "+") = 1 /\ FindIn(inside, ")") = 3 /\ SubstrOf(inside, 1, 2) = <<"+", "0x5">>
  BY <1>3, Finds, Cuts
<1>7. ClangSymbol(line) = <<SubstrOf(file, 0, 1), SubstrOf(inside, 1, 2)>>
  <2>1. 5 # -1 /\ 1 # -1 /\ 4 # -1 /\ 1 # -1 /\ 4 - 1 + 1 = 4 /\ 3 - 1 = 2
    OBVIOUS
  <2>2. SubstrOf(inside, 1, 2) # <<>>
    BY <1>6
  <2> QED  BY <1>4, <1>5, <1>6, <2>1, <2>2, Zenon DEF ClangSymbol
<1> QED  BY <1>5, <1>6, <1>7 DEF line

LEMMA ClangStatic == ClangSymbol(Lines["static"]) = <<<<"main">>, <<"0xabc">>>>
<1> DEFINE line   == Lines["static"]
           file   == <<"main", "(", ")">>
           inside == <<"(", ")">>
<1>1. /\ Text(line, 6)
      /\ line[1] = "main" /\ line[2] = "(" /\ line[3] = ")" /\ line[4] = Bracket
      /\ line[5] = "0xabc" /\ line[6] = "]"
  BY DEF Lines, Text, Tokens
<1>2. /\ Text(file, 3)
      /\ file[1] = "main" /\ file[2] = "(" /\ file[3] = ")"
  BY DEF Text, Tokens
<1>3. /\ Text(inside, 2)
      /\ inside[1] = "(" /\ inside[2] = ")"
  BY DEF Text, Tokens
<1> HIDE DEF line
<1>4. FindIn(line, Bracket) = 3 /\ SubstrOf(line, 0, 3) = file
  <2>1. FindIn(line, Bracket) = 3
    BY <1>1, BlanksApart, Finds
  <2>2. SubstrOf(line, 0, 3) = <<line[1], line[2], line[3]>>
    BY <1>1, Cuts
  <2> QED  BY <1>1, <2>1, <2>2
<1> HIDE DEF file
<1>5. /\ FindIn(file, "(") = 1 /\ FindIn(file, ")") = 2 /\ SubstrOf(file, 0, 1) = <<"main">>
      /\ SubstrOf(file, 1, 2) = inside
  BY <1>2, Finds, Cuts
<1> HIDE DEF inside
<1>6. FindIn(inside, "+") = -1
  <2>1. \A i \in 1..Len(inside) : inside[i] # "+"
    BY <1>3 DEF Text
  <2> QED  BY <2>1, FindNone
<1>7. FindIn(line, "]") = 5 /\ SubstrOf(line, 4, 1) = <<"0xabc">>
  BY <1>1, BlanksApart, Finds, Cuts
<1>8. ClangSymbol(line) = <<SubstrOf(file, 0, 1), SubstrOf(line, 4, 1)>>
  <2>1. 3 # -1 /\ 1 # -1 /\ 2 # -1 /\ 2 - 1 + 1 = 2 /\ 3 + 1 = 4 /\ 5 - 4 = 1
    OBVIOUS
  <2> QED  BY <1>4, <1>5, <1>6, <1>7, <2>1, Zenon DEF ClangSymbol
<1> QED  BY <1>5, <1>7, <1>8 DEF line

LEMMA ClangForeign == ClangSymbol(Lines["foreign"]) = NoSymbol
<1> DEFINE line == Lines["foreign"]
<1>1. /\ Text(line, 3)
      /\ line[1] = "[" /\ line[2] = "0xabc" /\ line[3] = "]"
  BY DEF Lines, Text, Tokens
<1> HIDE DEF line
<1>2. \A i \in 1..Len(line) : line[i] # Bracket
  BY <1>1, BlanksApart DEF Text
<1>3. FindIn(line, Bracket) = -1
  BY <1>2, FindNone
<1>4. ClangSymbol(line) = NoSymbol
  BY <1>3, Zenon DEF ClangSymbol
<1> QED  BY <1>4 DEF line

LEMMA GccExported == GccSymbol(Lines["exported"]) = NoSymbol
<1> DEFINE line == Lines["exported"]
<1>1. /\ Text(line, 9)
      /\ line[1] = "main" /\ line[2] = "(" /\ line[3] = "run" /\ line[4] = "+"
      /\ line[5] = "0x5" /\ line[6] = ")" /\ line[7] = Bracket /\ line[8] = "0xabc"
      /\ line[9] = "]"
  BY DEF Lines, Text, Tokens
<1> HIDE DEF line
<1>2. \A i \in 1..(Len(line) - 1) : ~ (line[i] = "(" /\ line[i + 1] = "+")
  BY <1>1, BlanksApart DEF Text
<1>3. FindPair(line, "(", "+") = -1
  BY <1>2, FindPairNone
<1>4. GccSymbol(line) = NoSymbol
  BY <1>3, Zenon DEF GccSymbol
<1> QED  BY <1>4 DEF line

LEMMA GccStatic == GccSymbol(Lines["static"]) = NoSymbol
<1> DEFINE line == Lines["static"]
<1>1. /\ Text(line, 6)
      /\ line[1] = "main" /\ line[2] = "(" /\ line[3] = ")" /\ line[4] = Bracket
      /\ line[5] = "0xabc" /\ line[6] = "]"
  BY DEF Lines, Text, Tokens
<1> HIDE DEF line
<1>2. \A i \in 1..(Len(line) - 1) : ~ (line[i] = "(" /\ line[i + 1] = "+")
  BY <1>1, BlanksApart DEF Text
<1>3. FindPair(line, "(", "+") = -1
  BY <1>2, FindPairNone
<1>4. GccSymbol(line) = NoSymbol
  BY <1>3, Zenon DEF GccSymbol
<1> QED  BY <1>4 DEF line

LEMMA GccForeign == GccSymbol(Lines["foreign"]) = NoSymbol
<1> DEFINE line == Lines["foreign"]
<1>1. /\ Text(line, 3)
      /\ line[1] = "[" /\ line[2] = "0xabc" /\ line[3] = "]"
  BY DEF Lines, Text, Tokens
<1> HIDE DEF line
<1>2. \A i \in 1..(Len(line) - 1) : ~ (line[i] = "(" /\ line[i + 1] = "+")
  BY <1>1, BlanksApart DEF Text
<1>3. FindPair(line, "(", "+") = -1
  BY <1>2, FindPairNone
<1>4. GccSymbol(line) = NoSymbol
  BY <1>3, Zenon DEF GccSymbol
<1> QED  BY <1>4 DEF line

LEMMA GccLocal == GccSymbol(Lines["local"]) = <<<<"main">>, <<"0x5">>>>
<1> DEFINE line == Lines["local"]
<1>1. /\ Text(line, 8)
      /\ line[1] = "main" /\ line[2] = "(" /\ line[3] = "+" /\ line[4] = "0x5" /\ line[5] = ")"
      /\ line[6] = Bracket /\ line[7] = "0xabc" /\ line[8] = "]"
  BY DEF Lines, Text, Tokens
<1> HIDE DEF line
<1>2. FindPair(line, "(", "+") = 1
  <2>1. \A i \in 1..1 : line[i] # "("
    BY <1>1
  <2> QED  BY <1>1, <2>1, FindPairIs DEF Text
<1>3. FindPair(line, ")", Bracket) = 4
  <2>1. \A i \in 1..4 : line[i] # ")"
    BY <1>1
  <2>2. /\ 4 \in Nat /\ Len(line) \in Nat /\ 4 + 1 < Len(line)
        /\ line[4 + 1] = ")" /\ line[4 + 2] = Bracket
    BY <1>1 DEF Text
  <2> QED  BY <2>1, <2>2, FindPairIs
<1>4. SubstrOf(line, 0, 1) = <<"main">> /\ SubstrOf(line, 3, 1) = <<"0x5">>
  BY <1>1, Cuts
<1>5. GccSymbol(line) = <<SubstrOf(line, 0, 1), SubstrOf(line, 3, 1)>>
  <2>1. 1 # -1 /\ 1 + 2 = 3 /\ 4 - 3 = 1
    OBVIOUS
  <2> QED  BY <1>2, <1>3, <2>1, Zenon DEF GccSymbol
<1> QED  BY <1>4, <1>5 DEF line

\* What the answers of addr2line make of them.
LEMMA SourceIs ==
  ASSUME NEW file, NEW offset
  PROVE  /\ Parsable(Answers["source"])
         /\ Parse(Answers["source"], file, offset)
              = [function |-> <<"f()">>, file |-> <<"main.cpp">>, line |-> <<"12">>]
<1> DEFINE out      == Answers["source"]
           location == <<"main.cpp", ":", "12">>
<1>1. /\ Text(out, 6)
      /\ out[1] = "f()" /\ out[2] = AtFile /\ out[3] = "main.cpp" /\ out[4] = ":"
      /\ out[5] = "12" /\ out[6] = "\n"
  BY DEF Answers, Text, Tokens
<1>2. /\ Text(location, 3)
      /\ location[1] = "main.cpp" /\ location[2] = ":" /\ location[3] = "12"
  BY DEF Text, Tokens
<1> HIDE DEF out
<1>3. FindIn(out, AtFile) = 1
  BY <1>1, BlanksApart, Finds
<1>4. FindIn(out, "\n") = 5 /\ SubstrOf(out, 0, 1) = <<"f()">> /\ SubstrOf(out, 2, 3) = location
  <2>1. FindIn(out, "\n") = 5
    BY <1>1, BlanksApart, Finds
  <2> QED  BY <1>1, <2>1, Cuts
<1> HIDE DEF location
<1>5. /\ FindIn(location, ":") = 1 /\ SubstrOf(location, 0, 1) = <<"main.cpp">>
      /\ SubstrOf(location, 2, -1) = <<"12">>
  BY <1>2, Finds, Cuts, RestIs
<1>6. 1 # -1 /\ 1 + 1 = 2 /\ 5 - 2 = 3
  OBVIOUS
<1>7. Parsable(out)
  BY <1>3, <1>6, Zenon DEF Parsable
<1>8. Parse(out, file, offset)
        = [function |-> IF <<"f()">> = <<"??">> THEN <<"unknown_symbol[", "??", "]">>
                        ELSE <<"f()">>,
           file     |-> IF <<"main.cpp">> = <<"??">> THEN file ELSE <<"main.cpp">>,
           line     |-> IF <<"12">> \in {<<"?">>, <<"0">>} THEN offset ELSE <<"12">>]
  BY <1>3, <1>4, <1>5, <1>6, Zenon DEF Parse
<1>9. <<"f()">> # <<"??">> /\ <<"main.cpp">> # <<"??">> /\ <<"12">> \notin {<<"?">>, <<"0">>}
  OBVIOUS
<1> QED  BY <1>7, <1>8, <1>9, Zenon DEF out

LEMMA FunctionIs ==
  ASSUME NEW file, NEW offset
  PROVE  /\ Parsable(Answers["function"])
         /\ Parse(Answers["function"], file, offset)
              = [function |-> <<"f()">>, file |-> file, line |-> offset]
<1> DEFINE out      == Answers["function"]
           location == <<"??", ":", "?">>
<1>1. /\ Text(out, 6)
      /\ out[1] = "f()" /\ out[2] = AtFile /\ out[3] = "??" /\ out[4] = ":" /\ out[5] = "?"
      /\ out[6] = "\n"
  BY DEF Answers, Text, Tokens
<1>2. /\ Text(location, 3)
      /\ location[1] = "??" /\ location[2] = ":" /\ location[3] = "?"
  BY DEF Text, Tokens
<1> HIDE DEF out
<1>3. FindIn(out, AtFile) = 1
  BY <1>1, BlanksApart, Finds
<1>4. FindIn(out, "\n") = 5 /\ SubstrOf(out, 0, 1) = <<"f()">> /\ SubstrOf(out, 2, 3) = location
  <2>1. FindIn(out, "\n") = 5
    BY <1>1, BlanksApart, Finds
  <2> QED  BY <1>1, <2>1, Cuts
<1> HIDE DEF location
<1>5. /\ FindIn(location, ":") = 1 /\ SubstrOf(location, 0, 1) = <<"??">>
      /\ SubstrOf(location, 2, -1) = <<"?">>
  BY <1>2, Finds, Cuts, RestIs
<1>6. 1 # -1 /\ 1 + 1 = 2 /\ 5 - 2 = 3
  OBVIOUS
<1>7. Parsable(out)
  BY <1>3, <1>6, Zenon DEF Parsable
<1>8. Parse(out, file, offset)
        = [function |-> IF <<"f()">> = <<"??">> THEN <<"unknown_symbol[", "??", "]">>
                        ELSE <<"f()">>,
           file     |-> IF <<"??">> = <<"??">> THEN file ELSE <<"??">>,
           line     |-> IF <<"?">> \in {<<"?">>, <<"0">>} THEN offset ELSE <<"?">>]
  BY <1>3, <1>4, <1>5, <1>6, Zenon DEF Parse
<1>9. <<"f()">> # <<"??">> /\ <<"main.cpp">> # <<"??">> /\ <<"12">> \notin {<<"?">>, <<"0">>}
  OBVIOUS
<1> QED  BY <1>7, <1>8, <1>9, Zenon DEF out

LEMMA NothingIs ==
  ASSUME NEW file, NEW offset
  PROVE  /\ Parsable(Answers["nothing"])
         /\ Parse(Answers["nothing"], file, offset)
              = [function |-> <<"unknown_symbol[", "??", "]">>, file |-> file, line |-> offset]
<1> DEFINE out      == Answers["nothing"]
           location == <<"??", ":", "0">>
<1>1. /\ Text(out, 6)
      /\ out[1] = "??" /\ out[2] = Gap /\ out[3] = "??" /\ out[4] = ":" /\ out[5] = "0"
      /\ out[6] = "\n"
  BY DEF Answers, Text, Tokens
<1>2. /\ Text(location, 3)
      /\ location[1] = "??" /\ location[2] = ":" /\ location[3] = "0"
  BY DEF Text, Tokens
<1> HIDE DEF out
<1>3. FindIn(out, AtFile) = -1 /\ FindIn(out, Gap) = 1
  <2>1. \A i \in 1..Len(out) : out[i] # AtFile
    BY <1>1, BlanksApart DEF Text
  <2> QED  BY <1>1, <2>1, BlanksApart, Finds, FindNone
<1>4. FindIn(out, "\n") = 5 /\ SubstrOf(out, 0, 1) = <<"??">> /\ SubstrOf(out, 2, 3) = location
  <2>1. FindIn(out, "\n") = 5
    BY <1>1, BlanksApart, Finds
  <2> QED  BY <1>1, <2>1, Cuts
<1> HIDE DEF location
<1>5. /\ FindIn(location, ":") = 1 /\ SubstrOf(location, 0, 1) = <<"??">>
      /\ SubstrOf(location, 2, -1) = <<"0">>
  BY <1>2, Finds, Cuts, RestIs
<1>6. 1 # -1 /\ 1 + 1 = 2 /\ 5 - 2 = 3
  OBVIOUS
<1>7. Parsable(out)
  BY <1>3, <1>6, Zenon DEF Parsable
<1>8. Parse(out, file, offset)
        = [function |-> IF <<"??">> = <<"??">> THEN <<"unknown_symbol[", "??", "]">>
                        ELSE <<"??">>,
           file     |-> IF <<"??">> = <<"??">> THEN file ELSE <<"??">>,
           line     |-> IF <<"0">> \in {<<"?">>, <<"0">>} THEN offset ELSE <<"0">>]
  BY <1>3, <1>4, <1>5, <1>6, Zenon DEF Parse
<1>9. <<"f()">> # <<"??">> /\ <<"main.cpp">> # <<"??">> /\ <<"12">> \notin {<<"?">>, <<"0">>}
  OBVIOUS
<1> QED  BY <1>7, <1>8, <1>9, Zenon DEF out

LEMMA SilentIs == ~ Parsable(Answers["silent"])
<1>1. Answers["silent"] = <<>>
  BY DEF Answers
<1>2. \A i \in 1..Len(<<>>) : FALSE
  OBVIOUS
<1>3. \A x : FindIn(Answers["silent"], x) = -1
  BY <1>1, <1>2, FindNone
<1> QED  BY <1>3 DEF Parsable

-----------------------------------------------------------------------------

\* A line has a symbol if it is kept, and then the one that Expected() tells.
LEMMA SymbolIs ==
  ASSUME NEW kind \in DOMAIN Lines
  PROVE  /\ kind \notin Kept => Symbol(Lines[kind]) = NoSymbol
         /\ kind \in Kept => Symbol(Lines[kind]) = <<<<"main">>, OffsetOf(kind)>>
<1>1. kind \in {"exported", "local", "static", "foreign"}
  BY DEF Lines
<1>2. CASE compiler = "clang"
  <2>1. Symbol(Lines[kind]) = ClangSymbol(Lines[kind]) /\ Kept = {"exported", "local", "static"}
    BY <1>2 DEF Symbol, Kept
  <2>2. OffsetOf(kind) = IF kind = "static" THEN <<"0xabc">> ELSE <<"+", "0x5">>
    BY <1>2 DEF OffsetOf
  <2>3. CASE kind = "exported"   BY <2>1, <2>2, <2>3, ClangExported
  <2>4. CASE kind = "local"      BY <2>1, <2>2, <2>4, ClangLocal
  <2>5. CASE kind = "static"     BY <2>1, <2>2, <2>5, ClangStatic
  <2>6. CASE kind = "foreign"    BY <2>1, <2>6, ClangForeign
  <2> QED  BY <1>1, <2>3, <2>4, <2>5, <2>6
<1>3. CASE compiler # "clang"
  <2>1. Symbol(Lines[kind]) = GccSymbol(Lines[kind]) /\ Kept = {"local"}
    BY <1>3 DEF Symbol, Kept
  <2>2. kind = "local" => OffsetOf(kind) = <<"0x5">>
    BY <1>3 DEF OffsetOf
  <2>3. CASE kind = "exported"   BY <2>1, <2>3, GccExported
  <2>4. CASE kind = "local"      BY <2>1, <2>2, <2>4, GccLocal
  <2>5. CASE kind = "static"     BY <2>1, <2>5, GccStatic
  <2>6. CASE kind = "foreign"    BY <2>1, <2>6, GccForeign
  <2> QED  BY <1>1, <2>3, <2>4, <2>5, <2>6
<1> QED  BY <1>2, <1>3

LEMMA KeptHasSymbol ==
  ASSUME NEW kind \in DOMAIN Lines
  PROVE  Symbol(Lines[kind]) = NoSymbol <=> kind \notin Kept
<1>1. \A x, y : <<x, y>> # <<>>
  OBVIOUS
<1> QED  BY <1>1, SymbolIs DEF NoSymbol

LEMMA ParsableIs ==
  ASSUME NEW answer \in DOMAIN Answers
  PROVE  Parsable(Answers[answer]) <=> answer \notin {"silent", "failed"}
<1>1. answer \in {"source", "function", "nothing", "silent", "failed"}
  BY DEF Answers
<1>2. Answers["failed"] = Answers["silent"]
  BY DEF Answers
<1>3. CASE answer = "source"     BY <1>3, SourceIs
<1>4. CASE answer = "function"   BY <1>4, FunctionIs
<1>5. CASE answer = "nothing"    BY <1>5, NothingIs
<1>6. CASE answer = "silent"     BY <1>6, SilentIs
<1>7. CASE answer = "failed"     BY <1>2, <1>7, SilentIs
<1> QED  BY <1>1, <1>3, <1>4, <1>5, <1>6, <1>7

\* The frame that a line and an answer make is the one they belong to.
LEMMA ParseIs ==
  ASSUME NEW kind \in DOMAIN Lines, kind \in Kept,
         NEW answer \in DOMAIN Answers, answer \notin {"silent", "failed"}
  PROVE  Parse(Answers[answer], Symbol(Lines[kind])[1], Symbol(Lines[kind])[2])
           = Expected(kind, answer)
<1> DEFINE symbol == Symbol(Lines[kind])
<1>1. symbol = <<<<"main">>, OffsetOf(kind)>>
  BY SymbolIs
<1>2. answer # "source" => Expected(kind, answer).line = OffsetOf(kind)
  BY DEF Expected
<1> HIDE DEF symbol
<1>3. symbol[1] = <<"main">> /\ symbol[2] = OffsetOf(kind)
  BY <1>1
<1>4. answer \in {"source", "function", "nothing"}
  BY DEF Answers
<1>5. CASE answer = "source"
  <2>1. Parse(Answers[answer], symbol[1], symbol[2])
          = [function |-> <<"f()">>, file |-> <<"main.cpp">>, line |-> <<"12">>]
    BY <1>5, SourceIs
  <2> QED  BY <1>5, <2>1 DEF Expected, symbol
<1>6. CASE answer = "function"
  <2>1. Parse(Answers[answer], symbol[1], symbol[2])
          = [function |-> <<"f()">>, file |-> <<"main">>, line |-> OffsetOf(kind)]
    BY <1>3, <1>6, FunctionIs
  <2> QED  BY <1>2, <1>6, <2>1 DEF Expected, symbol
<1>7. CASE answer = "nothing"
  <2>1. Parse(Answers[answer], symbol[1], symbol[2])
          = [function |-> <<"unknown_symbol[", "??", "]">>,
             file |-> <<"main">>, line |-> OffsetOf(kind)]
    BY <1>3, <1>7, NothingIs
  <2> QED  BY <1>2, <1>7, <2>1 DEF Expected, symbol
<1> QED  BY <1>4, <1>5, <1>6, <1>7

-----------------------------------------------------------------------------

\* The line that the loop is at.
LEMMA LineIs ==
  ASSUME SymbolsInv, index \in 1..Len(trace)
  PROVE  /\ trace[index] \in (DOMAIN Lines) \X (DOMAIN Answers)
         /\ trace[index][1] \in DOMAIN Lines /\ trace[index][2] \in DOMAIN Answers
         /\ StackOffset < index /\ index \notin KeptLines /\ \A i \in KeptLines : i < index
BY StackAssumption DEF SymbolsInv, LoopSound, KeptLines

LEMMA KeptFinite ==
  ASSUME SymbolsInv
  PROVE  IsFiniteSet(KeptLines) /\ Cardinality(KeptLines) \in Nat
<1>1. Len(trace) \in Int /\ 1 \in Int
  BY DEF SymbolsInv, LoopSound
<1>2. IsFiniteSet(1..Len(trace)) /\ KeptLines \in SUBSET (1..Len(trace))
  BY <1>1, FS_Interval DEF KeptLines
<1> QED  BY <1>2, FS_Subset, FS_CardinalityType

LEMMA BacktraceSound == ASSUME SymbolsInv, Backtrace PROVE SymbolsInv'
<1>1. /\ index = 0 /\ index' = StackOffset + 1 /\ state' = "run" /\ result' = result
      /\ result = <<>> /\ trace' \in Seq((DOMAIN Lines) \X (DOMAIN Answers))
  BY StackAssumption DEF SymbolsInv, LoopSound, Backtrace
<1>2. KeptLines' = {}
  BY <1>1, StackAssumption DEF KeptLines
<1>3. LoopSound'
  BY <1>1, StackAssumption DEF SymbolsInv, LoopSound
<1>4. EachPlaced'
  BY <1>1, <1>2, FS_EmptySet DEF EachPlaced
<1> QED  BY <1>1, <1>3, <1>4 DEF SymbolsInv, StopSound

\* A step that passes no kept line leaves the places as they are.
LEMMA SamePlaces ==
  ASSUME SymbolsInv, KeptLines' = KeptLines, UNCHANGED <<compiler, trace, result>>
  PROVE  EachPlaced'
<1>1. \A i : Place(i)' = Place(i)
  BY DEF Place
<1> QED  BY <1>1 DEF SymbolsInv, EachPlaced, Expected, OffsetOf

LEMMA SkipSound == ASSUME SymbolsInv, Skip PROVE SymbolsInv'
<1>1. /\ state = "run" /\ index \in 1..Len(trace) /\ index' = index + 1
      /\ UNCHANGED <<compiler, trace, result, state>>
      /\ trace[index][1] \notin Kept
  BY LineIs, KeptHasSymbol DEF Skip
<1>2. KeptLines' = KeptLines
  BY <1>1 DEF KeptLines, Kept
<1>3. LoopSound'
  BY <1>1, StackAssumption DEF SymbolsInv, LoopSound, Frames, Expected, OffsetOf
<1> QED  BY <1>1, <1>2, <1>3, SamePlaces DEF SymbolsInv, StopSound

LEMMA ResolveSound == ASSUME SymbolsInv, Resolve PROVE SymbolsInv'
<1> DEFINE line  == trace[index]
           frame == Expected(line[1], line[2])
<1>1. /\ state = "run" /\ index \in 1..Len(trace) /\ index' = index + 1
      /\ UNCHANGED <<compiler, trace, state>>
  BY DEF Resolve
<1>2. line[1] \in DOMAIN Lines /\ line[2] \in DOMAIN Answers
  BY <1>1, LineIs
<1>3. line[1] \in Kept /\ line[2] \notin {"silent", "failed"}
  BY <1>2, KeptHasSymbol, ParsableIs DEF Resolve
<1>4. result' = Append(result, frame)
  BY <1>2, <1>3, ParseIs DEF Resolve
<1>5. frame \in Frames /\ result \in Seq(Frames) /\ Len(result) \in Nat
  BY <1>2 DEF SymbolsInv, LoopSound, Frames
<1>6. /\ KeptLines' = KeptLines \union {index}
      /\ index \notin KeptLines /\ \A i \in KeptLines : i < index
  BY <1>1, <1>3, LineIs DEF KeptLines, Kept
<1>7. /\ \A k, a : Expected(k, a)' = Expected(k, a)
      /\ Frames' = Frames
  BY <1>1 DEF Expected, OffsetOf, Frames
<1> HIDE DEF frame
<1>8. /\ result' \in Seq(Frames) /\ Len(result') = Len(result) + 1
      /\ result'[Len(result) + 1] = frame /\ \A k \in 1..Len(result) : result'[k] = result[k]
  BY <1>4, <1>5
<1>9. LoopSound'
  BY <1>1, <1>7, <1>8, LineIs, StackAssumption DEF SymbolsInv, LoopSound
<1>10. Cardinality(KeptLines') = Cardinality(KeptLines) + 1
  BY <1>6, KeptFinite, FS_AddElement
<1>11. Len(result) = Cardinality(KeptLines)
  BY DEF SymbolsInv, EachPlaced
<1>12. ASSUME NEW i \in KeptLines
       PROVE  /\ result'[Place(i)'] = Expected(trace[i][1], trace[i][2])
              /\ trace[i][2] \notin {"silent", "failed"}
  <2>1. {j \in KeptLines' : j <= i} = {j \in KeptLines : j <= i}
    BY <1>1, <1>6 DEF KeptLines
  <2>2. Place(i)' = Place(i)
    BY <2>1 DEF Place
  <2>3. Place(i) \in 1..Len(result)
    <3> DEFINE T == {j \in KeptLines : j <= i}
    <3>1. T \in SUBSET KeptLines /\ i \in T
      BY DEF KeptLines
    <3> HIDE DEF T
    <3>2. IsFiniteSet(T) /\ Cardinality(T) <= Cardinality(KeptLines)
      BY <3>1, KeptFinite, FS_Subset
    <3>3. Cardinality(T) \in Nat /\ Cardinality(T) # 0
      BY <3>1, <3>2, FS_CardinalityType, FS_EmptySet
    <3>4. Place(i) = Cardinality(T)
      BY DEF Place, T
    <3> QED  BY <1>5, <1>11, <3>2, <3>3, <3>4
  <2>4. /\ result[Place(i)] = Expected(trace[i][1], trace[i][2])
        /\ trace[i][2] \notin {"silent", "failed"}
    BY DEF SymbolsInv, EachPlaced
  <2> QED  BY <1>8, <2>2, <2>3, <2>4
<1>13. result'[Cardinality({j \in KeptLines' : j <= index})] = frame
  <2>1. {j \in KeptLines' : j <= index} = KeptLines'
    BY <1>1, <1>6 DEF KeptLines
  <2>2. Cardinality({j \in KeptLines' : j <= index}) = Len(result) + 1
    BY <1>10, <1>11, <2>1
  <2> QED  BY <1>8, <2>2
<1>14. ASSUME NEW i, i = index
       PROVE  result'[Place(i)'] = frame
  BY <1>13, <1>14 DEF Place
<1>15. ASSUME NEW i \in KeptLines'
       PROVE  /\ result'[Place(i)'] = Expected(trace[i][1], trace[i][2])'
              /\ trace'[i][2] \notin {"silent", "failed"}
  <2>1. i \in KeptLines \/ i = index
    BY <1>6
  <2>2. trace' = trace /\ Expected(trace[i][1], trace[i][2])' = Expected(trace[i][1], trace[i][2])
    BY <1>1 DEF Expected, OffsetOf
  <2>3. CASE i \in KeptLines
    BY <1>12, <2>2, <2>3
  <2>4. CASE i = index
    BY <1>3, <1>14, <2>2, <2>4 DEF frame
  <2> QED  BY <2>1, <2>3, <2>4
<1>16. EachPlaced'
  BY <1>8, <1>10, <1>11, <1>15 DEF EachPlaced
<1> QED  BY <1>1, <1>9, <1>16 DEF SymbolsInv, StopSound

LEMMA FailToResolveSound == ASSUME SymbolsInv, FailToResolve PROVE SymbolsInv'
<1>1. /\ state = "run" /\ index \in 1..Len(trace)
      /\ UNCHANGED <<compiler, trace, index, result>>
  BY DEF FailToResolve
<1>2. /\ trace[index] \in (DOMAIN Lines) \X (DOMAIN Answers)
      /\ trace[index][1] \in Kept
  BY <1>1, LineIs, KeptHasSymbol DEF FailToResolve
<1>3. \/ state' = "throw" /\ trace[index][2] = "failed"
      \/ state' = "terminate" /\ trace[index][2] = "silent"
  BY <1>1, LineIs, ParsableIs DEF FailToResolve
<1>4. trace[index] \in Kept \X {IF state' = "throw" THEN "failed" ELSE "silent"}
  BY <1>2, <1>3
<1>5. LoopSound'
  BY <1>1, LineIs DEF SymbolsInv, LoopSound, Frames, Expected, OffsetOf
<1>6. KeptLines' = KeptLines /\ Kept' = Kept
  BY <1>1 DEF KeptLines, Kept
<1>7. StopSound'
  BY <1>1, <1>3, <1>4, <1>6 DEF StopSound
<1> QED  BY <1>1, <1>5, <1>6, <1>7, SamePlaces DEF SymbolsInv

LEMMA ReturnStackSound == ASSUME SymbolsInv, ReturnStack PROVE SymbolsInv'
<1>1. /\ state' = "done" /\ index > Len(trace) /\ index > 0
      /\ UNCHANGED <<compiler, trace, index, result>>
  BY DEF ReturnStack
<1>2. KeptLines' = KeptLines
  BY <1>1 DEF KeptLines, Kept
<1>3. index > StackOffset
  BY <1>1, StackAssumption DEF SymbolsInv, LoopSound
<1>4. LoopSound'
  BY <1>1, <1>3, StackAssumption DEF SymbolsInv, LoopSound, Frames, Expected, OffsetOf
<1> QED  BY <1>1, <1>2, <1>4, SamePlaces DEF SymbolsInv, StopSound

LEMMA SymbolsInitSound == SymbolsInit => SymbolsInv
<1> SUFFICES ASSUME SymbolsInit PROVE SymbolsInv
  OBVIOUS
<1>1. KeptLines = {} /\ LoopSound /\ StopSound
  BY StackAssumption DEF SymbolsInit, KeptLines, LoopSound, StopSound
<1> QED  BY <1>1, FS_EmptySet DEF SymbolsInit, SymbolsInv, EachPlaced

LEMMA SymbolsInductive == SymbolsInv /\ [SymbolsNext]_symbolVars => SymbolsInv'
<1> SUFFICES ASSUME SymbolsInv, [SymbolsNext]_symbolVars PROVE SymbolsInv'
  OBVIOUS
<1>1. CASE Backtrace      BY <1>1, BacktraceSound
<1>2. CASE Skip           BY <1>2, SkipSound
<1>3. CASE Resolve        BY <1>3, ResolveSound
<1>4. CASE FailToResolve  BY <1>4, FailToResolveSound
<1>5. CASE ReturnStack    BY <1>5, ReturnStackSound
<1>6. CASE UNCHANGED symbolVars
  <2>1. UNCHANGED <<compiler, trace, index, result, state>>
    BY <1>6 DEF symbolVars
  <2>2. KeptLines' = KeptLines /\ Kept' = Kept
    BY <2>1 DEF KeptLines, Kept
  <2>3. EachPlaced'
    BY <2>1, <2>2, SamePlaces
  <2> QED  BY <2>1, <2>2, <2>3 DEF SymbolsInv, LoopSound, StopSound, Frames, Expected, OffsetOf
<1> QED  BY <1>1, <1>2, <1>3, <1>4, <1>5, <1>6 DEF SymbolsNext

\* The frames of a call stack are those of its kept lines, in order, and only
\* an addr2line that says nothing or is not run keeps the function from
\* returning them: get_call_stack_entries(), for stacks of any depth.
THEOREM FramesAreSound == SymbolsSpec => []FramesSound
<1>1. ASSUME SymbolsInv, state = "done",
             NEW i \in 1..Len(trace), StackOffset < i, trace[i][1] \in Kept
      PROVE  trace[i][2] \notin {"silent", "failed"}
  <2>1. index \in Nat /\ Len(trace) \in Nat /\ index > Len(trace)
    BY <1>1 DEF SymbolsInv, LoopSound, StopSound
  <2>2. i \in KeptLines
    BY <1>1, <2>1 DEF KeptLines
  <2> QED  BY <1>1, <2>2 DEF SymbolsInv, EachPlaced
<1>2. SymbolsInv => FramesSound
  BY <1>1 DEF SymbolsInv, EachPlaced, StopSound, FramesSound, Place
<1> QED  BY <1>2, SymbolsInitSound, SymbolsInductive, PTL DEF SymbolsSpec

=============================================================================
