------------------------- MODULE SignalGuardProofs -------------------------
(***************************************************************************)
(* Proofs about SignalGuard, for every program, every set of threads and   *)
(* every number of interrupts: the contexts that longjmp is given are      *)
(* sound, and the mutex of the handler is never lost.                      *)
(***************************************************************************)
EXTENDS SignalGuard, SequenceTheorems, TLAPS

\* Handlers sit on top of the code they interrupt, and run nothing but
\* themselves.  Only a guarded function saves a context.
Shape(s) ==
  /\ \A h \in 1..Len(s) : s[h].fn = Handler <=> s[h].pc \in HandlerPCs
  /\ \A h, k \in 1..Len(s) : h < k /\ s[h].fn = Handler => s[k].fn = Handler
  /\ \A h \in 1..Len(s) : s[h].pc \in {"begin", "pushing"} => s[h].fn \in Guarded

\* Whatever interrupts an activation that holds the mutex has not locked it.
Waiting(s) ==
  \A h, k \in 1..Len(s) :
    h < k /\ InCriticalSection(s[h]) => s[k].pc \in {"unblock", "lock"}

Sound(s, j) == ContextsSound(s, j) /\ Shape(s) /\ Waiting(s)

Holds(s) == \E h \in 1..Len(s) : InCriticalSection(s[h])

\* The inductive invariant.  A thread that does not exist yet has no state.
IInv == /\ TypeOK
        /\ \A t \in Threads : /\ Sound(stack[t], jump[t])
                              /\ holder = t <=> Holds(stack[t])
                              /\ life[t] = "unborn" => stack[t] = <<>>

-----------------------------------------------------------------------------
(* What the updates of a stack do to its elements *)

LEMMA SetTopLemma ==
  ASSUME stack \in [Threads -> Seq(Frames)], NEW t \in Threads, stack[t] # <<>>,
         NEW r \in Frames, SetTop(t, r)
  PROVE  /\ stack' \in [Threads -> Seq(Frames)]
         /\ Len(stack'[t]) = Len(stack[t])
         /\ \A i \in 1..(Len(stack[t]) - 1) : stack'[t][i] = stack[t][i]
         /\ stack'[t][Len(stack[t])] = r
         /\ \A u \in Threads : u # t => stack'[u] = stack[u]
BY DEF SetTop, Depth

LEMMA PushLemma ==
  ASSUME stack \in [Threads -> Seq(Frames)], NEW t \in Threads,
         NEW r \in Frames, Push(t, r)
  PROVE  /\ stack' \in [Threads -> Seq(Frames)]
         /\ Len(stack'[t]) = Len(stack[t]) + 1
         /\ \A i \in 1..Len(stack[t]) : stack'[t][i] = stack[t][i]
         /\ stack'[t][Len(stack[t]) + 1] = r
         /\ \A u \in Threads : u # t => stack'[u] = stack[u]
BY DEF Push

LEMMA FrontLemma ==
  ASSUME NEW S, NEW s \in Seq(S), s # <<>>
  PROVE  /\ SubSeq(s, 1, Len(s) - 1) \in Seq(S)
         /\ Len(SubSeq(s, 1, Len(s) - 1)) = Len(s) - 1
         /\ \A i \in 1..(Len(s) - 1) : SubSeq(s, 1, Len(s) - 1)[i] = s[i]
<1>1. \A i \in 1..(Len(s) - 1) : s[i] \in S
  <2>1. Len(s) \in Nat /\ \A i \in 1..Len(s) : s[i] \in S
    BY LenProperties
  <2> QED  BY <2>1
<1>2. Len(s) \in Nat /\ Len(s) >= 1
  OBVIOUS
<1> DEFINE n == Len(s) - 1
<1>3. n \in Int /\ 1 \in Int /\ \A i \in 1..n : s[i] \in S
  BY <1>1, <1>2
<1> HIDE DEF n
<1>4. /\ SubSeq(s, 1, n) \in Seq(S)
      /\ Len(SubSeq(s, 1, n)) = IF 1 <= n THEN n - 1 + 1 ELSE 0
      /\ \A i \in 1..(n - 1 + 1) : SubSeq(s, 1, n)[i] = s[1 + i - 1]
  BY <1>3, SubSeqProperties
<1>5. n - 1 + 1 = n /\ n >= 0 /\ \A i \in 1..n : 1 + i - 1 = i
  BY <1>2 DEF n
<1>6. n \in Int /\ SubSeq(s, 1, n) \in Seq(S) /\ Len(SubSeq(s, 1, n)) = n
      /\ \A i \in 1..n : SubSeq(s, 1, n)[i] = s[i]
  BY <1>3, <1>4, <1>5
<1> QED  BY <1>6 DEF n

LEMMA PopLemma ==
  ASSUME stack \in [Threads -> Seq(Frames)], NEW t \in Threads, stack[t] # <<>>,
         Pop(t)
  PROVE  /\ stack' \in [Threads -> Seq(Frames)]
         /\ Len(stack'[t]) = Len(stack[t]) - 1
         /\ \A i \in 1..(Len(stack[t]) - 1) : stack'[t][i] = stack[t][i]
         /\ \A u \in Threads : u # t => stack'[u] = stack[u]
<1> DEFINE z == SubSeq(stack[t], 1, Len(stack[t]) - 1)
<1>1. /\ z \in Seq(Frames) /\ Len(z) = Len(stack[t]) - 1
      /\ \A i \in 1..(Len(stack[t]) - 1) : z[i] = stack[t][i]
  BY FrontLemma
<1>2. stack' = [stack EXCEPT ![t] = z]  BY DEF Pop, Depth
<1> HIDE DEF z
<1> QED  BY <1>1, <1>2

-----------------------------------------------------------------------------
(* The stacks and contexts of one thread: s and j before, z and j after *)

\* Replacing the innermost activation by one that is no less armed, takes no
\* context and stays on its side of the handler.
LEMMA ReplaceLemma ==
  ASSUME NEW s \in Seq(Frames), NEW z \in Seq(Frames), NEW j \in Seq(Nat),
         s # <<>>, Len(z) = Len(s),
         \A i \in 1..(Len(s) - 1) : z[i] = s[i],
         ContextsSound(s, j), Shape(s),
         z[Len(s)].fn = s[Len(s)].fn,
         z[Len(s)].pc \in HandlerPCs <=> s[Len(s)].pc \in HandlerPCs,
         Armed(s[Len(s)]) => Armed(z[Len(s)]),
         HasTarget(z[Len(s)]) => /\ HasTarget(s[Len(s)])
                                 /\ z[Len(s)].target = s[Len(s)].target,
         z[Len(s)].pc \in {"begin", "pushing"} => z[Len(s)].fn \in Guarded
  PROVE  ContextsSound(z, j) /\ Shape(z)
<1>1. Shape(z)
  <2>1. \A h \in 1..Len(s) : /\ z[h].fn = s[h].fn
                             /\ z[h].pc \in HandlerPCs <=> s[h].pc \in HandlerPCs
    OBVIOUS
  <2>2. \A h \in 1..Len(s) : z[h].pc \in {"begin", "pushing"} => z[h].fn \in Guarded
    BY DEF Shape
  <2>3. ASSUME NEW h \in 1..Len(z) PROVE z[h].fn = Handler <=> z[h].pc \in HandlerPCs
    <3>1. h \in 1..Len(s)
      OBVIOUS
    <3>2. s[h].fn = Handler <=> s[h].pc \in HandlerPCs
      BY <3>1 DEF Shape
    <3> QED  BY <2>1, <3>1, <3>2, Zenon
  <2>4. \A h, k \in 1..Len(z) : h < k /\ z[h].fn = Handler => z[k].fn = Handler
    BY <2>1 DEF Shape
  <2> QED  BY <2>2, <2>3, <2>4 DEF Shape
<1>2. \A d \in 1..Len(s) : Armed(s[d]) => Armed(z[d])
  OBVIOUS
<1>3. \A h \in 1..Len(z) : HasTarget(z[h]) => HasTarget(s[h]) /\ z[h].target = s[h].target
  OBVIOUS
<1>4. ContextsSound(z, j)
  <2>1. \A i \in 1..Len(j) : j[i] \in 1..Len(z) /\ Armed(z[j[i]])
    BY <1>2 DEF ContextsSound
  <2>2. \A i, k \in 1..Len(j) : i < k => j[i] < j[k]
    BY DEF ContextsSound
  <2>3. ASSUME NEW h \in 1..Len(z), HasTarget(z[h])
        PROVE  /\ z[h].target \in 1..(h - 1)
               /\ Armed(z[z[h].target])
               /\ \A i \in 1..Len(j) : j[i] < z[h].target
    <3>1. HasTarget(s[h]) /\ z[h].target = s[h].target
      BY <1>3, <2>3
    <3>2. /\ s[h].target \in 1..(h - 1)
          /\ Armed(s[s[h].target])
          /\ \A i \in 1..Len(j) : j[i] < s[h].target
      BY <3>1 DEF ContextsSound
    <3>3. s[h].target \in 1..Len(s)
      BY <3>2
    <3>4. Armed(z[s[h].target])
      BY <1>2, <3>2, <3>3
    <3> QED  BY <3>1, <3>2, <3>4
  <2> QED  BY <2>1, <2>2, <2>3 DEF ContextsSound
<1> QED  BY <1>1, <1>4

\* The same, when the critical section is neither entered nor left.
LEMMA NeutralLemma ==
  ASSUME NEW s \in Seq(Frames), NEW z \in Seq(Frames), NEW j \in Seq(Nat),
         s # <<>>, Len(z) = Len(s),
         \A i \in 1..(Len(s) - 1) : z[i] = s[i],
         Sound(s, j),
         z[Len(s)].fn = s[Len(s)].fn,
         z[Len(s)].pc \in HandlerPCs <=> s[Len(s)].pc \in HandlerPCs,
         Armed(s[Len(s)]) => Armed(z[Len(s)]),
         HasTarget(z[Len(s)]) => /\ HasTarget(s[Len(s)])
                                 /\ z[Len(s)].target = s[Len(s)].target,
         z[Len(s)].pc \in {"begin", "pushing"} => z[Len(s)].fn \in Guarded,
         InCriticalSection(s[Len(s)]) <=> InCriticalSection(z[Len(s)]),
         s[Len(s)].pc \in {"unblock", "lock"} => z[Len(s)].pc \in {"unblock", "lock"}
  PROVE  Sound(z, j) /\ (Holds(z) <=> Holds(s))
<1>1. ContextsSound(z, j) /\ Shape(z)
  BY ReplaceLemma DEF Sound
<1>2. \A h \in 1..Len(s) : InCriticalSection(s[h]) <=> InCriticalSection(z[h])
  OBVIOUS
<1>3. \A h \in 1..Len(s) : s[h].pc \in {"unblock", "lock"} => z[h].pc \in {"unblock", "lock"}
  OBVIOUS
<1>4. Waiting(z)
  BY <1>2, <1>3 DEF Sound, Waiting
<1>5. Holds(z) <=> Holds(s)
  BY <1>2 DEF Holds
<1> QED  BY <1>1, <1>4, <1>5 DEF Sound

\* An activation added on top: a handler, or a call from ordinary code.
LEMMA AddLemma ==
  ASSUME NEW s \in Seq(Frames), NEW z \in Seq(Frames), NEW j \in Seq(Nat),
         Len(z) = Len(s) + 1,
         \A i \in 1..Len(s) : z[i] = s[i],
         Sound(s, j),
         ~ HasTarget(z[Len(z)]), ~ InCriticalSection(z[Len(z)]),
         z[Len(z)].fn = Handler <=> z[Len(z)].pc \in HandlerPCs,
         z[Len(z)].pc \in {"begin", "pushing"} => z[Len(z)].fn \in Guarded,
         \/ z[Len(z)].pc = "unblock"
         \/ \A h \in 1..Len(s) : s[h].fn # Handler
  PROVE  Sound(z, j) /\ (Holds(z) <=> Holds(s))
<1>1. ContextsSound(z, j)
  <2>1. \A i \in 1..Len(j) : j[i] \in 1..Len(z) /\ Armed(z[j[i]])
    BY DEF ContextsSound, Sound
  <2>2. \A i, k \in 1..Len(j) : i < k => j[i] < j[k]
    BY DEF ContextsSound, Sound
  <2>3. ASSUME NEW h \in 1..Len(z), HasTarget(z[h])
        PROVE  /\ z[h].target \in 1..(h - 1)
               /\ Armed(z[z[h].target])
               /\ \A i \in 1..Len(j) : j[i] < z[h].target
    <3>1. h \in 1..Len(s) /\ z[h] = s[h]
      BY <2>3
    <3>2. /\ s[h].target \in 1..(h - 1)
          /\ Armed(s[s[h].target])
          /\ \A i \in 1..Len(j) : j[i] < s[h].target
      BY <2>3, <3>1 DEF ContextsSound, Sound
    <3>3. s[h].target \in 1..Len(s)
      BY <3>1, <3>2
    <3>4. z[s[h].target] = s[s[h].target]
      BY <3>3
    <3> QED  BY <3>1, <3>2, <3>4
  <2> QED  BY <2>1, <2>2, <2>3 DEF ContextsSound
<1>2. Shape(z)
  <2>1. \A h \in 1..Len(s) : z[h].fn = Handler => z[Len(z)].fn = Handler
    <3>1. "unblock" \in HandlerPCs
      BY DEF HandlerPCs
    <3> QED  BY <3>1
  <2>2. \A h \in 1..Len(z) : (h \in 1..Len(s) /\ z[h] = s[h]) \/ h = Len(z)
    OBVIOUS
  <2>3. ASSUME NEW h \in 1..Len(z)
        PROVE  /\ z[h].fn = Handler <=> z[h].pc \in HandlerPCs
               /\ z[h].pc \in {"begin", "pushing"} => z[h].fn \in Guarded
    <3>1. CASE h \in 1..Len(s) /\ z[h] = s[h]
      BY <3>1 DEF Shape, Sound
    <3>2. CASE h = Len(z)
      BY <3>2
    <3> QED  BY <2>2, <3>1, <3>2
  <2>4. \A h, k \in 1..Len(z) : h < k /\ z[h].fn = Handler => z[k].fn = Handler
    BY <2>1, <2>2 DEF Shape, Sound
  <2> QED  BY <2>3, <2>4 DEF Shape
<1>3. Waiting(z)
  <2>1. \A h \in 1..Len(s) : InCriticalSection(s[h]) => z[Len(z)].pc = "unblock"
    BY DEF Sound, Shape, HandlerPCs, InCriticalSection
  <2>2. \A h \in 1..Len(z) : h \in 1..Len(s) \/ h = Len(z)
    OBVIOUS
  <2> QED  BY <2>1, <2>2 DEF Waiting, Sound
<1>4. Holds(z) <=> Holds(s)
  <2>1. ASSUME Holds(z) PROVE Holds(s)
    BY <2>1 DEF Holds
  <2>2. ASSUME Holds(s) PROVE Holds(z)
    BY <2>2 DEF Holds
  <2> QED  BY <2>1, <2>2
<1> QED  BY <1>1, <1>2, <1>3, <1>4 DEF Sound

\* Leaving an activation that is not armed and not in the critical section.
LEMMA DropLemma ==
  ASSUME NEW s \in Seq(Frames), NEW z \in Seq(Frames), NEW j \in Seq(Nat),
         s # <<>>, Len(z) = Len(s) - 1,
         \A i \in 1..(Len(s) - 1) : z[i] = s[i],
         Sound(s, j),
         ~ InCriticalSection(s[Len(s)]),
         \A i \in 1..Len(j) : j[i] # Len(s)
  PROVE  Sound(z, j) /\ (Holds(z) <=> Holds(s))
<1>0. Len(s) \in Nat /\ Len(s) >= 1 /\ Len(z) \in Nat /\ Len(j) \in Nat
  OBVIOUS
<1>1. ContextsSound(z, j)
  <2>1. ASSUME NEW i \in 1..Len(j) PROVE j[i] \in 1..Len(z) /\ Armed(z[j[i]])
    <3>1. j[i] \in 1..Len(s) /\ Armed(s[j[i]]) /\ j[i] # Len(s)
      BY DEF ContextsSound, Sound
    <3>2. j[i] \in 1..(Len(s) - 1)
      BY <1>0, <3>1
    <3>3. z[j[i]] = s[j[i]]
      BY <3>2
    <3> QED  BY <3>1, <3>2, <3>3
  <2>2. \A i, k \in 1..Len(j) : i < k => j[i] < j[k]
    BY DEF ContextsSound, Sound
  <2>3. ASSUME NEW h \in 1..Len(z), HasTarget(z[h])
        PROVE  /\ z[h].target \in 1..(h - 1)
               /\ Armed(z[z[h].target])
               /\ \A i \in 1..Len(j) : j[i] < z[h].target
    <3>1. h \in 1..Len(s) /\ z[h] = s[h]
      BY <1>0
    <3>2. /\ s[h].target \in 1..(h - 1)
          /\ Armed(s[s[h].target])
          /\ \A i \in 1..Len(j) : j[i] < s[h].target
      BY <2>3, <3>1 DEF ContextsSound, Sound
    <3>3. s[h].target \in 1..(Len(s) - 1)
      BY <1>0, <3>1, <3>2
    <3>4. z[s[h].target] = s[s[h].target]
      BY <3>3
    <3> QED  BY <3>1, <3>2, <3>4
  <2> QED  BY <2>1, <2>2, <2>3 DEF ContextsSound
<1>2. \A h \in 1..Len(z) : h \in 1..Len(s) /\ z[h] = s[h]
  BY <1>0
<1>3. Shape(z) /\ Waiting(z)
  <2>1. Shape(z)
    BY <1>2 DEF Shape, Sound
  <2>2. Waiting(z)
    BY <1>2 DEF Waiting, Sound
  <2> QED  BY <2>1, <2>2
<1>4. Holds(z) <=> Holds(s)
  <2>1. ASSUME Holds(z) PROVE Holds(s)
    BY <1>2, <2>1 DEF Holds
  <2>2. ASSUME Holds(s) PROVE Holds(z)
    <3>1. \A h \in 1..Len(s) : h = Len(s) \/ (h \in 1..Len(z) /\ z[h] = s[h])
      BY <1>0
    <3> QED  BY <2>2, <3>1 DEF Holds
  <2> QED  BY <2>1, <2>2
<1> QED  BY <1>1, <1>3, <1>4 DEF Sound

\* Cutting the stack back to the activation d that saved the context: d leaves
\* its guarded body, and neither a saved context nor a waiting handler that
\* survives refers to it.
LEMMA CutLemma ==
  ASSUME NEW s \in Seq(Frames), NEW z \in Seq(Frames), NEW j \in Seq(Nat),
         NEW d \in 1..(Len(s) - 1), Len(z) = d,
         \A i \in 1..(d - 1) : z[i] = s[i],
         Sound(s, j),
         Armed(s[d]),
         \A i \in 1..Len(j) : j[i] < d,
         z[d].fn = s[d].fn, z[d].pc = "raise",
         \A h \in 1..Len(s) : ~ InCriticalSection(s[h])
  PROVE  Sound(z, j) /\ ~ Holds(z)
<1>0. Len(s) \in Nat /\ d \in Nat /\ d \in 1..Len(s) /\ Len(j) \in Nat
  OBVIOUS
<1>1. ~ HasTarget(z[d]) /\ ~ InCriticalSection(z[d])
  BY DEF HasTarget, InCriticalSection
<1>2. ContextsSound(z, j)
  <2>1. ASSUME NEW i \in 1..Len(j)
        PROVE  j[i] \in 1..(d - 1) /\ Armed(z[j[i]])
    <3>1. j[i] \in 1..Len(s) /\ Armed(s[j[i]]) /\ j[i] < d
      BY DEF ContextsSound, Sound
    <3>2. j[i] \in 1..(d - 1)
      BY <1>0, <3>1
    <3>3. z[j[i]] = s[j[i]]
      BY <3>2
    <3> QED  BY <3>1, <3>2, <3>3
  <2>2. \A i, k \in 1..Len(j) : i < k => j[i] < j[k]
    BY DEF ContextsSound, Sound
  <2>3. ASSUME NEW h \in 1..Len(z), HasTarget(z[h])
        PROVE  /\ z[h].target \in 1..(h - 1)
               /\ Armed(z[z[h].target])
               /\ \A i \in 1..Len(j) : j[i] < z[h].target
    <3>1. h \in 1..(d - 1)
      BY <1>0, <1>1, <2>3
    <3>2. h \in 1..Len(s) /\ z[h] = s[h]
      BY <1>0, <3>1
    <3>3. /\ s[h].target \in 1..(h - 1)
          /\ Armed(s[s[h].target])
          /\ \A i \in 1..Len(j) : j[i] < s[h].target
      BY <2>3, <3>2 DEF ContextsSound, Sound
    <3>4. s[h].target \in 1..(d - 1)
      BY <1>0, <3>1, <3>3
    <3>5. z[s[h].target] = s[s[h].target]
      BY <3>4
    <3> QED  BY <3>2, <3>3, <3>5
  <2> QED  BY <1>0, <2>1, <2>2, <2>3 DEF ContextsSound
<1>3. \A h \in 1..Len(z) : z[h].fn = s[h].fn /\ (h # d => z[h] = s[h])
  BY <1>0
<1>4. s[d].fn # Handler
  <2>1. s[d].pc \notin HandlerPCs
    BY DEF Armed, HandlerPCs
  <2> QED  BY <1>0, <2>1 DEF Sound, Shape
<1>5. Shape(z)
  <2>1. z[d].pc \notin HandlerPCs /\ z[d].fn # Handler
    BY <1>4 DEF HandlerPCs
  <2>2. \A h \in 1..(d - 1) : h \in 1..Len(s) /\ s[h].fn # Handler
    BY <1>0, <1>4 DEF Shape, Sound
  <2>3. \A h \in 1..Len(z) : h = d \/ h \in 1..(d - 1)
    BY <1>0
  <2>4. \A h \in 1..Len(z) : z[h].fn # Handler /\ z[h].pc \notin HandlerPCs
    BY <2>1, <2>2, <2>3 DEF Shape, Sound
  <2>5. \A h \in 1..Len(z) : z[h].pc \in {"begin", "pushing"} => z[h].fn \in Guarded
    BY <2>2, <2>3 DEF Shape, Sound
  <2> QED  BY <2>4, <2>5 DEF Shape
<1>6. ~ Holds(z)
  <2>1. ASSUME NEW h \in 1..Len(z) PROVE ~ InCriticalSection(z[h])
    <3>1. CASE h = d
      BY <1>1, <3>1
    <3>2. CASE h # d
      <4>1. h \in 1..Len(s) /\ z[h] = s[h]
        BY <1>0, <1>3, <3>2
      <4> QED  BY <4>1
    <3> QED  BY <3>1, <3>2
  <2> QED  BY <2>1 DEF Holds
<1>7. Waiting(z)
  BY <1>6 DEF Waiting, Holds
<1> QED  BY <1>2, <1>5, <1>6, <1>7 DEF Sound

\* Popping the innermost context.
LEMMA PopContextLemma ==
  ASSUME NEW s \in Seq(Frames), NEW j \in Seq(Nat), j # <<>>, ContextsSound(s, j),
         NEW k, k = SubSeq(j, 1, Len(j) - 1)
  PROVE  /\ k \in Seq(Nat) /\ Len(k) = Len(j) - 1
         /\ ContextsSound(s, k)
         /\ j[Len(j)] \in 1..Len(s) /\ Armed(s[j[Len(j)]])
         /\ \A i \in 1..Len(k) : k[i] < j[Len(j)]
         /\ \A h \in 1..Len(s) : HasTarget(s[h]) => j[Len(j)] < s[h].target
<1>1. k \in Seq(Nat) /\ Len(k) = Len(j) - 1 /\ \A i \in 1..(Len(j) - 1) : k[i] = j[i]
  BY FrontLemma
<1>2. Len(j) \in Nat /\ Len(j) >= 1 /\ Len(j) \in 1..Len(j)
  OBVIOUS
<1>3. \A i \in 1..Len(k) : i \in 1..Len(j) /\ i < Len(j) /\ k[i] = j[i]
  BY <1>1, <1>2
<1>4. ContextsSound(s, k)
  <2>1. \A i \in 1..Len(k) : k[i] \in 1..Len(s) /\ Armed(s[k[i]])
    BY <1>3 DEF ContextsSound
  <2>2. \A i, m \in 1..Len(k) : i < m => k[i] < k[m]
    BY <1>3 DEF ContextsSound
  <2>3. \A h \in 1..Len(s) : HasTarget(s[h]) =>
          /\ s[h].target \in 1..(h - 1)
          /\ Armed(s[s[h].target])
          /\ \A i \in 1..Len(k) : k[i] < s[h].target
    BY <1>3 DEF ContextsSound
  <2> QED  BY <2>1, <2>2, <2>3 DEF ContextsSound
<1>5. \A i \in 1..Len(k) : k[i] < j[Len(j)]
  BY <1>2, <1>3 DEF ContextsSound
<1> QED  BY <1>1, <1>2, <1>4, <1>5 DEF ContextsSound

-----------------------------------------------------------------------------
(* Types of the parts of a step *)

LEMMA TopLemma ==
  ASSUME TypeOK, NEW t \in Threads, stack[t] # <<>>
  PROVE  /\ Top(t) \in Frames /\ Len(stack[t]) \in 1..Len(stack[t])
         /\ Top(t) = stack[t][Len(stack[t])]
BY DEF TypeOK, Top

LEMMA GotoFrame ==
  ASSUME NEW f \in Frames, NEW p \in FunctionPCs \union HandlerPCs
  PROVE  /\ [f EXCEPT !.pc = p] \in Frames
         /\ [f EXCEPT !.pc = p].fn = f.fn
         /\ [f EXCEPT !.pc = p].pc = p
         /\ [f EXCEPT !.pc = p].target = f.target
BY DEF Frames

LEMMA TargetFrame ==
  ASSUME NEW f \in Frames, NEW d \in Nat
  PROVE  LET r == [f EXCEPT !.pc = "unlock", !.target = d] IN
           r \in Frames /\ r.fn = f.fn /\ r.pc = "unlock" /\ r.target = d
BY DEF Frames, HandlerPCs

LEMMA RaiseFrame ==
  ASSUME NEW f \in Frames, NEW g \in Frames
  PROVE  LET r == [f EXCEPT !.pc = "raise", !.sig = g.sig] IN
           r \in Frames /\ r.fn = f.fn /\ r.pc = "raise"
<1>1. g.sig \in Signals \union {NoSignal}
  BY DEF Frames
<1> QED  BY <1>1 DEF Frames, FunctionPCs

LEMMA NextFrame ==
  ASSUME NEW f \in Frames
  PROVE  /\ [f EXCEPT !.ip = @ + 1] \in Frames
         /\ [f EXCEPT !.ip = @ + 1].fn = f.fn
         /\ [f EXCEPT !.ip = @ + 1].pc = f.pc
BY DEF Frames

LEMMA AdvanceFrame ==
  ASSUME NEW f \in Frames, NEW p \in FunctionPCs
  PROVE  /\ [f EXCEPT !.pc = p, !.ip = @ + 1] \in Frames
         /\ [f EXCEPT !.pc = p, !.ip = @ + 1].fn = f.fn
         /\ [f EXCEPT !.pc = p, !.ip = @ + 1].pc = p
<1> DEFINE g == [f EXCEPT !.ip = @ + 1]
<1>1. g \in Frames /\ g.fn = f.fn
  BY NextFrame
<1>2. [f EXCEPT !.pc = p, !.ip = @ + 1] = [g EXCEPT !.pc = p]
  BY DEF Frames
<1> HIDE DEF g
<1> QED  BY <1>1, <1>2, GotoFrame

LEMMA NewFrameType ==
  ASSUME NEW f \in Functions
  PROVE  /\ NewFrame(f) \in Frames
         /\ NewFrame(f).fn # Handler /\ NewFrame(f).pc \in {"begin", "body"}
         /\ NewFrame(f).pc = "begin" => NewFrame(f).fn \in Guarded
BY FunctionAssumption DEF NewFrame, Frames, FunctionPCs, NoSignal

LEMMA HandlerFrameType ==
  ASSUME NEW s \in Signals
  PROVE  /\ HandlerFrame(s) \in Frames
         /\ HandlerFrame(s).fn = Handler /\ HandlerFrame(s).pc = "unblock"
BY DEF HandlerFrame, Frames, HandlerPCs

LEMMA OperandLemma ==
  ASSUME TypeOK, NEW t \in Threads, Shape(stack[t]), NEW o, Running(t, o)
  PROVE  /\ stack[t] # <<>> /\ Top(t).pc = "body" /\ Top(t).fn \in Functions
         /\ o = "call" => Operand(t) \in Functions
         /\ o = "fault" => Operand(t) \in Signals
         /\ o = "spawn" => Operand(t) \in Threads
<1>1. stack[t] # <<>> /\ Top(t).pc = "body" /\ Top(t) \in Frames
  BY TopLemma DEF Running, At
<1>2. Top(t).fn # Handler
  <2>1. Top(t).pc \notin HandlerPCs
    BY <1>1 DEF HandlerPCs
  <2> QED  BY <1>1, <2>1, TopLemma DEF Shape
<1>3. Top(t).fn \in Functions
  BY <1>1, <1>2 DEF Frames
<1>4. Body[Top(t).fn] \in Seq(Operations)
  BY <1>3, ProgramAssumption
<1> DEFINE b == Body[Top(t).fn][Top(t).ip]
<1>5. b \in Operations /\ b.op = o
  BY <1>4 DEF Running
<1>6. Operand(t) = b.arg
  BY DEF Operand
<1> HIDE DEF b
<1>7. /\ b.op = "call" => b.arg \in Functions
      /\ b.op = "fault" => b.arg \in Signals
      /\ b.op = "spawn" => b.arg \in Threads
  BY <1>5 DEF Operations
<1> QED  BY <1>1, <1>3, <1>5, <1>6, <1>7

-----------------------------------------------------------------------------
(* Steps of a thread *)

\* Nothing the invariant speaks of has changed.
LEMMA FrozenStep ==
  ASSUME IInv, TypeOK', UNCHANGED <<life, stack, jump, holder>>
  PROVE  IInv'
BY DEF IInv

\* Only the stack and the contexts of t have changed, and maybe the mutex.
LEMMA ComposeStep ==
  ASSUME IInv, TypeOK', NEW t \in Threads,
         \A u \in Threads : u # t =>
           stack'[u] = stack[u] /\ jump'[u] = jump[u] /\ life'[u] = life[u],
         Sound(stack'[t], jump'[t]), life'[t] # "unborn",
         \/ holder' = holder /\ (Holds(stack'[t]) <=> Holds(stack[t]))
         \/ holder = NoThread /\ holder' = t /\ Holds(stack'[t])
         \/ holder = t /\ holder' = NoThread /\ ~ Holds(stack'[t])
  PROVE  IInv'
<1>1. ASSUME NEW u \in Threads
      PROVE  /\ Sound(stack'[u], jump'[u])
             /\ holder' = u <=> Holds(stack'[u])
             /\ life'[u] = "unborn" => stack'[u] = <<>>
  <2>1. CASE u = t
    BY <2>1, ThreadsAssumption DEF IInv
  <2>2. CASE u # t
    <3>1. stack'[u] = stack[u] /\ jump'[u] = jump[u] /\ life'[u] = life[u]
      BY <2>2
    <3>2. /\ Sound(stack[u], jump[u])
          /\ holder = u <=> Holds(stack[u])
          /\ life[u] = "unborn" => stack[u] = <<>>
      BY DEF IInv
    <3>3. holder' = u <=> holder = u
      BY <2>2, ThreadsAssumption
    <3> QED  BY <3>1, <3>2, <3>3
  <2> QED  BY <2>1, <2>2
<1>2. /\ TypeOK'
      /\ \A u \in Threads : /\ Sound(stack'[u], jump'[u])
                            /\ holder' = u <=> Holds(stack'[u])
                            /\ life'[u] = "unborn" => stack'[u] = <<>>
  BY <1>1
<1> QED  BY <1>2 DEF IInv

\* The innermost activation of t moves on, without touching mutex or contexts.
LEMMA NeutralStep ==
  ASSUME IInv, TypeOK', NEW t \in Threads, stack[t] # <<>>,
         NEW r \in Frames, SetTop(t, r), UNCHANGED <<life, jump, holder>>,
         r.fn = Top(t).fn,
         r.pc \in HandlerPCs <=> Top(t).pc \in HandlerPCs,
         Armed(Top(t)) => Armed(r),
         ~ HasTarget(r),
         r.pc \in {"begin", "pushing"} => r.fn \in Guarded,
         InCriticalSection(Top(t)) <=> InCriticalSection(r),
         Top(t).pc \in {"unblock", "lock"} => r.pc \in {"unblock", "lock"}
  PROVE  IInv'
<1>1. /\ stack \in [Threads -> Seq(Frames)] /\ jump \in [Threads -> Seq(Nat)]
      /\ Sound(stack[t], jump[t]) /\ life[t] # "unborn"
  BY DEF IInv, TypeOK
<1>2. /\ stack' \in [Threads -> Seq(Frames)]
      /\ Len(stack'[t]) = Len(stack[t])
      /\ \A i \in 1..(Len(stack[t]) - 1) : stack'[t][i] = stack[t][i]
      /\ stack'[t][Len(stack[t])] = r
      /\ \A u \in Threads : u # t => stack'[u] = stack[u]
  BY <1>1, SetTopLemma
<1>3. Top(t) = stack[t][Len(stack[t])]
  BY DEF Top
<1> DEFINE s == stack[t]  z == stack'[t]  j == jump[t]
<1>4. s \in Seq(Frames) /\ z \in Seq(Frames) /\ j \in Seq(Nat) /\ s # <<>>
  BY <1>1, <1>2
<1>5. Sound(z, j) /\ (Holds(z) <=> Holds(s))
  <2> HIDE DEF s, z, j
  <2>1. /\ Len(z) = Len(s) /\ \A i \in 1..(Len(s) - 1) : z[i] = s[i]
        /\ z[Len(s)] = r /\ s[Len(s)] = Top(t) /\ Sound(s, j)
    BY <1>1, <1>2, <1>3 DEF s, z, j
  <2> QED  BY <1>4, <2>1, NeutralLemma
<1> QED  BY <1>1, <1>2, <1>5, ComposeStep

\* A handler or a called function is put on top of t.
LEMMA DeliverStep ==
  ASSUME IInv, TypeOK', NEW t \in Threads, stack[t] # <<>>, NEW s \in Signals,
         Deliver(t, s), UNCHANGED <<life, jump, holder>>
  PROVE  IInv'
<1>1. CASE UNCHANGED stack
  BY <1>1, FrozenStep
<1>2. CASE Push(t, HandlerFrame(s))
  <2>1. /\ stack \in [Threads -> Seq(Frames)] /\ jump \in [Threads -> Seq(Nat)]
        /\ Sound(stack[t], jump[t]) /\ life[t] # "unborn"
    BY DEF IInv, TypeOK
  <2>2. /\ HandlerFrame(s) \in Frames
        /\ HandlerFrame(s).fn = Handler /\ HandlerFrame(s).pc = "unblock"
    BY HandlerFrameType
  <2> DEFINE x == stack[t]  z == stack'[t]  j == jump[t]  r == HandlerFrame(s)
  <2>3. /\ z \in Seq(Frames) /\ Len(z) = Len(x) + 1
        /\ \A i \in 1..Len(x) : z[i] = x[i]
        /\ z[Len(z)] = r
        /\ \A u \in Threads : u # t => stack'[u] = stack[u]
    BY <1>2, <2>1, <2>2, PushLemma
  <2>4. x \in Seq(Frames) /\ j \in Seq(Nat) /\ Sound(x, j)
    BY <2>1
  <2>5. Sound(z, j) /\ (Holds(z) <=> Holds(x))
    <3> HIDE DEF x, z, j, r
    <3>1. r.fn = Handler /\ r.pc = "unblock" /\ r.pc \in HandlerPCs
      BY <2>2 DEF r, HandlerPCs
    <3>2. ~ HasTarget(r) /\ ~ InCriticalSection(r)
      BY <3>1 DEF HasTarget, InCriticalSection
    <3> QED  BY <2>3, <2>4, <3>1, <3>2, AddLemma
  <2> QED  BY <2>1, <2>3, <2>5, ComposeStep
<1> QED  BY <1>1, <1>2 DEF Deliver

\* Goto and Advance, for the program counters between which they are neutral.
LEMMA GotoStep ==
  ASSUME IInv, TypeOK', NEW t \in Threads, stack[t] # <<>>,
         NEW p \in FunctionPCs \union HandlerPCs, Goto(t, p),
         UNCHANGED <<life, jump, holder>>,
         p \in HandlerPCs <=> Top(t).pc \in HandlerPCs,
         Top(t).pc \in {"body", "naming"} => p \in {"body", "naming"},
         p \notin {"unlock", "longjmp"},
         p \in {"begin", "pushing"} => Top(t).fn \in Guarded,
         Top(t).pc \in {"record", "recording", "top", "unlock"}
           <=> p \in {"record", "recording", "top", "unlock"},
         Top(t).pc \in {"unblock", "lock"} => p \in {"unblock", "lock"}
  PROVE  IInv'
<1>1. Top(t) \in Frames
  BY TopLemma DEF IInv
<1> DEFINE r == [Top(t) EXCEPT !.pc = p]
<1>2. r \in Frames /\ r.fn = Top(t).fn /\ r.pc = p
  BY <1>1, GotoFrame
<1>3. SetTop(t, r)
  BY DEF Goto
<1> HIDE DEF r
<1>4. /\ Armed(Top(t)) => Armed(r)
      /\ ~ HasTarget(r)
      /\ InCriticalSection(Top(t)) <=> InCriticalSection(r)
  BY <1>2 DEF Armed, HasTarget, InCriticalSection
<1> QED  BY <1>2, <1>3, <1>4, NeutralStep

LEMMA AdvanceStep ==
  ASSUME IInv, TypeOK', NEW t \in Threads, stack[t] # <<>>, Advance(t),
         UNCHANGED <<life, jump, holder>>, Top(t).pc \in {"body", "naming"}
  PROVE  IInv'
<1>1. Top(t) \in Frames
  BY TopLemma DEF IInv
<1> DEFINE r == [Top(t) EXCEPT !.pc = "body", !.ip = @ + 1]
<1>2. r \in Frames /\ r.fn = Top(t).fn /\ r.pc = "body"
  BY <1>1, AdvanceFrame DEF FunctionPCs
<1>3. SetTop(t, r)
  BY DEF Advance
<1> HIDE DEF r
<1>4. /\ Armed(Top(t)) => Armed(r)
      /\ ~ HasTarget(r)
      /\ InCriticalSection(Top(t)) <=> InCriticalSection(r)
      /\ r.pc \notin HandlerPCs /\ Top(t).pc \notin HandlerPCs
      /\ Top(t).pc \notin {"unblock", "lock"}
  BY <1>2 DEF Armed, HasTarget, InCriticalSection, HandlerPCs
<1> QED  BY <1>2, <1>3, <1>4, NeutralStep

-----------------------------------------------------------------------------
(* The types *)

\* SetTop keeps the type of the stacks.
LEMMA GotoType ==
  ASSUME TypeOK, NEW t \in Threads, stack[t] # <<>>,
         NEW p \in FunctionPCs \union HandlerPCs, Goto(t, p)
  PROVE  stack' \in [Threads -> Seq(Frames)]
<1>1. [Top(t) EXCEPT !.pc = p] \in Frames
  BY TopLemma, GotoFrame
<1> QED  BY <1>1, SetTopLemma DEF Goto, TypeOK

LEMMA AdvanceType ==
  ASSUME TypeOK, NEW t \in Threads, stack[t] # <<>>, Advance(t)
  PROVE  stack' \in [Threads -> Seq(Frames)]
<1>1. [Top(t) EXCEPT !.pc = "body", !.ip = @ + 1] \in Frames
  BY TopLemma, AdvanceFrame DEF FunctionPCs
<1> QED  BY <1>1, SetTopLemma DEF Advance, TypeOK

LEMMA DeliverType ==
  ASSUME TypeOK, NEW t \in Threads, NEW s \in Signals, Deliver(t, s)
  PROVE  /\ stack' \in [Threads -> Seq(Frames)]
         /\ blocked' \in [Threads -> SUBSET Signals]
         /\ proc' \in {"running", "exited", "killed", "aborted", "crashed"}
<1>1. HandlerFrame(s) \in Frames
  BY HandlerFrameType
<1>2. stack' \in [Threads -> Seq(Frames)]
  BY <1>1, PushLemma DEF Deliver, TypeOK
<1>3. blocked' \in [Threads -> SUBSET Signals]
  <2>1. blocked \in [Threads -> SUBSET Signals] /\ blocked[t] \union {s} \in SUBSET Signals
    BY DEF TypeOK
  <2>2. blocked' = blocked \/ blocked' = [blocked EXCEPT ![t] = blocked[t] \union {s}]
    BY DEF Deliver
  <2> QED  BY <2>1, <2>2
<1>4. proc' \in {"running", "exited", "killed", "aborted", "crashed"}
  BY DEF Deliver, TypeOK
<1> QED  BY <1>2, <1>3, <1>4

\* A corrupted map leaves everything else as it was.
LEMMA CorruptStep ==
  ASSUME IInv, NEW t \in Threads, NEW m \in Maps, Corrupt(t, m)
  PROVE  IInv'
<1>1. TypeOK'
  BY DEF Corrupt, IInv, TypeOK
<1> QED  BY <1>1, FrozenStep DEF Corrupt

-----------------------------------------------------------------------------
(* The actions, one by one *)

LEMMA JoinStep == ASSUME IInv, NEW t \in Threads, Join(t) PROVE IInv'
<1>1. stack[t] # <<>> /\ Top(t).pc = "body"
  BY DEF Join, Running, At
<1>2. TypeOK'
  <2>1. stack' \in [Threads -> Seq(Frames)]
    BY <1>1, AdvanceType DEF Join, IInv
  <2> QED  BY <2>1 DEF Join, IInv, TypeOK
<1> QED  BY <1>1, <1>2, AdvanceStep DEF Join

LEMMA SigActionStep == ASSUME IInv, NEW t \in Threads, SigAction(t) PROVE IInv'
<1>1. stack[t] # <<>> /\ Top(t).pc = "body"
  BY DEF SigAction, Running, At
<1>2. TypeOK'
  <2>1. stack' \in [Threads -> Seq(Frames)]
    BY <1>1, AdvanceType DEF SigAction, IInv
  <2> QED  BY <2>1 DEF SigAction, IInv, TypeOK
<1> QED  BY <1>1, <1>2, AdvanceStep DEF SigAction

LEMMA WorkStep == ASSUME IInv, NEW t \in Threads, Work(t) PROVE IInv'
<1>1. stack[t] # <<>> /\ Top(t).pc = "body"
  BY DEF Work, Running, At
<1>2. TypeOK'
  <2>1. stack' \in [Threads -> Seq(Frames)]
    BY <1>1, AdvanceType DEF Work, IInv
  <2> QED  BY <2>1 DEF Work, IInv, TypeOK
<1> QED  BY <1>1, <1>2, AdvanceStep DEF Work

LEMMA KeyPressedStep == ASSUME IInv, NEW t \in Threads, KeyPressed(t) PROVE IInv'
<1>1. stack[t] # <<>> /\ Top(t).pc = "body"
  BY DEF KeyPressed, Running, At
<1>2. TypeOK'
  <2>1. stack' \in [Threads -> Seq(Frames)]
    BY <1>1, AdvanceType DEF KeyPressed, IInv
  <2> QED  BY <2>1 DEF KeyPressed, IInv, TypeOK
<1> QED  BY <1>1, <1>2, AdvanceStep DEF KeyPressed

LEMMA InitUnlockStep == ASSUME IInv, NEW t \in Threads, InitUnlock(t) PROVE IInv'
<1>1. stack[t] # <<>> /\ Top(t).pc = "naming"
  BY DEF InitUnlock, At
<1>2. TypeOK'
  <2>1. stack' \in [Threads -> Seq(Frames)]
    BY <1>1, AdvanceType DEF InitUnlock, IInv
  <2>2. known' \in [Maps -> SUBSET Threads] /\ inserting' \in [Maps -> SUBSET Threads]
    BY DEF InitUnlock, IInv, TypeOK, Maps
  <2> QED  BY <2>1, <2>2 DEF InitUnlock, IInv, TypeOK
<1> QED  BY <1>1, <1>2, AdvanceStep DEF InitUnlock

LEMMA InitLockStep == ASSUME IInv, NEW t \in Threads, InitLock(t) PROVE IInv'
<1>1. stack[t] # <<>> /\ Top(t).pc = "body"
  BY DEF InitLock, Running, At
<1>2. "naming" \in FunctionPCs /\ "naming" \notin HandlerPCs /\ "body" \notin HandlerPCs
  BY DEF FunctionPCs, HandlerPCs
<1>3. TypeOK'
  <2>1. stack' \in [Threads -> Seq(Frames)]
    BY <1>1, <1>2, GotoType DEF InitLock, IInv
  <2>2. inserting' \in [Maps -> SUBSET Threads]
    BY DEF InitLock, IInv, TypeOK, Maps
  <2> QED  BY <2>1, <2>2 DEF InitLock, IInv, TypeOK
<1> QED  BY <1>1, <1>2, <1>3, GotoStep DEF InitLock

LEMMA BeginStep == ASSUME IInv, NEW t \in Threads, Begin(t) PROVE IInv'
<1>1. stack[t] # <<>> /\ Top(t).pc = "begin" /\ Top(t).fn \in Guarded
  <2>1. stack[t] # <<>> /\ Top(t).pc = "begin"
    BY DEF Begin, At
  <2> QED  BY <2>1, TopLemma DEF IInv, Sound, Shape
<1>2. "pushing" \in FunctionPCs /\ "pushing" \notin HandlerPCs /\ "begin" \notin HandlerPCs
  BY DEF FunctionPCs, HandlerPCs
<1>3. TypeOK'
  <2>1. stack' \in [Threads -> Seq(Frames)]
    BY <1>1, <1>2, GotoType DEF Begin, IInv
  <2>2. inserting' \in [Maps -> SUBSET Threads]
    BY DEF Begin, IInv, TypeOK, Maps
  <2> QED  BY <2>1, <2>2 DEF Begin, IInv, TypeOK
<1> QED  BY <1>1, <1>2, <1>3, GotoStep DEF Begin

LEMMA ReportStep == ASSUME IInv, NEW t \in Threads, Report(t) PROVE IInv'
<1>1. stack[t] # <<>> /\ Top(t).pc = "report"
  BY DEF Report, At
<1>2. "return" \in FunctionPCs /\ "return" \notin HandlerPCs /\ "report" \notin HandlerPCs
  BY DEF FunctionPCs, HandlerPCs
<1>3. TypeOK'
  <2>1. stack' \in [Threads -> Seq(Frames)]
    BY <1>1, <1>2, GotoType DEF Report, IInv
  <2> QED  BY <2>1 DEF Report, IInv, TypeOK
<1> QED  BY <1>1, <1>2, <1>3, GotoStep DEF Report

LEMMA UnblockStep == ASSUME IInv, NEW t \in Threads, Unblock(t) PROVE IInv'
<1>1. stack[t] # <<>> /\ Top(t).pc = "unblock"
  BY DEF Unblock, At
<1>2. "lock" \in HandlerPCs /\ "unblock" \in HandlerPCs
  BY DEF HandlerPCs
<1>3. TypeOK'
  <2>1. stack' \in [Threads -> Seq(Frames)]
    BY <1>1, <1>2, GotoType DEF Unblock, IInv
  <2>2. blocked' \in [Threads -> SUBSET Signals]
    BY DEF Unblock, IInv, TypeOK
  <2> QED  BY <2>1, <2>2 DEF Unblock, IInv, TypeOK
<1> QED  BY <1>1, <1>2, <1>3, GotoStep DEF Unblock

LEMMA SymboliseStep == ASSUME IInv, NEW t \in Threads, Symbolise(t) PROVE IInv'
<1>1. stack[t] # <<>> /\ Top(t).pc = "record"
  BY DEF Symbolise, At
<1>2. "recording" \in HandlerPCs /\ "record" \in HandlerPCs
  BY DEF HandlerPCs
<1>3. CASE Goto(t, "recording")
  <2>1. TypeOK'
    <3>1. stack' \in [Threads -> Seq(Frames)]
      BY <1>1, <1>2, <1>3, GotoType DEF IInv
    <3>2. inserting' \in [Maps -> SUBSET Threads]
      BY DEF Symbolise, IInv, TypeOK, Maps
    <3>3. proc' \in {"running", "exited", "killed", "aborted", "crashed"}
      BY DEF Symbolise, IInv, TypeOK
    <3> QED  BY <3>1, <3>2, <3>3 DEF Symbolise, IInv, TypeOK
  <2> QED  BY <1>1, <1>2, <1>3, <2>1, GotoStep DEF Symbolise
<1>4. CASE UNCHANGED <<stack, inserting>> /\ proc' = "aborted"
  <2>1. TypeOK'
    BY <1>4 DEF Symbolise, IInv, TypeOK
  <2> QED  BY <1>4, <2>1, FrozenStep DEF Symbolise
<1> QED  BY <1>3, <1>4 DEF Symbolise

LEMMA RecordStep == ASSUME IInv, NEW t \in Threads, Record(t) PROVE IInv'
<1>1. stack[t] # <<>> /\ Top(t).pc = "recording"
  BY DEF Record, At
<1>2. "recording" \in HandlerPCs /\ "top" \in HandlerPCs
  BY DEF HandlerPCs
<1>3. TypeOK'
  <2>1. stack' \in [Threads -> Seq(Frames)]
    BY <1>1, <1>2, GotoType DEF Record, IInv
  <2>2. known' \in [Maps -> SUBSET Threads] /\ inserting' \in [Maps -> SUBSET Threads]
    BY DEF Record, LooksForContexts, IInv, TypeOK, Maps
  <2>3. callStack' \in [Threads -> Nat]
    BY <1>1, TopLemma DEF Record, Depth, IInv, TypeOK
  <2> QED  BY <2>1, <2>2, <2>3 DEF Record, IInv, TypeOK
<1> QED  BY <1>1, <1>2, <1>3, GotoStep DEF Record

LEMMA RaiseStep == ASSUME IInv, NEW t \in Threads, Raise(t) PROVE IInv'
<1>1. stack[t] # <<>> /\ Top(t).pc = "raise" /\ Top(t) \in Frames
  BY TopLemma DEF Raise, At, IInv
<1>2. CASE \/ Corrupt(t, "callStack")
           \/ Corrupt(t, "name")
  BY <1>2, CorruptStep DEF Maps
<1>3. ASSUME NEW x \in Nat, SetTop(t, [Top(t) EXCEPT !.pc = "report", !.trace = x]),
             raced' \in BOOLEAN,
             UNCHANGED <<proc, life, jump, known, inserting, holder, callStack,
                         blocked, installed, interrupts>>
      PROVE  IInv'
  <2> DEFINE r == [Top(t) EXCEPT !.pc = "report", !.trace = x]
  <2>1. r \in Frames /\ r.fn = Top(t).fn /\ r.pc = "report"
    BY <1>1 DEF Frames, FunctionPCs
  <2>2. SetTop(t, r)
    BY <1>3
  <2> HIDE DEF r
  <2>3. TypeOK'
    <3>1. stack' \in [Threads -> Seq(Frames)]
      BY <1>1, <2>1, <2>2, SetTopLemma DEF IInv, TypeOK
    <3> QED  BY <1>3, <3>1 DEF IInv, TypeOK
  <2>4. /\ ~ Armed(Top(t)) /\ ~ HasTarget(r)
        /\ ~ InCriticalSection(Top(t)) /\ ~ InCriticalSection(r)
        /\ r.pc \notin HandlerPCs /\ Top(t).pc \notin HandlerPCs
        /\ Top(t).pc \notin {"unblock", "lock"}
    BY <1>1, <2>1 DEF Armed, HasTarget, InCriticalSection, HandlerPCs
  <2> QED  BY <1>1, <1>3, <2>1, <2>2, <2>3, <2>4, NeutralStep
<1>4. callStack[t] \in Nat /\ 0 \in Nat /\ raced \in BOOLEAN
  BY DEF IInv, TypeOK
<1> QED  BY <1>2, <1>3, <1>4 DEF Raise

LEMMA FaultStep == ASSUME IInv, NEW t \in Threads, Fault(t) PROVE IInv'
<1>1. stack[t] # <<>> /\ Operand(t) \in Signals
  BY OperandLemma DEF Fault, IInv, Sound
<1>2. TypeOK'
  <2>1. /\ stack' \in [Threads -> Seq(Frames)]
        /\ blocked' \in [Threads -> SUBSET Signals]
        /\ proc' \in {"running", "exited", "killed", "aborted", "crashed"}
    BY <1>1, DeliverType DEF Fault, IInv
  <2> QED  BY <2>1 DEF Fault, IInv, TypeOK
<1> QED  BY <1>1, <1>2, DeliverStep DEF Fault

LEMMA InterruptStep == ASSUME IInv, NEW t \in Threads, Interrupt(t) PROVE IInv'
<1>1. stack[t] # <<>> /\ "SIGINT" \in Signals
  BY DEF Interrupt, Signals
<1>2. TypeOK'
  <2>1. /\ stack' \in [Threads -> Seq(Frames)]
        /\ blocked' \in [Threads -> SUBSET Signals]
        /\ proc' \in {"running", "exited", "killed", "aborted", "crashed"}
    BY <1>1, DeliverType DEF Interrupt, IInv
  <2>2. interrupts' \in 0..MaxInterrupts
    BY BoundAssumption DEF Interrupt, IInv, TypeOK
  <2> QED  BY <2>1, <2>2 DEF Interrupt, IInv, TypeOK
<1> QED  BY <1>1, <1>2, DeliverStep DEF Interrupt

LEMMA NoContextStep == ASSUME IInv, NEW t \in Threads, NoContext(t) PROVE IInv'
<1>1. stack[t] # <<>> /\ "SIGSEGV" \in Signals
  BY DEF NoContext, At, Signals
<1>2. raced' \in BOOLEAN
  BY DEF NoContext, IInv, TypeOK
<1>3. CASE Deliver(t, "SIGSEGV")
  <2>1. TypeOK'
    <3>1. /\ stack' \in [Threads -> Seq(Frames)]
          /\ blocked' \in [Threads -> SUBSET Signals]
          /\ proc' \in {"running", "exited", "killed", "aborted", "crashed"}
      BY <1>1, <1>3, DeliverType DEF IInv
    <3> QED  BY <1>2, <3>1 DEF NoContext, IInv, TypeOK
  <2> QED  BY <1>1, <1>3, <2>1, DeliverStep DEF NoContext
<1>4. CASE proc' = "crashed" /\ UNCHANGED <<stack, blocked>>
  <2>1. TypeOK'
    BY <1>2, <1>4 DEF NoContext, IInv, TypeOK
  <2> QED  BY <1>4, <2>1, FrozenStep DEF NoContext
<1> QED  BY <1>3, <1>4 DEF NoContext

LEMMA CallStep == ASSUME IInv, NEW t \in Threads, Call(t) PROVE IInv'
<1>1. /\ stack[t] # <<>> /\ Top(t).pc = "body" /\ Top(t).fn \in Functions
      /\ Operand(t) \in Functions
  BY OperandLemma DEF Call, IInv, Sound
<1>2. /\ stack \in [Threads -> Seq(Frames)] /\ jump \in [Threads -> Seq(Nat)]
      /\ Sound(stack[t], jump[t]) /\ life[t] # "unborn"
  BY <1>1 DEF IInv, TypeOK
<1>3. Top(t) \in Frames /\ Len(stack[t]) \in 1..Len(stack[t])
      /\ Top(t) = stack[t][Len(stack[t])]
  BY <1>1, TopLemma DEF IInv
\* The caller's ip moves on (y), then the new activation is put on top (z).
<1> DEFINE f == [Top(t) EXCEPT !.ip = @ + 1]  r == NewFrame(Operand(t))
           s == stack[t]  j == jump[t]  y == [s EXCEPT ![Len(s)] = f]
           z == Append(y, r)
<1>4. f \in Frames /\ f.fn = Top(t).fn /\ f.pc = "body"
  BY <1>1, <1>3, NextFrame
<1>5. r \in Frames /\ r.fn # Handler /\ r.pc \in {"begin", "body"}
      /\ (r.pc = "begin" => r.fn \in Guarded)
  BY <1>1, NewFrameType
<1>6. stack' = [stack EXCEPT ![t] = z]
  BY DEF Call, Depth
<1>7. s \in Seq(Frames) /\ s # <<>> /\ j \in Seq(Nat) /\ Len(s) \in 1..Len(s)
      /\ Sound(s, j) /\ s[Len(s)] = Top(t)
  BY <1>1, <1>2, <1>3
<1>8. Top(t).fn # Handler
  BY <1>1, FunctionAssumption
<1> HIDE DEF f, r, s, j, z
<1>9. /\ y \in Seq(Frames) /\ Len(y) = Len(s) /\ y[Len(s)] = f
      /\ \A i \in 1..(Len(s) - 1) : y[i] = s[i]
  BY <1>4, <1>7, ExceptSeq
<1> HIDE DEF y
<1>10. Sound(y, j) /\ (Holds(y) <=> Holds(s))
  <2>1. /\ Armed(Top(t)) => Armed(f)
        /\ ~ HasTarget(f)
        /\ InCriticalSection(Top(t)) <=> InCriticalSection(f)
        /\ f.pc \notin HandlerPCs /\ Top(t).pc \notin HandlerPCs
        /\ Top(t).pc \notin {"unblock", "lock"}
    BY <1>1, <1>4 DEF Armed, HasTarget, InCriticalSection, HandlerPCs
  <2> QED  BY <1>4, <1>7, <1>9, <2>1, NeutralLemma
<1>11. /\ z \in Seq(Frames) /\ Len(z) = Len(y) + 1 /\ z[Len(z)] = r
       /\ \A i \in 1..Len(y) : z[i] = y[i]
  BY <1>5, <1>9, AppendProperties DEF z
<1>12. \A h \in 1..Len(y) : y[h].fn # Handler
  <2>1. Len(y) \in 1..Len(y) /\ y[Len(y)].fn # Handler
    BY <1>4, <1>7, <1>8, <1>9
  <2> QED  BY <1>10, <2>1 DEF Sound, Shape
<1>13. Sound(z, j) /\ (Holds(z) <=> Holds(y))
  <2>1. /\ ~ HasTarget(r) /\ ~ InCriticalSection(r)
        /\ r.pc \notin HandlerPCs
    BY <1>5 DEF HasTarget, InCriticalSection, HandlerPCs
  <2> QED  BY <1>5, <1>7, <1>9, <1>10, <1>11, <1>12, <2>1, AddLemma
<1>14. stack'[t] = z /\ \A u \in Threads : u # t => stack'[u] = stack[u]
  BY <1>2, <1>6
<1>15. TypeOK'
  <2>1. stack' \in [Threads -> Seq(Frames)]
    BY <1>2, <1>6, <1>11
  <2> QED  BY <2>1 DEF Call, IInv, TypeOK
<1>16. /\ jump' = jump /\ life' = life /\ holder' = holder
  BY DEF Call
<1> QED  BY <1>2, <1>10, <1>13, <1>14, <1>15, <1>16, ComposeStep DEF s, j

LEMMA ReturnStep == ASSUME IInv, NEW t \in Threads, Return(t) PROVE IInv'
<1>1. stack[t] # <<>> /\ Pop(t) /\ UNCHANGED <<jump, holder>>
  BY DEF Return, At
<1>2. /\ stack \in [Threads -> Seq(Frames)] /\ jump \in [Threads -> Seq(Nat)]
      /\ Sound(stack[t], jump[t]) /\ life[t] # "unborn"
  BY <1>1 DEF IInv, TypeOK
<1>3. ~ Armed(Top(t)) /\ ~ InCriticalSection(Top(t))
  BY DEF Return, At, Armed, InCriticalSection
<1> DEFINE s == stack[t]  z == stack'[t]  j == jump[t]
<1>4. /\ z \in Seq(Frames) /\ Len(z) = Len(s) - 1
      /\ \A i \in 1..(Len(s) - 1) : z[i] = s[i]
      /\ \A u \in Threads : u # t => stack'[u] = stack[u]
      /\ stack' \in [Threads -> Seq(Frames)]
  BY <1>1, <1>2, PopLemma
<1>5. Sound(z, j) /\ (Holds(z) <=> Holds(s))
  <2>1. s \in Seq(Frames) /\ s # <<>> /\ j \in Seq(Nat) /\ Sound(s, j)
        /\ s[Len(s)] = Top(t)
    BY <1>1, <1>2 DEF Top
  <2> HIDE DEF s, z, j
  <2>2. \A i \in 1..Len(j) : j[i] # Len(s)
    BY <1>3, <2>1 DEF Sound, ContextsSound
  <2> QED  BY <1>3, <1>4, <2>1, <2>2, DropLemma
<1>6. /\ life' \in [Threads -> {"unborn", "live", "exited"}]
      /\ proc' \in {"running", "exited", "killed", "aborted", "crashed"}
      /\ life'[t] # "unborn"
      /\ \A u \in Threads : u # t => life'[u] = life[u]
  BY <1>2 DEF Return, IInv, TypeOK
<1>7. TypeOK'
  BY <1>4, <1>6 DEF Return, IInv, TypeOK
<1> QED  BY <1>1, <1>4, <1>5, <1>6, <1>7, ComposeStep

LEMMA SpawnStep == ASSUME IInv, NEW t \in Threads, Spawn(t) PROVE IInv'
<1> DEFINE u == Operand(t)  f == [Top(t) EXCEPT !.ip = @ + 1]  r == NewFrame(Entry[u])
           s == stack[t]  y == [s EXCEPT ![Len(s)] = f]
<1>1. /\ s # <<>> /\ Top(t).pc = "body" /\ u \in Threads
  BY OperandLemma DEF Spawn, IInv, Sound
<1>2. /\ stack \in [Threads -> Seq(Frames)] /\ jump \in [Threads -> Seq(Nat)]
      /\ \A v \in Threads : /\ Sound(stack[v], jump[v])
                            /\ holder = v <=> Holds(stack[v])
                            /\ life[v] = "unborn" => stack[v] = <<>>
  BY DEF IInv, TypeOK
<1>3. /\ u # t /\ life[u] = "unborn"
      /\ stack' = [stack EXCEPT ![t] = y, ![u] = <<r>>]
      /\ life' = [life EXCEPT ![u] = "live"]
      /\ jump' = jump /\ holder' = holder
      /\ blocked' = [blocked EXCEPT ![u] = blocked[t]]
  BY DEF Spawn, Depth
<1>4. Top(t) \in Frames /\ Len(s) \in 1..Len(s) /\ Top(t) = s[Len(s)]
  BY <1>1, TopLemma DEF IInv
<1>5. f \in Frames /\ f.fn = Top(t).fn /\ f.pc = "body"
  BY <1>1, <1>4, NextFrame
<1>6. r \in Frames /\ r.fn # Handler /\ r.pc \in {"begin", "body"}
      /\ (r.pc = "begin" => r.fn \in Guarded)
  BY <1>1, NewFrameType, ProgramAssumption
<1>7. s \in Seq(Frames) /\ Sound(s, jump[t]) /\ jump[t] \in Seq(Nat)
  BY <1>2
<1>8. stack[u] = <<>> /\ Sound(<<>>, jump[u]) /\ jump[u] \in Seq(Nat)
      /\ (holder = u <=> Holds(<<>>))
  BY <1>1, <1>2, <1>3
<1>9. life \in [Threads -> {"unborn", "live", "exited"}]
      /\ blocked \in [Threads -> SUBSET Signals]
  BY DEF IInv, TypeOK
<1> HIDE DEF u, f, r, s
<1>10. /\ y \in Seq(Frames) /\ Len(y) = Len(s) /\ y[Len(s)] = f
       /\ \A i \in 1..(Len(s) - 1) : y[i] = s[i]
  BY <1>4, <1>5, <1>7, ExceptSeq
<1> HIDE DEF y
<1>11. Sound(y, jump[t]) /\ (Holds(y) <=> Holds(s))
  <2>1. /\ Armed(Top(t)) => Armed(f)
        /\ ~ HasTarget(f)
        /\ InCriticalSection(Top(t)) <=> InCriticalSection(f)
        /\ f.pc \notin HandlerPCs /\ Top(t).pc \notin HandlerPCs
        /\ Top(t).pc \notin {"unblock", "lock"}
    BY <1>1, <1>5 DEF Armed, HasTarget, InCriticalSection, HandlerPCs
  <2> QED  BY <1>1, <1>4, <1>5, <1>7, <1>10, <2>1, NeutralLemma
<1>12. Sound(<<r>>, jump[u]) /\ (Holds(<<r>>) <=> Holds(<<>>))
  <2>1. /\ ~ HasTarget(r) /\ ~ InCriticalSection(r)
        /\ r.pc \notin HandlerPCs
    BY <1>6 DEF HasTarget, InCriticalSection, HandlerPCs
  <2> DEFINE e == <<>>  z == <<r>>
  <2>2. e \in Seq(Frames) /\ z \in Seq(Frames) /\ Len(e) = 0 /\ Len(z) = 1 /\ z[Len(z)] = r
    BY <1>6
  <2>3. Sound(e, jump[u])
    BY <1>8
  <2> HIDE DEF e, z
  <2>4. Len(z) = Len(e) + 1 /\ \A i \in 1..Len(e) : FALSE
    BY <2>2
  <2>5. Sound(z, jump[u]) /\ (Holds(z) <=> Holds(e))
    BY <1>6, <1>8, <2>1, <2>2, <2>3, <2>4, AddLemma
  <2> QED  BY <2>5 DEF e, z
<1>13. /\ stack'[t] = y /\ stack'[u] = <<r>>
       /\ \A v \in Threads : v # t /\ v # u => stack'[v] = stack[v]
       /\ stack' \in [Threads -> Seq(Frames)]
  <2>1. <<r>> \in Seq(Frames) /\ t \in Threads /\ u \in Threads
    BY <1>1, <1>6
  <2> DEFINE w == <<r>>
  <2> HIDE DEF w
  <2>2. stack' = [stack EXCEPT ![t] = y, ![u] = w] /\ w \in Seq(Frames)
    BY <1>3, <2>1 DEF w
  <2>3. stack'[t] = y /\ stack'[u] = w /\ stack' \in [Threads -> Seq(Frames)]
        /\ \A v \in Threads : v # t /\ v # u => stack'[v] = stack[v]
    BY <1>2, <1>3, <1>10, <2>1, <2>2
  <2> QED  BY <2>3 DEF w
<1>14. ASSUME NEW v \in Threads
       PROVE  /\ Sound(stack'[v], jump'[v])
              /\ holder' = v <=> Holds(stack'[v])
              /\ life'[v] = "unborn" => stack'[v] = <<>>
  <2>1. CASE v = u
    BY <1>1, <1>3, <1>8, <1>9, <1>12, <1>13, <2>1
  <2>2. CASE v = t
    <3>1. life[t] # "unborn" /\ life'[t] = life[t]
      BY <1>1, <1>2, <1>3, <1>9 DEF s
    <3>2. holder = t <=> Holds(s)
      BY <1>2 DEF s
    <3> QED  BY <1>3, <1>11, <1>13, <2>2, <3>1, <3>2
  <2>3. CASE v # u /\ v # t
    BY <1>2, <1>3, <1>9, <1>13, <2>3
  <2> QED  BY <2>1, <2>2, <2>3
<1>15. TypeOK'
  <2>1. /\ life' \in [Threads -> {"unborn", "live", "exited"}]
        /\ blocked' \in [Threads -> SUBSET Signals]
    BY <1>1, <1>3, <1>9
  <2> QED  BY <1>3, <1>13, <2>1 DEF Spawn, IInv, TypeOK
<1> QED  BY <1>14, <1>15 DEF IInv

LEMMA PushContextStep == ASSUME IInv, NEW t \in Threads, PushContext(t) PROVE IInv'
<1>1. stack[t] # <<>> /\ Top(t).pc = "pushing"
  BY DEF PushContext, At
<1>2. /\ stack \in [Threads -> Seq(Frames)] /\ jump \in [Threads -> Seq(Nat)]
      /\ Sound(stack[t], jump[t]) /\ life[t] # "unborn"
      /\ Top(t) \in Frames /\ Len(stack[t]) \in 1..Len(stack[t])
      /\ Top(t) = stack[t][Len(stack[t])]
  BY <1>1, TopLemma DEF IInv, TypeOK
<1>3. CASE Corrupt(t, "jump")
  BY <1>3, CorruptStep DEF Maps
<1>4. CASE ~ Corrupt(t, "jump")
  <2>1. /\ Goto(t, "body")
        /\ inserting' = [inserting EXCEPT !["jump"] = @ \ {t}]
        /\ raced' = (raced \/ Racing(t, "jump"))
        /\ UNCHANGED <<proc, life, holder, callStack, blocked, installed, interrupts>>
    BY <1>4 DEF PushContext
  <2>2. "body" \in FunctionPCs /\ "body" \notin HandlerPCs /\ "pushing" \notin HandlerPCs
    BY DEF FunctionPCs, HandlerPCs
  <2>3. stack' \in [Threads -> Seq(Frames)]
    BY <1>1, <2>1, <2>2, GotoType DEF IInv
  <2>4. inserting' \in [Maps -> SUBSET Threads] /\ raced' \in BOOLEAN
    BY <2>1 DEF IInv, TypeOK, Maps
  <2>5. CASE UNCHANGED <<jump, known>>
    <3>1. TypeOK'
      BY <2>1, <2>3, <2>4, <2>5 DEF IInv, TypeOK
    <3> QED  BY <1>1, <2>1, <2>2, <2>5, <3>1, GotoStep
  <2>6. CASE /\ jump' = [jump EXCEPT ![t] = Append(jump[t], Depth(t))]
             /\ known' = [known EXCEPT !["jump"] = @ \union {t}]
    <3> DEFINE r == [Top(t) EXCEPT !.pc = "body"]  s == stack[t]  z == stack'[t]
               j == jump[t]  k == Append(j, Len(s))
    <3>1. r \in Frames /\ r.fn = Top(t).fn /\ r.pc = "body"
      BY <1>2, <2>2, GotoFrame
    <3>2. SetTop(t, r)
      BY <2>1 DEF Goto
    <3>3. /\ z \in Seq(Frames) /\ Len(z) = Len(s) /\ z[Len(s)] = r
          /\ \A i \in 1..(Len(s) - 1) : z[i] = s[i]
          /\ \A u \in Threads : u # t => stack'[u] = stack[u]
      BY <1>1, <1>2, <3>1, <3>2, SetTopLemma
    <3>4. /\ s \in Seq(Frames) /\ s # <<>> /\ j \in Seq(Nat) /\ Sound(s, j)
          /\ s[Len(s)] = Top(t) /\ Len(s) \in 1..Len(s)
      BY <1>1, <1>2
    <3>5. k \in Seq(Nat) /\ Len(k) = Len(j) + 1 /\ k[Len(k)] = Len(s)
          /\ (\A i \in 1..Len(j) : k[i] = j[i]) /\ Len(j) \in Nat
      BY <3>4, AppendProperties
    <3>6. jump'[t] = k /\ jump' \in [Threads -> Seq(Nat)]
          /\ \A u \in Threads : u # t => jump'[u] = jump[u]
      BY <1>2, <2>6, <3>5 DEF Depth
    <3>7. Top(t).fn \in Guarded /\ ~ HasTarget(r) /\ r.pc \notin HandlerPCs
          /\ ~ InCriticalSection(r) /\ ~ InCriticalSection(Top(t)) /\ Armed(r)
          /\ Top(t).pc \notin HandlerPCs /\ ~ Armed(Top(t))
      BY <1>1, <1>2, <3>1 DEF Sound, Shape, HasTarget, InCriticalSection, Armed, HandlerPCs
    <3> HIDE DEF r, s, z, j, k
    <3>8. Sound(z, j) /\ (Holds(z) <=> Holds(s))
      BY <1>1, <3>1, <3>3, <3>4, <3>7, NeutralLemma
    <3>9. ContextsSound(z, k)
      <4>1. \A i \in 1..Len(j) : j[i] < Len(s)
        BY <3>4, <3>7 DEF Sound, ContextsSound
      <4>2. \A i \in 1..Len(k) : i = Len(k) \/ (i \in 1..Len(j) /\ i < Len(k))
        BY <3>5
      <4>3. \A i \in 1..Len(k) : k[i] \in 1..Len(z) /\ Armed(z[k[i]])
        BY <3>3, <3>4, <3>5, <3>7, <3>8, <4>2 DEF Sound, ContextsSound
      <4>4. ASSUME NEW i \in 1..Len(k), NEW m \in 1..Len(k), i < m PROVE k[i] < k[m]
        <5>1. i \in 1..Len(j) /\ k[i] = j[i] /\ j[i] < Len(s)
          BY <3>5, <4>1, <4>4
        <5>2. CASE m = Len(k)
          BY <3>5, <5>1, <5>2
        <5>3. CASE m # Len(k)
          <6>1. m \in 1..Len(j) /\ k[m] = j[m]
            BY <3>5, <4>2, <5>3
          <6> QED  BY <3>8, <4>4, <5>1, <6>1 DEF Sound, ContextsSound
        <5> QED  BY <5>2, <5>3
      <4>5. \A h \in 1..Len(z) : ~ HasTarget(z[h])
        <5>1. Len(z) \in 1..Len(z) /\ z[Len(z)].fn # Handler
          BY <3>3, <3>4, <3>7, <3>8 DEF Sound, Shape
        <5>2. \A h \in 1..Len(z) : z[h].fn # Handler
          BY <3>8, <5>1 DEF Sound, Shape
        <5> QED  BY <3>8, <5>2 DEF Sound, Shape, HasTarget, HandlerPCs
      <4> QED  BY <4>3, <4>4, <4>5 DEF ContextsSound
    <3>10. Sound(stack'[t], jump'[t]) /\ (Holds(stack'[t]) <=> Holds(stack[t]))
      BY <3>6, <3>8, <3>9 DEF Sound, s, z
    <3>11. TypeOK'
      <4>1. known' \in [Maps -> SUBSET Threads]
        BY <2>6 DEF IInv, TypeOK, Maps
      <4> QED  BY <2>1, <2>3, <2>4, <3>6, <4>1 DEF IInv, TypeOK
    <3>12. holder' = holder /\ life' = life
      BY <2>1
    <3> QED  BY <1>2, <3>3, <3>6, <3>10, <3>11, <3>12, ComposeStep
  <2> QED  BY <1>4, <2>5, <2>6 DEF PushContext
<1> QED  BY <1>3, <1>4

\* What the actions below need to know of the thread that takes them.
LEMMA ThreadLemma ==
  ASSUME IInv, NEW t \in Threads, stack[t] # <<>>
  PROVE  /\ stack \in [Threads -> Seq(Frames)] /\ jump \in [Threads -> Seq(Nat)]
         /\ stack[t] \in Seq(Frames) /\ jump[t] \in Seq(Nat)
         /\ Sound(stack[t], jump[t]) /\ life[t] # "unborn"
         /\ Top(t) \in Frames /\ Len(stack[t]) \in 1..Len(stack[t])
         /\ Top(t) = stack[t][Len(stack[t])]
BY TopLemma DEF IInv, TypeOK

LEMMA EndStep == ASSUME IInv, NEW t \in Threads, End(t) PROVE IInv'
<1>1. stack[t] # <<>> /\ Top(t).pc = "body" /\ Top(t).fn \in Guarded
  BY DEF End, At
<1>2. CASE Corrupt(t, "jump")
  BY <1>2, CorruptStep DEF Maps
<1>3. CASE UNCHANGED <<life, stack, jump, known, inserting, holder, callStack,
                       blocked, installed, interrupts, raced>> /\ proc' = "crashed"
  <2>1. TypeOK'
    BY <1>3 DEF IInv, TypeOK
  <2> QED  BY <1>3, <2>1, FrozenStep
<1>4. CASE /\ jump[t] # <<>>
           /\ jump' = [jump EXCEPT ![t] = SubSeq(jump[t], 1, Len(jump[t]) - 1)]
           /\ raced' = (raced \/ Racing(t, "jump"))
           /\ Goto(t, "return")
           /\ UNCHANGED <<proc, life, known, inserting, holder, callStack, blocked,
                          installed, interrupts>>
  <2> DEFINE r == [Top(t) EXCEPT !.pc = "return"]  s == stack[t]  z == stack'[t]
             j == jump[t]  k == SubSeq(j, 1, Len(j) - 1)
  <2>1. r \in Frames /\ r.fn = Top(t).fn /\ r.pc = "return"
    <3>1. Top(t) \in Frames
      BY <1>1, ThreadLemma
    <3>2. "return" \in FunctionPCs \union HandlerPCs
      BY DEF FunctionPCs
    <3> QED  BY <3>1, <3>2, GotoFrame
  <2>2. SetTop(t, r)
    BY <1>4 DEF Goto
  <2>3. /\ s \in Seq(Frames) /\ s # <<>> /\ j \in Seq(Nat) /\ j # <<>> /\ Sound(s, j)
        /\ s[Len(s)] = Top(t) /\ Len(s) \in 1..Len(s) /\ life[t] # "unborn"
        /\ stack \in [Threads -> Seq(Frames)] /\ jump \in [Threads -> Seq(Nat)]
    BY <1>1, <1>4, ThreadLemma
  <2>4. /\ z \in Seq(Frames) /\ Len(z) = Len(s) /\ z[Len(s)] = r
        /\ \A i \in 1..(Len(s) - 1) : z[i] = s[i]
        /\ \A u \in Threads : u # t => stack'[u] = stack[u]
        /\ stack' \in [Threads -> Seq(Frames)]
    BY <2>1, <2>2, <2>3, SetTopLemma
  <2>5. /\ k \in Seq(Nat) /\ Len(k) = Len(j) - 1
        /\ ContextsSound(s, k)
        /\ j[Len(j)] \in 1..Len(s)
        /\ \A i \in 1..Len(k) : k[i] < j[Len(j)]
    BY <2>3, PopContextLemma DEF Sound
  <2>6. jump'[t] = k /\ jump' \in [Threads -> Seq(Nat)]
        /\ \A u \in Threads : u # t => jump'[u] = jump[u]
    BY <1>4, <2>3, <2>5
  <2>7. /\ Top(t).pc \notin HandlerPCs /\ Top(t).fn # Handler
        /\ r.pc \notin HandlerPCs /\ ~ HasTarget(r)
        /\ ~ InCriticalSection(r) /\ ~ InCriticalSection(Top(t))
    BY <1>1, <2>1, FunctionAssumption DEF HandlerPCs, HasTarget, InCriticalSection
  <2> HIDE DEF r, s, z, j, k
  <2>8. ContextsSound(z, k)
    <3>1. ASSUME NEW i \in 1..Len(k)
          PROVE  k[i] \in 1..Len(z) /\ Armed(z[k[i]])
      <4>0. k[i] \in 1..Len(s) /\ Armed(s[k[i]]) /\ k[i] < j[Len(j)]
        BY <2>5 DEF ContextsSound
      <4>1. k[i] \in 1..Len(s) /\ Armed(s[k[i]]) /\ k[i] < Len(s)
        <5> DEFINE a == k[i]  b == j[Len(j)]  n == Len(s)
        <5>1. a \in 1..n /\ a < b /\ b \in 1..n /\ n \in 1..n
          BY <2>3, <2>5, <4>0
        <5> HIDE DEF a, b, n
        <5>2. a < n
          BY <5>1
        <5> QED  BY <4>0, <5>2 DEF a, n
      <4>2. k[i] \in 1..(Len(s) - 1)
        BY <2>3, <4>1
      <4> QED  BY <2>4, <4>1, <4>2
    <3>2. \A i, m \in 1..Len(k) : i < m => k[i] < k[m]
      BY <2>5 DEF ContextsSound
    <3>3. \A h \in 1..Len(z) : ~ HasTarget(z[h])
      <4>1. \A h \in 1..Len(s) : s[h].fn # Handler
        BY <2>3, <2>7 DEF Sound, Shape
      <4>2. \A h \in 1..Len(s) : ~ HasTarget(s[h])
        BY <2>3, <4>1 DEF Sound, Shape, HasTarget, HandlerPCs
      <4>3. \A h \in 1..Len(z) : h = Len(s) \/ (h \in 1..Len(s) /\ z[h] = s[h])
        BY <2>3, <2>4
      <4> QED  BY <2>4, <2>7, <4>2, <4>3
    <3> QED  BY <3>1, <3>2, <3>3 DEF ContextsSound
  <2>9. \A h \in 1..Len(s) : /\ z[h].fn = s[h].fn
                             /\ z[h].pc \in HandlerPCs <=> s[h].pc \in HandlerPCs
                             /\ InCriticalSection(z[h]) <=> InCriticalSection(s[h])
                             /\ z[h] = s[h] \/ z[h].pc = "return"
    <3>1. \A h \in 1..Len(s) : h = Len(s) \/ (h \in 1..(Len(s) - 1) /\ z[h] = s[h])
      BY <2>3, <2>4
    <3> QED  BY <2>1, <2>3, <2>4, <2>7, <3>1
  <2>10. Shape(z)
    <3>1. Shape(s) /\ Len(z) = Len(s)
      BY <2>3, <2>4 DEF Sound
    <3>2. \A h \in 1..Len(z) : /\ z[h].fn = Handler <=> z[h].pc \in HandlerPCs
                               /\ z[h].pc \in {"begin", "pushing"} => z[h].fn \in Guarded
      BY <2>9, <3>1 DEF Shape
    <3>3. \A h, m \in 1..Len(z) : h < m /\ z[h].fn = Handler => z[m].fn = Handler
      BY <2>9, <3>1 DEF Shape
    <3> QED  BY <3>2, <3>3 DEF Shape
  <2>11. ~ Holds(s) /\ ~ Holds(z)
    <3>1. \A h \in 1..Len(s) : s[h].fn # Handler
      BY <2>3, <2>7 DEF Sound, Shape
    <3>2. \A h \in 1..Len(s) : ~ InCriticalSection(s[h])
      BY <2>3, <3>1 DEF Sound, Shape, InCriticalSection, HandlerPCs
    <3> QED  BY <2>4, <2>9, <3>2 DEF Holds
  <2>12. Waiting(z)
    BY <2>11 DEF Waiting, Holds
  <2>13. Sound(stack'[t], jump'[t]) /\ (Holds(stack'[t]) <=> Holds(stack[t]))
    BY <2>6, <2>8, <2>10, <2>11, <2>12 DEF Sound, s, z
  <2>14. TypeOK'
    BY <1>4, <2>4, <2>6 DEF IInv, TypeOK
  <2> QED  BY <1>4, <2>3, <2>4, <2>6, <2>13, <2>14, ComposeStep
<1> QED  BY <1>2, <1>3, <1>4 DEF End

LEMMA LockStep == ASSUME IInv, NEW t \in Threads, Lock(t) PROVE IInv'
<1>1. stack[t] # <<>> /\ Top(t).pc = "lock"
  BY DEF Lock, At
<1> DEFINE r == [Top(t) EXCEPT !.pc = "record"]  s == stack[t]  z == stack'[t]
           j == jump[t]
<1>2. r \in Frames /\ r.fn = Top(t).fn /\ r.pc = "record"
  <2>1. Top(t) \in Frames
    BY <1>1, ThreadLemma
  <2>2. "record" \in FunctionPCs \union HandlerPCs
    BY DEF HandlerPCs
  <2> QED  BY <2>1, <2>2, GotoFrame
<1>3. SetTop(t, r)
  BY DEF Lock, Goto
<1>4. /\ s \in Seq(Frames) /\ s # <<>> /\ j \in Seq(Nat) /\ Sound(s, j)
      /\ s[Len(s)] = Top(t) /\ Len(s) \in 1..Len(s) /\ life[t] # "unborn"
      /\ stack \in [Threads -> Seq(Frames)]
  BY <1>1, ThreadLemma
<1>5. /\ z \in Seq(Frames) /\ Len(z) = Len(s) /\ z[Len(s)] = r
      /\ \A i \in 1..(Len(s) - 1) : z[i] = s[i]
      /\ \A u \in Threads : u # t => stack'[u] = stack[u]
      /\ stack' \in [Threads -> Seq(Frames)]
  BY <1>2, <1>3, <1>4, SetTopLemma
<1>6. ~ Holds(s)
  BY ThreadsAssumption DEF Lock, IInv
<1> HIDE DEF r, s, z, j
<1>7. /\ ~ Armed(Top(t)) /\ ~ HasTarget(r)
      /\ r.pc \in HandlerPCs /\ Top(t).pc \in HandlerPCs /\ InCriticalSection(r)
  BY <1>1, <1>2 DEF Armed, HasTarget, HandlerPCs, InCriticalSection
<1>8. ContextsSound(z, j) /\ Shape(z)
  BY <1>2, <1>4, <1>5, <1>7, ReplaceLemma DEF Sound
<1>9. Waiting(z)
  <2>1. \A h \in 1..(Len(s) - 1) : ~ InCriticalSection(z[h])
    BY <1>4, <1>5, <1>6 DEF Holds
  <2>2. \A h, k \in 1..Len(z) : h < k => h \in 1..(Len(s) - 1)
    BY <1>4, <1>5
  <2> QED  BY <2>1, <2>2 DEF Waiting
<1>10. Holds(z)
  BY <1>4, <1>5, <1>7 DEF Holds
<1>11. TypeOK'
  <2>1. Goto(t, "record") /\ holder' = t
    BY DEF Lock
  <2> QED  BY <1>5, <2>1 DEF Lock, IInv, TypeOK
<1>12. /\ jump' = jump /\ life' = life /\ holder = NoThread /\ holder' = t
  BY DEF Lock
<1>13. Sound(stack'[t], jump'[t]) /\ Holds(stack'[t])
  BY <1>8, <1>9, <1>10, <1>12 DEF Sound, s, z, j
<1> QED  BY <1>4, <1>5, <1>11, <1>12, <1>13, ComposeStep

LEMMA UnlockStep == ASSUME IInv, NEW t \in Threads, Unlock(t) PROVE IInv'
<1>1. stack[t] # <<>> /\ Top(t).pc = "unlock"
  BY DEF Unlock, At
<1> DEFINE r == [Top(t) EXCEPT !.pc = "longjmp"]  s == stack[t]  z == stack'[t]
           j == jump[t]
<1>2. r \in Frames /\ r.fn = Top(t).fn /\ r.pc = "longjmp" /\ r.target = Top(t).target
  <2>1. Top(t) \in Frames
    BY <1>1, ThreadLemma
  <2>2. "longjmp" \in FunctionPCs \union HandlerPCs
    BY DEF HandlerPCs
  <2> QED  BY <2>1, <2>2, GotoFrame
<1>3. SetTop(t, r)
  BY DEF Unlock, Goto
<1>4. /\ s \in Seq(Frames) /\ s # <<>> /\ j \in Seq(Nat) /\ Sound(s, j)
      /\ s[Len(s)] = Top(t) /\ Len(s) \in 1..Len(s) /\ life[t] # "unborn"
      /\ stack \in [Threads -> Seq(Frames)]
  BY <1>1, ThreadLemma
<1>5. /\ z \in Seq(Frames) /\ Len(z) = Len(s) /\ z[Len(s)] = r
      /\ \A i \in 1..(Len(s) - 1) : z[i] = s[i]
      /\ \A u \in Threads : u # t => stack'[u] = stack[u]
      /\ stack' \in [Threads -> Seq(Frames)]
  BY <1>2, <1>3, <1>4, SetTopLemma
<1>6. /\ ~ Armed(Top(t)) /\ HasTarget(r) /\ HasTarget(Top(t))
      /\ r.pc \in HandlerPCs /\ Top(t).pc \in HandlerPCs
      /\ InCriticalSection(Top(t)) /\ ~ InCriticalSection(r)
  BY <1>1, <1>2 DEF Armed, HasTarget, HandlerPCs, InCriticalSection
<1>7. holder = t
  BY <1>4, <1>6 DEF IInv, Holds, s
<1> HIDE DEF r, s, z, j
<1>8. ContextsSound(z, j) /\ Shape(z)
  BY <1>2, <1>4, <1>5, <1>6, ReplaceLemma DEF Sound
<1>9. ~ Holds(z)
  <2>1. ASSUME NEW h \in 1..(Len(s) - 1) PROVE ~ InCriticalSection(s[h])
    <3>1. h \in 1..Len(s) /\ Len(s) \in 1..Len(s) /\ h < Len(s)
      BY <1>4
    <3>2. s[Len(s)].pc \notin {"unblock", "lock"}
      BY <1>1, <1>4
    <3>3. Waiting(s)
      BY <1>4 DEF Sound
    <3> QED  BY <3>1, <3>2, <3>3 DEF Waiting
  <2>2. \A h \in 1..Len(z) : h = Len(s) \/ (h \in 1..(Len(s) - 1) /\ z[h] = s[h])
    BY <1>4, <1>5
  <2> QED  BY <1>5, <1>6, <2>1, <2>2 DEF Holds
<1>10. Waiting(z)
  BY <1>9 DEF Waiting, Holds
<1>11. TypeOK'
  BY <1>5 DEF Unlock, IInv, TypeOK
<1>12. /\ jump' = jump /\ life' = life /\ holder' = NoThread
  BY DEF Unlock
<1>13. Sound(stack'[t], jump'[t]) /\ ~ Holds(stack'[t])
  BY <1>8, <1>9, <1>10, <1>12 DEF Sound, s, z, j
<1> QED  BY <1>4, <1>5, <1>7, <1>11, <1>12, <1>13, ComposeStep

LEMMA TakeContextStep == ASSUME IInv, NEW t \in Threads, TakeContext(t) PROVE IInv'
<1>1. stack[t] # <<>> /\ Top(t).pc = "top" /\ jump[t] # <<>>
  BY DEF TakeContext, At
<1> DEFINE d == jump[t][Len(jump[t])]  r == [Top(t) EXCEPT !.pc = "unlock", !.target = d]
           s == stack[t]  z == stack'[t]  j == jump[t]  k == SubSeq(j, 1, Len(j) - 1)
<1>2. /\ s \in Seq(Frames) /\ s # <<>> /\ j \in Seq(Nat) /\ j # <<>> /\ Sound(s, j)
      /\ s[Len(s)] = Top(t) /\ Len(s) \in 1..Len(s) /\ life[t] # "unborn"
      /\ stack \in [Threads -> Seq(Frames)] /\ jump \in [Threads -> Seq(Nat)]
      /\ Top(t) \in Frames
  BY <1>1, ThreadLemma
<1>3. /\ k \in Seq(Nat) /\ Len(k) = Len(j) - 1
      /\ ContextsSound(s, k)
      /\ d \in 1..Len(s) /\ Armed(s[d])
      /\ \A i \in 1..Len(k) : k[i] < d
      /\ \A h \in 1..Len(s) : HasTarget(s[h]) => d < s[h].target
  BY <1>2, PopContextLemma DEF Sound
<1>4. r \in Frames /\ r.fn = Top(t).fn /\ r.pc = "unlock" /\ r.target = d
  <2>1. d \in Nat
    BY <1>3
  <2> QED  BY <1>2, <2>1, TargetFrame
<1>5. SetTop(t, r)
  BY DEF TakeContext
<1>6. /\ z \in Seq(Frames) /\ Len(z) = Len(s) /\ z[Len(s)] = r
      /\ \A i \in 1..(Len(s) - 1) : z[i] = s[i]
      /\ \A u \in Threads : u # t => stack'[u] = stack[u]
      /\ stack' \in [Threads -> Seq(Frames)]
  BY <1>2, <1>4, <1>5, SetTopLemma
<1>7. jump'[t] = k /\ jump' \in [Threads -> Seq(Nat)]
      /\ \A u \in Threads : u # t => jump'[u] = jump[u]
  BY <1>2, <1>3 DEF TakeContext
<1> HIDE DEF d, r, s, z, j, k
<1>8. /\ ~ Armed(Top(t)) /\ ~ HasTarget(Top(t)) /\ HasTarget(r)
      /\ r.pc \in HandlerPCs /\ Top(t).pc \in HandlerPCs
      /\ InCriticalSection(Top(t)) /\ InCriticalSection(r)
  BY <1>1, <1>4 DEF Armed, HasTarget, HandlerPCs, InCriticalSection
<1>9. d \in 1..(Len(s) - 1)
  BY <1>2, <1>3, <1>8
<1>10. ContextsSound(z, k)
  <2>1. \A i \in 1..Len(k) : k[i] \in 1..Len(z) /\ Armed(z[k[i]])
    <3>1. ASSUME NEW i \in 1..Len(k) PROVE k[i] \in 1..Len(z) /\ Armed(z[k[i]])
      <4>1. k[i] \in 1..Len(s) /\ Armed(s[k[i]]) /\ k[i] < d
        BY <1>3 DEF ContextsSound
      <4>2. k[i] \in 1..(Len(s) - 1)
        BY <1>9, <4>1
      <4> QED  BY <1>6, <4>1, <4>2
    <3> QED  BY <3>1
  <2>2. \A i, m \in 1..Len(k) : i < m => k[i] < k[m]
    BY <1>3 DEF ContextsSound
  <2>3. ASSUME NEW h \in 1..Len(z), HasTarget(z[h])
        PROVE  /\ z[h].target \in 1..(h - 1)
               /\ Armed(z[z[h].target])
               /\ \A i \in 1..Len(k) : k[i] < z[h].target
    <3>1. CASE h = Len(s)
      BY <1>3, <1>4, <1>6, <1>9, <3>1
    <3>2. CASE h # Len(s)
      <4>1. h \in 1..(Len(s) - 1) /\ z[h] = s[h] /\ h \in 1..Len(s)
        BY <1>2, <1>6, <3>2
      <4>2. /\ s[h].target \in 1..(h - 1)
            /\ Armed(s[s[h].target])
            /\ \A i \in 1..Len(k) : k[i] < s[h].target
        BY <1>3, <2>3, <4>1 DEF ContextsSound
      <4>3. s[h].target \in 1..(Len(s) - 1)
        BY <4>1, <4>2
      <4>4. z[s[h].target] = s[s[h].target]
        BY <1>6, <4>3
      <4> QED  BY <4>1, <4>2, <4>4
    <3> QED  BY <3>1, <3>2
  <2> QED  BY <2>1, <2>2, <2>3 DEF ContextsSound
<1>11. \A h \in 1..Len(s) : /\ z[h].fn = s[h].fn
                            /\ z[h].pc \in HandlerPCs <=> s[h].pc \in HandlerPCs
                            /\ InCriticalSection(z[h]) <=> InCriticalSection(s[h])
                            /\ z[h] = s[h] \/ (h = Len(s) /\ z[h].pc = "unlock")
  <2>1. \A h \in 1..Len(s) : h = Len(s) \/ (h \in 1..(Len(s) - 1) /\ z[h] = s[h])
    BY <1>2, <1>6
  <2> QED  BY <1>2, <1>4, <1>6, <1>8, <2>1
<1>12. Shape(z)
  <2>1. \A h \in 1..Len(z) : z[h].pc \in {"begin", "pushing"} => z[h].fn \in Guarded
    BY <1>2, <1>6, <1>11 DEF Sound, Shape
  <2>2. Shape(s) /\ Len(z) = Len(s)
    BY <1>2, <1>6 DEF Sound
  <2>3. \A h \in 1..Len(z) : z[h].fn = Handler <=> z[h].pc \in HandlerPCs
    BY <1>11, <2>2 DEF Shape
  <2>4. \A h, m \in 1..Len(z) : h < m /\ z[h].fn = Handler => z[m].fn = Handler
    BY <1>11, <2>2 DEF Shape
  <2> QED  BY <2>1, <2>3, <2>4 DEF Shape
<1>13. Waiting(z)
  <2>1. \A h \in 1..(Len(s) - 1) : ~ InCriticalSection(s[h])
    <3>1. s[Len(s)].pc \notin {"unblock", "lock"} /\ Waiting(s)
      BY <1>1, <1>2 DEF Sound
    <3>2. \A h \in 1..(Len(s) - 1) : h \in 1..Len(s) /\ h < Len(s)
      BY <1>2
    <3> QED  BY <1>2, <3>1, <3>2 DEF Waiting
  <2>2. \A h, m \in 1..Len(z) : h < m => h \in 1..(Len(s) - 1) /\ z[h] = s[h]
    BY <1>2, <1>6
  <2> QED  BY <2>1, <2>2 DEF Waiting
<1>14. Holds(z) <=> Holds(s)
  BY <1>6, <1>11 DEF Holds
<1>15. Sound(stack'[t], jump'[t]) /\ (Holds(stack'[t]) <=> Holds(stack[t]))
  BY <1>7, <1>10, <1>12, <1>13, <1>14 DEF Sound, s, z
<1>16. TypeOK'
  BY <1>6, <1>7 DEF TakeContext, IInv, TypeOK
<1>17. holder' = holder /\ life' = life
  BY DEF TakeContext
<1> QED  BY <1>2, <1>6, <1>7, <1>15, <1>16, <1>17, ComposeStep

LEMMA LongJmpStep == ASSUME IInv, NEW t \in Threads, LongJmp(t) PROVE IInv'
<1>1. stack[t] # <<>> /\ Top(t).pc = "longjmp"
  BY DEF LongJmp, At
<1> DEFINE s == stack[t]  j == jump[t]  d == Top(t).target  c == SubSeq(s, 1, d)
           r == [s[d] EXCEPT !.pc = "raise", !.sig = Top(t).sig]
           z == [c EXCEPT ![d] = r]
<1>2. /\ s \in Seq(Frames) /\ s # <<>> /\ j \in Seq(Nat) /\ Sound(s, j)
      /\ s[Len(s)] = Top(t) /\ Len(s) \in 1..Len(s) /\ life[t] # "unborn"
      /\ stack \in [Threads -> Seq(Frames)] /\ jump \in [Threads -> Seq(Nat)]
      /\ Top(t) \in Frames
  BY <1>1, ThreadLemma
<1>3. /\ d \in 1..(Len(s) - 1) /\ d \in 1..Len(s) /\ Armed(s[d])
      /\ \A i \in 1..Len(j) : j[i] < d
  <2>1. HasTarget(Top(t))
    BY <1>1 DEF HasTarget
  <2>2. /\ d \in 1..(Len(s) - 1) /\ Armed(s[d])
        /\ \A i \in 1..Len(j) : j[i] < d
    BY <1>2, <2>1 DEF Sound, ContextsSound
  <2> QED  BY <1>2, <2>2
<1>4. r \in Frames /\ r.fn = s[d].fn /\ r.pc = "raise"
  <2>1. s[d] \in Frames
    BY <1>2, <1>3
  <2> QED  BY <1>2, <2>1, RaiseFrame
<1>5. stack' = [stack EXCEPT ![t] = z]
  BY DEF LongJmp
<1>6. jump' = jump /\ life' = life /\ holder' = holder
  BY DEF LongJmp
<1> HIDE DEF s, j, d, r, c
<1>7. c \in Seq(Frames) /\ Len(c) = d /\ \A i \in 1..d : c[i] = s[i]
  <2>1. \A i \in 1..d : s[i] \in Frames
    BY <1>2, <1>3
  <2>2. d \in Int /\ 1 \in Int /\ d >= 1 /\ d - 1 + 1 = d /\ \A i \in 1..d : 1 + i - 1 = i
    BY <1>3
  <2>3. /\ SubSeq(s, 1, d) \in Seq(Frames)
        /\ Len(SubSeq(s, 1, d)) = IF 1 <= d THEN d - 1 + 1 ELSE 0
        /\ \A i \in 1..(d - 1 + 1) : SubSeq(s, 1, d)[i] = s[1 + i - 1]
    BY <2>1, <2>2, SubSeqProperties
  <2> QED  BY <2>2, <2>3 DEF c
<1>8. /\ z \in Seq(Frames) /\ Len(z) = d /\ z[d] = r
      /\ \A i \in 1..(d - 1) : z[i] = s[i]
  <2>1. d \in 1..Len(c)
    BY <1>3, <1>7
  <2>2. z \in Seq(Frames) /\ Len(z) = d
        /\ \A i \in 1..d : z[i] = IF i = d THEN r ELSE c[i]
    BY <1>4, <1>7, <2>1, ExceptSeq
  <2> HIDE DEF z
  <2>3. \A i \in 1..(d - 1) : i \in 1..d /\ i # d
    BY <1>3
  <2> QED  BY <1>3, <1>7, <2>1, <2>2, <2>3
<1> HIDE DEF z
\* The mutex was released before longjmp, and nobody below can hold it.
<1>9. \A h \in 1..Len(s) : ~ InCriticalSection(s[h])
  <2>1. ~ InCriticalSection(s[Len(s)])
    BY <1>1, <1>2 DEF InCriticalSection
  <2>2. \A h \in 1..Len(s) : h < Len(s) => ~ InCriticalSection(s[h])
    BY <1>1, <1>2 DEF Sound, Waiting
  <2>3. \A h \in 1..Len(s) : h = Len(s) \/ h < Len(s)
    BY <1>2
  <2> QED  BY <2>1, <2>2, <2>3
<1>10. Sound(z, j) /\ ~ Holds(z)
  BY <1>2, <1>3, <1>4, <1>8, <1>9, CutLemma
<1>11. ~ Holds(s)
  BY <1>9 DEF Holds
<1>12. /\ stack'[t] = z /\ stack' \in [Threads -> Seq(Frames)]
       /\ \A u \in Threads : u # t => stack'[u] = stack[u]
  BY <1>2, <1>5, <1>8
<1>13. Sound(stack'[t], jump'[t]) /\ (Holds(stack'[t]) <=> Holds(stack[t]))
  BY <1>6, <1>10, <1>11, <1>12 DEF s, j
<1>14. TypeOK'
  BY <1>12 DEF LongJmp, IInv, TypeOK
<1> QED  BY <1>2, <1>6, <1>12, <1>13, <1>14, ComposeStep

-----------------------------------------------------------------------------
(* The theorems *)

LEMMA InitInvariant == Init => IInv
<1> SUFFICES ASSUME Init PROVE IInv
  OBVIOUS
<1> DEFINE r == NewFrame(Entry[Main])
<1>1. r \in Frames /\ r.fn # Handler /\ r.pc \in {"begin", "body"}
      /\ (r.pc = "begin" => r.fn \in Guarded)
  BY ThreadsAssumption, ProgramAssumption, NewFrameType
<1>2. <<r>> \in Seq(Frames) /\ Len(<<r>>) = 1 /\ <<r>>[1] = r
  BY <1>1
<1>3. stack = [t \in Threads |-> IF t = Main THEN <<r>> ELSE <<>>]
  BY DEF Init
<1> DEFINE x == <<r>>
<1>4. /\ x \in Seq(Frames) /\ Len(x) = 1 /\ x[1] = r
      /\ stack = [t \in Threads |-> IF t = Main THEN x ELSE <<>>]
  BY <1>2, <1>3
<1> HIDE DEF r, x
<1>5. stack \in [Threads -> Seq(Frames)]
  <2>1. <<>> \in Seq(Frames)
    OBVIOUS
  <2> QED  BY <1>4, <2>1
<1>6. TypeOK
  <2>1. jump \in [Threads -> Seq(Nat)]
    BY DEF Init
  <2>2. /\ known \in [Maps -> SUBSET Threads] /\ inserting \in [Maps -> SUBSET Threads]
        /\ callStack \in [Threads -> Nat] /\ blocked \in [Threads -> SUBSET Signals]
        /\ life \in [Threads -> {"unborn", "live", "exited"}]
    BY DEF Init
  <2>3. interrupts \in 0..MaxInterrupts
    BY BoundAssumption DEF Init
  <2> QED  BY <1>5, <2>1, <2>2, <2>3 DEF Init, TypeOK
<1>7. ASSUME NEW t \in Threads
      PROVE  Sound(stack[t], jump[t]) /\ ~ Holds(stack[t])
  <2>1. jump[t] = <<>> /\ Len(jump[t]) = 0
    BY DEF Init
  <2>2. stack[t] = x \/ stack[t] = <<>>
    BY <1>4
  <2>3. /\ \A h \in 1..Len(stack[t]) : stack[t][h] = r
        /\ \A h, k \in 1..Len(stack[t]) : ~ (h < k)
    <3>1. CASE stack[t] = x
      <4>0. Len(stack[t]) = 1
        BY <1>4, <3>1
      <4>1. \A h \in 1..Len(stack[t]) : h = 1
        BY <4>0
      <4>2. stack[t][1] = r
        BY <1>4, <3>1
      <4>3. \A h \in 1..Len(stack[t]) : stack[t][h] = r
        BY <4>1, <4>2
      <4>4. ~ (1 < 1)
        OBVIOUS
      <4>5. \A h, k \in 1..Len(stack[t]) : ~ (h < k)
        BY <4>1, <4>4
      <4> QED  BY <4>3, <4>5
    <3>2. CASE stack[t] = <<>>
      BY <3>2
    <3> QED  BY <2>2, <3>1, <3>2
  <2>4. ~ HasTarget(r) /\ ~ InCriticalSection(r) /\ r.pc \notin HandlerPCs
    BY <1>1 DEF HasTarget, InCriticalSection, HandlerPCs
  <2>5. ContextsSound(stack[t], jump[t])
    BY <2>1, <2>3, <2>4 DEF ContextsSound
  <2>6. Shape(stack[t])
    BY <1>1, <2>3, <2>4 DEF Shape
  <2> QED  BY <2>3, <2>4, <2>5, <2>6 DEF Sound, Waiting, Holds
<1>8. \A t \in Threads : holder # t /\ (life[t] = "unborn" => stack[t] = <<>>)
  BY <1>4, ThreadsAssumption DEF Init
<1> QED  BY <1>6, <1>7, <1>8 DEF IInv

LEMMA NextInvariant == IInv /\ [Next]_vars => IInv'
<1> SUFFICES ASSUME IInv, [Next]_vars PROVE IInv'
  OBVIOUS
<1>1. CASE UNCHANGED vars
  <2>1. TypeOK'
    BY <1>1 DEF vars, IInv, TypeOK
  <2> QED  BY <1>1, <2>1, FrozenStep DEF vars
<1>2. ASSUME NEW t \in Threads, Step(t) PROVE IInv'
  BY <1>2, SpawnStep, JoinStep, InitLockStep, InitUnlockStep, SigActionStep, WorkStep,
     CallStep, ReturnStep, BeginStep, PushContextStep, EndStep, RaiseStep, ReportStep,
     FaultStep, UnblockStep, LockStep, SymboliseStep, RecordStep, TakeContextStep,
     NoContextStep, UnlockStep, LongJmpStep
     DEF Step
<1>3. ASSUME NEW t \in Threads, KeyPressed(t) PROVE IInv'
  BY <1>3, KeyPressedStep
<1>4. ASSUME NEW t \in Threads, Interrupt(t) PROVE IInv'
  BY <1>4, InterruptStep
<1> QED  BY <1>1, <1>2, <1>3, <1>4 DEF Next, Over

\* The inductive invariant holds in every reachable state.
THEOREM Invariance == Spec => []IInv
BY InitInvariant, NextInvariant, PTL DEF Spec

\* Types: in particular every depth a handler jumps to is a natural number and
\* every activation record stays well formed when the stack is cut.
THEOREM TypeCorrect == Spec => []TypeOK
<1>1. IInv => TypeOK
  BY DEF IInv
<1> QED  BY <1>1, Invariance, PTL

\* longjmp (SystemUtilities.hpp:320) never enters an activation that has
\* returned or left its guarded body, in any program that uses the macros, with
\* any number of threads and interrupts, data races on the maps included.
THEOREM JumpStackIsSound == Spec => []JumpStackSound
<1>1. IInv => JumpStackSound
  BY DEF IInv, Sound, JumpStackSound
<1> QED  BY <1>1, Invariance, PTL

\* global_jump_mutex is held exactly while an activation of its holder is in the
\* critical section (SystemUtilities.hpp:298-318): nested handlers and longjmp
\* never abandon it.
THEOREM MutexIsSound == Spec => []MutexSound
<1>1. ASSUME IInv PROVE MutexSound
  <2>1. ASSUME NEW t \in Threads
        PROVE  /\ holder = t <=> \E h \in 1..Depth(t) : InCriticalSection(stack[t][h])
               /\ \A h, k \in 1..Depth(t) :
                    InCriticalSection(stack[t][h]) /\ InCriticalSection(stack[t][k]) => h = k
    <3>1. holder = t <=> \E h \in 1..Depth(t) : InCriticalSection(stack[t][h])
      BY <1>1 DEF IInv, Holds, Depth
    <3>2. \A h, k \in 1..Depth(t) : h < k =>
            ~ (InCriticalSection(stack[t][h]) /\ InCriticalSection(stack[t][k]))
      BY <1>1 DEF IInv, Sound, Waiting, Depth, InCriticalSection
    <3>3. Depth(t) \in Nat
      BY <1>1 DEF IInv, TypeOK, Depth
    <3> QED  BY <3>1, <3>2, <3>3
  <2> QED  BY <2>1 DEF MutexSound
<1> QED  BY <1>1, Invariance, PTL

=============================================================================
