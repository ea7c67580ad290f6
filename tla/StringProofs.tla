---------------------------- MODULE StringProofs ----------------------------
(***************************************************************************)
(* Theorems about String, for every number of strings and every set of     *)
(* texts and sizes, as long as an int can hold a length.                   *)
(*                                                                         *)
(* A string is sound when it has no buffer and no length, or a buffer that *)
(* holds its text and NUL bytes behind it, and grows by a step that is not *)
(* zero.  Each private member is followed from a sound string to a sound   *)
(* one, and to the text it leaves; each call then does one of three things *)
(* (Does): it replaces a part of the text, leaves a text that depends on   *)
(* what the memory held, or ends the program.  Between two calls every     *)
(* string is sound or destroyed (IInv), from which follow the terminator,  *)
(* what may end a program, the step of StringValues that every call takes, *)
(* and what a search finds.                                                *)
(***************************************************************************)
EXTENDS String, SequenceTheorems, WellFoundedInduction, TLAPS

-----------------------------------------------------------------------------
(* What a string is *)

Buffers == {Null} \union UNION {[0..c -> Bytes] : c \in Nat}
Members == [buf : Buffers, len : Nat, cap : Nat, by : Nat]

\* A string with a buffer, whose bytes behind the text are NUL; one with none.
Held(s) == /\ s.buf \in [0..s.cap -> Bytes]
           /\ s.len <= s.cap
           /\ \A i \in s.len..s.cap : s.buf[i] = NUL
Bare(s) == s.buf = Null /\ s.len = 0 /\ s.cap = 0

Sound(s) == s \in Members /\ s.by >= IncreaseBy /\ (Held(s) \/ Bare(s))

\* The state between two calls.
Settled(s) == s = NoString \/ (Sound(s) /\ s.len <= MaxLen)

IInv == /\ str \in [Strings -> Members]
        /\ \A v \in Strings : Settled(str[v])

\* t has the text of s.
SameText(t, s) == t.len = s.len /\ \A i \in 0..(s.len - 1) : t.buf[i] = s.buf[i]

-----------------------------------------------------------------------------
(* Private members *)

LEMMA Bounds == /\ IncreaseBy \in Nat /\ IncreaseBy > 0 /\ MaxBy \in Nat /\ MaxLen \in Nat
                /\ MaxShared \in Nat /\ MaxShared <= MaxLen /\ MaxLen < 126
                /\ NUL \in Bytes /\ Chars \subseteq Bytes
                /\ Inputs \subseteq Seq(Chars) /\ Sizes \subseteq Nat
BY BoundAssumption, WidthAssumption DEF Bytes, Word

LEMMA BufferIsNotNull ==
  ASSUME NEW c \in Nat, NEW b \in [0..c -> Bytes]
  PROVE  b # Null /\ DOMAIN b = 0..c /\ b \in Buffers
<1>1. 0 \in DOMAIN b /\ DOMAIN Null = {}
  BY DEF Null
<1> QED  BY <1>1 DEF Buffers

LEMMA HeldIsNotNull ==
  ASSUME NEW s \in Members, Held(s)
  PROVE  s.buf # Null /\ DOMAIN s.buf = 0..s.cap
<1>1. s.cap \in Nat
  BY DEF Members
<1> QED  BY <1>1, BufferIsNotNull DEF Held

LEMMA NewStringIsSound == Sound(NewString) /\ Bare(NewString)
BY Bounds DEF Sound, Members, NewString, Bare, Buffers

\* A string from its parts.
LEMMA Built ==
  ASSUME NEW b, NEW l \in Nat, NEW c \in Nat, NEW y \in Nat, y >= IncreaseBy,
         b \in [0..c -> Bytes], l <= c, \A i \in l..c : b[i] = NUL
  PROVE  LET s == [buf |-> b, len |-> l, cap |-> c, by |-> y] IN Sound(s) /\ Held(s)
<1>1. b \in Buffers
  BY BufferIsNotNull
<1> QED  BY <1>1 DEF Sound, Members, Held

\* _setCapacity() keeps the text.
LEMMA SetCapacitySound ==
  ASSUME NEW s, Sound(s), NEW c \in Nat
  PROVE  /\ Sound(SetCapacity(s, c)) /\ SameText(SetCapacity(s, c), s)
         /\ SetCapacity(s, c).by = s.by
         /\ SetCapacity(s, c).cap \in {s.cap, c} /\ (Held(s) => Held(SetCapacity(s, c)))
         /\ c >= s.len => Held(SetCapacity(s, c)) /\ SetCapacity(s, c).cap = c
<1> DEFINE t == SetCapacity(s, c)
           b == [i \in 0..c |-> IF i < s.len THEN s.buf[i] ELSE NUL]
<1>1. s \in Members /\ s.len \in Nat /\ s.cap \in Nat /\ s.by \in Nat /\ s.by >= IncreaseBy
  BY DEF Sound, Members
<1>2. CASE (s.cap = c /\ s.buf # Null) \/ c < s.len
  <2>1. t = s
    BY <1>2 DEF SetCapacity
  <2>2. c >= s.len => Held(s) /\ s.cap = c
    BY <1>1, <1>2 DEF Sound, Bare
  <2> QED  BY <2>1, <2>2 DEF SameText
<1>3. CASE ~ ((s.cap = c /\ s.buf # Null) \/ c < s.len)
  <2>1. t = [buf |-> b, len |-> s.len, cap |-> c, by |-> s.by]
    BY <1>1, <1>3 DEF SetCapacity, Members
  <2>2. \A i \in 0..(s.len - 1) : s.buf[i] \in Bytes
    BY <1>1 DEF Sound, Held, Bare
  <2>3. b \in [0..c -> Bytes]
    BY <1>1, <2>2, Bounds
  <2>4. \A i \in s.len..c : b[i] = NUL
    BY <1>1
  <2>5. \A i \in 0..(s.len - 1) : b[i] = s.buf[i]
    BY <1>1, <1>3
  <2> HIDE DEF b, t
  <2>6. Sound(t) /\ Held(t)
    BY <1>1, <1>3, <2>1, <2>3, <2>4, Built
  <2> QED  BY <2>1, <2>5, <2>6 DEF SameText, t
<1> QED  BY <1>2, <1>3

LEMMA Division ==
  ASSUME NEW d \in Nat, NEW k \in Nat, k > 0
  PROVE  d \div k \in Nat /\ (d \div k + 1) * k \in Nat /\ (d \div k + 1) * k > d
OBVIOUS

\* _increaseCapacity() makes room for n bytes and a terminator, and keeps the text.
Roomier(t, s, n) == /\ Sound(t) /\ Held(t) /\ SameText(t, s) /\ t.cap > n
                    /\ Held(s) => t.cap = s.cap \/ s.cap <= n

LEMMA IncreaseCapacitySound ==
  ASSUME NEW s, Sound(s), NEW n \in Nat, n >= s.len
  PROVE  Roomier(IncreaseCapacity(s, n), s, n)
<1>1. s \in Members /\ s.len \in Nat /\ s.cap \in Nat /\ s.by \in Nat /\ s.by >= IncreaseBy /\ s.by > 0
  BY Bounds DEF Sound, Members
<1>2. CASE Fits(s, n)
  BY <1>1, <1>2 DEF Fits, IncreaseCapacity, Roomier, SameText, Sound, Bare
<1>3. CASE ~ Fits(s, n)
  <2> DEFINE steps == IF s.cap > n THEN 0 ELSE (n - s.cap) \div s.by + 1
             c == s.cap + steps * s.by
             r == [s EXCEPT !.by = @ + 1]
  <2>1. c \in Nat /\ c > n
    <3>1. CASE s.cap > n
      BY <1>1, <3>1
    <3>2. CASE s.cap <= n
      <4>1. n - s.cap \in Nat
        BY <1>1, <3>2
      <4> DEFINE d == n - s.cap
      <4>2. (d \div s.by + 1) * s.by \in Nat /\ (d \div s.by + 1) * s.by > d
        BY <1>1, <4>1, Division
      <4>3. c = s.cap + (d \div s.by + 1) * s.by
        BY <1>1, <3>2
      <4> QED  BY <1>1, <4>2, <4>3
    <3> QED  BY <1>1, <3>1, <3>2
  <2>2. r = [buf |-> s.buf, len |-> s.len, cap |-> s.cap, by |-> s.by + 1]
    BY <1>1 DEF Members
  <2>3. Sound(r) /\ r.len = s.len
    <3>1. r \in Members /\ r.by = s.by + 1
      BY <1>1, <2>2 DEF Members
    <3>2. Held(s) => Held(r)
      BY <2>2 DEF Held
    <3>3. Bare(s) => Bare(r)
      BY <2>2 DEF Bare
    <3> HIDE DEF r
    <3> QED  BY <1>1, <3>1, <3>2, <3>3, Bounds, <2>2 DEF Sound
  <2>4. IncreaseCapacity(s, n) = SetCapacity(r, c)
    BY <1>3 DEF IncreaseCapacity
  <2> HIDE DEF c, r
  <2>5. c >= r.len
    BY <1>1, <2>1, <2>3
  <2>6. /\ Sound(SetCapacity(r, c)) /\ SameText(SetCapacity(r, c), r)
        /\ Held(SetCapacity(r, c)) /\ SetCapacity(r, c).cap = c
    BY <2>1, <2>3, <2>5, SetCapacitySound
  <2>7. SameText(SetCapacity(r, c), s)
    BY <2>2, <2>6 DEF SameText
  <2>8. Held(s) => s.cap <= n
    BY <1>1, <1>3, HeldIsNotNull DEF Fits
  <2> QED  BY <2>1, <2>4, <2>6, <2>7, <2>8 DEF Roomier
<1> QED  BY <1>2, <1>3

\* _decreaseCapacity() keeps the text.
LEMMA DecreaseCapacitySound ==
  ASSUME NEW s, Sound(s), NEW c \in Nat
  PROVE  LET t == DecreaseCapacity(s, c) IN
         /\ Sound(t) /\ SameText(t, s) /\ (Held(s) => Held(t))
         /\ t.cap = s.cap \/ (t.cap = c /\ c <= s.cap)
<1> DEFINE r == [s EXCEPT !.by = IF @ > IncreaseBy THEN @ - 1 ELSE @]
           y == IF s.by > IncreaseBy THEN s.by - 1 ELSE s.by
<1>1. s \in Members /\ s.len \in Nat /\ s.cap \in Nat /\ s.by \in Nat /\ s.by >= IncreaseBy
  BY DEF Sound, Members
<1>2. r = [buf |-> s.buf, len |-> s.len, cap |-> s.cap, by |-> y] /\ y \in Nat /\ y >= IncreaseBy
  BY <1>1, Bounds DEF Members
<1> HIDE DEF y
<1>3. r \in Members /\ r.by = y /\ r.len = s.len /\ r.buf = s.buf /\ r.cap = s.cap
  BY <1>1, <1>2 DEF Members
<1> HIDE DEF r
<1>4. Sound(r) /\ (Held(s) => Held(r))
  BY <1>2, <1>3 DEF Sound, Held, Bare
<1>5. CASE s.cap < c
  BY <1>5 DEF DecreaseCapacity, SameText
<1>6. CASE ~ (s.cap < c)
  <2>1. DecreaseCapacity(s, c) = SetCapacity(r, c)
    BY <1>6 DEF DecreaseCapacity, r
  <2>2. /\ Sound(SetCapacity(r, c)) /\ SameText(SetCapacity(r, c), r)
        /\ SetCapacity(r, c).cap \in {r.cap, c} /\ (Held(r) => Held(SetCapacity(r, c)))
    BY <1>4, SetCapacitySound
  <2>3. c <= s.cap
    BY <1>1, <1>6
  <2> QED  BY <1>3, <1>4, <2>1, <2>2, <2>3 DEF SameText
<1> QED  BY <1>5, <1>6

\* s with other bytes in its buffer, and so many characters.
With(s, b, n) == [[s EXCEPT !.buf = b] EXCEPT !.len = n]
Takes(t, s, b, n) == Sound(t) /\ Held(t) /\ t.buf = b /\ t.len = n /\ t.cap = s.cap

LEMMA Rewritten ==
  ASSUME NEW s, Sound(s), Held(s), NEW b \in [0..s.cap -> Bytes], NEW n \in 0..s.cap,
         \A i \in n..s.cap : b[i] = NUL
  PROVE  Takes(With(s, b, n), s, b, n)
<1>1. s \in Members /\ s.len \in Nat /\ s.cap \in Nat /\ s.by \in Nat /\ s.by >= IncreaseBy
  BY DEF Sound, Members
<1>2. With(s, b, n) = [buf |-> b, len |-> n, cap |-> s.cap, by |-> s.by]
  <2>1. [s EXCEPT !.buf = b] = [buf |-> b, len |-> s.len, cap |-> s.cap, by |-> s.by]
    BY <1>1 DEF Members
  <2> DEFINE r == [s EXCEPT !.buf = b]
  <2>2. r \in Members /\ r.buf = b /\ r.len = s.len /\ r.cap = s.cap /\ r.by = s.by
    BY <1>1, <2>1, BufferIsNotNull DEF Members
  <2>3. With(s, b, n) = [r EXCEPT !.len = n]
    BY DEF With
  <2> HIDE DEF r
  <2> QED  BY <2>2, <2>3 DEF Members
<1>3. Sound(With(s, b, n)) /\ Held(With(s, b, n))
  BY <1>1, <1>2, Built
<1> QED  BY <1>2, <1>3 DEF Takes

\* _clear_str() leaves the characters in front of pos.
Cut(t, s, pos) == /\ Sound(t) /\ Held(t) /\ t.len = pos /\ t.cap = s.cap
                  /\ \A i \in 0..(pos - 1) : t.buf[i] = s.buf[i]

LEMMA ClearStrSound ==
  ASSUME NEW s, Sound(s), Held(s), NEW pos \in 0..s.len
  PROVE  Cut(ClearStr(s, pos), s, pos)
<1> DEFINE b == [i \in DOMAIN s.buf |-> IF i \in pos..(s.len - 1) THEN NUL
                                        ELSE IF i = s.len THEN NUL ELSE s.buf[i]]
<1>1. s \in Members /\ s.len \in Nat /\ s.cap \in Nat
  BY DEF Sound, Members
<1>2. DOMAIN s.buf = 0..s.cap /\ s.len <= s.cap /\ s.buf \in [0..s.cap -> Bytes]
      /\ \A i \in s.len..s.cap : s.buf[i] = NUL
  BY <1>1, HeldIsNotNull DEF Held
<1>3. b \in [0..s.cap -> Bytes] /\ \A i \in pos..s.cap : b[i] = NUL
  BY <1>1, <1>2, Bounds
<1>4. \A i \in 0..(pos - 1) : b[i] = s.buf[i]
  BY <1>1, <1>2
<1>5. ClearStr(s, pos) = With(s, b, pos)
  BY <1>1 DEF ClearStr, FillStr, Members, With
<1> HIDE DEF b
<1>6. pos \in 0..s.cap
  BY <1>1, <1>2
<1>7. Takes(ClearStr(s, pos), s, b, pos)
  BY <1>3, <1>5, <1>6, Rewritten
<1> QED  BY <1>4, <1>7 DEF Cut, Takes

\* _append() puts w behind the text.
Appended(t, s, w) ==
  /\ Sound(t) /\ t.len = s.len + Len(w)
  /\ \A i \in 0..(s.len - 1) : t.buf[i] = s.buf[i]
  /\ \A k \in 1..Len(w) : t.buf[s.len + k - 1] = w[k]

LEMMA PutSound ==
  ASSUME NEW s, Sound(s), NEW w \in Seq(Bytes)
  PROVE  /\ Appended(Put(s, w), s, w) /\ (Held(s) \/ w # <<>> => Held(Put(s, w)))
         /\ w # <<>> => Put(s, w).cap = IncreaseCapacity(s, s.len + Len(w)).cap
<1> DEFINE n == s.len + Len(w)
           t == IncreaseCapacity(s, n)
           b == Written(t.buf, s.len, w)
           r == [t EXCEPT !.buf = Written(@, s.len, w)]
<1>1. s \in Members /\ s.len \in Nat /\ s.cap \in Nat
  BY DEF Sound, Members
<1>2. CASE w = <<>>
  BY <1>1, <1>2 DEF Put, Appended
<1>3. CASE w # <<>>
  <2>1. Len(w) \in Nat /\ Len(w) > 0 /\ n \in Nat /\ n > s.len /\ n >= s.len
    BY <1>1, <1>3
  <2>2. Put(s, w) = SetLength(r, n)
    BY <1>3 DEF Put
  <2>3. Roomier(t, s, n)
    <3> HIDE DEF n
    <3> QED  BY <2>1, IncreaseCapacitySound
  <2> HIDE DEF t
  <2>4. /\ Sound(t) /\ Held(t) /\ t \in Members /\ t.len = s.len /\ t.cap \in Nat /\ n < t.cap
        /\ \A i \in 0..(s.len - 1) : t.buf[i] = s.buf[i]
        /\ t.buf \in [0..t.cap -> Bytes] /\ \A i \in t.len..t.cap : t.buf[i] = NUL
    BY <2>3 DEF Roomier, SameText, Sound, Held, Members
  <2>5. DOMAIN t.buf = 0..t.cap
    BY <2>4
  <2>6. /\ DOMAIN b = 0..t.cap
        /\ \A i \in 0..t.cap : b[i] = IF i \in s.len..(n - 1) THEN w[i - s.len + 1]
                                      ELSE IF i = n THEN NUL ELSE t.buf[i]
    BY <1>1, <2>1, <2>5 DEF Written
  <2>7. b \in [0..t.cap -> Bytes]
    <3>1. \A i \in s.len..(n - 1) : w[i - s.len + 1] \in Bytes
      BY <1>1, <2>1
    <3>2. \A i \in 0..t.cap : b[i] \in Bytes
      BY <1>1, <2>1, <2>4, <2>6, <3>1, Bounds
    <3>3. b = [i \in 0..t.cap |-> b[i]]
      BY <2>5 DEF Written
    <3> QED  BY <3>2, <3>3
  <2>8. ASSUME NEW i \in n..t.cap PROVE b[i] = NUL
    <3>1. i \in 0..t.cap /\ i \notin s.len..(n - 1) /\ i \in t.len..t.cap
      BY <1>1, <2>1, <2>4
    <3> QED  BY <2>4, <2>6, <3>1
  <2>9. /\ \A i \in 0..(s.len - 1) : b[i] = s.buf[i]
        /\ \A k \in 1..Len(w) : b[s.len + k - 1] = w[k]
    <3>1. \A i \in 0..(s.len - 1) : b[i] = s.buf[i]
      BY <1>1, <2>1, <2>4, <2>6
    <3>2. ASSUME NEW k \in 1..Len(w) PROVE b[s.len + k - 1] = w[k]
      <4>1. /\ s.len + k - 1 \in 0..t.cap /\ s.len + k - 1 \in s.len..(n - 1)
            /\ (s.len + k - 1) - s.len + 1 = k
        BY <1>1, <2>1, <2>4
      <4> QED  BY <2>6, <4>1
    <3> QED  BY <3>1, <3>2
  <2>10. SetLength(r, n) = With(t, b, n)
    <3>1. r = [t EXCEPT !.buf = b]
      OBVIOUS
    <3>2. r.len = s.len /\ r.cap = t.cap /\ With(t, b, n) = [r EXCEPT !.len = n]
      <4> HIDE DEF b, r
      <4> QED  BY <2>4, <3>1 DEF Members, With
    <3> HIDE DEF r, n
    <3> QED  BY <1>1, <2>1, <2>4, <3>2 DEF SetLength
  <2> HIDE DEF b, n
  <2>11. Takes(Put(s, w), t, b, n)
    <3>1. n \in 0..t.cap
      BY <2>1, <2>4
    <3> QED  BY <2>2, <2>4, <2>7, <2>8, <2>10, <3>1, Rewritten
  <2> QED  BY <2>9, <2>11 DEF Appended, Takes, n, t
<1> QED  BY <1>2, <1>3

\* _setLength() cuts the text, or adds NULs.
Resized(t, s, n) == /\ Sound(t) /\ t.len = n
                    /\ \A i \in 0..(s.len - 1) : i < n => t.buf[i] = s.buf[i]
                    /\ \A i \in s.len..(n - 1) : t.buf[i] = NUL
                    /\ Held(s) \/ n # s.len => Held(t)
                    /\ Held(s) => t.cap = s.cap \/ s.cap < n

LEMMA SetLengthSound ==
  ASSUME NEW s, Sound(s), NEW n \in Nat
  PROVE  Resized(SetLength(s, n), s, n)
<1>1. s \in Members /\ s.len \in Nat /\ s.cap \in Nat /\ s.by \in Nat /\ s.by >= IncreaseBy
  BY DEF Sound, Members
<1>2. CASE s.len > n
  <2>1. Held(s) /\ n \in 0..s.len
    BY <1>1, <1>2 DEF Sound, Bare
  <2>2. SetLength(s, n) = ClearStr(s, n)
    BY <1>2 DEF SetLength
  <2>3. Cut(ClearStr(s, n), s, n)
    BY <2>1, ClearStrSound
  <2> QED  BY <1>1, <1>2, <2>2, <2>3 DEF Cut, Resized
<1>3. CASE s.len = n
  <2>1. ~ (s.cap < n) /\ ~ (s.len > n)
    BY <1>1, <1>3 DEF Sound, Held, Bare
  <2>2. SetLength(s, n) = [s EXCEPT !.len = n]
    BY <2>1 DEF SetLength
  <2>3. [s EXCEPT !.len = n] = s
    BY <1>1, <1>3 DEF Members
  <2> QED  BY <1>1, <1>3, <2>2, <2>3 DEF Resized
<1>4. CASE s.len < n
  <2> DEFINE t == IF s.cap < n THEN IncreaseCapacity(s, n) ELSE s
  <2>1. Sound(t) /\ Held(t) /\ SameText(t, s) /\ n <= t.cap /\ (t.cap = s.cap \/ s.cap < n)
    <3>1. CASE s.cap < n
      <4>1. Roomier(IncreaseCapacity(s, n), s, n)
        BY <1>1, <1>4, IncreaseCapacitySound
      <4>2. IncreaseCapacity(s, n).cap \in Nat
        BY <4>1 DEF Roomier, Sound, Members
      <4> QED  BY <3>1, <4>1, <4>2 DEF Roomier
    <3>2. CASE ~ (s.cap < n)
      BY <1>1, <1>4, <3>2 DEF Sound, Bare, SameText
    <3> QED  BY <3>1, <3>2
  <2>2. SetLength(s, n) = [t EXCEPT !.len = n]
    BY <1>1, <1>4 DEF SetLength
  <2> HIDE DEF t
  <2>3. t \in Members /\ t.cap \in Nat /\ t.len = s.len /\ n \in 0..t.cap
        /\ t.buf \in [0..t.cap -> Bytes] /\ \A i \in t.len..t.cap : t.buf[i] = NUL
    BY <2>1 DEF Sound, Members, Held, SameText
  <2>4. With(t, t.buf, n) = [t EXCEPT !.len = n]
    BY <2>3 DEF With, Members
  <2>5. \A i \in n..t.cap : t.buf[i] = NUL
    BY <1>1, <1>4, <2>3
  <2>6. Takes(SetLength(s, n), t, t.buf, n)
    BY <2>1, <2>2, <2>3, <2>4, <2>5, Rewritten
  <2>7. \A i \in s.len..(n - 1) : t.buf[i] = NUL
    BY <1>1, <2>3
  <2>8. /\ Sound(SetLength(s, n)) /\ Held(SetLength(s, n)) /\ SetLength(s, n).len = n
        /\ SetLength(s, n).buf = t.buf /\ (SetLength(s, n).cap = s.cap \/ s.cap < n)
    BY <2>1, <2>6 DEF Takes
  <2>9. \A i \in 0..(s.len - 1) : t.buf[i] = s.buf[i]
    BY <2>1 DEF SameText
  <2> QED  BY <2>7, <2>8, <2>9 DEF Resized
<1> QED  BY <1>1, <1>2, <1>3, <1>4

\* _fill_str() writes c from pos up to the end.
Filled(t, s, pos, c) ==
  /\ Sound(t) /\ Held(t) /\ t.len = s.len /\ t.cap = s.cap
  /\ \A i \in 0..(s.len - 1) : t.buf[i] = IF i < pos THEN s.buf[i] ELSE c

LEMMA FillStrSound ==
  ASSUME NEW s, Sound(s), Held(s), NEW pos \in Nat, NEW c \in Bytes
  PROVE  Filled(FillStr(s, pos, c), s, pos, c)
<1> DEFINE b == [i \in DOMAIN s.buf |-> IF i \in pos..(s.len - 1) THEN c
                                        ELSE IF i = s.len THEN NUL ELSE s.buf[i]]
<1>1. s \in Members /\ s.len \in Nat /\ s.cap \in Nat
  BY DEF Sound, Members
<1>2. DOMAIN s.buf = 0..s.cap /\ s.len <= s.cap /\ s.buf \in [0..s.cap -> Bytes]
      /\ \A i \in s.len..s.cap : s.buf[i] = NUL
  BY <1>1, HeldIsNotNull DEF Held
<1>3. b \in [0..s.cap -> Bytes] /\ \A i \in s.len..s.cap : b[i] = NUL
  BY <1>1, <1>2, Bounds
<1>4. \A i \in 0..(s.len - 1) : b[i] = IF i < pos THEN s.buf[i] ELSE c
  BY <1>1, <1>2
<1>5. FillStr(s, pos, c) = [s EXCEPT !.buf = b]
  BY <1>1 DEF FillStr, Members
<1> HIDE DEF b
<1>6. With(s, b, s.len) = [s EXCEPT !.buf = b]
  BY <1>1 DEF With, Members
<1>7. Takes(FillStr(s, pos, c), s, b, s.len)
  BY <1>1, <1>2, <1>3, <1>5, <1>6, Rewritten
<1> QED  BY <1>4, <1>7 DEF Takes, Filled

\* _erase() takes n characters out.
LEMMA EraseStrSound ==
  ASSUME NEW s, Sound(s), Held(s), NEW pos \in Nat, NEW n \in Nat, pos + n <= s.len
  PROVE  LET t == EraseStr(s, pos, n) IN
         /\ Sound(t) /\ Held(t) /\ t.len = s.len - n /\ t.cap = s.cap
         /\ \A i \in 0..(s.len - n - 1) : t.buf[i] = IF i < pos THEN s.buf[i] ELSE s.buf[i + n]
<1> DEFINE b == [i \in DOMAIN s.buf |-> IF i \in pos..(s.len - n - 1) THEN s.buf[i + n] ELSE s.buf[i]]
           r == [s EXCEPT !.buf = b]
<1>1. s \in Members /\ s.len \in Nat /\ s.cap \in Nat
  BY DEF Sound, Members
<1>2. DOMAIN s.buf = 0..s.cap /\ s.len <= s.cap /\ s.buf \in [0..s.cap -> Bytes]
      /\ \A i \in s.len..s.cap : s.buf[i] = NUL
  BY <1>1, HeldIsNotNull DEF Held
<1>3. b \in [0..s.cap -> Bytes] /\ \A i \in s.len..s.cap : b[i] = NUL
  <2>1. ASSUME NEW i \in pos..(s.len - n - 1) PROVE i + n \in 0..s.cap /\ s.buf[i + n] \in Bytes
    <3>1. i + n \in 0..s.cap
      BY <1>1, <1>2
    <3> QED  BY <1>2, <3>1
  <2>2. \A i \in 0..s.cap : b[i] \in Bytes
    BY <1>2, <2>1
  <2>3. \A i \in s.len..s.cap : b[i] = NUL
    BY <1>1, <1>2
  <2> QED  BY <1>2, <2>2, <2>3
<1>4. \A i \in 0..(s.len - n - 1) : b[i] = IF i < pos THEN s.buf[i] ELSE s.buf[i + n]
  BY <1>1, <1>2
<1>5. EraseStr(s, pos, n) = ClearStr(r, s.len - n)
  BY <1>1 DEF EraseStr, Members
<1> HIDE DEF b
<1>6. With(s, b, s.len) = r
  BY <1>1 DEF With, Members
<1>7. Takes(r, s, b, s.len)
  BY <1>1, <1>2, <1>3, <1>6, Rewritten
<1> HIDE DEF r
<1>8. Cut(ClearStr(r, s.len - n), r, s.len - n)
  <2>1. s.len - n \in 0..r.len
    BY <1>1, <1>7 DEF Takes
  <2> QED  BY <1>7, <2>1, ClearStrSound DEF Takes
<1> QED  BY <1>4, <1>5, <1>7, <1>8 DEF Takes, Cut

-----------------------------------------------------------------------------
(* Texts *)

\* Induction: a property of all numbers has no smallest counterexample.
LEMMA Minimum ==
  ASSUME NEW T \in SUBSET Nat, T # {}
  PROVE  Min(T) \in T /\ \A y \in T : Min(T) <= y
<1>1. IsWellFoundedOn(OpToRel(<, Nat), Nat)
  BY NatLessThanWellFounded
<1>2. PICK x \in T : \A y \in T : ~ (<<y, x>> \in OpToRel(<, Nat))
  BY <1>1, WFMin
<1>3. ASSUME NEW y \in T, y < x PROVE FALSE
  <2> DEFINE p == <<y, x>>
  <2>1. p \in Nat \X Nat /\ p[1] = y /\ p[2] = x
    OBVIOUS
  <2> HIDE DEF p
  <2>2. p \in OpToRel(<, Nat)
    BY <1>3, <2>1 DEF OpToRel
  <2> QED  BY <1>2, <2>2 DEF p
<1>4. \A y \in T : x \in Nat /\ y \in Nat
  OBVIOUS
<1>5. \E z \in T : \A y \in T : z <= y
  BY <1>3, <1>4
<1> QED  BY <1>5 DEF Min

LEMMA IsMinimum ==
  ASSUME NEW T \in SUBSET Nat, NEW x \in T, \A y \in T : x <= y
  PROVE  Min(T) = x
<1>1. Min(T) \in T /\ \A y \in T : Min(T) <= y
  BY Minimum
<1>2. Min(T) \in Nat /\ x \in Nat /\ Min(T) <= x /\ x <= Min(T)
  BY <1>1
<1> QED  BY <1>2

LEMMA TextType ==
  ASSUME NEW s, Sound(s)
  PROVE  /\ Text(s) \in Seq(Bytes) /\ Len(Text(s)) = s.len /\ s.len \in Nat
         /\ \A k \in 1..s.len : Text(s)[k] = s.buf[k - 1]
         /\ \A i \in 0..(s.len - 1) : s.buf[i] \in Bytes
<1>1. s \in Members /\ s.len \in Nat /\ s.cap \in Nat
  BY DEF Sound, Members
<1>2. \A i \in 0..(s.len - 1) : s.buf[i] \in Bytes
  BY <1>1 DEF Sound, Held, Bare
<1>3. \A k \in 1..s.len : s.buf[k - 1] \in Bytes
  BY <1>1, <1>2
<1> QED  BY <1>1, <1>2, <1>3 DEF Text

\* A text is told by its characters.
LEMMA TextIs ==
  ASSUME NEW s, Sound(s), NEW t \in Seq(Bytes), Len(t) = s.len,
         \A i \in 0..(s.len - 1) : s.buf[i] = t[i + 1]
  PROVE  Text(s) = t
<1>1. Text(s) \in Seq(Bytes) /\ Len(Text(s)) = s.len /\ s.len \in Nat
      /\ \A k \in 1..s.len : Text(s)[k] = s.buf[k - 1]
  BY TextType
<1>2. \A k \in 1..s.len : k - 1 \in 0..(s.len - 1) /\ (k - 1) + 1 = k
  BY <1>1
<1>3. \A k \in 1..Len(Text(s)) : Text(s)[k] = t[k]
  BY <1>1, <1>2
<1> QED  BY <1>1, <1>3, SeqEqual

LEMMA SameTextText ==
  ASSUME NEW s, NEW t, Sound(s), Sound(t), SameText(t, s)
  PROVE  Text(t) = Text(s)
<1>1. Text(s) \in Seq(Bytes) /\ Len(Text(s)) = s.len /\ s.len \in Nat
      /\ \A k \in 1..s.len : Text(s)[k] = s.buf[k - 1]
  BY TextType
<1>2. \A i \in 0..(t.len - 1) : t.buf[i] = Text(s)[i + 1]
  BY <1>1 DEF SameText
<1> QED  BY <1>1, <1>2, TextIs DEF SameText

\* A number between n and n + m.
LEMMA Further ==
  ASSUME NEW n \in Nat, NEW m \in Nat, NEW i \in Nat, n <= i, i < n + m
  PROVE  \E k \in 1..m : i = n + k - 1 /\ i + 1 > n /\ i + 1 <= n + m /\ (i + 1) - n = k
<1>1. i - n + 1 \in 1..m
  OBVIOUS
<1> QED  BY <1>1

LEMMA AppendedText ==
  ASSUME NEW s, NEW t, Sound(s), NEW w \in Seq(Bytes), Appended(t, s, w)
  PROVE  Text(t) = Text(s) \o w
<1>1. Text(s) \in Seq(Bytes) /\ Len(Text(s)) = s.len /\ s.len \in Nat
      /\ \A k \in 1..s.len : Text(s)[k] = s.buf[k - 1]
  BY TextType
<1>2. Text(s) \o w \in Seq(Bytes) /\ Len(Text(s) \o w) = s.len + Len(w)
      /\ \A i \in 1..(s.len + Len(w)) : (Text(s) \o w)[i] =
           IF i <= s.len THEN Text(s)[i] ELSE w[i - s.len]
  <2> DEFINE u == Text(s)
  <2> HIDE DEF u
  <2>1. u \in Seq(Bytes) /\ Len(u) = s.len
    BY <1>1 DEF u
  <2>2. u \o w \in Seq(Bytes) /\ Len(u \o w) = Len(u) + Len(w)
        /\ \A i \in 1..(Len(u) + Len(w)) : (u \o w)[i] = IF i <= Len(u) THEN u[i] ELSE w[i - Len(u)]
    BY <2>1, ConcatProperties
  <2> QED  BY <2>1, <2>2 DEF u
<1> DEFINE z == Text(s) \o w
<1>3. \A i \in 1..(s.len + Len(w)) : z[i] = IF i <= s.len THEN Text(s)[i] ELSE w[i - s.len]
  BY <1>2
<1> HIDE DEF z
<1>4. ASSUME NEW i \in 0..(t.len - 1) PROVE t.buf[i] = z[i + 1]
  <2>1. t.len = s.len + Len(w) /\ Len(w) \in Nat /\ i \in Nat /\ i < s.len + Len(w)
        /\ i + 1 \in 1..(s.len + Len(w))
    BY <1>1, <1>4 DEF Appended
  <2>2. CASE i < s.len
    BY <1>1, <1>3, <2>1, <2>2 DEF Appended
  <2>3. CASE i >= s.len
    <3>1. PICK k \in 1..Len(w) : /\ i = s.len + k - 1 /\ i + 1 > s.len
                                 /\ i + 1 <= s.len + Len(w) /\ (i + 1) - s.len = k
      <4> DEFINE n == s.len
                 m == Len(w)
      <4>1. n \in Nat /\ m \in Nat /\ i \in Nat /\ n <= i /\ i < n + m
        BY <1>1, <2>1, <2>3
      <4> HIDE DEF n, m
      <4>2. \E k \in 1..m : i = n + k - 1 /\ i + 1 > n /\ i + 1 <= n + m /\ (i + 1) - n = k
        BY <4>1, Further
      <4> QED  BY <4>2 DEF n, m
    <3>2. t.buf[s.len + k - 1] = w[k]
      BY DEF Appended
    <3>3. z[i + 1] = w[(i + 1) - s.len]
      BY <1>1, <1>3, <2>1, <3>1
    <3> QED  BY <3>1, <3>2, <3>3
  <2> QED  BY <1>1, <2>1, <2>2, <2>3
<1> QED  BY <1>1, <1>2, <1>4, TextIs DEF Appended, z

LEMMA CutText ==
  ASSUME NEW s, NEW t, Sound(s), NEW pos \in 0..s.len, Cut(t, s, pos)
  PROVE  Text(t) = SubSeq(Text(s), 1, pos)
<1>1. Text(s) \in Seq(Bytes) /\ Len(Text(s)) = s.len /\ s.len \in Nat
      /\ \A k \in 1..s.len : Text(s)[k] = s.buf[k - 1]
  BY TextType
<1>2. /\ SubSeq(Text(s), 1, pos) \in Seq(Bytes) /\ Len(SubSeq(Text(s), 1, pos)) = pos
      /\ \A i \in 1..pos : SubSeq(Text(s), 1, pos)[i] = Text(s)[i]
  BY <1>1
<1>3. \A i \in 0..(pos - 1) : t.buf[i] = SubSeq(Text(s), 1, pos)[i + 1]
  BY <1>1, <1>2 DEF Cut
<1> QED  BY <1>2, <1>3, TextIs DEF Cut

\* The characters of t that are NUL, and what is in front of them.
NulAt(t) == {k \in 1..Len(t) : t[k] = NUL}

LEMMA CStringIs ==
  ASSUME NEW t \in Seq(Bytes)
  PROVE  /\ CString(t) = IF NulAt(t) = {} THEN t ELSE SubSeq(t, 1, Min(NulAt(t)) - 1)
         /\ CString(t) = Abstract!UpToNul(t)
         /\ CString(t) \in Seq(Bytes)
<1>1. CString(t) = IF NulAt(t) = {} THEN t ELSE SubSeq(t, 1, Min(NulAt(t)) - 1)
  BY DEF CString, NulAt
<1>2. CASE NulAt(t) = {}
  BY <1>1, <1>2 DEF Abstract!UpToNul, NulAt
<1>3. CASE NulAt(t) # {}
  <2> DEFINE m == Min(NulAt(t))
  <2>1. m \in NulAt(t)
    <3>1. NulAt(t) \in SUBSET Nat
      BY DEF NulAt
    <3> QED  BY <1>3, <3>1, Minimum
  <2>2. m \in 1..Len(t) /\ Len(t) \in Nat
    BY <2>1 DEF NulAt
  <2>3. m = CHOOSE i \in NulAt(t) : \A j \in NulAt(t) : i <= j
    BY DEF Min
  <2>4. Abstract!UpToNul(t) = SubSeq(t, 0 + 1, m - 1)
    BY <1>3, <2>3 DEF Abstract!UpToNul, Abstract!Part, NulAt
  <2> HIDE DEF m
  <2>5. SubSeq(t, 1, m - 1) \in Seq(Bytes)
    <3>1. \A i \in 1..(m - 1) : t[i] \in Bytes
      BY <2>2
    <3> QED  BY <2>2, <3>1, SubSeqProperties
  <2> QED  BY <1>1, <1>3, <2>4, <2>5 DEF m
<1> QED  BY <1>2, <1>3, <1>1

\* Reading on behind a text, up to a NUL, finds nothing that was not in it.
LEMMA CStringOfMore ==
  ASSUME NEW t \in Seq(Bytes), NEW u \in Seq(Bytes), Len(u) <= Len(t),
         \A k \in 1..Len(u) : t[k] = u[k],
         Len(t) = Len(u) \/ t[Len(u) + 1] = NUL
  PROVE  CString(t) = CString(u)
<1>1. Len(t) \in Nat /\ Len(u) \in Nat
  OBVIOUS
<1>2. CASE NulAt(u) # {}
  <2> DEFINE m == Min(NulAt(u))
  <2>1. m \in NulAt(u) /\ \A k \in NulAt(u) : m <= k
    <3>1. NulAt(u) \in SUBSET Nat
      BY DEF NulAt
    <3> QED  BY <1>2, <3>1, Minimum
  <2> HIDE DEF m
  <2>2. m \in 1..Len(u) /\ u[m] = NUL
    BY <2>1 DEF NulAt
  <2>3. m \in NulAt(t) /\ \A k \in NulAt(t) : m <= k
    <3>1. m \in NulAt(t)
      BY <1>1, <2>2 DEF NulAt
    <3>2. ASSUME NEW k \in NulAt(t), k < m PROVE FALSE
      <4>1. k \in NulAt(u)
        BY <1>1, <2>2, <3>2 DEF NulAt
      <4> QED  BY <2>1, <2>2, <3>2, <4>1 DEF NulAt
    <3>3. \A k \in NulAt(t) : k \in Nat /\ m \in Nat
      BY <2>2 DEF NulAt
    <3> QED  BY <3>1, <3>2, <3>3
  <2>4. Min(NulAt(t)) = m
    <3>1. NulAt(t) \in SUBSET Nat
      BY DEF NulAt
    <3> QED  BY <2>3, <3>1, IsMinimum
  <2>5. NulAt(t) # {}
    BY <2>3
  <2>6. CString(t) = SubSeq(t, 1, m - 1) /\ CString(u) = SubSeq(u, 1, m - 1)
    BY <1>2, <2>4, <2>5, CStringIs DEF m
  <2>7. \A i \in 1..(m - 1) : t[i] = u[i]
    BY <1>1, <2>2
  <2> QED  BY <1>1, <2>2, <2>6, <2>7
<1>3. CASE NulAt(u) = {} /\ Len(t) = Len(u)
  <2>1. t = u
    BY <1>3, SeqEqual
  <2> QED  BY <2>1
<1>4. CASE NulAt(u) = {} /\ Len(t) # Len(u)
  <2> DEFINE m == Len(u) + 1
  <2>1. m \in NulAt(t)
    BY <1>1, <1>4 DEF NulAt
  <2>2. ASSUME NEW k \in NulAt(t), k < m PROVE FALSE
    BY <1>1, <1>4, <2>2 DEF NulAt
  <2>3. NulAt(t) \in SUBSET Nat /\ m \in Nat
    BY <1>1 DEF NulAt
  <2>4. \A k \in NulAt(t) : m <= k
    BY <2>2, <2>3
  <2> HIDE DEF m
  <2>5. Min(NulAt(t)) = m
    BY <2>1, <2>3, <2>4, IsMinimum
  <2>6. CString(t) = SubSeq(t, 1, m - 1) /\ CString(u) = u
    BY <1>4, <2>1, <2>5, CStringIs
  <2>7. m - 1 = Len(u)
    BY <1>1 DEF m
  <2>8. SubSeq(t, 1, Len(u)) = u
    <3> DEFINE v == SubSeq(t, 1, Len(u))
    <3>1. \A i \in 1..Len(u) : t[i] \in Bytes
      BY <1>1
    <3>2. v \in Seq(Bytes) /\ Len(v) = Len(u) /\ \A i \in 1..Len(u) : v[i] = t[i]
      BY <1>1
    <3> HIDE DEF v
    <3>3. v = u
      BY <1>1, <3>2, SeqEqual
    <3> QED  BY <3>3 DEF v
  <2> QED  BY <2>6, <2>7, <2>8
<1> QED  BY <1>2, <1>3, <1>4

\* What reading a buffer gives, in it and behind it.
ReadsFrom(t, s, i, n) == \A k \in 1..n : i + k - 1 <= s.cap => t[k] = s.buf[i + k - 1]

IsSlice(t, s, i, n) == /\ t \in Seq(Bytes) /\ Len(t) = n
                       /\ Held(s) => ReadsFrom(t, s, i, n)

LEMMA SliceType ==
  ASSUME NEW s, Sound(s), NEW i \in Nat, NEW n \in Nat, NEW junk \in Bytes
  PROVE  IsSlice(Slice(s.buf, i, i + n, junk), s, i, n)
<1> DEFINE b == s.buf
           sl == [k \in 1..n |-> IF i + k - 1 \in DOMAIN b THEN b[i + k - 1] ELSE junk]
<1>1. s \in Members /\ s.cap \in Nat
  BY DEF Sound, Members
<1>2. Slice(b, i, i + n, junk) = sl
  <2>1. (i + n) - i = n
    OBVIOUS
  <2> QED  BY <2>1 DEF Slice
<1>3. \A j \in DOMAIN b : b[j] \in Bytes
  <2>1. CASE Held(s)
    BY <1>1, <2>1 DEF Held
  <2>2. CASE Bare(s)
    BY <2>2 DEF Bare, Null
  <2> QED  BY <2>1, <2>2 DEF Sound
<1>4. \A k \in 1..n : sl[k] \in Bytes
  BY <1>3
<1>5. sl \in Seq(Bytes) /\ Len(sl) = n
  <2> DEFINE e(k) == IF i + k - 1 \in DOMAIN b THEN b[i + k - 1] ELSE junk
  <2>1. \A k \in 1..n : e(k) \in Bytes
    BY <1>3
  <2> HIDE DEF e, b
  <2>2. [k \in 1..n |-> e(k)] \in Seq(Bytes) /\ Len([k \in 1..n |-> e(k)]) = n
    BY <2>1
  <2> QED  BY <2>2 DEF e, b
<1>6. Held(s) => \A k \in 1..n : i + k - 1 <= s.cap => sl[k] = b[i + k - 1]
  BY <1>1, HeldIsNotNull
<1> QED  BY <1>2, <1>5, <1>6 DEF ReadsFrom, IsSlice

\* The end of the text from p on, read as a C string with the length of the whole.
LEMMA RestRead ==
  ASSUME NEW s, Sound(s), Held(s), NEW p \in 0..s.len, NEW junk \in Bytes
  PROVE  /\ CString(Slice(s.buf, p, p + s.len, junk)) = CString(SubSeq(Text(s), p + 1, s.len))
         /\ SubSeq(Text(s), p + 1, s.len) \in Seq(Bytes)
<1> DEFINE t == Slice(s.buf, p, p + s.len, junk)
           u == SubSeq(Text(s), p + 1, s.len)
<1>1. s \in Members /\ s.len \in Nat /\ s.cap \in Nat /\ s.len <= s.cap /\ s.buf[s.len] = NUL
  BY DEF Sound, Members, Held
<1>2. t \in Seq(Bytes) /\ Len(t) = s.len
      /\ \A k \in 1..s.len : p + k - 1 <= s.cap => t[k] = s.buf[p + k - 1]
  <2>1. p \in Nat
    BY <1>1
  <2>2. t \in Seq(Bytes) /\ Len(t) = s.len /\ ReadsFrom(t, s, p, s.len)
    <3> DEFINE n == s.len
    <3>1. n \in Nat
      BY <1>1
    <3> HIDE DEF n
    <3>2. IsSlice(Slice(s.buf, p, p + n, junk), s, p, n)
      BY <2>1, <3>1, SliceType
    <3> QED  BY <3>2 DEF n, IsSlice
  <2> HIDE DEF t
  <2> QED  BY <2>2 DEF ReadsFrom
<1>3. /\ Text(s) \in Seq(Bytes) /\ Len(Text(s)) = s.len
      /\ \A k \in 1..s.len : Text(s)[k] = s.buf[k - 1]
  BY TextType
<1>4. /\ u \in Seq(Bytes) /\ Len(u) = s.len - p
      /\ \A k \in 1..(s.len - p) : u[k] = Text(s)[p + k]
  BY <1>1, <1>3
<1> HIDE DEF t, u
<1>5. Len(u) <= Len(t)
  BY <1>1, <1>2, <1>4
<1>6. ASSUME NEW k \in 1..Len(u) PROVE t[k] = u[k]
  <2>1. k \in 1..s.len /\ p + k \in 1..s.len /\ p + k - 1 <= s.cap /\ k \in 1..(s.len - p)
    BY <1>1, <1>4
  <2>2. t[k] = s.buf[p + k - 1]
    BY <1>2, <2>1
  <2>3. u[k] = Text(s)[p + k] /\ Text(s)[p + k] = s.buf[p + k - 1]
    BY <1>3, <1>4, <2>1
  <2> QED  BY <2>2, <2>3
<1>7. Len(t) = Len(u) \/ t[Len(u) + 1] = NUL
  <2>1. CASE p = 0
    BY <1>1, <1>2, <1>4, <2>1
  <2>2. CASE p # 0
    <3>1. Len(u) + 1 \in 1..s.len /\ p + (Len(u) + 1) - 1 = s.len
      BY <1>1, <1>4, <2>2
    <3> QED  BY <1>1, <1>2, <3>1
  <2> QED  BY <2>1, <2>2
<1>8. CString(t) = CString(u)
  BY <1>2, <1>4, <1>5, <1>6, <1>7, CStringOfMore
<1> QED  BY <1>4, <1>8 DEF t, u

-----------------------------------------------------------------------------
(* Edits *)

\* x is t with w in the place of the characters i to j.
Behind(t, j) == SubSeq(t, j + 1, Len(t))
Edited(x, t, i, j, w) ==
  \E put \in {w, CString(w)}, tail \in {Behind(t, j), CString(Behind(t, j))} :
    x = (SubSeq(t, 1, i) \o put) \o tail

LEMMA Nothing ==
  ASSUME NEW t \in Seq(Bytes)
  PROVE  /\ <<>> \in Seq(Bytes) /\ SubSeq(t, 1, 0) = <<>> /\ SubSeq(t, 1, Len(t)) = t
         /\ Behind(t, Len(t)) = <<>> /\ Behind(t, 0) = t
         /\ t \o <<>> = t /\ <<>> \o t = t /\ <<>> \o <<>> = <<>>
<1>1. Len(t) \in Nat /\ 0 + 1 = 1 /\ Len(t) < Len(t) + 1
  OBVIOUS
<1>2. SubSeq(t, 1, 0) = <<>> /\ SubSeq(t, 1, Len(t)) = t
  BY SubSeqEmpty, SubSeqFull
<1>3. Behind(t, Len(t)) = <<>> /\ Behind(t, 0) = t
  BY <1>1, <1>2, SubSeqEmpty DEF Behind
<1>4. /\ <<>> \in Seq(Bytes) /\ t \o <<>> = t /\ <<>> \o t = t /\ <<>> \o <<>> = <<>>
  BY EmptySeq, ConcatEmptySeq
<1> QED  BY <1>2, <1>3, <1>4

LEMMA EditNothing ==
  ASSUME NEW t \in Seq(Bytes), NEW i \in 0..Len(t)
  PROVE  Edited(t, t, i, i, <<>>)
<1>1. SubSeq(t, 1, i) \in Seq(Bytes) /\ Len(t) \in Nat
  OBVIOUS
<1>2. SubSeq(t, 1, i) \o <<>> = SubSeq(t, 1, i)
  BY <1>1, ConcatEmptySeq
<1>3. SubSeq(t, 1, i) \o Behind(t, i) = SubSeq(t, 1, Len(t))
  <2>1. 1 \in 1..(Len(t) + 1) /\ i \in (1 - 1)..Len(t) /\ Len(t) \in i..Len(t)
    BY <1>1
  <2> QED  BY <2>1, ConcatAdjacentSubSeq DEF Behind
<1>4. SubSeq(t, 1, Len(t)) = t
  BY Nothing
<1> QED  BY <1>2, <1>3, <1>4 DEF Edited

LEMMA EditAppend ==
  ASSUME NEW t \in Seq(Bytes), NEW w \in Seq(Bytes)
  PROVE  Edited(t \o w, t, Len(t), Len(t), w)
<1>1. t \o w \in Seq(Bytes)
  BY ConcatProperties
<1>2. (SubSeq(t, 1, Len(t)) \o w) \o Behind(t, Len(t)) = t \o w
  BY <1>1, Nothing, ConcatEmptySeq
<1> QED  BY <1>2 DEF Edited

LEMMA EditAll ==
  ASSUME NEW t \in Seq(Bytes), NEW w \in Seq(Bytes)
  PROVE  Edited(w, t, 0, Len(t), w) /\ Edited(CString(w), t, 0, Len(t), w)
<1>1. CString(w) \in Seq(Bytes)
  BY CStringIs
<1>2. ASSUME NEW p \in Seq(Bytes) PROVE (SubSeq(t, 1, 0) \o p) \o Behind(t, Len(t)) = p
  BY <1>2, Nothing, ConcatEmptySeq
<1>3. w = (SubSeq(t, 1, 0) \o w) \o Behind(t, Len(t))
      /\ CString(w) = (SubSeq(t, 1, 0) \o CString(w)) \o Behind(t, Len(t))
  BY <1>1, <1>2
<1> QED  BY <1>3 DEF Edited

LEMMA EditCut ==
  ASSUME NEW t \in Seq(Bytes), NEW i \in 0..Len(t)
  PROVE  Edited(SubSeq(t, 1, i), t, i, Len(t), <<>>)
<1>1. SubSeq(t, 1, i) \in Seq(Bytes)
  OBVIOUS
<1>2. (SubSeq(t, 1, i) \o <<>>) \o Behind(t, Len(t)) = SubSeq(t, 1, i)
  BY <1>1, Nothing, ConcatEmptySeq
<1> QED  BY <1>2 DEF Edited

\* Three parts put together.
Joined(t, s, pos, w, x) == Sound(t) /\ Text(t) = (SubSeq(Text(s), 1, pos) \o w) \o x

LEMMA ThreeParts ==
  ASSUME NEW s, Sound(s), Held(s), NEW pos \in 0..s.len, NEW w \in Seq(Bytes), NEW x \in Seq(Bytes)
  PROVE  Joined(Put(Put(ClearStr(s, pos), w), x), s, pos, w, x)
<1> DEFINE a == ClearStr(s, pos)
           b == Put(a, w)
           c == Put(b, x)
<1>1. Sound(a) /\ Text(a) = SubSeq(Text(s), 1, pos)
  <2>1. Cut(a, s, pos)
    BY ClearStrSound
  <2> HIDE DEF a
  <2> QED  BY <2>1, CutText DEF Cut
<1> HIDE DEF a
<1>2. Sound(b) /\ Text(b) = Text(a) \o w
  <2>1. Appended(b, a, w)
    BY <1>1, PutSound
  <2> QED  BY <1>1, <2>1, AppendedText DEF Appended
<1> HIDE DEF b
<1>3. Sound(c) /\ Text(c) = Text(b) \o x
  <2>1. Appended(c, b, x)
    BY <1>2, PutSound
  <2> HIDE DEF c
  <2> QED  BY <1>2, <2>1, AppendedText DEF Appended
<1> QED  BY <1>1, <1>2, <1>3 DEF a, b, Joined

LEMMA InsertStrSound ==
  ASSUME NEW s, Sound(s), NEW pos \in 0..s.len, NEW w \in Seq(Bytes), NEW junk \in Bytes
  PROVE  LET t == InsertStr(s, pos, w, junk) IN
         Sound(t) /\ Edited(Text(t), Text(s), pos, pos, w)
<1>1. Text(s) \in Seq(Bytes) /\ Len(Text(s)) = s.len /\ s.len \in Nat
  BY TextType
<1>2. CASE pos = s.len
  <2>1. InsertStr(s, pos, w, junk) = Put(s, w)
    BY <1>2 DEF InsertStr
  <2>2. Appended(Put(s, w), s, w)
    BY PutSound
  <2>3. Sound(Put(s, w)) /\ Text(Put(s, w)) = Text(s) \o w
    BY <2>2, AppendedText DEF Appended
  <2> QED  BY <1>1, <1>2, <2>1, <2>3, EditAppend
<1>3. CASE pos # s.len /\ w = <<>>
  <2>1. InsertStr(s, pos, w, junk) = s
    BY <1>3 DEF InsertStr
  <2> QED  BY <1>1, <1>3, <2>1, EditNothing
<1>4. CASE pos # s.len /\ w # <<>>
  <2> DEFINE t == IncreaseCapacity(s, s.len + Len(w))
             x == CString(Slice(t.buf, pos, pos + t.len, junk))
  <2>1. InsertStr(s, pos, w, junk) = Put(Put(ClearStr(t, pos), w), x)
    BY <1>4 DEF InsertStr
  <2>2. Roomier(t, s, s.len + Len(w))
    <3>1. s.len + Len(w) \in Nat /\ s.len + Len(w) >= s.len
      BY <1>1
    <3> QED  BY <3>1, IncreaseCapacitySound
  <2> HIDE DEF t
  <2>3. Sound(t) /\ Held(t) /\ Text(t) = Text(s) /\ t.len = s.len
    BY <2>2, SameTextText DEF Roomier, SameText
  <2>4. /\ CString(Slice(t.buf, pos, pos + t.len, junk)) = CString(SubSeq(Text(t), pos + 1, t.len))
        /\ SubSeq(Text(t), pos + 1, t.len) \in Seq(Bytes)
    BY <2>3, RestRead
  <2>5. x = CString(Behind(Text(s), pos)) /\ x \in Seq(Bytes)
    BY <1>1, <2>3, <2>4, CStringIs DEF Behind
  <2> HIDE DEF x
  <2>6. Joined(Put(Put(ClearStr(t, pos), w), x), t, pos, w, x)
    <3>1. pos \in 0..t.len
      BY <2>3
    <3> QED  BY <2>3, <2>5, <3>1, ThreeParts
  <2> QED  BY <2>1, <2>3, <2>5, <2>6 DEF Edited, Joined
<1> QED  BY <1>2, <1>3, <1>4

LEMMA ReplaceStrSound ==
  ASSUME NEW s, Sound(s), Held(s), NEW pos \in Nat, NEW n \in Nat, pos + n <= s.len,
         NEW w \in Seq(Bytes), NEW junk \in Bytes
  PROVE  LET t == ReplaceStr(s, pos, n, w, junk) IN
         Sound(t) /\ Edited(Text(t), Text(s), pos, pos + n, w)
<1> DEFINE x == CString(Slice(s.buf, pos + n, pos + n + s.len, junk))
           y == CString(w)
<1>1. Text(s) \in Seq(Bytes) /\ Len(Text(s)) = s.len /\ s.len \in Nat
  BY TextType
<1>2. pos \in 0..s.len /\ pos + n \in 0..s.len
  BY <1>1
<1>3. x = CString(Behind(Text(s), pos + n)) /\ x \in Seq(Bytes)
  <2> DEFINE p == pos + n
  <2>1. p \in 0..s.len
    BY <1>2
  <2> HIDE DEF p
  <2>2. /\ CString(Slice(s.buf, p, p + s.len, junk)) = CString(SubSeq(Text(s), p + 1, s.len))
        /\ SubSeq(Text(s), p + 1, s.len) \in Seq(Bytes)
    BY <2>1, RestRead
  <2> QED  BY <1>1, <2>2, CStringIs DEF Behind, p
<1>4. y \in Seq(Bytes)
  BY CStringIs
<1>5. ReplaceStr(s, pos, n, w, junk) = Put(Put(ClearStr(s, pos), y), x)
  BY DEF ReplaceStr
<1> HIDE DEF x
<1>6. Joined(Put(Put(ClearStr(s, pos), y), x), s, pos, y, x)
  <2> HIDE DEF y
  <2> QED  BY <1>2, <1>3, <1>4, ThreeParts
<1> QED  BY <1>3, <1>5, <1>6 DEF Edited, Joined

-----------------------------------------------------------------------------
(* What a call on v comes to *)

Edits(v) == \E s, i, j, w : /\ Sound(s) /\ i \in Nat /\ j \in Nat /\ w \in Seq(Bytes)
                            /\ Edited(Text(s), Text(str[v]), i, j, w)
                            /\ Becomes(v, s, i, j, w)
Garbles(v) == \E s : Sound(s) /\ Garbled(v, s)

\* By Halt() or Stray().
Ends(cause) == halt' = cause /\ UNCHANGED str

Does(v) == Edits(v) \/ Garbles(v) \/ (\E c \in Causes : Ends(c)) \/ UNCHANGED vars

LEMMA LiveIsSound ==
  ASSUME IInv, NEW v \in Strings, Live(v)
  PROVE  /\ Sound(str[v]) /\ str[v].len \in 0..MaxLen /\ str[v].len <= MaxLen
         /\ Text(str[v]) \in Seq(Bytes) /\ Len(Text(str[v])) = str[v].len
<1>1. Sound(str[v]) /\ str[v].len <= MaxLen
  BY DEF IInv, Live, Settled
<1>2. str[v].len \in Nat
  BY <1>1 DEF Sound, Members
<1> QED  BY <1>1, <1>2, TextType, Bounds

\* v is made.
LEMMA ConstructDoes ==
  ASSUME IInv, NEW v \in Strings, NEW s, Sound(s), NEW w \in Seq(Bytes),
         Text(s) = w \/ Text(s) = CString(w), Construct(v, s, w)
  PROVE  Does(v)
<1>1. str[v] = NoString /\ Becomes(v, s, 0, 0, w)
  BY DEF Construct, Live
<1>2. Text(str[v]) = <<>>
  BY <1>1 DEF Text, NoString, NewString
<1>3. <<>> \in Seq(Bytes) /\ Len(<<>>) = 0
  BY EmptySeq
<1>4. Edited(w, <<>>, 0, 0, w) /\ Edited(CString(w), <<>>, 0, 0, w)
  BY <1>3, EditAll
<1>5. Edited(Text(s), Text(str[v]), 0, 0, w)
  BY <1>2, <1>4
<1> QED  BY <1>1, <1>5 DEF Does, Edits

\* A new string with w in it.
LEMMA NewPut ==
  ASSUME NEW w \in Seq(Bytes)
  PROVE  Sound(Put(NewString, w)) /\ Text(Put(NewString, w)) = w
<1>1. Text(NewString) = <<>>
  BY DEF Text, NewString
<1>2. Appended(Put(NewString, w), NewString, w)
  BY NewStringIsSound, PutSound
<1>3. Text(Put(NewString, w)) = Text(NewString) \o w
  BY <1>2, NewStringIsSound, AppendedText
<1> QED  BY <1>1, <1>2, <1>3, ConcatEmptySeq DEF Appended

LEMMA InputsAreTexts == Inputs \subseteq Seq(Bytes)
<1>1. ASSUME NEW w \in Inputs PROVE w \in Seq(Bytes)
  <2>1. w \in Seq(Chars)
    BY Bounds
  <2> QED  BY <2>1, Bounds
<1> QED  BY <1>1

LEMMA PutTwice ==
  ASSUME NEW t \in Seq(Bytes), NEW w \in Seq(Bytes)
  PROVE  /\ Sound(Put(Put(NewString, t), w)) /\ Text(Put(Put(NewString, t), w)) = t \o w
         /\ t \o w \in Seq(Bytes)
<1> DEFINE s == Put(NewString, t)
<1>1. Sound(s) /\ Text(s) = t
  BY NewPut
<1> HIDE DEF s
<1>2. Appended(Put(s, w), s, w)
  BY <1>1, PutSound
<1>3. Text(Put(s, w)) = Text(s) \o w
  BY <1>1, <1>2, AppendedText
<1> QED  BY <1>1, <1>2, <1>3, ConcatProperties DEF Appended, s

\* A part of another string: as much of it as was asked for, or a halt.
PartOf(s, other, pos, len) == Slice(other.buf, pos, pos + Length(s, pos, len), NUL)

LEMMA PartIsText ==
  ASSUME NEW s, NEW other, Sound(s), Sound(other), NEW pos \in Nat, NEW len \in Nat
  PROVE  PartOf(s, other, pos, len) \in Seq(Bytes)
<1>1. s.len \in Nat
  BY DEF Sound, Members
<1>2. Length(s, pos, len) \in Nat
  BY <1>1 DEF Length, Wrap, Word
<1> QED  BY <1>2, SliceType, Bounds DEF PartOf, IsSlice

LEMMA DefaultDoes ==
  ASSUME IInv, NEW v \in Strings, Default(v)
  PROVE  Does(v)
<1>1. Sound(SetCapacity(NewString, 0)) /\ SetCapacity(NewString, 0).len = 0
  BY NewStringIsSound, SetCapacitySound DEF SameText, NewString
<1>2. Text(SetCapacity(NewString, 0)) = <<>>
  BY <1>1 DEF Text
<1> QED  BY <1>1, <1>2, EmptySeq, ConstructDoes DEF Default

LEMMA FromTextDoes ==
  ASSUME IInv, NEW v \in Strings, NEW w \in Inputs, FromText(v, w)
  PROVE  Does(v)
BY InputsAreTexts, NewPut, ConstructDoes DEF FromText

LEMMA CopyDoes ==
  ASSUME IInv, NEW v \in Strings, NEW u \in Strings, Copy(v, u)
  PROVE  Does(v)
<1>1. Text(str[u]) \in Seq(Bytes)
  BY LiveIsSound DEF Copy
<1> QED  BY <1>1, NewPut, ConstructDoes DEF Copy

LEMMA PlusDoes ==
  ASSUME IInv, NEW v \in Strings, NEW u \in Strings, NEW w \in Inputs, Plus(v, u, w)
  PROVE  Does(v)
<1>1. Text(str[u]) \in Seq(Bytes) /\ w \in Seq(Bytes)
  BY LiveIsSound, InputsAreTexts DEF Plus
<1> QED  BY <1>1, PutTwice, ConstructDoes DEF Plus

LEMMA PlusCharDoes ==
  ASSUME IInv, NEW v \in Strings, NEW u \in Strings, NEW c \in Chars, PlusChar(v, c, u)
  PROVE  Does(v)
<1>1. Text(str[u]) \in Seq(Bytes) /\ <<c>> \in Seq(Bytes)
  BY LiveIsSound, Bounds DEF PlusChar
<1> QED  BY <1>1, PutTwice DEF PlusChar, Does, Garbles

LEMMA CopyPartDoes ==
  ASSUME IInv, NEW v \in Strings, NEW u \in Strings, NEW pos \in Nat, NEW len \in Nat,
         CopyPart(v, u, pos, len)
  PROVE  Does(v)
<1> DEFINE w == PartOf(NewString, str[u], pos, len)
<1>1. w \in Seq(Bytes)
  BY LiveIsSound, NewStringIsSound, PartIsText DEF CopyPart
<1>2. Length(str[v], pos, len) = Length(NewString, pos, len)
  BY DEF CopyPart, Live, NoString, NewString, Length
<1>3. \/ \E c \in Causes : Ends(c)
      \/ Garbled(v, Put(NewString, w))
      \/ Construct(v, Put(NewString, w), w)
  BY <1>2 DEF CopyPart, WithPart, PartOf, Ends, Halt, Stray, Causes
<1> HIDE DEF w
<1> QED  BY <1>1, <1>3, NewPut, ConstructDoes DEF Does, Garbles

LEMMA FromBufferDoes ==
  ASSUME IInv, NEW v \in Strings, NEW t \in Inputs, NEW n \in Nat, FromBuffer(v, t, n)
  PROVE  Does(v)
<1> DEFINE w == PartOf(NewString, Put(NewString, t), 0, n)
<1>1. w \in Seq(Bytes)
  BY InputsAreTexts, NewPut, NewStringIsSound, PartIsText
<1>2. Length(str[v], 0, n) = Length(NewString, 0, n)
  BY DEF FromBuffer, Live, NoString, NewString, Length
<1>3. \/ \E c \in Causes : Ends(c)
      \/ Garbled(v, Put(NewString, w))
      \/ Construct(v, Put(NewString, w), w)
  BY <1>2 DEF FromBuffer, WithPart, PartOf, Ends, Halt, Stray, Causes
<1> HIDE DEF w
<1> QED  BY <1>1, <1>3, NewPut, ConstructDoes DEF Does, Garbles

LEMMA SubstrDoes ==
  ASSUME IInv, NEW v \in Strings, NEW u \in Strings, NEW pos \in Nat, NEW len \in Nat,
         Substr(v, u, pos, len)
  PROVE  Does(v)
<1> DEFINE w == PartOf(str[u], str[u], pos, len)
<1>1. w \in Seq(Bytes)
  BY LiveIsSound, PartIsText DEF Substr
<1>2. \/ \E c \in Causes : Ends(c)
      \/ Construct(v, Put(NewString, CString(w)), w)
  BY DEF Substr, WithPart, PartOf, Ends, Halt, Stray, Causes
<1> HIDE DEF w
<1>3. CString(w) \in Seq(Bytes)
  BY <1>1, CStringIs
<1>4. Sound(Put(NewString, CString(w))) /\ Text(Put(NewString, CString(w))) = CString(w)
  BY <1>3, NewPut
<1> QED  BY <1>1, <1>2, <1>4, ConstructDoes DEF Does

\* v is edited.
LEMMA EditDoes ==
  ASSUME NEW v \in Strings, NEW s, Sound(s), NEW i \in Nat, NEW j \in Nat, NEW w \in Seq(Bytes),
         Edited(Text(s), Text(str[v]), i, j, w), Becomes(v, s, i, j, w)
  PROVE  Does(v)
BY DEF Does, Edits

LEMMA AppendDoes ==
  ASSUME IInv, NEW v \in Strings, NEW w \in Seq(Bytes), AppendText(v, w)
  PROVE  Does(v)
<1>1. /\ Sound(str[v]) /\ str[v].len \in Nat
      /\ Text(str[v]) \in Seq(Bytes) /\ Len(Text(str[v])) = str[v].len
  BY LiveIsSound, TextType DEF AppendText
<1>2. Appended(Put(str[v], w), str[v], w)
  BY <1>1, PutSound
<1>3. Sound(Put(str[v], w)) /\ Text(Put(str[v], w)) = Text(str[v]) \o w
  BY <1>1, <1>2, AppendedText DEF Appended
<1>4. Edited(Text(Put(str[v], w)), Text(str[v]), str[v].len, str[v].len, w)
  BY <1>1, <1>3, EditAppend
<1>5. Becomes(v, Put(str[v], w), str[v].len, str[v].len, w)
  BY DEF AppendText
<1> QED  BY <1>1, <1>3, <1>4, <1>5, EditDoes

LEMMA AppendOwnDoes ==
  ASSUME IInv, NEW v \in Strings, AppendOwn(v)
  PROVE  Does(v)
<1>1. Ends("freed") \/ AppendText(v, Text(str[v]))
  BY DEF AppendOwn, Ends, Stray
<1>2. Text(str[v]) \in Seq(Bytes)
  BY LiveIsSound DEF AppendOwn
<1>3. Ends("freed") => Does(v)
  BY DEF Does, Causes
<1> QED  BY <1>1, <1>2, <1>3, AppendDoes

LEMMA InsertDoes ==
  ASSUME IInv, NEW v \in Strings, NEW pos \in Nat, NEW w \in Seq(Bytes), Insert(v, pos, w)
  PROVE  Does(v)
<1>1. Sound(str[v]) /\ str[v].len \in Nat
  BY LiveIsSound DEF Insert
<1>2. CASE pos > str[v].len
  BY <1>2 DEF Insert, Does, Causes, Ends, Halt
<1>3. CASE ~ (pos > str[v].len)
  <2>1. PICK junk \in Bytes : Becomes(v, InsertStr(str[v], pos, w, junk), pos, pos, w)
    BY <1>3 DEF Insert
  <2>2. pos \in 0..str[v].len
    BY <1>1, <1>3
  <2> DEFINE t == InsertStr(str[v], pos, w, junk)
  <2>3. Sound(t) /\ Edited(Text(t), Text(str[v]), pos, pos, w)
    BY <1>1, <2>2, InsertStrSound
  <2> HIDE DEF t
  <2> QED  BY <2>1, <2>3, EditDoes DEF t
<1> QED  BY <1>2, <1>3

\* What s.insert( pos, s ) reads of itself.
LEMMA OwnTextIsText ==
  ASSUME NEW s, Sound(s), NEW pos \in Nat, pos < s.len
  PROVE  [k \in 1..s.len |-> IF pos = 0 THEN NUL ELSE s.buf[(k - 1) % pos]] \in Seq(Bytes)
<1>1. s.len \in Nat
  BY TextType
<1>2. ASSUME NEW k \in 1..s.len PROVE (IF pos = 0 THEN NUL ELSE s.buf[(k - 1) % pos]) \in Bytes
  <2>1. CASE pos = 0
    BY <2>1, Bounds
  <2>2. CASE pos # 0
    <3>1. k - 1 \in Nat /\ pos > 0
      BY <1>1, <2>2
    <3>2. (k - 1) % pos \in 0..(pos - 1)
      BY <3>1
    <3>3. (k - 1) % pos \in 0..(s.len - 1)
      BY <1>1, <3>2
    <3> QED  BY <2>2, <3>3, TextType
  <2> QED  BY <2>1, <2>2
<1> DEFINE e(k) == IF pos = 0 THEN NUL ELSE s.buf[(k - 1) % pos]
<1>3. \A k \in 1..s.len : e(k) \in Bytes
  BY <1>2
<1> HIDE DEF e
<1>4. [k \in 1..s.len |-> e(k)] \in Seq(Bytes)
  BY <1>1, <1>3
<1> QED  BY <1>4 DEF e

LEMMA InsertOwnDoes ==
  ASSUME IInv, NEW v \in Strings, NEW pos \in Nat, InsertOwn(v, pos)
  PROVE  Does(v)
<1> DEFINE s == str[v]
           w == [k \in 1..s.len |-> IF pos = 0 THEN NUL ELSE s.buf[(k - 1) % pos]]
<1>1. Sound(s) /\ s.len \in Nat /\ pos < s.len
  BY LiveIsSound DEF InsertOwn
<1>2. Ends("freed") \/ \E junk \in Bytes : Garbled(v, InsertStr(s, pos, w, junk))
  BY DEF InsertOwn, Ends, Stray
<1> HIDE DEF s
<1>3. w \in Seq(Bytes)
  BY <1>1, OwnTextIsText
<1> HIDE DEF w
<1>4. ASSUME NEW junk \in Bytes, Garbled(v, InsertStr(s, pos, w, junk)) PROVE Does(v)
  <2>1. pos \in 0..s.len
    BY <1>1
  <2>2. Sound(InsertStr(s, pos, w, junk))
    BY <1>1, <1>3, <2>1, InsertStrSound
  <2> QED  BY <1>4, <2>2 DEF Does, Garbles
<1>5. Ends("freed") => Does(v)
  BY DEF Does, Causes
<1> QED  BY <1>2, <1>4, <1>5

LEMMA AppendPartDoes ==
  ASSUME IInv, NEW v \in Strings, NEW u \in Strings, NEW pos \in Nat, NEW len \in Nat,
         AppendPart(v, u, pos, len)
  PROVE  Does(v)
<1> DEFINE w == PartOf(str[v], str[u], pos, len)
<1>1. w \in Seq(Bytes) /\ Sound(str[v])
  BY LiveIsSound, PartIsText DEF AppendPart
<1>2. \/ \E c \in Causes : Ends(c)
      \/ Garbled(v, Put(str[v], w))
      \/ AppendText(v, w)
  BY DEF AppendPart, WithPart, PartOf, Ends, Halt, Stray, Causes
<1> HIDE DEF w
<1>3. Sound(Put(str[v], w))
  BY <1>1, PutSound DEF Appended
<1> QED  BY <1>1, <1>2, <1>3, AppendDoes DEF Does, Garbles

LEMMA InsertPartDoes ==
  ASSUME IInv, NEW v \in Strings, NEW at \in Nat, NEW u \in Strings, NEW pos \in Nat,
         NEW len \in Nat, InsertPart(v, at, u, pos, len)
  PROVE  Does(v)
<1> DEFINE w == PartOf(str[v], str[u], pos, len)
<1>1. w \in Seq(Bytes) /\ Sound(str[v]) /\ at \in 0..str[v].len
  BY LiveIsSound, PartIsText DEF InsertPart
<1>2. \/ \E c \in Causes : Ends(c)
      \/ \E junk \in Bytes : Garbled(v, InsertStr(str[v], at, w, junk))
      \/ Insert(v, at, w)
  BY DEF InsertPart, WithPart, PartOf, Ends, Halt, Stray, Causes
<1> HIDE DEF w
<1>3. \A junk \in Bytes : Sound(InsertStr(str[v], at, w, junk))
  BY <1>1, InsertStrSound
<1> QED  BY <1>1, <1>2, <1>3, InsertDoes DEF Does, Garbles

\* Lengths that a caller may ask for: up to the end, or as many as an int holds.
Asked == 0..127 \union {npos}

\* A part of s that is not too long is a part of it.
LEMMA PartFits ==
  ASSUME NEW s, s.len \in Nat, s.len <= MaxLen, NEW pos \in Nat, NEW len \in Asked,
         pos <= s.len, ~ TooLong(s, s, pos, len)
  PROVE  Length(s, pos, len) \in Nat /\ pos + Length(s, pos, len) <= s.len
<1>1. s.len < 126 /\ s.len \in Nat
  BY Bounds
<1>2. CASE len = npos
  <2>1. (s.len - pos) % 256 = s.len - pos
    BY <1>1
  <2>2. Length(s, pos, len) = s.len - pos
    BY <1>2, <2>1 DEF Length, Wrap, Word
  <2> QED  BY <1>1, <2>2
<1>3. CASE len \in 0..127
  <2>1. Length(s, pos, len) = len
    BY <1>3 DEF Length, npos, Word
  <2>2. (pos + len) % 256 = pos + len
    BY <1>1, <1>3
  <2>3. ~ (pos + len > s.len)
    BY <2>1, <2>2 DEF TooLong, Wrap, Word
  <2> QED  BY <1>1, <1>3, <2>1, <2>3
<1> QED  BY <1>2, <1>3 DEF Asked

LEMMA EraseDoes ==
  ASSUME IInv, NEW v \in Strings, NEW pos \in Nat, NEW len \in Asked, Erase(v, pos, len)
  PROVE  Does(v)
<1> DEFINE s == str[v]
           n == Length(s, pos, len)
<1>1. /\ Sound(s) /\ s.len \in Nat /\ s.len <= MaxLen
      /\ Text(s) \in Seq(Bytes) /\ Len(Text(s)) = s.len
  BY LiveIsSound DEF Erase
<1>2. \/ \E c \in Causes : Ends(c)
      \/ /\ ~ TooLong(s, s, pos, len) /\ s.buf # Null /\ ~ (pos > s.len)
         /\ Becomes(v, EraseStr(s, pos, n), pos, pos + n, <<>>)
  BY DEF Erase, Ends, Halt, Stray, Causes
<1>3. ASSUME ~ TooLong(s, s, pos, len), s.buf # Null, ~ (pos > s.len),
             Becomes(v, EraseStr(s, pos, n), pos, pos + n, <<>>)
      PROVE  Does(v)
  <2> DEFINE t == EraseStr(s, pos, n)
             x == SubSeq(Text(s), 1, pos)
             y == Behind(Text(s), pos + n)
  <2>1. Held(s)
    BY <1>1, <1>3 DEF Sound, Bare
  <2>2. n \in Nat /\ pos + n <= s.len
    <3> HIDE DEF s
    <3>1. pos <= s.len
      BY <1>1, <1>3
    <3> QED  BY <1>1, <1>3, <3>1, PartFits
  <2> HIDE DEF s, n
  <2>3. /\ Sound(t) /\ t.len = s.len - n
        /\ \A i \in 0..(s.len - n - 1) : t.buf[i] = IF i < pos THEN s.buf[i] ELSE s.buf[i + n]
    BY <1>1, <2>1, <2>2, EraseStrSound
  <2> HIDE DEF t
  <2>4. x \in Seq(Bytes) /\ Len(x) = pos /\ \A k \in 1..pos : x[k] = Text(s)[k]
    BY <1>1, <2>2
  <2>5. /\ y \in Seq(Bytes) /\ Len(y) = s.len - (pos + n)
        /\ \A k \in 1..(s.len - (pos + n)) : y[k] = Text(s)[pos + n + k]
    BY <1>1, <2>2 DEF Behind
  <2>6. \A k \in 1..s.len : Text(s)[k] = s.buf[k - 1]
    BY <1>1, TextType
  <2> HIDE DEF x, y
  <2> DEFINE z == x \o y
  <2>7. z \in Seq(Bytes) /\ Len(z) = pos + (s.len - (pos + n))
        /\ \A i \in 1..(pos + (s.len - (pos + n))) : z[i] = IF i <= pos THEN x[i] ELSE y[i - pos]
    <3>1. z \in Seq(Bytes) /\ Len(z) = Len(x) + Len(y)
          /\ \A i \in 1..(Len(x) + Len(y)) : z[i] = IF i <= Len(x) THEN x[i] ELSE y[i - Len(x)]
      BY <2>4, <2>5, ConcatProperties
    <3> HIDE DEF z
    <3> QED  BY <2>4, <2>5, <3>1
  <2> HIDE DEF z
  <2>8. ASSUME NEW i \in 0..(t.len - 1) PROVE t.buf[i] = z[i + 1]
    <3>1. i \in 0..(s.len - n - 1) /\ i \in Nat /\ i + 1 \in 1..(pos + (s.len - (pos + n)))
      BY <1>1, <2>2, <2>3
    <3>2. CASE i < pos
      <4>1. i + 1 <= pos /\ i + 1 \in 1..pos /\ i + 1 \in 1..s.len /\ (i + 1) - 1 = i
        BY <1>1, <2>2, <3>1, <3>2
      <4>2. z[i + 1] = x[i + 1] /\ x[i + 1] = Text(s)[i + 1]
        BY <2>4, <2>7, <3>1, <4>1
      <4> QED  BY <2>3, <2>6, <3>1, <3>2, <4>1, <4>2
    <3>3. CASE ~ (i < pos)
      <4> DEFINE k == i + 1 - pos
      <4>1. /\ k \in 1..(s.len - (pos + n)) /\ ~ (i + 1 <= pos) /\ pos + n + k \in 1..s.len
            /\ (pos + n + k) - 1 = i + n
        BY <1>1, <2>2, <3>1, <3>3
      <4>2. z[i + 1] = y[k]
        BY <2>7, <3>1, <4>1
      <4> HIDE DEF k
      <4>3. y[k] = Text(s)[pos + n + k] /\ Text(s)[pos + n + k] = s.buf[(pos + n + k) - 1]
        BY <2>5, <2>6, <4>1
      <4> QED  BY <2>3, <3>1, <3>3, <4>1, <4>2, <4>3
    <3> QED  BY <3>2, <3>3
  <2>9. Text(t) = z
    <3>1. Len(z) = t.len
      BY <1>1, <2>2, <2>3, <2>7
    <3> QED  BY <2>3, <2>7, <2>8, <3>1, TextIs
  <2>10. Edited(Text(t), Text(s), pos, pos + n, <<>>)
    <3>1. Text(t) = (x \o <<>>) \o y
      BY <2>4, <2>9, ConcatEmptySeq DEF z
    <3> QED  BY <3>1 DEF Edited, x, y
  <2>11. pos + n \in Nat /\ <<>> \in Seq(Bytes)
    BY <2>2, EmptySeq
  <2> QED  BY <1>3, <2>3, <2>10, <2>11, EditDoes DEF t, s
<1> QED  BY <1>2, <1>3 DEF Does

LEMMA PopBackDoes ==
  ASSUME IInv, NEW v \in Strings, PopBack(v)
  PROVE  Does(v)
<1>1. Ends("terminate") \/ (str[v].len # 0 /\ Erase(v, str[v].len - 1, 1))
  BY DEF PopBack, Ends, Halt
<1>2. str[v].len \in Nat
  BY LiveIsSound DEF PopBack
<1>3. Ends("terminate") => Does(v)
  BY DEF Does, Causes
<1>4. ASSUME str[v].len # 0 PROVE str[v].len - 1 \in Nat /\ 1 \in Asked
  BY <1>2, <1>4 DEF Asked
<1> QED  BY <1>1, <1>3, <1>4, EraseDoes

\* replace(), if it does not halt, with a text.
LEMMA ReplaceDoes ==
  ASSUME IInv, NEW v \in Strings, Live(v), NEW pos \in Nat, NEW len \in Asked, NEW w \in Seq(Bytes),
         ~ TooLong(str[v], str[v], pos, len), str[v].buf # Null, ~ (pos > str[v].len),
         NEW junk \in Bytes
  PROVE  LET n == Length(str[v], pos, len)
             t == ReplaceStr(str[v], pos, n, w, junk)
         IN  Sound(t) /\ (Becomes(v, t, pos, pos + n, w) => Does(v))
<1> DEFINE s == str[v]
           n == Length(s, pos, len)
           t == ReplaceStr(s, pos, n, w, junk)
<1>1. Sound(s) /\ s.len \in Nat /\ s.len <= MaxLen
  BY LiveIsSound
<1>2. Held(s)
  BY <1>1 DEF Sound, Bare
<1>3. n \in Nat /\ pos + n <= s.len
  <2> HIDE DEF s
  <2>1. pos <= s.len /\ ~ TooLong(s, s, pos, len)
    BY <1>1 DEF s
  <2> QED  BY <1>1, <2>1, PartFits
<1> HIDE DEF s, n
<1>4. Sound(t) /\ Edited(Text(t), Text(s), pos, pos + n, w)
  BY <1>1, <1>2, <1>3, ReplaceStrSound
<1> HIDE DEF t
<1>5. Becomes(v, t, pos, pos + n, w) => Does(v)
  <2>1. pos + n \in Nat
    BY <1>3
  <2> QED  BY <1>4, <2>1, EditDoes DEF s
<1> QED  BY <1>4, <1>5 DEF s, n, t

LEMMA ReplaceTextDoes ==
  ASSUME IInv, NEW v \in Strings, NEW pos \in Nat, NEW len \in Asked, NEW w \in Seq(Bytes),
         Replace(v, pos, len, w)
  PROVE  Does(v)
<1> DEFINE s == str[v]
           n == Length(s, pos, len)
<1>1. \/ \E c \in Causes : Ends(c)
      \/ /\ ~ TooLong(s, s, pos, len) /\ s.buf # Null /\ ~ (pos > s.len)
         /\ \E junk \in Bytes : Becomes(v, ReplaceStr(s, pos, n, w, junk), pos, pos + n, w)
  BY DEF Replace, Replacing, Ends, Halt, Stray, Causes
<1>2. Live(v)
  BY DEF Replace, Replacing
<1> QED  BY <1>1, <1>2, ReplaceDoes DEF Does

LEMMA ReplaceByOwnDoes ==
  ASSUME IInv, NEW v \in Strings, NEW pos \in Nat, NEW len \in Asked, ReplaceByOwn(v, pos, len)
  PROVE  Does(v)
<1> DEFINE s == str[v]
           n == Length(s, pos, len)
           w == SubSeq(Text(s), 1, pos)
<1>1. \/ \E c \in Causes : Ends(c)
      \/ /\ ~ TooLong(s, s, pos, len) /\ s.buf # Null /\ ~ (pos > s.len)
         /\ \E junk \in Bytes : Garbled(v, ReplaceStr(s, pos, n, w, junk))
  BY DEF ReplaceByOwn, Replacing, Ends, Halt, Stray, Causes
<1>2. Live(v) /\ s.len \in Nat /\ Text(s) \in Seq(Bytes) /\ Len(Text(s)) = s.len
  BY LiveIsSound DEF ReplaceByOwn, Replacing
<1>3. ~ (pos > s.len) => w \in Seq(Bytes)
  <2> HIDE DEF s
  <2> QED  BY <1>2
<1> HIDE DEF w
<1> QED  BY <1>1, <1>2, <1>3, ReplaceDoes DEF Does, Garbles

LEMMA ReplaceByDoes ==
  ASSUME IInv, NEW v \in Strings, NEW pos \in Nat, NEW len \in Asked, NEW u \in Strings,
         ReplaceBy(v, pos, len, u)
  PROVE  Does(v)
<1>1. (\E c \in Causes : Ends(c)) \/ Replace(v, pos, len, Text(str[u]))
  BY DEF ReplaceBy, Ends, Halt, Causes
<1>2. Text(str[u]) \in Seq(Bytes)
  BY LiveIsSound DEF ReplaceBy
<1> QED  BY <1>1, <1>2, ReplaceTextDoes DEF Does

LEMMA ReplaceByPartDoes ==
  ASSUME IInv, NEW v \in Strings, NEW u \in Strings, NEW pos \in Nat, NEW len \in Nat,
         ReplaceByPart(v, u, pos, len)
  PROVE  Does(v)
<1> DEFINE w == PartOf(str[v], str[u], pos, len)
           s == str[v]
           n == Length(s, 0, npos)
<1>1. w \in Seq(Bytes) /\ Live(v)
  BY LiveIsSound, PartIsText DEF ReplaceByPart
<1>2. \/ \E c \in Causes : Ends(c)
      \/ /\ ~ TooLong(s, s, 0, npos) /\ s.buf # Null /\ ~ (0 > s.len)
         /\ \E junk \in Bytes : Garbled(v, ReplaceStr(s, 0, n, w, junk))
      \/ Replace(v, 0, npos, w)
  BY DEF ReplaceByPart, WithPart, PartOf, Replacing, Ends, Halt, Stray, Causes
<1>3. 0 \in Nat /\ npos \in Asked
  BY DEF Asked
<1> HIDE DEF w
<1> QED  BY <1>1, <1>2, <1>3, ReplaceDoes, ReplaceTextDoes DEF Does, Garbles

LEMMA ClearDoes ==
  ASSUME IInv, NEW v \in Strings, Clear(v)
  PROVE  Does(v)
<1> DEFINE t == ClearStr(str[v], 0)
<1>1. /\ Sound(str[v]) /\ str[v].len \in Nat
      /\ Text(str[v]) \in Seq(Bytes) /\ Len(Text(str[v])) = str[v].len
  BY LiveIsSound DEF Clear
<1>2. Ends("null") \/ (str[v].buf # Null /\ Becomes(v, t, 0, str[v].len, <<>>))
  BY DEF Clear, Ends, Stray
<1>3. Ends("null") => Does(v)
  BY DEF Does, Causes
<1>4. ASSUME str[v].buf # Null PROVE Sound(t) /\ Edited(Text(t), Text(str[v]), 0, str[v].len, <<>>)
  <2>1. Held(str[v]) /\ 0 \in 0..str[v].len
    BY <1>1, <1>4 DEF Sound, Bare
  <2>2. Cut(t, str[v], 0)
    BY <1>1, <2>1, ClearStrSound
  <2>3. Text(t) = SubSeq(Text(str[v]), 1, 0)
    BY <1>1, <2>1, <2>2, CutText
  <2>4. Edited(SubSeq(Text(str[v]), 1, 0), Text(str[v]), 0, Len(Text(str[v])), <<>>)
    BY <1>1, EditCut
  <2> QED  BY <1>1, <2>2, <2>3, <2>4 DEF Cut
<1> HIDE DEF t
<1> QED  BY <1>1, <1>2, <1>3, <1>4, EmptySeq, EditDoes

LEMMA AssignDoes ==
  ASSUME IInv, NEW v \in Strings, NEW u \in Strings, Assign(v, u)
  PROVE  Does(v)
<1> DEFINE w == Text(str[u])
           e == SetLength(str[v], 0)
           t == Put(e, w)
<1>1. /\ Sound(str[v]) /\ str[v].len \in Nat
      /\ Text(str[v]) \in Seq(Bytes) /\ Len(Text(str[v])) = str[v].len
  BY LiveIsSound DEF Assign
<1>2. w \in Seq(Bytes)
  BY LiveIsSound DEF Assign
<1> HIDE DEF w
<1>3. Sound(e) /\ Text(e) = <<>>
  <2>1. Resized(e, str[v], 0)
    BY <1>1, SetLengthSound
  <2>2. Sound(e) /\ e.len = 0
    BY <2>1 DEF Resized
  <2> QED  BY <2>2 DEF Text
<1>4. Becomes(v, t, 0, str[v].len, w)
  BY DEF Assign, w
<1> HIDE DEF e
<1>5. Sound(t) /\ Text(t) = w
  <2>1. Appended(t, e, w)
    BY <1>2, <1>3, PutSound
  <2>2. Text(t) = Text(e) \o w
    <3> HIDE DEF t
    <3> QED  BY <1>2, <1>3, <2>1, AppendedText
  <2> QED  BY <1>2, <1>3, <2>1, <2>2, ConcatEmptySeq DEF Appended
<1> HIDE DEF t
<1>6. Edited(Text(t), Text(str[v]), 0, str[v].len, w)
  BY <1>1, <1>2, <1>5, EditAll
<1> QED  BY <1>1, <1>2, <1>4, <1>5, <1>6, EditDoes

\* Characters that resize() adds.
Filler(s, n, c) == [k \in 1..(n - s.len) |-> c]
Fills(t, s, w) == w \in Seq(Bytes) /\ Edited(Text(t), Text(s), s.len, s.len, w)

LEMMA Filling ==
  ASSUME NEW s, NEW t, Sound(s), Sound(t), NEW n \in Nat, t.len = n, n > s.len, NEW c \in Bytes,
         \A i \in 0..(s.len - 1) : t.buf[i] = s.buf[i],
         \A i \in s.len..(n - 1) : t.buf[i] = c
  PROVE  Fills(t, s, Filler(s, n, c))
<1> DEFINE m == n - s.len
           w == [k \in 1..m |-> c]
<1>1. /\ Text(s) \in Seq(Bytes) /\ Len(Text(s)) = s.len /\ s.len \in Nat
  BY TextType
<1>2. m \in Nat
  BY <1>1
<1>3. w \in Seq(Bytes) /\ Len(w) = m /\ \A k \in 1..m : w[k] = c
  <2> HIDE DEF m
  <2> QED  BY <1>2
<1>4. Appended(t, s, w)
  <2>1. s.len + Len(w) = n
    BY <1>1, <1>3
  <2>2. ASSUME NEW k \in 1..Len(w) PROVE t.buf[s.len + k - 1] = w[k]
    <3>1. s.len + k - 1 \in s.len..(n - 1) /\ k \in 1..m
      BY <1>1, <1>3
    <3> QED  BY <1>3, <3>1
  <2> QED  BY <2>1, <2>2 DEF Appended
<1> HIDE DEF w
<1>5. Text(t) = Text(s) \o w
  BY <1>3, <1>4, AppendedText
<1>6. Edited(Text(t), Text(s), s.len, s.len, w)
  BY <1>1, <1>3, <1>5, EditAppend
<1> QED  BY <1>3, <1>6 DEF w, Fills, Filler

\* resize() to more or fewer characters, with t in the place of v.
LEMMA ResizingDoes ==
  ASSUME NEW v \in Strings, Sound(str[v]), NEW n \in Nat, n # str[v].len, NEW c \in Bytes,
         NEW t, Sound(t), t.len = n,
         \A i \in 0..(str[v].len - 1) : i < n => t.buf[i] = str[v].buf[i],
         \A i \in str[v].len..(n - 1) : t.buf[i] = c,
         Resizing(v, n, t, c)
  PROVE  Does(v)
<1> DEFINE s == str[v]
           w == [k \in 1..(n - s.len) |-> c]
<1>1. /\ Text(s) \in Seq(Bytes) /\ Len(Text(s)) = s.len /\ s.len \in Nat
      /\ \A k \in 1..s.len : Text(s)[k] = s.buf[k - 1]
  BY TextType
<1>2. CASE n < s.len
  <2>1. Becomes(v, t, n, s.len, w)
    BY <1>2 DEF Resizing
  <2>2. w = <<>>
    <3>1. 1..(n - s.len) = {}
      BY <1>1, <1>2
    <3> QED  BY <3>1
  <2>3. Edited(Text(t), Text(s), n, s.len, <<>>)
    <3> DEFINE x == SubSeq(Text(s), 1, n)
    <3>1. x \in Seq(Bytes) /\ Len(x) = n /\ \A k \in 1..n : x[k] = Text(s)[k]
      BY <1>1, <1>2
    <3> HIDE DEF x
    <3>2. ASSUME NEW i \in 0..(t.len - 1) PROVE t.buf[i] = x[i + 1]
      <4>1. i \in 0..(s.len - 1) /\ i < n /\ i + 1 \in 1..n /\ i + 1 \in 1..s.len /\ (i + 1) - 1 = i
        BY <1>1, <1>2
      <4> QED  BY <1>1, <3>1, <4>1
    <3>3. Text(t) = x
      BY <3>1, <3>2, TextIs
    <3>4. n \in 0..Len(Text(s))
      BY <1>1, <1>2
    <3> QED  BY <1>1, <3>3, <3>4, EditCut DEF x
  <2> HIDE DEF s, w
  <2> QED  BY <1>1, <2>1, <2>2, <2>3, EmptySeq, EditDoes DEF s
<1>3. CASE n > s.len
  <2>1. Becomes(v, t, s.len, s.len, w)
    BY <1>1, <1>3 DEF Resizing
  <2>2. Fills(t, s, w)
    <3>1. \A i \in 0..(s.len - 1) : t.buf[i] = s.buf[i]
      BY <1>1, <1>3
    <3>2. \A i \in s.len..(n - 1) : t.buf[i] = c
      OBVIOUS
    <3>3. Sound(s)
      OBVIOUS
    <3> HIDE DEF s
    <3> HIDE DEF w
    <3>4. Fills(t, s, Filler(s, n, c))
      BY <1>3, <3>1, <3>2, <3>3, Filling
    <3> QED  BY <3>4 DEF Filler, w
  <2> HIDE DEF w
  <2> QED  BY <1>1, <2>1, <2>2, EditDoes DEF Fills
<1>4. n < s.len \/ n > s.len
  BY <1>1
<1> QED  BY <1>2, <1>3, <1>4

LEMMA ResizeByDoes ==
  ASSUME IInv, NEW v \in Strings, NEW n \in Nat, Resize(v, n)
  PROVE  Does(v)
<1> DEFINE t == SetLength(str[v], n)
<1>1. Sound(str[v])
  BY LiveIsSound DEF Resize
<1>2. Resized(t, str[v], n)
  BY <1>1, SetLengthSound
<1>3. n # str[v].len /\ Resizing(v, n, t, NUL)
  BY DEF Resize
<1> HIDE DEF t
<1> QED  BY <1>1, <1>2, <1>3, Bounds, ResizingDoes DEF Resized

LEMMA ResizeToDoes ==
  ASSUME IInv, NEW v \in Strings, NEW n \in Nat, NEW c \in Chars, ResizeTo(v, n, c)
  PROVE  Does(v)
<1> DEFINE s == str[v]
           r == SetLength(s, n)
           t == IF n > s.len THEN FillStr(r, s.len, c) ELSE ClearStr(s, n)
<1>1. Sound(s) /\ s.len \in Nat
  BY LiveIsSound DEF ResizeTo
<1>2. n # s.len /\ Resizing(v, n, t, c)
  BY DEF ResizeTo
<1>3. c \in Bytes
  BY Bounds
<1> HIDE DEF s
<1>4. CASE n > s.len
  <2>1. /\ Sound(r) /\ r.len = n /\ Held(r)
        /\ \A i \in 0..(s.len - 1) : i < n => r.buf[i] = s.buf[i]
    <3>1. Resized(r, s, n)
      BY <1>1, SetLengthSound
    <3> QED  BY <1>2, <3>1 DEF Resized
  <2> HIDE DEF r
  <2>2. Filled(t, r, s.len, c)
    <3>1. Filled(FillStr(r, s.len, c), r, s.len, c)
      BY <1>1, <1>3, <2>1, FillStrSound
    <3> QED  BY <1>4, <3>1
  <2> HIDE DEF t
  <2>3. /\ Sound(t) /\ t.len = n
        /\ \A i \in 0..(s.len - 1) : i < n => t.buf[i] = s.buf[i]
        /\ \A i \in s.len..(n - 1) : t.buf[i] = c
    BY <1>1, <2>1, <2>2 DEF Filled
  <2> QED  BY <1>1, <1>2, <1>3, <2>3, ResizingDoes DEF s
<1>5. CASE ~ (n > s.len)
  <2>1. Held(s) /\ n \in 0..s.len
    BY <1>1, <1>2, <1>5 DEF Sound, Bare
  <2>2. t = ClearStr(s, n)
    BY <1>5
  <2>3. Cut(t, s, n)
    BY <1>1, <2>1, <2>2, ClearStrSound
  <2> HIDE DEF t
  <2>4. /\ \A i \in 0..(s.len - 1) : i < n => t.buf[i] = s.buf[i]
        /\ \A i \in s.len..(n - 1) : t.buf[i] = c
    BY <1>1, <2>1, <2>3 DEF Cut
  <2> QED  BY <1>1, <1>2, <1>3, <2>3, <2>4, ResizingDoes DEF s, Cut
<1> QED  BY <1>4, <1>5

\* The capacity changes, the text does not.
LEMMA RoomDoes ==
  ASSUME IInv, NEW v \in Strings, Live(v), NEW t, Sound(t), SameText(t, str[v]),
         Becomes(v, t, 0, 0, <<>>)
  PROVE  Does(v)
<1>1. Sound(str[v]) /\ Text(str[v]) \in Seq(Bytes)
  BY LiveIsSound
<1>2. Text(t) = Text(str[v])
  BY <1>1, SameTextText
<1>3. Edited(Text(t), Text(str[v]), 0, 0, <<>>)
  <2>1. 0 \in 0..Len(Text(str[v]))
    BY <1>1
  <2> QED  BY <1>1, <1>2, <2>1, EditNothing
<1> QED  BY <1>3, EmptySeq, EditDoes

LEMMA ReserveDoes ==
  ASSUME IInv, NEW v \in Strings, NEW n \in Nat, Reserve(v, n)
  PROVE  Does(v)
<1> DEFINE s == str[v]
<1>1. Sound(s) /\ s.cap \in Nat /\ Live(v)
  BY LiveIsSound DEF Reserve, Sound, Members
<1>2. \/ Becomes(v, SetCapacity(s, n), 0, 0, <<>>)
      \/ Becomes(v, DecreaseCapacity(s, s.cap \div 2), 0, 0, <<>>)
      \/ UNCHANGED vars
  BY DEF Reserve
<1>3. Sound(SetCapacity(s, n)) /\ SameText(SetCapacity(s, n), s)
  BY <1>1, SetCapacitySound
<1>4. Sound(DecreaseCapacity(s, s.cap \div 2)) /\ SameText(DecreaseCapacity(s, s.cap \div 2), s)
  <2>1. s.cap \div 2 \in Nat
    BY <1>1
  <2> QED  BY <1>1, <2>1, DecreaseCapacitySound
<1> QED  BY <1>1, <1>2, <1>3, <1>4, RoomDoes DEF Does

LEMMA ShrinkToFitDoes ==
  ASSUME IInv, NEW v \in Strings, ShrinkToFit(v)
  PROVE  Does(v)
<1>1. Sound(str[v]) /\ str[v].len \in Nat /\ Live(v)
  BY LiveIsSound DEF ShrinkToFit
<1>2. /\ Sound(DecreaseCapacity(str[v], str[v].len))
      /\ SameText(DecreaseCapacity(str[v], str[v].len), str[v])
  BY <1>1, DecreaseCapacitySound
<1> QED  BY <1>1, <1>2, RoomDoes DEF ShrinkToFit

LEMMA CompareDoes ==
  ASSUME NEW v \in Strings, NEW u \in Strings, Compare(v, u)
  PROVE  Does(v)
BY DEF Compare, Does, Causes, Ends, Stray

-----------------------------------------------------------------------------
(* A step *)

CallStep(v) == \/ Does(v) \/ Destroy(v)
               \/ \E u \in Strings : Move(v, u) \/ Swap(v, u)

LEMMA PlacesAreNumbers ==
  ASSUME IInv, NEW v \in Strings
  PROVE  Places(v) \subseteq Nat /\ Lengths \subseteq Nat /\ Lengths \subseteq Asked
<1>1. str[v].len \in Nat
  BY DEF IInv, Members
<1> QED  BY <1>1 DEF Places, Lengths, Asked, npos, Word

LEMMA ConstructionStep ==
  ASSUME IInv, NEW v \in Strings, Construction(v)
  PROVE  Does(v)
<1>1. CASE Default(v)
  BY <1>1, DefaultDoes
<1>2. CASE \E w \in Inputs : FromText(v, w)
  BY <1>2, FromTextDoes
<1>3. CASE \E w \in Inputs : \E n \in 0..(Len(w) + 1) \union {npos} : FromBuffer(v, w, n)
  <2>1. PICK w \in Inputs : \E n \in 0..(Len(w) + 1) \union {npos} : FromBuffer(v, w, n)
    BY <1>3
  <2>2. \A n \in 0..(Len(w) + 1) \union {npos} : n \in Nat
    BY DEF npos, Word
  <2> QED  BY <2>1, <2>2, FromBufferDoes
<1>4. CASE \E u \in Strings : Copy(v, u)
  BY <1>4, CopyDoes
<1>5. CASE \E u \in Strings, w \in Inputs : Plus(v, u, w)
  BY <1>5, PlusDoes
<1>6. CASE \E u \in Strings, c \in Chars : PlusChar(v, c, u)
  BY <1>6, PlusCharDoes
<1>7. CASE \E u \in Strings : \E pos \in Places(u), len \in Lengths : CopyPart(v, u, pos, len)
  BY <1>7, PlacesAreNumbers, CopyPartDoes
<1>8. CASE \E u \in Strings : \E pos \in Places(u), len \in Lengths : Substr(v, u, pos, len)
  BY <1>8, PlacesAreNumbers, SubstrDoes
<1> QED  BY <1>1, <1>2, <1>3, <1>4, <1>5, <1>6, <1>7, <1>8 DEF Construction

LEMMA ModificationStep ==
  ASSUME IInv, NEW v \in Strings, Modification(v)
  PROVE  Does(v) \/ Destroy(v)
<1>1. CASE AppendOwn(v) \/ PopBack(v) \/ Clear(v) \/ ShrinkToFit(v) \/ Destroy(v)
  BY <1>1, AppendOwnDoes, PopBackDoes, ClearDoes, ShrinkToFitDoes
<1>2. CASE \E w \in Inputs : AppendText(v, w)
  BY <1>2, InputsAreTexts, AppendDoes
<1>3. CASE \E n \in Sizes : Resize(v, n) \/ Reserve(v, n) \/ \E c \in Chars : ResizeTo(v, n, c)
  BY <1>3, Bounds, ResizeByDoes, ReserveDoes, ResizeToDoes
<1>4. CASE \E pos \in Places(v) : InsertOwn(v, pos)
  BY <1>4, PlacesAreNumbers, InsertOwnDoes
<1>5. CASE \E pos \in Places(v), w \in Inputs : Insert(v, pos, w)
  BY <1>5, PlacesAreNumbers, InputsAreTexts, InsertDoes
<1>6. CASE \E pos \in Places(v), len \in Lengths : Erase(v, pos, len) \/ ReplaceByOwn(v, pos, len)
  BY <1>6, PlacesAreNumbers, EraseDoes, ReplaceByOwnDoes
<1>7. CASE \E pos \in Places(v), len \in Lengths, w \in Inputs : Replace(v, pos, len, w)
  BY <1>7, PlacesAreNumbers, InputsAreTexts, ReplaceTextDoes
<1> QED  BY <1>1, <1>2, <1>3, <1>4, <1>5, <1>6, <1>7 DEF Modification

LEMMA CombinationStep ==
  ASSUME IInv, NEW v \in Strings, NEW u \in Strings, Combination(v, u)
  PROVE  Does(v)
<1>1. CASE Assign(v, u) \/ Compare(v, u)
  BY <1>1, AssignDoes, CompareDoes
<1>2. CASE \E pos \in Places(v), len \in Lengths : ReplaceBy(v, pos, len, u)
  BY <1>2, PlacesAreNumbers, ReplaceByDoes
<1>3. CASE \E pos \in Places(u), len \in Lengths : AppendPart(v, u, pos, len)
  BY <1>3, PlacesAreNumbers, AppendPartDoes
<1>4. CASE \E pos \in Places(u), len \in Lengths : InsertPart(v, 0, u, pos, len)
  BY <1>4, PlacesAreNumbers, InsertPartDoes
<1>5. CASE \E pos \in Places(u), len \in Lengths : ReplaceByPart(v, u, pos, len)
  BY <1>5, PlacesAreNumbers, ReplaceByPartDoes
<1> QED  BY <1>1, <1>2, <1>3, <1>4, <1>5 DEF Combination

LEMMA NextStep ==
  ASSUME IInv, Next
  PROVE  UNCHANGED vars \/ \E v \in Strings : CallStep(v)
<1>1. CASE Stop
  BY <1>1 DEF Stop
<1>2. ASSUME NEW v \in Strings, Construction(v) PROVE CallStep(v)
  BY <1>2, ConstructionStep DEF CallStep
<1>3. ASSUME NEW v \in Strings, Modification(v) PROVE CallStep(v)
  BY <1>3, ModificationStep DEF CallStep
<1>4. ASSUME NEW v \in Strings, NEW u \in Strings, Combination(v, u) PROVE CallStep(v)
  BY <1>4, CombinationStep DEF CallStep
<1>5. ASSUME NEW v \in Strings, NEW u \in Strings, Move(v, u) \/ Swap(v, u) PROVE CallStep(v)
  BY <1>5 DEF CallStep
<1> QED  BY <1>1, <1>2, <1>3, <1>4, <1>5 DEF Next

-----------------------------------------------------------------------------
(* Type correctness and the terminator *)

LEMMA InitIsKept == Init => IInv
<1> SUFFICES ASSUME Init PROVE IInv
  OBVIOUS
<1>1. NoString \in Members
  BY Bounds DEF NoString, NewString, Members, Buffers
<1> QED  BY <1>1 DEF Init, IInv, Settled, Causes

\* A string that a call may leave.
LEMMA BoundedIsKept ==
  ASSUME IInv, NEW v \in Strings, NEW s, Sound(s), Bounded(v, s)
  PROVE  Settled(s) /\ s \in Members /\ s # NoString
<1>1. s \in Members /\ s.len \in Nat /\ s.by \in Nat /\ s.by > 0
  BY Bounds DEF Sound, Members
<1>2. s.len <= MaxLen
  <2>1. CASE Others(v) = {}
    BY <2>1 DEF Bounded
  <2>2. CASE Others(v) # {}
    <3>1. PICK u \in Others(v) : str[u].len + s.len <= MaxShared
      BY <2>2 DEF Bounded
    <3>2. str[u].len \in Nat
      BY DEF Others, IInv, Members
    <3> QED  BY <1>1, <3>1, <3>2, Bounds
  <2> QED  BY <2>1, <2>2
<1>3. s # NoString
  BY <1>1 DEF NoString, NewString
<1> QED  BY <1>1, <1>2, <1>3 DEF Settled, Bounded

\* The members of one string moved to another one.
LEMMA MovedIsKept ==
  ASSUME NEW s, NEW t, Sound(s), Sound(t), s.len <= MaxLen
  PROVE  Settled(Moved(t, s)) /\ Moved(t, s) \in Members /\ Moved(t, s) # NoString
         /\ Text(Moved(t, s)) = Text(s) /\ Moved(t, s).by = t.by
         /\ Moved(t, s).buf = s.buf
<1> DEFINE r == Moved(t, s)
<1>1. /\ s \in Members /\ s.buf \in Buffers /\ s.len \in Nat /\ s.cap \in Nat
      /\ t \in Members /\ t.by \in Nat /\ t.by >= IncreaseBy
  BY DEF Sound, Members
<1>2. r = [buf |-> s.buf, len |-> s.len, cap |-> s.cap, by |-> t.by]
  <2> DEFINE a == [t EXCEPT !.buf = s.buf]
             b == [a EXCEPT !.len = s.len]
             c == [b EXCEPT !.cap = s.cap]
  <2>1. a \in Members /\ a.buf = s.buf /\ a.by = t.by
    BY <1>1 DEF Members
  <2>2. r = c
    BY DEF Moved
  <2> HIDE DEF a
  <2>3. b \in Members /\ b.buf = s.buf /\ b.len = s.len /\ b.by = t.by
    BY <1>1, <2>1 DEF Members
  <2> HIDE DEF b
  <2>4. c = [buf |-> s.buf, len |-> s.len, cap |-> s.cap, by |-> t.by]
    BY <1>1, <2>3 DEF Members
  <2> QED  BY <2>2, <2>4
<1> HIDE DEF r
<1>3. r \in Members /\ r.buf = s.buf /\ r.len = s.len /\ r.cap = s.cap /\ r.by = t.by
  BY <1>1, <1>2 DEF Members
<1>4. Sound(r)
  BY <1>1, <1>3 DEF Sound, Held, Bare
<1>5. r # NoString
  <2>1. r.by > 0 /\ NoString.by = 0
    BY <1>1, <1>3, Bounds DEF NoString, NewString
  <2> QED  BY <2>1
<1>6. Text(r) = Text(s)
  BY <1>3 DEF Text
<1> QED  BY <1>3, <1>4, <1>5, <1>6 DEF Settled, r

LEMMA LiveIsKept ==
  ASSUME IInv, NEW v \in Strings, Live(v)
  PROVE  Sound(str[v]) /\ str[v].len <= MaxLen
BY DEF IInv, Live, Settled

\* One string changes.
Changes(v, s) == s \in Members /\ Settled(s) /\ str' = [str EXCEPT ![v] = s]

LEMMA ChangeKeeps ==
  ASSUME IInv, NEW v \in Strings, NEW s, Changes(v, s)
  PROVE  IInv'
BY DEF Changes, IInv

LEMMA StepKeeps ==
  ASSUME IInv, NEW v \in Strings, CallStep(v)
  PROVE  IInv'
<1>1. CASE Edits(v)
  <2>1. PICK s, i, j, w : Sound(s) /\ Becomes(v, s, i, j, w)
    BY <1>1 DEF Edits
  <2>2. Bounded(v, s) /\ str' = [str EXCEPT ![v] = s]
    BY <2>1 DEF Becomes
  <2> QED  BY <2>1, <2>2, BoundedIsKept, ChangeKeeps DEF Changes
<1>2. CASE Garbles(v)
  <2>1. PICK s : Sound(s) /\ Garbled(v, s)
    BY <1>2 DEF Garbles
  <2>2. Bounded(v, s) /\ str' = [str EXCEPT ![v] = s]
    BY <2>1 DEF Garbled
  <2> QED  BY <2>1, <2>2, BoundedIsKept, ChangeKeeps DEF Changes
<1>3. CASE \E c \in Causes : Ends(c)
  BY <1>3 DEF Ends, IInv
<1>4. CASE UNCHANGED vars
  BY <1>4 DEF vars, IInv
<1>5. CASE Destroy(v)
  <2>1. NoString \in Members /\ Settled(NoString)
    BY Bounds DEF NoString, NewString, Members, Buffers, Settled
  <2> QED  BY <1>5, <2>1, ChangeKeeps DEF Destroy, Changes
<1>6. CASE \E u \in Strings : Move(v, u)
  <2>1. PICK u \in Strings : Move(v, u)
    BY <1>6
  <2> DEFINE to == IF Live(v) THEN str[v] ELSE NewString
             r == Moved(to, str[u])
             e == Moved(str[u], NewString)
  <2>2. v # u /\ str' = [str EXCEPT ![v] = r, ![u] = e] /\ Live(u)
    BY <2>1 DEF Move
  <2>3. Sound(to) /\ Sound(str[u]) /\ str[u].len <= MaxLen
    BY <2>2, LiveIsKept, NewStringIsSound, Bounds DEF NewString
  <2>4. Sound(NewString) /\ NewString.len <= MaxLen
    BY NewStringIsSound, Bounds DEF NewString
  <2> HIDE DEF to
  <2>5. r \in Members /\ Settled(r) /\ e \in Members /\ Settled(e)
    BY <2>3, <2>4, MovedIsKept
  <2> HIDE DEF r, e
  <2> QED  BY <2>2, <2>5 DEF IInv
<1>7. CASE \E u \in Strings : Swap(v, u)
  <2>1. PICK u \in Strings : Swap(v, u)
    BY <1>7
  <2> DEFINE r == Moved(str[v], str[u])
             e == Moved(str[u], str[v])
  <2>2. str' = [str EXCEPT ![v] = r, ![u] = e] /\ Live(v) /\ Live(u)
    BY <2>1 DEF Swap
  <2>3. r \in Members /\ Settled(r) /\ e \in Members /\ Settled(e)
    BY <2>2, LiveIsKept, MovedIsKept
  <2> HIDE DEF r, e
  <2> QED  BY <2>2, <2>3 DEF IInv
<1> QED  BY <1>1, <1>2, <1>3, <1>4, <1>5, <1>6, <1>7 DEF CallStep, Does

LEMMA Invariance == Spec => []IInv
<1>1. IInv /\ [Next]_vars => IInv'
  <2> SUFFICES ASSUME IInv, [Next]_vars PROVE IInv'
    OBVIOUS
  <2>1. UNCHANGED vars => IInv'
    BY DEF vars, IInv
  <2> QED  BY <2>1, NextStep, StepKeeps
<1> QED  BY InitIsKept, <1>1, PTL DEF Spec

\* What only the bounds of the model say.
Limited == halt \in Causes /\ \A v \in Strings : str[v].by <= MaxBy

LEMMA StepLimits ==
  ASSUME IInv, Limited, NEW v \in Strings, CallStep(v)
  PROVE  Limited'
<1>1. str \in [Strings -> Members]
  BY DEF IInv
<1>2. ASSUME NEW s, Bounded(v, s), str' = [str EXCEPT ![v] = s], halt' = halt PROVE Limited'
  BY <1>1, <1>2 DEF Limited, Bounded
<1>3. CASE Edits(v)
  BY <1>2, <1>3 DEF Edits, Becomes
<1>4. CASE Garbles(v)
  BY <1>2, <1>4 DEF Garbles, Garbled
<1>5. CASE \E c \in Causes : Ends(c)
  BY <1>5 DEF Ends, Limited
<1>6. CASE UNCHANGED vars
  BY <1>6 DEF vars, Limited
<1>7. CASE Destroy(v)
  <2>1. NoString.by <= MaxBy
    BY Bounds DEF NoString, NewString
  <2> QED  BY <1>1, <1>7, <2>1 DEF Destroy, Limited
<1>8. CASE \E u \in Strings : Move(v, u)
  <2>1. PICK u \in Strings : Move(v, u)
    BY <1>8
  <2> DEFINE to == IF Live(v) THEN str[v] ELSE NewString
             r == Moved(to, str[u])
             e == Moved(str[u], NewString)
  <2>2. v # u /\ str' = [str EXCEPT ![v] = r, ![u] = e] /\ halt' = halt /\ Live(u)
    BY <2>1 DEF Move
  <2>3. Sound(to) /\ Sound(str[u]) /\ str[u].len <= MaxLen
    BY <2>2, LiveIsKept, NewStringIsSound
  <2>4. Sound(NewString) /\ NewString.len <= MaxLen
    BY NewStringIsSound, Bounds DEF NewString
  <2>5. to.by <= MaxBy
    <3>1. str[u].by \in Nat /\ str[u].by >= IncreaseBy /\ str[u].by <= MaxBy
      BY <2>3 DEF Sound, Members, Limited
    <3>2. NewString.by = IncreaseBy
      BY DEF NewString
    <3> QED  BY <3>1, <3>2, Bounds DEF Limited
  <2> HIDE DEF to
  <2>6. r.by <= MaxBy /\ e.by <= MaxBy
    BY <2>3, <2>4, <2>5, MovedIsKept DEF Limited
  <2> HIDE DEF r, e
  <2> QED  BY <1>1, <2>2, <2>6 DEF Limited
<1>9. CASE \E u \in Strings : Swap(v, u)
  <2>1. PICK u \in Strings : Swap(v, u)
    BY <1>9
  <2> DEFINE r == Moved(str[v], str[u])
             e == Moved(str[u], str[v])
  <2>2. str' = [str EXCEPT ![v] = r, ![u] = e] /\ halt' = halt /\ Live(v) /\ Live(u)
    BY <2>1 DEF Swap
  <2>3. r.by <= MaxBy /\ e.by <= MaxBy
    BY <2>2, LiveIsKept, MovedIsKept DEF Limited
  <2> HIDE DEF r, e
  <2> QED  BY <1>1, <2>2, <2>3 DEF Limited
<1> QED  BY <1>3, <1>4, <1>5, <1>6, <1>7, <1>8, <1>9 DEF CallStep, Does

LEMMA LimitInvariance == Spec => []Limited
<1>1. Init => Limited
  BY Bounds DEF Init, Limited, Causes, NoString, NewString
<1>2. IInv /\ Limited /\ [Next]_vars => Limited'
  <2> SUFFICES ASSUME IInv, Limited, [Next]_vars PROVE Limited'
    OBVIOUS
  <2>1. UNCHANGED vars => Limited'
    BY DEF vars, Limited
  <2> QED  BY <2>1, NextStep, StepLimits
<1> QED  BY <1>1, <1>2, Invariance, PTL DEF Spec

\* Every call leaves the members of a string with their types, and within the
\* bounds of the model (String.hpp:1641-2740).
THEOREM TypeCorrect == Spec => []TypeOK
<1>1. IInv /\ Limited => TypeOK
  <2> SUFFICES ASSUME IInv, Limited, NEW v \in Strings
               PROVE  /\ str[v].len \in 0..MaxLen /\ str[v].by \in 0..MaxBy /\ str[v].cap \in Nat
                      /\ str[v].buf \in {Null} \union [0..str[v].cap -> Bytes]
    BY DEF TypeOK, Limited
  <2>1. str[v] \in Members /\ Settled(str[v]) /\ str[v].by <= MaxBy
    BY DEF IInv, Limited
  <2>2. CASE str[v] = NoString
    BY <2>2, Bounds DEF NoString, NewString
  <2>3. CASE str[v] # NoString
    BY <2>1, <2>3, Bounds DEF Settled, Sound, Held, Bare, Members
  <2> QED  BY <2>2, <2>3
<1> QED  BY <1>1, Invariance, LimitInvariance, PTL

\* Whatever was called before, there is room for the length and the terminator,
\* and only NULs behind the text (String.hpp:1641-1895): the calls that read too
\* far, or grow the length without writing, rely on it.
THEOREM TailIsZero == Spec => []ZeroTail
<1>1. IInv => ZeroTail
  <2> SUFFICES ASSUME IInv, NEW v \in Strings
               PROVE  IF str[v].buf = Null THEN str[v].len = 0 /\ str[v].cap = 0
                      ELSE /\ str[v].len <= str[v].cap
                           /\ \A i \in str[v].len..str[v].cap : str[v].buf[i] = NUL
    BY DEF ZeroTail
  <2>1. str[v] \in Members /\ Settled(str[v])
    BY DEF IInv
  <2>2. CASE str[v] = NoString
    BY <2>2 DEF NoString, NewString
  <2>3. CASE Held(str[v])
    BY <2>1, <2>3, HeldIsNotNull DEF Held
  <2>4. CASE Bare(str[v])
    BY <2>4 DEF Bare
  <2> QED  BY <2>1, <2>2, <2>3, <2>4 DEF Settled, Sound
<1> QED  BY <1>1, Invariance, PTL

-----------------------------------------------------------------------------
(* What ends a program *)

Explained ==
  LET v == asked'.v IN
  /\ halt' = "null"      => Live(v) /\ str[v].buf = Null /\ str[v].len = 0
  /\ halt' = "freed"     => str[v].len > 0 /\ str[v].cap <= 2 * str[v].len
  /\ halt' = "bounds"    => asked'.len = npos /\ asked'.from > str[v].len
  /\ halt' = "bad_alloc" => asked'.len = npos /\ asked'.from > str[v].len + 1

\* The program goes on, or ends in a way that needs no explanation.
Mild == halt' \in {"no", "terminate"}

LEMMA MildIsExplained == Mild => Explained
BY DEF Mild, Explained

LEMMA NullIsExplained ==
  ASSUME IInv, NEW v \in Strings, Live(v), str[v].buf = Null, NEW pos, NEW len,
         Stray("null", v, pos, len)
  PROVE  Explained
<1>1. str[v] \in Members /\ Sound(str[v])
  BY LiveIsSound DEF Sound
<1>2. str[v].len = 0
  BY <1>1, HeldIsNotNull DEF Sound, Bare
<1>3. halt' = "null" /\ asked'.v = v
  BY DEF Stray
<1> QED  BY <1>2, <1>3 DEF Explained

LEMMA FreedIsExplained ==
  ASSUME IInv, NEW v \in Strings, Live(v), str[v].len > 0, ~ Fits(str[v], 2 * str[v].len),
         NEW pos, NEW len, Stray("freed", v, pos, len)
  PROVE  Explained
<1>1. str[v] \in Members /\ Sound(str[v]) /\ str[v].cap \in Nat /\ str[v].len \in Nat
  BY LiveIsSound DEF Sound, Members
<1>2. Held(str[v])
  BY <1>1 DEF Sound, Bare
<1>3. str[v].cap <= 2 * str[v].len
  BY <1>1, <1>2, HeldIsNotNull DEF Fits
<1>4. halt' = "freed" /\ asked'.v = v
  BY DEF Stray
<1> QED  BY <1>3, <1>4 DEF Explained

LEMMA BoundsIsExplained ==
  ASSUME NEW v, NEW pos, NEW len, len = npos, pos > str[v].len, Stray("bounds", v, pos, len)
  PROVE  Explained
<1>1. halt' = "bounds" /\ asked'.v = v /\ asked'.from = pos /\ asked'.len = len
  BY DEF Stray
<1> QED  BY <1>1 DEF Explained

LEMMA BadAllocIsExplained ==
  ASSUME NEW v, NEW pos, NEW len, len = npos, pos > str[v].len + 1,
         Stray("bad_alloc", v, pos, len)
  PROVE  Explained
<1>1. halt' = "bad_alloc" /\ asked'.v = v /\ asked'.from = pos /\ asked'.len = len
  BY DEF Stray
<1> QED  BY <1>1 DEF Explained

\* Only npos gets a position beyond the end past the test.
LEMMA OnlyNpos ==
  ASSUME IInv, NEW v \in Strings, Live(v), NEW pos \in Places(v), NEW len \in Lengths,
         ~ TooLong(str[v], str[v], pos, len), pos > str[v].len
  PROVE  len = npos
<1> DEFINE n == str[v].len
<1>1. n \in Nat /\ n <= MaxLen /\ n < 126
  BY LiveIsSound, Bounds
<1>2. pos = n + 1
  BY <1>1 DEF Places
<1>3. len \notin {0, 1}
  <2> SUFFICES ASSUME len \in {0, 1} PROVE FALSE
    OBVIOUS
  <2>1. Length(str[v], pos, len) = len
    BY DEF Length, npos, Word
  <2>2. (pos + len) % 256 = pos + len /\ pos + len > n
    BY <1>1, <1>2
  <2> QED  BY <2>1, <2>2 DEF TooLong, Wrap, Word
<1> QED  BY <1>3 DEF Lengths

\* Only npos asks for a part that is too long: it has wrapped around behind the
\* text, and is npos again one character behind it.
LEMMA PartTooLong ==
  ASSUME NEW s, s.len \in Nat, s.len < 126, NEW pos \in 0..126,
         NEW len \in 0..126 \union {npos}, Length(s, pos, len) >= Word \div 2
  PROVE  len = npos /\ pos > s.len /\ (Length(s, pos, len) # npos => pos > s.len + 1)
<1>1. len = npos /\ Length(s, pos, len) = (s.len - pos) % 256 /\ (s.len - pos) % 256 >= 128
  BY DEF Length, npos, Wrap, Word
<1>2. pos > s.len
  <2> SUFFICES ASSUME pos <= s.len PROVE FALSE
    OBVIOUS
  <2>1. (s.len - pos) % 256 = s.len - pos
    OBVIOUS
  <2> QED  BY <1>1, <2>1
<1>3. pos = s.len + 1 => (s.len - pos) % 256 = 255
  <2>1. (s.len + 1 <= 126) => (s.len - (s.len + 1)) % 256 = 255
    OBVIOUS
  <2> QED  BY <2>1
<1> QED  BY <1>1, <1>2, <1>3 DEF npos, Word

\* A part that is taken on behalf of v does no harm, or npos has asked for it.
LEMMA PartExplained ==
  ASSUME IInv, NEW v \in Strings, NEW pos \in 0..126, NEW len \in 0..126 \union {npos},
         \/ Mild
         \/ Length(str[v], pos, len) = npos /\ Stray("bounds", v, pos, len)
         \/ /\ Length(str[v], pos, len) # npos
            /\ Length(str[v], pos, len) >= Word \div 2 /\ Stray("bad_alloc", v, pos, len)
  PROVE  Explained
<1>1. str[v].len \in Nat /\ str[v].len < 126
  BY Bounds DEF IInv, Settled, Members, Sound, NoString, NewString
<1>2. npos >= Word \div 2
  BY DEF npos, Word
<1>3. Length(str[v], pos, len) >= Word \div 2 =>
        len = npos /\ pos > str[v].len /\ (Length(str[v], pos, len) # npos => pos > str[v].len + 1)
  BY <1>1, PartTooLong
<1> QED  BY <1>2, <1>3, MildIsExplained, BoundsIsExplained, BadAllocIsExplained

\* What the parts are asked for with.
LEMMA PlacesAreShort ==
  ASSUME IInv, NEW u \in Strings, NEW pos \in Places(u), NEW len \in Lengths
  PROVE  pos \in 0..126 /\ len \in 0..126 \union {npos}
<1>1. str[u].len \in Nat /\ str[u].len < 126
  BY Bounds DEF IInv, Settled, Members, Sound, NoString, NewString
<1> QED  BY <1>1 DEF Places, Lengths

LEMMA EraseExplained ==
  ASSUME IInv, halt = "no", NEW v \in Strings, NEW pos \in Places(v), NEW len \in Lengths,
         Erase(v, pos, len)
  PROVE  Explained
<1>1. Live(v) /\ \/ Mild
                 \/ str[v].buf = Null /\ Stray("null", v, pos, len)
                 \/ /\ ~ TooLong(str[v], str[v], pos, len) /\ pos > str[v].len
                    /\ Stray("bounds", v, pos, len)
  BY DEF Erase, Mild, Halt, Becomes
<1> QED  BY <1>1, OnlyNpos, MildIsExplained, NullIsExplained, BoundsIsExplained

LEMMA ReplacingExplained ==
  ASSUME IInv, NEW v \in Strings, NEW pos \in Places(v), NEW len \in Lengths, Live(v),
         Mild \/ (~ TooLong(str[v], str[v], pos, len) /\ pos > str[v].len /\ Stray("bounds", v, pos, len))
  PROVE  Explained
BY OnlyNpos, MildIsExplained, BoundsIsExplained

LEMMA ReplaceExplained ==
  ASSUME IInv, halt = "no", NEW v \in Strings, NEW pos \in Places(v), NEW len \in Lengths, NEW w,
         Replace(v, pos, len, w)
  PROVE  Explained
<1>1. /\ Live(v)
      /\ \/ Mild
         \/ ~ TooLong(str[v], str[v], pos, len) /\ pos > str[v].len /\ Stray("bounds", v, pos, len)
  BY DEF Replace, Replacing, Mild, Halt, Becomes
<1> QED  BY <1>1, ReplacingExplained

LEMMA ReplaceByOwnExplained ==
  ASSUME IInv, halt = "no", NEW v \in Strings, NEW pos \in Places(v), NEW len \in Lengths,
         ReplaceByOwn(v, pos, len)
  PROVE  Explained
<1>1. /\ Live(v)
      /\ \/ Mild
         \/ ~ TooLong(str[v], str[v], pos, len) /\ pos > str[v].len /\ Stray("bounds", v, pos, len)
  BY DEF ReplaceByOwn, Replacing, Mild, Halt, Garbled
<1> QED  BY <1>1, ReplacingExplained

\* A constructor and substr() with a part.
LEMMA ConstructPartExplained ==
  ASSUME IInv, halt = "no", NEW v \in Strings,
         \/ \E w \in Inputs : \E n \in 0..(Len(w) + 1) \union {npos} : FromBuffer(v, w, n)
         \/ \E u \in Strings : \E pos \in Places(u), len \in Lengths :
              CopyPart(v, u, pos, len) \/ Substr(v, u, pos, len)
  PROVE  Explained
<1>1. ASSUME NEW w \in Inputs, NEW n \in 0..(Len(w) + 1) \union {npos}, FromBuffer(v, w, n) PROVE Explained
  <2>1. n \in 0..126 \union {npos} /\ 0 \in 0..126
    <3>1. w \in Seq(Chars) /\ Len(w) + 2 < 128
      BY Bounds, WidthAssumption DEF Word
    <3> QED  BY <3>1
  <2>2. \/ Mild
        \/ Length(str[v], 0, n) = npos /\ Stray("bounds", v, 0, n)
        \/ /\ Length(str[v], 0, n) # npos
           /\ Length(str[v], 0, n) >= Word \div 2 /\ Stray("bad_alloc", v, 0, n)
    BY <1>1 DEF FromBuffer, WithPart, Halt, Garbled, Construct, Becomes, Mild
  <2> QED  BY <2>1, <2>2, PartExplained
<1>2. ASSUME NEW u \in Strings, NEW pos \in Places(u), NEW len \in Lengths, CopyPart(v, u, pos, len)
      PROVE  Explained
  <2>1. \/ Mild
        \/ Length(str[v], pos, len) = npos /\ Stray("bounds", v, pos, len)
        \/ /\ Length(str[v], pos, len) # npos
           /\ Length(str[v], pos, len) >= Word \div 2 /\ Stray("bad_alloc", v, pos, len)
    BY <1>2 DEF CopyPart, WithPart, Halt, Garbled, Construct, Becomes, Mild
  <2> QED  BY <2>1, PlacesAreShort, PartExplained
<1>3. ASSUME NEW u \in Strings, NEW pos \in Places(u), NEW len \in Lengths, Substr(v, u, pos, len)
      PROVE  Explained
  <2>1. \/ Mild
        \/ Length(str[u], pos, len) = npos /\ Stray("bounds", u, pos, len)
        \/ /\ Length(str[u], pos, len) # npos
           /\ Length(str[u], pos, len) >= Word \div 2 /\ Stray("bad_alloc", u, pos, len)
    BY <1>3 DEF Substr, WithPart, Halt, Construct, Becomes, Mild
  <2> QED  BY <2>1, PlacesAreShort, PartExplained
<1> QED  BY <1>1, <1>2, <1>3

LEMMA ConstructionExplained ==
  ASSUME IInv, halt = "no", NEW v \in Strings, Construction(v)
  PROVE  Explained
<1>1. Default(v) => Mild
  BY DEF Default, Construct, Becomes, Mild
<1>2. ASSUME NEW w, FromText(v, w) PROVE Mild
  BY <1>2 DEF FromText, Construct, Becomes, Mild
<1>3. ASSUME NEW u, Copy(v, u) PROVE Mild
  BY <1>3 DEF Copy, Construct, Becomes, Mild
<1>4. ASSUME NEW u, NEW w, Plus(v, u, w) PROVE Mild
  BY <1>4 DEF Plus, Construct, Becomes, Mild
<1>5. ASSUME NEW u, NEW c, PlusChar(v, c, u) PROVE Mild
  BY <1>5 DEF PlusChar, Garbled, Mild
<1> QED  BY <1>1, <1>2, <1>3, <1>4, <1>5, MildIsExplained, ConstructPartExplained DEF Construction

LEMMA InsertMild ==
  ASSUME halt = "no", NEW v \in Strings, NEW pos, NEW w, Insert(v, pos, w)
  PROVE  Mild
BY DEF Insert, Halt, Becomes, Mild

LEMMA ModificationExplained ==
  ASSUME IInv, halt = "no", NEW v \in Strings, Modification(v)
  PROVE  Explained
<1>1. ASSUME AppendOwn(v) PROVE Explained
  <2>1. /\ Live(v)
        /\ \/ Mild
           \/ /\ str[v].len > 0 /\ ~ Fits(str[v], 2 * str[v].len)
              /\ Stray("freed", v, str[v].len, 0)
    BY <1>1 DEF AppendOwn, AppendText, Becomes, Mild
  <2> QED  BY <2>1, MildIsExplained, FreedIsExplained
<1>2. ASSUME PopBack(v) PROVE Explained
  <2>1. Mild \/ (str[v].len # 0 /\ Erase(v, str[v].len - 1, 1))
    BY <1>2 DEF PopBack, Halt, Mild
  <2>2. str[v].len \in Nat
    BY <1>2, LiveIsSound DEF PopBack
  <2>3. str[v].len # 0 => str[v].len - 1 \in Places(v) /\ 1 \in Lengths
    BY <2>2 DEF Places, Lengths
  <2> QED  BY <2>1, <2>3, MildIsExplained, EraseExplained
<1>3. ASSUME Clear(v) PROVE Explained
  <2>1. Live(v) /\ (Mild \/ (str[v].buf = Null /\ Stray("null", v, 0, 0)))
    BY <1>3 DEF Clear, Becomes, Mild
  <2> QED  BY <2>1, MildIsExplained, NullIsExplained
<1>4. ASSUME ShrinkToFit(v) \/ Destroy(v) PROVE Mild
  BY <1>4 DEF ShrinkToFit, Destroy, Becomes, Mild
<1>5. ASSUME NEW w, AppendText(v, w) PROVE Mild
  BY <1>5 DEF AppendText, Becomes, Mild
<1>6. ASSUME NEW n, Resize(v, n) PROVE Mild
  BY <1>6 DEF Resize, Resizing, Becomes, Mild
<1>7. ASSUME NEW n, Reserve(v, n) PROVE Mild
  BY <1>7 DEF Reserve, Becomes, Mild, vars
<1>8. ASSUME NEW n, NEW c, ResizeTo(v, n, c) PROVE Mild
  BY <1>8 DEF ResizeTo, Resizing, Becomes, Mild
<1>9. ASSUME NEW pos \in Places(v), InsertOwn(v, pos) PROVE Explained
  <2>1. /\ Live(v) /\ pos < str[v].len
        /\ Mild \/ (~ Fits(str[v], 2 * str[v].len) /\ Stray("freed", v, pos, 0))
    BY <1>9 DEF InsertOwn, Garbled, Mild
  <2>2. str[v].len > 0
    BY <2>1, LiveIsSound DEF Places
  <2> QED  BY <2>1, <2>2, MildIsExplained, FreedIsExplained
<1> QED  BY <1>1, <1>2, <1>3, <1>4, <1>5, <1>6, <1>7, <1>8, <1>9, MildIsExplained, InsertMild,
            EraseExplained, ReplaceByOwnExplained, ReplaceExplained DEF Modification

LEMMA CombinationExplained ==
  ASSUME IInv, halt = "no", NEW v \in Strings, NEW u \in Strings, Combination(v, u)
  PROVE  Explained
<1>1. ASSUME Assign(v, u) PROVE Mild
  BY <1>1 DEF Assign, Becomes, Mild
<1>2. ASSUME Compare(v, u) PROVE Explained
  <2>1. /\ Live(v) /\ Live(u)
        /\ \/ Mild
           \/ \E x \in {v, u} : str[x].buf = Null /\ Stray("null", x, 0, 0)
    BY <1>2 DEF Compare, Mild, vars
  <2> QED  BY <2>1, MildIsExplained, NullIsExplained
<1>3. ASSUME NEW pos \in Places(v), NEW len \in Lengths, ReplaceBy(v, pos, len, u) PROVE Explained
  <2>1. Mild \/ Replace(v, pos, len, Text(str[u]))
    BY <1>3 DEF ReplaceBy, Halt, Mild
  <2> QED  BY <2>1, MildIsExplained, ReplaceExplained
<1>4. ASSUME NEW pos \in Places(u), NEW len \in Lengths, AppendPart(v, u, pos, len) PROVE Explained
  <2>1. \/ Mild
        \/ Length(str[v], pos, len) = npos /\ Stray("bounds", v, pos, len)
        \/ /\ Length(str[v], pos, len) # npos
           /\ Length(str[v], pos, len) >= Word \div 2 /\ Stray("bad_alloc", v, pos, len)
    BY <1>4 DEF AppendPart, WithPart, AppendText, Halt, Garbled, Becomes, Mild
  <2> QED  BY <2>1, PlacesAreShort, PartExplained
<1>5. ASSUME NEW pos \in Places(u), NEW len \in Lengths, InsertPart(v, 0, u, pos, len) PROVE Explained
  <2>1. \/ Mild
        \/ Length(str[v], pos, len) = npos /\ Stray("bounds", v, pos, len)
        \/ /\ Length(str[v], pos, len) # npos
           /\ Length(str[v], pos, len) >= Word \div 2 /\ Stray("bad_alloc", v, pos, len)
    BY <1>5, InsertMild DEF InsertPart, WithPart, Halt, Garbled, Mild
  <2> QED  BY <2>1, PlacesAreShort, PartExplained
<1>6. ASSUME NEW pos \in Places(u), NEW len \in Lengths, ReplaceByPart(v, u, pos, len) PROVE Explained
  <2>1. str[v].len \in Nat
    BY DEF IInv, Members
  <2>2. ~ (0 > str[v].len)
    BY <2>1
  <2>3. \/ Mild
        \/ Length(str[v], pos, len) = npos /\ Stray("bounds", v, pos, len)
        \/ /\ Length(str[v], pos, len) # npos
           /\ Length(str[v], pos, len) >= Word \div 2 /\ Stray("bad_alloc", v, pos, len)
    BY <1>6, <2>2 DEF ReplaceByPart, WithPart, Replacing, Replace, Halt, Garbled, Becomes, Mild
  <2> QED  BY <2>3, PlacesAreShort, PartExplained
<1> QED  BY <1>1, <1>2, <1>3, <1>4, <1>5, <1>6, MildIsExplained DEF Combination

\* A call that goes wrong in memory was made of a string without a buffer, had the
\* string itself for an argument and had to grow, or was given npos with a position
\* behind the text that npos is counted in, by which it left a buffer or asked for
\* too much memory (String.hpp:579, 1065, 1150-1227, 1837-1848, 1888).
THEOREM HaltsAreExplained == Spec => HaltCauses
<1>1. IInv /\ [Next]_vars => [Explained]_vars
  <2> SUFFICES ASSUME IInv, Next PROVE Explained \/ UNCHANGED vars
    OBVIOUS
  <2>1. CASE Stop
    BY <2>1 DEF Stop
  <2>2. ASSUME NEW v \in Strings, NEW u \in Strings, halt = "no", Move(v, u) \/ Swap(v, u) PROVE Explained
    BY <2>2, MildIsExplained DEF Move, Swap, Mild
  <2> QED  BY <2>1, <2>2, ConstructionExplained, ModificationExplained, CombinationExplained DEF Next
<1>2. [][Explained]_vars => HaltCauses
  BY DEF Explained, HaltCauses
<1> QED  BY <1>1, <1>2, Invariance, PTL DEF Spec

-----------------------------------------------------------------------------
(* A step of StringValues *)

Follows == Abstract!Next \/ Texts' = Texts

LEMMA TextsOf ==
  /\ DOMAIN Texts = {v \in Strings : Live(v)}
  /\ \A v \in Strings : Live(v) => Texts[v] = Text(str[v])
BY DEF Texts

\* One text changes.
LEMMA TextsChange ==
  ASSUME NEW v \in Strings, NEW s, s # NoString, str \in [Strings -> Members],
         str' = [str EXCEPT ![v] = s]
  PROVE  Texts' = Abstract!Set(Texts, v, Text(s))
<1> DEFINE L == {u \in Strings : Live(u)}
           M == {u \in Strings : str'[u] # NoString}
<1>1. M = L \union {v}
  BY DEF Live
<1>2. Texts = [u \in L |-> Text(str[u])] /\ Texts' = [u \in M |-> Text(str'[u])]
  BY DEF Texts, Live
<1>3. DOMAIN Texts = L
  BY <1>2
<1>4. Abstract!Set(Texts, v, Text(s)) = [u \in L \union {v} |-> IF u = v THEN Text(s) ELSE Texts[u]]
  BY <1>3 DEF Abstract!Set
<1>5. ASSUME NEW u \in M PROVE Text(str'[u]) = IF u = v THEN Text(s) ELSE Texts[u]
  BY <1>1, <1>2
<1> QED  BY <1>1, <1>2, <1>4, <1>5

LEMMA EditFollows ==
  ASSUME IInv, NEW v \in Strings, Edits(v)
  PROVE  Follows
<1>1. PICK s, i, j, w : /\ Sound(s) /\ i \in Nat /\ j \in Nat /\ w \in Seq(Bytes)
                        /\ Edited(Text(s), Text(str[v]), i, j, w)
                        /\ Becomes(v, s, i, j, w)
  BY DEF Edits
<1>2. /\ str' = [str EXCEPT ![v] = s] /\ Bounded(v, s)
      /\ asked' = [call |-> "edit", v |-> v, from |-> i, to |-> j, put |-> w]
  BY <1>1 DEF Becomes
<1>3. Texts' = Abstract!Set(Texts, v, Text(s))
  <2>1. s # NoString
    BY <1>1, <1>2, BoundedIsKept
  <2> QED  BY <1>2, <2>1, TextsChange DEF IInv
<1> DEFINE t == IF v \in DOMAIN Texts THEN Texts[v] ELSE <<>>
<1>4. t = Text(str[v])
  <2>1. CASE Live(v)
    BY <2>1, TextsOf
  <2>2. CASE ~ Live(v)
    <3>1. Text(str[v]) = <<>>
      BY <2>2 DEF Live, Text, NoString, NewString
    <3> QED  BY <2>2, <3>1, TextsOf
  <2> QED  BY <2>1, <2>2
<1>5. t \in Seq(Bytes)
  <2>1. CASE Live(v)
    BY <1>4, <2>1, LiveIsSound
  <2>2. CASE ~ Live(v)
    BY <2>2, TextsOf, EmptySeq
  <2> QED  BY <2>1, <2>2
<1> HIDE DEF t
<1>6. Behind(t, j) \in Seq(Bytes)
  <2>1. \A k \in (j + 1)..Len(t) : t[k] \in Bytes
    BY <1>1, <1>5
  <2> QED  BY <1>1, <1>5, <2>1, SubSeqProperties DEF Behind
<1>7. CString(w) = Abstract!UpToNul(w) /\ CString(Behind(t, j)) = Abstract!UpToNul(Behind(t, j))
  BY <1>1, <1>6, CStringIs
<1>8. PICK put \in {w, Abstract!UpToNul(w)}, tail \in {Behind(t, j), Abstract!UpToNul(Behind(t, j))} :
        Text(s) = (SubSeq(t, 1, i) \o put) \o tail
  BY <1>1, <1>4, <1>7 DEF Edited
<1>9. Behind(t, j) = Abstract!Part(t, j, Len(t)) /\ SubSeq(t, 1, i) = Abstract!Part(t, 0, i)
  <2>1. 0 + 1 = 1
    OBVIOUS
  <2> QED  BY <2>1 DEF Behind, Abstract!Part
<1>10. Abstract!Edit(v, i, j, w)
  BY <1>3, <1>8, <1>9 DEF Abstract!Edit, t
<1>11. asked' \in Abstract!Calls /\ asked'.call = "edit" /\ asked'.v = v /\ asked'.from = i
       /\ asked'.to = j /\ asked'.put = w
  BY <1>1, <1>2 DEF Abstract!Calls
<1>12. Abstract!Next
  BY <1>10, <1>11 DEF Abstract!Next
<1> QED  BY <1>12 DEF Follows

LEMMA GarbleFollows ==
  ASSUME IInv, NEW v \in Strings, Garbles(v)
  PROVE  Follows
<1>1. PICK s : Sound(s) /\ Garbled(v, s)
  BY DEF Garbles
<1>2. /\ str' = [str EXCEPT ![v] = s] /\ Bounded(v, s)
      /\ asked' = [call |-> "garble", v |-> v]
  BY <1>1 DEF Garbled
<1>3. Texts' = Abstract!Set(Texts, v, Text(s))
  <2>1. s # NoString
    BY <1>1, <1>2, BoundedIsKept
  <2> QED  BY <1>2, <2>1, TextsChange DEF IInv
<1>4. Texts'[v] = Text(s)
  BY <1>3 DEF Abstract!Set
<1>5. Text(s) \in Seq(Bytes)
  BY <1>1, TextType
<1>6. asked' \in Abstract!Calls /\ asked'.call = "garble" /\ asked'.v = v
  BY <1>2 DEF Abstract!Calls
<1>7. Abstract!Next
  BY <1>3, <1>4, <1>5, <1>6 DEF Abstract!Next
<1> QED  BY <1>7 DEF Follows

LEMMA DestroyFollows ==
  ASSUME IInv, NEW v \in Strings, Destroy(v)
  PROVE  Follows
<1>1. str' = [str EXCEPT ![v] = NoString] /\ asked' = [call |-> "drop", v |-> v]
  BY DEF Destroy
<1> DEFINE L == {u \in Strings : Live(u)}
           M == {u \in Strings : str'[u] # NoString}
<1>2. M = L \ {v} /\ \A u \in M : str'[u] = str[u]
  BY <1>1 DEF Live, IInv
<1>3. Texts = [u \in L |-> Text(str[u])] /\ Texts' = [u \in M |-> Text(str'[u])]
  BY DEF Texts, Live
<1>4. Texts' = [u \in DOMAIN Texts \ {v} |-> Texts[u]]
  BY <1>2, <1>3
<1>5. asked' \in Abstract!Calls /\ asked'.call = "drop" /\ asked'.v = v
  BY <1>1 DEF Abstract!Calls
<1>6. Abstract!Next
  BY <1>4, <1>5 DEF Abstract!Next
<1> QED  BY <1>6 DEF Follows

\* Two texts change.
Both(v, u, r, e) == /\ r # NoString /\ e # NoString /\ str' = [str EXCEPT ![v] = r, ![u] = e]
                    /\ u = v => Text(r) = Text(e)
TextsTwice(v, u, r, e) == Texts' = Abstract!Set(Abstract!Set(Texts, u, Text(e)), v, Text(r))

LEMMA TextsChangeTwice ==
  ASSUME NEW v \in Strings, NEW u \in Strings, NEW r, NEW e, Both(v, u, r, e),
         str \in [Strings -> Members]
  PROVE  TextsTwice(v, u, r, e)
<1> DEFINE L == {x \in Strings : Live(x)}
           M == {x \in Strings : str'[x] # NoString}
           T == Abstract!Set(Texts, u, Text(e))
<1>1. M = L \union {u, v}
  BY DEF Live, Both
<1>2. Texts = [x \in L |-> Text(str[x])] /\ Texts' = [x \in M |-> Text(str'[x])]
  BY DEF Texts, Live
<1>3. T = [x \in L \union {u} |-> IF x = u THEN Text(e) ELSE Texts[x]]
  BY <1>2 DEF Abstract!Set
<1> HIDE DEF T
<1>4. Abstract!Set(T, v, Text(r)) = [x \in (L \union {u}) \union {v} |-> IF x = v THEN Text(r) ELSE T[x]]
  BY <1>3 DEF Abstract!Set
<1>5. ASSUME NEW x \in M PROVE Text(str'[x]) = IF x = v THEN Text(r) ELSE T[x]
  <2>1. x = v => Text(str'[x]) = Text(r)
    BY <1>5 DEF Both
  <2>2. x # v /\ x = u => str'[x] = e /\ T[x] = Text(e)
    BY <1>3 DEF Both
  <2>3. x # v /\ x # u => x \in L /\ str'[x] = str[x] /\ T[x] = Text(str[x])
    BY <1>1, <1>2, <1>3 DEF Both
  <2> QED  BY <2>1, <2>2, <2>3
<1>6. M = (L \union {u}) \union {v}
  BY <1>1
<1> QED  BY <1>2, <1>4, <1>5, <1>6 DEF T, TextsTwice

LEMMA MoveFollows ==
  ASSUME IInv, NEW v \in Strings, NEW u \in Strings, Move(v, u)
  PROVE  Follows
<1> DEFINE to == IF Live(v) THEN str[v] ELSE NewString
           r == Moved(to, str[u])
           e == Moved(str[u], NewString)
<1>1. /\ v # u /\ str' = [str EXCEPT ![v] = r, ![u] = e] /\ Live(u)
      /\ asked' = [call |-> "take", v |-> v, w |-> u]
  BY DEF Move
<1>2. Sound(to) /\ Sound(str[u]) /\ str[u].len <= MaxLen
  BY <1>1, LiveIsKept, NewStringIsSound, Bounds DEF NewString
<1>3. Sound(NewString) /\ NewString.len <= MaxLen /\ Text(NewString) = <<>>
  BY NewStringIsSound, Bounds DEF NewString, Text
<1> HIDE DEF to
<1>4. r # NoString /\ Text(r) = Text(str[u]) /\ e # NoString /\ Text(e) = <<>>
  BY <1>2, <1>3, MovedIsKept
<1> HIDE DEF r, e
<1>5. Texts' = Abstract!Set(Abstract!Set(Texts, u, Text(e)), v, Text(r))
  <2>1. Both(v, u, r, e)
    BY <1>1, <1>4 DEF Both
  <2>2. TextsTwice(v, u, r, e)
    BY <2>1, TextsChangeTwice DEF IInv
  <2> QED  BY <2>2 DEF TextsTwice
<1>6. Texts[u] = Text(str[u])
  BY <1>1, TextsOf
<1>7. asked' \in Abstract!Calls /\ asked'.call = "take" /\ asked'.v = v /\ asked'.w = u
  BY <1>1 DEF Abstract!Calls
<1>8. Abstract!Next
  BY <1>4, <1>5, <1>6, <1>7 DEF Abstract!Next
<1> QED  BY <1>8 DEF Follows

LEMMA SwapFollows ==
  ASSUME IInv, NEW v \in Strings, NEW u \in Strings, Swap(v, u)
  PROVE  Follows
<1> DEFINE r == Moved(str[v], str[u])
           e == Moved(str[u], str[v])
<1>1. /\ str' = [str EXCEPT ![v] = r, ![u] = e] /\ Live(v) /\ Live(u)
      /\ asked' = [call |-> "swap", v |-> v, w |-> u]
  BY DEF Swap
<1>2. r # NoString /\ Text(r) = Text(str[u]) /\ e # NoString /\ Text(e) = Text(str[v])
  BY <1>1, LiveIsKept, MovedIsKept
<1> HIDE DEF r, e
<1>3. u = v => Text(r) = Text(e)
  BY <1>2
<1>4. Texts' = Abstract!Set(Abstract!Set(Texts, u, Text(e)), v, Text(r))
  <2>1. Both(v, u, r, e)
    BY <1>1, <1>2, <1>3 DEF Both
  <2>2. TextsTwice(v, u, r, e)
    BY <2>1, TextsChangeTwice DEF IInv
  <2> QED  BY <2>2 DEF TextsTwice
<1>5. Texts[u] = Text(str[u]) /\ Texts[v] = Text(str[v])
  BY <1>1, TextsOf
<1>6. asked' \in Abstract!Calls /\ asked'.call = "swap" /\ asked'.v = v /\ asked'.w = u
  BY <1>1 DEF Abstract!Calls
<1>7. Abstract!Next
  BY <1>2, <1>4, <1>5, <1>6 DEF Abstract!Next
<1> QED  BY <1>7 DEF Follows

\* A call does to the text of its string what it was asked to, and nothing to any
\* other (String.hpp:1641-2740): appending, inserting, erasing, replacing,
\* resizing, assigning, moving, swapping, whatever lies behind the buffers.
THEOREM StringsAreTexts == Spec => ImplementsStringValues
<1>1. Init => Abstract!Init
  <2> SUFFICES ASSUME Init PROVE Texts = <<>> /\ asked = [call |-> "none"]
    BY DEF Abstract!Init
  <2>1. {v \in Strings : Live(v)} = {}
    BY DEF Init, Live
  <2> QED  BY <2>1 DEF Texts, Init
<1>2. IInv /\ [Next]_vars => Abstract!Next \/ Texts' = Texts
  <2> SUFFICES ASSUME IInv, [Next]_vars PROVE Follows
    BY DEF Follows
  <2>1. str' = str => Follows
    BY DEF Follows, Texts, Live
  <2>2. CASE UNCHANGED vars
    BY <2>1, <2>2 DEF vars
  <2>3. ASSUME NEW v \in Strings, Does(v) PROVE Follows
    <3>1. ASSUME NEW c, Ends(c) PROVE Follows
      BY <2>1, <3>1 DEF Ends
    <3> QED  BY <2>2, <2>3, <3>1, EditFollows, GarbleFollows DEF Does
  <2>4. ASSUME NEW v \in Strings, CallStep(v) PROVE Follows
    BY <2>3, <2>4, DestroyFollows, MoveFollows, SwapFollows DEF CallStep
  <2> QED  BY <2>2, <2>4, NextStep
<1>3. IInv /\ [Next]_vars => [Abstract!Next]_Texts
  BY <1>2
<1> QED  BY <1>1, <1>3, Invariance, PTL DEF Spec, ImplementsStringValues, Abstract!Spec

-----------------------------------------------------------------------------
(* Searches and comparison *)

\* Where w is in the text of s; the characters that are, or are not, in w.
Occurs(s, w) == {i \in 0..(s.len - 1) :
                   i + Len(w) <= s.len /\ SubSeq(Text(s), i + 1, i + Len(w)) = w}
AmongOf(s, w, isTrue) == {i \in 0..(s.len - 1) :
                            (\E k \in 1..Len(w) : Text(s)[i + 1] = w[k]) = isTrue}
First(S) == IF S = {} THEN npos ELSE Min(S)
Last(S)  == IF S = {} THEN npos ELSE Max(S)

\* A string that can be searched, and what is searched for.
Searched(s) == Sound(s) /\ Held(s) /\ s.len <= MaxLen
Sought(w)   == w \in Seq(Chars) /\ Len(w) > 0 /\ Len(w) < 126

LEMMA SearchTypes ==
  ASSUME NEW s, Searched(s)
  PROVE  /\ s.len \in Nat /\ s.len < 126 /\ s.cap \in Nat /\ s.len <= s.cap
         /\ DOMAIN s.buf = 0..s.cap /\ s.buf[s.len] = NUL
         /\ \A i \in 0..s.len : i \in DOMAIN s.buf
         /\ Text(s) \in Seq(Bytes) /\ Len(Text(s)) = s.len
         /\ \A k \in 1..s.len : Text(s)[k] = s.buf[k - 1]
<1>1. s \in Members /\ s.len \in Nat /\ s.cap \in Nat /\ s.len <= s.cap /\ s.buf[s.len] = NUL
  BY DEF Searched, Sound, Members, Held
<1>2. DOMAIN s.buf = 0..s.cap
  BY <1>1, HeldIsNotNull DEF Searched
<1>3. /\ Text(s) \in Seq(Bytes) /\ Len(Text(s)) = s.len
      /\ \A k \in 1..s.len : Text(s)[k] = s.buf[k - 1]
  BY TextType DEF Searched
<1>4. s.len < 126
  BY <1>1, Bounds DEF Searched
<1>5. \A i \in 0..s.len : i \in DOMAIN s.buf
  BY <1>1, <1>2
<1> QED  BY <1>1, <1>2, <1>3, <1>4, <1>5

\* The comparison meets the terminator before it leaves the text.
LEMMA MatchesIs ==
  ASSUME NEW s, Searched(s), NEW w, Sought(w), NEW i \in Nat, i + Len(w) <= s.len + 1
  PROVE  Matches(s, w, i) <=> i \in Occurs(s, w)
<1> DEFINE m == Len(w)
           x == SubSeq(Text(s), i + 1, i + m)
<1>1. w \in Seq(Chars) /\ m \in Nat /\ m > 0 /\ s.len \in Nat
  BY SearchTypes DEF Sought
<1>2. CASE i + m <= s.len
  <2>1. x \in Seq(Bytes) /\ Len(x) = m /\ \A k \in 1..m : x[k] = Text(s)[i + k]
    BY <1>1, <1>2, SearchTypes
  <2>2. ASSUME NEW k \in 1..m
        PROVE  i + k - 1 \in DOMAIN s.buf /\ s.buf[i + k - 1] = x[k]
    <3>1. i + k \in 1..s.len /\ i + k - 1 \in 0..s.len
      BY <1>1, <1>2
    <3> QED  BY <2>1, <3>1, SearchTypes
  <2> HIDE DEF x
  <2>3. Matches(s, w, i) <=> \A k \in 1..m : x[k] = w[k]
    BY <2>2 DEF Matches
  <2>4. (\A k \in 1..m : x[k] = w[k]) <=> x = w
    <3>1. w \in Seq(Bytes)
      BY <1>1, Bounds
    <3>2. (\A k \in 1..m : x[k] = w[k]) => x = w
      BY <2>1, <3>1, SeqEqual
    <3> QED  BY <3>2
  <2>5. i \in Occurs(s, w) <=> x = w
    <3>1. i \in 0..(s.len - 1)
      BY <1>1, <1>2
    <3> QED  BY <1>2, <3>1 DEF Occurs, x
  <2> QED  BY <2>3, <2>4, <2>5
<1>3. CASE ~ (i + m <= s.len)
  <2>1. i + m - 1 = s.len /\ m \in 1..Len(w)
    BY <1>1, <1>3
  <2>2. w[m] \in Chars /\ w[m] # NUL
    BY <1>1, <2>1, BoundAssumption
  <2>3. s.buf[i + m - 1] # w[m]
    BY <2>1, <2>2, SearchTypes
  <2>4. ~ Matches(s, w, i)
    BY <2>1, <2>3 DEF Matches
  <2> QED  BY <1>3, <2>4 DEF Occurs
<1> QED  BY <1>2, <1>3

LEMMA FindSound ==
  ASSUME NEW s, Searched(s), NEW w, Sought(w), Len(w) <= s.len, NEW pos \in 0..s.len
  PROVE  Find(s, w, pos) = First({i \in Occurs(s, w) : i >= pos})
<1> DEFINE m == Len(w)
           q == s.len - m
           hits == {i \in pos..q : i \in DOMAIN s.buf /\ Matches(s, w, i)}
<1>1. m \in Nat /\ m > 0 /\ s.len \in Nat /\ s.len < 126 /\ pos \in Nat
  BY SearchTypes DEF Sought
<1>2. pos # npos /\ Wrap(s.len - Len(w)) = q
  <2>1. q % 256 = q
    BY <1>1
  <2> QED  BY <1>1, <2>1 DEF npos, Word, Wrap
<1>3. \A i \in pos..q : i \in DOMAIN s.buf
  <2>1. \A i \in pos..q : i \in 0..s.len
    BY <1>1
  <2> QED  BY <2>1, SearchTypes
<1>4. Find(s, w, pos) = IF hits # {} THEN Min(hits) ELSE IF pos..q \subseteq DOMAIN s.buf THEN npos ELSE Beyond
  BY <1>2 DEF Find, Upward
<1>5. hits = {i \in Occurs(s, w) : i >= pos}
  <2>1. ASSUME NEW i \in pos..q PROVE Matches(s, w, i) <=> i \in Occurs(s, w)
    <3>1. i \in Nat /\ i + m <= s.len + 1
      BY <1>1
    <3> QED  BY <3>1, MatchesIs
  <2>2. \A i \in Occurs(s, w) : i >= pos => i \in pos..q
    BY <1>1 DEF Occurs
  <2>3. \A i \in pos..q : i >= pos
    BY <1>1
  <2> QED  BY <1>3, <2>1, <2>2, <2>3
<1> HIDE DEF hits, q
<1> QED  BY <1>3, <1>4, <1>5 DEF First

LEMMA RfindSound ==
  ASSUME NEW s, Searched(s), NEW w, Sought(w), NEW pos \in (0..s.len) \union {npos}
  PROVE  Rfind(s, w, pos) = Last({i \in Occurs(s, w) : i <= pos})
<1> DEFINE m == Len(w)
           p == IF pos = npos \/ pos + Len(w) > s.len + 1 THEN Wrap(s.len - Len(w) + 1) ELSE pos
           q == ToInt(p)
           hits == {i \in 0..q : i \in DOMAIN s.buf /\ Matches(s, w, i)}
<1>1. m \in Nat /\ m > 0 /\ m < 126 /\ s.len \in Nat /\ s.len < 126 /\ pos \in Nat
  BY SearchTypes DEF Sought, npos, Word
<1>2. /\ q \in Int /\ q + m <= s.len + 1
      /\ \A i \in Nat : i + m <= s.len /\ i <= pos => i <= q
      /\ \A i \in Nat : i <= q => i <= pos
  <2>1. CASE pos = npos \/ pos + m > s.len + 1
    <3> DEFINE d == s.len - m + 1
    <3>1. d \in Int /\ d < 127 /\ d > -126
      BY <1>1
    <3>2. p = d % 256
      BY <2>1 DEF Wrap, Word
    <3>3. q = d
      <4> HIDE DEF d, p
      <4>1. CASE d >= 0
        <5>1. p = d /\ d < 128
          BY <3>1, <3>2, <4>1
        <5> QED  BY <3>1, <5>1 DEF ToInt, Word
      <4>2. CASE d < 0
        <5>1. p = d + 256
          BY <3>1, <3>2, <4>2
        <5>2. p \in Int /\ ~ (p < 128) /\ p - 256 = d
          BY <3>1, <4>2, <5>1
        <5>3. Word = 256 /\ Word \div 2 = 128
          BY DEF Word
        <5> QED  BY <5>2, <5>3 DEF ToInt
      <4> QED  BY <3>1, <4>1, <4>2
    <3> HIDE DEF q, p
    <3>4. q = s.len - m + 1
      BY <3>3
    <3>5. pos >= s.len - m + 1
      BY <1>1, <2>1 DEF npos, Word
    <3> QED  BY <1>1, <3>4, <3>5
  <2>2. CASE ~ (pos = npos \/ pos + m > s.len + 1)
    <3>1. pos < 128
      BY <1>1, <2>2
    <3>2. q = pos
      BY <2>2, <3>1 DEF ToInt, Word
    <3> HIDE DEF q
    <3> QED  BY <1>1, <2>2, <3>2
  <2> QED  BY <2>1, <2>2
<1>3. Rfind(s, w, pos) = IF ~ 0..q \subseteq DOMAIN s.buf THEN Beyond
                         ELSE IF hits # {} THEN Max(hits) ELSE npos
  BY DEF Rfind, Downward
<1> HIDE DEF q
<1>4. \A i \in 0..q : i \in DOMAIN s.buf
  <2>1. \A i \in 0..q : i \in 0..s.len
    BY <1>1, <1>2
  <2> QED  BY <2>1, SearchTypes
<1>5. hits = {i \in Occurs(s, w) : i <= pos}
  <2>1. ASSUME NEW i \in 0..q PROVE Matches(s, w, i) <=> i \in Occurs(s, w)
    <3>1. i \in Nat /\ i + m <= s.len + 1
      BY <1>1, <1>2
    <3> QED  BY <3>1, MatchesIs
  <2>2. \A i \in Occurs(s, w) : i \in Nat /\ i + m <= s.len
    BY <1>1 DEF Occurs
  <2>3. ASSUME NEW i \in Occurs(s, w), i <= pos PROVE i \in 0..q
    <3>1. i \in Nat /\ i + m <= s.len
      BY <2>2
    <3>2. i <= q
      BY <1>2, <2>3, <3>1
    <3> QED  BY <1>2, <3>1, <3>2
  <2>4. \A i \in 0..q : i <= pos
    BY <1>2
  <2> QED  BY <1>4, <2>1, <2>3, <2>4
<1> HIDE DEF hits
<1> QED  BY <1>3, <1>4, <1>5 DEF Last

\* A character of the text is in w, or not.
LEMMA AmongIs ==
  ASSUME NEW s, Searched(s), NEW w, NEW isTrue \in BOOLEAN, NEW i \in 0..(s.len - 1)
  PROVE  Among(s, w, i, isTrue) <=> i \in AmongOf(s, w, isTrue)
<1>1. i + 1 \in 1..s.len /\ (i + 1) - 1 = i
  BY SearchTypes
<1>2. Text(s)[i + 1] = s.buf[i]
  BY <1>1, SearchTypes
<1> QED  BY <1>2 DEF Among, AmongOf

LEMMA FindFirstOfSound ==
  ASSUME NEW s, Searched(s), NEW w, NEW isTrue \in BOOLEAN, NEW pos \in 0..s.len
  PROVE  FindFirstOf(s, w, pos, isTrue) = First({i \in AmongOf(s, w, isTrue) : i >= pos})
<1> DEFINE q == s.len - 1
           hits == {i \in pos..q : i \in DOMAIN s.buf /\ Among(s, w, i, isTrue)}
<1>1. s.len \in Nat /\ s.len < 126 /\ pos \in Nat /\ pos # npos
  BY SearchTypes DEF npos, Word
<1>2. \A i \in pos..q : i \in DOMAIN s.buf
  <2>1. \A i \in pos..q : i \in 0..s.len
    BY <1>1
  <2> QED  BY <2>1, SearchTypes
<1>3. FindFirstOf(s, w, pos, isTrue) =
        IF hits # {} THEN Min(hits) ELSE IF pos..q \subseteq DOMAIN s.buf THEN npos ELSE Beyond
  BY <1>1 DEF FindFirstOf, Upward
<1>4. hits = {i \in AmongOf(s, w, isTrue) : i >= pos}
  <2>1. ASSUME NEW i \in pos..q PROVE Among(s, w, i, isTrue) <=> i \in AmongOf(s, w, isTrue)
    <3>1. i \in 0..(s.len - 1)
      BY <1>1
    <3> QED  BY <3>1, AmongIs
  <2>2. \A i \in AmongOf(s, w, isTrue) : i >= pos => i \in pos..q
    BY <1>1 DEF AmongOf
  <2>3. \A i \in pos..q : i >= pos
    BY <1>1
  <2> QED  BY <1>2, <2>1, <2>2, <2>3
<1> HIDE DEF hits, q
<1> QED  BY <1>2, <1>3, <1>4 DEF First

LEMMA FindLastOfSound ==
  ASSUME NEW s, Searched(s), NEW w, NEW isTrue \in BOOLEAN,
         NEW pos \in (0..(s.len - 1)) \union {npos}
  PROVE  FindLastOf(s, w, pos, isTrue) = Last({i \in AmongOf(s, w, isTrue) : i <= pos})
<1> DEFINE p == IF pos = npos THEN Wrap(s.len - 1) ELSE pos
           q == ToInt(p)
           hits == {i \in 0..q : i \in DOMAIN s.buf /\ Among(s, w, i, isTrue)}
<1>1. s.len \in Nat /\ s.len < 126 /\ pos \in Nat
  BY SearchTypes DEF npos, Word
<1>2. /\ q \in Int /\ q <= s.len - 1
      /\ \A i \in 0..(s.len - 1) : i <= pos => i <= q
      /\ \A i \in Nat : i <= q => i <= pos
  <2>1. CASE pos = npos
    <3> DEFINE d == s.len - 1
    <3>1. d \in Int /\ d < 126 /\ d >= -1
      BY <1>1
    <3>2. p = d % 256
      BY <2>1 DEF Wrap, Word
    <3>3. q = d
      <4> HIDE DEF d, p
      <4>1. CASE d >= 0
        <5>1. p = d /\ d < 128
          BY <3>1, <3>2, <4>1
        <5> QED  BY <3>1, <5>1 DEF ToInt, Word
      <4>2. CASE d < 0
        <5>1. p = d + 256
          BY <3>1, <3>2, <4>2
        <5>2. p \in Int /\ ~ (p < 128) /\ p - 256 = d
          BY <3>1, <4>2, <5>1
        <5>3. Word = 256 /\ Word \div 2 = 128
          BY DEF Word
        <5> QED  BY <5>2, <5>3 DEF ToInt
      <4> QED  BY <3>1, <4>1, <4>2
    <3> HIDE DEF q, p
    <3>4. q = s.len - 1 /\ pos = 255
      BY <2>1, <3>3 DEF npos, Word
    <3> QED  BY <1>1, <3>4
  <2>2. CASE pos # npos
    <3>1. pos < 128 /\ pos <= s.len - 1
      BY <1>1, <2>2
    <3>2. q = pos
      BY <2>2, <3>1 DEF ToInt, Word
    <3> HIDE DEF q
    <3> QED  BY <1>1, <3>1, <3>2
  <2> QED  BY <2>1, <2>2
<1>3. FindLastOf(s, w, pos, isTrue) = IF ~ 0..q \subseteq DOMAIN s.buf THEN Beyond
                                      ELSE IF hits # {} THEN Max(hits) ELSE npos
  BY DEF FindLastOf, Downward
<1> HIDE DEF q
<1>4. \A i \in 0..q : i \in DOMAIN s.buf
  <2>1. \A i \in 0..q : i \in 0..s.len
    BY <1>1, <1>2
  <2> QED  BY <2>1, SearchTypes
<1>5. hits = {i \in AmongOf(s, w, isTrue) : i <= pos}
  <2>1. ASSUME NEW i \in 0..q PROVE Among(s, w, i, isTrue) <=> i \in AmongOf(s, w, isTrue)
    <3>1. i \in 0..(s.len - 1)
      BY <1>1, <1>2
    <3> QED  BY <3>1, AmongIs
  <2>2. ASSUME NEW i \in AmongOf(s, w, isTrue), i <= pos PROVE i \in 0..q
    <3>1. i \in 0..(s.len - 1)
      BY DEF AmongOf
    <3>2. i <= q
      BY <1>2, <2>2, <3>1
    <3> QED  BY <1>2, <3>1, <3>2
  <2>3. \A i \in 0..q : i <= pos
    BY <1>2
  <2> QED  BY <1>4, <2>1, <2>2, <2>3
<1> HIDE DEF hits
<1> QED  BY <1>3, <1>4, <1>5 DEF Last

\* Where a longer text would end lies beyond the buffer, and it is nowhere before.
LEMMA FindTooLong ==
  ASSUME NEW s, Searched(s), NEW w, Sought(w), s.len < Len(w), s.cap < Wrap(s.len - Len(w)),
         NEW pos \in 0..s.len
  PROVE  Find(s, w, pos) = Beyond
<1> DEFINE q == Wrap(s.len - Len(w))
           hits == {i \in pos..q : i \in DOMAIN s.buf /\ Matches(s, w, i)}
<1>1. /\ w \in Seq(Chars) /\ Len(w) \in Nat /\ Len(w) > 0
      /\ s.len \in Nat /\ s.len < 126 /\ s.cap \in Nat /\ s.len <= s.cap /\ pos \in Nat
  BY SearchTypes DEF Sought
<1>2. q \in Nat
  BY <1>1 DEF Wrap, Word
<1>3. q \in pos..q /\ q \notin DOMAIN s.buf
  BY <1>1, <1>2, SearchTypes
<1>4. hits = {}
  <2> SUFFICES ASSUME NEW i \in pos..q, i \in DOMAIN s.buf, Matches(s, w, i) PROVE FALSE
    OBVIOUS
  <2> DEFINE k == IF i <= s.len THEN s.len - i + 1 ELSE 1
  <2>1. i \in 0..s.cap /\ i \in Nat
    BY SearchTypes
  <2>2. k \in 1..Len(w) /\ i + k - 1 \in s.len..s.cap
    BY <1>1, <2>1
  <2>3. s.buf[i + k - 1] = NUL
    BY <2>2 DEF Searched, Held
  <2>4. w[k] \in Chars /\ w[k] # NUL
    BY <1>1, <2>2, BoundAssumption
  <2> QED  BY <2>2, <2>3, <2>4 DEF Matches
<1>5. pos # npos
  BY <1>1 DEF npos, Word
<1>6. Find(s, w, pos) = IF hits # {} THEN Min(hits) ELSE IF pos..q \subseteq DOMAIN s.buf THEN npos ELSE Beyond
  BY <1>5 DEF Find, Upward
<1> HIDE DEF hits, q
<1> QED  BY <1>3, <1>4, <1>6

LEMMA SearchIsSound ==
  ASSUME NEW s, Searched(s), NEW w, Sought(w)
  PROVE  SearchSound(s, w)
<1> DEFINE t == Text(s)
           A == {i \in 0..(s.len - 1) : i + Len(w) <= s.len /\ SubSeq(t, i + 1, i + Len(w)) = w}
           In(isTrue) == {i \in 0..(s.len - 1) : (\E k \in 1..Len(w) : t[i + 1] = w[k]) = isTrue}
<1>1. A = Occurs(s, w) /\ \A isTrue \in BOOLEAN : In(isTrue) = AmongOf(s, w, isTrue)
  BY DEF Occurs, AmongOf
<1>2. s.len \in Nat /\ s.len < 126
  BY SearchTypes
<1>3. ASSUME NEW pos \in 0..s.len
      PROVE  /\ Len(w) <= s.len => Find(s, w, pos) = First({i \in Occurs(s, w) : i >= pos})
             /\ s.cap < Wrap(s.len - Len(w)) /\ s.len < Len(w) => Find(s, w, pos) = Beyond
             /\ Rfind(s, w, pos) = Last({i \in Occurs(s, w) : i <= pos})
             /\ \A isTrue \in BOOLEAN :
                  /\ FindFirstOf(s, w, pos, isTrue) = First({i \in AmongOf(s, w, isTrue) : i >= pos})
                  /\ pos < s.len => FindLastOf(s, w, pos, isTrue) = Last({i \in AmongOf(s, w, isTrue) : i <= pos})
  <2>1. pos < s.len => pos \in 0..(s.len - 1)
    BY <1>2
  <2> QED  BY <2>1, FindSound, FindTooLong, RfindSound, FindFirstOfSound, FindLastOfSound
<1>4. Rfind(s, w, npos) = Last(Occurs(s, w))
  <2>1. {i \in Occurs(s, w) : i <= npos} = Occurs(s, w)
    BY <1>2 DEF Occurs, npos, Word
  <2> QED  BY <2>1, RfindSound
<1>5. ASSUME NEW isTrue \in BOOLEAN PROVE FindLastOf(s, w, npos, isTrue) = Last(AmongOf(s, w, isTrue))
  <2>1. ASSUME NEW i \in AmongOf(s, w, isTrue) PROVE i <= npos
    <3>1. i \in 0..(s.len - 1)
      BY DEF AmongOf
    <3> QED  BY <1>2, <3>1 DEF npos, Word
  <2>2. {i \in AmongOf(s, w, isTrue) : i <= npos} = AmongOf(s, w, isTrue)
    BY <2>1, Zenon
  <2>3. npos \in (0..(s.len - 1)) \union {npos}
    BY Zenon
  <2>4. \A pos \in (0..(s.len - 1)) \union {npos} :
          FindLastOf(s, w, pos, isTrue) = Last({i \in AmongOf(s, w, isTrue) : i <= pos})
    BY FindLastOfSound
  <2>5. FindLastOf(s, w, npos, isTrue) = Last({i \in AmongOf(s, w, isTrue) : i <= npos})
    BY <2>3, <2>4, Zenon
  <2> QED  BY <2>2, <2>5
<1>6. SearchSound(s, w) <=>
        /\ \A pos \in 0..s.len :
             /\ Len(w) <= s.len => Find(s, w, pos) = First({i \in A : i >= pos})
             /\ s.cap < Wrap(s.len - Len(w)) /\ s.len < Len(w) => Find(s, w, pos) = Beyond
             /\ Rfind(s, w, pos) = Last({i \in A : i <= pos})
             /\ \A isTrue \in BOOLEAN :
                  /\ FindFirstOf(s, w, pos, isTrue) = First({i \in In(isTrue) : i >= pos})
                  /\ pos < s.len => FindLastOf(s, w, pos, isTrue) = Last({i \in In(isTrue) : i <= pos})
        /\ Rfind(s, w, npos) = Last(A)
        /\ \A isTrue \in BOOLEAN : FindLastOf(s, w, npos, isTrue) = Last(In(isTrue))
  BY DEF SearchSound, First, Last
<1> HIDE DEF A, In
<1> QED  BY <1>1, <1>3, <1>4, <1>5, <1>6

\* What strcmp() sees of a buffer is what it would see of the text.
LEMMA ContentIs ==
  ASSUME NEW s, Searched(s)
  PROVE  Content(s) = CString(Text(s))
<1> DEFINE t == Slice(s.buf, 0, s.cap + 1, NUL)
<1>1. s.len \in Nat /\ s.cap \in Nat /\ s.len <= s.cap /\ s.buf[s.len] = NUL
      /\ Text(s) \in Seq(Bytes) /\ Len(Text(s)) = s.len
      /\ \A k \in 1..s.len : Text(s)[k] = s.buf[k - 1]
  BY SearchTypes
<1>2. t \in Seq(Bytes) /\ Len(t) = s.cap + 1 /\ \A k \in 1..(s.cap + 1) : t[k] = s.buf[k - 1]
  <2> DEFINE n == s.cap + 1
  <2>1. n \in Nat /\ 0 + n = n
    BY <1>1
  <2> HIDE DEF n
  <2>2. Held(s) /\ IsSlice(Slice(s.buf, 0, 0 + n, NUL), s, 0, n)
    <3>1. Sound(s) /\ Held(s) /\ 0 \in Nat /\ NUL \in Bytes
      BY Bounds DEF Searched
    <3> QED  BY <2>1, <3>1, SliceType
  <2>3. t \in Seq(Bytes) /\ Len(t) = n /\ ReadsFrom(t, s, 0, n)
    BY <2>1, <2>2 DEF n, IsSlice
  <2> HIDE DEF t
  <2>4. ASSUME NEW k \in 1..n PROVE t[k] = s.buf[k - 1]
    <3>1. 0 + k - 1 = k - 1 /\ k - 1 <= s.cap
      BY <1>1, <2>1 DEF n
    <3> QED  BY <2>3, <3>1 DEF ReadsFrom
  <2> QED  BY <2>3, <2>4 DEF n
<1> HIDE DEF t
<1>3. /\ Len(Text(s)) <= Len(t)
      /\ \A k \in 1..Len(Text(s)) : t[k] = Text(s)[k]
      /\ t[Len(Text(s)) + 1] = NUL
  <2>1. Len(Text(s)) <= Len(t)
    BY <1>1, <1>2
  <2>2. ASSUME NEW k \in 1..Len(Text(s)) PROVE t[k] = Text(s)[k]
    <3>1. k \in 1..s.len /\ k \in 1..(s.cap + 1)
      BY <1>1
    <3> QED  BY <1>1, <1>2, <3>1
  <2>3. t[Len(Text(s)) + 1] = NUL
    <3> DEFINE k == s.len + 1
    <3>1. k \in 1..(s.cap + 1) /\ k - 1 = s.len /\ Len(Text(s)) + 1 = k
      BY <1>1
    <3> HIDE DEF k
    <3>2. t[k] = s.buf[k - 1]
      BY <1>2, <3>1
    <3> QED  BY <1>1, <3>1, <3>2
  <2> QED  BY <2>1, <2>2, <2>3
<1>4. CString(t) = CString(Text(s))
  BY <1>1, <1>2, <1>3, CStringOfMore
<1> QED  BY <1>4 DEF Content, t

LEMMA ComparisonIsSound ==
  ASSUME NEW s, NEW t, Searched(s), Searched(t),
         CString(Text(s)) = Text(s), CString(Text(t)) = Text(t)
  PROVE  ComparisonSound(s, t)
<1>1. Content(s) = Text(s) /\ Content(t) = Text(t)
  BY ContentIs
<1>2. s.len \in Nat /\ t.len \in Nat /\ Len(Text(s)) = s.len /\ Len(Text(t)) = t.len
  BY SearchTypes
<1>3. CASE s.len < t.len
  BY <1>2, <1>3 DEF ComparisonSound, Order
<1>4. CASE s.len > t.len
  BY <1>2, <1>4 DEF ComparisonSound, Order
<1>5. CASE s.len = t.len
  BY <1>1, <1>2, <1>5 DEF ComparisonSound, Order
<1> QED  BY <1>2, <1>3, <1>4, <1>5

\* Whatever a string has been through, its searches find what is in its text, and
\* nothing behind it, find() of a longer text leaves the buffer if the wrapped
\* position does, and strings of the same text are equal (String.hpp:562-581,
\* 1465-1612).
THEOREM QueriesAreSound == Spec => []QueriesSound
<1>1. IInv => QueriesSound
  <2> SUFFICES ASSUME IInv PROVE QueriesSound
    OBVIOUS
  <2> DEFINE held  == {s \in {str[v] : v \in Strings} : s.buf # Null}
             plain == {s \in held : CString(Text(s)) = Text(s)}
  <2>1. ASSUME NEW s \in held PROVE Searched(s)
    <3>1. PICK v \in Strings : s = str[v] /\ s.buf # Null
      OBVIOUS
    <3>2. Settled(s) /\ s # NoString
      BY <3>1 DEF IInv, NoString, NewString
    <3> QED  BY <3>1, <3>2 DEF Settled, Sound, Bare, Searched
  <2>2. ASSUME NEW w \in Inputs \ {<<>>} PROVE Sought(w)
    <3>1. w \in Seq(Chars) /\ w # <<>>
      BY Bounds
    <3>2. Len(w) \in Nat /\ Len(w) > 0
      BY <3>1
    <3>3. Len(w) + 2 < 128
      BY WidthAssumption DEF Word
    <3> QED  BY <3>1, <3>2, <3>3 DEF Sought
  <2>3. \A s \in held, w \in Inputs \ {<<>>} : SearchSound(s, w)
    BY <2>1, <2>2, SearchIsSound
  <2>4. \A s, t \in plain : ComparisonSound(s, t)
    BY <2>1, ComparisonIsSound
  <2> QED  BY <2>3, <2>4 DEF QueriesSound
<1> QED  BY <1>1, Invariance, PTL

=============================================================================
