------------------------- MODULE StringAccessProofs -------------------------
(***************************************************************************)
(* Theorems about StringAccess: what a caller may go on using while the    *)
(* string it belongs to is changed.                                        *)
(*                                                                         *)
(* Of the private members only those that make room or give it back put a  *)
(* text into another buffer.  Each call on a string that has a buffer is   *)
(* followed through them: it leaves one of the same capacity, or a text    *)
(* that the old one had no room for, or changes nothing but the capacity   *)
(* (Spared).  An iterator that a caller holds points into a string with a  *)
(* buffer as long as it was not deleted (AccessInv), so only a call that   *)
(* changes the capacity, a move or a destructor takes its buffer away.     *)
(*                                                                         *)
(* Where ++ leads from begin() and rbegin() is a function over the places  *)
(* of the text: the only one that its recursion allows.                    *)
(***************************************************************************)
EXTENDS StringAccess, StringProofs

-----------------------------------------------------------------------------
(* Capacity *)

\* t grew out of s: it is in the same buffer, or fills as much.
Grown(t, s) == Sound(t) /\ Held(t) /\ t.len >= s.len /\ (t.cap = s.cap \/ t.len >= s.cap)

LEMMA HeldTypes ==
  ASSUME NEW s, Sound(s)
  PROVE  s \in Members /\ s.len \in Nat /\ s.cap \in Nat /\ (s.buf # Null => Held(s))
BY DEF Sound, Members, Bare

\* _append()
LEMMA PutGrows ==
  ASSUME NEW s, Sound(s), Held(s), NEW w \in Seq(Bytes)
  PROVE  Grown(Put(s, w), s) /\ Put(s, w).len = s.len + Len(w)
<1>1. s.len \in Nat /\ s.cap \in Nat /\ Len(w) \in Nat
  BY HeldTypes
<1>2. /\ Appended(Put(s, w), s, w) /\ Held(Put(s, w))
      /\ w # <<>> => Put(s, w).cap = IncreaseCapacity(s, s.len + Len(w)).cap
  BY PutSound
<1>3. Sound(Put(s, w)) /\ Put(s, w).len = s.len + Len(w)
  BY <1>2 DEF Appended
<1>4. CASE w = <<>>
  <2>1. Put(s, w) = s
    BY <1>4 DEF Put
  <2> QED  BY <1>1, <1>3, <2>1 DEF Grown
<1>5. CASE w # <<>>
  <2>1. Roomier(IncreaseCapacity(s, s.len + Len(w)), s, s.len + Len(w))
    <3>1. s.len + Len(w) \in Nat /\ s.len + Len(w) >= s.len
      BY <1>1
    <3> QED  BY <3>1, IncreaseCapacitySound
  <2>2. Put(s, w).cap = s.cap \/ s.cap <= s.len + Len(w)
    BY <1>2, <1>5, <2>1 DEF Roomier
  <2> QED  BY <1>1, <1>2, <1>3, <2>2 DEF Grown
<1> QED  BY <1>4, <1>5

\* The front of s with two texts behind it.
PutTogether(t, s, n) == Sound(t) /\ Held(t) /\ t.len = n /\ (t.cap = s.cap \/ t.len >= s.cap)

LEMMA PartsGrow ==
  ASSUME NEW s, Sound(s), Held(s), NEW pos \in 0..s.len, NEW w \in Seq(Bytes), NEW x \in Seq(Bytes)
  PROVE  PutTogether(Put(Put(ClearStr(s, pos), w), x), s, pos + Len(w) + Len(x))
<1> DEFINE a == ClearStr(s, pos)
           b == Put(a, w)
           c == Put(b, x)
<1>1. Sound(a) /\ Held(a) /\ a.len = pos /\ a.cap = s.cap
  BY ClearStrSound DEF Cut
<1> HIDE DEF a
<1>2. Grown(b, a) /\ b.len = a.len + Len(w)
  BY <1>1, PutGrows
<1> HIDE DEF b
<1>3. Grown(c, b) /\ c.len = b.len + Len(x)
  BY <1>2, PutGrows DEF Grown
<1> HIDE DEF c
<1>4. a.len \in Nat /\ b.len \in Nat /\ c.len \in Nat /\ s.cap \in Nat /\ b.cap \in Nat
  BY <1>1, <1>2, <1>3, HeldTypes DEF Grown
<1>5. c.cap = s.cap \/ c.len >= s.cap
  BY <1>1, <1>2, <1>3, <1>4 DEF Grown
<1>6. PutTogether(c, s, pos + Len(w) + Len(x))
  BY <1>1, <1>2, <1>3, <1>5 DEF Grown, PutTogether
<1> QED  BY <1>6 DEF a, b, c

\* A text without a NUL in it has none in its end.
LEMMA PlainEnd ==
  ASSUME NEW t \in Seq(Bytes), CString(t) = t, NEW j \in 0..Len(t)
  PROVE  CString(Behind(t, j)) = Behind(t, j) /\ Len(Behind(t, j)) = Len(t) - j
<1>1. NulAt(t) = {}
  <2> SUFFICES ASSUME NulAt(t) # {} PROVE FALSE
    OBVIOUS
  <2> DEFINE m == Min(NulAt(t))
  <2>1. m \in NulAt(t)
    <3>1. NulAt(t) \in SUBSET Nat
      BY DEF NulAt
    <3> QED  BY <3>1, Minimum
  <2>2. t = SubSeq(t, 1, m - 1)
    BY CStringIs
  <2> HIDE DEF m
  <2>3. m \in 1..Len(t)
    BY <2>1 DEF NulAt
  <2>4. Len(SubSeq(t, 1, m - 1)) = m - 1
    BY <2>3
  <2> QED  BY <2>2, <2>3, <2>4
<1>2. /\ Behind(t, j) \in Seq(Bytes) /\ Len(Behind(t, j)) = Len(t) - j
      /\ \A k \in 1..(Len(t) - j) : Behind(t, j)[k] = t[j + k]
  BY DEF Behind
<1>3. NulAt(Behind(t, j)) = {}
  <2> SUFFICES ASSUME NEW k \in 1..(Len(t) - j), Behind(t, j)[k] = NUL PROVE FALSE
    BY <1>2 DEF NulAt
  <2>1. t[j + k] = NUL /\ j + k \in 1..Len(t)
    BY <1>2
  <2> QED  BY <1>1, <2>1 DEF NulAt
<1> QED  BY <1>2, <1>3, CStringIs

-----------------------------------------------------------------------------
(* What a call leaves of a buffer *)

\* A string that had a buffer has one, the same unless it needed more room,
\* which a text with a NUL may lose again, or was told to take or give some.
Spared(t, s) ==
  Held(s) => /\ Held(t)
             /\ \/ t.cap = s.cap \/ t.len >= s.cap \/ CString(Text(s)) # Text(s)
                \/ t.len = s.len /\ (t.cap < s.cap \/ t.cap \in Sizes)

LEMMA GrownIsSpared ==
  ASSUME NEW s, NEW t, Sound(t), Held(s) => Held(t) /\ (t.cap = s.cap \/ t.len >= s.cap)
  PROVE  Spared(t, s)
BY DEF Spared

\* _insert_str()
LEMMA InsertStrSpares ==
  ASSUME NEW s, Sound(s), NEW pos \in 0..s.len, NEW w \in Seq(Bytes), NEW junk \in Bytes
  PROVE  Spared(InsertStr(s, pos, w, junk), s)
<1> SUFFICES ASSUME Held(s) PROVE Spared(InsertStr(s, pos, w, junk), s)
  BY DEF Spared
<1>1. s.len \in Nat /\ s.cap \in Nat /\ Len(w) \in Nat
  BY HeldTypes
<1>2. Text(s) \in Seq(Bytes) /\ Len(Text(s)) = s.len
  BY TextType
<1>3. CASE pos = s.len
  <2>1. InsertStr(s, pos, w, junk) = Put(s, w)
    BY <1>3 DEF InsertStr
  <2> QED  BY <2>1, PutGrows DEF Grown, Spared
<1>4. CASE pos # s.len /\ w = <<>>
  BY <1>4 DEF InsertStr, Spared
<1>5. CASE pos # s.len /\ w # <<>>
  <2> DEFINE n == s.len + Len(w)
             t == IncreaseCapacity(s, n)
             x == CString(Slice(t.buf, pos, pos + t.len, junk))
             r == Put(Put(ClearStr(t, pos), w), x)
  <2>1. InsertStr(s, pos, w, junk) = r
    BY <1>5 DEF InsertStr
  <2>2. Roomier(t, s, n)
    <3>1. n \in Nat /\ n >= s.len
      BY <1>1
    <3> HIDE DEF n
    <3> QED  BY <3>1, IncreaseCapacitySound
  <2> HIDE DEF t
  <2>3. Sound(t) /\ Held(t) /\ Text(t) = Text(s) /\ t.len = s.len /\ t.cap > n
        /\ (t.cap = s.cap \/ s.cap <= n)
    BY <2>2, SameTextText DEF Roomier, SameText
  <2>4. /\ CString(Slice(t.buf, pos, pos + t.len, junk)) = CString(SubSeq(Text(t), pos + 1, t.len))
        /\ SubSeq(Text(t), pos + 1, t.len) \in Seq(Bytes)
    BY <2>3, RestRead
  <2>5. x = CString(Behind(Text(s), pos)) /\ x \in Seq(Bytes)
    BY <1>2, <2>3, <2>4, CStringIs DEF Behind
  <2> HIDE DEF x
  <2>6. PutTogether(r, t, pos + Len(w) + Len(x))
    <3>1. pos \in 0..t.len
      BY <2>3
    <3> QED  BY <2>3, <2>5, <3>1, PartsGrow
  <2>7. CString(Text(s)) = Text(s) => r.len = n
    <3>1. CString(Text(s)) = Text(s) => Len(x) = s.len - pos
      BY <1>2, <2>5, PlainEnd
    <3> HIDE DEF r
    <3> QED  BY <1>1, <2>6, <3>1 DEF PutTogether
  <2> HIDE DEF r
  <2>8. t.cap \in Nat /\ r.len \in Nat /\ n \in Nat
    BY <1>1, <2>3, <2>6, HeldTypes DEF PutTogether
  <2> HIDE DEF n
  <2>9. r.cap = s.cap \/ r.len >= s.cap \/ CString(Text(s)) # Text(s)
    BY <1>1, <2>3, <2>6, <2>7, <2>8 DEF PutTogether
  <2> QED  BY <2>1, <2>6, <2>9 DEF Spared, PutTogether
<1> QED  BY <1>3, <1>4, <1>5

\* _replace()
LEMMA ReplaceStrSpares ==
  ASSUME NEW s, Sound(s), Held(s), NEW pos \in Nat, NEW n \in Nat, pos + n <= s.len,
         NEW w \in Seq(Bytes), NEW junk \in Bytes
  PROVE  Spared(ReplaceStr(s, pos, n, w, junk), s)
<1> DEFINE x == CString(Slice(s.buf, pos + n, pos + n + s.len, junk))
           y == CString(w)
           r == Put(Put(ClearStr(s, pos), y), x)
<1>1. s.len \in Nat
  BY HeldTypes
<1>2. x \in Seq(Bytes)
  <2> DEFINE p == pos + n
  <2>1. p \in 0..s.len
    BY <1>1
  <2> HIDE DEF p
  <2>2. /\ CString(Slice(s.buf, p, p + s.len, junk)) = CString(SubSeq(Text(s), p + 1, s.len))
        /\ SubSeq(Text(s), p + 1, s.len) \in Seq(Bytes)
    BY <2>1, RestRead
  <2> QED  BY <2>2, CStringIs DEF p
<1>3. y \in Seq(Bytes)
  BY CStringIs
<1>4. ReplaceStr(s, pos, n, w, junk) = r
  BY DEF ReplaceStr
<1> HIDE DEF x, y
<1>5. Held(r) /\ (r.cap = s.cap \/ r.len >= s.cap)
  <2>1. pos \in 0..s.len
    BY <1>1
  <2> HIDE DEF r
  <2>2. PutTogether(r, s, pos + Len(y) + Len(x))
    BY <1>2, <1>3, <2>1, PartsGrow DEF r
  <2> QED  BY <2>2 DEF PutTogether
<1> QED  BY <1>4, <1>5 DEF Spared

-----------------------------------------------------------------------------
(* Calls on a string *)

Spares(v) == \/ str' = str
             \/ \E t : Sound(t) /\ Spared(t, str[v]) /\ str' = [str EXCEPT ![v] = t]

LEMMA EndSpares ==
  ASSUME NEW v \in Strings, NEW c, Ends(c)
  PROVE  Spares(v)
BY DEF Ends, Spares

LEMMA BecomingSpares ==
  ASSUME NEW v \in Strings, NEW t, Sound(t), Spared(t, str[v]),
         Garbled(v, t) \/ \E i, j, w : Becomes(v, t, i, j, w)
  PROVE  Spares(v)
BY DEF Garbled, Becomes, Spares

LEMMA PutSpares ==
  ASSUME IInv, NEW v \in Strings, Live(v), NEW w \in Seq(Bytes),
         Garbled(v, Put(str[v], w)) \/ \E i, j, x : Becomes(v, Put(str[v], w), i, j, x)
  PROVE  Spares(v)
<1>1. Sound(str[v])
  BY LiveIsSound
<1>2. Sound(Put(str[v], w))
  BY <1>1, PutSound DEF Appended
<1>3. Spared(Put(str[v], w), str[v])
  BY <1>1, PutGrows DEF Grown, Spared
<1> QED  BY <1>2, <1>3, BecomingSpares

LEMMA AppendTextSpares ==
  ASSUME IInv, NEW v \in Strings, NEW w \in Seq(Bytes), AppendText(v, w)
  PROVE  Spares(v)
BY PutSpares DEF AppendText

LEMMA AppendOwnSpares ==
  ASSUME IInv, NEW v \in Strings, AppendOwn(v)
  PROVE  Spares(v)
<1>1. Text(str[v]) \in Seq(Bytes)
  BY LiveIsSound DEF AppendOwn
<1> QED  BY <1>1, EndSpares, AppendTextSpares DEF AppendOwn, Ends, Stray

LEMMA InsertStrBecomes ==
  ASSUME IInv, NEW v \in Strings, Live(v), NEW pos \in 0..str[v].len, NEW w \in Seq(Bytes),
         NEW junk \in Bytes, LET t == InsertStr(str[v], pos, w, junk) IN
                             Garbled(v, t) \/ \E i, j, x : Becomes(v, t, i, j, x)
  PROVE  Spares(v)
<1> DEFINE t == InsertStr(str[v], pos, w, junk)
<1>1. Sound(str[v])
  BY LiveIsSound
<1>2. Sound(t) /\ Spared(t, str[v])
  BY <1>1, InsertStrSound, InsertStrSpares
<1> HIDE DEF t
<1>3. Garbled(v, t) \/ \E i, j, x : Becomes(v, t, i, j, x)
  BY DEF t
<1> QED  BY <1>2, <1>3, BecomingSpares

LEMMA InsertSpares ==
  ASSUME IInv, NEW v \in Strings, NEW pos \in Nat, NEW w \in Seq(Bytes), Insert(v, pos, w)
  PROVE  Spares(v)
<1>1. Live(v) /\ str[v].len \in Nat
  BY LiveIsSound DEF Insert
<1>2. CASE pos > str[v].len
  BY <1>2, EndSpares DEF Insert, Ends, Halt
<1>3. CASE ~ (pos > str[v].len)
  <2>1. PICK junk \in Bytes : Becomes(v, InsertStr(str[v], pos, w, junk), pos, pos, w)
    BY <1>3 DEF Insert
  <2>2. pos \in 0..str[v].len
    BY <1>1, <1>3
  <2> QED  BY <1>1, <2>1, <2>2, InsertStrBecomes
<1> QED  BY <1>2, <1>3

LEMMA InsertOwnSpares ==
  ASSUME IInv, NEW v \in Strings, NEW pos \in Nat, InsertOwn(v, pos)
  PROVE  Spares(v)
<1> DEFINE s == str[v]
           w == [k \in 1..s.len |-> IF pos = 0 THEN NUL ELSE s.buf[(k - 1) % pos]]
<1>1. Live(v) /\ Sound(s) /\ s.len \in Nat /\ pos < s.len
  BY LiveIsSound DEF InsertOwn
<1>2. Ends("freed") \/ \E junk \in Bytes : Garbled(v, InsertStr(s, pos, w, junk))
  BY DEF InsertOwn, Ends, Stray
<1>3. w \in Seq(Bytes)
  <2> HIDE DEF s
  <2> QED  BY <1>1, OwnTextIsText
<1> HIDE DEF w
<1>4. ASSUME NEW junk \in Bytes, Garbled(v, InsertStr(s, pos, w, junk)) PROVE Spares(v)
  <2>1. pos \in 0..str[v].len
    BY <1>1
  <2> QED  BY <1>1, <1>3, <1>4, <2>1, InsertStrBecomes
<1> QED  BY <1>2, <1>4, EndSpares

LEMMA AppendPartSpares ==
  ASSUME IInv, NEW v \in Strings, NEW u \in Strings, NEW pos \in Nat, NEW len \in Nat,
         AppendPart(v, u, pos, len)
  PROVE  Spares(v)
<1> DEFINE w == PartOf(str[v], str[u], pos, len)
<1>1. w \in Seq(Bytes) /\ Live(v)
  BY LiveIsSound, PartIsText DEF AppendPart
<1>2. \/ \E c : Ends(c)
      \/ Garbled(v, Put(str[v], w))
      \/ AppendText(v, w)
  BY DEF AppendPart, WithPart, PartOf, Ends, Halt, Stray
<1> HIDE DEF w
<1> QED  BY <1>1, <1>2, EndSpares, PutSpares, AppendTextSpares

LEMMA InsertPartSpares ==
  ASSUME IInv, NEW v \in Strings, NEW at \in Nat, NEW u \in Strings, NEW pos \in Nat,
         NEW len \in Nat, InsertPart(v, at, u, pos, len)
  PROVE  Spares(v)
<1> DEFINE w == PartOf(str[v], str[u], pos, len)
<1>1. w \in Seq(Bytes) /\ Live(v) /\ at \in 0..str[v].len
  BY LiveIsSound, PartIsText DEF InsertPart
<1>2. \/ \E c : Ends(c)
      \/ \E junk \in Bytes : Garbled(v, InsertStr(str[v], at, w, junk))
      \/ Insert(v, at, w)
  BY DEF InsertPart, WithPart, PartOf, Ends, Halt, Stray
<1> HIDE DEF w
<1> QED  BY <1>1, <1>2, EndSpares, InsertStrBecomes, InsertSpares

LEMMA EraseSpares ==
  ASSUME IInv, NEW v \in Strings, NEW pos \in Nat, NEW len \in Asked, Erase(v, pos, len)
  PROVE  Spares(v)
<1> DEFINE s == str[v]
           n == Length(s, pos, len)
           t == EraseStr(s, pos, n)
<1>1. Sound(s) /\ s.len \in Nat /\ s.len <= MaxLen
  BY LiveIsSound DEF Erase
<1>2. \/ \E c : Ends(c)
      \/ /\ ~ TooLong(s, s, pos, len) /\ s.buf # Null /\ ~ (pos > s.len)
         /\ \E i, j, w : Becomes(v, t, i, j, w)
  BY DEF Erase, Ends, Halt, Stray
<1>3. ASSUME ~ TooLong(s, s, pos, len), s.buf # Null, ~ (pos > s.len) PROVE Sound(t) /\ Spared(t, s)
  <2>1. Held(s)
    BY <1>1, <1>3, HeldTypes
  <2>2. n \in Nat /\ pos + n <= s.len
    <3> HIDE DEF s
    <3>1. pos <= s.len
      BY <1>1, <1>3
    <3> QED  BY <1>1, <1>3, <3>1, PartFits
  <2> HIDE DEF s, n
  <2> QED  BY <1>1, <2>1, <2>2, EraseStrSound DEF Spared
<1> HIDE DEF t
<1> QED  BY <1>2, <1>3, EndSpares, BecomingSpares

LEMMA PopBackSpares ==
  ASSUME IInv, NEW v \in Strings, PopBack(v)
  PROVE  Spares(v)
<1>1. str[v].len \in Nat
  BY LiveIsSound DEF PopBack
<1>2. str[v].len # 0 => str[v].len - 1 \in Nat /\ 1 \in Asked
  BY <1>1 DEF Asked
<1> QED  BY <1>2, EndSpares, EraseSpares DEF PopBack, Ends, Halt

\* replace() with a text, if it does not halt.
LEMMA ReplaceStrBecomes ==
  ASSUME IInv, NEW v \in Strings, Live(v), NEW pos \in Nat, NEW len \in Asked, NEW w \in Seq(Bytes),
         ~ TooLong(str[v], str[v], pos, len), str[v].buf # Null, ~ (pos > str[v].len),
         NEW junk \in Bytes, LET t == ReplaceStr(str[v], pos, Length(str[v], pos, len), w, junk) IN
                             Garbled(v, t) \/ \E i, j, x : Becomes(v, t, i, j, x)
  PROVE  Spares(v)
<1> DEFINE s == str[v]
           n == Length(s, pos, len)
           t == ReplaceStr(s, pos, n, w, junk)
<1>1. Sound(s) /\ s.len \in Nat /\ s.len <= MaxLen
  BY LiveIsSound
<1>2. Held(s)
  BY <1>1, HeldTypes
<1>3. n \in Nat /\ pos + n <= s.len
  <2> HIDE DEF s
  <2>1. pos <= s.len /\ ~ TooLong(s, s, pos, len)
    BY <1>1 DEF s
  <2> QED  BY <1>1, <2>1, PartFits
<1>4. Garbled(v, t) \/ \E i, j, x : Becomes(v, t, i, j, x)
  OBVIOUS
<1> HIDE DEF s, n
<1>5. Sound(t) /\ Spared(t, s)
  BY <1>1, <1>2, <1>3, ReplaceStrSound, ReplaceStrSpares
<1> HIDE DEF t
<1> QED  BY <1>4, <1>5, BecomingSpares DEF s

LEMMA ReplaceSpares ==
  ASSUME IInv, NEW v \in Strings, NEW pos \in Nat, NEW len \in Asked, NEW w \in Seq(Bytes),
         Replace(v, pos, len, w)
  PROVE  Spares(v)
<1> DEFINE s == str[v]
           n == Length(s, pos, len)
<1>1. \/ \E c : Ends(c)
      \/ /\ ~ TooLong(s, s, pos, len) /\ s.buf # Null /\ ~ (pos > s.len)
         /\ \E junk \in Bytes : Becomes(v, ReplaceStr(s, pos, n, w, junk), pos, pos + n, w)
  BY DEF Replace, Replacing, Ends, Halt, Stray
<1>2. Live(v)
  BY DEF Replace, Replacing
<1> QED  BY <1>1, <1>2, EndSpares, ReplaceStrBecomes

LEMMA ReplaceByOwnSpares ==
  ASSUME IInv, NEW v \in Strings, NEW pos \in Nat, NEW len \in Asked, ReplaceByOwn(v, pos, len)
  PROVE  Spares(v)
<1> DEFINE s == str[v]
           n == Length(s, pos, len)
           w == SubSeq(Text(s), 1, pos)
<1>1. \/ \E c : Ends(c)
      \/ /\ ~ TooLong(s, s, pos, len) /\ s.buf # Null /\ ~ (pos > s.len)
         /\ \E junk \in Bytes : Garbled(v, ReplaceStr(s, pos, n, w, junk))
  BY DEF ReplaceByOwn, Replacing, Ends, Halt, Stray
<1>2. Live(v) /\ s.len \in Nat /\ Text(s) \in Seq(Bytes) /\ Len(Text(s)) = s.len
  BY LiveIsSound DEF ReplaceByOwn, Replacing
<1>3. ~ (pos > s.len) => w \in Seq(Bytes)
  <2> HIDE DEF s
  <2> QED  BY <1>2
<1> HIDE DEF w
<1> QED  BY <1>1, <1>2, <1>3, EndSpares, ReplaceStrBecomes

LEMMA ReplaceBySpares ==
  ASSUME IInv, NEW v \in Strings, NEW pos \in Nat, NEW len \in Asked, NEW u \in Strings,
         ReplaceBy(v, pos, len, u)
  PROVE  Spares(v)
<1>1. Text(str[u]) \in Seq(Bytes)
  BY LiveIsSound DEF ReplaceBy
<1> QED  BY <1>1, EndSpares, ReplaceSpares DEF ReplaceBy, Ends, Halt

LEMMA ReplaceByPartSpares ==
  ASSUME IInv, NEW v \in Strings, NEW u \in Strings, NEW pos \in Nat, NEW len \in Nat,
         ReplaceByPart(v, u, pos, len)
  PROVE  Spares(v)
<1> DEFINE w == PartOf(str[v], str[u], pos, len)
           s == str[v]
           n == Length(s, 0, npos)
<1>1. w \in Seq(Bytes) /\ Live(v)
  BY LiveIsSound, PartIsText DEF ReplaceByPart
<1>2. \/ \E c : Ends(c)
      \/ /\ ~ TooLong(s, s, 0, npos) /\ s.buf # Null /\ ~ (0 > s.len)
         /\ \E junk \in Bytes : Garbled(v, ReplaceStr(s, 0, n, w, junk))
      \/ Replace(v, 0, npos, w)
  BY DEF ReplaceByPart, WithPart, PartOf, Replacing, Ends, Halt, Stray
<1>3. 0 \in Nat /\ npos \in Asked
  BY DEF Asked
<1> HIDE DEF w
<1> QED  BY <1>1, <1>2, <1>3, EndSpares, ReplaceStrBecomes, ReplaceSpares

LEMMA ClearSpares ==
  ASSUME IInv, NEW v \in Strings, Clear(v)
  PROVE  Spares(v)
<1> DEFINE t == ClearStr(str[v], 0)
<1>1. Sound(str[v]) /\ str[v].len \in Nat
  BY LiveIsSound DEF Clear
<1>2. Ends("null") \/ (str[v].buf # Null /\ \E i, j, w : Becomes(v, t, i, j, w))
  BY DEF Clear, Ends, Stray
<1>3. str[v].buf # Null => Cut(t, str[v], 0)
  <2>1. 0 \in 0..str[v].len
    BY <1>1
  <2> QED  BY <1>1, <2>1, HeldTypes, ClearStrSound
<1> HIDE DEF t
<1>4. Cut(t, str[v], 0) => Sound(t) /\ Spared(t, str[v])
  BY DEF Cut, Spared
<1> QED  BY <1>2, <1>3, <1>4, EndSpares, BecomingSpares

LEMMA AssignSpares ==
  ASSUME IInv, NEW v \in Strings, NEW u \in Strings, Assign(v, u)
  PROVE  Spares(v)
<1> DEFINE w == Text(str[u])
           e == SetLength(str[v], 0)
           t == Put(e, w)
<1>1. Sound(str[v]) /\ str[v].cap \in Nat /\ w \in Seq(Bytes)
  BY LiveIsSound, HeldTypes DEF Assign
<1>2. \E i, j, x : Becomes(v, t, i, j, x)
  BY DEF Assign
<1> HIDE DEF w
<1>3. Resized(e, str[v], 0)
  BY <1>1, SetLengthSound
<1>4. Sound(e) /\ (Held(str[v]) => Held(e) /\ e.cap = str[v].cap)
  BY <1>1, <1>3 DEF Resized
<1> HIDE DEF e
<1>5. Sound(t)
  BY <1>1, <1>4, PutSound DEF Appended
<1>6. Spared(t, str[v])
  BY <1>1, <1>4, PutGrows DEF Grown, Spared
<1> HIDE DEF t
<1> QED  BY <1>2, <1>5, <1>6, BecomingSpares

LEMMA ResizeSpares ==
  ASSUME IInv, NEW v \in Strings, NEW n \in Nat, Resize(v, n)
  PROVE  Spares(v)
<1> DEFINE t == SetLength(str[v], n)
<1>1. Sound(str[v]) /\ str[v].cap \in Nat
  BY LiveIsSound, HeldTypes DEF Resize
<1>2. \E i, j, w : Becomes(v, t, i, j, w)
  BY DEF Resize, Resizing
<1>3. Resized(t, str[v], n)
  BY <1>1, SetLengthSound
<1> HIDE DEF t
<1>4. Spared(t, str[v])
  BY <1>1, <1>3 DEF Resized, Spared
<1> QED  BY <1>2, <1>3, <1>4, BecomingSpares DEF Resized

LEMMA ResizeToSpares ==
  ASSUME IInv, NEW v \in Strings, NEW n \in Nat, NEW c \in Chars, ResizeTo(v, n, c)
  PROVE  Spares(v)
<1> DEFINE s == str[v]
           r == SetLength(s, n)
           t == IF n > s.len THEN FillStr(r, s.len, c) ELSE ClearStr(s, n)
<1>1. Sound(s) /\ s.len \in Nat /\ s.cap \in Nat
  BY LiveIsSound, HeldTypes DEF ResizeTo
<1>2. n # s.len /\ \E i, j, w : Becomes(v, t, i, j, w)
  BY DEF ResizeTo, Resizing
<1>3. c \in Bytes
  BY Bounds
<1> HIDE DEF s
<1>4. Sound(t) /\ Spared(t, s)
  <2>1. CASE n > s.len
    <3>1. Sound(r) /\ Held(r) /\ r.len = n /\ (Held(s) => r.cap = s.cap \/ s.cap < n)
      <4>1. Resized(r, s, n)
        BY <1>1, SetLengthSound
      <4> QED  BY <1>2, <4>1 DEF Resized
    <3> HIDE DEF r
    <3>2. Filled(t, r, s.len, c)
      <4>1. Filled(FillStr(r, s.len, c), r, s.len, c)
        BY <1>1, <1>3, <3>1, FillStrSound
      <4> QED  BY <2>1, <4>1
    <3> HIDE DEF t
    <3>3. Sound(t) /\ Held(t) /\ t.len = n /\ t.cap = r.cap
      BY <3>1, <3>2 DEF Filled
    <3> QED  BY <1>1, <3>1, <3>3 DEF Spared
  <2>2. CASE ~ (n > s.len)
    <3>1. Held(s) /\ n \in 0..s.len
      BY <1>1, <1>2, <2>2 DEF Sound, Bare
    <3>2. Cut(t, s, n)
      BY <1>1, <2>2, <3>1, ClearStrSound
    <3> QED  BY <3>2 DEF Cut, Spared
  <2> QED  BY <2>1, <2>2
<1> HIDE DEF t
<1> QED  BY <1>2, <1>4, BecomingSpares DEF s

LEMMA DecreaseSpares ==
  ASSUME IInv, NEW v \in Strings, Live(v), NEW c \in Nat, Becomes(v, DecreaseCapacity(str[v], c), 0, 0, <<>>)
  PROVE  Spares(v)
<1> DEFINE t == DecreaseCapacity(str[v], c)
<1>1. Sound(str[v]) /\ str[v].cap \in Nat
  BY LiveIsSound, HeldTypes
<1>2. /\ Sound(t) /\ SameText(t, str[v]) /\ (Held(str[v]) => Held(t))
      /\ t.cap = str[v].cap \/ (t.cap = c /\ c <= str[v].cap)
  BY <1>1, DecreaseCapacitySound
<1> HIDE DEF t
<1>3. Spared(t, str[v])
  BY <1>1, <1>2 DEF Spared, SameText
<1>4. Becomes(v, t, 0, 0, <<>>)
  BY DEF t
<1> QED  BY <1>2, <1>3, <1>4, BecomingSpares

LEMMA ReserveSpares ==
  ASSUME IInv, NEW v \in Strings, NEW n \in Sizes, Reserve(v, n)
  PROVE  Spares(v)
<1> DEFINE s == str[v]
           t == SetCapacity(s, n)
<1>1. Sound(s) /\ s.cap \in Nat /\ Live(v) /\ n \in Nat
  BY LiveIsSound, HeldTypes, Bounds DEF Reserve
<1>2. \/ Becomes(v, t, 0, 0, <<>>)
      \/ Becomes(v, DecreaseCapacity(s, s.cap \div 2), 0, 0, <<>>)
      \/ str' = str
  BY DEF Reserve, vars
<1>3. s.cap \div 2 \in Nat
  BY <1>1
<1>4. Sound(t) /\ Spared(t, s)
  <2>1. /\ Sound(t) /\ SameText(t, s) /\ t.cap \in {s.cap, n} /\ (Held(s) => Held(t))
    BY <1>1, SetCapacitySound
  <2> HIDE DEF t
  <2> QED  BY <2>1 DEF Spared, SameText
<1> HIDE DEF t
<1> QED  BY <1>1, <1>2, <1>3, <1>4, BecomingSpares, DecreaseSpares DEF Spares

LEMMA ShrinkToFitSpares ==
  ASSUME IInv, NEW v \in Strings, ShrinkToFit(v)
  PROVE  Spares(v)
BY LiveIsSound, DecreaseSpares DEF ShrinkToFit

-----------------------------------------------------------------------------

\* A call that makes no other string of v leaves its buffer as it says.
LEMMA ModificationSpares ==
  ASSUME IInv, NEW v \in Strings, Modification(v)
  PROVE  Spares(v) \/ Destroy(v)
<1>1. CASE AppendOwn(v) \/ PopBack(v) \/ Clear(v) \/ ShrinkToFit(v) \/ Destroy(v)
  BY <1>1, AppendOwnSpares, PopBackSpares, ClearSpares, ShrinkToFitSpares
<1>2. CASE \E w \in Inputs : AppendText(v, w)
  BY <1>2, InputsAreTexts, AppendTextSpares
<1>3. CASE \E n \in Sizes : Resize(v, n) \/ Reserve(v, n) \/ \E c \in Chars : ResizeTo(v, n, c)
  BY <1>3, Bounds, ResizeSpares, ReserveSpares, ResizeToSpares
<1>4. CASE \E pos \in Places(v) : InsertOwn(v, pos)
  BY <1>4, PlacesAreNumbers, InsertOwnSpares
<1>5. CASE \E pos \in Places(v), w \in Inputs : Insert(v, pos, w)
  BY <1>5, PlacesAreNumbers, InputsAreTexts, InsertSpares
<1>6. CASE \E pos \in Places(v), len \in Lengths : Erase(v, pos, len) \/ ReplaceByOwn(v, pos, len)
  BY <1>6, PlacesAreNumbers, EraseSpares, ReplaceByOwnSpares
<1>7. CASE \E pos \in Places(v), len \in Lengths, w \in Inputs : Replace(v, pos, len, w)
  BY <1>7, PlacesAreNumbers, InputsAreTexts, ReplaceSpares
<1> QED  BY <1>1, <1>2, <1>3, <1>4, <1>5, <1>6, <1>7 DEF Modification

LEMMA CombinationSpares ==
  ASSUME IInv, NEW v \in Strings, NEW u \in Strings, Combination(v, u)
  PROVE  Spares(v)
<1>1. CASE Assign(v, u)
  BY <1>1, AssignSpares
<1>2. CASE Compare(v, u)
  BY <1>2 DEF Compare, Stray, vars, Spares
<1>3. CASE \E pos \in Places(v), len \in Lengths : ReplaceBy(v, pos, len, u)
  BY <1>3, PlacesAreNumbers, ReplaceBySpares
<1>4. CASE \E pos \in Places(u), len \in Lengths : AppendPart(v, u, pos, len)
  BY <1>4, PlacesAreNumbers, AppendPartSpares
<1>5. CASE \E pos \in Places(u), len \in Lengths : InsertPart(v, 0, u, pos, len)
  BY <1>5, PlacesAreNumbers, InsertPartSpares
<1>6. CASE \E pos \in Places(u), len \in Lengths : ReplaceByPart(v, u, pos, len)
  BY <1>6, PlacesAreNumbers, ReplaceByPartSpares
<1> QED  BY <1>1, <1>2, <1>3, <1>4, <1>5, <1>6 DEF Combination

\* A constructor is called on a string that has no buffer yet.
LEMMA ConstructionSpares ==
  ASSUME IInv, NEW v \in Strings, Construction(v)
  PROVE  \/ str' = str
         \/ ~ Live(v) /\ \E t : Sound(t) /\ str' = [str EXCEPT ![v] = t]
<1>1. ~ Live(v) \/ str' = str
  BY DEF Construction, Default, FromText, FromBuffer, Copy, Plus, PlusChar, CopyPart, Substr, Construct
<1>2. Does(v)
  BY ConstructionStep
<1> QED  BY <1>1, <1>2 DEF Does, Edits, Garbles, Becomes, Garbled, Ends, vars

-----------------------------------------------------------------------------
(* What a caller holds *)

Iterators == [kind  : {"forward", "reverse"},
              first : Strings \union {"null", "deleted"},
              size  : Strings \union {"null"},
              pos   : Nat]
Reads == [left : Seq(Bytes), into : Strings \union {"none"}, ends : Delimiters \union {{}}]

\* An iterator whose buffer was not deleted points into a string that has one.
Points == \/ it = NoIterator
          \/ /\ it \in Iterators
             /\ it.first \in Strings => Live(it.first) /\ str[it.first].buf # Null

\* A stream is read into a string that exists.
FillsOne == stream \in Reads /\ (stream.into # "none" => Live(stream.into))

AccessInv == IInv /\ Points /\ FillsOne

\* The body of IteratorsKept.
Outlives ==
  \A v \in Strings :
    (it # NoIterator /\ it.first = v /\ it'.first = "deleted") =>
      \/ ~ Live(v)'
      \/ \E u \in Strings \ {v} : str'[v] = Moved(str[v], str[u])
      \/ str'[v].len >= str[v].cap \/ CString(Text(str[v])) # Text(str[v])
      \/ str'[v].len = str[v].len /\ (str'[v].cap < str[v].cap \/ str'[v].cap \in Sizes)

LEMMA IteratorFields ==
  /\ NoIterator \notin Iterators
  /\ \A i \in Iterators : /\ i.first \in Strings \union {"null", "deleted"} /\ i.pos \in Nat
                          /\ i.size \in Strings \union {"null"}
  /\ \A i \in Iterators, p \in Nat :
       [i EXCEPT !.pos = p] \in Iterators /\ [i EXCEPT !.pos = p].first = i.first
  /\ \A i \in Iterators, f \in Strings \union {"null", "deleted"} :
       [i EXCEPT !.first = f] \in Iterators /\ [i EXCEPT !.first = f].first = f
BY DEF Iterators, NoIterator

LEMMA LiveTypes ==
  ASSUME IInv, NEW v \in Strings, Live(v)
  PROVE  /\ Sound(str[v]) /\ str[v] \in Members /\ str[v].cap \in Nat /\ str[v].len \in Nat
         /\ (str[v].buf # Null <=> Held(str[v]))
<1>1. Sound(str[v])
  BY LiveIsSound
<1> QED  BY <1>1, HeldTypes, HeldIsNotNull

\* A sound string exists.
LEMMA SoundIsLive ==
  ASSUME NEW s, Sound(s)
  PROVE  s # NoString /\ (Held(s) => s.buf # Null)
<1>1. s.by \in Nat /\ s.by > 0 /\ s \in Members
  BY Bounds DEF Sound, Members
<1>2. NoString.by = 0
  BY DEF NoString, NewString
<1> QED  BY <1>1, <1>2, HeldIsNotNull

-----------------------------------------------------------------------------
(* Calls that the iterator watches *)

\* A call on v, as far as an iterator can tell.
Touches(v) ==
  \/ str' = str
  \/ \E t : /\ str' = [str EXCEPT ![v] = t]
            /\ t = NoString \/ ~ Live(v) \/ (Sound(t) /\ Spared(t, str[v]))

LEMMA WatchedKeeps ==
  ASSUME IInv, Points, NEW v \in Strings, Touches(v), Watched
  PROVE  Points' /\ Outlives
<1>1. str \in [Strings -> Members]
  BY DEF IInv
<1>2. CASE it = NoIterator
  <2>1. it' = it
    BY <1>2 DEF Watched
  <2> QED  BY <1>2, <2>1 DEF Points, Outlives
<1>3. CASE it # NoIterator /\ it.first \notin Strings
  <2>1. it' = it
    BY <1>3 DEF Watched
  <2> QED  BY <1>3, <2>1 DEF Points, Outlives
<1>4. CASE it # NoIterator /\ it.first \in Strings
  <2> DEFINE f == it.first
  <2>1. it \in Iterators /\ Live(f) /\ str[f].buf # Null /\ f \in Strings /\ f # "deleted"
    BY <1>4, AccessAssumption DEF Points
  <2>2. \/ str'[f] = str[f] \/ str'[f] = NoString
        \/ Sound(str'[f]) /\ Spared(str'[f], str[f])
    BY <1>1, <2>1 DEF Touches
  <2>3. Sound(str[f]) /\ Held(str[f])
    BY <2>1, LiveTypes
  <2>4. CASE KeepsBuffer(f)
    <3>1. it' = it
      BY <1>4, <2>4 DEF Watched
    <3>2. str'[f] # NoString
      BY <2>4 DEF KeepsBuffer
    <3>3. str'[f].buf # Null
      <4>1. CASE Sound(str'[f]) /\ Spared(str'[f], str[f])
        <5>1. Held(str'[f])
          BY <2>3, <4>1 DEF Spared
        <5> QED  BY <4>1, <5>1, SoundIsLive
      <4> QED  BY <2>1, <2>2, <3>2, <4>1
    <3> QED  BY <2>1, <3>1, <3>2, <3>3 DEF Points, Outlives, Live
  <2>5. CASE ~ KeepsBuffer(f)
    <3>1. it' = [it EXCEPT !.first = "deleted"]
      BY <1>4, <2>5 DEF Watched
    <3>2. it' \in Iterators /\ it'.first = "deleted"
      BY <2>1, <3>1, IteratorFields
    <3>3. Points'
      BY <3>2, AccessAssumption DEF Points
    <3>4. str'[f] = NoString \/ (Spared(str'[f], str[f]) /\ str'[f].cap # str[f].cap)
      <4>1. str'[f] = NoString \/ str'[f].cap # str[f].cap
        BY <2>1, <2>5 DEF KeepsBuffer
      <4>2. str'[f] # str[f] \/ str'[f] = NoString
        BY <4>1
      <4> QED  BY <2>2, <4>1, <4>2
    <3>5. Outlives
      BY <2>3, <3>4 DEF Outlives, Spared, Live
    <3> QED  BY <3>3, <3>5
  <2> QED  BY <2>4, <2>5
<1> QED  BY <1>2, <1>3, <1>4

\* The other two, in which buffers change hands.
LEMMA HandOverKeeps ==
  ASSUME IInv, Points, NEW v \in Strings, NEW u \in Strings, HandOver(v, u)
  PROVE  Points' /\ Outlives
<1> DEFINE to == IF Live(v) THEN str[v] ELSE NewString
           r == Moved(to, str[u])
           e == Moved(str[u], NewString)
<1>1. v # u /\ str' = [str EXCEPT ![v] = r, ![u] = e] /\ Live(u)
  BY DEF HandOver, Move
<1>2. Sound(to) /\ Sound(str[u]) /\ str[u].len <= MaxLen
  BY <1>1, LiveIsKept, NewStringIsSound
<1>3. str \in [Strings -> Members]
  BY DEF IInv
<1> HIDE DEF to
<1>4. r # NoString /\ r.buf = str[u].buf
  BY <1>2, MovedIsKept
<1>5. str'[v] = r /\ \A x \in Strings \ {u, v} : str'[x] = str[x]
  BY <1>1, <1>3
<1>6. CASE it = NoIterator
  <2>1. it' = it
    BY <1>6 DEF HandOver
  <2> QED  BY <1>6, <2>1 DEF Points, Outlives
<1>7. CASE it # NoIterator
  <2> DEFINE f == it.first
             g == IF f = u THEN v ELSE IF f = v THEN "deleted" ELSE f
  <2>1. it \in Iterators /\ f \in Strings \union {"null", "deleted"}
        /\ (f \in Strings => Live(f) /\ str[f].buf # Null)
    BY <1>7, IteratorFields DEF Points
  <2>2. it' = [it EXCEPT !.first = g]
    BY <1>1, <1>7 DEF HandOver
  <2>3. g \in Strings \union {"null", "deleted"}
    BY <2>1
  <2> HIDE DEF g
  <2>4. it' \in Iterators /\ it'.first = g
    BY <2>1, <2>2, <2>3, IteratorFields
  <2>5. g \in Strings => str'[g] # NoString /\ str'[g].buf # Null
    <3> HIDE DEF r, e
    <3>1. CASE f = u
      BY <1>4, <1>5, <2>1, <3>1 DEF g
    <3>2. CASE f = v /\ f # u
      BY <3>2, AccessAssumption DEF g
    <3>3. CASE f # v /\ f # u
      BY <1>5, <2>1, <3>3 DEF g, Live
    <3> QED  BY <3>1, <3>2, <3>3
  <2>6. Points'
    BY <2>4, <2>5 DEF Points, Live
  <2>7. Outlives
    <3> SUFFICES ASSUME f \in Strings, it'.first = "deleted"
                 PROVE  \E x \in Strings \ {f} : str'[f] = Moved(str[f], str[x])
      BY DEF Outlives
    <3>1. f = v /\ f # u
      BY <2>4, AccessAssumption DEF g
    <3>2. to = str[v]
      BY <2>1, <3>1 DEF to
    <3> QED  BY <1>5, <3>1, <3>2
  <2> QED  BY <2>6, <2>7
<1> QED  BY <1>6, <1>7

LEMMA ExchangeKeeps ==
  ASSUME IInv, Points, NEW v \in Strings, NEW u \in Strings, Exchange(v, u)
  PROVE  Points' /\ Outlives
<1> DEFINE r == Moved(str[v], str[u])
           e == Moved(str[u], str[v])
<1>1. str' = [str EXCEPT ![v] = r, ![u] = e] /\ Live(v) /\ Live(u)
  BY DEF Exchange, Swap
<1>2. Sound(str[v]) /\ str[v].len <= MaxLen /\ Sound(str[u]) /\ str[u].len <= MaxLen
  BY <1>1, LiveIsKept
<1>3. str \in [Strings -> Members]
  BY DEF IInv
<1>4. r # NoString /\ r.buf = str[u].buf /\ e # NoString /\ e.buf = str[v].buf
  BY <1>2, MovedIsKept
<1> HIDE DEF r, e
<1>5. str'[u] = e /\ (u # v => str'[v] = r) /\ \A x \in Strings \ {u, v} : str'[x] = str[x]
  BY <1>1, <1>3
<1>6. CASE it = NoIterator
  <2>1. it' = it
    BY <1>6 DEF Exchange
  <2> QED  BY <1>6, <2>1 DEF Points, Outlives
<1>7. CASE it # NoIterator
  <2> DEFINE f == it.first
             g == IF f = u THEN v ELSE IF f = v THEN u ELSE f
  <2>1. it \in Iterators /\ f \in Strings \union {"null", "deleted"}
        /\ (f \in Strings => Live(f) /\ str[f].buf # Null)
    BY <1>7, IteratorFields DEF Points
  <2>2. it' = [it EXCEPT !.first = g]
    BY <1>1, <1>7 DEF Exchange
  <2>3. g \in Strings \union {"null", "deleted"} /\ (g \in Strings <=> f \in Strings)
    BY <2>1
  <2>4. g \in Strings => str'[g] # NoString /\ str'[g].buf # Null
    <3>1. CASE f = u
      BY <1>4, <1>5, <2>1, <3>1
    <3>2. CASE f = v /\ f # u
      BY <1>4, <1>5, <2>1, <3>2
    <3>3. CASE f # v /\ f # u
      BY <1>5, <2>1, <3>3 DEF Live
    <3> QED  BY <3>1, <3>2, <3>3
  <2> HIDE DEF g
  <2>5. it' \in Iterators /\ it'.first = g
    BY <2>1, <2>2, <2>3, IteratorFields
  <2>6. Points'
    BY <2>4, <2>5 DEF Points, Live
  <2>7. Outlives
    BY <2>3, <2>5, AccessAssumption DEF Outlives
  <2> QED  BY <2>6, <2>7
<1> QED  BY <1>6, <1>7

-----------------------------------------------------------------------------
(* Calls that move the iterator, or only read *)

Relocates ==
  /\ str' = str /\ stream' = stream
  /\ \/ it' = it
     \/ it # NoIterator /\ \E p \in Nat : it' = [it EXCEPT !.pos = p]
     \/ it' = NullIterator("reverse")
     \/ \E kind \in {"forward", "reverse"}, v \in Strings, p \in Nat :
          Live(v) /\ it' = Iterator(kind, v, p)

LEMMA RelocatesKeeps ==
  ASSUME Points, Relocates
  PROVE  Points' /\ Outlives
<1>1. str' = str
  BY DEF Relocates
<1>2. CASE it' = it
  BY <1>1, <1>2, AccessAssumption DEF Points, Outlives, Live
<1>3. ASSUME it # NoIterator, NEW p \in Nat, it' = [it EXCEPT !.pos = p] PROVE Points' /\ Outlives
  <2>1. it \in Iterators /\ (it.first \in Strings => Live(it.first) /\ str[it.first].buf # Null)
    BY <1>3 DEF Points
  <2>2. it' \in Iterators /\ it'.first = it.first
    BY <1>3, <2>1, IteratorFields
  <2> QED  BY <1>1, <2>1, <2>2, AccessAssumption DEF Points, Outlives, Live
<1>4. CASE it' = NullIterator("reverse")
  <2>1. it' \in Iterators /\ it'.first = "null"
    BY <1>4 DEF NullIterator, Iterators
  <2> QED  BY <2>1, AccessAssumption DEF Points, Outlives
<1>5. ASSUME NEW kind \in {"forward", "reverse"}, NEW v \in Strings, NEW p \in Nat,
             Live(v), it' = Iterator(kind, v, p)
      PROVE  Points' /\ Outlives
  <2>1. it' \in Iterators /\ it'.first = Buffer(v)
    BY <1>5 DEF Iterator, Iterators, Buffer
  <2>2. Buffer(v) = "null" \/ (Buffer(v) = v /\ str[v].buf # Null)
    BY DEF Buffer
  <2> QED  BY <1>1, <1>5, <2>1, <2>2, AccessAssumption DEF Points, Outlives, Live
<1> QED  BY <1>2, <1>3, <1>4, <1>5 DEF Relocates

LEMMA FailRelocates ==
  ASSUME NEW c, Fail(c)
  PROVE  Relocates
BY DEF Fail, Halt, Relocates

LEMMA GotoRelocates ==
  ASSUME it # NoIterator, NEW p \in Nat \union {Throws}, Goto(p)
  PROVE  Relocates
<1>1. CASE p = Throws
  BY <1>1, FailRelocates DEF Goto
<1>2. CASE p # Throws
  <2>1. p \in Nat /\ it' = [it EXCEPT !.pos = p] /\ str' = str /\ stream' = stream
    BY <1>2 DEF Goto
  <2> QED  BY <2>1 DEF Relocates
<1> QED  BY <1>1, <1>2

\* The places that an operator leads to.
LEMMA PlacesOfSteps ==
  ASSUME NEW n \in Nat, NEW p \in Nat, NEW i \in Nat
  PROVE  /\ Increment(n, p) \in Nat \union {Throws} /\ Decrement(p) \in Nat \union {Throws}
         /\ Add(n, p, i) \in Nat \union {Throws} /\ Subtract(p, i) \in Nat \union {Throws}
         /\ Ahead(n, p) \in Nat \union {Throws} /\ Backward(n, p) \in Nat \union {Throws}
         /\ BackBy(n, p, i) \in Nat \union {Throws}
         /\ AheadBy(n, p, i) # AtRend => AheadBy(n, p, i) \in Nat \union {Throws}
<1>1. Wrap(p + i) \in Nat /\ Wrap(p - i) \in Nat
  BY DEF Wrap, Word
<1>2. p # 0 => p - 1 \in Nat
  OBVIOUS
<1>3. ~ (p < i) => p - i \in Nat
  OBVIOUS
<1> QED  BY <1>1, <1>2, <1>3 DEF Increment, Decrement, Add, Subtract, Ahead, Backward, BackBy, AheadBy

\* The length of the string that an iterator came from.
LEMMA SizeIsLength ==
  ASSUME IInv, Points, it # NoIterator, it.size # "null"
  PROVE  str[it.size].len \in Nat
<1>1. it.size \in Strings
  BY IteratorFields DEF Points
<1> QED  BY <1>1 DEF IInv, Members

LEMMA PlaceOfIterator ==
  ASSUME Points, it # NoIterator
  PROVE  it.pos \in Nat
BY IteratorFields DEF Points

LEMMA FollowRelocates ==
  ASSUME NEW i, Follow(i)
  PROVE  Relocates
<1>1. UNCHANGED <<it, stream>>
  BY DEF Follow
<1>2. str' = str
  BY DEF Follow, Halt, Reference
<1> QED  BY <1>1, <1>2 DEF Relocates

LEMMA ReadingRelocates ==
  ASSUME NEW v \in Strings, Reading(v)
  PROVE  Relocates
<1>1. UNCHANGED <<it, stream>>
  BY DEF Reading
<1>2. str' = str
  BY DEF Reading, Front, Back, At, CopyOut, Element, Reference, Halt
<1> QED  BY <1>1, <1>2 DEF Relocates

LEMMA BeginRelocates ==
  ASSUME IInv, NEW v \in Strings, Begin(v)
  PROVE  Relocates
<1>1. str[v].len \in Nat /\ Live(v)
  BY LiveTypes DEF Begin
<1>2. Rbegin(str[v].len) \in Nat /\ Rend(str[v].len) \in Nat
  BY <1>1 DEF Rbegin, Rend, Wrap, Word
<1>3. \E kind \in {"forward", "reverse"}, p \in Nat : it' = Iterator(kind, v, p)
  BY <1>1, <1>2 DEF Begin
<1> QED  BY <1>1, <1>3 DEF Begin, Relocates

LEMMA StepRelocates ==
  ASSUME IInv, Points, Step
  PROVE  Relocates
<1>1. it # NoIterator
  BY DEF Step, NoIterator
<1>2. CASE Goto(Decrement(it.pos))
  BY <1>1, <1>2, PlaceOfIterator, PlacesOfSteps, GotoRelocates
<1>3. CASE WithSize(LAMBDA n : Goto(Increment(n, it.pos)))
  <2>1. (\E c : Fail(c)) \/ (it.size # "null" /\ Goto(Increment(str[it.size].len, it.pos)))
    BY <1>3 DEF WithSize
  <2> QED  BY <1>1, <2>1, SizeIsLength, PlaceOfIterator, PlacesOfSteps, GotoRelocates, FailRelocates
<1> QED  BY <1>2, <1>3 DEF Step

LEMMA StepByRelocates ==
  ASSUME IInv, Points, NEW i \in Nat, StepBy(i)
  PROVE  Relocates
<1>1. it # NoIterator
  BY DEF StepBy, NoIterator
<1>2. CASE Goto(Subtract(it.pos, i))
  BY <1>1, <1>2, PlaceOfIterator, PlacesOfSteps, GotoRelocates
<1>3. CASE WithSize(LAMBDA n : Goto(Add(n, it.pos, i)))
  <2>1. (\E c : Fail(c)) \/ (it.size # "null" /\ Goto(Add(str[it.size].len, it.pos, i)))
    BY <1>3 DEF WithSize
  <2> QED  BY <1>1, <2>1, SizeIsLength, PlaceOfIterator, PlacesOfSteps, GotoRelocates, FailRelocates
<1> QED  BY <1>2, <1>3 DEF StepBy

LEMMA ReverseStepRelocates ==
  ASSUME IInv, Points, ReverseStep
  PROVE  Relocates
<1>1. it # NoIterator
  BY DEF ReverseStep, NoIterator
<1>2. \/ \E c : Fail(c)
      \/ /\ it.size # "null"
         /\ \/ Goto(Ahead(str[it.size].len, it.pos))
            \/ Goto(Backward(str[it.size].len, it.pos))
  BY DEF ReverseStep, WithSize
<1> QED  BY <1>1, <1>2, SizeIsLength, PlaceOfIterator, PlacesOfSteps, GotoRelocates, FailRelocates

LEMMA ReverseStepByRelocates ==
  ASSUME IInv, Points, NEW i \in Nat, ReverseStepBy(i)
  PROVE  Relocates
<1>1. it # NoIterator
  BY DEF ReverseStepBy, NoIterator
<1> DEFINE n == str[it.size].len
<1>2. \/ \E c : Fail(c)
      \/ /\ it.size # "null"
         /\ \/ Goto(BackBy(n, it.pos, i))
            \/ AheadBy(n, it.pos, i) # AtRend /\ Goto(AheadBy(n, it.pos, i))
            \/ /\ it' \in {[it EXCEPT !.pos = n], NullIterator("reverse")}
               /\ UNCHANGED <<str, halt, asked, stream>>
  BY DEF ReverseStepBy, WithSize
<1>3. it.pos \in Nat /\ (it.size # "null" => n \in Nat)
  BY <1>1, SizeIsLength, PlaceOfIterator
<1> HIDE DEF n
<1>4. ASSUME it.size # "null", it' \in {[it EXCEPT !.pos = n], NullIterator("reverse")},
             UNCHANGED <<str, halt, asked, stream>>
      PROVE  Relocates
  BY <1>1, <1>3, <1>4 DEF Relocates
<1> QED  BY <1>1, <1>2, <1>3, <1>4, PlacesOfSteps, GotoRelocates, FailRelocates

LEMMA RandomAccessRelocates ==
  ASSUME NEW i, RandomAccess(i)
  PROVE  Relocates
<1>1. (\E c : Fail(c)) \/ Follow(i)
  BY DEF RandomAccess, WithSize
<1> QED  BY <1>1, FailRelocates, FollowRelocates

\* *it = c changes a byte of a buffer.
LEMMA WriteKeeps ==
  ASSUME IInv, Points, NEW c \in Chars, Write(c)
  PROVE  IInv' /\ Points' /\ Outlives
<1> DEFINE v == it.first
           s == str[v]
           b == [s.buf EXCEPT ![it.pos] = c]
           t == [s EXCEPT !.buf = b]
<1>1. /\ it # NoIterator /\ v \in Strings /\ it.pos < s.len /\ it' = it
      /\ Bounded(v, t) /\ str' = [str EXCEPT ![v] = t]
  BY DEF Write, Becomes
<1>2. Live(v) /\ s.buf # Null /\ it \in Iterators /\ it.pos \in Nat
  BY <1>1, PlaceOfIterator DEF Points
<1>3. Sound(s) /\ Held(s) /\ s \in Members /\ s.len \in Nat /\ s.cap \in Nat
  BY <1>1, <1>2, LiveTypes
<1> HIDE DEF s, v
<1>4. b \in [0..s.cap -> Bytes] /\ \A i \in s.len..s.cap : b[i] = NUL
  <2>1. s.buf \in [0..s.cap -> Bytes] /\ s.len <= s.cap /\ c \in Bytes
        /\ \A i \in s.len..s.cap : s.buf[i] = NUL
    BY <1>3, Bounds DEF Held
  <2>2. \A i \in s.len..s.cap : i # it.pos /\ i \in 0..s.cap
    BY <1>1, <1>2, <1>3
  <2> QED  BY <2>1, <2>2
<1> HIDE DEF b
<1>5. t = With(s, b, s.len)
  BY <1>3 DEF With, Members
<1>6. Sound(t) /\ Held(t)
  <2>1. s.len \in 0..s.cap
    BY <1>3 DEF Held
  <2> QED  BY <1>3, <1>4, <1>5, <2>1, Rewritten DEF Takes
<1> HIDE DEF t
<1>7. Settled(t) /\ t \in Members /\ t # NoString
  BY <1>1, <1>6, BoundedIsKept
<1>8. IInv'
  BY <1>1, <1>7, ChangeKeeps DEF Changes
<1>9. str'[v] = t /\ t.buf # Null
  BY <1>1, <1>6, <1>7, HeldIsNotNull DEF IInv
<1>10. Points'
  BY <1>1, <1>2, <1>7, <1>9 DEF Points, Live, v
<1>11. Outlives
  BY <1>1, AccessAssumption DEF Outlives, v
<1> QED  BY <1>8, <1>10, <1>11

-----------------------------------------------------------------------------
(* Calls that change a string *)

LEMMA SparesTouches ==
  ASSUME NEW v \in Strings, Spares(v) \/ Destroy(v)
  PROVE  Touches(v)
BY DEF Spares, Destroy, Touches

LEMMA ChangeKeepsAll ==
  ASSUME IInv, Points, NEW v \in Strings, Change(v)
  PROVE  IInv' /\ Points' /\ Outlives
<1>1. CASE Construction(v)
  <2>1. Touches(v)
    BY <1>1, ConstructionSpares DEF Touches
  <2>2. IInv'
    BY <1>1, ConstructionStep, StepKeeps DEF CallStep
  <2> QED  BY <2>1, <2>2, WatchedKeeps DEF Change
<1>2. CASE Modification(v)
  <2>1. Touches(v)
    BY <1>2, ModificationSpares, SparesTouches
  <2>2. IInv'
    BY <1>2, ModificationStep, StepKeeps DEF CallStep
  <2> QED  BY <2>1, <2>2, WatchedKeeps DEF Change
<1> QED  BY <1>1, <1>2 DEF Change

LEMMA ChangeByKeepsAll ==
  ASSUME IInv, Points, NEW v \in Strings, NEW u \in Strings, ChangeBy(v, u)
  PROVE  IInv' /\ Points' /\ Outlives
<1>1. Touches(v)
  BY CombinationSpares, SparesTouches DEF ChangeBy
<1>2. IInv'
  BY CombinationStep, StepKeeps DEF ChangeBy, CallStep
<1> QED  BY <1>1, <1>2, WatchedKeeps DEF ChangeBy

\* The part of v from the iterator on.
LEMMA RestOfText ==
  ASSUME IInv, Points, NEW v \in Strings, Live(v), it # NoIterator, ~ (it.pos > str[v].len)
  PROVE  str[v].len - it.pos \in Nat /\ str[v].len - it.pos \in Asked
<1>1. str[v].len \in Nat /\ str[v].len < 126 /\ it.pos \in Nat
  BY LiveIsSound, Bounds, PlaceOfIterator
<1> QED  BY <1>1 DEF Asked

LEMMA ChangeAtKeepsAll ==
  ASSUME IInv, Points, NEW v \in Strings, ChangeAt(v)
  PROVE  IInv' /\ Points' /\ Outlives
<1> DEFINE n == str[v].len - it.pos
<1>1. it # NoIterator /\ Live(v) /\ it.pos \in Nat
  BY PlaceOfIterator DEF ChangeAt
<1>2. \/ Erase(v, it.pos, 1)
      \/ \E w \in Inputs : Insert(v, it.pos, w)
      \/ Halt("terminate")
      \/ ~ (it.pos > str[v].len) /\ Erase(v, it.pos, n)
      \/ ~ (it.pos > str[v].len) /\ \E w \in Inputs : Replace(v, it.pos, n, w)
  BY DEF ChangeAt, WithLength
<1>3. ~ (it.pos > str[v].len) => n \in Asked
  BY <1>1, RestOfText
<1>4. 1 \in Asked
  BY DEF Asked
<1> HIDE DEF n
<1>5. Spares(v)
  BY <1>1, <1>2, <1>3, <1>4, InputsAreTexts, EraseSpares, InsertSpares, EndSpares, ReplaceSpares
     DEF Ends, Halt
<1>6. Does(v)
  <2>1. Halt("terminate") => Does(v)
    BY DEF Does, Causes, Ends, Halt
  <2> QED  BY <1>1, <1>2, <1>3, <1>4, <2>1, InputsAreTexts, EraseDoes, InsertDoes, ReplaceTextDoes
<1>7. IInv'
  BY <1>6, StepKeeps DEF CallStep
<1> QED  BY <1>5, <1>7, SparesTouches, WatchedKeeps DEF ChangeAt

LEMMA AppendRangeKeepsAll ==
  ASSUME IInv, Points, NEW u \in Strings, NEW v \in Strings, AppendRange(u, v)
  PROVE  IInv' /\ Points' /\ Outlives
<1> DEFINE n == str[v].len - it.pos
           w == Slice(str[v].buf, it.pos, it.pos + n, NUL)
<1>1. it # NoIterator /\ Live(v) /\ it.pos \in Nat /\ Sound(str[v])
  BY PlaceOfIterator, LiveIsSound DEF AppendRange
<1>2. Halt("terminate") \/ (~ (it.pos > str[v].len) /\ AppendText(u, w))
  BY DEF AppendRange, WithLength
<1>3. ~ (it.pos > str[v].len) => w \in Seq(Bytes)
  <2>1. ~ (it.pos > str[v].len) => n \in Nat
    BY <1>1, RestOfText
  <2> HIDE DEF n
  <2> QED  BY <1>1, <2>1, SliceType, Bounds DEF IsSlice
<1> HIDE DEF w
<1>4. Spares(u)
  BY <1>2, <1>3, EndSpares, AppendTextSpares DEF Ends, Halt
<1>5. Does(u)
  <2>1. Halt("terminate") => Does(u)
    BY DEF Does, Causes, Ends, Halt
  <2> QED  BY <1>2, <1>3, <2>1, AppendDoes
<1>6. IInv'
  BY <1>5, StepKeeps DEF CallStep
<1> QED  BY <1>4, <1>6, SparesTouches, WatchedKeeps DEF AppendRange

-----------------------------------------------------------------------------
(* Streams *)

LEMMA StartReadingKeeps ==
  ASSUME IInv, Points, NEW v \in Strings, NEW t \in Streams,
         NEW ends \in Delimiters, StartReading(v, t, ends)
  PROVE  IInv' /\ Points' /\ FillsOne' /\ Outlives
<1>1. Clear(v) /\ Watched /\ stream' = [left |-> t, into |-> v, ends |-> ends]
  BY DEF StartReading
<1>2. Spares(v)
  BY <1>1, ClearSpares
<1>3. IInv'
  BY <1>1, ClearDoes, StepKeeps DEF CallStep
<1>4. Live(v)'
  <2>1. Live(v) /\ str \in [Strings -> Members]
    BY <1>1 DEF Clear, IInv
  <2> QED  BY <1>2, <2>1, SoundIsLive DEF Spares, Live
<1>5. stream' \in Reads /\ stream'.into = v
  BY <1>1, AccessAssumption DEF Reads
<1>6. FillsOne'
  BY <1>4, <1>5 DEF FillsOne
<1> QED  BY <1>1, <1>2, <1>3, <1>6, SparesTouches, WatchedKeeps

LEMMA IdleReads == Idle \in Reads /\ Idle.into = "none"
BY DEF Idle, Reads

\* get() and _append() of what it returns.
LEMMA NextCharKeeps ==
  ASSUME AccessInv, NextChar
  PROVE  IInv' /\ Points' /\ FillsOne' /\ Outlives
<1> DEFINE v == stream.into
           c == IF stream.left = <<>> THEN Eof ELSE Head(stream.left)
           s == str[v]
           t == Put(s, <<c>>)
<1>1. /\ IInv /\ Points /\ stream \in Reads /\ v \in Strings /\ Live(v)
      /\ stream.left \in Seq(Bytes)
  BY DEF AccessInv, FillsOne, NextChar, Reads
<1>2. \/ stream' = Idle /\ UNCHANGED <<str, halt, asked, it>>
      \/ \E e : Fail(e)
      \/ /\ ~ (s.len >= MaxLen) /\ str' = [str EXCEPT ![v] = t] /\ Watched
         /\ stream' = [stream EXCEPT !.left = IF @ = <<>> THEN @ ELSE Tail(@)]
  BY DEF NextChar
<1>3. CASE stream' = Idle /\ UNCHANGED <<str, halt, asked, it>>
  <2>1. IInv' /\ Points'
    BY <1>1, <1>3 DEF IInv, Points, Live
  <2>2. FillsOne'
    BY <1>3, IdleReads DEF FillsOne
  <2>3. Outlives
    BY <1>1, <1>3, AccessAssumption DEF Outlives
  <2> QED  BY <2>1, <2>2, <2>3
<1>4. CASE \E e : Fail(e)
  <2>1. str' = str /\ it' = it /\ stream' = stream
    BY <1>4 DEF Fail, Halt
  <2>2. IInv' /\ Points'
    BY <1>1, <2>1 DEF IInv, Points, Live
  <2>3. FillsOne'
    BY <2>1 DEF AccessInv, FillsOne, Live
  <2>4. Outlives
    BY <2>1, AccessAssumption DEF Outlives
  <2> QED  BY <2>2, <2>3, <2>4
<1>5. CASE /\ ~ (s.len >= MaxLen) /\ str' = [str EXCEPT ![v] = t] /\ Watched
           /\ stream' = [stream EXCEPT !.left = IF @ = <<>> THEN @ ELSE Tail(@)]
  <2>1. <<c>> \in Seq(Bytes) /\ Len(<<c>>) = 1
    <3>1. c \in Bytes
      BY <1>1, AccessAssumption
    <3> HIDE DEF c
    <3> QED  BY <3>1
  <2>2. Sound(s) /\ s.len \in Nat /\ MaxLen \in Nat
    BY <1>1, LiveTypes, Bounds
  <2> HIDE DEF c, s
  <2>3. Sound(t) /\ t.len = s.len + 1
    BY <2>1, <2>2, PutSound DEF Appended
  <2>4. Spared(t, s)
    BY <2>1, <2>2, PutGrows DEF Grown, Spared
  <2> HIDE DEF t
  <2>5. Settled(t) /\ t \in Members /\ t # NoString
    BY <1>5, <2>2, <2>3, SoundIsLive DEF Settled, Sound
  <2>6. IInv'
    BY <1>1, <1>5, <2>5, ChangeKeeps DEF Changes
  <2>7. Touches(v)
    BY <1>5, <2>3, <2>4 DEF Touches, s
  <2>8. Points' /\ Outlives
    BY <1>1, <1>5, <2>7, WatchedKeeps
  <2>9. stream' \in Reads /\ stream'.into = v
    <3>1. stream.left # <<>> => Tail(stream.left) \in Seq(Bytes)
      BY <1>1
    <3> QED  BY <1>1, <1>5, <3>1 DEF Reads
  <2>10. Live(v)'
    BY <1>1, <1>5, <2>5 DEF Live, IInv
  <2> QED  BY <2>6, <2>8, <2>9, <2>10 DEF FillsOne
<1> QED  BY <1>2, <1>3, <1>4, <1>5

-----------------------------------------------------------------------------
(* A step *)

LEMMA MovesKeep ==
  ASSUME IInv, Points, Relocates
  PROVE  IInv' /\ Points' /\ Outlives
<1>1. IInv'
  BY DEF Relocates, IInv
<1> QED  BY <1>1, RelocatesKeeps

LEMMA IterationKeeps ==
  ASSUME IInv, Points, Iteration \/ ReverseIteration
  PROVE  IInv' /\ Points' /\ Outlives
<1>1. ASSUME NEW i \in Steps, StepBy(i) \/ RandomAccess(i) \/ ReverseStepBy(i) PROVE Relocates
  <2>1. i \in Nat
    BY AccessAssumption
  <2> QED  BY <1>1, <2>1, StepByRelocates, RandomAccessRelocates, ReverseStepByRelocates
<1>2. CASE Step \/ Retrieve \/ ReverseStep
  BY <1>2, StepRelocates, FollowRelocates, ReverseStepRelocates, MovesKeep DEF Retrieve
<1>3. CASE \E c \in Chars : Write(c)
  BY <1>3, WriteKeeps
<1> QED  BY <1>1, <1>2, <1>3, MovesKeep DEF Iteration, ReverseIteration

LEMMA PassingKeeps ==
  ASSUME IInv, Points, NEW v \in Strings, NEW u \in Strings,
         HandOver(v, u) \/ Exchange(v, u)
  PROVE  IInv' /\ Points' /\ Outlives
<1>1. CallStep(v)
  BY DEF CallStep, HandOver, Exchange
<1> QED  BY <1>1, StepKeeps, HandOverKeeps, ExchangeKeeps

\* All calls but the one that starts to read leave the stream alone.
LEMMA OtherCalls ==
  ASSUME Call
  PROVE  \/ stream' = stream
         \/ \E v \in Strings, t \in Streams, ends \in Delimiters : StartReading(v, t, ends)
<1>1. CASE Iteration
  <2>1. (\E p : Goto(p)) \/ (\E e : Fail(e)) \/ (\E i : Follow(i)) \/ UNCHANGED stream
    BY <1>1 DEF Iteration, Step, StepBy, WithSize, Retrieve, RandomAccess, Write
  <2> QED  BY <2>1 DEF Goto, Fail, Follow
<1>2. CASE ReverseIteration
  <2>1. (\E p : Goto(p)) \/ (\E e : Fail(e)) \/ UNCHANGED stream
    BY <1>2 DEF ReverseIteration, ReverseStep, ReverseStepBy, WithSize
  <2> QED  BY <2>1 DEF Goto, Fail
<1>3. ASSUME NEW v \in Strings, Reading(v) \/ Begin(v) \/ Change(v) \/ ChangeAt(v) PROVE stream' = stream
  BY <1>3 DEF Reading, Begin, Change, ChangeAt
<1>4. ASSUME NEW v \in Strings, NEW u \in Strings,
             ChangeBy(v, u) \/ HandOver(v, u) \/ Exchange(v, u) \/ AppendRange(u, v)
      PROVE  stream' = stream
  BY <1>4 DEF ChangeBy, HandOver, Exchange, AppendRange
<1> QED  BY <1>1, <1>2, <1>3, <1>4 DEF Call

LEMMA CallKeeps ==
  ASSUME AccessInv, stream.into = "none", Call
  PROVE  AccessInv' /\ Outlives
<1>1. IInv /\ Points
  BY DEF AccessInv
<1>2. CASE \E v \in Strings, t \in Streams, ends \in Delimiters : StartReading(v, t, ends)
  BY <1>1, <1>2, StartReadingKeeps DEF AccessInv
<1>3. CASE ~ \E v \in Strings, t \in Streams, ends \in Delimiters : StartReading(v, t, ends)
  <2>1. FillsOne'
    BY <1>3, OtherCalls DEF AccessInv, FillsOne
  <2>2. CASE Iteration \/ ReverseIteration
    BY <1>1, <2>1, <2>2, IterationKeeps DEF AccessInv
  <2>3. ASSUME NEW v \in Strings, Reading(v) \/ Begin(v) PROVE IInv' /\ Points' /\ Outlives
    BY <1>1, <2>3, ReadingRelocates, BeginRelocates, MovesKeep
  <2>4. ASSUME NEW v \in Strings, Change(v) \/ ChangeAt(v) PROVE IInv' /\ Points' /\ Outlives
    BY <1>1, <2>4, ChangeKeepsAll, ChangeAtKeepsAll
  <2>5. ASSUME NEW v \in Strings, NEW u \in Strings,
               ChangeBy(v, u) \/ HandOver(v, u) \/ Exchange(v, u) \/ AppendRange(u, v)
        PROVE  IInv' /\ Points' /\ Outlives
    BY <1>1, <2>5, ChangeByKeepsAll, PassingKeeps, AppendRangeKeepsAll
  <2> QED  BY <1>3, <2>1, <2>2, <2>3, <2>4, <2>5 DEF Call, AccessInv
<1> QED  BY <1>2, <1>3

LEMMA AccessStep ==
  ASSUME AccessInv, AccessNext
  PROVE  AccessInv' /\ (Outlives \/ UNCHANGED accessVars)
<1>1. CASE halt # "no" /\ UNCHANGED accessVars
  BY <1>1 DEF accessVars, AccessInv, IInv, Points, FillsOne, Live
<1>2. CASE Fetch
  BY <1>2, NextCharKeeps DEF Fetch, AccessInv
<1> QED  BY <1>1, <1>2, CallKeeps DEF AccessNext

LEMMA AccessInvariance == AccessSpec => []AccessInv
<1>1. AccessInit => AccessInv
  BY InitIsKept, IdleReads DEF AccessInit, AccessInv, Points, FillsOne
<1>2. AccessInv /\ [AccessNext]_accessVars => AccessInv'
  <2>1. AccessInv /\ UNCHANGED accessVars => AccessInv'
    BY DEF accessVars, AccessInv, IInv, Points, FillsOne, Live
  <2> QED  BY <2>1, AccessStep
<1> QED  BY <1>1, <1>2, PTL DEF AccessSpec

\* Whatever is called, an iterator loses its buffer only to a destructor, a move
\* into its string, a text that the capacity has no place to spare for, and a
\* change of nothing but the capacity (String.hpp:1752-1835, 2002-2008).
THEOREM IteratorsAreKept == AccessSpec => IteratorsKept
<1>1. AccessInv /\ [AccessNext]_accessVars => [Outlives]_accessVars
  BY AccessStep
<1>2. [][Outlives]_accessVars => IteratorsKept
  BY DEF Outlives, IteratorsKept
<1> QED  BY <1>1, <1>2, AccessInvariance, PTL DEF AccessSpec


-----------------------------------------------------------------------------
(* The places that ++ comes to *)

LEMMA ForwardIs ==
  ASSUME NEW n \in Nat
  PROVE  \A i \in 0..n : Forward(n)[i] = i
<1> DEFINE along(f) == [i \in 0..n |-> IF i = 0 THEN 0 ELSE Increment(n, f[i - 1])]
           g == [i \in 0..n |-> i]
           to == Forward(n)
<1>1. ASSUME NEW i \in 0..n, i # 0 PROVE i - 1 \in 0..n /\ Increment(n, i - 1) = i
  BY <1>1 DEF Increment
<1>2. g = along(g)
  <2>1. ASSUME NEW i \in 0..n PROVE g[i] = IF i = 0 THEN 0 ELSE Increment(n, g[i - 1])
    BY <1>1
  <2> QED  BY <2>1
<1>3. to = CHOOSE f : f = along(f)
  BY DEF Forward
<1> HIDE DEF along, to, g
<1>4. to = along(to)
  BY <1>2, <1>3
<1>5. \A i \in 0..n : to[i] = IF i = 0 THEN 0 ELSE Increment(n, to[i - 1])
  BY <1>4 DEF along
<1> DEFINE T == {i \in 0..n : to[i] # i}
<1>6. T = {}
  <2> SUFFICES ASSUME T # {} PROVE FALSE
    OBVIOUS
  <2>1. T \in SUBSET Nat
    OBVIOUS
  <2>2. PICK i \in T : \A k \in T : i <= k
    <3> HIDE DEF T
    <3> QED  BY <2>1, Minimum
  <2>3. i \in 0..n /\ to[i] # i /\ i # 0
    BY <1>5, <2>2
  <2>4. i - 1 \in 0..n /\ i - 1 \notin T
    BY <2>2, <2>3
  <2> QED  BY <1>1, <1>5, <2>3, <2>4
<1> QED  BY <1>6 DEF to

LEMMA ReversedIs ==
  ASSUME NEW n \in Nat, n > 0, n < 126
  PROVE  \A i \in 0..n : Reversed(n)[i] = IF i = n THEN n ELSE n - 1 - i
<1> DEFINE at(i) == IF i = n THEN n ELSE n - 1 - i
           along(f) == [i \in 0..n |-> IF i = 0 THEN Rbegin(n) ELSE Ahead(n, f[i - 1])]
           g == [i \in 0..n |-> at(i)]
           from == Reversed(n)
<1>1. Rbegin(n) = at(0)
  <2>1. n - 1 \in 0..255
    OBVIOUS
  <2> QED  BY <2>1 DEF Rbegin, Wrap, Word
<1>2. ASSUME NEW i \in 0..n, i # 0 PROVE i - 1 \in 0..n /\ Ahead(n, at(i - 1)) = at(i)
  <2>1. i - 1 \in 0..n /\ at(i - 1) = n - i /\ at(i) = IF i = n THEN n ELSE n - 1 - i
    BY <1>2
  <2> DEFINE p == n - i
  <2>2. p \in 0..(n - 1) /\ p # n /\ (p = 0 <=> i = n) /\ p - 1 = n - 1 - i
    BY <1>2
  <2> HIDE DEF at, p
  <2>3. Ahead(n, p) = IF p = 0 THEN n ELSE p - 1
    BY <2>2 DEF Ahead, Decrement
  <2> QED  BY <2>1, <2>2, <2>3 DEF p
<1> HIDE DEF at
<1>3. g = along(g)
  <2>1. ASSUME NEW i \in 0..n PROVE g[i] = IF i = 0 THEN Rbegin(n) ELSE Ahead(n, g[i - 1])
    BY <1>1, <1>2
  <2> QED  BY <2>1
<1>4. from = CHOOSE f : f = along(f)
  BY DEF Reversed
<1> HIDE DEF along, from, g
<1>5. from = along(from)
  BY <1>3, <1>4
<1>6. \A i \in 0..n : from[i] = IF i = 0 THEN Rbegin(n) ELSE Ahead(n, from[i - 1])
  BY <1>5 DEF along
<1> DEFINE T == {i \in 0..n : from[i] # at(i)}
<1>7. T = {}
  <2> SUFFICES ASSUME T # {} PROVE FALSE
    OBVIOUS
  <2>1. T \in SUBSET Nat
    OBVIOUS
  <2>2. PICK i \in T : \A k \in T : i <= k
    <3> HIDE DEF T
    <3> QED  BY <2>1, Minimum
  <2>3. i \in 0..n /\ from[i] # at(i) /\ i # 0
    BY <1>1, <1>6, <2>2
  <2>4. i - 1 \in 0..n /\ i - 1 \notin T
    BY <2>2, <2>3
  <2> QED  BY <1>2, <1>6, <2>3, <2>4
<1> QED  BY <1>7 DEF from, at

LEMMA SmallWord == \A k \in Int : (k \in 0..255 => Wrap(k) = k) /\ (k + 1 = 0 => Wrap(k) = 255)
<1>1. ASSUME NEW k \in 0..255 PROVE k % 256 = k
  OBVIOUS
<1>2. ASSUME NEW k \in Int, k + 1 = 0 PROVE k % 256 = 255
  BY <1>2
<1> QED  BY <1>1, <1>2 DEF Wrap, Word

\* The sums of two places of a text, and the differences.
LEMMA ForwardBy ==
  ASSUME NEW n \in Nat, n < 126, NEW i \in 0..n, NEW j \in 0..n
  PROVE  /\ Add(n, i, j) = IF i + j <= n THEN i + j ELSE Throws
         /\ Subtract(i, j) = IF j <= i THEN i - j ELSE Throws
<1>1. Wrap(i + j) = i + j
  BY SmallWord
<1> QED  BY <1>1 DEF Add, Subtract

LEMMA ReverseBy ==
  ASSUME NEW n \in Nat, n < 126, NEW i \in 0..(n - 1), NEW j \in 1..n
  PROVE  /\ AheadBy(n, n - 1 - i, j) = IF i + j < n THEN n - 1 - (i + j)
                                       ELSE IF i + j = n THEN AtRend ELSE Throws
         /\ BackBy(n, n - 1 - i, j) = IF j <= i THEN n - 1 - (i - j) ELSE Throws
<1> DEFINE p == n - 1 - i
<1>1. p \in 0..(n - 1) /\ j - 1 \in 0..255 /\ p + j \in 0..255
  OBVIOUS
<1>2. Wrap(j - 1) = j - 1 /\ Wrap(p + j) = p + j /\ (p >= j => Wrap(p - j) = p - j)
  BY <1>1, SmallWord
<1>3. /\ p = j - 1 <=> i + j = n
      /\ p < j - 1 <=> i + j > n
      /\ p - j = n - 1 - (i + j) /\ p + j = n - 1 - (i - j)
      /\ n <= p + j <=> ~ (j <= i)
      /\ i + j < n => p >= j
  OBVIOUS
<1> HIDE DEF p
<1>4. AheadBy(n, p, j) = IF i + j < n THEN n - 1 - (i + j)
                         ELSE IF i + j = n THEN AtRend ELSE Throws
  BY <1>1, <1>2, <1>3 DEF AheadBy
<1>5. BackBy(n, p, j) = IF j <= i THEN n - 1 - (i - j) ELSE Throws
  BY <1>1, <1>2, <1>3 DEF BackBy
<1> QED  BY <1>4, <1>5 DEF p


\* + 0 at rbegin(), and - 1 at rend().
LEMMA ReverseEnds ==
  ASSUME NEW n \in Nat, n > 0, n < 126
  PROVE  AheadBy(n, Rbegin(n), 0) = Throws /\ BackBy(n, Rend(n), 1) = Throws
<1>1. Rbegin(n) = n - 1 /\ Wrap(0 - 1) = 255 /\ Wrap(n + 1) = n + 1
  BY SmallWord DEF Rbegin
<1>2. n - 1 # n /\ n - 1 # 255 /\ n - 1 < 255 /\ n <= n + 1
  OBVIOUS
<1>3. AheadBy(n, n - 1, 0) = Throws
  <2> DEFINE p == n - 1
  <2> HIDE DEF p
  <2> SUFFICES AheadBy(n, p, 0) = Throws
    BY DEF p
  <2>1. p # n /\ p # 255 /\ p < 255
    BY <1>2 DEF p
  <2> QED  BY <1>1, <2>1 DEF AheadBy
<1>4. BackBy(n, n, 1) = Throws
  BY <1>1, <1>2 DEF BackBy
<1> QED  BY <1>1, <1>3, <1>4 DEF Rend

\* Iterators of either kind come over every character of a text, once, whatever
\* its length, and + i and - i go where i steps go (String.hpp:2163-2208,
\* 2423-2506).
THEOREM TraversalIsSound == AccessSpec => []TraversalSound
<1>1. AccessInv => TraversalSound
  <2> SUFFICES ASSUME AccessInv, NEW v \in Strings, Live(v)
               PROVE  LET n    == str[v].len
                          to   == Forward(n)
                          from == Reversed(n)
                      IN  /\ \A i \in 0..n : to[i] = i
                          /\ \A i \in 1..n : Decrement(to[i]) = to[i - 1]
                          /\ \A i, j \in 0..n : /\ Add(n, to[i], j) = IF i + j <= n THEN to[i + j] ELSE Throws
                                                /\ Subtract(to[i], j) = IF j <= i THEN to[i - j] ELSE Throws
                          /\ n > 0 =>
                               /\ \A i \in 0..(n - 1) : from[i] = n - 1 - i
                               /\ from[n] = Rend(n)
                               /\ \A i \in 1..n : Backward(n, from[i]) = from[i - 1]
                               /\ \A i \in 0..(n - 1), j \in 1..n :
                                    /\ AheadBy(n, from[i], j) = IF i + j < n THEN from[i + j]
                                                                ELSE IF i + j = n THEN AtRend ELSE Throws
                                    /\ BackBy(n, from[i], j) = IF j <= i THEN from[i - j] ELSE Throws
                               /\ AheadBy(n, Rbegin(n), 0) = Throws /\ BackBy(n, Rend(n), 1) = Throws
    BY DEF TraversalSound
  <2> DEFINE n    == str[v].len
             to   == Forward(n)
             from == Reversed(n)
  <2>1. n \in Nat /\ n < 126
    <3>1. n \in Nat /\ n <= MaxLen
      BY LiveIsSound DEF AccessInv
    <3> QED  BY <3>1, Bounds
  <2>2. \A i \in 0..n : to[i] = i
    BY <2>1, ForwardIs
  <2>3. n > 0 => \A i \in 0..n : from[i] = IF i = n THEN n ELSE n - 1 - i
    BY <2>1, ReversedIs
  <2> HIDE DEF n, to, from
  <2>4. ASSUME NEW i \in 1..n PROVE Decrement(to[i]) = to[i - 1]
    <3>1. i \in 0..n /\ i - 1 \in 0..n /\ i # 0
      BY <2>1
    <3> QED  BY <2>2, <3>1 DEF Decrement
  <2>5. ASSUME NEW i \in 0..n, NEW j \in 0..n
        PROVE  /\ Add(n, to[i], j) = IF i + j <= n THEN to[i + j] ELSE Throws
               /\ Subtract(to[i], j) = IF j <= i THEN to[i - j] ELSE Throws
    <3>1. (i + j <= n => i + j \in 0..n) /\ (j <= i => i - j \in 0..n)
      BY <2>1
    <3> QED  BY <2>1, <2>2, <3>1, ForwardBy
  <2>6. ASSUME n > 0, NEW i \in 1..n PROVE Backward(n, from[i]) = from[i - 1]
    <3>1. i \in 0..n /\ i - 1 \in 0..n /\ i - 1 # n
      BY <2>1
    <3>2. from[i - 1] = n - i /\ from[i] = IF i = n THEN n ELSE n - 1 - i
      BY <2>1, <2>3, <2>6, <3>1
    <3>3. CASE i = n
      BY <2>1, <3>2, <3>3 DEF Backward
    <3>4. CASE i # n
      <4> DEFINE p == n - 1 - i
      <4>1. p \in Nat /\ p < n /\ p + 1 # n /\ p + 1 = n - i
        BY <2>1, <3>4
      <4>2. from[i] = p
        BY <3>2, <3>4
      <4> HIDE DEF p
      <4>3. Increment(n, p) = p + 1
        BY <2>1, <4>1 DEF Increment
      <4>4. Backward(n, p) = Increment(n, p)
        BY <2>1, <4>1 DEF Backward
      <4> QED  BY <3>2, <4>1, <4>2, <4>3, <4>4
    <3> QED  BY <3>3, <3>4
  <2>7. ASSUME n > 0, NEW i \in 0..(n - 1), NEW j \in 1..n
        PROVE  /\ AheadBy(n, from[i], j) = IF i + j < n THEN from[i + j]
                                           ELSE IF i + j = n THEN AtRend ELSE Throws
               /\ BackBy(n, from[i], j) = IF j <= i THEN from[i - j] ELSE Throws
    <3>1. i \in 0..n /\ i # n /\ from[i] = n - 1 - i
      BY <2>1, <2>3, <2>7
    <3>2. i + j < n => from[i + j] = n - 1 - (i + j)
      BY <2>1, <2>3, <2>7
    <3>3. j <= i => from[i - j] = n - 1 - (i - j)
      BY <2>1, <2>3, <2>7
    <3>4. /\ AheadBy(n, n - 1 - i, j) = IF i + j < n THEN n - 1 - (i + j)
                                       ELSE IF i + j = n THEN AtRend ELSE Throws
          /\ BackBy(n, n - 1 - i, j) = IF j <= i THEN n - 1 - (i - j) ELSE Throws
      BY <2>1, ReverseBy
    <3> QED  BY <3>1, <3>2, <3>3, <3>4, Zenon
  <2>8. n > 0 => /\ \A i \in 0..(n - 1) : from[i] = n - 1 - i
                 /\ from[n] = Rend(n)
    BY <2>1, <2>3 DEF Rend
  <2>9. n > 0 => AheadBy(n, Rbegin(n), 0) = Throws /\ BackBy(n, Rend(n), 1) = Throws
    BY <2>1, ReverseEnds
  <2> QED  BY <2>2, <2>4, <2>5, <2>6, <2>7, <2>8, <2>9 DEF n, to, from
<1> QED  BY <1>1, AccessInvariance, PTL


=============================================================================
