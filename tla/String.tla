------------------------------ MODULE String ------------------------------
(***************************************************************************)
(* NSTD::String of String.hpp: a C string with a length and a capacity.    *)
(*                                                                         *)
(* A string is the record of its members; its buffer is a function from    *)
(* the offsets 0 to cap to bytes (new char[ cap + 1 ]()), or Null.  A      *)
(* buffer has one owner at any time, so it is kept in the record.  Texts   *)
(* that callers pass are sequences without NUL.                            *)
(*                                                                         *)
(* What ends the program, or may, sets `halt` and the model stops there:   *)
(* a null pointer that is followed, bytes beyond a buffer that are         *)
(* written, a deleted buffer that is read, an allocation that fails, a     *)
(* `throw;` without an exception, which terminates.  Bytes beyond a buffer *)
(* that are only read have any value: junk.                                *)
(***************************************************************************)
EXTENDS Integers, Sequences, FiniteSetsExt, TLC

CONSTANTS Strings,     \* names of the strings of the program
          Chars,       \* characters of a text
          NUL,         \* '\0'
          Inputs,      \* texts that callers pass
          Sizes,       \* lengths and capacities that callers ask for
          IncreaseBy,  \* 15 in the code: what a new string grows by
          MaxBy,       \* bound: what a string may grow by in the end
          MaxLen,      \* bound: characters of a string that is the only one
          MaxShared    \* bound: characters of all strings, if there are several

ASSUME BoundAssumption == /\ IncreaseBy \in Nat \ {0} /\ MaxBy \in Nat
                          /\ MaxLen \in Nat /\ MaxShared \in 0..MaxLen
                          /\ NUL \notin Chars
                          /\ Inputs \subseteq Seq(Chars) /\ Sizes \subseteq Nat

Null == <<>>
Bytes == Chars \union {NUL}

\* size_t, and int, of fewer bits.
Word    == 256
npos    == Word - 1
Wrap(n)  == n % Word
ToInt(n) == IF n < Word \div 2 THEN n ELSE n - Word

\* No text has a length that an int does not hold.
ASSUME WidthAssumption == /\ MaxLen + 2 < Word \div 2
                          /\ \A w \in Inputs : Len(w) + 2 < Word \div 2

VARIABLES str,     \* str[v]: the members of v, or NoString before its constructor
          halt,    \* what ended the program, or "no"
          asked    \* what the last call was to do (a history variable)

vars == <<str, halt, asked>>

NewString == [buf |-> Null, len |-> 0, cap |-> 0, by |-> IncreaseBy]
NoString  == [NewString EXCEPT !.by = 0]
Live(v)   == str[v] # NoString

Init == str = [v \in Strings |-> NoString] /\ halt = "no" /\ asked = [call |-> "none"]

\* The characters of s; the bytes of a buffer from i up to j.
Text(s) == [k \in 1..s.len |-> s.buf[k - 1]]
Slice(buf, i, j, junk) ==
  [k \in 1..(j - i) |-> IF i + k - 1 \in DOMAIN buf THEN buf[i + k - 1] ELSE junk]

\* What strlen() sees of a text.
CString(t) == LET NulAt == {k \in 1..Len(t) : t[k] = NUL}
              IN  IF NulAt = {} THEN t ELSE SubSeq(t, 1, Min(NulAt) - 1)

-----------------------------------------------------------------------------
(* Private members: the string that a call leaves, if it does not halt *)

\* Slip: no byte is allocated for the terminator.
SetCapacityShort(s, cap) ==
  IF (s.cap = cap /\ s.buf # Null) \/ cap < s.len THEN s
  ELSE [s EXCEPT !.cap = cap,
                 !.buf = [i \in 0..(cap - 1) |-> IF i < s.len THEN s.buf[i] ELSE NUL]]

\* _setCapacity()
SetCapacity(s, cap) ==
  IF (s.cap = cap /\ s.buf # Null) \/ cap < s.len THEN s
  ELSE [s EXCEPT !.cap = cap,
                 !.buf = [i \in 0..cap |-> IF i < s.len THEN s.buf[i] ELSE NUL]]

\* Slip: it takes one byte too many for a reason to grow.
FitsTight(s, n) == s.cap > n + 1 /\ s.buf # Null

Fits(s, n) == s.cap > n /\ s.buf # Null

\* _increaseCapacity(): steps of `by` until there is more than n.
IncreaseCapacity(s, n) ==
  IF Fits(s, n) THEN s
  ELSE LET steps == IF s.cap > n THEN 0 ELSE (n - s.cap) \div s.by + 1
       IN  SetCapacity([s EXCEPT !.by = @ + 1], s.cap + steps * s.by)

\* _decreaseCapacity()
DecreaseCapacity(s, cap) ==
  IF s.cap < cap THEN s
  ELSE SetCapacity([s EXCEPT !.by = IF @ > IncreaseBy THEN @ - 1 ELSE @], cap)

\* _fill_str(): c at the offsets from pos up to the length, then the terminator.
FillStr(s, pos, c) ==
  [s EXCEPT !.buf = [i \in DOMAIN @ |-> IF i \in pos..(s.len - 1) THEN c
                                        ELSE IF i = s.len THEN NUL ELSE @[i]]]

\* Slip: the bytes behind the new end stay, but for the terminator.
ClearStrKeeps(s, pos) ==
  [s EXCEPT !.buf = [i \in DOMAIN @ |-> IF i = pos THEN NUL ELSE @[i]], !.len = pos]

\* _clear_str()
ClearStr(s, pos) == [FillStr(s, pos, NUL) EXCEPT !.len = pos]

\* _setLength()
SetLength(s, len) ==
  IF s.len > len THEN ClearStr(s, len)
  ELSE [IF s.cap < len THEN IncreaseCapacity(s, len) ELSE s EXCEPT !.len = len]

\* w and a terminator in a buffer, from pos on.
Written(buf, pos, w) ==
  [i \in DOMAIN buf |-> IF i \in pos..(pos + Len(w) - 1) THEN w[i - pos + 1]
                        ELSE IF i = pos + Len(w) THEN NUL ELSE buf[i]]

\* _append(); a null pointer counts as an empty text.
Put(s, w) ==
  IF w = <<>> THEN s
  ELSE SetLength([IncreaseCapacity(s, s.len + Len(w)) EXCEPT !.buf = Written(@, s.len, w)],
                 s.len + Len(w))

\* _insert_str(), with pos within the text.  The third part is read with the
\* length of the whole text, beyond the buffer perhaps, and cut by strlen().
InsertStr(s, pos, w, junk) ==
  IF pos = s.len THEN Put(s, w)
  ELSE IF w = <<>> THEN s
  ELSE LET t     == IncreaseCapacity(s, s.len + Len(w))
           third == CString(Slice(t.buf, pos, pos + t.len, junk))
       IN  Put(Put(ClearStr(t, pos), w), third)

\* _erase(): the characters behind move up one by one.
EraseStr(s, pos, len) ==
  ClearStr([s EXCEPT !.buf = [i \in DOMAIN @ |-> IF i \in pos..(s.len - len - 1)
                                                THEN @[i + len] ELSE @[i]]],
           s.len - len)

\* Slip: the third part starts where the new text would end.
ReplaceStrShifted(s, pos, len, w, junk) ==
  LET third == CString(Slice(s.buf, pos + Len(w), pos + Len(w) + s.len, junk))
  IN  Put(Put(ClearStr(s, pos), CString(w)), third)

\* _replace(), with pos and len within the text.
ReplaceStr(s, pos, len, w, junk) ==
  LET third == CString(Slice(s.buf, pos + len, pos + len + s.len, junk))
  IN  Put(Put(ClearStr(s, pos), CString(w)), third)

\* _getLength() of s for a part of `other`: npos means up to the end of s.
Length(s, pos, len) == IF len = npos THEN Wrap(s.len - pos) ELSE len
TooLong(s, other, pos, len) == Wrap(pos + Length(s, pos, len)) > other.len

-----------------------------------------------------------------------------
(* Public members.  Each one halts for the first cause in its way, or leaves *)
(* `s`, which TLC only evaluates if there is none.                           *)

\* A `throw;` without an exception.
Halt(cause) == halt' = cause /\ UNCHANGED <<str, asked>>

\* A call on behalf of v goes wrong in memory: it is at pos, for len characters.
Stray(cause, v, pos, len) ==
  /\ halt' = cause
  /\ asked' = [call |-> "stray", v |-> v, from |-> pos, len |-> len]
  /\ UNCHANGED str

Others(v) == {u \in Strings \ {v} : Live(u)}
Bounded(v, s) ==
  /\ s.by <= MaxBy
  /\ IF Others(v) = {} THEN s.len <= MaxLen
     ELSE \A u \in Others(v) : str[u].len + s.len <= MaxShared

\* v becomes s, and was to have put in the place of the characters i to j.
Becomes(v, s, i, j, put) ==
  /\ Bounded(v, s)
  /\ str' = [str EXCEPT ![v] = s]
  /\ asked' = [call |-> "edit", v |-> v, from |-> i, to |-> j, put |-> put]
  /\ UNCHANGED halt

\* v becomes s, which is not what it was to be.
Garbled(v, s) ==
  /\ Bounded(v, s)
  /\ str' = [str EXCEPT ![v] = s]
  /\ asked' = [call |-> "garble", v |-> v]
  /\ UNCHANGED halt

Construct(v, s, w) == ~ Live(v) /\ Becomes(v, s, 0, 0, w)

\* String(); String( const char * ) and String( n, c ): a null pointer and an
\* empty text allocate nothing.
Default(v)     == Construct(v, SetCapacity(NewString, 0), <<>>)
FromText(v, w) == Construct(v, Put(NewString, w), w)

\* String( const String & ), and the operators + with a string on the left.
Copy(v, u)    == Live(u) /\ Construct(v, Put(NewString, Text(str[u])), Text(str[u]))
Plus(v, u, w) ==
  Live(u) /\ Construct(v, Put(Put(NewString, Text(str[u])), w), Text(str[u]) \o w)

\* operator+( char, const String & ) appends the character.
PlusChar(v, c, u) ==
  Live(u) /\ ~ Live(v) /\ Garbled(v, Put(Put(NewString, Text(str[u])), <<c>>))

\* _substr() of a part of `other`, into a buffer of its own, on behalf of v, which
\* is empty while it is being made: `then` goes on with the part.  A length that
\* has wrapped around is too large to allocate, except npos: _alloc_cstring() adds
\* one to it, gets no bytes, and _substr() writes on behind them.
WithPart(v, other, pos, len, then(_)) ==
  LET n == Length(str[v], pos, len) IN
  IF TooLong(str[v], other, pos, len) \/ other.buf = Null THEN Halt("terminate")
  ELSE IF n = npos THEN Stray("bounds", v, pos, len)
  ELSE IF n >= Word \div 2 THEN Stray("bad_alloc", v, pos, len)
  ELSE then(Slice(other.buf, pos, pos + n, NUL))

\* String( const String &, pos, len ) and String( const char *, n ), which makes
\* a string of its argument first.  npos counts from a string that is empty yet.
CopyPart(v, u, pos, len) ==
  /\ ~ Live(v) /\ Live(u)
  /\ WithPart(v, str[u], pos, len, LAMBDA w :
       IF len = npos THEN Garbled(v, Put(NewString, w)) ELSE Construct(v, Put(NewString, w), w))
FromBuffer(v, t, n) ==
  /\ ~ Live(v)
  /\ WithPart(v, Put(NewString, t), 0, n, LAMBDA w :
       IF n = npos THEN Garbled(v, Put(NewString, w)) ELSE Construct(v, Put(NewString, w), w))

\* substr()
Substr(v, u, pos, len) ==
  /\ ~ Live(v) /\ Live(u)
  /\ WithPart(u, str[u], pos, len, LAMBDA w : Construct(v, Put(NewString, CString(w)), w))

\* Members that are moved; `by` stays.
Moved(to, from) == [to EXCEPT !.buf = from.buf, !.len = from.len, !.cap = from.cap]

\* String( String && ), operator=( String && ); to itself it does nothing.
Move(v, u) ==
  /\ Live(u) /\ v # u
  /\ str' = [str EXCEPT ![v] = Moved(IF Live(v) THEN @ ELSE NewString, str[u]),
                        ![u] = Moved(@, NewString)]
  /\ asked' = [call |-> "take", v |-> v, w |-> u]
  /\ UNCHANGED halt

Swap(v, u) ==
  /\ Live(v) /\ Live(u)
  /\ str' = [str EXCEPT ![v] = Moved(str[v], str[u]), ![u] = Moved(str[u], str[v])]
  /\ asked' = [call |-> "swap", v |-> v, w |-> u]
  /\ UNCHANGED halt

\* Slip: it builds the string anew.
AssignAnew(v, u) ==
  /\ Live(v) /\ Live(u) /\ v # u
  /\ Becomes(v, Put(NewString, Text(str[u])), 0, str[v].len, Text(str[u]))

\* operator=( const String & ); to itself it does nothing.
Assign(v, u) ==
  /\ Live(v) /\ Live(u) /\ v # u
  /\ Becomes(v, Put(SetLength(str[v], 0), Text(str[u])), 0, str[v].len, Text(str[u]))

Destroy(v) ==
  /\ Live(v)
  /\ str' = [str EXCEPT ![v] = NoString]
  /\ asked' = [call |-> "drop", v |-> v]
  /\ UNCHANGED halt

\* append(), operator+=, push_back()
AppendText(v, w) == Live(v) /\ Becomes(v, Put(str[v], w), str[v].len, str[v].len, w)

\* s += s reads a buffer that growing has deleted.
AppendOwn(v) ==
  /\ Live(v)
  /\ IF str[v].len > 0 /\ ~ Fits(str[v], 2 * str[v].len)
     THEN Stray("freed", v, str[v].len, 0)
     ELSE AppendText(v, Text(str[v]))

\* insert()
Insert(v, pos, w) ==
  /\ Live(v)
  /\ IF pos > str[v].len THEN Halt("terminate")
     ELSE \E junk \in Bytes : Becomes(v, InsertStr(str[v], pos, w, junk), pos, pos, w)

\* s.insert( pos, s ): what is read has been cleared from pos on, and is written
\* while it is read: the first part again and again, or nothing.
InsertOwn(v, pos) ==
  LET s == str[v]
      w == [k \in 1..s.len |-> IF pos = 0 THEN NUL ELSE s.buf[(k - 1) % pos]]
  IN  /\ Live(v) /\ pos < s.len
      /\ IF ~ Fits(s, 2 * s.len) THEN Stray("freed", v, pos, 0)
         ELSE \E junk \in Bytes : Garbled(v, InsertStr(s, pos, w, junk))

\* append( other, subpos, sublen ): npos means up to the length of v.
AppendPart(v, u, pos, len) ==
  /\ Live(v) /\ Live(u)
  /\ WithPart(v, str[u], pos, len, LAMBDA w :
       IF len = npos /\ str[v].len # str[u].len THEN Garbled(v, Put(str[v], w))
       ELSE AppendText(v, w))

\* insert( at, other, subpos, sublen ), with at within the text.
InsertPart(v, at, u, pos, len) ==
  /\ Live(v) /\ Live(u) /\ at <= str[v].len
  /\ WithPart(v, str[u], pos, len, LAMBDA w :
       IF len = npos /\ str[v].len # str[u].len
       THEN \E junk \in Bytes : Garbled(v, InsertStr(str[v], at, w, junk))
       ELSE Insert(v, at, w))

\* erase().  A position beyond the end passes the test if len is npos.
Erase(v, pos, len) ==
  /\ Live(v)
  /\ LET n == Length(str[v], pos, len) IN
       IF TooLong(str[v], str[v], pos, len) THEN Halt("terminate")
       ELSE IF str[v].buf = Null THEN Stray("null", v, pos, len)
       ELSE IF pos > str[v].len THEN Stray("bounds", v, pos, len)
       ELSE Becomes(v, EraseStr(str[v], pos, n), pos, pos + n, <<>>)

\* pop_back(): end() - 1 of an empty string terminates.
PopBack(v) ==
  /\ Live(v)
  /\ IF str[v].len = 0 THEN Halt("terminate") ELSE Erase(v, str[v].len - 1, 1)

\* replace(), with what is left to do if it does not halt.
Replacing(v, pos, len, then(_, _)) ==
  /\ Live(v)
  /\ IF TooLong(str[v], str[v], pos, len) \/ str[v].buf = Null THEN Halt("terminate")
     ELSE IF pos > str[v].len THEN Stray("bounds", v, pos, len)
     ELSE \E junk \in Bytes : then(Length(str[v], pos, len), junk)

\* By a text, by another string, by a part of one, by itself: that is read when
\* only the first pos characters of it are left.
Replace(v, pos, len, w) ==
  Replacing(v, pos, len, LAMBDA n, junk :
    Becomes(v, ReplaceStr(str[v], pos, n, w, junk), pos, pos + n, w))
ReplaceBy(v, pos, len, u) ==
  /\ Live(v) /\ Live(u) /\ u # v
  /\ IF str[u].buf = Null /\ pos <= str[v].len THEN Halt("terminate")
     ELSE Replace(v, pos, len, Text(str[u]))
ReplaceByPart(v, u, pos, len) ==
  /\ Live(v) /\ Live(u)
  /\ WithPart(v, str[u], pos, len, LAMBDA w :
       IF len = npos /\ str[v].len # str[u].len
       THEN Replacing(v, 0, npos, LAMBDA n, junk : Garbled(v, ReplaceStr(str[v], 0, n, w, junk)))
       ELSE Replace(v, 0, npos, w))
ReplaceByOwn(v, pos, len) ==
  Replacing(v, pos, len, LAMBDA n, junk :
    Garbled(v, ReplaceStr(str[v], pos, n, SubSeq(Text(str[v]), 1, pos), junk)))

Clear(v) ==
  /\ Live(v)
  /\ IF str[v].buf = Null THEN Stray("null", v, 0, 0)
     ELSE Becomes(v, ClearStr(str[v], 0), 0, str[v].len, <<>>)

\* resize( n ) and resize( n, c ): n characters in the end.
Resizing(v, n, s, c) ==
  Becomes(v, s, IF n < str[v].len THEN n ELSE str[v].len, str[v].len,
          [k \in 1..(n - str[v].len) |-> c])
Resize(v, n) == Live(v) /\ n # str[v].len /\ Resizing(v, n, SetLength(str[v], n), NUL)
ResizeTo(v, n, c) ==
  /\ Live(v) /\ n # str[v].len
  /\ Resizing(v, n, IF n > str[v].len THEN FillStr(SetLength(str[v], n), str[v].len, c)
                    ELSE ClearStr(str[v], n), c)

\* reserve() gives room, or takes half of it back.
Reserve(v, n) ==
  LET s == str[v] IN
  /\ Live(v)
  /\ CASE s.cap < n                        -> Becomes(v, SetCapacity(s, n), 0, 0, <<>>)
       [] s.cap > n /\ s.cap \div 2 > s.len -> Becomes(v, DecreaseCapacity(s, s.cap \div 2), 0, 0, <<>>)
       [] OTHER                            -> UNCHANGED vars

ShrinkToFit(v) == Live(v) /\ Becomes(v, DecreaseCapacity(str[v], str[v].len), 0, 0, <<>>)

\* operator== and the others; _compare() follows null pointers only if the
\* lengths are equal.
Compare(v, u) ==
  /\ Live(v) /\ Live(u)
  /\ IF str[v].len = str[u].len /\ Null \in {str[v].buf, str[u].buf}
     THEN Stray("null", IF str[v].buf = Null THEN v ELSE u, 0, 0)
     ELSE UNCHANGED vars

-----------------------------------------------------------------------------
(* Operations that only read: comparison and search *)

Beyond == -1      \* the answer of a search that leaves the buffer

Content(s) == CString(Slice(s.buf, 0, s.cap + 1, NUL))

\* _compare(): the shorter one is the greater one; else strcmp() of the buffers,
\* 2 if they differ.
Order(s, t) ==
  IF s.len < t.len THEN 1
  ELSE IF s.len > t.len THEN -1
  ELSE IF Content(s) = Content(t) THEN 0 ELSE 2

\* Does w occur at p, as far as the buffer goes?
Matches(s, w, p) == \A k \in 1..Len(w) : p + k - 1 \in DOMAIN s.buf /\ s.buf[p + k - 1] = w[k]

\* The first of the positions from p up to q, or the last one going down.
Upward(s, p, q, Hit(_)) ==
  LET hits == {i \in p..q : i \in DOMAIN s.buf /\ Hit(i)} IN
    IF hits # {} THEN Min(hits) ELSE IF p..q \subseteq DOMAIN s.buf THEN npos ELSE Beyond
Downward(s, p, Hit(_)) ==
  LET hits == {i \in 0..ToInt(p) : i \in DOMAIN s.buf /\ Hit(i)} IN
    IF ~ 0..ToInt(p) \subseteq DOMAIN s.buf THEN Beyond
    ELSE IF hits # {} THEN Max(hits) ELSE npos

\* Slip: the last position is not tried.
FindShort(s, w, pos) ==
  Upward(s, IF pos = npos THEN Wrap(s.len - 1) ELSE pos, Wrap(s.len - Len(w)) - 1,
         LAMBDA i : Matches(s, w, i))

\* _find(): the last position wraps around if w is longer than the text.
Find(s, w, pos) ==
  Upward(s, IF pos = npos THEN Wrap(s.len - 1) ELSE pos, Wrap(s.len - Len(w)),
         LAMBDA i : Matches(s, w, i))

\* _rfind(): it starts one behind the last position that can match.
Rfind(s, w, pos) ==
  Downward(s, IF pos = npos \/ pos + Len(w) > s.len + 1 THEN Wrap(s.len - Len(w) + 1) ELSE pos,
           LAMBDA i : Matches(s, w, i))

\* _find_first_of(), _find_last_of(); with isTrue = FALSE they are the members
\* called find_..._not_of().
Among(s, w, i, isTrue) == (\E k \in 1..Len(w) : s.buf[i] = w[k]) = isTrue
FindFirstOf(s, w, pos, isTrue) ==
  Upward(s, IF pos = npos THEN Wrap(s.len - 1) ELSE pos, s.len - 1,
         LAMBDA i : Among(s, w, i, isTrue))
FindLastOf(s, w, pos, isTrue) ==
  Downward(s, IF pos = npos THEN Wrap(s.len - 1) ELSE pos, LAMBDA i : Among(s, w, i, isTrue))

-----------------------------------------------------------------------------

Lengths == {0, 1, npos}
Places(u) == 0..(str[u].len + 1)

Construction(v) ==
  \/ Default(v)
  \/ \E w \in Inputs : \/ FromText(v, w)
                       \/ \E n \in 0..(Len(w) + 1) \union {npos} : FromBuffer(v, w, n)
  \/ \E u \in Strings : \/ Copy(v, u)
                        \/ \E w \in Inputs : Plus(v, u, w)
                        \/ \E c \in Chars : PlusChar(v, c, u)
                        \/ \E pos \in Places(u), len \in Lengths :
                             CopyPart(v, u, pos, len) \/ Substr(v, u, pos, len)

Modification(v) ==
  \/ AppendOwn(v) \/ PopBack(v) \/ Clear(v) \/ ShrinkToFit(v) \/ Destroy(v)
  \/ \E w \in Inputs : AppendText(v, w)
  \/ \E n \in Sizes : Resize(v, n) \/ Reserve(v, n) \/ \E c \in Chars : ResizeTo(v, n, c)
  \/ \E pos \in Places(v) :
       \/ InsertOwn(v, pos)
       \/ \E w \in Inputs : Insert(v, pos, w)
       \/ \E len \in Lengths : \/ Erase(v, pos, len) \/ ReplaceByOwn(v, pos, len)
                               \/ \E w \in Inputs : Replace(v, pos, len, w)

Combination(v, u) ==
  \/ Assign(v, u) \/ Compare(v, u)
  \/ \E pos \in Places(v), len \in Lengths : ReplaceBy(v, pos, len, u)
  \/ \E pos \in Places(u), len \in Lengths :
       AppendPart(v, u, pos, len) \/ InsertPart(v, 0, u, pos, len) \/ ReplaceByPart(v, u, pos, len)

Stop == halt # "no" /\ UNCHANGED vars

Next ==
  \/ halt = "no" /\ \E v \in Strings : \/ Construction(v) \/ Modification(v)
                                       \/ \E u \in Strings : Combination(v, u) \/ Move(v, u) \/ Swap(v, u)
  \/ Stop

Spec == Init /\ [][Next]_vars

-----------------------------------------------------------------------------
(* Properties *)

Causes == {"no", "null", "bounds", "freed", "terminate", "bad_alloc"}

TypeOK ==
  /\ halt \in Causes
  /\ \A v \in Strings :
       /\ str[v].len \in 0..MaxLen /\ str[v].by \in 0..MaxBy /\ str[v].cap \in Nat
       /\ str[v].buf \in {Null} \union [0..str[v].cap -> Bytes]

\* Whatever was called before, a buffer has a place for the length and every
\* byte behind the text is NUL; only an empty string has none.  c_str() is
\* terminated, resize() shows NULs, and reading too far in insert() and
\* replace() ends at a NUL of the buffer (String.hpp:1065-1206, 1734-1895).
ZeroTail ==
  \A v \in Strings :
    IF str[v].buf = Null THEN str[v].len = 0 /\ str[v].cap = 0
    ELSE /\ str[v].len <= str[v].cap
         /\ \A i \in str[v].len..str[v].cap : str[v].buf[i] = NUL

\* A call goes wrong in memory in three ways only.  It follows the null pointer
\* of a string that is empty: one that was copied from an empty one, made from no
\* text, or moved from.  It reads what it has deleted itself, of a string that is
\* its own argument and has to grow.  Or it is asked for all from a position on,
\* and that lies behind the text in which npos is counted, which is the one of the
\* string that is called, or that is being made, not the one the part is of: it
\* leaves its buffer, or asks for one of almost all addresses.  No other length
\* gets a position that is too large past the test, and nothing within the texts
\* goes wrong (String.hpp:579, 1065, 1150-1227, 1837-1848, 1888).
HaltCauses ==
  [][LET v == asked'.v IN
     /\ halt' = "null"      => Live(v) /\ str[v].buf = Null /\ str[v].len = 0
     /\ halt' = "freed"     => str[v].len > 0 /\ str[v].cap <= 2 * str[v].len
     /\ halt' = "bounds"    => asked'.len = npos /\ asked'.from > str[v].len
     /\ halt' = "bad_alloc" => asked'.len = npos /\ asked'.from > str[v].len + 1
    ]_vars

SearchSound(s, w) ==
  LET t  == Text(s)
      At == {i \in 0..(s.len - 1) : i + Len(w) <= s.len /\ SubSeq(t, i + 1, i + Len(w)) = w}
      In(isTrue) == {i \in 0..(s.len - 1) : (\E k \in 1..Len(w) : t[i + 1] = w[k]) = isTrue}
      First(S) == IF S = {} THEN npos ELSE Min(S)
      Last(S)  == IF S = {} THEN npos ELSE Max(S)
  IN  /\ \A pos \in 0..s.len :
           /\ Len(w) <= s.len => Find(s, w, pos) = First({i \in At : i >= pos})
           /\ s.cap < Wrap(s.len - Len(w)) /\ s.len < Len(w) => Find(s, w, pos) = Beyond
           /\ Rfind(s, w, pos) = Last({i \in At : i <= pos})
           /\ \A isTrue \in BOOLEAN :
                /\ FindFirstOf(s, w, pos, isTrue) = First({i \in In(isTrue) : i >= pos})
                /\ pos < s.len => FindLastOf(s, w, pos, isTrue) = Last({i \in In(isTrue) : i <= pos})
      /\ Rfind(s, w, npos) = Last(At)
      /\ \A isTrue \in BOOLEAN : FindLastOf(s, w, npos, isTrue) = Last(In(isTrue))

ComparisonSound(s, t) ==
  /\ Order(s, t) = 0 <=> Text(s) = Text(t)
  /\ Order(s, t) = 1 <=> Order(t, s) = -1

\* A search for characters that the text may hold finds the first occurrence
\* from pos on, or the last one up to it, although it compares bytes behind
\* the text (String.hpp:1465-1612).  find() of what is longer than the text does
\* not: its last position wraps around, and it always reads beyond the buffer.
\* Strings without a NUL in them compare equal exactly if they have the same
\* text, whatever their buffers have been through, and if one is less than the
\* other, that one is greater (String.hpp:562-581).
QueriesSound ==
  LET held  == {s \in {str[v] : v \in Strings} : s.buf # Null}
      plain == {s \in held : CString(Text(s)) = Text(s)}
  IN  /\ \A s \in held, w \in Inputs \ {<<>>} : SearchSound(s, w)
      /\ \A s, t \in plain : ComparisonSound(s, t)

Texts == [v \in {u \in Strings : Live(u)} |-> Text(str[v])]

Abstract == INSTANCE StringValues WITH text <- Texts

\* A call does to the text of its string what it was asked to and nothing to any
\* other text, wherever the buffers are; in particular no byte from behind the
\* buffer gets into a text.  It does not hold of strings that are their own
\* argument, of parts of another string up to npos, and of a character in front
\* of a string (String.hpp:1103, 1187, 1209, 2666).
ImplementsStringValues == Abstract!Spec

=============================================================================
