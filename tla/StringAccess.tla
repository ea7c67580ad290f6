---------------------------- MODULE StringAccess ----------------------------
(***************************************************************************)
(* What a caller holds of a String (String.hpp): an element, an iterator,  *)
(* or a stream that is being read into it, while the string goes on being  *)
(* changed.                                                                *)
(*                                                                         *)
(* An iterator is a pointer to the buffer, as it was when the iterator was *)
(* made, a pointer to the length, which is a member of the string, and a   *)
(* position.  After a move or a swap the two point into different strings. *)
(* const_iterator and iterator are one kind here, and so are the reverse   *)
(* ones.                                                                   *)
(***************************************************************************)
EXTENDS String

CONSTANTS Streams,     \* what a stream may hold
          Delimiters,  \* sets of characters to read up to
          Steps,       \* the i of + i, - i and [ i ]
          Eof          \* the character that get() makes of the end: '\xff'

\* No string is one of the names for none, and a stream holds bytes.
ASSUME AccessAssumption ==
  /\ Strings \cap {"null", "deleted", "none"} = {}
  /\ Streams \subseteq Seq(Bytes) /\ Eof \in Bytes /\ Steps \subseteq Nat

VARIABLES it,          \* the iterator that the caller holds, or NoIterator
          stream       \* the stream: what is left, the string it is read into

accessVars == <<str, halt, asked, it, stream>>

NoIterator   == [kind |-> "none"]
\* String_iterator_type() as the compiler makes it.
NullIterator(kind) == [kind |-> kind, first |-> "null", size |-> "null", pos |-> 0]

Idle == [left |-> <<>>, into |-> "none", ends |-> {}]

AccessInit == Init /\ it = NoIterator /\ stream = Idle

-----------------------------------------------------------------------------
(* Element access and copy() *)

\* The byte at i of the buffer of s is followed.
Reference(s, i) ==
  IF s.buf = Null THEN Halt("null")
  ELSE IF i > s.cap THEN Halt("bounds")
  ELSE UNCHANGED <<str, halt, asked>>

\* operator[], front() and back(): no test, and the last one of none is at npos.
Element(v, i) == Live(v) /\ Reference(str[v], i)
Front(v) == Element(v, 0)
Back(v)  == Live(v) /\ Element(v, Wrap(str[v].len - 1))

\* at() throws without an exception, which ends the program.
At(v, i) == Live(v) /\ IF str[v].len <= i THEN Halt("terminate") ELSE Element(v, i)

\* copy(): the characters from pos on, of a length that is tested.
CopyOut(v, len, pos) ==
  /\ Live(v)
  /\ LET n == Length(str[v], pos, len) IN
       IF TooLong(str[v], str[v], pos, len) THEN Halt("terminate")
       ELSE IF n = 0 THEN UNCHANGED <<str, halt, asked>>
       ELSE Reference(str[v], IF pos > str[v].len THEN npos ELSE pos + n - 1)

-----------------------------------------------------------------------------
(* Positions: where an operator of an iterator leads in a text of n          *)
(* characters.  Throws is a `throw;` without an exception.                   *)

Throws == -1

\* Slip: end() is not reached.
IncrementShort(n, p) == IF p + 1 >= n THEN Throws ELSE p + 1

\* const_iterator: one step behind end() is not noticed.
Increment(n, p)   == IF p > n THEN Throws ELSE p + 1
Decrement(p)      == IF p = 0 THEN Throws ELSE p - 1
Add(n, p, i)      == IF Wrap(p + i) > n THEN Throws ELSE Wrap(p + i)
Subtract(p, i)    == IF p < i THEN Throws ELSE p - i

\* Reverse iterators stand at a position of the text, or behind all of it, at
\* the length: rbegin(), rend(), ++ and --.  Inside the text these are -- and ++
\* of the class that they derive from.
Rbegin(n) == Wrap(n - 1)
Rend(n)   == n
Ahead(n, p) ==
  IF p = 0 THEN n ELSE IF p = n THEN Throws ELSE Decrement(p)
Backward(n, p) ==
  IF p = n THEN 0 ELSE IF p + 1 = n THEN Throws ELSE Increment(n, p)

\* + and - of reverse iterators.  What + does when it arrives at rend() is not
\* to return an iterator, but to move the one it is called on.
AtRend == -2
AheadBy(n, p, i) ==
  IF p = n /\ i = 0 THEN Throws
  ELSE IF p = Wrap(i - 1) THEN AtRend
  ELSE IF p < Wrap(i - 1) THEN Throws
  ELSE Wrap(p - i)
BackBy(n, p, i) == IF n <= Wrap(p + i) THEN Throws ELSE Wrap(p + i)

-----------------------------------------------------------------------------
(* Iterators *)

Buffer(v) == IF str[v].buf = Null THEN "null" ELSE v
Iterator(kind, v, pos) == [kind |-> kind, first |-> Buffer(v), size |-> v, pos |-> pos]

\* begin(), end(), rbegin(), rend() and their const forms.
Begin(v) ==
  /\ Live(v)
  /\ it' \in {Iterator("forward", v, 0), Iterator("forward", v, str[v].len),
              Iterator("reverse", v, Rbegin(str[v].len)), Iterator("reverse", v, Rend(str[v].len))}
  /\ UNCHANGED <<str, halt, asked, stream>>

Fail(cause) == Halt(cause) /\ UNCHANGED <<it, stream>>

\* The length that the iterator points to, of a string that may be gone.
WithSize(then(_)) ==
  IF it.size = "null" THEN Fail("null")
  ELSE IF ~ Live(it.size) THEN Fail("freed")
  ELSE then(str[it.size].len)

Goto(p) ==
  IF p = Throws THEN Fail("terminate")
  ELSE it' = [it EXCEPT !.pos = p] /\ UNCHANGED <<str, halt, asked, stream>>

\* ++, --, + i and - i of an iterator, assigned to itself.
Step ==
  /\ it.kind = "forward"
  /\ \/ WithSize(LAMBDA n : Goto(Increment(n, it.pos)))
     \/ Goto(Decrement(it.pos))
StepBy(i) ==
  /\ it.kind = "forward"
  /\ WithSize(LAMBDA n : Goto(Add(n, it.pos, i))) \/ Goto(Subtract(it.pos, i))

ReverseStep ==
  /\ it.kind = "reverse"
  /\ WithSize(LAMBDA n : Goto(Ahead(n, it.pos)) \/ Goto(Backward(n, it.pos)))

\* The caller keeps the iterator that + returned, or the one it was called on.
ReverseStepBy(i) ==
  /\ it.kind = "reverse"
  /\ WithSize(LAMBDA n :
       \/ Goto(BackBy(n, it.pos, i))
       \/ IF AheadBy(n, it.pos, i) # AtRend THEN Goto(AheadBy(n, it.pos, i))
          ELSE /\ it' \in {[it EXCEPT !.pos = n], NullIterator("reverse")}
               /\ UNCHANGED <<str, halt, asked, stream>>)

\* The byte at offset i from where the iterator points to is followed.
Follow(i) ==
  /\ CASE it.first = "null"    -> Halt("null")
       [] it.first = "deleted" -> Halt("freed")
       [] OTHER                -> Reference(str[it.first], i)
  /\ UNCHANGED <<it, stream>>

\* *it, and it[ i ], whose i counts from the start of the text.
Retrieve == it # NoIterator /\ Follow(it.pos)
RandomAccess(i) ==
  /\ it # NoIterator
  /\ WithSize(LAMBDA n : IF i >= n THEN Fail("terminate") ELSE Follow(i))

\* *it = c, for a character of the text.
Write(c) ==
  /\ it # NoIterator /\ it.first \in Strings
  /\ LET v == it.first IN
       /\ it.pos < str[v].len
       /\ Becomes(v, [str[v] EXCEPT !.buf[it.pos] = c], it.pos, it.pos + 1, <<c>>)
  /\ UNCHANGED <<it, stream>>

-----------------------------------------------------------------------------
(* Calls that change a string, as the iterator sees them *)

\* The buffer of v stays where it is.
KeepsBuffer(v) == Live(v) /\ str'[v] # NoString /\ str[v].buf # Null /\ str'[v].cap = str[v].cap

\* The iterator after a call, in which no buffer changes hands.
Watched ==
  it' = IF it # NoIterator /\ it.first \in Strings /\ ~ KeepsBuffer(it.first)
        THEN [it EXCEPT !.first = "deleted"] ELSE it

Change(v) == (Construction(v) \/ Modification(v)) /\ Watched /\ UNCHANGED stream
ChangeBy(v, u) == Combination(v, u) /\ Watched /\ UNCHANGED stream

\* A move hands the buffer of u to v, which has deleted its own; a swap
\* exchanges them.  A string without a buffer has none to hand over.
HandOver(v, u) ==
  /\ Move(v, u)
  /\ it' = IF it = NoIterator THEN it
           ELSE [it EXCEPT !.first = CASE @ = u -> v [] @ = v -> "deleted" [] OTHER -> @]
  /\ UNCHANGED stream
Exchange(v, u) ==
  /\ Swap(v, u)
  /\ it' = IF it = NoIterator THEN it
           ELSE [it EXCEPT !.first = CASE @ = u -> v [] @ = v -> u [] OTHER -> @]
  /\ UNCHANGED stream

\* _getLength() of the iterator and v.end().  A deleted buffer may have been
\* allocated for v again.
WithLength(v, then(_)) ==
  \/ it.first # Buffer(v) /\ Halt("terminate")
  \/ /\ it.first = Buffer(v) \/ (it.first = "deleted" /\ str[v].buf # Null)
     /\ IF it.pos > str[v].len THEN Halt("terminate") ELSE then(str[v].len - it.pos)

\* erase( it ), insert( it, c ), insert( it, n, c ): of any string, with nothing
\* but the position of the iterator.  They return what they were given.
\* erase( it, v.end() ), replace( it, v.end(), w ), append( it, v.end() ).
ChangeAt(v) ==
  /\ it # NoIterator /\ Live(v)
  /\ \/ Erase(v, it.pos, 1)
     \/ \E w \in Inputs \ {<<>>} : Insert(v, it.pos, w)
     \/ WithLength(v, LAMBDA n : Erase(v, it.pos, n))
     \/ WithLength(v, LAMBDA n : \E w \in Inputs : Replace(v, it.pos, n, w))
  /\ Watched /\ UNCHANGED stream
AppendRange(u, v) ==
  /\ it # NoIterator /\ Live(v) /\ Live(u)
  /\ WithLength(v, LAMBDA n : AppendText(u, Slice(str[v].buf, it.pos, it.pos + n, NUL)))
  /\ Watched /\ UNCHANGED stream

-----------------------------------------------------------------------------
(* Streams *)

\* operator>> and getline(): the string is cleared,
StartReading(v, t, ends) ==
  /\ Clear(v) /\ Watched
  /\ stream' = [left |-> t, into |-> v, ends |-> ends]

\* Slip: the last character of a stream is not looked at.
NextCharMissed ==
  /\ stream.into # "none"
  /\ LET v == stream.into
         c == IF Len(stream.left) < 2 THEN Eof ELSE Head(stream.left) IN
       IF c \in stream.ends
       THEN stream' = Idle /\ UNCHANGED <<str, halt, asked, it>>
       ELSE IF str[v].len >= MaxLen THEN Fail("memory")
       ELSE /\ str' = [str EXCEPT ![v] = Put(@, <<c>>)]
            /\ stream' = [stream EXCEPT !.left = IF @ = <<>> THEN @ ELSE Tail(@)]
            /\ Watched /\ UNCHANGED <<halt, asked>>

\* and what get() returns is appended, until it is one of the delimiters.  The
\* end of the stream is a character like any other; a string of MaxLen is one
\* that fills the memory.
NextChar ==
  /\ stream.into # "none"
  /\ LET v == stream.into
         c == IF stream.left = <<>> THEN Eof ELSE Head(stream.left) IN
       IF c \in stream.ends
       THEN stream' = Idle /\ UNCHANGED <<str, halt, asked, it>>
       ELSE IF str[v].len >= MaxLen THEN Fail("memory")
       ELSE /\ str' = [str EXCEPT ![v] = Put(@, <<c>>)]
            /\ stream' = [stream EXCEPT !.left = IF @ = <<>> THEN @ ELSE Tail(@)]
            /\ Watched /\ UNCHANGED <<halt, asked>>

-----------------------------------------------------------------------------

Reading(v) ==
  /\ \/ Front(v) \/ Back(v)
     \/ \E i \in Places(v) : Element(v, i) \/ At(v, i)
     \/ \E pos \in Places(v), len \in Lengths : CopyOut(v, len, pos)
  /\ UNCHANGED <<it, stream>>

\* const_iterator and iterator; * and [ ] are those of reverse iterators, too.
Iteration ==
  \/ Step \/ Retrieve
  \/ \E i \in Steps : StepBy(i) \/ RandomAccess(i)
  \/ \E c \in Chars : Write(c)

\* const_reverse_iterator and reverse_iterator
ReverseIteration == ReverseStep \/ \E i \in Steps : ReverseStepBy(i)

Call ==
  \/ Iteration \/ ReverseIteration
  \/ \E v \in Strings :
       \/ Reading(v) \/ Begin(v) \/ Change(v) \/ ChangeAt(v)
       \/ \E t \in Streams, ends \in Delimiters : StartReading(v, t, ends)
       \/ \E u \in Strings : ChangeBy(v, u) \/ HandOver(v, u) \/ Exchange(v, u) \/ AppendRange(u, v)

Fetch == halt = "no" /\ NextChar

\* A call is over before the next one.
AccessNext ==
  \/ halt = "no" /\ stream.into = "none" /\ Call
  \/ Fetch
  \/ halt # "no" /\ UNCHANGED accessVars

AccessSpec == AccessInit /\ [][AccessNext]_accessVars /\ WF_accessVars(Fetch)

-----------------------------------------------------------------------------
(* Properties *)

\* An iterator stays good through every call whose text still has a place to
\* spare in the capacity, wherever in the text the call works: only growing,
\* giving capacity back, reserve() of more, a move into its string and the
\* destructor take the buffer away (String.hpp:1752-1835, 2002-2008).
IteratorsKept ==
  [][\A v \in Strings :
       (it # NoIterator /\ it.first = v /\ it'.first = "deleted") =>
         \/ ~ Live(v)'
         \/ \E u \in Strings \ {v} : str'[v] = Moved(str[v], str[u])
         \/ str'[v].len >= str[v].cap \/ CString(Text(str[v])) # Text(str[v])
         \/ str'[v].len = str[v].len /\ (str'[v].cap < str[v].cap \/ str'[v].cap \in Sizes)
    ]_accessVars

\* The places that ++ comes to, from begin() and from rbegin().
Forward(n)  == LET to[i \in 0..n] == IF i = 0 THEN 0 ELSE Increment(n, to[i - 1]) IN to
Reversed(n) == LET to[i \in 0..n] == IF i = 0 THEN Rbegin(n) ELSE Ahead(n, to[i - 1]) IN to

\* In a text of any length, ++ leads from begin() over every character once to
\* end(), and from rbegin() back over them to rend(); -- undoes it; + i and - i
\* go where i steps go.  A reverse + that arrives at rend() is told from all
\* others, since it does something else, and + 0 anywhere and - i at rend() end
\* the program although no step would (String.hpp:2163-2208, 2423-2506).
TraversalSound ==
  \A v \in Strings : Live(v) =>
    LET n    == str[v].len
        to   == Forward(n)
        from == Reversed(n)
    IN  /\ \A i \in 0..n : to[i] = i
        /\ \A i \in 1..n : Decrement(to[i]) = to[i - 1]
        /\ \A i, j \in 0..n : /\ Add(n, to[i], j) = IF i + j <= n THEN to[i + j] ELSE Throws
                              /\ Subtract(to[i], j) = IF j <= i THEN to[i - j] ELSE Throws
        /\ n > 0 =>
             /\ \A i \in 0..(n - 1) : from[i] = n - 1 - i
             /\ from[n] = Rend(n)
             /\ \A i \in 1..n : Backward(n, from[i]) = from[i - 1]
             /\ \A i \in 0..(n - 1), j \in 1..n :
                  /\ AheadBy(n, from[i], j) = IF i + j < n THEN from[i + j]
                                              ELSE IF i + j = n THEN AtRend ELSE Throws
                  /\ BackBy(n, from[i], j) = IF j <= i THEN from[i - j] ELSE Throws
             /\ AheadBy(n, Rbegin(n), 0) = Throws /\ BackBy(n, Rend(n), 1) = Throws

\* Reading a word or a line ends if there is a delimiter in what is left of the
\* stream (String.hpp:2690-2750).  Without one it does not: the end of the
\* stream is appended until there is no memory left.
Delimited == \E k \in 1..Len(stream.left) : stream.left[k] \in stream.ends
ReadingEnds ==
  /\ (halt = "no" /\ Delimited) ~> stream.into = "none"
  /\ (halt = "no" /\ stream.into # "none" /\ ~ Delimited /\ Eof \notin stream.ends)
       ~> halt = "memory"

=============================================================================
