---------------------------- MODULE Exceptions ----------------------------
(***************************************************************************)
(* NSTD::CallStackFrame and NSTD::Exception, with the vectors of frames    *)
(* that exceptions carry, as far as the ownership of their texts goes.     *)
(*                                                                         *)
(* Both classes lay their texts out in one buffer and keep pointers into   *)
(* it.  Fields are numbered in the order of _copy_values(): function,      *)
(* file, line; thread_id, thread_name, code, message, at.  A pointer is an *)
(* offset or Null.  A block of the heap is a buffer [size, str], where     *)
(* str[p] is the text written at offset p, if any, or a vector of frames   *)
(* on the heap.  A vector is [cells, v_size]: the frames of its array,     *)
(* including those from v_size on, which are still constructed.  Its array *)
(* itself is the subject of Vector.tla; here vectors have fewer than 8     *)
(* frames and are not given a size.                                        *)
(*                                                                         *)
(* Reading a text or a frame that is deleted is undefined: `dangling` is   *)
(* then the object that was changed and the one that was read, and the     *)
(* model stops there.                                                      *)
(***************************************************************************)
EXTENDS Integers, Sequences, FiniteSets

CONSTANTS Frames, Stacks, Exceptions,  \* the variables of the program
          FrameArgs, ExceptionArgs,    \* texts given to the constructors
          Signals,                     \* signal numbers given to Exception()
          Length,                      \* Length[s]: what strlen( s ) returns
          None,                        \* a null pointer instead of a text
          Blocks,                      \* bound: addresses of the heap
          MaxFrames                    \* bound: frames of a vector

Null == -1

ASSUME ArgsAssumption ==
  /\ FrameArgs \subseteq [1..3 -> DOMAIN Length \union {None}]
  /\ ExceptionArgs \subseteq [1..5 -> DOMAIN Length \union {None}]
  /\ Length \in [DOMAIN Length -> Nat] /\ None \notin DOMAIN Length
  /\ Signals \subseteq Int /\ Blocks \subseteq Nat /\ MaxFrames \in 1..7

VARIABLES heap, frame, stack, exception, dangling

vars == <<heap, frame, stack, exception, dangling>>

Absent  == [absent |-> TRUE]
Live(x) == x # Absent

-----------------------------------------------------------------------------
(* The buffer of texts *)

\* Sums(r)[i] is the sum of the first i numbers of r.
Sums(r) == LET upto[i \in 0..Len(r)] == IF i = 0 THEN 0 ELSE upto[i - 1] + r[i] IN upto

\* A field whose text is null or empty has no pointer, but an empty one has room.
Held(w, i) == w[i] # None /\ Length[w[i]] > 0
Room(w, i) == IF w[i] = None THEN 0 ELSE Length[w[i]] + 1
Total(w)   == Sums([i \in DOMAIN w |-> Room(w, i)])[Len(w)]

\* Slip: no room is left for the terminating zero.
OffsetPacked(w, i) == Sums([j \in DOMAIN w |-> IF Held(w, j) THEN Length[w[j]] ELSE 0])[i - 1]

Offset(w, i) == Sums([j \in DOMAIN w |-> IF Held(w, j) THEN Room(w, j) ELSE 0])[i - 1]

Pointers(w) == [i \in DOMAIN w |-> IF Held(w, i) THEN Offset(w, i) ELSE Null]
Buffer(w)   == [size |-> Total(w),
                str  |-> [p \in 0..(Total(w) - 1) |->
                            IF \E i \in DOMAIN w : Held(w, i) /\ Offset(w, i) = p
                            THEN w[CHOOSE i \in DOMAIN w : Held(w, i) /\ Offset(w, i) = p]
                            ELSE None]]

\* _clear_values()
NoTexts(n) == [ptr |-> [i \in 1..n |-> Null], buffer |-> Null, buffer_total_size |-> 0]

\* The pointers of an object whose texts w are in the block b, if it needs one.
Laid(w, b) == [ptr |-> Pointers(w), buffer |-> IF Total(w) = 0 THEN Null ELSE b,
               buffer_total_size |-> Total(w)]

\* Addresses that `new` gives to blocks with the names S.  Which they are does not
\* matter, so there is one choice; on a full heap there is none (bound).
New(h, S) ==
  LET given     == [S -> Blocks \ DOMAIN h]
      apart(at) == \A i, j \in S : at[i] = at[j] => i = j
  IN  IF \E at \in given : apart(at) THEN {CHOOSE at \in given : apart(at)} ELSE {}
NewBlock(h) == {at[1] : at \in New(h, {1})}

With(h, b, x) == [c \in DOMAIN h \union {b} |-> IF c = b THEN x ELSE h[c]]
Free(h, bs)   == [b \in DOMAIN h \ bs |-> h[b]]
Clear(h, o)   == Free(h, {o.buffer})

\* The texts o points to, and whether they can be read.
Words(h, o) == [i \in DOMAIN o.ptr |-> IF o.ptr[i] = Null THEN None ELSE h[o.buffer].str[o.ptr[i]]]
Readable(h, o) == o.buffer \in DOMAIN h \/ \A i \in DOMAIN o.ptr : o.ptr[i] = Null

\* _copy_values() into a block b of an object that has been cleared: the heap.
Written(h, w, b) == IF Total(w) = 0 THEN h ELSE With(h, b, Buffer(w))

-----------------------------------------------------------------------------
(* Frames *)

NoFrame == NoTexts(3)

Init == /\ heap = <<>>
        /\ frame = [f \in Frames |-> Absent]
        /\ stack = [s \in Stacks |-> Absent]
        /\ exception = [e \in Exceptions |-> Absent]
        /\ dangling = <<>>

Dangle(x, y) == dangling' = <<x, y>> /\ UNCHANGED <<heap, frame, stack, exception>>

\* Frame f, which was o, gets the texts w, which are read after it was cleared.
SetFrame(f, o, w) ==
  \E b \in NewBlock(Clear(heap, o)) :
    /\ heap' = Written(Clear(heap, o), w, b)
    /\ frame' = [frame EXCEPT ![f] = Laid(w, b)]
    /\ UNCHANGED <<stack, exception, dangling>>

\* CallStackFrame( function, file, line ); the default constructor is that of nulls.
NewFrame(f, a) == ~ Live(frame[f]) /\ SetFrame(f, NoFrame, a)

\* CallStackFrame( copy ), from a reference or a pointer.
CopyFrame(f, g) == /\ ~ Live(frame[f]) /\ Live(frame[g])
                   /\ SetFrame(f, NoFrame, Words(heap, frame[g]))

\* CallStackFrame( CallStackFrame && )
TakeFrame(f, g) ==
  /\ ~ Live(frame[f]) /\ Live(frame[g])
  /\ frame' = [frame EXCEPT ![f] = frame[g], ![g] = NoFrame]
  /\ UNCHANGED <<heap, stack, exception, dangling>>

\* operator=( const CallStackFrame & ): f is cleared before the texts of g are read.
AssignFrame(f, g) ==
  /\ Live(frame[f]) /\ Live(frame[g])
  /\ IF Readable(Clear(heap, frame[f]), frame[g])
     THEN SetFrame(f, frame[f], Words(heap, frame[g])) ELSE Dangle(f, g)

\* operator=( CallStackFrame && ), _move_values()
SwapFrames(f, g) ==
  /\ Live(frame[f]) /\ Live(frame[g])
  /\ frame' = [frame EXCEPT ![f] = frame[g], ![g] = frame[f]]
  /\ UNCHANGED <<heap, stack, exception, dangling>>

DropFrame(f) ==
  /\ Live(frame[f])
  /\ heap' = Clear(heap, frame[f])
  /\ frame' = [frame EXCEPT ![f] = Absent]
  /\ UNCHANGED <<stack, exception, dangling>>

-----------------------------------------------------------------------------
(* Vectors of frames *)

NoStack  == [cells |-> <<>>, v_size |-> 0]
Full(v)  == v.v_size = Len(v.cells)

Values(h, v) == [i \in 1..v.v_size |-> Words(h, v.cells[i])]

\* The frames of v that have texts, and a new array of cap with copies of all of
\* them in its first cells, whose texts are at `at`.
Filled(h, v) == {i \in 1..v.v_size : Total(Values(h, v)[i]) > 0}
CopyCells(h, v, cap, at) ==
  [heap  |-> [b \in DOMAIN h \union {at[i] : i \in DOMAIN at} |->
                IF b \in DOMAIN h THEN h[b]
                ELSE Buffer(Values(h, v)[CHOOSE i \in DOMAIN at : at[i] = b])],
   cells |-> [i \in 1..cap |-> IF i \in DOMAIN at THEN Laid(Values(h, v)[i], at[i]) ELSE NoFrame]]

\* delete [] values destroys every frame of the array.
FreeCells(h, v) == Free(h, {v.cells[i].buffer : i \in DOMAIN v.cells})

\* reallocate(), with the capacity raised by one, if v is full.
Relocated(h, v) == IF Full(v) THEN Filled(h, v) ELSE {}
Grow(h, v, at) ==
  IF ~ Full(v) THEN [heap |-> h, cells |-> v.cells]
  ELSE LET r == CopyCells(h, v, Len(v.cells) + 1, at) IN
         [heap |-> FreeCells(r.heap, v), cells |-> r.cells]

\* The temporary frame `new` is swapped into the cell after the last frame, and
\* destroyed with what that cell held.
EmplaceBack(s, cells, h, new) ==
  LET n == stack[s].v_size + 1 IN
    /\ heap' = Clear(h, cells[n])
    /\ stack' = [stack EXCEPT ![s] = [cells |-> [cells EXCEPT ![n] = new], v_size |-> n]]
    /\ UNCHANGED <<exception, dangling>>

\* The temporary frame is a copy with the texts w.
EmplaceCopy(s, grown, w) ==
  \E b \in NewBlock(grown.heap) : EmplaceBack(s, grown.cells, Written(grown.heap, w, b), Laid(w, b))

CanGrow(s) == Live(stack[s]) /\ stack[s].v_size < MaxFrames

\* push_back( const CallStackFrame & ) of a frame outside the vector.
PushCopy(s, f) ==
  /\ CanGrow(s) /\ Live(frame[f])
  /\ \E at \in New(heap, Relocated(heap, stack[s])) :
       EmplaceCopy(s, Grow(heap, stack[s], at), Words(heap, frame[f]))
  /\ UNCHANGED frame

\* push_back( CallStackFrame && )
PushMove(s, f) ==
  /\ CanGrow(s) /\ Live(frame[f])
  /\ \E at \in New(heap, Relocated(heap, stack[s])) :
       LET grown == Grow(heap, stack[s], at) IN EmplaceBack(s, grown.cells, grown.heap, frame[f])
  /\ frame' = [frame EXCEPT ![f] = NoFrame]

\* push_back( v[ i ] ): reallocate() deletes the frame that is then copied.
PushOwn(s, i) ==
  /\ CanGrow(s) /\ i \in 1..stack[s].v_size
  /\ \/ Full(stack[s]) /\ Dangle(s, s)
     \/ /\ ~ Full(stack[s])
        /\ EmplaceCopy(s, [heap |-> heap, cells |-> stack[s].cells], Words(heap, stack[s].cells[i]))
        /\ UNCHANGED frame

NewStack(s) ==
  /\ ~ Live(stack[s])
  /\ stack' = [stack EXCEPT ![s] = NoStack]
  /\ UNCHANGED <<heap, frame, exception, dangling>>

\* Vector( const Vector * ) of the call stack that get_call_stack() returns.
CopyStack(s, e) ==
  /\ ~ Live(stack[s]) /\ Live(exception[e]) /\ exception[e].call_stack # Null
  /\ LET v == heap[exception[e].call_stack] IN
       \E at \in New(heap, Filled(heap, v)) :
         LET r == CopyCells(heap, v, Len(v.cells), at) IN
           /\ heap' = r.heap
           /\ stack' = [stack EXCEPT ![s] = [cells |-> r.cells, v_size |-> v.v_size]]
  /\ UNCHANGED <<frame, exception, dangling>>

\* pop_back() and clear() only change the size.
Shorten(s, n) ==
  /\ Live(stack[s]) /\ n < stack[s].v_size
  /\ stack' = [stack EXCEPT ![s].v_size = n]
  /\ UNCHANGED <<heap, frame, exception, dangling>>

DropStack(s) ==
  /\ Live(stack[s])
  /\ heap' = FreeCells(heap, stack[s])
  /\ stack' = [stack EXCEPT ![s] = Absent]
  /\ UNCHANGED <<frame, exception, dangling>>

-----------------------------------------------------------------------------
(* Exceptions *)

NoException == [texts |-> NoTexts(5), signal |-> 0, call_stack |-> Null]

\* Slip: the call stack is not deleted.
ClearExceptionKeeps(h, x) == Clear(h, x.texts)

\* _clear_values(): the buffer and the vector are deleted.
ClearException(h, x) ==
  LET h1 == Clear(h, x.texts) IN
    IF x.call_stack = Null THEN h1 ELSE Free(FreeCells(h1, h1[x.call_stack]), {x.call_stack})

\* Slip: the number is kept as it comes.
Uint16Wide(n) == n

\* `signal` is a uint16_t, the parameter an int.
Uint16(n) == n % 2^16

\* _copy_values() of an exception that was x: e gets texts, signal and a vector
\* of copies of the frames of v, unless v has none.
SetException(e, x, w, sig, v) ==
  \E b \in NewBlock(ClearException(heap, x)) :
    LET h == Written(ClearException(heap, x), w, b) IN
      \E at \in New(h, Filled(h, v)) :
        LET r == CopyCells(h, v, Len(v.cells), at) IN
          \E d \in NewBlock(r.heap) :
            /\ heap' = IF v.v_size = 0 THEN h
                       ELSE With(r.heap, d, [cells |-> r.cells, v_size |-> v.v_size])
            /\ exception' = [exception EXCEPT ![e] =
                              [texts |-> Laid(w, b), signal |-> Uint16(sig),
                               call_stack |-> IF v.v_size = 0 THEN Null ELSE d]]
            /\ UNCHANGED <<frame, stack, dangling>>

\* Exception( thread_id, ..., call_stack ), with a vector or a null pointer.
NewException(e, a, sig, v) == ~ Live(exception[e]) /\ SetException(e, NoException, a, sig, v)

\* The call stack of x as a vector, empty for a null pointer.
Carried(x) == IF x.call_stack = Null THEN NoStack ELSE heap[x.call_stack]

\* Slip: the copy takes the pointers.
CopyExceptionPointers(e, g) ==
  /\ ~ Live(exception[e]) /\ Live(exception[g])
  /\ exception' = [exception EXCEPT ![e] = exception[g]]
  /\ UNCHANGED <<heap, frame, stack, dangling>>

\* Exception( copy ), from a reference or a pointer.
CopyException(e, g) ==
  /\ ~ Live(exception[e]) /\ Live(exception[g])
  /\ LET source == exception[g] IN
       SetException(e, NoException, Words(heap, source.texts), source.signal, Carried(source))

\* Exception( Exception && )
TakeException(e, g) ==
  /\ ~ Live(exception[e]) /\ Live(exception[g])
  /\ exception' = [exception EXCEPT ![e] = exception[g], ![g] = NoException]
  /\ UNCHANGED <<heap, frame, stack, dangling>>

\* operator=( const Exception & ): e is cleared before the members of g are read.
AssignException(e, g) ==
  /\ Live(exception[e]) /\ Live(exception[g])
  /\ LET h == ClearException(heap, exception[e])
         source == exception[g]
     IN  IF Readable(h, source.texts) /\ source.call_stack \in DOMAIN h \union {Null}
         THEN SetException(e, exception[e], Words(heap, source.texts),
                           source.signal, Carried(source))
         ELSE Dangle(e, g)

\* Slip: the signals stay where they are.
SwapButSignal(e, g) ==
  /\ Live(exception[e]) /\ Live(exception[g])
  /\ exception' = [exception EXCEPT ![e] = [exception[g] EXCEPT !.signal = exception[e].signal],
                                   ![g] = [exception[e] EXCEPT !.signal = exception[g].signal]]
  /\ UNCHANGED <<heap, frame, stack, dangling>>

\* operator=( Exception && ), _move_values()
SwapExceptions(e, g) ==
  /\ Live(exception[e]) /\ Live(exception[g])
  /\ exception' = [exception EXCEPT ![e] = exception[g], ![g] = exception[e]]
  /\ UNCHANGED <<heap, frame, stack, dangling>>

DropException(e) ==
  /\ Live(exception[e])
  /\ heap' = ClearException(heap, exception[e])
  /\ exception' = [exception EXCEPT ![e] = Absent]
  /\ UNCHANGED <<frame, stack, dangling>>

-----------------------------------------------------------------------------

FrameStep ==
  \E f \in Frames :
    \/ \E a \in FrameArgs : NewFrame(f, a)
    \/ \E g \in Frames : CopyFrame(f, g) \/ TakeFrame(f, g) \/ AssignFrame(f, g) \/ SwapFrames(f, g)
    \/ DropFrame(f)

StackStep ==
  \E s \in Stacks :
    \/ NewStack(s) \/ DropStack(s)
    \/ \E f \in Frames : PushCopy(s, f) \/ PushMove(s, f)
    \/ \E i \in 1..MaxFrames : PushOwn(s, i)
    \/ \E n \in 0..MaxFrames : Shorten(s, n)
    \/ \E e \in Exceptions : CopyStack(s, e)

ExceptionStep ==
  \E e \in Exceptions :
    \/ \E a \in ExceptionArgs, sig \in Signals,
          v \in {NoStack} \union {stack[s] : s \in {t \in Stacks : Live(stack[t])}} :
         NewException(e, a, sig, v)
    \/ \E g \in Exceptions : \/ CopyException(e, g) \/ TakeException(e, g)
                            \/ AssignException(e, g) \/ SwapExceptions(e, g)
    \/ DropException(e)

Stop == dangling # <<>> /\ UNCHANGED vars

Next == \/ dangling = <<>> /\ (FrameStep \/ StackStep \/ ExceptionStep)
        \/ Stop

Spec == Init /\ [][Next]_vars

-----------------------------------------------------------------------------
(* Properties *)

Texts(n)  == [ptr : [1..n -> Nat \union {Null}], buffer : Blocks \union {Null}, buffer_total_size : Nat]
Vectors   == [cells : Seq(Texts(3)), v_size : 0..MaxFrames]
IsVector(b) == "cells" \in DOMAIN b

IsBuffer(b) == b.size \in Nat /\ b.str \in [0..(b.size - 1) -> DOMAIN Length \union {None}]

TypeOK ==
  /\ DOMAIN heap \subseteq Blocks
  /\ \A b \in DOMAIN heap : IF IsVector(heap[b]) THEN heap[b] \in Vectors ELSE IsBuffer(heap[b])
  /\ \A f \in Frames : frame[f] \in Texts(3) \union {Absent}
  /\ \A s \in Stacks : stack[s] \in Vectors \union {Absent}
  /\ \A e \in Exceptions : Live(exception[e]) =>
       /\ exception[e].texts \in Texts(5)
       /\ exception[e].signal \in 0..(2^16 - 1)
       /\ exception[e].call_stack \in Blocks \union {Null}

\* Every pointer that owns a block, with whose it is: a frame, a cell of a
\* vector that is a variable or on the heap, or an exception, which has two.
CellOwners(name, v) == {<<name, i, v.cells[i].buffer>> : i \in DOMAIN v.cells}
Alive(fun) == {x \in DOMAIN fun : Live(fun[x])}
VectorBlocks == {b \in DOMAIN heap : IsVector(heap[b])}
FrameOwners  == {<<<<"frame", f>>, 0, frame[f].buffer>> : f \in Alive(frame)}
StackOwners  == UNION {CellOwners(<<"stack", s>>, stack[s]) : s \in Alive(stack)}
BufferOwners == {<<<<"exception", e>>, 0, exception[e].texts.buffer>> : e \in Alive(exception)}
VectorOwners == {<<<<"exception", e>>, 1, exception[e].call_stack>> : e \in Alive(exception)}
HeapOwners   == UNION {CellOwners(<<"heap", b>>, heap[b]) : b \in VectorBlocks}
Owners == FrameOwners \union StackOwners \union BufferOwners \union VectorOwners \union HeapOwners

\* Every buffer and every vector on the heap has exactly one owner, and nobody
\* owns a deleted one: whatever is copied, moved, assigned, pushed or destroyed,
\* nothing leaks, is deleted twice or is used after it was deleted
\* (CallStackFrame.hpp:352-427, 472-480, 616-625; Exception.hpp:467-528, 768-787, 842-856).
OwnTexts ==
  /\ \A b \in DOMAIN heap : Cardinality({o \in Owners : o[3] = b}) = 1
  /\ \A o \in Owners : o[3] # Null => o[3] \in DOMAIN heap

Cells(v) == {v.cells[i] : i \in DOMAIN v.cells}
FrameTexts     == {frame[f] : f \in Alive(frame)}
ExceptionTexts == {exception[e].texts : e \in Alive(exception)}
StackTexts     == UNION {Cells(stack[s]) : s \in Alive(stack)}
HeapTexts      == UNION {Cells(heap[b]) : b \in VectorBlocks}
AllTexts == FrameTexts \union ExceptionTexts \union StackTexts \union HeapTexts

\* The texts of an object lie apart in its buffer: each ends, with its zero,
\* inside the buffer and before the next one begins, also when some are null or
\* empty (CallStackFrame.hpp:442-570, Exception.hpp:586-766).
FieldsApart ==
  \A o \in AllTexts : o.buffer # Null =>
    LET b == heap[o.buffer]
        last(p) == p + Length[b.str[p]]
    IN  /\ b.size = o.buffer_total_size
        /\ \A i \in DOMAIN o.ptr : o.ptr[i] # Null =>
             /\ last(o.ptr[i]) < b.size
             /\ \A j \in DOMAIN o.ptr : o.ptr[j] > o.ptr[i] => last(o.ptr[i]) < o.ptr[j]
             /\ \A j \in DOMAIN o.ptr : o.ptr[j] = o.ptr[i] => j = i

\* What is deleted is only ever read when an object is its own source: assigned
\* to itself, or pushed from a full vector into that vector.  No sequence of
\* other calls gets there (CallStackFrame.hpp:208, 440; Exception.hpp:291, 596; Vector.hpp:693-697).
OnlySelfDangles == dangling # <<>> => dangling[1] = dangling[2]

\* What the objects that exist show of the heap.
FrameViews     == [f \in Alive(frame) |-> Words(heap, frame[f])]
StackViews     == [s \in Alive(stack) |-> Values(heap, stack[s])]
ExceptionViews == [e \in Alive(exception) |->
                     [texts      |-> Words(heap, exception[e].texts),
                      signal     |-> exception[e].signal,
                      call_stack |-> Values(heap, Carried(exception[e]))]]

Abstract == INSTANCE ExceptionValues WITH
  frames <- FrameViews, stacks <- StackViews, exceptions <- ExceptionViews

\* Frames and exceptions behave as values: a copy is equal to its source and
\* independent of it, down to the frames of the call stack, and a moved-from
\* object is empty (CallStackFrame.hpp:79-162, 197-247; Exception.hpp:136-239, 280-336).
ImplementsExceptionValues == Abstract!Spec

=============================================================================
