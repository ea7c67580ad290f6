---------------------------- MODULE Indentation ----------------------------
(***************************************************************************)
(* __INC_INDENT and __DEC_INDENT of CommonMacros.hpp, which the functions  *)
(* of Vector.hpp, CallStackFrame.hpp and Exception.hpp begin and end with: *)
(* an atomic counter, and a buffer of blanks of that length.  All threads  *)
(* share both, and the index of a write is read from the counter before    *)
(* the counter is changed.                                                 *)
(***************************************************************************)
EXTENDS Integers, FiniteSets

CONSTANTS Threads,
          BufferSize,   \* 150 in the code
          MaxCalls      \* bound: calls that have indented and not ended

VARIABLES indent,       \* call_left_indent
          blanks,       \* the bytes of call_left_indent_buffer that are ' '; the rest are 0
          macro,        \* macro[t]: where the thread is in one of the two macros
          depth,        \* depth[t]: calls of the thread that have indented and not ended
          lost,         \* calls that longjmp() has left without their __DEC_INDENT
          overrun,      \* a write has left the buffer
          peak,         \* the most calls there ever were at a time (history)
          disturbed     \* a macro or init() has met another thread's (history)

indentVars == <<indent, blanks, macro, depth, lost, overrun, peak, disturbed>>

ASSUME IndentAssumption == IsFiniteSet(Threads) /\ BufferSize \in Nat

IndentBy == 2
Out    == <<"out", 0>>
BufferBytes == 0..(BufferSize - 1)

IndentInit ==
  /\ indent = 0 /\ blanks = {}
  /\ macro = [t \in Threads |-> Out]
  /\ depth = [t \in Threads |-> 0] /\ lost = 0
  /\ overrun = FALSE
  /\ peak = 0 /\ disturbed = FALSE

\* The calls that have indented and not ended, by thread and depth, and how
\* many hold an indentation or are about to.
Held   == UNION {{t} \X (1..depth[t]) : t \in Threads}
Adding == {t \in Threads : macro[t][1] = "add"}
Calls  == Cardinality(Held) + lost + Cardinality(Adding)

Moves(t, from, to) == macro[t][1] = from /\ macro' = [macro EXCEPT ![t] = to]

\* A write of the whole buffer or of a part, by t.
Wrote(t, bytes, after) ==
  /\ overrun' = (overrun \/ ~ bytes \subseteq BufferBytes)
  /\ blanks' = after \intersect BufferBytes
  /\ disturbed' = (disturbed \/ \E u \in Threads \ {t} : macro[u] # Out)

\* memset( buffer + indent, ' ', 2 )
IncWrite(t) ==
  /\ Moves(t, "out", <<"add", 0>>)
  /\ Calls < MaxCalls
  /\ LET bytes == indent..(indent + IndentBy - 1) IN Wrote(t, bytes, blanks \union bytes)
  /\ peak' = IF Calls < peak THEN peak ELSE Calls + 1
  /\ UNCHANGED <<indent, depth, lost>>

\* call_left_indent += 2
IncAdd(t) ==
  /\ Moves(t, "add", Out)
  /\ indent' = indent + IndentBy
  /\ depth' = [depth EXCEPT ![t] = @ + 1]
  /\ UNCHANGED <<blanks, lost, overrun, peak, disturbed>>

\* The two arguments of memset() are read from the counter one after the other,
DecRead(t) ==
  /\ depth[t] > 0
  /\ Moves(t, "out", <<"clear", indent>>)
  /\ disturbed' = (disturbed \/ \E u \in Threads \ {t} : macro[u] # Out)
  /\ UNCHANGED <<indent, blanks, depth, lost, overrun, peak>>

\* Slip: the indentation that is to stay is cleared with the rest.
DecWriteAll(t) ==
  /\ Moves(t, "clear", <<"sub", 0>>)
  /\ LET bytes == 0..(macro[t][2] - 1) IN Wrote(t, bytes, blanks \ bytes)
  /\ UNCHANGED <<indent, depth, lost, peak>>

\* in an order that is not specified; the length is the whole indentation and
\* not the 2 bytes that go.
DecWrite(t) ==
  /\ Moves(t, "clear", <<"sub", 0>>)
  /\ \E arguments \in {<<macro[t][2], indent>>, <<indent, macro[t][2]>>} :
       LET first == arguments[1] - IndentBy
           bytes == first..(first + arguments[2] - 1)
       IN  Wrote(t, bytes, blanks \ bytes)
  /\ UNCHANGED <<indent, depth, lost, peak>>

\* call_left_indent -= 2
DecSub(t) ==
  /\ Moves(t, "sub", Out)
  /\ indent' = indent - IndentBy
  /\ depth' = [depth EXCEPT ![t] = @ - 1]
  /\ UNCHANGED <<blanks, lost, overrun, peak, disturbed>>

\* A fault in a nested call leads back to a guarded function, outside `n` calls.
Abandon(t, n) ==
  /\ macro[t] = Out /\ n \in 1..depth[t]
  /\ depth' = [depth EXCEPT ![t] = @ - n]
  /\ lost' = lost + n
  /\ UNCHANGED <<indent, blanks, macro, overrun, peak, disturbed>>

\* CommonUtilities::init(), which every thread begins with: the buffer is
\* cleared, and the counter stays.
ClearBuffer(t) ==
  /\ macro[t] = Out /\ depth[t] = 0
  /\ blanks' = {}
  /\ disturbed' = (disturbed \/ indent > 0 \/ \E u \in Threads \ {t} : macro[u] # Out)
  /\ UNCHANGED <<indent, macro, depth, lost, overrun, peak>>

IndentNext ==
  \/ ~ overrun /\ \E t \in Threads :
       \/ IncWrite(t) \/ IncAdd(t) \/ DecRead(t) \/ DecWrite(t) \/ DecSub(t) \/ ClearBuffer(t)
       \/ \E n \in 1..MaxCalls : Abandon(t, n)
  \/ overrun /\ UNCHANGED indentVars

IndentSpec == IndentInit /\ [][IndentNext]_indentVars

-----------------------------------------------------------------------------
(* Properties *)

\* However the threads interleave, the counter is two for every call that has
\* indented and not taken it back, those that longjmp() left included, and no
\* write leaves the buffer unless so many calls were active at a time that the
\* whole indentation, counted from the last call's, is longer than the buffer:
\* 39 of them for its 150 bytes.  The buffer shows the counter where threads do
\* not meet in a macro and none starts while another is indented
\* (CommonMacros.hpp:6-15, CommonUtilities.hpp:31).
IndentSound ==
  /\ indent = IndentBy * (Cardinality(Held) + lost)
  /\ overrun => 2 * IndentBy * peak - IndentBy > BufferSize
  /\ ~ overrun /\ ~ disturbed /\ (\A t \in Threads : macro[t] = Out)
       => blanks = 0..(indent - 1)

=============================================================================
