-------------------------- MODULE CallStackSymbols --------------------------
(***************************************************************************)
(* get_call_stack_entries() and parse_addr_to_line_out() of                *)
(* SystemUtilities.hpp: the frames of a call stack, from what backtrace()  *)
(* and the program addr2line say of it.                                    *)
(*                                                                         *)
(* Texts are sequences of tokens; a token is what the code looks for, or a *)
(* name or a number that stays in one piece.                               *)
(***************************************************************************)
EXTENDS Integers, Sequences, FiniteSetsExt

CONSTANTS Compilers,      \* "clang" and "gcc", for which the code differs
          StackOffset,    \* 3 in the code: frames of the handler itself
          MaxFrames       \* bound: frames of a stack

\* The tokens that begin with a blank.
Bracket == " ["
AtFile  == " at "
Gap     == " "

\* What backtrace_symbols() gives for an address of the program: a place in an
\* exported function, one in the file, none, or not even the file.
Lines ==
  [exported |-> <<"main", "(", "run", "+", "0x5", ")", Bracket, "0xabc", "]">>,
   local    |-> <<"main", "(", "+", "0x5", ")", Bracket, "0xabc", "]">>,
   static   |-> <<"main", "(", ")", Bracket, "0xabc", "]">>,
   foreign  |-> <<"[", "0xabc", "]">>]

\* What addr2line knows of it: everything, the function, nothing; it may also
\* not be there, and print nothing, or popen() may have no process for it.
Answers ==
  [source   |-> <<"f()", AtFile, "main.cpp", ":", "12", "\n">>,
   function |-> <<"f()", AtFile, "??", ":", "?", "\n">>,
   nothing  |-> <<"??", Gap, "??", ":", "0", "\n">>,
   silent   |-> <<>>,
   failed   |-> <<>>]

VARIABLES compiler,    \* what the program was compiled with
          trace,       \* the stack: kind of line and kind of answer, of each frame
          index,       \* trace_index, or 0 before backtrace()
          result,      \* the frames that have been made
          state        \* "run", "done", "terminate" or "throw"

ASSUME StackAssumption == StackOffset \in Nat /\ MaxFrames \in Nat

symbolVars == <<compiler, trace, index, result, state>>

\* std::string: find() with -1 for npos, and substr() for a position in the text.
FindIn(text, token) ==
  LET hits == {i \in 1..Len(text) : text[i] = token} IN IF hits = {} THEN -1 ELSE Min(hits) - 1
SubstrOf(text, pos, len) ==
  SubSeq(text, pos + 1, IF len < 0 THEN Len(text) ELSE Min({pos + len, Len(text)}))
FindPair(text, token, token2) ==
  LET hits == {i \in 1..(Len(text) - 1) : text[i] = token /\ text[i + 1] = token2}
  IN  IF hits = {} THEN -1 ELSE Min(hits) - 1

-----------------------------------------------------------------------------

\* The file and the offset that addr2line is asked for; NoSymbol if the line is
\* left out.
NoSymbol == <<>>
GccSymbol(line) ==
  LET left == FindPair(line, "(", "+")
      right == FindPair(line, ")", Bracket)
  IN  IF left = -1 THEN NoSymbol
      ELSE <<SubstrOf(line, 0, left), SubstrOf(line, left + 2, right - (left + 2))>>
ClangSymbol(line) ==
  LET left   == FindIn(line, Bracket)
      file   == SubstrOf(line, 0, left)
      open   == FindIn(file, "(")
      close  == FindIn(file, ")")
      inside == SubstrOf(file, open, close - open + 1)
      plus   == FindIn(inside, "+")
      offset == IF open = -1 \/ close = -1 \/ plus = -1 THEN <<>>
                ELSE SubstrOf(inside, plus, FindIn(inside, ")") - plus)
      address == SubstrOf(line, left + 1, FindIn(line, "]") - (left + 1))
  IN  IF left = -1 THEN NoSymbol
      ELSE <<IF open = -1 \/ close = -1 THEN file ELSE SubstrOf(file, 0, open),
             IF offset = <<>> THEN address ELSE offset>>

Symbol(line) == IF compiler = "clang" THEN ClangSymbol(line) ELSE GccSymbol(line)

\* Slip: the blank counts as part of the file.
ParseFromBlank(out, file, offset) ==
  LET blank    == IF FindIn(out, AtFile) # -1 THEN FindIn(out, AtFile) ELSE FindIn(out, Gap)
      name     == SubstrOf(out, 0, blank)
      location == SubstrOf(out, blank, FindIn(out, "\n") - blank)
      colon    == FindIn(location, ":")
      source   == SubstrOf(location, 0, colon)
      number   == SubstrOf(location, colon + 1, -1)
  IN  [function |-> IF name = <<"??">> THEN <<"unknown_symbol[", "??", "]">> ELSE name,
       file     |-> IF source = <<"??">> THEN file ELSE source,
       line     |-> IF number \in {<<"?">>, <<"0">>} THEN offset ELSE number]

\* parse_addr_to_line_out(), where there is a blank in the text.
Parse(out, file, offset) ==
  LET blank    == IF FindIn(out, AtFile) # -1 THEN FindIn(out, AtFile) ELSE FindIn(out, Gap)
      name     == SubstrOf(out, 0, blank)
      location == SubstrOf(out, blank + 1, FindIn(out, "\n") - (blank + 1))
      colon    == FindIn(location, ":")
      source   == SubstrOf(location, 0, colon)
      number   == SubstrOf(location, colon + 1, -1)
  IN  [function |-> IF name = <<"??">> THEN <<"unknown_symbol[", "??", "]">> ELSE name,
       file     |-> IF source = <<"??">> THEN file ELSE source,
       line     |-> IF number \in {<<"?">>, <<"0">>} THEN offset ELSE number]

\* Without a blank, substr() throws out of a function that is noexcept.
Parsable(out) == FindIn(out, AtFile) # -1 \/ FindIn(out, Gap) # -1

SymbolsInit ==
  /\ compiler \in Compilers
  /\ trace = <<>> /\ index = 0 /\ result = <<>> /\ state = "run"

\* backtrace() and backtrace_symbols()
Backtrace ==
  /\ state = "run" /\ index = 0
  /\ \E n \in 0..MaxFrames : trace' \in [1..n -> (DOMAIN Lines) \X (DOMAIN Answers)]
  /\ index' = StackOffset + 1
  /\ UNCHANGED <<compiler, result, state>>

\* An iteration for a line without what the code looks for.
Skip ==
  /\ state = "run" /\ index \in 1..Len(trace)
  /\ Symbol(Lines[trace[index][1]]) = NoSymbol
  /\ index' = index + 1
  /\ UNCHANGED <<compiler, trace, result, state>>

\* addr_to_line(), and the frame that its answer makes.
Resolve ==
  /\ state = "run" /\ index \in 1..Len(trace)
  /\ LET symbol == Symbol(Lines[trace[index][1]])
         out    == Answers[trace[index][2]] IN
       /\ symbol # NoSymbol /\ trace[index][2] # "failed" /\ Parsable(out)
       /\ result' = Append(result, Parse(out, symbol[1], symbol[2]))
  /\ index' = index + 1
  /\ UNCHANGED <<compiler, trace, state>>

\* exec() throws, out of the function, or the function that is noexcept does.
FailToResolve ==
  /\ state = "run" /\ index \in 1..Len(trace)
  /\ Symbol(Lines[trace[index][1]]) # NoSymbol
  /\ \/ trace[index][2] = "failed" /\ state' = "throw"
     \/ /\ trace[index][2] # "failed" /\ ~ Parsable(Answers[trace[index][2]])
        /\ state' = "terminate"
  /\ UNCHANGED <<compiler, trace, index, result>>

ReturnStack ==
  /\ state = "run" /\ index > Len(trace) /\ index > 0
  /\ state' = "done"
  /\ UNCHANGED <<compiler, trace, index, result>>

SymbolsNext ==
  \/ Backtrace \/ Skip \/ Resolve \/ FailToResolve \/ ReturnStack
  \/ state # "run" /\ UNCHANGED symbolVars

SymbolsSpec == SymbolsInit /\ [][SymbolsNext]_symbolVars

-----------------------------------------------------------------------------
(* Properties *)

\* Lines that a compiler's branch makes a frame of: gcc drops the functions that
\* the program exports, and both drop what is in no file.
Kept == IF compiler = "clang" THEN {"exported", "local", "static"} ELSE {"local"}

\* The offset that a kept line gives, or the address if there is none.
OffsetOf(kind) ==
  IF kind = "static" THEN <<"0xabc">>
  ELSE IF compiler = "clang" THEN <<"+", "0x5">> ELSE <<"0x5">>

\* The frame that belongs to a line and an answer: the offset stands in for the
\* line number.
Expected(kind, answer) ==
  [function |-> IF answer = "nothing" THEN <<"unknown_symbol[", "??", "]">> ELSE <<"f()">>,
   file     |-> IF answer = "source" THEN <<"main.cpp">> ELSE <<"main">>,
   line     |-> IF answer = "source" THEN <<"12">> ELSE OffsetOf(kind)]

\* The kept lines behind the frames of the handler that the loop has passed.
KeptLines ==
  {i \in 1..Len(trace) : StackOffset < i /\ i < index /\ trace[i][1] \in Kept}

\* The frames made so far are those of the kept lines behind the frames of the
\* handler, each one once and in order, with the program's file and the offset
\* where addr2line knows no better.  Only an addr2line that says nothing, or is
\* not run at all, keeps the function from returning them, and then it leaves at
\* the first such frame (SystemUtilities.hpp:57-148, 165-269).
FramesSound ==
  /\ Len(result) = Cardinality(KeptLines)
  /\ \A i \in KeptLines : result[Cardinality({j \in KeptLines : j <= i})]
                            = Expected(trace[i][1], trace[i][2])
  /\ state \in {"terminate", "throw"} =>
       trace[index] \in Kept \X {IF state = "throw" THEN "failed" ELSE "silent"}
  /\ state = "done" => \A i \in 1..Len(trace) :
       StackOffset < i /\ trace[i][1] \in Kept => trace[i][2] \notin {"silent", "failed"}

=============================================================================
