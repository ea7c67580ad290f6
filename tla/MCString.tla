----------------------------- MODULE MCString -----------------------------
(* Model checking of String: texts of up to two characters are passed. *)
EXTENDS String

CONSTANTS ca, cb

MCInputs == {<<>>, <<ca>>, <<ca, cb>>}

\* The history variable is not part of a state, nor are the strings of a program
\* that has ended.
Contents == IF halt = "no" THEN <<str>> ELSE <<halt>>

Symmetry == Permutations(Strings)
=============================================================================
