--------------------------- MODULE MCSignalGuard ---------------------------
(***************************************************************************)
(* Model checking of SignalGuard on the program of main.cpp.               *)
(***************************************************************************)
EXTENDS SignalGuard, MainProgram

\* The hypothesis of the theorems about faults holds of this program.
ASSUME MainProgramGuardsItsFaults == FaultsAreGuarded
=============================================================================
