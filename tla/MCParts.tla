------------------------------ MODULE MCParts ------------------------------
(***************************************************************************)
(* Model checking of the parts of the repository that share nothing with   *)
(* one another: a behaviour is one of one of them.                         *)
(***************************************************************************)
EXTENDS UserContexts, VectorAllocator, TimeStamps, CallStackSymbols, Indentation, StringAccess

CONSTANTS s1, s2, ca,
          Readings, Delays, Offset, MaxInt,
          c1, c2

VARIABLES part,    \* the part that runs
          at, now, t, days, rem, y, tm

Date == INSTANCE LocalDate

-----------------------------------------------------------------------------
(* Their instances *)
MCInputs  == {<<>>, <<ca>>}
MCStreams == {<<>>, <<ca>>, <<NUL>>, <<ca, ca, NUL>>}

\* Days around the ends of the year and of February, in years of all kinds.
NewYear(year) ==
  LET before == year - 1 IN
    365 * (year - 1970) + before \div 4 - before \div 100 + before \div 400 - 477
MCReadings ==
  {<<NewYear(year) + k, s, ms>> :
     year \in {1600, 1899, 1900, 1901, 1969, 1970, 1971, 1972, 1999, 2000, 2001, 2023, 2024,
               2025, 2100, 2400},
     k \in {-2, -1, 0, 1, 57, 58, 59, 60}, s \in {0, 28799, 28800, 86399}, ms \in {0, 999}}
LosAngeles == -8 * 3600

\* Over midnight, with milliseconds of three, one, two and no digits.
MCNextClock ==
  (<<1, 86398, 999>> :> <<1, 86399, 5>>) @@ (<<1, 86399, 5>> :> <<2, 0, 70>>)
    @@ (<<2, 0, 70>> :> <<2, 1, 0>>)
MCClocks == DOMAIN MCNextClock \union {<<2, 1, 0>>}

-----------------------------------------------------------------------------

dateVars == <<at, now, t, days, rem, y, tm>>

\* A text of two characters, and an iterator into the only string there is, or
\* that came from one of the two, at a place next to the text.
Near ==
  \/ it = NoIterator
  \/ /\ \A v \in Strings : Live(v) => v \in {it.first, it.size}
     /\ it.pos \in 0..(MaxLen + 1) \union {npos}

PartsInit ==
  /\ part \in {"contexts", "access", "allocator", "date", "stamps", "symbols", "indents"}
  /\ ContextsInit /\ AccessInit /\ AllocatorInit
  /\ Date!Init /\ StampsInit /\ SymbolsInit /\ IndentInit
  /\ part # "contexts" => n_ucs = 0 /\ max_switchs = 0
  /\ part # "symbols" => compiler = "gcc"

\* A step of one part is none of the others.
Runs(name, step) ==
  /\ part = name /\ step
  /\ name # "contexts"  => UNCHANGED contextVars
  /\ name # "access"    => UNCHANGED accessVars
  /\ name # "allocator" => UNCHANGED allocatorVars
  /\ name # "date"      => UNCHANGED dateVars
  /\ name # "stamps"    => UNCHANGED stampVars
  /\ name # "symbols"   => UNCHANGED symbolVars
  /\ name # "indents"   => UNCHANGED indentVars
  /\ UNCHANGED part

PartsNext ==
  \/ Runs("contexts", ContextsNext)
  \/ Runs("access", AccessNext)
  \/ Runs("allocator", AllocatorNext)
  \/ Runs("date", Date!Next)
  \/ Runs("stamps", StampsNext)
  \/ Runs("symbols", SymbolsNext)
  \/ Runs("indents", IndentNext)

partsVars ==
  <<part, contextVars, accessVars, allocatorVars, dateVars, stampVars, symbolVars,
    indentVars>>

\* The fairness of each part, where it runs.
PartsSpec ==
  /\ PartsInit /\ [][PartsNext]_partsVars
  /\ WF_contextVars(part = "contexts" /\ ContextStep)
  /\ WF_accessVars(Fetch)
  /\ WF_dateVars(part = "date" /\ Date!Next)

\* The part that runs, without the history of calls that String keeps, and
\* without the strings of a program that has ended.
Contents ==
  <<part,
    CASE part = "contexts"  -> contextVars
      [] part = "access"    -> IF halt = "no" THEN <<str, it, stream>> ELSE <<halt>>
      [] part = "allocator" -> allocatorVars
      [] part = "date"      -> dateVars
      [] part = "stamps"    -> stampVars
      [] part = "symbols"   -> symbolVars
      [] part = "indents"   -> indentVars>>

-----------------------------------------------------------------------------
(* The property of the instance; those of the modules it EXTENDS are here by *)
(* their own names.                                                          *)

\* The calendar computation ends with the date of the time read (LocalDate).
DateFound == Date!DateFound

=============================================================================
