SPECIFICATION PartsSpec
CONSTANTS
  MaxContexts = 3
  MaxSwitches = 7
  s1 = s1
  s2 = s2
  ca = ca
  NUL = NUL
  Strings = {s1, s2}
  Chars = {ca}
  Inputs <- MCInputs
  Sizes = {2}
  IncreaseBy = 1
  MaxBy = 2
  MaxLen = 2
  MaxShared = 1
  Streams <- MCStreams
  Delimiters = {{NUL}}
  Steps = {0, 2}
  Eof = ca
  Vectors = {"v1", "v2"}
  Values = {"value"}
  Blank = "blank"
  Raw = "raw"
  FirstRoom = 2
  MaxSize = 2
  Readings <- MCReadings
  Delays = {0, 1}
  Offset <- LosAngeles
  MaxInt = 400
  c1 = c1
  c2 = c2
  Callers = {c1, c2}
  Clocks <- MCClocks
  NextClock <- MCNextClock
  Compilers = {"clang", "gcc"}
  StackOffset = 1
  MaxFrames = 3
  Threads = {1, 2}
  BufferSize = 10
  MaxCalls = 4
INVARIANTS
  RoundRobin
  TraversalSound
  RawCells
  StampsOfTheirCalls
  FramesSound
  IndentSound
PROPERTIES
  EngineResumes
  IteratorsKept
  ReadingEnds
  DateFound
CONSTRAINT Near
VIEW Contents
