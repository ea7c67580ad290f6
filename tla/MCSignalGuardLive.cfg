SPECIFICATION FairSpec
CONSTANTS
  Workers01 = {"thread_01"}
  Workers02 = {"thread_02"}
  Rounds = 1
  MaxInterrupts = 0
  Threads <- MainThreads
  Main <- MainThread
  Functions <- MainFunctions
  Guarded <- GuardedFunctions
  Body <- MainBody
  Entry <- MainEntry
PROPERTIES
  FaultLeadsToReport
  Termination
CHECK_DEADLOCK FALSE
