SPECIFICATION Spec
CONSTANTS
  Workers01 = {}
  Workers02 = {}
  Rounds = 1
  MaxInterrupts = 1
  Threads <- MainThreads
  Main <- MainThread
  Functions <- MainFunctions
  Guarded <- GuardedFunctions
  Body <- MainBody
  Entry <- MainEntry
INVARIANT MaskSound
CHECK_DEADLOCK FALSE
