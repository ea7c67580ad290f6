SPECIFICATION Spec
CONSTANTS
  Workers01 = {"thread_01"}
  Workers02 = {"thread_02"}
  Rounds = 1
  MaxInterrupts = 1
  Threads <- MainThreads
  Main <- MainThread
  Functions <- MainFunctions
  Guarded <- GuardedFunctions
  Body <- MainBody
  Entry <- MainEntry
INVARIANTS
  TypeOK
  JumpStackSound
  MutexSound
  EveryGuardArmed
  ReportNamesItsFault
  MaskSoundWithoutCtrlC
  FaultHasContext
  NoSelfDeadlock
CHECK_DEADLOCK FALSE
