SPECIFICATION Spec
CONSTANTS
  MAX_PROCESSES = 4
  PID_BOUND = 5
  IPC_MAX_MSG_PER_PROC = 1
  KernelTable <- AllCreated
  Queued = {1, 2}
  Commands <- AllCommands
  Syscalls <- AllSyscalls
INVARIANTS TypeOK CurrentIsOnCpu RegistersMatch OneRunning TableConsistent OthersContextSaved
PROPERTY DeadIsFinal
