SPECIFICATION Spec
CONSTANTS
  MAX_PROCESSES = 4
  PID_BOUND = 4
  IPC_MAX_MSG_PER_PROC = 1
  KernelTable <- AllCreated
  Queued = {1, 2, 3}
  Commands <- AllCommands
  Syscalls <- AllSyscalls
INVARIANT LoadedWhereAsked
