SPECIFICATION FairSpec
CONSTANTS
  MAX_PROCESSES = 4
  PID_BOUND = 5
  IPC_MAX_MSG_PER_PROC = 1
  KernelTable <- NoPrimeTask
  Queued = {1}
  Commands = {"kill", "send", "recv", "ring3"}
  Syscalls = {"exit", "wait", "kill", "send", "recv", "other"}
PROPERTY NoStarvation
