SPECIFICATION Spec
CONSTANTS
  IPC_MAX_MSG_PER_PROC = 2
  Messages = {"m1"}
INVARIANT QueueBounded
CHECK_DEADLOCK FALSE
