SPECIFICATION SharedSpec
CONSTANTS
  IPC_MAX_MSG_PER_PROC = 3
  Messages = {"m1", "m2"}
  WIDTH = 2
  HEIGHT = 2
INVARIANTS TypeOK CursorReturns
PROPERTY QueueIsFifo
CHECK_DEADLOCK FALSE
