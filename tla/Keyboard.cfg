SPECIFICATION FairSpec
CONSTANTS
  BUFFER_SIZE = 3
  LINE_MAX = 1
  READ_MAX = 1
  Keys = {"a"}
  Modifiers = {"shift_l", "shift_r"}
INVARIANTS TypeOK NoStuckModifier
PROPERTIES RingIsFifo KeysGetRead
