SPECIFICATION Spec
CONSTANTS
  AddrLen = 2
  BlockLen = 4
  LoadAddresses = {16, 34}
  JmpAddress = 33
  Images <- MCImages
  Kinds = {"uart", "ble"}
  MaxFaults = 1
INVARIANTS LoadedBeforeJump
PROPERTIES LoadCompletes
\* A session ends, and after a lost byte both sides wait for ever.
CHECK_DEADLOCK FALSE
