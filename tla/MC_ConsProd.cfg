SPECIFICATION FairSpec
CONSTANTS
  N = 4
  Byte = {b1, b2}
  MaxLen = 2
INVARIANTS SnapshotsSafe CallsAccountBytes
PROPERTIES FifoSpec CallsReturn
