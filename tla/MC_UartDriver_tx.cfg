SPECIFICATION Spec
CONSTANTS
  MaxLen = 2
  TxdBits = 2
  MaxIn = 1
  RingCap = 3
  LineSize = 2
  MaxOut = 4
  MaxStarts = 2
INVARIANTS TxOwnership
PROPERTIES TxInOrder
