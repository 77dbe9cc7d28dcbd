SPECIFICATION OneWaySpec
CONSTANTS
  MaxLen = 2
  TxdBits = 2
  MaxIn = 4
  RingCap = 2
  LineSize = 2
  MaxOut = 4
  MaxStarts = 1
INVARIANTS RxExactlyOnce
PROPERTIES AllSent RxDelivered
