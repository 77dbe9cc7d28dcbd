SPECIFICATION FairSpec
CONSTANTS
  Bank = {0, 1}
  Row = {"r0", "r1"}
  REFRESH_CYCLES = 24
  TRFC_CYCLES = 6
  TRP_CYCLES = 1
  TRCD_CYCLES = 1
  STARTUP_CYCLE_BITNR = 5
  MasterOp <- RowConflict
  NoOp = NoOp
INVARIANTS ChipProtocol ReadAligned
PROPERTIES CachesServed RefreshDone
