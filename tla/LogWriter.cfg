CONSTANTS
  small = small
  large = large
  Contents <- MCContents
  Oversize <- MCOversize
  Size <- MCSize
  UlongMax <- MCUlongMax
  MaxEvents <- MCMaxEvents
  MayFail <- MCMayFail
  NoEvent = none
SPECIFICATION WriterSpec
INVARIANTS
  WriterTypeOK
  Accounting
  GapsAreLosses
  CleanLifecycle
PROPERTIES
  EveryEventSettles
CHECK_DEADLOCK FALSE
