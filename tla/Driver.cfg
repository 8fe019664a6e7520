CONSTANTS
  Contents <- MCContents
  Oversize = {}
  Size <- MCSize
  UlongMax <- MCUlongMax
  MaxEvents <- MCMaxEvents
  MayFail = TRUE
  NoEvent = none
SPECIFICATION DriverSpec
INVARIANTS
  DriverTypeOK
  CallsHaveTheirSupport
  NothingLeft
PROPERTIES
  UnloadEnds
CHECK_DEADLOCK FALSE
