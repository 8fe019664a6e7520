CONSTANTS
  Contents <- MCContents
  Oversize = {}
  Size <- MCSize
  UlongMax <- MCUlongMax
  MaxEvents <- MCMaxEvents
  MayFail = FALSE
  NoEvent = none
SPECIFICATION DriverSpec
INVARIANT ProducersGoFirst
CHECK_DEADLOCK FALSE
