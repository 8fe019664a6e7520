CONSTANTS
  Contents <- MCContents
  Oversize = {}
  Size <- MCSize
  UlongMax <- MCUlongMax
  MaxEvents <- MCMaxEvents
  MayFail = TRUE
  NoEvent = none
SPECIFICATION DriverSpec
INVARIANT FailedLoadStopsThread
CHECK_DEADLOCK FALSE
