CONSTANTS
  Contents <- MCContents
  Oversize = {}
  Size <- MCSize
  UlongMax <- MCUlongMax
  MaxEvents <- MCMaxEvents
  MayFail = FALSE
  NoEvent = none
SPECIFICATION DriverSpec
INVARIANT TimelineComplete
CHECK_DEADLOCK FALSE
