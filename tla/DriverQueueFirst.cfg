CONSTANTS
  Contents <- MCContents
  Oversize = {}
  Size <- MCSize
  UlongMax <- MCUlongMax
  MaxEvents <- MCMaxEvents
  MayFail = FALSE
  NoEvent = none
SPECIFICATION DriverSpec
INVARIANT QueueBeforeProducers
CHECK_DEADLOCK FALSE
