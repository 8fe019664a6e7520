CONSTANTS
  a = a
  b = b
  Contents <- MCContents
  Size <- MCSize
  UlongMax <- MCUlongMax
  NoEvent = none
SPECIFICATION ThreadSpec
INVARIANTS
  ThreadTypeOK
  NoLostWakeup
PROPERTIES
  EveryEventIsPopped
  StopEndsThread
