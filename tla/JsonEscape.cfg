CONSTANTS
  quote = quote
  letter = letter
  control = control
  Backslash = backslash
  Nul = nul
  Special <- MCSpecial
  Plain <- MCPlain
  Other <- MCOther
  Sources <- MCSources
  Sizes <- MCSizes
SPECIFICATION EscapeSpec
INVARIANTS
  EscapeTypeOK
  StaysInBuffer
  LongestPrefix
  RoomyNeverTruncates
CHECK_DEADLOCK FALSE
