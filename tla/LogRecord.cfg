CONSTANTS
  NoText = NoText
  Operations <- MCOperations
  Escapes <- MCEscapes
  Extremes <- MCExtremes
  Garbage = garbage
  MayFail = TRUE
SPECIFICATION RecordSpec
INVARIANTS
  RecordTypeOK
  FieldsFaithful
  NothingPrintedUnset
  NothingCut
  OnlyRegistryValuesTooLong
