CONSTANTS
  p1 = p1
  p2 = p2
  Producers <- MCProducers
  Writer = writer
  Size <- MCSize
  UlongMax <- MCUlongMax
  Free = free
  NoEvent = none
  Zero = zero
SPECIFICATION Spec
INVARIANTS
  TypeOK
  MutualExclusion
  RingConsistent
PROPERTIES
  ImplementsFifo
  SectionsFinish
