CONSTANTS
  t1 = t1
  t2 = t2
  Threads <- MCThreads
  Active <- MCActive
  MaxTime = 3
  MaxEvents = 3
SPECIFICATION SensorsSpec
SYMMETRY ThreadSymmetry
INVARIANTS
  SensorsTypeOK
  InOrderUnlessConcurrent
  KeyPathKnown
