SPECIFICATION Spec
CONSTANTS
  s1 = s1
  s2 = s2
  s3 = s3
  LogSegments <- ThreeSegments
  MaxSize = 5
  maxFlushSize = 3
  Hole = Hole
  Word = 16
  Nil = Nil
SYMMETRY Symmetry
INVARIANTS
  DataAsWritten
  BytesCounted
  ReadPlanExact
  CoalesceExact
