SPECIFICATION Spec
CONSTANTS
  Writers = {w1, w2}
  Times = {0, 1, 2, 3}
  SecondOf <- MCSecondOf
  Tags = {1, 2}
  MaxAge = 2
  MaxCheckpoints = 3
  MaxFaults = 1
SYMMETRY MCWriterSymmetry
CHECK_DEADLOCK FALSE
INVARIANTS
  TypeOK
  VerdictExact
  CleanDirectoryVerifies
  MissedMeansNoneRecent
PROPERTIES
  AlarmLasts
