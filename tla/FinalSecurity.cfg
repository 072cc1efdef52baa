SPECIFICATION Spec
CONSTANTS
  Threads = {t1, t2, t3}
  k1 = k1
  k2 = k2
  shared = shared
  Keys = {k1, k2, shared}
  RecordStates = {"draft", "proposed", "approved", "rejected"}
  MaxRevision = 2
  Calls <- MCCalls
  Levels = {2, 3}
  Tokens = {x}
  MaxRestarts = 1
SYMMETRY MCThreadSymmetry
INVARIANTS
  AppliedOncePerRevision
PROPERTIES
  StoredForLife
  ImplementsRecord
