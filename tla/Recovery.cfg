SPECIFICATION Spec
CONSTANTS
  BackupIds = {b1}
  Recoveries = {q1}
  Runs = {r1, r2, r3}
  Dirs = {o1}
  MaxBackups = 2
  MaxWrites = 1
  MaxApprovals = 2
SYMMETRY MCSymmetry
INVARIANTS
  TypeOK
  RestoredMatchesMetadata
PROPERTY RunNeedsApproval
CHECK_DEADLOCK FALSE
