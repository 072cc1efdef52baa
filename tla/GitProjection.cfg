SPECIFICATION Spec
CONSTANTS
  Decisions = {d1, d2}
  Keys = {k1, k2}
  InitialStates <- MCInitialStates
  Exporters = {e1, e2}
  MaxExports = 3
SYMMETRY MCSymmetry
CHECK_DEADLOCK FALSE
INVARIANTS
  FilesAreHistory
  SoloExportIsSnapshot
  AloneNeverRegresses
