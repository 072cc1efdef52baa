SPECIFICATION Spec
CONSTANTS
  Clients = {c1, c2}
  d1 = d1
  d2 = d2
  ghost = ghost
  k1 = k1
  k2 = k2
  k3 = k3
  Decisions = {d1, d2}
  DecisionIds = {d1, d2, ghost}
  Keys = {k1, k2}
  Requests <- MCRequests
  InitialStates <- MCInitialStates
  Times = {1}
  ClockSteps = FALSE
SYMMETRY MCClientSymmetry
INVARIANTS
  TypeOK
  NoStaleWrite
  HistoryReplays
  OncePerKey
  AcknowledgedIsDurable
  HashChainLinear
PROPERTIES
  DisabledMeansFrozen
  AppendOnly
  ImplementsLedger
