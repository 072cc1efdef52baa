SPECIFICATION Spec
CONSTANTS
  mismatch = mismatch
  spike = spike
  Rules = {mismatch, spike}
  Sources = {s1}
  Severity <- MCSeverity
  Threshold <- MCThreshold
  Window <- MCWindow
  AckRoles = {"AMJAD_OWNER", "HERMES_ASSISTANT", "REVIEWER"}
  MaxTime = 3
  MaxEvents = 3
INVARIANTS
  TypeOK
  AlertJustified
  DedupUntilResolved
PROPERTIES
  AlertAtThreshold
