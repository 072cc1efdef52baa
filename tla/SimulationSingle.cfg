SPECIFICATION Spec
CONSTANTS
  Threads = {t1}
  d1 = d1
  d2 = d2
  Decisions = {d1, d2}
  InitialState <- MCInitialState
  Sessions = {s1, s2}
  ActorOf <- MCActorOf
  Times = {1, 2, 3}
  Bodies <- MCBodies
  MaxRequests = 3
  MaxRestarts = 1
INVARIANTS
  ChainIntact
  AuditedTransitionsLegal
\* The bounds stop the model: no request, login or restart is left.
CHECK_DEADLOCK FALSE
PROPERTIES
  RevocationSticks
