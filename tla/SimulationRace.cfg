SPECIFICATION Spec
CONSTANTS
  Threads = {t1, t2}
  d1 = d1
  d2 = d2
  Decisions = {d1, d2}
  InitialState <- MCInitialState
  Sessions = {s1}
  ActorOf <- MCActorOf
  Times = {1, 2}
  Bodies <- MCMoves
  MaxRequests = 2
  MaxRestarts = 0
INVARIANTS
  AuditedTransitionsLegal
\* The bounds stop the model: no request, login or restart is left.
CHECK_DEADLOCK FALSE
