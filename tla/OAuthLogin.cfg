SPECIFICATION LoginSpec
CONSTANTS
  Threads = {t1, t2}
  d1 = d1
  s1 = s1
  amjad = amjad
  Decisions = {d1}
  InitialState <- MCInitialState
  Sessions = {s1, s2}
  ActorOf <- MCActorOf
  Times = {1, 2}
  Bodies <- MCBodies
  MaxRequests = 3
  MaxRestarts = 1
  OAuthStates = {x1}
  Users = {owner, stranger}
  ApprovedOwner = owner
  NoOwner = none
  OwnerActor = amjad
  SimulatedActor = amjad
  SimulationMode = FALSE
SYMMETRY MCThreadSymmetry
INVARIANTS
  LoginTypeOK
  OneSessionPerState
  LoginsShown
\* The bounds stop the model: no request, login or restart is left.
CHECK_DEADLOCK FALSE
