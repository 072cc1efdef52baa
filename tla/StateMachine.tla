---------------------------- MODULE StateMachine ----------------------------
(***************************************************************************)
(* The decision state machine of src/backend/hos4c/state_machine.py: which *)
(* action leads from which workflow state to which, and which role may     *)
(* take it.  The tables are constants of the program; every component that *)
(* changes a decision goes through validate_transition.                    *)
(***************************************************************************)

\* The states a decision row can carry.  LOCKED and MIGRATION_REVIEW_REQUIRED
\* come from the legacy import; the transition table does not mention them.
States ==
  {"PROPOSED", "AWAITING_AMJAD", "IN_REVIEW", "RETURNED", "HOLD", "DEFERRED",
   "BLOCKED", "APPROVED", "REJECTED", "CLOSED",
   "LOCKED", "MIGRATION_REVIEW_REQUIRED"}

Actions ==
  {"APPROVE", "REJECT", "DEFER", "PLACE_ON_HOLD", "RESUME", "CLOSE", "REOPEN",
   "RETURN_FOR_REVISION", "SUBMIT", "RESOLVE", "SUBMIT_FOR_REVIEW"}

Roles ==
  {"AMJAD_OWNER", "REVIEWER", "CONTRIBUTOR", "HERMES_ASSISTANT", "SYSTEM_SERVICE"}

\* The edges <<state, action, target>>.
TRANSITIONS ==
  {<<"AWAITING_AMJAD", "APPROVE", "APPROVED">>,
   <<"AWAITING_AMJAD", "REJECT", "REJECTED">>,
   <<"AWAITING_AMJAD", "DEFER", "DEFERRED">>,
   <<"AWAITING_AMJAD", "PLACE_ON_HOLD", "HOLD">>,
   <<"IN_REVIEW", "APPROVE", "APPROVED">>,
   <<"IN_REVIEW", "REJECT", "REJECTED">>,
   <<"IN_REVIEW", "RETURN_FOR_REVISION", "RETURNED">>,
   <<"IN_REVIEW", "PLACE_ON_HOLD", "HOLD">>,
   <<"HOLD", "RESUME", "AWAITING_AMJAD">>,
   <<"DEFERRED", "RESUME", "AWAITING_AMJAD">>,
   <<"APPROVED", "CLOSE", "CLOSED">>,
   <<"APPROVED", "REOPEN", "AWAITING_AMJAD">>,
   <<"REJECTED", "CLOSE", "CLOSED">>,
   <<"REJECTED", "REOPEN", "AWAITING_AMJAD">>,
   <<"CLOSED", "REOPEN", "AWAITING_AMJAD">>,
   <<"BLOCKED", "RESOLVE", "AWAITING_AMJAD">>,
   <<"RETURNED", "SUBMIT_FOR_REVIEW", "IN_REVIEW">>,
   <<"PROPOSED", "SUBMIT", "AWAITING_AMJAD">>}

\* The actions a role may take: the owner all of them, a reviewer one, the
\* rest none.
ROLE_PERMISSIONS ==
  [role \in Roles |->
     CASE role = "AMJAD_OWNER" -> Actions
       [] role = "REVIEWER"    -> {"RETURN_FOR_REVISION"}
       [] OTHER                -> {}]

\* The membership test action in ROLE_PERMISSIONS.get(role, []).
Permitted(role, action) ==
  /\ role \in DOMAIN ROLE_PERMISSIONS
  /\ action \in ROLE_PERMISSIONS[role]

\* The targets an action has from a state: one, or none.
Targets(state, action) == {to \in States : <<state, action, to>> \in TRANSITIONS}

\* validate_transition answers a target instead of raising ValueError.
CanTransition(state, action, role) ==
  /\ Permitted(role, action)
  /\ Targets(state, action) # {}

\* The state validate_transition returns.
Target(state, action) ==
  CHOOSE to \in States : <<state, action, to>> \in TRANSITIONS

\* Actions that need a typed confirmation and the longer rationale.
HIGH_RISK_ACTIONS == {"APPROVE", "REJECT"}
MinRationaleLength(action) == IF action \in HIGH_RISK_ACTIONS THEN 50 ELSE 20
=============================================================================
