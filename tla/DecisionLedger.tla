--------------------------- MODULE DecisionLedger ---------------------------
(***************************************************************************)
(* What the authoritative adapter promises ("Atomic authoritative          *)
(* transition. State + audit + idempotency in one transaction."): a store  *)
(* of decisions on which transitions happen one at a time and all at once, *)
(* each one legal in the state it finds, each one recorded, and no         *)
(* idempotency key spent twice.  No clients, no lock, no statements: the   *)
(* adapter is shown to implement this.                                     *)
(***************************************************************************)
EXTENDS StateMachine, Naturals

CONSTANTS Decisions,      \* ids of the rows of authoritative_decisions
          Keys,           \* idempotency keys
          InitialStates   \* states an imported row may start in

VARIABLES decision,       \* decision[d]: workflow state and version
          events,         \* the transitions recorded, as a set
          spent           \* the keys that have been answered

ledgerVars == <<decision, events, spent>>

LedgerInit ==
  /\ decision \in [Decisions -> [state : InitialStates, version : {1}]]
  /\ events = {}
  /\ spent = {}

\* Key k is spent on one transition of decision d along an edge of the state
\* machine, by a caller in a role that may take it.
Transition(k, d, edge, role) ==
  LET row == decision[d]
  IN  /\ edge[1] = row.state
      /\ Permitted(role, edge[2])
      /\ decision' = [decision EXCEPT ![d] = [state   |-> edge[3],
                                              version |-> row.version + 1]]
      /\ events' = events \cup
           {[decision |-> d, action |-> edge[2], role |-> role, from |-> edge[1],
             to |-> edge[3], version |-> row.version + 1, key |-> k]}

LedgerNext ==
  \E k \in Keys \ spent :
     /\ spent' = spent \cup {k}
     /\ \E d \in Decisions, edge \in TRANSITIONS, role \in Roles :
          Transition(k, d, edge, role)

LedgerSpec == LedgerInit /\ [][LedgerNext]_ledgerVars
=============================================================================
