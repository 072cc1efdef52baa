-------------------------- MODULE VersionedRecord ---------------------------
(***************************************************************************)
(* What the mutation guards of src/backend/hos4c/final_security.py promise *)
(* ("Optimistic concurrency control, idempotency keys, replay              *)
(* protection"): a record that one call at a time changes, while mutations *)
(* are authorized and if it expected the revision the record has; and      *)
(* callers who are told of changes that were made, the first time or       *)
(* again.  No threads and no store: FinalSecurity is shown to implement    *)
(* this.  Nothing outlives the record: when its process dies another is    *)
(* begun, at any revision it has had.                                      *)
(***************************************************************************)
EXTENDS Naturals

CONSTANTS RecordStates,   \* states a record may be given
          Payloads        \* what callers ask for: a state, for a revision

VARIABLES record,         \* state and revision
          authorized,     \* whether mutations are
          applied,        \* the payloads that took effect on it, with the revision they made
          answers         \* those some caller was told of

recordVars == <<record, authorized, applied, answers>>

RecordInit ==
  /\ record \in [state : RecordStates, revision : {1}]
  /\ authorized \in BOOLEAN
  /\ applied = {}
  /\ answers = {}

\* A payload takes effect on the revision it was meant for.
Apply(payload) ==
  /\ authorized
  /\ record.revision = payload.expected_revision
  /\ record' = [state |-> payload.new_state, revision |-> record.revision + 1]
  /\ applied' = applied \cup {[payload |-> payload, result |-> record.revision + 1]}
  /\ UNCHANGED <<authorized, answers>>

\* A caller is told what took effect.
Answer ==
  /\ \E a \in applied : answers' = answers \cup {a}
  /\ UNCHANGED <<record, authorized, applied>>

\* The record is begun again, and whether mutations are authorized decided anew.
Rebuild ==
  /\ record' \in [state : RecordStates, revision : 1 .. record.revision]
  /\ authorized' \in BOOLEAN
  /\ applied' = {} /\ answers' = {}

RecordNext ==
  \/ \E payload \in Payloads : Apply(payload)
  \/ Answer
  \/ Rebuild

RecordSpec == RecordInit /\ [][RecordNext]_recordVars
=============================================================================
