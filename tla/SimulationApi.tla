--------------------------- MODULE SimulationApi ----------------------------
(***************************************************************************)
(* The HTTP backend of src/backend/hos4c/main.py: perform_action, the      *)
(* sessions it runs under, and the audit ledger it writes.  The endpoints  *)
(* are plain functions, so the server runs each request on a thread of its *)
(* pool.  A thread is interrupted where it calls something (a query, a     *)
(* hash, a clock); between two calls it is not.  The decisions live in     *)
(* memory and are lost when the process restarts; sessions, audit events   *)
(* and idempotency records are rows of one SQLite file, each written in a  *)
(* transaction of its own.                                                 *)
(***************************************************************************)
EXTENDS StateMachine, AuditLedger

CONSTANTS Threads,        \* threads of the server's pool
          Decisions,      \* SIM_DECISIONS
          InitialState,   \* their states when the process starts
          Sessions,       \* session ids
          ActorOf,        \* actor_id of the login that makes each
          Times,          \* readings of the clock, which may stand still or be set back
          Bodies,         \* what requests ask for
          MaxRequests,    \* bound: requests made
          MaxRestarts     \* bound: restarts of the process

\* A request: the decision of its path, the session of its cookie, whether its CSRF
\* token is that of the session, the action, and whether rationale and typed
\* confirmation are in order.  (An unknown decision is one more reason to refuse,
\* without effect.)
BodyType ==
  [decision : Decisions, session : Sessions, token : BOOLEAN, action : Actions,
   acceptable : BOOLEAN]

ASSUME ApiAssumption ==
  /\ InitialState \in [Decisions -> States]
  /\ Bodies \subseteq BodyType /\ Bodies # {}
  /\ DOMAIN ActorOf = Sessions
  /\ Times \subseteq Nat /\ Times # {}
  /\ MaxRequests \in Nat /\ MaxRestarts \in Nat

VARIABLES
  decision,     \* memory: state and version of each decision
  session,      \* sessions table: "none", "live", "revoked" or "expired"
  rows,         \* audit_events
  records,      \* idempotency_records: the ids of the requests that have one
  disabled,     \* MUTATIONS_DISABLED of the process
  made,         \* requests made so far; numbers the requests and their uuids
  restarts,     \* restarts so far
  pc,           \* where each thread is
  local,        \* the local variables of its request
  response      \* the body of its last 200 response: none or one

tableVars == <<session, rows, records>>
vars == <<decision, session, rows, records, disabled, made, restarts, pc, local,
          response>>

Labels == {"idle", "csrf", "gate", "validate", "apply", "version", "stamp",
           "prev", "insert", "record", "respond"}

LocalType ==
  [id : Nat, body : Bodies, target : States, old : States, version : Nat, stamp : Nat, prev : Nat]

RowType ==
  [id : Nat, decision : Decisions, action : Actions, session : Sessions,
   from : States, to : States, version : Nat, prev : Nat, created_at : Nat]

ResponseType ==
  [id : Nat, previous_state : States, resulting_state : States, version : Nat]

\* The role every session is created with: login_simulated names it, and a GitHub
\* login that is not the approved owner's gets no session.
SessionRole == "AMJAD_OWNER"

-----------------------------------------------------------------------------
\* The local variables of a thread that serves no request.
NoRequest ==
  LET body == CHOOSE b \in Bodies : TRUE
  IN  [id |-> 0, body |-> body, target |-> InitialState[body.decision],
       old |-> InitialState[body.decision], version |-> 0, stamp |-> 0, prev |-> Genesis]

Goto(t, label) == pc' = [pc EXCEPT ![t] = label]

\* Leaves with an HTTP error; nothing already done is undone.
Fail(t) ==
  /\ Goto(t, "idle")
  /\ local' = [local EXCEPT ![t] = NoRequest]
  /\ UNCHANGED <<decision, tableVars, disabled, made, restarts, response>>

\* perform_action is called.  The idempotency key is a uuid4 made here, one per
\* request: the lookup of lines 288-295 never finds it.
Request(t, body) ==
  /\ pc[t] = "idle"
  /\ made < MaxRequests
  /\ made' = made + 1
  /\ local' = [local EXCEPT ![t].id = made + 1, ![t].body = body]
  /\ response' = [response EXCEPT ![t] = {}]
  /\ Goto(t, "csrf")
  /\ UNCHANGED <<decision, tableVars, disabled, restarts>>

\* Mutant: get_session forgets is_revoked and expires_at.
Known(t) == session[local[t].body.session] # "none"

\* get_session: a row, not revoked, not past its expiry.
Live(t) == session[local[t].body.session] = "live"

\* validate_csrf reads the session and compares the token; then the mutation gate.
ValidateCsrf(t) ==
  /\ pc[t] = "csrf"
  /\ Live(t) /\ local[t].body.token /\ ~disabled
  /\ Goto(t, "gate")
  /\ UNCHANGED <<decision, tableVars, disabled, made, restarts, local, response>>

CsrfRefused(t) ==
  /\ pc[t] = "csrf"
  /\ ~Live(t) \/ ~local[t].body.token \/ disabled
  /\ Fail(t)

\* The session is read a second time, for the actor and the role.
ReadSession(t) ==
  /\ pc[t] = "gate"
  /\ Live(t)
  /\ Goto(t, "validate")
  /\ UNCHANGED <<decision, tableVars, disabled, made, restarts, local, response>>

SessionGone(t) ==
  /\ pc[t] = "gate"
  /\ ~Live(t)
  /\ Fail(t)

\* Permission, rationale, confirmation, and validate_transition on the state the
\* decision has now.
Valid(t) ==
  LET body == local[t].body
  IN  /\ body.acceptable
      /\ CanTransition(decision[body.decision].state, body.action, SessionRole)

\* Mutant: the event is recorded without the decision being updated.
ValidateOnly(t) ==
  /\ pc[t] = "validate"
  /\ Valid(t)
  /\ local' = [local EXCEPT ![t].target =
                 Target(decision[local[t].body.decision].state, local[t].body.action)]
  /\ Goto(t, "version")
  /\ UNCHANGED <<decision, tableVars, disabled, made, restarts, response>>

Validate(t) ==
  /\ pc[t] = "validate"
  /\ Valid(t)
  /\ local' = [local EXCEPT ![t].target =
                 Target(decision[local[t].body.decision].state, local[t].body.action)]
  /\ Goto(t, "apply")
  /\ UNCHANGED <<decision, tableVars, disabled, made, restarts, response>>

ValidateRefused(t) ==
  /\ pc[t] = "validate"
  /\ ~Valid(t)
  /\ Fail(t)

\* Lines 316-318, after the return from validate_transition: the state found
\* here is the one recorded, the target is the one computed before.
Apply(t) ==
  LET d == local[t].body.decision
  IN  /\ pc[t] = "apply"
      /\ local' = [local EXCEPT ![t].old = decision[d].state]
      /\ decision' = [decision EXCEPT ![d] = [state   |-> local[t].target,
                                              version |-> @.version + 1]]
      /\ Goto(t, "version")
      /\ UNCHANGED <<tableVars, disabled, made, restarts, response>>

\* The arguments of record_audit_event: the version is read after calls to
\* lower() have given other threads a chance to run.
ReadVersion(t) ==
  /\ pc[t] = "version"
  /\ local' = [local EXCEPT ![t].version = decision[local[t].body.decision].version]
  /\ Goto(t, "stamp")
  /\ UNCHANGED <<decision, tableVars, disabled, made, restarts, response>>

\* record_audit_event: the timestamp is taken before the file is opened ...
Stamp(t) ==
  /\ pc[t] = "stamp"
  /\ \E now \in Times : local' = [local EXCEPT ![t].stamp = now]
  /\ Goto(t, "prev")
  /\ UNCHANGED <<decision, tableVars, disabled, made, restarts, response>>

\* ... the last hash is read outside any transaction ...
ReadLastHash(t) ==
  /\ pc[t] = "prev"
  /\ \E hash \in LastHashes(rows) : local' = [local EXCEPT ![t].prev = hash]
  /\ Goto(t, "insert")
  /\ UNCHANGED <<decision, tableVars, disabled, made, restarts, response>>

\* Mutant: the previous state is read from the updated decision.
RowAfterUpdate(t) ==
  [id |-> local[t].id, decision |-> local[t].body.decision,
   action |-> local[t].body.action, session |-> local[t].body.session,
   from |-> decision[local[t].body.decision].state, to |-> local[t].target,
   version |-> local[t].version, prev |-> local[t].prev, created_at |-> local[t].stamp]

\* Mutant: the action is bound where resulting_state belongs.
RowOfAction(t) ==
  [id |-> local[t].id, decision |-> local[t].body.decision,
   action |-> local[t].body.action, session |-> local[t].body.session,
   from |-> local[t].old, to |-> local[t].body.action,
   version |-> local[t].version, prev |-> local[t].prev, created_at |-> local[t].stamp]

Row(t) ==
  [id |-> local[t].id, decision |-> local[t].body.decision,
   action |-> local[t].body.action, session |-> local[t].body.session,
   from |-> local[t].old, to |-> local[t].target,
   version |-> local[t].version, prev |-> local[t].prev, created_at |-> local[t].stamp]

\* Mutant: a failed INSERT goes unnoticed.
InsertLost(t) ==
  /\ pc[t] = "insert"
  /\ Goto(t, "record")
  /\ UNCHANGED <<decision, tableVars, disabled, made, restarts, local, response>>

\* ... and the INSERT takes the write lock until it is committed.
Insert(t) ==
  /\ pc[t] = "insert"
  /\ rows' = rows \cup {Row(t)}
  /\ Goto(t, "record")
  /\ UNCHANGED <<decision, session, records, disabled, made, restarts, local, response>>

\* The idempotency record, in another connection.
Record(t) ==
  /\ pc[t] = "record"
  /\ records' = records \cup {local[t].id}
  /\ Goto(t, "respond")
  /\ UNCHANGED <<decision, session, rows, disabled, made, restarts, local, response>>

\* SQLite raises in a read or a write of the file (locked past the five seconds
\* of the driver, disk full, I/O error): rolled back by get_db, answered 500.
\* The decision in memory stays as it is, past Apply as Apply left it.
StoreFails(t) ==
  /\ pc[t] \in {"csrf", "gate", "validate", "prev", "insert", "record"}
  /\ Fail(t)

\* The response names the state and version the decision has by now.
Respond(t) ==
  LET row == decision[local[t].body.decision]
  IN  /\ pc[t] = "respond"
      /\ response' = [response EXCEPT ![t] =
           {[id |-> local[t].id, previous_state |-> row.state,
             resulting_state |-> local[t].target, version |-> row.version]}]
      /\ Goto(t, "idle")
      /\ local' = [local EXCEPT ![t] = NoRequest]
      /\ UNCHANGED <<decision, tableVars, disabled, made, restarts>>

-----------------------------------------------------------------------------
(* Sessions and the process *)

SetSession(s, status) ==
  /\ session' = [session EXCEPT ![s] = status]
  /\ UNCHANGED <<decision, rows, records, disabled, made, restarts, pc, local, response>>

\* create_session, on a simulated or GitHub login.
Login(s) == session[s] = "none" /\ SetSession(s, "live")

\* auth_logout and revoke_session: one UPDATE on the caller's own session.
Revoke(s) == session[s] = "live" /\ SetSession(s, "revoked")

\* Twelve hours pass.
Expire(s) == session[s] = "live" /\ SetSession(s, "expired")

\* revoke_all_sessions: one UPDATE on every row of the caller's actor.
RevokeAll(s) ==
  /\ session[s] = "live"
  /\ session' = [x \in Sessions |-> IF session[x] # "none" /\ ActorOf[x] = ActorOf[s]
                                   THEN "revoked" ELSE session[x]]
  /\ UNCHANGED <<decision, rows, records, disabled, made, restarts, pc, local, response>>

InitialDecisions == [d \in Decisions |-> [state |-> InitialState[d], version |-> 1]]

\* The process dies and is started again: threads and memory are gone, the file
\* is not.
Restart ==
  /\ restarts < MaxRestarts
  /\ restarts' = restarts + 1
  /\ decision' = InitialDecisions
  /\ disabled' \in BOOLEAN
  /\ pc' = [t \in Threads |-> "idle"]
  /\ local' = [t \in Threads |-> NoRequest]
  /\ response' = [t \in Threads |-> {}]
  /\ UNCHANGED <<tableVars, made>>

-----------------------------------------------------------------------------
Init ==
  /\ decision = InitialDecisions
  /\ session = [s \in Sessions |-> "none"]
  /\ rows = {}
  /\ records = {}
  /\ disabled \in BOOLEAN
  /\ made = 0 /\ restarts = 0
  /\ pc = [t \in Threads |-> "idle"]
  /\ local = [t \in Threads |-> NoRequest]
  /\ response = [t \in Threads |-> {}]

\* The steps of a request that has been made.
Step(t) ==
  \/ ValidateCsrf(t) \/ CsrfRefused(t) \/ ReadSession(t) \/ SessionGone(t)
  \/ Validate(t) \/ ValidateRefused(t) \/ Apply(t) \/ ReadVersion(t)
  \/ Stamp(t) \/ ReadLastHash(t) \/ Insert(t) \/ Record(t) \/ StoreFails(t)
  \/ Respond(t)

Next ==
  \/ \E t \in Threads, body \in Bodies : Request(t, body)
  \/ \E t \in Threads : Step(t)
  \/ \E s \in Sessions : Login(s) \/ Revoke(s) \/ Expire(s) \/ RevokeAll(s)
  \/ Restart

Spec == Init /\ [][Next]_vars

-----------------------------------------------------------------------------
(* Properties *)

TypeOK ==
  /\ decision \in [Decisions -> [state : States, version : Nat]]
  /\ session \in [Sessions -> {"none", "live", "revoked", "expired"}]
  /\ rows \subseteq RowType
  /\ records \subseteq 1 .. MaxRequests
  /\ disabled \in BOOLEAN
  /\ made \in 0 .. MaxRequests
  /\ restarts \in 0 .. MaxRestarts
  /\ pc \in [Threads -> Labels]
  /\ local \in [Threads -> LocalType]
  /\ response \in [Threads -> SUBSET ResponseType]

\* The events are in the order of their requests by the clock too: it did not stand
\* still between two of them, and was not set back.
InOrder(ledger) ==
  \A r, q \in ledger : r.id < q.id => r.created_at < q.created_at

\* The ledger of a server that only ever appended to it verifies: "Append-Only,
\* Tamper-Evident" (audit.py line 1), "Audit hash chain INTACT" (HOS-4D-PROGRAM
\* line 254).  The clock has to go forward for that, and alone it is enough for one
\* thread, over failures and restarts; for two it is not.
ChainIntact == InOrder(rows) => Verdicts(rows) = {"INTACT"}

\* Once verification can report nothing but COMPROMISED it is so for ever: no later
\* event, however late it is inserted and whatever the clock says, repairs the chain.
CompromisedForever ==
  [][ "INTACT" \notin Verdicts(rows) => "INTACT" \notin Verdicts(rows') ]_vars

\* Every audited action is one the state machine allows from the state the event
\* says it was taken in.
AuditedTransitionsLegal ==
  \A r \in rows : <<r.from, r.action, r.to>> \in TRANSITIONS

\* The ledger never runs ahead of the memory it reports on: of a decision it has
\* at most one event for each version the decision has gone through.
NoAuditWithoutMutation ==
  restarts = 0 =>
    \A d \in Decisions :
       Cardinality({r \in rows : r.decision = d}) < decision[d].version

\* An idempotency record stands for an audited action, whatever failed or died
\* between the two connections.
RecordHasAudit == \A id \in records : \E r \in rows : r.id = id

\* What was and may still be done under a session: its events, and its requests
\* that have passed both reads of it.
ActsUnder(s) ==
  {r.id : r \in {x \in rows : x.session = s}}
  \cup {local[t].id : t \in {x \in Threads : /\ pc[x] \notin {"idle", "csrf", "gate"}
                                              /\ local[x].body.session = s}}

\* A session that has ended stays ended, and from then on nothing is added to
\* what is done under it: requests already let through may finish, no other does,
\* whether it was made before or after, and whatever is restarted in between.
RevocationSticks ==
  [][ \A s \in Sessions :
        session[s] \in {"revoked", "expired"} =>
          /\ session'[s] \in {"revoked", "expired"}
          /\ ActsUnder(s)' \subseteq ActsUnder(s) ]_vars

-----------------------------------------------------------------------------
(* What makes them inductive *)

\* Where a request has not written its event yet.
Unwritten == {"csrf", "gate", "validate", "apply", "version", "stamp", "prev", "insert"}

\* A thread serves a request of its own.
RequestIds ==
  \A t \in Threads : pc[t] # "idle" =>
    /\ local[t].id \in 1 .. made
    /\ \A u \in Threads : pc[u] # "idle" /\ local[u].id = local[t].id => u = t

\* A request has one event, from its INSERT on.
RowIds ==
  /\ \A r \in rows : r.id \in 1 .. made
  /\ \A r, q \in rows : r.id = q.id => r = q
  /\ \A t \in Threads : pc[t] \in Unwritten => \A r \in rows : r.id # local[t].id
  /\ \A t \in Threads : pc[t] = "record" => \E r \in rows : r.id = local[t].id

\* An event was chained to an event that was there when it was written, or to none.
Present(hash) == hash = Genesis \/ \E r \in rows : r.id = hash

PrevKnown ==
  /\ \A r \in rows : Present(r.prev)
  /\ \A t \in Threads : pc[t] = "insert" => Present(local[t].prev)

\* The requests that have changed a decision and not yet told the ledger.
Unaudited(d) ==
  {t \in Threads : pc[t] \in {"version", "stamp", "prev", "insert"}
                   /\ local[t].body.decision = d}

EventsOf(d) == {r \in rows : r.decision = d}

VersionsLead ==
  /\ IsFiniteSet(rows)
  /\ restarts = 0 =>
       \A d \in Decisions :
         /\ IsFiniteSet(Unaudited(d))
         /\ Cardinality(EventsOf(d)) + Cardinality(Unaudited(d)) < decision[d].version

IInv ==
  /\ TypeOK
  /\ RequestIds /\ RowIds /\ PrevKnown /\ VersionsLead
  /\ RecordHasAudit /\ NoAuditWithoutMutation

\* What is true in addition when the pool has one thread.
OneThread == \A t, u \in Threads : t = u

\* The edge a request takes is one from the state its decision still has, and then
\* from the state it had.
EdgeHeld ==
  \A t \in Threads :
    LET d == local[t].body.decision
        a == local[t].body.action
    IN  /\ pc[t] = "apply" =>
             <<decision[d].state, a, local[t].target>> \in TRANSITIONS
        /\ pc[t] \in {"version", "stamp", "prev", "insert"} =>
             <<local[t].old, a, local[t].target>> \in TRANSITIONS

\* Each event was computed from a last one of those before it in time.
Linked(ledger) ==
  \A r \in ledger :
    r.prev \in LastHashes({q \in ledger : q.created_at < r.created_at})

\* The request that is served is the latest, and the last hash it read is still a
\* last one.
LastToWrite ==
  \A t \in Threads :
    /\ pc[t] \in Unwritten => \A r \in rows : r.id < local[t].id
    /\ pc[t] = "insert" => local[t].prev \in LastHashes(rows)

SequentialInv ==
  /\ EdgeHeld /\ AuditedTransitionsLegal /\ LastToWrite
  /\ InOrder(rows) => Linked(rows)
=============================================================================
