------------------------ MODULE AuthoritativeAdapter ------------------------
(***************************************************************************)
(* apply_transition of src/backend/hos4c/authoritative_adapter.py, at the  *)
(* grain of its SQL statements.  Several clients (threads or processes)    *)
(* call it concurrently on one SQLite file in WAL mode: a statement outside*)
(* a transaction reads the last commit, BEGIN IMMEDIATE takes the one      *)
(* write lock of the file or gives up after the busy timeout, and what a   *)
(* transaction writes stays private until COMMIT installs all of it.  The  *)
(* process may crash between any two statements.                           *)
(***************************************************************************)
EXTENDS StateMachine, Naturals, Sequences

CONSTANTS Clients,        \* the concurrent callers
          Decisions,      \* ids of the rows of authoritative_decisions
          DecisionIds,    \* ids a caller may name, existing or not
          Keys,           \* idempotency keys
          Requests,       \* the argument lists calls are made with
          InitialStates,  \* states an imported row may start in
          Times,          \* wall-clock readings, as numbers
          ClockSteps      \* TRUE: the wall clock may be set back or repeat

\* The arguments of apply_transition the code looks at.
RequestType ==
  [decision : DecisionIds, action : Actions, expected_state : States,
   expected_version : Nat, role : Roles, key : Keys]

ASSUME ConstantsAssumption ==
  /\ Decisions \subseteq DecisionIds
  /\ Requests \subseteq RequestType /\ Requests # {}
  /\ InitialStates \subseteq States
  /\ Times \subseteq Nat /\ Times # {}
  /\ ClockSteps \in BOOLEAN

VARIABLES
  \* The database file: what the last COMMIT left.
  decision,       \* authoritative_decisions: workflow_state and version
  audit,          \* audit_events, in commit order
  answers,        \* idempotency_records
  \* The process.
  disabled,       \* MUTATIONS_DISABLED of its environment
  writers,        \* the clients that hold the write lock of the file
  pc,             \* the statement each client is at
  req,            \* the arguments of its call
  now,            \* `now` of its open transaction
  prev,           \* `prev_hash`: the event it names, 0 for GENESIS
  code,           \* how its last call ended
  reply           \* the result its last call returned: none or one

dbVars == <<decision, audit, answers>>
callVars == <<pc, req, now, prev, code, reply>>
vars == <<decision, audit, answers, disabled, writers, pc, req, now, prev, code, reply>>

-----------------------------------------------------------------------------
(* Rows and results *)

WriteSection == {"read", "update", "audit", "persist", "commit"}
Labels == {"idle", "check", "begin", "reply"} \cup WriteSection

\* TransitionError codes; DATABASE_LOCKED stands for sqlite3.OperationalError
\* of BEGIN IMMEDIATE, raised outside the try; LOST for a call the process
\* died under.
Codes ==
  {"NONE", "SUCCESS", "MUTATIONS_DISABLED", "UNAUTHORIZED", "DATABASE_LOCKED",
   "NOT_FOUND", "STATE_MISMATCH", "VERSION_MISMATCH", "TRANSITION_FAILED",
   "TRANSACTION_FAILED", "LOST"}

\* SHA-256 is taken to be injective, so event_hash is the event itself and
\* prev_hash is the position of the event it was computed from.
EventType ==
  [decision : Decisions, action : Actions, role : Roles, from : States,
   to : States, version : Nat, key : Keys, prev : Nat, created_at : Nat]

\* An idempotency record and its JSON result.  audit_id is a fresh uuid4: it
\* names one event, here by its position.
AnswerType == [key : Keys, new_state : States, new_version : Nat, audit_id : Nat]

AnswersTo(k) == {a \in answers : a.key = k}

\* Mutant: the action is bound where the UPDATE wants the target state.
NewRowOfAction(r) == [state |-> r.action, version |-> r.expected_version + 1]

\* The row, event and idempotency record a transaction writes.
NewRow(r) == [state   |-> Target(r.expected_state, r.action),
              version |-> r.expected_version + 1]

NewEvent(c) ==
  [decision |-> req[c].decision, action |-> req[c].action, role |-> req[c].role,
   from |-> req[c].expected_state, to |-> NewRow(req[c]).state,
   version |-> NewRow(req[c]).version, key |-> req[c].key,
   prev |-> prev[c], created_at |-> now[c]]

NewAnswer(c) ==
  [key |-> req[c].key, new_state |-> NewRow(req[c]).state,
   new_version |-> NewRow(req[c]).version, audit_id |-> Len(audit) + 1]

\* datetime.now(): only the order of two readings is ever looked at, so a
\* clock that moves forward is the number of the event it will stamp.
ClockReadings == IF ClockSteps THEN Times ELSE {Len(audit) + 1}

\* Mutant: the event is inserted before the latest one is looked up.
OwnEvent == {Len(audit) + 1}

\* SELECT event_hash ... ORDER BY created_at DESC LIMIT 1: any of the events
\* that tie for the greatest timestamp, or GENESIS.
LatestEvents ==
  IF audit = <<>> THEN {0}
  ELSE {n \in DOMAIN audit :
          \A m \in DOMAIN audit : audit[m].created_at <= audit[n].created_at}

-----------------------------------------------------------------------------
(* apply_transition, statement by statement *)

\* Mutant: the connection is not closed on the way out.
FinishWithoutClose(c, why, result) ==
  /\ pc' = [pc EXCEPT ![c] = "idle"]
  /\ code' = [code EXCEPT ![c] = why]
  /\ reply' = [reply EXCEPT ![c] = result]
  /\ now' = [now EXCEPT ![c] = 0]
  /\ prev' = [prev EXCEPT ![c] = 0]
  /\ UNCHANGED <<dbVars, disabled, writers>>

\* Leaves the call with an error (or a result, below).  Closing the connection
\* ends whatever transaction it still had.
Finish(c, why, result) ==
  /\ pc' = [pc EXCEPT ![c] = "idle"]
  /\ code' = [code EXCEPT ![c] = why]
  /\ reply' = [reply EXCEPT ![c] = result]
  /\ writers' = writers \ {c}
  /\ now' = [now EXCEPT ![c] = 0]
  /\ prev' = [prev EXCEPT ![c] = 0]
  /\ UNCHANGED <<dbVars, disabled>>

\* The two gates run before the connection is opened.
CallRefused(c, r) ==
  /\ pc[c] = "idle"
  /\ disabled \/ ~Permitted(r.role, r.action)
  /\ req' = [req EXCEPT ![c] = r]
  /\ Finish(c, IF disabled THEN "MUTATIONS_DISABLED" ELSE "UNAUTHORIZED", {})

\* Mutant: without the MUTATIONS_DISABLED gate.
CallUngated(c, r) ==
  /\ pc[c] = "idle"
  /\ Permitted(r.role, r.action)
  /\ req' = [req EXCEPT ![c] = r]
  /\ pc' = [pc EXCEPT ![c] = "check"]
  /\ code' = [code EXCEPT ![c] = "NONE"]
  /\ reply' = [reply EXCEPT ![c] = {}]
  /\ UNCHANGED <<dbVars, disabled, writers, now, prev>>

Call(c, r) ==
  /\ pc[c] = "idle"
  /\ ~disabled /\ Permitted(r.role, r.action)
  /\ req' = [req EXCEPT ![c] = r]
  /\ pc' = [pc EXCEPT ![c] = "check"]
  /\ code' = [code EXCEPT ![c] = "NONE"]
  /\ reply' = [reply EXCEPT ![c] = {}]
  /\ UNCHANGED <<dbVars, disabled, writers, now, prev>>

\* The idempotency lookup is outside the transaction: a stored result is
\* returned as it is, whatever call it was stored for.
Replay(c) ==
  /\ pc[c] = "check"
  /\ AnswersTo(req[c].key) # {}
  /\ Finish(c, "SUCCESS", AnswersTo(req[c].key))
  /\ UNCHANGED req

CheckIdempotency(c) ==
  /\ pc[c] = "check"
  /\ AnswersTo(req[c].key) = {}
  /\ pc' = [pc EXCEPT ![c] = "begin"]
  /\ UNCHANGED <<dbVars, disabled, writers, req, now, prev, code, reply>>

\* Mutant: BEGIN DEFERRED, which takes no lock before the read.
BeginDeferred(c) ==
  /\ pc[c] = "begin"
  /\ writers' = writers \cup {c}
  /\ pc' = [pc EXCEPT ![c] = "read"]
  /\ UNCHANGED <<dbVars, disabled, req, now, prev, code, reply>>

\* Mutant: BEGIN waits for the lock without a timeout.
LockWaits(c) == FALSE

\* BEGIN IMMEDIATE: granted when no other connection holds the write lock ...
Begin(c) ==
  /\ pc[c] = "begin"
  /\ writers = {}
  /\ writers' = writers \cup {c}
  /\ pc' = [pc EXCEPT ![c] = "read"]
  /\ UNCHANGED <<dbVars, disabled, req, now, prev, code, reply>>

\* ... or refused after busy_timeout milliseconds of waiting for one.
LockTimeout(c) ==
  /\ pc[c] = "begin"
  /\ writers # {}
  /\ Finish(c, "DATABASE_LOCKED", {})
  /\ UNCHANGED req

\* Mutant: a version at least the one read passes.
VersionNotOlder(c) == decision[req[c].decision].version <= req[c].expected_version

\* The row read inside the transaction against what the caller expected, then
\* validate_transition.
RowFound(c) == req[c].decision \in Decisions
Row(c) == decision[req[c].decision]
StateMatches(c) == Row(c).state = req[c].expected_state
VersionMatches(c) == Row(c).version = req[c].expected_version

ReadRefused(c) ==
  /\ pc[c] = "read"
  /\ \/ /\ ~RowFound(c)
        /\ Finish(c, "NOT_FOUND", {})
     \/ /\ RowFound(c) /\ ~StateMatches(c)
        /\ Finish(c, "STATE_MISMATCH", {})
     \/ /\ RowFound(c) /\ StateMatches(c) /\ ~VersionMatches(c)
        /\ Finish(c, "VERSION_MISMATCH", {})
     \/ /\ RowFound(c) /\ StateMatches(c) /\ VersionMatches(c)
        /\ ~CanTransition(Row(c).state, req[c].action, req[c].role)
        /\ Finish(c, "TRANSITION_FAILED", {})
  /\ UNCHANGED req

ReadValidated(c) ==
  /\ pc[c] = "read"
  /\ RowFound(c) /\ StateMatches(c) /\ VersionMatches(c)
  /\ CanTransition(Row(c).state, req[c].action, req[c].role)
  /\ \E t \in ClockReadings : now' = [now EXCEPT ![c] = t]
  /\ pc' = [pc EXCEPT ![c] = "update"]
  /\ UNCHANGED <<dbVars, disabled, writers, req, prev, code, reply>>

\* UPDATE ... WHERE id = ? AND version = ?, and the count of changed rows.  The
\* new row stays in the transaction.
UpdateDecision(c) ==
  /\ pc[c] = "update"
  /\ IF VersionMatches(c)
     THEN /\ pc' = [pc EXCEPT ![c] = "audit"]
          /\ UNCHANGED <<dbVars, disabled, writers, now, prev, code, reply>>
     ELSE Finish(c, "VERSION_MISMATCH", {})
  /\ UNCHANGED req

\* The audit event chained to the latest one, inserted in the transaction.
AppendAudit(c) ==
  /\ pc[c] = "audit"
  /\ \E n \in LatestEvents : prev' = [prev EXCEPT ![c] = n]
  /\ pc' = [pc EXCEPT ![c] = "persist"]
  /\ UNCHANGED <<dbVars, disabled, writers, req, now, code, reply>>

\* Mutant: INSERT OR REPLACE.
PersistOverwriting(c) ==
  /\ pc[c] = "persist"
  /\ pc' = [pc EXCEPT ![c] = "commit"]
  /\ UNCHANGED <<dbVars, disabled, writers, req, now, prev, code, reply>>

\* Mutant: the result is returned before COMMIT.
PersistReplying(c) ==
  /\ pc[c] = "persist"
  /\ AnswersTo(req[c].key) = {}
  /\ pc' = [pc EXCEPT ![c] = "commit"]
  /\ reply' = [reply EXCEPT ![c] = {NewAnswer(c)}]
  /\ UNCHANGED <<dbVars, disabled, writers, req, now, prev, code>>

\* The idempotency record, inserted in the transaction under a primary key: a
\* key another call committed meanwhile rolls everything back.
PersistIdempotency(c) ==
  /\ pc[c] = "persist"
  /\ AnswersTo(req[c].key) = {}
  /\ pc' = [pc EXCEPT ![c] = "commit"]
  /\ UNCHANGED <<dbVars, disabled, writers, req, now, prev, code, reply>>

KeyConflict(c) ==
  /\ pc[c] = "persist"
  /\ AnswersTo(req[c].key) # {}
  /\ Finish(c, "TRANSACTION_FAILED", {})
  /\ UNCHANGED req

\* Any statement of the transaction may raise (I/O error, disk full): all of it
\* is rolled back.
StatementFails(c) ==
  /\ pc[c] \in WriteSection
  /\ Finish(c, "TRANSACTION_FAILED", {})
  /\ UNCHANGED req

\* Mutant: the audit event is not part of the transaction.
CommitUnrecorded(c) ==
  /\ pc[c] = "commit"
  /\ decision' = [decision EXCEPT ![req[c].decision] = NewRow(req[c])]
  /\ answers' = answers \cup {NewAnswer(c)}
  /\ writers' = writers \ {c}
  /\ pc' = [pc EXCEPT ![c] = "reply"]
  /\ reply' = [reply EXCEPT ![c] = {NewAnswer(c)}]
  /\ UNCHANGED <<audit, disabled, req, now, prev, code>>

\* COMMIT: the three writes become visible together and the lock is free.
Commit(c) ==
  /\ pc[c] = "commit"
  /\ decision' = [decision EXCEPT ![req[c].decision] = NewRow(req[c])]
  /\ audit' = Append(audit, NewEvent(c))
  /\ answers' = answers \cup {NewAnswer(c)}
  /\ writers' = writers \ {c}
  /\ pc' = [pc EXCEPT ![c] = "reply"]
  /\ reply' = [reply EXCEPT ![c] = {NewAnswer(c)}]
  /\ UNCHANGED <<disabled, req, now, prev, code>>

Return(c) ==
  /\ pc[c] = "reply"
  /\ Finish(c, "SUCCESS", reply[c])
  /\ UNCHANGED req

\* Mutant: the database is the default ":memory:".
RestartInMemory ==
  /\ pc' = [c \in Clients |-> "idle"]
  /\ code' = [c \in Clients |-> "LOST"]
  /\ reply' = [c \in Clients |-> {}]
  /\ now' = [c \in Clients |-> 0]
  /\ prev' = [c \in Clients |-> 0]
  /\ writers' = {}
  /\ audit' = <<>> /\ answers' = {}
  /\ UNCHANGED <<decision, disabled, req>>

\* The process dies at any point and comes back (hermes.service restarts it),
\* with the environment it is then given.  Open transactions are gone, the
\* file is as the last COMMIT left it, init_auth_db creates nothing anew.
Restart ==
  /\ pc' = [c \in Clients |-> "idle"]
  /\ code' = [c \in Clients |-> IF pc[c] = "idle" THEN code[c] ELSE "LOST"]
  /\ reply' = [c \in Clients |-> IF pc[c] = "idle" THEN reply[c] ELSE {}]
  /\ now' = [c \in Clients |-> 0]
  /\ prev' = [c \in Clients |-> 0]
  /\ writers' = {}
  /\ disabled' \in BOOLEAN
  /\ UNCHANGED <<dbVars, req>>

-----------------------------------------------------------------------------
Init ==
  /\ decision \in [Decisions -> [state : InitialStates, version : {1}]]
  /\ audit = <<>>
  /\ answers = {}
  /\ disabled \in BOOLEAN
  /\ writers = {}
  /\ pc = [c \in Clients |-> "idle"]
  /\ req = [c \in Clients |-> CHOOSE r \in Requests : TRUE]
  /\ now = [c \in Clients |-> 0]
  /\ prev = [c \in Clients |-> 0]
  /\ code = [c \in Clients |-> "NONE"]
  /\ reply = [c \in Clients |-> {}]

\* The steps of a call that has been made: the thread running it takes them.
Step(c) ==
  \/ Replay(c) \/ CheckIdempotency(c)
  \/ Begin(c) \/ LockTimeout(c)
  \/ ReadRefused(c) \/ ReadValidated(c)
  \/ UpdateDecision(c) \/ AppendAudit(c)
  \/ PersistIdempotency(c) \/ KeyConflict(c) \/ StatementFails(c)
  \/ Commit(c) \/ Return(c)

Next ==
  \/ \E c \in Clients, r \in Requests : CallRefused(c, r) \/ Call(c, r)
  \/ \E c \in Clients : Step(c)
  \/ Restart

Spec == Init /\ [][Next]_vars

\* A running thread is scheduled again, whatever the others do.  Callers need
\* not call and the process need not crash.
FairSpec == Spec /\ \A c \in Clients : WF_vars(Step(c))

-----------------------------------------------------------------------------
(* Properties *)

TypeOK ==
  /\ decision \in [Decisions -> [state : States, version : Nat]]
  /\ audit \in Seq(EventType)
  /\ answers \subseteq AnswerType
  /\ disabled \in BOOLEAN
  /\ writers \subseteq Clients
  /\ pc \in [Clients -> Labels]
  /\ req \in [Clients -> Requests]
  /\ now \in [Clients -> Nat]
  /\ prev \in [Clients -> Nat]
  /\ code \in [Clients -> Codes]
  /\ reply \in [Clients -> SUBSET AnswerType]

\* A call that has validated its row writes against that very row: between the
\* read and COMMIT no other call changes it.  (The comment of line 128, "Begin
\* transaction FIRST -- then read, validate, and mutate atomically".)  It is
\* also why the row count check of line 169 never fires.
NoStaleWrite ==
  \A c \in Clients :
     pc[c] \in {"update", "audit", "persist", "commit"} =>
        RowFound(c) /\ StateMatches(c) /\ VersionMatches(c)

\* The ledger replays to the row.  For each decision the versions of its events
\* are 2, 3, ... up to the row's, in the order of the ledger; each event starts
\* in the state the one before it ended in, and the last ends in the row's.
HistoryReplays ==
  /\ \A d \in Decisions : \A v \in 2 .. decision[d].version :
        \E n \in DOMAIN audit : audit[n].decision = d /\ audit[n].version = v
  /\ \A n \in DOMAIN audit :
        LET row == decision[audit[n].decision]
        IN  /\ audit[n].version \in 2 .. row.version
            /\ audit[n].version = row.version => audit[n].to = row.state
  /\ \A m, n \in DOMAIN audit :
        audit[m].decision = audit[n].decision =>
          /\ m < n => audit[m].version < audit[n].version
          /\ audit[n].version = audit[m].version + 1 => audit[n].from = audit[m].to

\* A key is spent at most once, on one event, and its stored result is the
\* result of that event: retries, races and crashes never apply a call twice.
OncePerKey ==
  /\ \A m, n \in DOMAIN audit : audit[m].key = audit[n].key => m = n
  /\ \A a, b \in answers : a.key = b.key => a = b
  /\ \A n \in DOMAIN audit : \E a \in answers : a.key = audit[n].key
  /\ \A a \in answers :
        /\ a.audit_id \in DOMAIN audit
        /\ audit[a.audit_id].key = a.key
        /\ audit[a.audit_id].to = a.new_state
        /\ audit[a.audit_id].version = a.new_version

\* What a caller has been told, or is about to be told, is in the file under
\* the key it called with, and stays there over a crash of the process.
AcknowledgedIsDurable ==
  \A c \in Clients : \A a \in reply[c] : a.key = req[c].key /\ a \in answers

\* Each event hashes the event just before it: while the clock moves forward
\* "the latest created_at" under the write lock is the last commit, so the hash
\* chain neither forks nor skips.
HashChainLinear == \A n \in DOMAIN audit : audit[n].prev = n - 1

\* Whatever the clock does, the chain leads back to GENESIS: an event hashes an
\* earlier one.
HashChainRooted == \A n \in DOMAIN audit : audit[n].prev \in 0 .. n - 1

\* With MUTATIONS_DISABLED the file does not change, not even by a call that
\* passed the gate before the process was restarted with it.
DisabledMeansFrozen == [][disabled => UNCHANGED dbVars]_vars

\* Events and idempotency records are only ever added.
AppendOnly ==
  [][ /\ Len(audit) <= Len(audit')
      /\ \A n \in DOMAIN audit : audit'[n] = audit[n]
      /\ answers \subseteq answers' ]_vars

\* Every call returns: nobody waits for the write lock for ever.
EveryCallReturns == \A c \in Clients : pc[c] # "idle" ~> pc[c] = "idle"

\* Every holder of the write lock gives it up, on the error paths too.
WriteLockReleased == \A c \in Clients : c \in writers ~> c \notin writers

-----------------------------------------------------------------------------
(* What makes the properties inductive *)

\* The lock is held exactly in the write section, by one client at a time.
LockInv ==
  /\ \A c \in Clients : c \in writers <=> pc[c] \in WriteSection
  /\ \A c, e \in writers : c = e

\* A validated transition is one the state machine has, from a row that counts
\* its versions from 1.
LegalWrite ==
  /\ \A d \in Decisions : decision[d].version >= 1
  /\ \A c \in Clients :
       pc[c] \in {"update", "audit", "persist", "commit"} =>
         CanTransition(req[c].expected_state, req[c].action, req[c].role)

\* The key is still free once the record is inserted, and the event is chained
\* to a committed one.
OpenTransaction ==
  \A c \in Clients :
     /\ pc[c] = "commit" => AnswersTo(req[c].key) = {}
     /\ pc[c] \in {"persist", "commit"} => prev[c] \in 0 .. Len(audit)

\* Nothing runs in a process started with MUTATIONS_DISABLED.
DisabledIdle == disabled => \A c \in Clients : pc[c] = "idle"

\* While the clock moves forward an event carries its own number, and the open
\* transaction the next one.
ClockInv ==
  ~ClockSteps =>
    /\ \A n \in DOMAIN audit : audit[n].created_at = n
    /\ \A c \in Clients :
         /\ pc[c] \in {"update", "audit", "persist", "commit"} => now[c] = Len(audit) + 1
         /\ pc[c] \in {"persist", "commit"} => prev[c] = Len(audit)
    /\ HashChainLinear

IInv ==
  /\ TypeOK
  /\ LockInv
  /\ NoStaleWrite
  /\ LegalWrite
  /\ OpenTransaction
  /\ DisabledIdle
  /\ HistoryReplays
  /\ OncePerKey
  /\ AcknowledgedIsDurable
  /\ HashChainRooted
  /\ ClockInv

-----------------------------------------------------------------------------
(* The adapter implements the ledger: seen from outside, the committed rows,
   events and keys change in whole transitions only. *)

LedgerEvent(e) == [decision |-> e.decision, action |-> e.action, role |-> e.role,
                   from |-> e.from, to |-> e.to, version |-> e.version, key |-> e.key]

Ledger == INSTANCE DecisionLedger WITH
  events <- {LedgerEvent(audit[n]) : n \in DOMAIN audit},
  spent  <- {a.key : a \in answers}

ImplementsLedger == Ledger!LedgerSpec
=============================================================================
