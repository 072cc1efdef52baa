# Hermes decision backend: TLA+ models, checks and proofs

This directory specifies the program under `src/backend/hos4c`: the services
through which decisions are approved, deferred and closed, the audit ledger that
records it, the alert engine that watches it and the backups it is restored
from. The modules model the code as it is, statement by statement where the
order of statements matters. TLC checks them on small instances; TLAPS proves
every safety property the runs check for all instances.

- [What the system is](#what-the-system-is)
- [Modules](#modules)
- [Runs](#runs)
- [Where code and documents differ](#where-code-and-documents-differ)
- [Fairness](#fairness)
- [Proofs](#proofs)
- [What is not modelled](#what-is-not-modelled)
- [Plan](#plan)

## What the system is

| Component | State | Operations | What is hard | What makes it correct |
|---|---|---|---|---|
| Decision state machine, `state_machine.py` | none: two tables | `validate_transition` | who may do what from where | every change of a decision is an edge taken by a permitted role |
| Authoritative adapter, `authoritative_adapter.py` | one SQLite file: decisions, audit events, idempotency records | `apply_transition`, reads, projection, dry-run import | concurrent callers, the write lock and its timeout, retries, crashes between statements, the clock | state, event and key change together; a key is spent once; what is acknowledged is durable; the events replay to the row |
| Audit ledger, `audit.py` | table `audit_events` | `record_audit_event`, `verify_hash_chain` | last hash read outside a transaction, order by a wall clock | the chain of an untouched ledger verifies |
| HTTP backend, `main.py`, `database.py` | decisions in memory; sessions, events and idempotency records in SQLite | login, logout, revoke, `perform_action` | a pool of threads on shared memory, a failing store half-way, restarts that lose the memory and keep the file | what is audited happened and was legal; revocation is final |
| Alert engine, `alert_engine.py` | counters per fingerprint, alerts | `process_event`, `acknowledge`, `escalate`, `resolve` | the window's edge, operators acting in any order | no alert missed, none unjustified, none duplicated while active |
| Backup and restore, `backup.py`, `encryption.py`, `restore.py` | archives, the two stores of the storage adapter, a catalogue, recovery requests, the files of their output directories | `create_backup`, `upload`, `record_catalog_entry`, `approve`, `run_recovery` | an upload that stops half-way or meets a restore, exceptions and re-runs, runs of one request that overlap, storage that decays, runs in one directory | a verified restore is of one whole backup; no run begins on an approval that was used up |
| Checkpoints, `checkpoint.py` | signed JSON files in a directory | build, sign, store, list, `verify_chain`, `check_missed_checkpoint` | files written in place, order by a name coarser than the timestamp inside, overlapping jobs, storage that loses or replays files | the verdict is exactly about the directory; an alarm lasts |
| OAuth login, `auth_oauth.py` | one-time states in memory | create, consume, callback | replays on several threads, expiry, failure after consumption, session before event | a state makes one session; no session in a browser without its login in the ledger |
| Final security, `final_security.py` | a record with a revision; results by key and tokens in memory | `mutate`, `execute_idempotent`, `consume_token` | check then act without a lock, a store and a record that die with the process | in the life of a process one effect per revision, and answers that are true and last |
| Git projection, `authoritative_adapter.py` | one file per decision | `project_to_directory` | a list read before, files written in place, exports that overlap | whole files are history; an export alone leaves a snapshot |
| Environment, observability, staging | environment variables, metrics | policy, startup checks, log lines | little | |
| Governance gates, `.hermes/scripts`, CI | a diff and its base | scope, protected zones, schemas | which base, failing tools | nothing passes unchecked |

How they interact: `main.py` calls the state machine, writes its ledger through
`audit.py` and its sessions and keys through `get_db`, each in a connection and
a transaction of its own. The adapter has its own transaction over a file that
may be the same one. `run_recovery` calls the storage adapter, the audit
verification and the checkpoint verification. Sessions, the ledger and the
idempotency records meet in one SQLite file; nothing else is shared.

The adapter and its projection, final security, the checkpoints and the restore
are not yet called by the HTTP backend ("isolated test mode"). They are modelled as the libraries they are,
with every interleaving their interface allows.

## Modules

### StateMachine

The two tables of `state_machine.py` as sets and functions, with
`CanTransition`/`Target` for the two outcomes of `validate_transition`. `LOCKED`
and `MIGRATION_REVIEW_REQUIRED`, which only the legacy import produces, are
states without edges.

### DecisionLedger, AuthoritativeAdapter

`DecisionLedger` is what the adapter's docstring promises: transitions happen
one at a time and whole, each along an edge, each recorded, each spending a key.

`AuthoritativeAdapter` is `apply_transition`, one action per statement or
outcome. `pc[c]` is the statement caller `c` is at:

| pc | Code | Actions |
|---|---|---|
| idle | gates, 112-118 | `CallRefused`, `Call` |
| check | key lookup outside the transaction, 121-126 | `Replay`, `CheckIdempotency` |
| begin | `BEGIN IMMEDIATE`, 129, with the busy timeout of 32 | `Begin`, `LockTimeout` |
| read | row, state, version, `validate_transition`, 130-157 | `ReadRefused`, `ReadValidated` |
| update | guarded `UPDATE`, 159-173 | `UpdateDecision` |
| audit | previous hash and event, 175-198 | `AppendAudit` |
| persist | key and result, 200-204 | `PersistIdempotency`, `KeyConflict` |
| commit, reply | 206, 216 | `Commit`, `Return` |
| any of the transaction | `except`, 207-214 | `StatementFails` |
| any | the process dies and is started again | `Restart` |

SQLite appears through what the code relies on: `writers` is the write lock of
the file, a transaction's writes are private until `Commit` installs them, and
closing the connection (`Finish`) gives the lock up on every path. Two
abstractions: SHA-256 is injective, so an event's `prev` is the position of the
event whose hash it took; and a `uuid4` names one event. `DATABASE_LOCKED` is
the `sqlite3.OperationalError` that `BEGIN` raises outside the `try`. The clock
is read inside the transaction: with `ClockSteps = FALSE` it moves forward
(each reading is later than the last committed one), with `TRUE` any reading of
`Times` may come. `UpdateDecision`'s refusal is kept although `NoStaleWrite`
shows it cannot happen: the code has it.

### AuditLedger, SimulationApi

`AuditLedger` is `audit.py` as functions of the table. `verify_hash_chain` is a
loop over the rows in time order that goes on from the last row that verified
(`Found`, a recursive function of the turns made). Times come from a wall clock and
may be equal, and SQL does not say in which order `ORDER BY created_at` lists rows
of one time: `LastHashes` is the set of hashes an append may be chained to,
`InTimeOrders` the set of orders verification may see, and `Verdicts` what it can say.

`SimulationApi` is `perform_action` and the sessions. The endpoints are plain
functions, which the server runs on a thread pool; CPython 3.11 (the version of
the CI) switches threads at calls and loop edges only, so the three statements
of lines 316-318 are one step, and everything between two calls is. The steps are:
`ValidateCsrf`, `ReadSession` (the session is read twice), `Validate`, `Apply`,
`ReadVersion`, `Stamp`, `ReadLastHash`, `Insert`, `Record`, `Respond`, with a
refusal beside each check and `StoreFails` wherever SQLite is used. `Stamp` takes
any reading of `Times`: the clock of `audit.py:38` may stand still or be set back at
any moment. `session` is the status of each row of the sessions table;
`RevokeAll` ends those of the caller's actor (`ActorOf`). `Restart` loses memory and
threads and keeps the file.

`ChainIntact` has the clock as its hypothesis (`InOrder`: later requests have later
times), since a repeated or earlier reading makes even one thread's ledger report
COMPROMISED; the other properties hold whatever the clock says. One service process runs
(`deploy/hermes.service`).

### AlertEngine

Events are elements with a number and a time, so the history `reported` and the
lists of timestamps the code keeps (`counters`) are sets that can be compared.
`Count` is what every call does first, then `BelowThreshold`, `Absorb` or
`Raise`. Operators act on any alert in any status, as the methods allow.

### Recovery

A database is abstracted to what the checks of a restore can tell: its revision,
whether its chain verifies, whether `integrity_check` passes. An archive is a copy
with a seal of its own (age encrypts with a fresh file key, so two archives
never have one checksum). `UploadData` and `UploadMetadata` are the two stores
of `upload`, between which anything may happen and `UploadFails` may leave the
new bytes under the old metadata.

A run is one call of `run_recovery`: `of` names its request, and it is one action per step, the gate, the catalogue and the assignment of line 93
together, since no call separates them. Runs of one request may overlap and share
`request.state`, which each of them overwrites; `Raises` ends a run at any step and
leaves the state last assigned. The gate looks at that state alone (`MayRun`), so
several runs can begin on one approval until the first of them has its download.
`RunNeedsApproval` is what the gate does keep: `unspent` says that a request was
approved and no run got past its download, or completed, since.

The files of a run are keyed as the code names them: `file` and `restored` by
output directory and backup id, `plain` (`restored.db`, line 49 of
`encryption.py`) by the directory alone. Each run works in one directory of
`Dirs`, several may share one, and `DecryptFails` may leave a partial database
there. `RestoredMatchesMetadata` is about a run that was `alone` in its directory
from its beginning to its end; without that it is false, as the section on
differences says.

### Checkpoint

`made` lists the payloads signed so far; a payload's number stands for its hash
and its signature, so a file holds a number, or is `Torn`, `Altered` or
`Absent`. The reading functions are operators on a directory, named as in the
code; `verify_chain` is what `Verified`, its loop, has found after the last file in
the order of their names. The clock is finer than the names: `now` is a
reading, `SecondOf` what a name shows of it. `Build` takes the name and `Stamp`, at a
second reading, the timestamp (lines 59 and 60), so that neither two names of one
second nor two jobs held up in between need be in the order of their timestamps;
`check_missed_checkpoint` sorts by the one and measures by the other, as the code
does. No function runs a whole job: `ReadLatest`, `Build`, `Stamp`, `Open`,
`Write` follow the order in which the tests call the functions, by jobs that may
overlap and die (`Crash`). Opening and writing are two steps since the file is
empty in between. `StorageFault` loses, alters or copies a file. `Ancestry` is
what a checkpoint claims to stand on; one built on an altered file stands on that,
so no directory holds its whole ancestry, and `VerdictExact` says that none
verifies. (An earlier `Ancestry` that left such a file out was right within the
bounds of the run and refuted by three faults in a row; attempting the proof found
it.)

### OAuthLogin

Extends `SimulationApi`: a callback occupies a thread of the same pool, adds to
the same sessions and the same ledger, with the same three steps of
`record_audit_event`. `oauth` is `OAUTH_STATES`; `Consume` pops whatever the state
is worth, before the exchange, which `Identify` and `IdentifyFails` stand for. A
redirect may come back any number of times and on any thread (`Callback`). A
browser acts only under a session whose cookie it was `sent`, and what wants a CSRF
token only under one whose token it has (`tokens`): both are random. A simulated
login sends both, a callback the cookie alone. So under a GitHub session
`perform_action`, `revoke_session` and `revoke_all_sessions` are refused, and
`auth_logout` is all that is left (`GitHubSessionsIdle`, a theorem). `LoginsShown` is
about what does happen: the ledger against the sessions that browsers hold.
`OwnerActor` and `SimulatedActor` are the actors that sessions of the two logins
belong to; the run gives them one value, the proofs any.

### FinalSecurity

`execute_idempotent` around `DecisionRecord.mutate`, which is what it is for.
Threads are switched where the code calls something: on entry to the function it
was given (between `Unseen` and `Mutate`) and before the result is stored. Within
`mutate`, from the gate to the new revision, nothing is called. `Restart` empties
the store and the tokens and may come up at another level. The record is a plain
object that nothing persists: it is built again with any state, at any revision it
has had, in particular at the one before a change whose result nobody was told. The
histories `applied` and `answers` begin again with it, so the properties are about the
life of one process.

`VersionedRecord` is what the guards promise together: one record, which a call that
expects its revision changes in one step, and callers who are told of changes that
were made. It has no threads and no store, and its `Rebuild` begins another record.
`ImplementsRecord` says that `FinalSecurity` implements it, with the level and the
switch as one permission: `Mutate` is its `Apply`, `Store` and `ReturnPrior` are its
`Answer`, `Restart` its `Rebuild`, and nothing else shows.

### GitProjection

Extends `DecisionLedger`: by the refinement, what it shows over the ledger's
atomic transitions holds over the adapter. An exporter reads the rows (`Begin`),
then opens and writes the files one by one in any order. A file is a row, missing,
or `Torn`: truncated and not yet written, or two texts in one, which happens when
another exporter wrote the file after it was opened (`clobbered`) and its text
was longer. `alone` says that no other export has been under way since this one
began.

Every definition that stands for code is listed in `PROJECT.json` under `map`
with its lines. Definitions commented "Mutant" are deliberate errors in one
definition each; they are used in no specification and serve to show that each
property would notice.

## Runs

| Run | Bounds | What it shows |
|---|---|---|
| AuthoritativeAdapter | 2 clients, 2 decisions and one that does not exist, 2 keys, 6 kinds of request | types, `NoStaleWrite`, `HistoryReplays`, `OncePerKey`, `AcknowledgedIsDurable`, `HashChainLinear`, `DisabledMeansFrozen`, `AppendOnly`, and refinement of `DecisionLedger` |
| AdapterClock | 2 clients, 2 decisions of which the requests name one, 3 keys, clock in {1, 2} in any order, fair threads, no symmetry | the chain still leads to GENESIS; every call returns, every lock is released |
| SimulationSingle | 1 thread, 3 requests, 2 sessions, clock in {1, 2, 3} in any order, 1 restart | a sequential server keeps its chain while the clock goes forward, and records legal transitions only; once a session ended, only requests already let through may finish under it |
| SimulationThreads | 2 threads, 3 requests, clock in {1, 2} in any order | what survives concurrency: no event without its change, no key without its event, and a broken chain stays broken |
| Alerts | 2 rules (threshold 1 and 2), 1 source, 3 events, times 0-3, 3 roles | both directions of "an alert at the threshold", and deduplication |
| Recovery | 1 backup id, 2 archives, 1 change of the live database, 3 runs of 1 request in 1 directory, 2 approvals | a verified restore of a run alone in its directory is of one whole, sound archive; no run begins on an approval that was used up |
| FinalSecurity | 3 threads, 2 keys for one payload each and 1 for two, revisions 1 and 2 expected, 1 token, levels 2 and 3, 1 restart that may put the revision back | in the life of a process one effect per revision, entries that last, and refinement of `VersionedRecord`: an answer is of what was done |
| Checkpoint | 2 jobs, 3 checkpoints, 2 seconds with 2 names each, clock read in half seconds, 1 crash or fault | the verdict is exact, false alarms have three causes only, alarms last, the age check is right about seconds, and about timestamps unless two checkpoints share a second or a predecessor |
| GitProjection | 2 exporters, 3 exports, 2 decisions, 2 transitions | whole files are history; alone, an export is one snapshot and goes forward |
| OAuthLogin | 2 threads, 1 one-time state, 2 sessions, 3 requests with a CSRF token or without, owner and stranger, clock in {1, 2} in any order, 1 restart | one session per state; no session in a browser without its login in the ledger, each login there once |

`SimulationChain` and `SimulationRace` check one documented claim each and TLC
finds it violated; they are the subject of the next section.

Why the bounds are enough. In the adapter each commit spends a key, so the keys
bound the ledger; two clients are enough for any race on one lock, one row or
one key, and the versions 1 to 3 of the requests include stale, current and
future ones. The clock run needs three events, the least for a tie to matter to a
later one. In `SimulationApi` three requests on two threads give an overlap and a
request after it, and three readings of the clock order three events in every
way, ties included. Two events of the threshold-two rule fit inside, at the edge of
and outside its window, and the third re-raises. One backup id with two archives
is the least for an upload to replace what a restore is reading. Of three runs of one
request two can overlap and a third try again on what they left, before or after a
second approval; in one directory they meet at every file, and one that begins when
the others are over is alone. Runs in two directories share no file and runs of two
requests no state, so the proofs, not the run, cover those. Three threads of `FinalSecurity` are two that race and one that arrives
between them. Three checkpoints give a first, a middle and a last one, so that
losing each is another case, and two jobs a fork. Four readings of the clock in two
seconds give a name and a timestamp in one second or in two, ages below, at and
beyond the limit, and the last name of a second with the older timestamp; two
seconds leave `CleanDirectoryVerifies` two checkpoints to be about, of which its
theorem admits any number. A third export follows two that overlapped or died. One
one-time state is enough, since states do not touch each other; three requests
are a callback, its replay, and an action, which gets through under a simulated
session and never under a GitHub one. Clients, threads and
other interchangeable things are declared symmetric where no liveness is checked.

Deadlock is checked in the adapter, alert and final-security runs. The others may
stop: their bounds on requests, logins, runs, checkpoints or exports are exhausted.

## Where code and documents differ

Each line is a run whose counterexample was read against the code.

| Run | The code | The claim |
|---|---|---|
| SimulationChain | `_get_last_hash` runs outside a transaction | `audit.py:1`, HOS-4D:254, chain intact |
| SimulationRace | no version is compared and the state is read again after validation | HOS-4C:205, the second tab gets 409 |

Others were met while modelling, and the models do what the code does:

- the adapter looks a key up before it takes the lock, so a retry in flight beside
  its first execution is refused with STATE_MISMATCH although the transition was
  made (`authoritative_adapter.py:121`); HOS-4C:211 wants the original result;
- a decision is changed in memory before its event is written and stays changed
  when that fails (`main.py:317`); HOS-4C:229 wants both or neither;
- escalating or acknowledging revives a resolved alert (`alert_engine.py:165`,
  `:155`), which is then open beside a later one of its fingerprint; `:128` looks for
  "existing alert with same fingerprint";
- a stored result is returned for its key alone (`authoritative_adapter.py:125`);
  HOS-4C:212 wants the same key with another payload rejected;
- the previous event is found by wall-clock time (`:177`), so after a tie or a
  clock set back the chain skips or forks, where HOS-4C:184-185 wants a total
  order; `HashChainRooted` is what remains of it;
- the backend's ledger is ordered by wall-clock time too (`audit.py:14`, `:86`): one
  thread and one clock that repeats a reading or is set back, between two events or
  over a restart, are enough for COMPROMISED, which `audit.py:1` and HOS-4D:254 do
  not expect of a ledger that was only appended to;
- `github_callback` drops the CSRF token of the session it creates (`main.py:174`)
  and sends the cookie alone (`:196-199`), and no endpoint returns the token: a
  session that GitHub vouched for can perform no action and revoke nothing
  (`GitHubSessionsIdle`), only be logged out, although the comment at `:173` says
  "Create authenticated session";
- nothing persists the record of `final_security.py:36` or the store of `:53`. After a
  restart a retry finds no entry, and takes effect again if the record was built at
  the revision it expects; "Returns prior result on duplicate" (`:59`) holds in the
  life of a process;
- `previous_state` of a response is read after the change (`main.py:351`), so it
  names the new state;
- sessions are rows of a file and survive a restart (`main.py:62`); HOS-4D.2:262
  says they are invalidated;
- `suppression_window` is never read (`alert_engine.py:115`; HOS-4D.4B:122, no
  re-alert within the window), and `resolve` ignores the acknowledgement (`:168`;
  HOS-4D.4B:134, closure requires it);
- `invalidate_sessions` is never called by the restore (`restore.py:171`;
  HOS-4D.4C.3:32), whose checkpoint gate verifies the empty list (`:153`, "mandatory
  gate" in the line above it), and `"verified": True` in the catalogue is a constant
  (`encryption.py:143`; HOS-4D.4C:154-156);
- `IN_REVIEW` and `RETURNED` cannot be reached from any state a decision starts
  in (for the adapter a theorem, `ReviewIsUnreachable`); HOS-4C:27 lets DEFER leave IN_REVIEW and HOLD, the table does not;
- `check_missed_checkpoint` returns the opposite of its docstring
  (`checkpoint.py:147`), and is not about the youngest checkpoint: of two in one second
  the last by name may have the older timestamp, as may one whose job was held up
  before line 60, and is then reported missed although another is within the limit;
- `get_latest_checkpoint`, "most recent", takes the last name: of two checkpoints in
  one second the random digits decide (`:106`), after which the next one may
  build upon the older and the chain does not verify, although nothing is
  damaged; two overlapping jobs fork it; and a file torn by a crash makes the
  reading functions raise, so no later job gets past it (`:93`);
- `execute_idempotent`, "Execute fn only if key not yet consumed"
  (`final_security.py:59`), runs it for every thread that looks the key up before
  the first result is stored; the revision check is what makes one of them take
  effect. A key used with two payloads by two threads gets its entry overwritten;
- an empty list of decisions exports all of them (`authoritative_adapter.py:278`);
  overlapping exports can mix two texts in a file or put an older version over a
  newer one (`:288`);
- the approval gate lets through a request in RECOVERY_POINT_SELECTED, the state a run
  sets first (`restore.py:85`, `:93`): runs that overlap, a caller's retry while the
  first call is under way, both complete on one approval, where HOS-4D.4C.3:21 lists
  request, approval and selection as steps of each recovery; and a run under way
  overwrites an approval given meanwhile;
- two recoveries that share an output directory share `restored.db`
  (`encryption.py:49`): one may restore, verify and complete with the other's
  database;
- `perform_action`'s idempotency lookup uses a key made a line before.

## Fairness

Only `AdapterClock` states fairness: weak fairness of each client's `Step`.
A thread inside `apply_transition` is scheduled again by the operating system,
each of its statements ends (waiting for the write lock is bounded by the busy
timeout of line 32, hence `LockTimeout`), and the process may still die, which
ends the call as well. Calls themselves, restarts and switching the gate are not
fair. Weak fairness is enough because a client's next step stays enabled until
it is taken: another client can change which one it is, not whether there is one.

## Proofs

The eight modules named `...Proofs` are checked by tlapm with SMT, Zenon and LS4. The
assumptions are the named ones of the modules (`ConstantsAssumption`,
`ApiAssumption`, `LoginAssumption`, `CheckpointAssumption`, `EngineAssumption`,
`RecoveryAssumption`, `SecurityAssumption`, `ProjectionAssumption`): types of the
constants, positive thresholds and windows, a call to make, a request body and a
one-time state to name. No bound on clients, threads, decisions, sessions, keys,
rules, checkpoints, backups or exports enters. The invariant of each proof was
model-checked before it was proved.

*Backend.* `Related` (the parts of `IInv` about ids) holds what the three separate
transactions of a request keep of each other: a thread serves a request of its own,
a request has one event from its `INSERT` on, an event was chained to one that is
there. Nothing in it is about the clock. `RecordsAreAudited` is its last line.
`VersionsLead` pays for each event in advance: the change of a decision raises its version and makes one thread owe an
event (`Unaudited`), the `INSERT` moves one from owed to written, and a failing
store forgives it; a restart loses the versions, which is why `NoAuditWithoutMutation`
ends there. `SessionsStayEnded` goes through each step that can change a session or let
a request through.

*Hash chain.* `VerificationExact` says what `verify_hash_chain` means: `INTACT` if and only
if every row was computed from the row before it in time (`Linked`), for a table of
any size with distinct times. The loop is a recursive function; that it is defined
and what it has found after `n` rows is shown by induction. The library's induction
theorems cannot be instantiated here, so `UpTo` states induction for a set of
numbers and proves it from the least counterexample (`LeastNat`, from the
well-foundedness of `<`). With ties, what can be reported is one verdict for each
order the rows can be listed in (`TimeOrderExists`: there is one). Why no append mends a
chain (`ChainStaysBroken`): suppose some order of the rows with the new one verified.
No row was computed from the new one, whose hash was not in the table before; in
a chained order every row but the last has another computed from it, so the new
row is the last, and without it the same order is a chained one of the rows before
(`ChainedWithout`).
For a pool of one thread (`OneThread`, the hypothesis of the two `Sequential`
theorems) the hash a request read is still a last one when it inserts, and its id is
beyond those in the table (`LastToWrite`): so each event was computed from the last
before it in time as long as the clock went forward (`InOrder`, the hypothesis of
`ChainIntact`), over failures and restarts, and the ledger verifies; and the edge it
validated starts at the state it will record (`EdgeHeld`). For more threads both are
false, as the section on differences says.

*Checkpoints.* `Listing` says what sorting the directory by name yields: every file
once, each at the place counted by the names before it. With the loop of
`verify_chain` treated like that of the ledger, a directory verifies exactly if its
records are a chain (`ChainVerifies`); a chain is the ancestry of its last record
(`ChainIsAncestry`) and an ancestry that was all signed is a chain
(`AncestryChained`), which gives `VerdictExact`. `Ancestry` is well defined since what is built
on was signed before (`SignedBefore`). `AlarmsLast`: nothing is built on a checkpoint that
is not stored yet (`NotYetStored`), so a chain with a newly closed file in it has that
file at the end, and was a chain before. `CleanVerifies`: without a fork each checkpoint
stands on the one signed just before it (`UnforkedPrev`), without two in a second the names
are in the order of signing, so the list of files counts up (`CountsUp`).
`MissedIsExact`: no file has a later second than the last by name, and before the first
fault a payload is stamped in its second or later and after the one it was built on
(`StampedInTime`); so a file that is too old by its timestamp is the last of seconds that
are all too old, and without a fork the timestamps are in the order of signing
(`StampsInOrder`), hence the last file's is the youngest.

*Adapter.* None of the properties is inductive alone. The strengthening `IInv`
adds: the lock is held exactly in the write section and by one client
(`LockInv`); the open transaction's transition is legal (`LegalWrite`); its key
is still free and its previous hash is committed (`OpenTransaction`); a process
with mutations disabled runs nothing (`DisabledIdle`); with a forward clock an
event's timestamp is its number (`ClockInv`). The argument: the lock makes the
reader of a row its only writer, so at `Commit` the row is still the one
validated (`NoStaleWrite`), so the new event continues the row's history
(`HistoryReplays`), under a key no event has (`OncePerKey`). The step theorems
follow from the same invariant: `DisabledMeansFrozen`, `AppendOnly`, and
`ImplementsLedger`, where `Commit` maps to `DecisionLedger`'s transition along
the edge of the state machine and every other action to a stutter.
`HashChainLinear` is proved under `~ClockSteps`, which is the truth of it: a tie or
a step back refutes it, and `HashChainRooted` needs no such assumption.

*Alerts.* `CountersComplete` says that the counters hold every reported event
still in its window: what pruning drops never returns to a window, since the
clock moves forward. With it the events counted are exactly the events of the
window, and both `AlertAtThreshold` (no alert missed, a property of steps) and
`AlertJustified` (none for nothing) follow. `ResolvedIsStamped` carries
`DedupUntilResolved` over operators that revive alerts.

*Recovery.* `Established` says what a run that is `alone` in its directory has checked
by the step it is at, in terms of the run's own files, so that no upload and no
other run disturbs it: the others are over or write under other paths
(`AloneIsAlone`), and one that begins beside it ends its being alone. `GateIsApproval`
says that a request in a state that passes the gate has an unspent approval: the
states of later steps do not pass, so whichever of several runs assigns the state
last after a download, it leaves one that no further run begins on.

*Final security.* No lock protects the store; the revision does. `AppliedInPast` says
that whatever was carried out expected the revision before the one it made, and
that this is past: so the next mutation expects a revision nothing carried out
expected (`AppliedOncePerRevision`). `ResultsTrue` and `StoreTrue` carry a result from
`mutate` to the store and to later callers (`AnswersAreTrue`). For `StoredForLife`: if
a key stands for one payload, two results under it were carried out for one
revision, hence are the same, so the second thread stores what is there. The same
two make the refinement (`RecordImplemented`): what a thread is about to tell, from the
store or from `mutate`, is in `applied`, so telling it is the abstract record's `Answer`,
however long ago it was carried out in this process. A restart maps to `Rebuild`.

*Projection.* `ListsAreHistory` says that a list, however old, was the ledger at one
moment, which transitions cannot undo since the ledger only appends; every
text comes from a list, so every whole file is history. `AloneInv` gives an export that is
alone its file for itself. With `PublishedIsCommitted`, what it read when it
began is at least as new as anything published, and nobody publishes after.

*Login.* `SpentStates`: a state that made a session, or that a thread may still make one
for, is gone from memory, and at most one thread holds it. `Consume` pops before
anything can fail, so a replay finds nothing. `SessionsOwned`: a session a callback
created is that thread's alone until its cookie is sent, has no event before the
`INSERT` and one from it on; so a cookie that is out has its event, and no session has
two (`LoginsShown`). `TokensHeld`: the sessions whose CSRF token somebody has are not
those of callbacks, and a request past `validate_csrf`, hence every event but a login,
is under one of the former (`GitHubSessionsIdle`). No clock enters. The steps of
`SimulationApi` are those of its own proofs.

Proved without a run of their own: `VerificationExact`, `GitHubSessionsIdle`, the types of `FinalSecurity` and
`GitProjection`, `AnswersAreTrue` and `TokenUsedOnce`, and two facts about the adapter's rows
(`RowsFollowEdges` and the table): `ReviewIsUnreachable` and `ImportedLocksStay`. Only model-checked: liveness (`EveryCallReturns`,
`WriteLockReleased`), which needs fairness and `ENABLED`; and the refuted claims, which
are counterexamples.

## What is not modelled

- Decoding and formatting of requests, HTML, cookies and headers as text, rationale
  contents, metrics and log lines: no property is about them. Cryptography is taken
  to be perfect.
- The read-only endpoints and `dry_run_import` change nothing; the latter counts.
- Environment policy, staging checks, manifests, retention, credential permissions,
  `RecoveryTimer`, the role table, transition table and checklist of
  `final_security.py`: pure functions of their arguments, of constant tables or of
  the host, with no state a run could explore.
- The static command-center pages and the deployment files have no state.
- The governance gates are shell checks of a diff in CI; they share nothing with
  the backend.
- SQLite's own atomicity and durability are assumed, not shown.
- Clocks. In `SimulationApi` and `OAuthLogin` any reading may follow any other. In
  `AuthoritativeAdapter` too, in the run `AdapterClock` and in all theorems; only
  `HashChainLinear` and the run `AuthoritativeAdapter` assume a clock that goes
  forward (`ClockSteps = FALSE`). In `AlertEngine` and `Checkpoint` the clock stands
  still or goes forward: set back, the alert window has no meaning that the code or
  a document fixes, and checkpoint names are no longer in the order in which they were
  built, one more cause of the false alarms that `CleanDirectoryVerifies` is about.
- Switches of threads elsewhere than CPython 3.11 makes them: at calls and at the
  edges of loops.

## Plan

Done: the state machine, the ledger and adapter, the simulation backend with its
ledger, the OAuth login on top of it, the alert engine, backup and restore, the
checkpoints, the final security gates, the Git projection; proofs of every
invariant and action property that a run checks.

What is left, in order of what it would add:

1. An abstract specification of the backend's ledger that its concurrent threads do
   implement, and the refinement proved; for one thread, `DecisionLedger` itself.
2. `Checkpoint` composed with `Recovery`: what a reconciliation that did verify the
   checkpoints of the restored ledger would reject.
3. The alert engine under a clock that steps, once it is decided what it promises.
4. The governance gates, on their base commits and with a git that fails.
