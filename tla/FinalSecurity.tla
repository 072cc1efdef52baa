--------------------------- MODULE FinalSecurity ----------------------------
(***************************************************************************)
(* The mutation guards of src/backend/hos4c/final_security.py: a record    *)
(* with a revision, the idempotency store in front of it, single-use       *)
(* tokens and the activation level, under threads of one process.          *)
(* execute_idempotent takes no lock: a thread can be interrupted when it   *)
(* enters the function it was given and before it stores the result.  The  *)
(* store, the tokens and the record die with the process: nothing here     *)
(* keeps them, and a record is built again with whatever state and         *)
(* revision its caller gives.                                              *)
(***************************************************************************)
EXTENDS Naturals

CONSTANTS Threads,
          Keys,          \* idempotency keys
          RecordStates,  \* states a record may be given
          MaxRevision,   \* bound: revisions expected by callers
          Calls,         \* what callers ask for
          Levels,        \* activation levels a process is started with
          Tokens,
          MaxRestarts    \* bound: restarts of the process

\* Stands for payload_hash: the arguments the hash was taken of.
PayloadType == [new_state : RecordStates, expected_revision : 1 .. MaxRevision]

CallType == [key : Keys, payload : PayloadType]

ASSUME SecurityAssumption ==
  /\ Calls \subseteq CallType /\ Calls # {}
  /\ Levels \subseteq 0 .. 4
  /\ MaxRevision \in Nat /\ MaxRestarts \in Nat

VARIABLES
  record,      \* DecisionRecord: state and revision
  store,       \* IDEMPOTENCY_STORE: per key, no entry or one
  consumed,    \* CONSUMED_TOKENS
  level,       \* CURRENT_ACTIVATION_LEVEL
  enabled,     \* MUTATIONS_ENABLED
  restarts,
  pc,
  call,        \* per thread, the arguments of execute_idempotent
  result,      \* per thread, what fn returned
  \* Histories of the life of the process:
  answers,     \* what callers were given, with what they asked
  applied,     \* the payloads mutate carried out, with what it returned
  accepted     \* per token, how often it was called a first use

vars == <<record, store, consumed, level, enabled, restarts, pc, call, result,
          answers, applied, accepted>>

EntryType == [payload : PayloadType, result : Nat]

Done(payload, revision) == [payload |-> payload, result |-> revision]

Goto(t, label) == pc' = [pc EXCEPT ![t] = label]

-----------------------------------------------------------------------------
mutations_authorized == level >= 3 /\ enabled

\* execute_idempotent is called.
Execute(t, c) ==
  /\ pc[t] = "idle"
  /\ call' = [call EXCEPT ![t] = c]
  /\ Goto(t, "lookup")
  /\ UNCHANGED <<record, store, consumed, level, enabled, restarts, result, answers,
                 applied, accepted>>

\* The entry of the key, if it is of the same payload.
Prior(t) == {e \in store[call[t].key] : e.payload = call[t].payload}

\* A prior result is returned ...
ReturnPrior(t) ==
  /\ pc[t] = "lookup"
  /\ \E e \in Prior(t) :
       answers' = answers \cup {Done(call[t].payload, e.result)}
  /\ Goto(t, "idle")
  /\ UNCHANGED <<record, store, consumed, level, enabled, restarts, call, result,
                 applied, accepted>>

\* ... another payload under the key raises IDEMPOTENCY_KEY_CONFLICT ...
KeyConflict(t) ==
  /\ pc[t] = "lookup"
  /\ store[call[t].key] # {} /\ Prior(t) = {}
  /\ Goto(t, "idle")
  /\ UNCHANGED <<record, store, consumed, level, enabled, restarts, call, result,
                 answers, applied, accepted>>

\* ... and an unknown key lets the thread through to fn.
Unseen(t) ==
  /\ pc[t] = "lookup"
  /\ store[call[t].key] = {}
  /\ Goto(t, "mutate")
  /\ UNCHANGED <<record, store, consumed, level, enabled, restarts, call, result,
                 answers, applied, accepted>>

\* Mutant: a revision that is not ahead of the record's is taken for current.
NotAhead(t) == call[t].payload.expected_revision <= record.revision

Current(t) == record.revision = call[t].payload.expected_revision

\* fn, which is DecisionRecord.mutate.  From the gate to the new revision it
\* calls nothing, so no other thread comes between.
Mutate(t) ==
  LET payload == call[t].payload
      new == record.revision + 1
  IN  /\ pc[t] = "mutate"
      /\ mutations_authorized /\ Current(t)
      /\ record' = [state |-> payload.new_state, revision |-> new]
      /\ applied' = applied \cup {Done(payload, new)}
      /\ result' = [result EXCEPT ![t] = new]
      /\ Goto(t, "store")
      /\ UNCHANGED <<store, consumed, level, enabled, restarts, call, answers, accepted>>

\* MUTATIONS_DISABLED or REVISION_CONFLICT: fn raises, no result is stored.
MutateRaises(t) ==
  /\ pc[t] = "mutate"
  /\ ~(mutations_authorized /\ Current(t))
  /\ Goto(t, "idle")
  /\ UNCHANGED <<record, store, consumed, level, enabled, restarts, call, result,
                 answers, applied, accepted>>

\* Mutant: the revision of the record is stored, not the one fn returned.
StoreRevision(t) ==
  /\ pc[t] = "store"
  /\ store' = [store EXCEPT ![call[t].key] = {Done(call[t].payload, record.revision)}]
  /\ answers' = answers \cup {Done(call[t].payload, result[t])}
  /\ Goto(t, "idle")
  /\ UNCHANGED <<record, consumed, level, enabled, restarts, call, result, applied, accepted>>

\* The result is stored over whatever is there by now, and returned.
Store(t) ==
  /\ pc[t] = "store"
  /\ store' = [store EXCEPT ![call[t].key] = {Done(call[t].payload, result[t])}]
  /\ answers' = answers \cup {Done(call[t].payload, result[t])}
  /\ Goto(t, "idle")
  /\ UNCHANGED <<record, consumed, level, enabled, restarts, call, result, applied, accepted>>

\* consume_token, by any thread: True.  False changes nothing.
ConsumeToken(token) ==
  /\ token \notin consumed
  /\ consumed' = consumed \cup {token}
  /\ accepted' = [accepted EXCEPT ![token] = @ + 1]
  /\ UNCHANGED <<record, store, level, enabled, restarts, pc, call, result, answers, applied>>

\* The process dies and is started again, perhaps at another level.  The record
\* is built again (DecisionRecord.__init__) at a revision somebody knew of: the
\* last one only if the caller was told of it and kept it.
Restart ==
  /\ restarts < MaxRestarts
  /\ restarts' = restarts + 1
  /\ record' \in [state : RecordStates, revision : 1 .. record.revision]
  /\ answers' = {} /\ applied' = {}
  /\ store' = [k \in Keys |-> {}]
  /\ consumed' = {}
  /\ accepted' = [token \in Tokens |-> 0]
  /\ level' \in Levels /\ enabled' \in BOOLEAN
  /\ pc' = [t \in Threads |-> "idle"]
  /\ UNCHANGED <<call, result>>

-----------------------------------------------------------------------------
Init ==
  /\ record \in [state : RecordStates, revision : {1}]
  /\ store = [k \in Keys |-> {}]
  /\ consumed = {}
  /\ level \in Levels /\ enabled \in BOOLEAN
  /\ restarts = 0
  /\ pc = [t \in Threads |-> "idle"]
  /\ call \in [Threads -> {CHOOSE c \in Calls : TRUE}]
  /\ result = [t \in Threads |-> 0]
  /\ answers = {} /\ applied = {}
  /\ accepted = [token \in Tokens |-> 0]

\* The steps of a call of execute_idempotent.
Step(t) ==
  \/ ReturnPrior(t) \/ KeyConflict(t) \/ Unseen(t)
  \/ Mutate(t) \/ MutateRaises(t) \/ Store(t)

Next ==
  \/ \E t \in Threads, c \in Calls : Execute(t, c)
  \/ \E t \in Threads : Step(t)
  \/ \E token \in Tokens : ConsumeToken(token)
  \/ Restart

Spec == Init /\ [][Next]_vars

-----------------------------------------------------------------------------
(* Properties *)

TypeOK ==
  /\ record \in [state : RecordStates, revision : 1 .. MaxRevision + 1]
  /\ store \in [Keys -> SUBSET EntryType]
  /\ consumed \subseteq Tokens
  /\ level \in Levels /\ enabled \in BOOLEAN
  /\ restarts \in 0 .. MaxRestarts
  /\ pc \in [Threads -> {"idle", "lookup", "mutate", "store"}]
  /\ call \in [Threads -> Calls]
  /\ result \in [Threads -> Nat]
  /\ answers \subseteq EntryType /\ applied \subseteq EntryType
  /\ accepted \in [Tokens -> Nat]

\* In the life of a process, of all the calls that expect one revision, whatever
\* their keys, at most one takes effect: racing past the lookup with nothing
\* stored yet, the others meet the revision check (lines 46-47).  A restart begins
\* anew: the record may go back to a revision at which a retry takes effect again.
AppliedOncePerRevision ==
  \A a, b \in applied :
    a.payload.expected_revision = b.payload.expected_revision => a = b

\* What a caller is told, first result or prior one, is what its own payload did
\* to the record, however many others changed the record before it was stored.
AnswersAreTrue == answers \subseteq applied

\* Callers use the key for one payload.  idempotency_key derives a key from the
\* payload, which makes it so; execute_idempotent takes any.
OnePayload(k) ==
  \A b, c \in Calls : b.key = k /\ c.key = k => b.payload = c.payload

\* "Returns prior result on duplicate" (line 59): as long as a key stands for one
\* payload its entry never changes in the life of the process.  Two threads do run
\* fn under one key; the one that stores is the one whose revision was current.
StoredForLife ==
  [][ \A k \in Keys :
        store[k] # {} /\ OnePayload(k) /\ restarts' = restarts
          => store'[k] = store[k] ]_vars

\* Seen through the record, what was carried out and what callers were told, the
\* threads and the store written without a lock are one atomic record: every step
\* of theirs is one call taking effect on the revision it expected, one true
\* answer, or nothing; and a restart begins another record.
Abstract == INSTANCE VersionedRecord WITH
  Payloads   <- {c.payload : c \in Calls},
  authorized <- mutations_authorized

ImplementsRecord == Abstract!RecordSpec

\* A token is called a first use at most once in the life of the process.
TokenUsedOnce == \A token \in Tokens : accepted[token] <= 1

-----------------------------------------------------------------------------
(* What makes them inductive *)

\* What was carried out expected the revision before the one it made.
AppliedInPast ==
  \A a \in applied :
    a.result = a.payload.expected_revision + 1 /\ a.result <= record.revision

\* A result waiting to be stored is of something carried out for that call ...
ResultsTrue ==
  \A t \in Threads :
    pc[t] = "store" => Done(call[t].payload, result[t]) \in applied

\* ... and so is a stored one, for some call with its key.
StoreTrue ==
  \A k \in Keys :
    /\ store[k] \subseteq applied
    /\ \A e, f \in store[k] : e = f
    /\ \A e \in store[k] : \E c \in Calls : c.key = k /\ c.payload = e.payload

\* A token this process has not consumed it has never accepted.
TokensFresh ==
  \A token \in Tokens : token \notin consumed => accepted[token] = 0

IInv ==
  /\ TypeOK
  /\ AppliedInPast /\ AppliedOncePerRevision
  /\ ResultsTrue /\ StoreTrue /\ AnswersAreTrue
  /\ TokensFresh /\ TokenUsedOnce
=============================================================================
