--------------------- MODULE AuthoritativeAdapterProofs ---------------------
(***************************************************************************)
(* TLAPS proofs about AuthoritativeAdapter, for any clients, decisions,    *)
(* keys and requests and either kind of clock: the inductive invariant     *)
(* IInv, the properties it implies, and that the adapter implements        *)
(* DecisionLedger.                                                         *)
(***************************************************************************)
EXTENDS AuthoritativeAdapter, TLAPS

-----------------------------------------------------------------------------
(* The steps that leave the file alone *)

\* Every step of a call but COMMIT.
QuietStep(c) ==
  \/ Replay(c) \/ CheckIdempotency(c)
  \/ Begin(c) \/ LockTimeout(c)
  \/ ReadRefused(c) \/ ReadValidated(c)
  \/ UpdateDecision(c) \/ AppendAudit(c)
  \/ PersistIdempotency(c) \/ KeyConflict(c) \/ StatementFails(c)
  \/ Return(c)

\* Next, with COMMIT apart from the rest.
LEMMA NextSplit ==
  ASSUME Next
  PROVE  \/ \E c \in Clients, r \in Requests : CallRefused(c, r) \/ Call(c, r)
         \/ \E c \in Clients : QuietStep(c)
         \/ \E c \in Clients : Commit(c)
         \/ Restart
  BY DEF Next, Step, QuietStep

\* Nothing but COMMIT writes to the file.
LEMMA OnlyCommitWrites ==
  ASSUME Next, ~ \E c \in Clients : Commit(c)
  PROVE  UNCHANGED dbVars
<1>1. CASE \E c \in Clients, r \in Requests : CallRefused(c, r) \/ Call(c, r)
  BY <1>1 DEF CallRefused, Call, Finish
<1>2. CASE \E c \in Clients : QuietStep(c)
  BY <1>2 DEF QuietStep, Replay, CheckIdempotency, Begin, LockTimeout, ReadRefused,
              ReadValidated, UpdateDecision, AppendAudit, PersistIdempotency,
              KeyConflict, StatementFails, Return, Finish
<1>3. CASE Restart
  BY <1>3 DEF Restart
<1> QED
  BY <1>1, <1>2, <1>3, NextSplit

-----------------------------------------------------------------------------
(* Types *)

\* The row, event and record a transaction writes have their types.
LEMMA WriteTypes ==
  ASSUME TypeOK, NEW c \in Clients, RowFound(c),
         CanTransition(req[c].expected_state, req[c].action, req[c].role)
  PROVE  /\ NewRow(req[c]) \in [state : States, version : Nat]
         /\ NewEvent(c) \in EventType
         /\ NewAnswer(c) \in AnswerType
<1>1. req[c] \in RequestType
  BY ConstantsAssumption DEF TypeOK
<1>2. Target(req[c].expected_state, req[c].action) \in States
  BY DEF CanTransition, Targets, Target
<1>3. NewRow(req[c]) \in [state : States, version : Nat]
  BY <1>1, <1>2 DEF NewRow, RequestType
<1>4. Len(audit) \in Nat /\ now[c] \in Nat /\ prev[c] \in Nat
  BY DEF TypeOK
<1> QED
  BY <1>1, <1>3, <1>4 DEF NewEvent, NewAnswer, EventType, AnswerType, RequestType, RowFound

\* The initial values have their types.
LEMMA InitTypes == Init => TypeOK
<1> SUFFICES ASSUME Init PROVE TypeOK
  OBVIOUS
<1>1. (CHOOSE r \in Requests : TRUE) \in Requests
  BY ConstantsAssumption
<1> QED
  BY <1>1, ConstantsAssumption DEF Init, TypeOK, Labels, Codes

\* Ending a call keeps the types, whatever it ends with.
LEMMA FinishTypes ==
  ASSUME TypeOK, NEW c \in Clients, NEW why \in Codes, NEW result \in SUBSET AnswerType,
         Finish(c, why, result), req' \in [Clients -> Requests]
  PROVE  TypeOK'
  BY DEF TypeOK, Finish, Labels, dbVars

\* A clock reading, and the position of a latest event, are numbers.
LEMMA ReadingTypes ==
  ASSUME TypeOK
  PROVE  ClockReadings \subseteq Nat /\ LatestEvents \subseteq 0 .. Len(audit)
<1>1. Len(audit) \in Nat /\ DOMAIN audit = 1 .. Len(audit)
  BY DEF TypeOK
<1>2. ClockReadings \subseteq Nat
  <2>1. Len(audit) + 1 \in Nat
    BY <1>1
  <2>2. CASE ClockSteps
    BY <2>2, ConstantsAssumption, Zenon DEF ClockReadings
  <2>3. CASE ~ClockSteps
    BY <2>1, <2>3, Zenon DEF ClockReadings
  <2> QED
    BY <2>2, <2>3
<1>3. LatestEvents \subseteq 0 .. Len(audit)
  <2>1. CASE audit = <<>>
    BY <1>1, <2>1 DEF LatestEvents
  <2>2. CASE audit # <<>>
    BY <1>1, <2>2 DEF LatestEvents
  <2> QED
    BY <2>1, <2>2
<1> QED
  BY <1>2, <1>3

\* Every step keeps the types.
LEMMA NextTypes ==
  ASSUME TypeOK, NoStaleWrite, LegalWrite, [Next]_vars
  PROVE  TypeOK'
<1>1. CASE UNCHANGED vars
  BY <1>1 DEF vars, TypeOK
<1>2. ASSUME NEW c \in Clients, NEW r \in Requests, CallRefused(c, r)
      PROVE  TypeOK'
  <2>1. req' \in [Clients -> Requests]
    BY <1>2 DEF CallRefused, TypeOK
  <2> QED
    BY <1>2, <2>1, FinishTypes DEF CallRefused, Codes
<1>3. ASSUME NEW c \in Clients, NEW r \in Requests, Call(c, r)
      PROVE  TypeOK'
  BY <1>3 DEF Call, TypeOK, Labels, Codes, dbVars
<1>4. ASSUME NEW c \in Clients, QuietStep(c)
      PROVE  TypeOK'
  <2>1. CASE Replay(c)
    <3>1. AnswersTo(req[c].key) \in SUBSET AnswerType
      BY DEF AnswersTo, TypeOK
    <3>2. req' \in [Clients -> Requests]
      BY <2>1 DEF Replay, TypeOK
    <3> QED
      BY <2>1, <3>1, <3>2, FinishTypes DEF Replay, Codes
  <2>2. CASE CheckIdempotency(c)
    BY <2>2 DEF CheckIdempotency, TypeOK, Labels, dbVars
  <2>3. CASE Begin(c)
    BY <2>3 DEF Begin, TypeOK, Labels, WriteSection, dbVars
  <2>4. CASE LockTimeout(c)
    <3>1. req' \in [Clients -> Requests]
      BY <2>4 DEF LockTimeout, TypeOK
    <3> QED
      BY <2>4, <3>1, FinishTypes DEF LockTimeout, Codes
  <2>5. CASE ReadRefused(c)
    <3>1. req' \in [Clients -> Requests]
      BY <2>5 DEF ReadRefused, TypeOK
    <3> QED
      BY <2>5, <3>1, FinishTypes DEF ReadRefused, Codes
  <2>6. CASE ReadValidated(c)
    BY <2>6, ReadingTypes DEF ReadValidated, TypeOK, Labels, WriteSection, dbVars
  <2>7. CASE UpdateDecision(c)
    <3>1. CASE VersionMatches(c)
      BY <2>7, <3>1 DEF UpdateDecision, TypeOK, Labels, WriteSection, dbVars
    <3>2. CASE ~VersionMatches(c)
      <4>1. req' \in [Clients -> Requests]
        BY <2>7 DEF UpdateDecision, TypeOK
      <4> QED
        BY <2>7, <3>2, <4>1, FinishTypes DEF UpdateDecision, Codes
    <3> QED
      BY <3>1, <3>2
  <2>8. CASE AppendAudit(c)
    <3>1. LatestEvents \subseteq Nat
      BY ReadingTypes DEF TypeOK
    <3> QED
      BY <2>8, <3>1 DEF AppendAudit, TypeOK, Labels, WriteSection, dbVars
  <2>9. CASE PersistIdempotency(c)
    BY <2>9 DEF PersistIdempotency, TypeOK, Labels, WriteSection, dbVars
  <2>10. CASE KeyConflict(c)
    <3>1. req' \in [Clients -> Requests]
      BY <2>10 DEF KeyConflict, TypeOK
    <3> QED
      BY <2>10, <3>1, FinishTypes DEF KeyConflict, Codes
  <2>11. CASE Return(c)
    <3>1. reply[c] \in SUBSET AnswerType /\ req' \in [Clients -> Requests]
      BY <2>11 DEF Return, TypeOK
    <3> QED
      BY <2>11, <3>1, FinishTypes DEF Return, Codes
  <2>12. CASE StatementFails(c)
    <3>1. req' \in [Clients -> Requests]
      BY <2>12 DEF StatementFails, TypeOK
    <3> QED
      BY <2>12, <3>1, FinishTypes DEF StatementFails, Codes
  <2> QED
    BY <1>4, <2>1, <2>2, <2>3, <2>4, <2>5, <2>6, <2>7, <2>8, <2>9, <2>10, <2>11, <2>12
       DEF QuietStep
<1>5. ASSUME NEW c \in Clients, Commit(c)
      PROVE  TypeOK'
  <2>1. /\ NewRow(req[c]) \in [state : States, version : Nat]
        /\ NewEvent(c) \in EventType
        /\ NewAnswer(c) \in AnswerType
    BY <1>5, WriteTypes DEF Commit, NoStaleWrite, LegalWrite
  <2>2. audit' \in Seq(EventType)
    BY <1>5, <2>1 DEF Commit, TypeOK
  <2>3. decision' \in [Decisions -> [state : States, version : Nat]]
    BY <1>5, <2>1 DEF Commit, TypeOK
  <2> QED
    BY <1>5, <2>1, <2>2, <2>3 DEF Commit, TypeOK, Labels
<1>6. CASE Restart
  BY <1>6 DEF Restart, TypeOK, Labels, Codes, dbVars
<1> QED
  BY <1>1, <1>2, <1>3, <1>4, <1>5, <1>6, NextSplit

-----------------------------------------------------------------------------
(* The write lock *)

\* A client leaves the call, and the write section with it.
LEMMA FinishLock ==
  ASSUME TypeOK, LockInv, NEW c \in Clients, NEW why, NEW result, Finish(c, why, result)
  PROVE  LockInv'
  BY DEF TypeOK, LockInv, Finish, WriteSection

\* Every step keeps the lock with the one client in the write section: BEGIN
\* waits for it, COMMIT, ROLLBACK and a crash free it.
LEMMA NextLock ==
  ASSUME TypeOK, LockInv, [Next]_vars
  PROVE  LockInv'
<1>1. CASE UNCHANGED vars
  BY <1>1 DEF vars, LockInv
<1>2. ASSUME NEW c \in Clients, NEW r \in Requests, CallRefused(c, r)
      PROVE  LockInv'
  BY <1>2, FinishLock DEF CallRefused
<1>3. ASSUME NEW c \in Clients, NEW r \in Requests, Call(c, r)
      PROVE  LockInv'
  BY <1>3 DEF Call, TypeOK, LockInv, WriteSection
<1>4. ASSUME NEW c \in Clients, QuietStep(c)
      PROVE  LockInv'
  <2>1. CASE \E why, result : Finish(c, why, result)
    BY <2>1, FinishLock
  <2>2. CASE CheckIdempotency(c)
    BY <2>2 DEF CheckIdempotency, TypeOK, LockInv, WriteSection
  <2>3. CASE Begin(c)
    BY <2>3 DEF Begin, TypeOK, LockInv, WriteSection
  <2>4. CASE ReadValidated(c)
    BY <2>4 DEF ReadValidated, TypeOK, LockInv, WriteSection
  <2>5. CASE UpdateDecision(c)
    BY <2>1, <2>5 DEF UpdateDecision, TypeOK, LockInv, WriteSection
  <2>6. CASE AppendAudit(c)
    BY <2>6 DEF AppendAudit, TypeOK, LockInv, WriteSection
  <2>7. CASE PersistIdempotency(c)
    BY <2>7 DEF PersistIdempotency, TypeOK, LockInv, WriteSection
  <2> QED
    BY <1>4, <2>1, <2>2, <2>3, <2>4, <2>5, <2>6, <2>7
       DEF QuietStep, Replay, LockTimeout, ReadRefused, KeyConflict, StatementFails, Return
<1>5. ASSUME NEW c \in Clients, Commit(c)
      PROVE  LockInv'
  BY <1>5 DEF Commit, TypeOK, LockInv, WriteSection
<1>6. CASE Restart
  BY <1>6 DEF Restart, LockInv, WriteSection
<1> QED
  BY <1>1, <1>2, <1>3, <1>4, <1>5, <1>6, NextSplit

-----------------------------------------------------------------------------
(* What holds inside a transaction *)

Validated == {"update", "audit", "persist", "commit"}

\* Only ReadValidated enters the validated part of the write section.
LEMMA ValidatedEntry ==
  ASSUME TypeOK, Next, NEW e \in Clients, pc'[e] \in Validated, pc[e] \notin Validated
  PROVE  ReadValidated(e)
  BY DEF TypeOK, Validated, Next, Step, CallRefused, Call, Replay, CheckIdempotency, Begin,
         LockTimeout, ReadRefused, ReadValidated, UpdateDecision, AppendAudit,
         PersistIdempotency, KeyConflict, StatementFails, Commit, Return, Restart, Finish

\* A client in the write section keeps the arguments it was called with.
LEMMA RequestKept ==
  ASSUME TypeOK, Next, NEW e \in Clients, pc'[e] \in WriteSection
  PROVE  req'[e] = req[e]
  BY DEF TypeOK, WriteSection, Next, Step, CallRefused, Call, Replay, CheckIdempotency, Begin,
         LockTimeout, ReadRefused, ReadValidated, UpdateDecision, AppendAudit,
         PersistIdempotency, KeyConflict, StatementFails, Commit, Return, Restart, Finish

\* Nobody is in the write section beside a client that commits.
LEMMA CommitAlone ==
  ASSUME TypeOK, LockInv, NEW c \in Clients, Commit(c), NEW e \in Clients
  PROVE  pc'[e] \notin WriteSection
<1>1. CASE e = c
  BY <1>1 DEF Commit, TypeOK, WriteSection
<1>2. CASE e # c
  BY <1>2 DEF Commit, TypeOK, LockInv, WriteSection
<1> QED
  BY <1>1, <1>2

\* The row a validated call read is still the row: a commit by anyone else would
\* need the lock.
LEMMA NextNoStaleWrite ==
  ASSUME TypeOK, LockInv, NoStaleWrite, [Next]_vars
  PROVE  NoStaleWrite'
<1>1. CASE UNCHANGED vars
  BY <1>1 DEF vars, NoStaleWrite, RowFound, StateMatches, VersionMatches, Row
<1>2. ASSUME Next, NEW e \in Clients, pc'[e] \in Validated
      PROVE  (RowFound(e) /\ StateMatches(e) /\ VersionMatches(e))'
  <2>1. ~ \E c \in Clients : Commit(c)
    BY <1>2, CommitAlone DEF Validated, WriteSection
  <2>2. decision' = decision
    BY <1>2, <2>1, OnlyCommitWrites DEF dbVars
  <2>3. req'[e] = req[e]
    BY <1>2, RequestKept DEF Validated, WriteSection
  <2>4. RowFound(e) /\ StateMatches(e) /\ VersionMatches(e)
    BY <1>2, ValidatedEntry DEF NoStaleWrite, ReadValidated, Validated
  <2> QED
    BY <2>2, <2>3, <2>4 DEF RowFound, StateMatches, VersionMatches, Row
<1> QED
  BY <1>1, <1>2 DEF NoStaleWrite, Validated

\* What ReadValidated lets through is an edge of the state machine.
LEMMA NextLegalWrite ==
  ASSUME TypeOK, LockInv, NoStaleWrite, LegalWrite, [Next]_vars
  PROVE  LegalWrite'
<1>1. CASE UNCHANGED vars
  BY <1>1 DEF vars, LegalWrite
<1>2. ASSUME Next, NEW d \in Decisions
      PROVE  decision'[d].version >= 1
  <2>1. ASSUME NEW c \in Clients, Commit(c)
        PROVE  decision'[d].version >= 1
    <3>1. req[c].expected_version \in Nat
      BY ConstantsAssumption DEF TypeOK, RequestType
    <3> QED
      BY <2>1, <3>1 DEF Commit, NewRow, TypeOK, LegalWrite
  <2> QED
    BY <1>2, <2>1, OnlyCommitWrites DEF dbVars, LegalWrite
<1>3. ASSUME Next, NEW e \in Clients, pc'[e] \in Validated
      PROVE  CanTransition(req'[e].expected_state, req'[e].action, req'[e].role)
  <2>1. req'[e] = req[e]
    BY <1>3, RequestKept DEF Validated, WriteSection
  <2>2. CanTransition(req[e].expected_state, req[e].action, req[e].role)
    BY <1>3, ValidatedEntry DEF LegalWrite, ReadValidated, Validated, StateMatches
  <2> QED
    BY <2>1, <2>2
<1> QED
  BY <1>1, <1>2, <1>3 DEF LegalWrite, Validated

\* A key found free by the insert stays free until this client commits, and the
\* ledger it read the latest event of does not grow.
LEMMA NextOpenTransaction ==
  ASSUME TypeOK, LockInv, OpenTransaction, [Next]_vars
  PROVE  OpenTransaction'
<1>1. CASE UNCHANGED vars
  BY <1>1 DEF vars, OpenTransaction, AnswersTo
<1>2. ASSUME Next, NEW e \in Clients, pc'[e] \in {"persist", "commit"}
      PROVE  /\ pc'[e] = "commit" => \A a \in answers' : a.key # req'[e].key
             /\ prev'[e] \in 0 .. Len(audit')
  <2>1. ~ \E c \in Clients : Commit(c)
    BY <1>2, CommitAlone DEF WriteSection
  <2>2. answers' = answers /\ audit' = audit
    BY <1>2, <2>1, OnlyCommitWrites DEF dbVars
  <2>3. req'[e] = req[e]
    BY <1>2, RequestKept DEF WriteSection
  <2>4. \/ pc[e] = pc'[e] /\ prev'[e] = prev[e]
        \/ AppendAudit(e)
        \/ PersistIdempotency(e)
    <3>1. ASSUME NEW c \in Clients, NEW r \in Requests, CallRefused(c, r) \/ Call(c, r)
          PROVE  pc[e] = pc'[e] /\ prev'[e] = prev[e]
      BY <1>2, <3>1 DEF CallRefused, Call, Finish, TypeOK
    <3>2. ASSUME NEW c \in Clients, QuietStep(c), c # e
          PROVE  pc[e] = pc'[e] /\ prev'[e] = prev[e]
      BY <3>2 DEF QuietStep, Replay, CheckIdempotency, Begin, LockTimeout, ReadRefused,
                  ReadValidated, UpdateDecision, AppendAudit, PersistIdempotency,
                  KeyConflict, StatementFails, Return, Finish, TypeOK
    <3>3. ASSUME QuietStep(e)
          PROVE  AppendAudit(e) \/ PersistIdempotency(e)
      BY <1>2, <3>3 DEF QuietStep, Replay, CheckIdempotency, Begin, LockTimeout, ReadRefused,
                        ReadValidated, UpdateDecision, KeyConflict, StatementFails, Return, Finish, TypeOK
    <3>4. ~Restart
      BY <1>2 DEF Restart
    <3> QED
      BY <1>2, <2>1, <3>1, <3>2, <3>3, <3>4, NextSplit
  <2>5. CASE pc[e] = pc'[e] /\ prev'[e] = prev[e]
    BY <1>2, <2>2, <2>3, <2>5 DEF OpenTransaction, AnswersTo
  <2>6. CASE AppendAudit(e)
    <3>1. pc'[e] = "persist" /\ prev'[e] \in LatestEvents
      BY <2>6 DEF AppendAudit, TypeOK
    <3> QED
      BY <2>2, <3>1, ReadingTypes
  <2>7. CASE PersistIdempotency(e)
    BY <2>2, <2>3, <2>7 DEF PersistIdempotency, TypeOK, OpenTransaction, AnswersTo
  <2> QED
    BY <2>4, <2>5, <2>6, <2>7
<1> QED
  BY <1>1, <1>2 DEF OpenTransaction, AnswersTo

\* No call gets past the gate of a process with MUTATIONS_DISABLED.
LEMMA NextDisabledIdle ==
  ASSUME TypeOK, DisabledIdle, [Next]_vars
  PROVE  DisabledIdle'
<1>1. CASE UNCHANGED vars
  BY <1>1 DEF vars, DisabledIdle
<1>2. CASE Restart
  BY <1>2 DEF Restart, DisabledIdle
<1>3. ASSUME NEW c \in Clients, NEW r \in Requests, CallRefused(c, r) \/ Call(c, r)
      PROVE  DisabledIdle'
  BY <1>3 DEF CallRefused, Call, Finish, TypeOK, DisabledIdle
<1>4. ASSUME NEW c \in Clients, QuietStep(c) \/ Commit(c)
      PROVE  DisabledIdle'
  <2>1. pc[c] # "idle" /\ disabled' = disabled
    BY <1>4 DEF QuietStep, Replay, CheckIdempotency, Begin, LockTimeout, ReadRefused,
                ReadValidated, UpdateDecision, AppendAudit, PersistIdempotency,
                KeyConflict, StatementFails, Return, Commit, Finish, WriteSection
  <2> QED
    BY <2>1 DEF DisabledIdle
<1> QED
  BY <1>1, <1>2, <1>3, <1>4, NextSplit

-----------------------------------------------------------------------------
(* What COMMIT adds to the ledger *)

\* The facts about a commit the invariants of the ledger are preserved by: it
\* moves the row it names one version on, from the state and version it
\* expected, and adds one event under a key no record has.
LEMMA CommitFacts ==
  ASSUME IInv, NEW c \in Clients, Commit(c)
  PROVE  LET d == req[c].decision
             e == NewEvent(c)
         IN  /\ Len(audit) \in Nat /\ DOMAIN audit = 1 .. Len(audit)
             /\ DOMAIN audit' = 1 .. Len(audit) + 1 /\ Len(audit') = Len(audit) + 1
             /\ \A n \in DOMAIN audit : audit'[n] = audit[n]
             /\ audit'[Len(audit) + 1] = e
             /\ d \in Decisions /\ e.decision = d
             /\ decision[d].version \in Nat /\ decision[d].version >= 1
             /\ e.from = decision[d].state
             /\ e.version = decision[d].version + 1
             /\ decision'[d].state = e.to /\ decision'[d].version = e.version
             /\ \A x \in Decisions \ {d} : decision'[x] = decision[x]
             /\ e.key = req[c].key /\ \A a \in answers : a.key # e.key
             /\ answers' = answers \cup
                  {[key |-> e.key, new_state |-> e.to, new_version |-> e.version,
                    audit_id |-> Len(audit) + 1]}
             /\ e.prev = prev[c] /\ prev[c] \in 0 .. Len(audit)
<1>1. Len(audit) \in Nat /\ DOMAIN audit = 1 .. Len(audit)
  BY DEF IInv, TypeOK
<1>2. /\ DOMAIN audit' = 1 .. Len(audit) + 1 /\ Len(audit') = Len(audit) + 1
      /\ \A n \in DOMAIN audit : audit'[n] = audit[n]
      /\ audit'[Len(audit) + 1] = NewEvent(c)
  <2>1. NewEvent(c) \in EventType
    BY WriteTypes DEF IInv, NoStaleWrite, LegalWrite, Commit
  <2> QED
    BY <2>1 DEF IInv, TypeOK, Commit
<1>3. /\ req[c].decision \in Decisions
      /\ decision[req[c].decision].state = req[c].expected_state
      /\ decision[req[c].decision].version = req[c].expected_version
  BY DEF IInv, NoStaleWrite, Commit, RowFound, StateMatches, VersionMatches, Row
<1>4. /\ decision' = [decision EXCEPT ![req[c].decision] = NewRow(req[c])]
      /\ decision \in [Decisions -> [state : States, version : Nat]]
  BY DEF IInv, TypeOK, Commit
<1>5. decision[req[c].decision].version \in Nat /\ decision[req[c].decision].version >= 1
  BY <1>3, <1>4 DEF IInv, LegalWrite
<1>6. /\ \A a \in answers : a.key # req[c].key
      /\ prev[c] \in 0 .. Len(audit)
  BY DEF IInv, OpenTransaction, AnswersTo, Commit
<1>7. answers' = answers \cup {NewAnswer(c)}
  BY DEF Commit
<1> QED
  BY <1>1, <1>2, <1>3, <1>4, <1>5, <1>6, <1>7 DEF NewEvent, NewRow, NewAnswer

\* A commit extends the history of its row by the next version; nothing else
\* touches it.
LEMMA NextHistoryReplays ==
  ASSUME IInv, [Next]_vars
  PROVE  HistoryReplays'
<1>1. CASE UNCHANGED dbVars
  BY <1>1 DEF dbVars, IInv, HistoryReplays
<1>2. ASSUME NEW c \in Clients, Commit(c)
      PROVE  HistoryReplays'
  <2> DEFINE d == req[c].decision
             e == NewEvent(c)
             last == Len(audit) + 1
  <2>1. /\ last \in Nat /\ last >= 1
        /\ DOMAIN audit = 1 .. Len(audit) /\ Len(audit) \in Nat
        /\ DOMAIN audit' = 1 .. last
        /\ \A n \in DOMAIN audit : audit'[n] = audit[n]
        /\ audit'[last] = e
    BY <1>2, CommitFacts
  <2>2. /\ d \in Decisions /\ e.decision = d
        /\ decision[d].version \in Nat /\ decision[d].version >= 1
        /\ e.from = decision[d].state /\ e.version = decision[d].version + 1
        /\ decision'[d].state = e.to /\ decision'[d].version = e.version
        /\ \A x \in Decisions \ {d} : decision'[x] = decision[x]
    BY <1>2, CommitFacts
  <2>3. /\ HistoryReplays
        /\ \A n \in DOMAIN audit : audit[n].decision \in Decisions
        /\ \A x \in Decisions : decision[x].version \in Nat
        /\ \A n \in DOMAIN audit : audit[n].version \in Nat
    <3>1. \A n \in DOMAIN audit : audit[n] \in EventType
      BY DEF IInv, TypeOK
    <3> QED
      BY <3>1 DEF IInv, TypeOK, EventType
  <2> HIDE DEF d, e, last
  <2>4. ASSUME NEW x \in Decisions, NEW v \in 2 .. decision'[x].version
        PROVE  \E n \in DOMAIN audit' : audit'[n].decision = x /\ audit'[n].version = v
    <3>1. CASE x = d /\ v = e.version
      BY <2>1, <2>2, <3>1
    <3>2. CASE ~(x = d /\ v = e.version)
      <4>1. v \in 2 .. decision[x].version
        BY <2>2, <2>3, <3>2
      <4>2. PICK n \in DOMAIN audit : audit[n].decision = x /\ audit[n].version = v
        BY <2>3, <4>1 DEF HistoryReplays
      <4> QED
        BY <2>1, <4>2 DEF last
    <3> QED
      BY <3>1, <3>2
  <2>5. ASSUME NEW n \in DOMAIN audit'
        PROVE  LET row == decision'[audit'[n].decision]
               IN  /\ audit'[n].version \in 2 .. row.version
                   /\ audit'[n].version = row.version => audit'[n].to = row.state
    <3>1. CASE n = last
      BY <2>1, <2>2, <3>1
    <3>2. CASE n # last
      <4>1. n \in DOMAIN audit /\ audit'[n] = audit[n]
        BY <2>1, <3>2 DEF last
      <4>2. /\ audit[n].version \in 2 .. decision[audit[n].decision].version
            /\ audit[n].version = decision[audit[n].decision].version =>
                 audit[n].to = decision[audit[n].decision].state
        BY <2>3, <4>1 DEF HistoryReplays
      <4>3. CASE audit[n].decision = d
        BY <2>2, <2>3, <4>1, <4>2, <4>3
      <4>4. CASE audit[n].decision # d
        BY <2>2, <2>3, <4>1, <4>2, <4>4
      <4> QED
        BY <4>3, <4>4
    <3> QED
      BY <3>1, <3>2
  <2>6. ASSUME NEW m \in DOMAIN audit', NEW n \in DOMAIN audit',
               audit'[m].decision = audit'[n].decision
        PROVE  /\ m < n => audit'[m].version < audit'[n].version
               /\ audit'[n].version = audit'[m].version + 1 => audit'[n].from = audit'[m].to
    <3>1. \A k \in DOMAIN audit : audit[k].decision = d =>
            /\ audit[k].version <= decision[d].version
            /\ audit[k].version = decision[d].version => audit[k].to = decision[d].state
      BY <2>2, <2>3 DEF HistoryReplays
    <3>2. CASE m # last /\ n # last
      <4>1. m \in DOMAIN audit /\ n \in DOMAIN audit
        BY <2>1, <3>2 DEF last
      <4> QED
        BY <2>1, <2>3, <2>6, <4>1 DEF HistoryReplays
    <3>3. CASE m # last /\ n = last
      <4>1. m \in DOMAIN audit
        BY <2>1, <3>3 DEF last
      <4> QED
        BY <2>1, <2>2, <2>3, <2>6, <3>1, <3>3, <4>1
    <3>4. CASE m = last /\ n # last
      <4>1. n \in DOMAIN audit /\ n < m
        BY <2>1, <3>4 DEF last
      <4> QED
        BY <2>1, <2>2, <2>3, <2>6, <3>1, <3>4, <4>1
    <3>5. CASE m = last /\ n = last
      BY <2>1, <2>2, <3>5
    <3> QED
      BY <3>2, <3>3, <3>4, <3>5
  <2> QED
    BY <2>4, <2>5, <2>6 DEF HistoryReplays
<1> QED
  BY <1>1, <1>2, OnlyCommitWrites DEF vars, dbVars

\* A commit spends a free key on its one event.
LEMMA NextOncePerKey ==
  ASSUME IInv, [Next]_vars
  PROVE  OncePerKey'
<1>1. CASE UNCHANGED dbVars
  BY <1>1 DEF dbVars, IInv, OncePerKey
<1>2. ASSUME NEW c \in Clients, Commit(c)
      PROVE  OncePerKey'
  <2> DEFINE e == NewEvent(c)
             last == Len(audit) + 1
             fresh == [key |-> e.key, new_state |-> e.to, new_version |-> e.version,
                       audit_id |-> last]
  <2>1. /\ last \in Nat /\ last >= 1
        /\ DOMAIN audit = 1 .. Len(audit) /\ Len(audit) \in Nat
        /\ DOMAIN audit' = 1 .. last
        /\ \A n \in DOMAIN audit : audit'[n] = audit[n]
        /\ audit'[last] = e
        /\ answers' = answers \cup {fresh}
        /\ \A a \in answers : a.key # e.key
    BY <1>2, CommitFacts
  <2>2. /\ fresh.key = e.key /\ fresh.new_state = e.to
        /\ fresh.new_version = e.version /\ fresh.audit_id = last
    OBVIOUS
  <2>3. OncePerKey
    BY DEF IInv
  <2>4. \A n \in DOMAIN audit' : n # last => n \in DOMAIN audit /\ audit'[n] = audit[n]
    BY <2>1 DEF last
  <2>5. \A n \in DOMAIN audit : n # last /\ n \in DOMAIN audit' /\ audit[n].key # e.key
    BY <2>1, <2>3 DEF OncePerKey, last
  <2> HIDE DEF e, last, fresh
  <2>6. \A m, n \in DOMAIN audit' : audit'[m].key = audit'[n].key => m = n
    BY <2>1, <2>3, <2>4, <2>5 DEF OncePerKey
  <2>7. \A a, b \in answers' : a.key = b.key => a = b
    BY <2>1, <2>2, <2>3 DEF OncePerKey
  <2>8. \A n \in DOMAIN audit' : \E a \in answers' : a.key = audit'[n].key
    BY <2>1, <2>2, <2>3, <2>4 DEF OncePerKey
  <2>9. ASSUME NEW a \in answers'
        PROVE  /\ a.audit_id \in DOMAIN audit'
               /\ audit'[a.audit_id].key = a.key
               /\ audit'[a.audit_id].to = a.new_state
               /\ audit'[a.audit_id].version = a.new_version
    <3>1. CASE a = fresh
      BY <2>1, <2>2, <3>1
    <3>2. CASE a \in answers
      BY <2>1, <2>3, <2>5, <3>2 DEF OncePerKey
    <3> QED
      BY <2>1, <3>1, <3>2
  <2> QED
    BY <2>6, <2>7, <2>8, <2>9 DEF OncePerKey
<1> QED
  BY <1>1, <1>2, OnlyCommitWrites DEF vars, dbVars

\* A commit chains its event to a committed one.
LEMMA NextHashChainRooted ==
  ASSUME IInv, [Next]_vars
  PROVE  HashChainRooted'
<1>1. CASE UNCHANGED dbVars
  BY <1>1 DEF dbVars, IInv, HashChainRooted
<1>2. ASSUME NEW c \in Clients, Commit(c)
      PROVE  HashChainRooted'
  <2>1. ASSUME NEW n \in DOMAIN audit'
        PROVE  audit'[n].prev \in 0 .. n - 1
    <3>1. CASE n = Len(audit) + 1
      BY <1>2, <3>1, CommitFacts
    <3>2. CASE n # Len(audit) + 1
      <4>1. n \in DOMAIN audit /\ audit'[n] = audit[n]
        BY <1>2, <3>2, CommitFacts
      <4> QED
        BY <4>1 DEF IInv, HashChainRooted
    <3> QED
      BY <3>1, <3>2
  <2> QED
    BY <2>1 DEF HashChainRooted
<1> QED
  BY <1>1, <1>2, OnlyCommitWrites DEF vars, dbVars

-----------------------------------------------------------------------------
(* Replies and the clock *)

\* Another client's step leaves the call of e, and its transaction, alone.
LEMMA StepIsOwn ==
  ASSUME TypeOK, NEW c \in Clients, NEW e \in Clients \ {c},
         \/ \E r \in Requests : CallRefused(c, r) \/ Call(c, r)
         \/ QuietStep(c)
         \/ Commit(c)
  PROVE  /\ pc'[e] = pc[e] /\ req'[e] = req[e] /\ now'[e] = now[e]
         /\ prev'[e] = prev[e] /\ reply'[e] = reply[e]
<1>1. CASE \E r \in Requests : CallRefused(c, r) \/ Call(c, r)
  BY <1>1 DEF CallRefused, Call, Finish, TypeOK
<1>2. CASE QuietStep(c)
  BY <1>2 DEF QuietStep, Replay, CheckIdempotency, Begin, LockTimeout, ReadRefused,
              ReadValidated, UpdateDecision, AppendAudit, PersistIdempotency,
              KeyConflict, StatementFails, Return, Finish, TypeOK
<1>3. CASE Commit(c)
  BY <1>3 DEF Commit, TypeOK
<1> QED
  BY <1>1, <1>2, <1>3

\* A reply is a record of the file: committed just now or found under the key.
LEMMA NextAcknowledged ==
  ASSUME TypeOK, AcknowledgedIsDurable, [Next]_vars
  PROVE  AcknowledgedIsDurable'
<1>1. CASE UNCHANGED vars
  BY <1>1 DEF vars, AcknowledgedIsDurable
<1>2. CASE Restart
  BY <1>2 DEF Restart, dbVars, AcknowledgedIsDurable
<1>3. ASSUME Next
      PROVE  answers \subseteq answers'
  BY <1>3, OnlyCommitWrites DEF dbVars, Commit
<1>4. ASSUME Next, NEW c \in Clients,
             \/ \E r \in Requests : CallRefused(c, r) \/ Call(c, r)
             \/ QuietStep(c)
             \/ Commit(c)
      PROVE  AcknowledgedIsDurable'
  <2>1. \A a \in reply'[c] : a.key = req'[c].key /\ a \in answers'
    <3>1. CASE \E r \in Requests : CallRefused(c, r) \/ Call(c, r)
      BY <3>1 DEF CallRefused, Call, Finish, TypeOK
    <3>2. CASE Replay(c)
      BY <3>2 DEF Replay, Finish, TypeOK, dbVars, AnswersTo
    <3>3. CASE Commit(c)
      BY <3>3 DEF Commit, TypeOK, NewAnswer
    <3>4. CASE QuietStep(c) /\ ~Replay(c)
      <4>1. (reply'[c] = {} \/ reply'[c] = reply[c]) /\ req' = req
        BY <3>4 DEF QuietStep, Replay, CheckIdempotency, Begin, LockTimeout, ReadRefused,
                    ReadValidated, UpdateDecision, AppendAudit, PersistIdempotency,
                    KeyConflict, StatementFails, Return, Finish, TypeOK
      <4> QED
        BY <1>3, <1>4, <4>1 DEF AcknowledgedIsDurable
    <3> QED
      BY <1>4, <3>1, <3>2, <3>3, <3>4
  <2>2. ASSUME NEW e \in Clients \ {c}
        PROVE  \A a \in reply'[e] : a.key = req'[e].key /\ a \in answers'
    BY <1>3, <1>4, StepIsOwn DEF AcknowledgedIsDurable
  <2> QED
    BY <2>1, <2>2 DEF AcknowledgedIsDurable
<1> QED
  BY <1>1, <1>2, <1>4, NextSplit

\* With a clock that moves forward the latest event is the last one.
LEMMA LatestIsLast ==
  ASSUME TypeOK, \A n \in DOMAIN audit : audit[n].created_at = n
  PROVE  LatestEvents = {Len(audit)}
<1>1. Len(audit) \in Nat /\ DOMAIN audit = 1 .. Len(audit)
  BY DEF TypeOK
<1>2. CASE audit = <<>>
  BY <1>2 DEF LatestEvents
<1>3. CASE audit # <<>>
  <2>1. Len(audit) \in DOMAIN audit
    BY <1>1, <1>3 DEF TypeOK
  <2>2. \A n \in DOMAIN audit :
          (\A m \in DOMAIN audit : audit[m].created_at <= audit[n].created_at)
          <=> n = Len(audit)
    BY <1>1, <2>1
  <2> QED
    BY <1>3, <2>1, <2>2 DEF LatestEvents
<1> QED
  BY <1>2, <1>3

\* With a clock that moves forward each event carries its number.
LEMMA NextClockInv ==
  ASSUME IInv, [Next]_vars
  PROVE  ClockInv'
<1> SUFFICES ASSUME ~ClockSteps PROVE ClockInv'
  BY DEF ClockInv
<1>a. /\ TypeOK /\ Len(audit) \in Nat
      /\ \A n \in DOMAIN audit : audit[n].created_at = n
      /\ HashChainLinear
  BY DEF IInv, ClockInv, TypeOK
<1>b. \A e \in Clients :
        /\ pc[e] \in Validated => now[e] = Len(audit) + 1
        /\ pc[e] \in {"persist", "commit"} => prev[e] = Len(audit)
  BY DEF IInv, ClockInv, Validated
<1>1. CASE UNCHANGED vars
  BY <1>1 DEF vars, IInv, ClockInv, HashChainLinear
<1>2. CASE Restart
  BY <1>2 DEF Restart, dbVars, IInv, ClockInv, HashChainLinear
<1>3. ASSUME NEW c \in Clients,
             QuietStep(c) \/ \E r \in Requests : CallRefused(c, r) \/ Call(c, r)
      PROVE  ClockInv'
  <2>1. audit' = audit
    BY <1>3 DEF CallRefused, Call, QuietStep, Replay, CheckIdempotency, Begin, LockTimeout,
                ReadRefused, ReadValidated, UpdateDecision, AppendAudit,
                PersistIdempotency, KeyConflict, StatementFails, Return, Finish, dbVars
  <2>2. /\ pc'[c] \in Validated => now'[c] = Len(audit) + 1
        /\ pc'[c] \in {"persist", "commit"} => prev'[c] = Len(audit)
    <3>1. CASE ReadValidated(c)
      BY <1>a, <3>1, Zenon DEF ReadValidated, TypeOK, ClockReadings
    <3>2. CASE AppendAudit(c)
      BY <1>a, <1>b, <3>2, LatestIsLast DEF AppendAudit, TypeOK, Validated
    <3>3. CASE UpdateDecision(c) \/ PersistIdempotency(c)
      BY <1>a, <1>b, <3>3 DEF UpdateDecision, PersistIdempotency, Finish, TypeOK, Validated
    <3>4. CASE ~(ReadValidated(c) \/ AppendAudit(c) \/ UpdateDecision(c) \/ PersistIdempotency(c))
      <4>1. pc'[c] \notin Validated
        BY <1>3, <1>a, <3>4
           DEF CallRefused, Call, QuietStep, Replay, CheckIdempotency, Begin, LockTimeout,
               ReadRefused, KeyConflict, StatementFails, Return, Finish, TypeOK, Validated
      <4> QED
        BY <4>1 DEF Validated
    <3> QED
      BY <3>1, <3>2, <3>3, <3>4
  <2>3. ASSUME NEW e \in Clients \ {c}
        PROVE  /\ pc'[e] \in Validated => now'[e] = Len(audit) + 1
               /\ pc'[e] \in {"persist", "commit"} => prev'[e] = Len(audit)
    BY <1>3, <1>a, <1>b, StepIsOwn
  <2> QED
    BY <1>a, <2>1, <2>2, <2>3 DEF ClockInv, HashChainLinear, Validated
<1>4. ASSUME NEW c \in Clients, Commit(c)
      PROVE  ClockInv'
  <2>1. ASSUME NEW n \in DOMAIN audit'
        PROVE  audit'[n].created_at = n /\ audit'[n].prev = n - 1
    <3>1. CASE n = Len(audit) + 1
      <4>1. audit'[n] = NewEvent(c)
        BY <1>4, <3>1, CommitFacts
      <4>2. now[c] = Len(audit) + 1 /\ prev[c] = Len(audit)
        BY <1>4, <1>b DEF Commit, Validated
      <4> QED
        BY <1>a, <3>1, <4>1, <4>2 DEF NewEvent
    <3>2. CASE n # Len(audit) + 1
      <4>1. n \in DOMAIN audit /\ audit'[n] = audit[n]
        BY <1>4, <3>2, CommitFacts
      <4> QED
        BY <1>a, <4>1 DEF HashChainLinear
    <3> QED
      BY <3>1, <3>2
  <2>2. \A e \in Clients : pc'[e] \notin WriteSection
    BY <1>4, CommitAlone DEF IInv
  <2> QED
    BY <2>1, <2>2 DEF ClockInv, HashChainLinear, WriteSection
<1> QED
  BY <1>1, <1>2, <1>3, <1>4, NextSplit

-----------------------------------------------------------------------------
(* The inductive invariant *)

\* The inductive invariant holds initially ...
LEMMA InitIInv == Init => IInv
<1> SUFFICES ASSUME Init PROVE IInv
  OBVIOUS
<1>1. TypeOK
  BY InitTypes
<1>2. LockInv /\ NoStaleWrite /\ LegalWrite /\ OpenTransaction /\ DisabledIdle
  BY DEF Init, LockInv, NoStaleWrite, LegalWrite, OpenTransaction, DisabledIdle, WriteSection
<1>3. HistoryReplays /\ OncePerKey /\ HashChainRooted /\ ClockInv
  BY DEF Init, HistoryReplays, OncePerKey, HashChainRooted, ClockInv, HashChainLinear
<1>4. AcknowledgedIsDurable
  BY DEF Init, AcknowledgedIsDurable
<1> QED
  BY <1>1, <1>2, <1>3, <1>4 DEF IInv

\* ... and over every step ...
LEMMA NextIInv == IInv /\ [Next]_vars => IInv'
<1> SUFFICES ASSUME IInv, [Next]_vars PROVE IInv'
  OBVIOUS
<1>1. TypeOK'
  BY NextTypes DEF IInv
<1>2. LockInv' /\ NoStaleWrite' /\ LegalWrite' /\ OpenTransaction'
  BY NextLock, NextNoStaleWrite, NextLegalWrite, NextOpenTransaction DEF IInv
<1>3. DisabledIdle' /\ AcknowledgedIsDurable'
  BY NextDisabledIdle, NextAcknowledged DEF IInv
<1>4. HistoryReplays' /\ OncePerKey' /\ HashChainRooted' /\ ClockInv'
  BY NextHistoryReplays, NextOncePerKey, NextHashChainRooted, NextClockInv
<1> QED
  BY <1>1, <1>2, <1>3, <1>4 DEF IInv

\* ... so it always holds.
THEOREM Invariance == Spec => []IInv
  BY InitIInv, NextIInv, PTL DEF Spec

\* Every variable keeps its type, whatever the clients call and however their
\* statements interleave.
THEOREM TypeCorrect == Spec => []TypeOK
<1>1. IInv => TypeOK
  BY DEF IInv
<1> QED
  BY <1>1, Invariance, PTL

\* A validated call writes against the row it read: BEGIN IMMEDIATE before the
\* read is what optimistic concurrency in apply_transition rests on.
THEOREM WritesAreNeverStale == Spec => []NoStaleWrite
<1>1. IInv => NoStaleWrite
  BY DEF IInv
<1> QED
  BY <1>1, Invariance, PTL

\* The audit events of a decision replay to its row: no lost update, no gap, no
\* event without its transition.
THEOREM LedgerReplaysToRow == Spec => []HistoryReplays
<1>1. IInv => HistoryReplays
  BY DEF IInv
<1> QED
  BY <1>1, Invariance, PTL

\* A call is applied at most once per idempotency key, over retries, races and
\* crashes, and its record tells what was applied.
THEOREM AppliedOncePerKey == Spec => []OncePerKey
<1>1. IInv => OncePerKey
  BY DEF IInv
<1> QED
  BY <1>1, Invariance, PTL

\* A result that reached a caller is in the file and stays there.
THEOREM AcknowledgementsAreDurable == Spec => []AcknowledgedIsDurable
<1>1. IInv => AcknowledgedIsDurable
  BY DEF IInv
<1> QED
  BY <1>1, Invariance, PTL

\* The hash chain of the adapter's ledger is one line from GENESIS, provided the
\* wall clock moves forward.
THEOREM ChainIsLinear == Spec => [](~ClockSteps => HashChainLinear)
<1>1. IInv => (~ClockSteps => HashChainLinear)
  BY DEF IInv, ClockInv
<1> QED
  BY <1>1, Invariance, PTL

\* Whatever the clock does, no event hashes itself or a later one.
THEOREM ChainIsRooted == Spec => []HashChainRooted
<1>1. IInv => HashChainRooted
  BY DEF IInv
<1> QED
  BY <1>1, Invariance, PTL

\* A process started with MUTATIONS_DISABLED changes nothing in the file.
THEOREM DisabledChangesNothing == Spec => DisabledMeansFrozen
<1>1. IInv /\ [Next]_vars => [disabled => UNCHANGED dbVars]_vars
  <2> SUFFICES ASSUME IInv, Next, disabled PROVE UNCHANGED dbVars
    BY DEF vars, dbVars
  <2>1. ~ \E c \in Clients : Commit(c)
    BY DEF IInv, DisabledIdle, Commit
  <2> QED
    BY <2>1, OnlyCommitWrites
<1> QED
  BY <1>1, Invariance, PTL DEF Spec, DisabledMeansFrozen

\* Events and idempotency records are never changed or removed.
THEOREM LedgerIsAppendOnly == Spec => AppendOnly
<1>1. IInv /\ [Next]_vars =>
        [ /\ Len(audit) <= Len(audit')
          /\ \A n \in DOMAIN audit : audit'[n] = audit[n]
          /\ answers \subseteq answers' ]_vars
  <2> SUFFICES ASSUME IInv, Next
               PROVE  /\ Len(audit) <= Len(audit')
                      /\ \A n \in DOMAIN audit : audit'[n] = audit[n]
                      /\ answers \subseteq answers'
    OBVIOUS
  <2>1. ASSUME NEW c \in Clients, Commit(c)
        PROVE  /\ Len(audit) <= Len(audit')
               /\ \A n \in DOMAIN audit : audit'[n] = audit[n]
               /\ answers \subseteq answers'
    BY <2>1, CommitFacts
  <2>2. Len(audit) \in Nat
    BY DEF IInv, TypeOK
  <2> QED
    BY <2>1, <2>2, OnlyCommitWrites DEF dbVars
<1> QED
  BY <1>1, Invariance, PTL DEF Spec, AppendOnly

-----------------------------------------------------------------------------
(* Refinement *)

\* A committed transition is an edge of the state machine.
LEMMA TargetIsEdge ==
  ASSUME NEW state, NEW action, NEW role, CanTransition(state, action, role)
  PROVE  /\ Permitted(role, action)
         /\ <<state, action, Target(state, action)>> \in TRANSITIONS
  BY DEF CanTransition, Targets, Target

\* What the adapter commits is what DecisionLedger allows: one legal transition
\* at a time, its row, its event and its key together.
THEOREM AdapterImplementsLedger == Spec => ImplementsLedger
<1>1. Init => Ledger!LedgerInit
  BY DEF Init, Ledger!LedgerInit
<1>2. IInv /\ [Next]_vars => [Ledger!LedgerNext]_(Ledger!ledgerVars)
  <2> SUFFICES ASSUME IInv, [Next]_vars
               PROVE  [Ledger!LedgerNext]_(Ledger!ledgerVars)
    OBVIOUS
  <2>1. CASE UNCHANGED dbVars
    BY <2>1 DEF dbVars, Ledger!ledgerVars
  <2>2. ASSUME NEW c \in Clients, Commit(c)
        PROVE  Ledger!LedgerNext
    <3> DEFINE d == req[c].decision
               k == req[c].key
               e == NewEvent(c)
               edge == <<req[c].expected_state, req[c].action,
                         Target(req[c].expected_state, req[c].action)>>
    <3>1. /\ d \in Decisions /\ k \in Keys /\ req[c].role \in Roles
          /\ decision[d].state = edge[1]
          /\ decision[d].version = req[c].expected_version
      BY <2>2, ConstantsAssumption
         DEF IInv, TypeOK, RequestType, NoStaleWrite, Commit, RowFound, StateMatches,
             VersionMatches, Row
    <3>2. edge \in TRANSITIONS /\ Permitted(req[c].role, edge[2])
      BY <2>2, TargetIsEdge DEF IInv, LegalWrite, Commit
    <3>3. k \notin {a.key : a \in answers}
      BY <2>2 DEF IInv, OpenTransaction, AnswersTo, Commit
    <3>4. {a.key : a \in answers'} = {a.key : a \in answers} \cup {k}
      <4>1. answers' = answers \cup {NewAnswer(c)} /\ NewAnswer(c).key = k
        BY <2>2 DEF Commit, NewAnswer
      <4> QED
        BY <4>1, Zenon
    <3>5. decision' = [decision EXCEPT ![d] = [state   |-> edge[3],
                                               version |-> decision[d].version + 1]]
      BY <2>2, <3>1 DEF Commit, NewRow
    <3>6. {LedgerEvent(audit'[n]) : n \in DOMAIN audit'} =
            {LedgerEvent(audit[n]) : n \in DOMAIN audit} \cup {LedgerEvent(e)}
      <4>1. /\ Len(audit) \in Nat /\ DOMAIN audit = 1 .. Len(audit)
            /\ DOMAIN audit' = 1 .. Len(audit) + 1
            /\ \A n \in DOMAIN audit : audit'[n] = audit[n]
            /\ audit'[Len(audit) + 1] = e
        BY <2>2, CommitFacts
      <4>2. DOMAIN audit' = DOMAIN audit \cup {Len(audit) + 1}
        BY <4>1
      <4> QED
        BY <4>1, <4>2, Zenon
    <3>7. LedgerEvent(e) =
            [decision |-> d, action |-> edge[2], role |-> req[c].role, from |-> edge[1],
             to |-> edge[3], version |-> decision[d].version + 1, key |-> k]
      BY <3>1 DEF LedgerEvent, NewEvent, NewRow
    <3>8. /\ Ledger!TRANSITIONS = TRANSITIONS /\ Ledger!Roles = Roles
          /\ Ledger!Permitted(req[c].role, edge[2])
      <4>1. Ledger!Actions = Actions /\ Ledger!Roles = Roles
        BY DEF Ledger!Actions, Actions, Ledger!Roles, Roles
      <4>2. Ledger!ROLE_PERMISSIONS = ROLE_PERMISSIONS
        BY <4>1 DEF Ledger!ROLE_PERMISSIONS, ROLE_PERMISSIONS
      <4>3. Ledger!TRANSITIONS = TRANSITIONS
        BY DEF Ledger!TRANSITIONS, TRANSITIONS
      <4> QED
        BY <3>2, <4>1, <4>2, <4>3 DEF Ledger!Permitted, Permitted
    <3> HIDE DEF d, k, e, edge
    <3>9. Ledger!Transition(k, d, edge, req[c].role)
      BY <3>1, <3>5, <3>6, <3>7, <3>8 DEF Ledger!Transition
    <3> QED
      BY <3>1, <3>2, <3>3, <3>4, <3>8, <3>9 DEF Ledger!LedgerNext
  <2> QED
    BY <2>1, <2>2, OnlyCommitWrites DEF vars, dbVars
<1> QED
  BY <1>1, <1>2, Invariance, PTL DEF Spec, ImplementsLedger, Ledger!LedgerSpec
-----------------------------------------------------------------------------
(* What the state machine makes of the rows *)

\* A step that changes a row moves it along one edge that some role may take.
LEMMA RowsFollowEdges ==
  ASSUME IInv, [Next]_vars, NEW d \in Decisions, decision'[d] # decision[d]
  PROVE  \E edge \in TRANSITIONS, role \in Roles :
           /\ Permitted(role, edge[2])
           /\ decision[d].state = edge[1]
           /\ decision'[d] = [state |-> edge[3], version |-> decision[d].version + 1]
<1>1. PICK c \in Clients : Commit(c)
  BY OnlyCommitWrites DEF dbVars, vars
<1> DEFINE edge == <<req[c].expected_state, req[c].action,
                     Target(req[c].expected_state, req[c].action)>>
<1>2. /\ req[c].role \in Roles /\ req[c].decision \in Decisions
      /\ decision[req[c].decision].state = edge[1]
      /\ decision[req[c].decision].version = req[c].expected_version
  BY <1>1, ConstantsAssumption
     DEF IInv, TypeOK, RequestType, NoStaleWrite, Commit, RowFound, StateMatches,
         VersionMatches, Row
<1>3. edge \in TRANSITIONS /\ Permitted(req[c].role, edge[2])
  BY <1>1, TargetIsEdge DEF IInv, LegalWrite, Commit
<1>4. decision' = [decision EXCEPT ![req[c].decision] =
                     [state   |-> edge[3],
                      version |-> decision[req[c].decision].version + 1]]
  BY <1>1, <1>2 DEF Commit, NewRow
<1>5. d = req[c].decision
  BY <1>4 DEF IInv, TypeOK
<1>6. decision'[d] = [state |-> edge[3], version |-> decision[d].version + 1]
  BY <1>2, <1>4, <1>5 DEF IInv, TypeOK
<1> HIDE DEF edge
<1> QED
  BY <1>2, <1>3, <1>5, <1>6

\* No row ever gets into review, or is returned, unless one was imported in such a
\* state: the table leads there from those two states only.
THEOREM ReviewIsUnreachable ==
  ASSUME InitialStates \cap {"IN_REVIEW", "RETURNED"} = {}
  PROVE  Spec => [](\A d \in Decisions : decision[d].state \notin {"IN_REVIEW", "RETURNED"})
<1> DEFINE Outside == \A d \in Decisions : decision[d].state \notin {"IN_REVIEW", "RETURNED"}
<1>1. Init => Outside
  BY DEF Init
<1>2. \A edge \in TRANSITIONS :
        edge[3] \in {"IN_REVIEW", "RETURNED"} => edge[1] \in {"IN_REVIEW", "RETURNED"}
  BY DEF TRANSITIONS
<1>3. IInv /\ Outside /\ [Next]_vars => Outside'
  <2> SUFFICES ASSUME IInv, Outside, [Next]_vars, NEW d \in Decisions
               PROVE  decision'[d].state \notin {"IN_REVIEW", "RETURNED"}
    OBVIOUS
  <2>1. CASE decision'[d] = decision[d]
    BY <2>1
  <2>2. CASE decision'[d] # decision[d]
    <3>1. PICK edge \in TRANSITIONS :
            /\ decision[d].state = edge[1]
            /\ decision'[d] = [state |-> edge[3], version |-> decision[d].version + 1]
      BY <2>2, RowsFollowEdges
    <3>2. decision'[d].state = edge[3]
      BY <3>1
    <3>3. edge[1] \notin {"IN_REVIEW", "RETURNED"}
      BY <3>1
    <3> QED
      BY <1>2, <3>2, <3>3
  <2> QED
    BY <2>1, <2>2
<1> HIDE DEF Outside
<1>4. Spec => []Outside
  BY <1>1, <1>3, Invariance, PTL DEF Spec
<1> QED
  BY <1>4 DEF Outside

\* Rows imported locked, or for a review of the migration, stay as they are for
\* ever: nobody's transition unlocks one.
THEOREM ImportedLocksStay ==
  Spec => [][ \A d \in Decisions :
                decision[d].state \in {"LOCKED", "MIGRATION_REVIEW_REQUIRED"}
                  => decision'[d] = decision[d] ]_vars
<1> DEFINE Kept == \A d \in Decisions :
                     decision[d].state \in {"LOCKED", "MIGRATION_REVIEW_REQUIRED"}
                       => decision'[d] = decision[d]
<1>1. \A edge \in TRANSITIONS : edge[1] \notin {"LOCKED", "MIGRATION_REVIEW_REQUIRED"}
  BY DEF TRANSITIONS
<1>2. IInv /\ [Next]_vars => [Kept]_vars
  BY <1>1, RowsFollowEdges
<1> HIDE DEF Kept
<1>3. Spec => [][Kept]_vars
  BY <1>2, Invariance, PTL DEF Spec
<1> QED
  BY <1>3 DEF Kept
=============================================================================
