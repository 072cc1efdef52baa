------------------------ MODULE FinalSecurityProofs -------------------------
(***************************************************************************)
(* Proofs about FinalSecurity, for any number of threads, keys, tokens,    *)
(* calls and restarts.  The argument: fn checks the revision and raises it *)
(* in one step, so what this process carried out expected an older         *)
(* revision than its record has (AppliedInPast), and no two expected the   *)
(* same; a restart forgets the record and what was done to it.  What is    *)
(* stored or told is always something carried out (StoreTrue,              *)
(* ResultsTrue), so the second thread that stores under a key of one       *)
(* payload stores what is there.                                           *)
(***************************************************************************)
EXTENDS FinalSecurity, TLAPS

\* The fields of a call.
LEMMA CallTyped ==
  ASSUME TypeOK, NEW t \in Threads
  PROVE  /\ call[t] \in Calls /\ call[t].key \in Keys
         /\ call[t].payload \in PayloadType
         /\ call[t].payload.expected_revision \in 1 .. MaxRevision
         /\ call[t].payload.new_state \in RecordStates
  BY SecurityAssumption DEF TypeOK, CallType, PayloadType

\* An entry made of a call has the type of entries.
LEMMA EntryTyped ==
  ASSUME TypeOK, NEW t \in Threads, NEW n \in Nat
  PROVE  Done(call[t].payload, n) \in EntryType
  BY CallTyped DEF Done, EntryType

-----------------------------------------------------------------------------
(* The initial states *)

\* The invariant holds initially.
LEMMA InitInv == Init => IInv
<1> SUFFICES ASSUME Init PROVE IInv
  OBVIOUS
<1>1. TypeOK
  <2>1. (CHOOSE c \in Calls : TRUE) \in Calls
    BY SecurityAssumption
  <2>2. call \in [Threads -> Calls]
    BY <2>1 DEF Init
  <2>3. record \in [state : RecordStates, revision : 1 .. MaxRevision + 1]
    BY SecurityAssumption DEF Init
  <2> QED
    BY <2>2, <2>3, SecurityAssumption DEF Init, TypeOK
<1> QED
  BY <1>1 DEF Init, IInv, AppliedInPast, AppliedOncePerRevision, ResultsTrue,
              StoreTrue, AnswersAreTrue, TokensFresh, TokenUsedOnce

-----------------------------------------------------------------------------
(* Types *)

\* Every step keeps the types.
LEMMA TypeStep ==
  ASSUME TypeOK, Next
  PROVE  TypeOK'
<1>1. ASSUME NEW t \in Threads, NEW c \in Calls, Execute(t, c)
      PROVE  TypeOK'
  BY <1>1 DEF TypeOK, Execute, Goto
<1>2. ASSUME NEW t \in Threads, ReturnPrior(t)
      PROVE  TypeOK'
  <2>1. PICK e \in Prior(t) :
          answers' = answers \cup {Done(call[t].payload, e.result)}
    BY <1>2 DEF ReturnPrior
  <2>2. e.result \in Nat
    BY CallTyped DEF Prior, TypeOK, EntryType
  <2>3. Done(call[t].payload, e.result) \in EntryType
    BY <2>2, EntryTyped
  <2> QED
    BY <1>2, <2>1, <2>3 DEF TypeOK, ReturnPrior, Goto
<1>3. ASSUME NEW t \in Threads, KeyConflict(t) \/ MutateRaises(t)
      PROVE  TypeOK'
  BY <1>3 DEF TypeOK, KeyConflict, MutateRaises, Goto
<1>4. ASSUME NEW t \in Threads, Unseen(t)
      PROVE  TypeOK'
  BY <1>4 DEF TypeOK, Unseen, Goto
<1>5. ASSUME NEW t \in Threads, Mutate(t)
      PROVE  TypeOK'
  <2>1. /\ record.revision \in 1 .. MaxRevision
        /\ record.revision + 1 \in 1 .. MaxRevision + 1
    BY <1>5, CallTyped, SecurityAssumption DEF Mutate, Current
  <2>2. record' \in [state : RecordStates, revision : 1 .. MaxRevision + 1]
    BY <1>5, <2>1, CallTyped DEF Mutate
  <2>3. Done(call[t].payload, record.revision + 1) \in EntryType
    BY <2>1, EntryTyped
  <2>4. result' \in [Threads -> Nat] /\ applied' \subseteq EntryType
    BY <1>5, <2>1, <2>3 DEF Mutate, TypeOK
  <2> QED
    BY <1>5, <2>2, <2>4 DEF TypeOK, Mutate, Goto
<1>6. ASSUME NEW t \in Threads, Store(t)
      PROVE  TypeOK'
  <2>1. Done(call[t].payload, result[t]) \in EntryType
    BY EntryTyped DEF TypeOK
  <2>2. store' \in [Keys -> SUBSET EntryType] /\ answers' \subseteq EntryType
    BY <1>6, <2>1, CallTyped DEF Store, TypeOK
  <2> QED
    BY <1>6, <2>2 DEF TypeOK, Store, Goto
<1>7. ASSUME NEW token \in Tokens, ConsumeToken(token)
      PROVE  TypeOK'
  BY <1>7 DEF TypeOK, ConsumeToken
<1>8. CASE Restart
  <2>1. record' \in [state : RecordStates, revision : 1 .. MaxRevision + 1]
    BY <1>8, SecurityAssumption DEF TypeOK, Restart
  <2> QED
    BY <1>8, <2>1, SecurityAssumption DEF TypeOK, Restart
<1> QED
  BY <1>1, <1>2, <1>3, <1>4, <1>5, <1>6, <1>7, <1>8 DEF Next, Step

-----------------------------------------------------------------------------
(* What was carried out, stored and told *)

\* What is carried out by Mutate expected the revision the record had, and
\* nothing carried out before did.
LEMMA MutateApplies ==
  ASSUME IInv, NEW t \in Threads, Mutate(t)
  PROVE  /\ AppliedInPast' /\ AppliedOncePerRevision'
         /\ Done(call[t].payload, result'[t]) \in applied'
<1> DEFINE new == Done(call[t].payload, record.revision + 1)
<1>1. /\ applied' = applied \cup {new}
      /\ record'.revision = record.revision + 1
      /\ result'[t] = record.revision + 1
      /\ new.payload.expected_revision = record.revision
      /\ new.result = record.revision + 1
  BY DEF IInv, TypeOK, Mutate, Current, Done
<1>2. record.revision \in Nat
  BY SecurityAssumption DEF IInv, TypeOK
<1>3. \A a \in applied :
        /\ a.payload.expected_revision \in Nat
        /\ a.result = a.payload.expected_revision + 1 /\ a.result <= record.revision
  BY DEF IInv, TypeOK, AppliedInPast, EntryType, PayloadType
<1>4. \A a \in applied : a.payload.expected_revision # record.revision
  BY <1>2, <1>3
<1>5. AppliedInPast'
  BY <1>1, <1>2, <1>3 DEF AppliedInPast
<1>6. AppliedOncePerRevision'
  BY <1>1, <1>4 DEF AppliedOncePerRevision, IInv
<1> QED
  BY <1>1, <1>5, <1>6

\* Every step keeps what was carried out apart and in the past.
LEMMA AppliedStep ==
  ASSUME IInv, Next
  PROVE  AppliedInPast' /\ AppliedOncePerRevision'
<1>1. ASSUME NEW t \in Threads, Mutate(t)
      PROVE  AppliedInPast' /\ AppliedOncePerRevision'
  BY <1>1, MutateApplies
<1>2. CASE UNCHANGED <<record, applied>>
  BY <1>2 DEF IInv, AppliedInPast, AppliedOncePerRevision
<1>3. CASE Restart
  BY <1>3 DEF Restart, AppliedInPast, AppliedOncePerRevision
<1> QED
  BY <1>1, <1>2, <1>3 DEF Next, Step, Execute, ReturnPrior, KeyConflict, Unseen,
                          MutateRaises, Store, ConsumeToken

\* Every step keeps what is waiting to be stored, stored and told to what was
\* carried out.
LEMMA TruthStep ==
  ASSUME IInv, Next
  PROVE  ResultsTrue' /\ StoreTrue' /\ AnswersAreTrue'
<1>1. ASSUME NEW t \in Threads, NEW c \in Calls, Execute(t, c)
      PROVE  ResultsTrue' /\ StoreTrue' /\ AnswersAreTrue'
  BY <1>1 DEF IInv, TypeOK, Execute, Goto, ResultsTrue, StoreTrue, AnswersAreTrue
<1>2. ASSUME NEW t \in Threads, ReturnPrior(t)
      PROVE  ResultsTrue' /\ StoreTrue' /\ AnswersAreTrue'
  <2>1. PICK e \in Prior(t) :
          answers' = answers \cup {Done(call[t].payload, e.result)}
    BY <1>2 DEF ReturnPrior
  <2>2. /\ e \in store[call[t].key] /\ e.payload = call[t].payload
        /\ e \in EntryType /\ e \in applied
    BY CallTyped DEF Prior, IInv, TypeOK, StoreTrue
  <2>3. Done(call[t].payload, e.result) = e
    BY <2>2 DEF Done, EntryType
  <2>4. AnswersAreTrue'
    BY <1>2, <2>1, <2>2, <2>3 DEF ReturnPrior, IInv, AnswersAreTrue
  <2> QED
    BY <1>2, <2>4 DEF IInv, TypeOK, ReturnPrior, Goto, ResultsTrue, StoreTrue
<1>3. ASSUME NEW t \in Threads, KeyConflict(t) \/ MutateRaises(t) \/ Unseen(t)
      PROVE  ResultsTrue' /\ StoreTrue' /\ AnswersAreTrue'
  BY <1>3 DEF IInv, TypeOK, KeyConflict, MutateRaises, Unseen, Goto, ResultsTrue,
              StoreTrue, AnswersAreTrue
<1>4. ASSUME NEW t \in Threads, Mutate(t)
      PROVE  ResultsTrue' /\ StoreTrue' /\ AnswersAreTrue'
  <2>1. Done(call[t].payload, result'[t]) \in applied' /\ applied \subseteq applied'
    BY <1>4, MutateApplies DEF Mutate
  <2>2. \A u \in Threads \ {t} : pc'[u] = pc[u] /\ result'[u] = result[u]
    BY <1>4 DEF Mutate, Goto, IInv, TypeOK
  <2>3. ResultsTrue'
    BY <1>4, <2>1, <2>2 DEF Mutate, IInv, ResultsTrue
  <2> QED
    BY <1>4, <2>1, <2>3 DEF Mutate, IInv, StoreTrue, AnswersAreTrue
<1>5. ASSUME NEW t \in Threads, Store(t)
      PROVE  ResultsTrue' /\ StoreTrue' /\ AnswersAreTrue'
  <2> DEFINE entry == Done(call[t].payload, result[t])
  <2>1. entry \in applied /\ entry.payload = call[t].payload
    BY <1>5 DEF Store, IInv, ResultsTrue, Done
  <2>2. store' = [store EXCEPT ![call[t].key] = {entry}]
    BY <1>5 DEF Store
  <2>3. StoreTrue'
    <3>1. store'[call[t].key] = {entry}
      BY <2>2, CallTyped DEF IInv, TypeOK
    <3>2. \A k \in Keys \ {call[t].key} : store'[k] = store[k]
      BY <2>2 DEF IInv, TypeOK
    <3>3. UNCHANGED applied
      BY <1>5 DEF Store
    <3>4. call[t] \in Calls
      BY CallTyped DEF IInv
    <3> QED
      BY <2>1, <3>1, <3>2, <3>3, <3>4 DEF IInv, StoreTrue
  <2>4. AnswersAreTrue'
    BY <1>5, <2>1 DEF Store, IInv, AnswersAreTrue
  <2>5. ResultsTrue'
    BY <1>5 DEF Store, Goto, IInv, TypeOK, ResultsTrue
  <2> QED
    BY <2>3, <2>4, <2>5
<1>6. ASSUME NEW token \in Tokens, ConsumeToken(token)
      PROVE  ResultsTrue' /\ StoreTrue' /\ AnswersAreTrue'
  BY <1>6 DEF IInv, ConsumeToken, ResultsTrue, StoreTrue, AnswersAreTrue
<1>7. CASE Restart
  BY <1>7 DEF IInv, Restart, ResultsTrue, StoreTrue, AnswersAreTrue
<1> QED
  BY <1>1, <1>2, <1>3, <1>4, <1>5, <1>6, <1>7 DEF Next, Step

\* Every step keeps tokens single-use.
LEMMA TokenStep ==
  ASSUME IInv, Next
  PROVE  TokensFresh' /\ TokenUsedOnce'
<1>1. ASSUME NEW token \in Tokens, ConsumeToken(token)
      PROVE  TokensFresh' /\ TokenUsedOnce'
  <2>1. accepted'[token] = 1 /\ token \in consumed'
    BY <1>1 DEF ConsumeToken, IInv, TypeOK, TokensFresh
  <2>2. \A x \in Tokens \ {token} :
          accepted'[x] = accepted[x] /\ (x \in consumed' <=> x \in consumed)
    BY <1>1 DEF ConsumeToken, IInv, TypeOK
  <2> QED
    BY <2>1, <2>2 DEF IInv, TokensFresh, TokenUsedOnce
<1>2. CASE Restart
  BY <1>2 DEF Restart, TokensFresh, TokenUsedOnce
<1>3. CASE UNCHANGED <<consumed, accepted>>
  BY <1>3 DEF IInv, TokensFresh, TokenUsedOnce
<1> QED
  BY <1>1, <1>2, <1>3 DEF Next, Step, Execute, ReturnPrior, KeyConflict, Unseen, Mutate,
                          MutateRaises, Store

-----------------------------------------------------------------------------
(* The theorems *)

\* Every step keeps the invariant.
LEMMA NextInv == IInv /\ [Next]_vars => IInv'
<1> SUFFICES ASSUME IInv, [Next]_vars PROVE IInv'
  OBVIOUS
<1>1. CASE Next
  BY <1>1, TypeStep, AppliedStep, TruthStep, TokenStep DEF IInv
<1>2. CASE UNCHANGED vars
  BY <1>2 DEF vars, IInv, TypeOK, AppliedInPast, AppliedOncePerRevision, ResultsTrue,
              StoreTrue, AnswersAreTrue, TokensFresh, TokenUsedOnce
<1> QED
  BY <1>1, <1>2

\* The inductive invariant holds in every reachable state.
THEOREM Invariance == Spec => []IInv
  BY InitInv, NextInv, PTL DEF Spec

\* The guards' state has its type; the revision stays one that was expected, or
\* the next.
THEOREM TypeCorrect == Spec => []TypeOK
<1>1. IInv => TypeOK
  BY DEF IInv
<1> QED
  BY Invariance, <1>1, PTL

\* In the life of a process at most one of any number of racing or repeated calls
\* that expect one revision takes effect, whatever their keys.
THEOREM RevisionAppliedOnce == Spec => []AppliedOncePerRevision
<1>1. IInv => AppliedOncePerRevision
  BY DEF IInv
<1> QED
  BY Invariance, <1>1, PTL

\* Every answer, first or repeated, is of what the caller's payload did.
THEOREM AnswersAreOfWhatWasDone == Spec => []AnswersAreTrue
<1>1. IInv => AnswersAreTrue
  BY DEF IInv
<1> QED
  BY Invariance, <1>1, PTL

\* A process accepts a token once.
THEOREM TokensAreSingleUse == Spec => []TokenUsedOnce
<1>1. IInv => TokenUsedOnce
  BY DEF IInv
<1> QED
  BY Invariance, <1>1, PTL

\* Under a key of one payload a thread stores what is stored already, or the first
\* result: both are of that payload, and it was carried out once.
LEMMA StoreKeeps ==
  ASSUME IInv, [Next]_vars, NEW k \in Keys,
         store[k] # {}, OnePayload(k), restarts' = restarts
  PROVE  store'[k] = store[k]
<1>1. ASSUME NEW t \in Threads, Store(t)
      PROVE  store'[k] = store[k]
  <2>1. CASE k # call[t].key
    BY <1>1, <2>1 DEF Store, IInv, TypeOK
  <2>2. CASE k = call[t].key
    <3> DEFINE entry == Done(call[t].payload, result[t])
    <3>1. entry \in applied /\ entry.payload = call[t].payload
      BY <1>1 DEF Store, IInv, ResultsTrue, Done
    <3>2. PICK e \in store[k] : store[k] = {e} /\ e \in applied
      BY DEF IInv, StoreTrue
    <3>3. PICK c \in Calls : c.key = k /\ c.payload = e.payload
      BY <3>2 DEF IInv, StoreTrue
    <3>4. call[t] \in Calls
      BY CallTyped DEF IInv
    <3>5. e.payload = entry.payload
      BY <2>2, <3>1, <3>3, <3>4 DEF OnePayload
    <3>6. e = entry
      BY <3>1, <3>2, <3>5 DEF IInv, AppliedOncePerRevision
    <3>7. store'[k] = {entry}
      BY <1>1, <2>2 DEF Store, IInv, TypeOK
    <3> QED
      BY <3>2, <3>6, <3>7
  <2> QED
    BY <2>1, <2>2
<1>2. CASE UNCHANGED store
  BY <1>2
<1>3. ~Restart
  BY DEF Restart, IInv, TypeOK
<1> QED
  BY <1>1, <1>2, <1>3 DEF Next, Step, vars, Execute, ReturnPrior, KeyConflict, Unseen,
                          Mutate, MutateRaises, ConsumeToken

\* The entry of a key that stands for one payload never changes while the process
\* lives, though several threads may have run fn under it.
THEOREM EntriesLast == Spec => StoredForLife
<1> DEFINE Step1 == \A k \in Keys :
                      store[k] # {} /\ OnePayload(k) /\ restarts' = restarts
                        => store'[k] = store[k]
<1>1. IInv /\ [Next]_vars => [Step1]_vars
  BY StoreKeeps
<1>2. Spec => [][Step1]_vars
  BY Invariance, <1>1, PTL DEF Spec
<1> QED
  BY <1>2 DEF StoredForLife
-----------------------------------------------------------------------------
(* The guards implement one atomic record *)

\* A call that takes effect is the abstract record's Apply.
LEMMA MutateIsApply ==
  ASSUME IInv, NEW t \in Threads, Mutate(t)
  PROVE  Abstract!RecordNext
<1> DEFINE payload == call[t].payload
<1>1. payload \in {c.payload : c \in Calls}
  BY CallTyped DEF IInv
<1>2. /\ mutations_authorized /\ record.revision = payload.expected_revision
      /\ record' = [state |-> payload.new_state, revision |-> record.revision + 1]
      /\ applied' = applied \cup {[payload |-> payload, result |-> record.revision + 1]}
      /\ UNCHANGED <<level, enabled, answers>>
  BY DEF Mutate, Current, Done
<1>3. mutations_authorized' = mutations_authorized
  BY <1>2 DEF mutations_authorized
<1>4. Abstract!Apply(payload)
  BY <1>2, <1>3 DEF Abstract!Apply
<1> QED
  BY <1>1, <1>4 DEF Abstract!RecordNext

\* What a caller is told, the first time or again, is the abstract record's Answer.
LEMMA ReturnIsAnswer ==
  ASSUME IInv, NEW t \in Threads, ReturnPrior(t) \/ Store(t)
  PROVE  Abstract!RecordNext
<1>1. \E a \in applied : answers' = answers \cup {a}
  <2>1. CASE Store(t)
    <3>1. Done(call[t].payload, result[t]) \in applied
      BY <2>1 DEF Store, IInv, ResultsTrue
    <3> QED
      BY <2>1, <3>1 DEF Store
  <2>2. CASE ReturnPrior(t)
    <3>1. PICK e \in Prior(t) :
            answers' = answers \cup {Done(call[t].payload, e.result)}
      BY <2>2 DEF ReturnPrior
    <3>2. e \in applied /\ e \in EntryType /\ e.payload = call[t].payload
      BY CallTyped DEF Prior, IInv, TypeOK, StoreTrue
    <3>3. Done(call[t].payload, e.result) = e
      BY <3>2 DEF Done, EntryType
    <3> QED
      BY <3>1, <3>2, <3>3
  <2> QED
    BY <2>1, <2>2
<1>2. UNCHANGED <<record, level, enabled, applied>>
  BY DEF ReturnPrior, Store
<1>3. mutations_authorized' = mutations_authorized
  BY <1>2 DEF mutations_authorized
<1>4. Abstract!Answer
  BY <1>1, <1>2, <1>3 DEF Abstract!Answer
<1> QED
  BY <1>4 DEF Abstract!RecordNext

\* A restart begins another abstract record.
LEMMA RestartIsRebuild ==
  ASSUME Restart
  PROVE  Abstract!RecordNext
<1>1. mutations_authorized' \in BOOLEAN
  <2>1. mutations_authorized' = (level' >= 3 /\ enabled')
    BY DEF mutations_authorized
  <2> QED
    BY <2>1
<1>2. /\ record' \in [state : RecordStates, revision : 1 .. record.revision]
      /\ applied' = {} /\ answers' = {}
  BY DEF Restart
<1>3. Abstract!Rebuild
  BY <1>1, <1>2 DEF Abstract!Rebuild
<1> QED
  BY <1>3 DEF Abstract!RecordNext

\* The threads and the store they write without a lock are, through what the
\* record is, what was carried out and what was told, one atomic record, and a
\* restart is the beginning of another.
THEOREM RecordImplemented == Spec => ImplementsRecord
<1>1. Init => Abstract!RecordInit
  <2> SUFFICES ASSUME Init PROVE Abstract!RecordInit
    OBVIOUS
  <2>1. mutations_authorized \in BOOLEAN
    BY DEF mutations_authorized
  <2> QED
    BY <2>1 DEF Init, Abstract!RecordInit
<1>2. IInv /\ [Next]_vars => [Abstract!RecordNext]_(Abstract!recordVars)
  <2> SUFFICES ASSUME IInv, [Next]_vars
               PROVE  [Abstract!RecordNext]_(Abstract!recordVars)
    OBVIOUS
  <2>1. ASSUME NEW t \in Threads, Mutate(t)
        PROVE  Abstract!RecordNext
    BY <2>1, MutateIsApply
  <2>2. ASSUME NEW t \in Threads, ReturnPrior(t) \/ Store(t)
        PROVE  Abstract!RecordNext
    BY <2>2, ReturnIsAnswer
  <2>3. CASE Restart
    BY <2>3, RestartIsRebuild
  <2>4. CASE UNCHANGED <<record, level, enabled, applied, answers>>
    BY <2>4 DEF Abstract!recordVars, mutations_authorized
  <2> QED
    BY <2>1, <2>2, <2>3, <2>4 DEF Next, Step, vars, Execute, KeyConflict, Unseen,
                                  MutateRaises, ConsumeToken
<1> QED
  BY <1>1, <1>2, Invariance, PTL DEF Spec, ImplementsRecord, Abstract!RecordSpec
=============================================================================
