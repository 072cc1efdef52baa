------------------------ MODULE SimulationApiProofs -------------------------
(***************************************************************************)
(* Proofs about SimulationApi, for any number of threads, decisions,       *)
(* sessions, requests and restarts: types, what relates the ledger to the  *)
(* memory and to the idempotency records, and what becomes of a session    *)
(* that has ended; then the ledger of a server of one thread, and what     *)
(* verification finds in any ledger.                                       *)
(***************************************************************************)
EXTENDS SimulationApi, FiniteSetTheorems, TLAPS

-----------------------------------------------------------------------------
(* Numbers *)

\* A set of naturals has a least element.
LEMMA LeastNat ==
  ASSUME NEW T, T \subseteq Nat, T # {}
  PROVE  \E n \in T : \A m \in T : n <= m
<1>1. IsWellFoundedOn(OpToRel(<, Nat), Nat)
  BY NatLessThanWellFounded
<1>2. PICK n \in T : \A m \in T : ~(<<m, n>> \in OpToRel(<, Nat))
  BY <1>1, WFMin
<1>3. \A m \in T : <<m, n>> \in OpToRel(<, Nat) <=> m < n
  BY DEF OpToRel
<1>4. \A m \in T : ~(m < n)
  BY <1>2, <1>3, Zenon
<1> QED
  BY <1>4

\* What holds of 0, and of n + 1 when of n, holds of every number to N.
LEMMA UpTo ==
  ASSUME NEW N \in Nat, NEW G, 0 \in G,
         \A n \in 0 .. N : n < N /\ n \in G => n + 1 \in G
  PROVE  0 .. N \subseteq G
<1> DEFINE T == (0 .. N) \ G
<1> SUFFICES ASSUME T # {} PROVE FALSE
  OBVIOUS
<1>0. T \subseteq Nat
  OBVIOUS
<1>1. PICK n \in T : \A m \in T : n <= m
  BY <1>0, LeastNat
<1>2. n # 0 /\ n - 1 \in 0 .. N /\ n - 1 < N /\ n - 1 \notin T
  BY <1>1
<1> QED
  BY <1>1, <1>2

-----------------------------------------------------------------------------
(* The last hash *)

\* A last hash is Genesis or the id of a row.
LEMMA LastHashPresent ==
  ASSUME NEW R, NEW hash \in LastHashes(R)
  PROVE  hash = Genesis \/ \E r \in R : r.id = hash
  BY DEF LastHashes

LEMMA LastHashNat ==
  ASSUME NEW R, \A r \in R : r.id \in Nat
  PROVE  LastHashes(R) \subseteq Nat
  BY LastHashPresent DEF Genesis

-----------------------------------------------------------------------------
(* Types *)

\* TypeOK, but for the rows and what is compared with them.
CoreTypes ==
  /\ decision \in [Decisions -> [state : States, version : Nat]]
  /\ session \in [Sessions -> {"none", "live", "revoked", "expired"}]
  /\ disabled \in BOOLEAN
  /\ made \in 0 .. MaxRequests /\ restarts \in 0 .. MaxRestarts
  /\ pc \in [Threads -> Labels]
  /\ local \in [Threads -> LocalType]
  /\ response \in [Threads -> SUBSET ResponseType]

\* The local variables of an idle thread have their types, and so have the
\* decisions of a process that starts.
LEMMA NoRequestType == NoRequest \in LocalType
<1> DEFINE body == CHOOSE b \in Bodies : TRUE
<1>1. body \in Bodies /\ body.decision \in Decisions
  BY ApiAssumption DEF BodyType
<1>2. InitialState[body.decision] \in States
  BY <1>1, ApiAssumption
<1> QED
  BY <1>1, <1>2 DEF NoRequest, LocalType, Genesis

LEMMA InitialDecisionsType ==
  InitialDecisions \in [Decisions -> [state : States, version : Nat]]
  BY ApiAssumption DEF InitialDecisions

\* A request's fields, for a thread whose local variables have their types.
LEMMA BodyFields ==
  ASSUME CoreTypes, NEW t \in Threads
  PROVE  /\ local[t].body \in Bodies
         /\ local[t].body.decision \in Decisions
         /\ local[t].body.session \in Sessions
         /\ local[t].body.action \in Actions
  BY ApiAssumption DEF CoreTypes, LocalType, BodyType

LEMMA FailTypes ==
  ASSUME CoreTypes, NEW t \in Threads, Fail(t)
  PROVE  CoreTypes'
  BY NoRequestType DEF Fail, Goto, CoreTypes, tableVars, Labels

LEMMA RequestTypes ==
  ASSUME CoreTypes, NEW t \in Threads, NEW body \in Bodies, Request(t, body)
  PROVE  CoreTypes'
<1>1. made + 1 \in 0 .. MaxRequests /\ made + 1 \in Nat
  BY ApiAssumption DEF Request, CoreTypes
<1>2. [local[t] EXCEPT !.id = made + 1, !.body = body] \in LocalType
  BY <1>1 DEF CoreTypes, LocalType
<1>3. local' \in [Threads -> LocalType]
  BY <1>2 DEF Request, CoreTypes
<1> QED
  BY <1>1, <1>3 DEF Request, Goto, CoreTypes, tableVars, Labels

\* The steps that change neither the decision nor a local variable ...
LEMMA MoveTypes ==
  ASSUME CoreTypes, NEW t \in Threads,
         ValidateCsrf(t) \/ ReadSession(t) \/ Insert(t) \/ Record(t)
  PROVE  CoreTypes'
  BY DEF ValidateCsrf, ReadSession, Insert, Record, Goto, CoreTypes, tableVars, Labels

\* ... and those that do.
LEMMA ValidateTypes ==
  ASSUME CoreTypes, NEW t \in Threads, Validate(t)
  PROVE  CoreTypes'
<1> DEFINE to == Target(decision[local[t].body.decision].state, local[t].body.action)
<1>1. to \in States
  BY DEF Validate, Valid, CanTransition, Targets, Target
<1>2. [local[t] EXCEPT !.target = to] \in LocalType
  BY <1>1 DEF CoreTypes, LocalType
<1>3. local' \in [Threads -> LocalType]
  BY <1>2 DEF Validate, CoreTypes
<1> QED
  BY <1>3 DEF Validate, Goto, CoreTypes, tableVars, Labels

LEMMA ApplyTypes ==
  ASSUME CoreTypes, NEW t \in Threads, Apply(t)
  PROVE  CoreTypes'
<1> DEFINE d == local[t].body.decision
           new == [state |-> local[t].target, version |-> decision[d].version + 1]
<1>1. d \in Decisions
  BY BodyFields
<1>2. decision[d].state \in States /\ new \in [state : States, version : Nat]
  BY <1>1 DEF CoreTypes, LocalType
<1>3. [local[t] EXCEPT !.old = decision[d].state] \in LocalType
  BY <1>2 DEF CoreTypes, LocalType
<1>4. local' \in [Threads -> LocalType]
  BY <1>3 DEF Apply, CoreTypes
<1>5. decision' \in [Decisions -> [state : States, version : Nat]]
  BY <1>1, <1>2 DEF Apply, CoreTypes
<1> QED
  BY <1>4, <1>5 DEF Apply, Goto, CoreTypes, tableVars, Labels

LEMMA ReadTypes ==
  ASSUME CoreTypes, LastHashes(rows) \subseteq Nat, NEW t \in Threads,
         ReadVersion(t) \/ Stamp(t) \/ ReadLastHash(t)
  PROVE  CoreTypes'
<1> DEFINE version == decision[local[t].body.decision].version
<1>1. version \in Nat /\ Times \subseteq Nat
  BY BodyFields, ApiAssumption DEF CoreTypes
<1>2. /\ [local[t] EXCEPT !.version = version] \in LocalType
      /\ \A now \in Times : [local[t] EXCEPT !.stamp = now] \in LocalType
      /\ \A hash \in LastHashes(rows) : [local[t] EXCEPT !.prev = hash] \in LocalType
  BY <1>1 DEF CoreTypes, LocalType
<1>3. local' \in [Threads -> LocalType]
  <2>1. CASE ReadVersion(t)
    BY <1>2, <2>1 DEF ReadVersion, CoreTypes
  <2>2. CASE Stamp(t)
    <3>1. PICK now \in Times : local' = [local EXCEPT ![t].stamp = now]
      BY <2>2 DEF Stamp
    <3> QED
      BY <1>2, <3>1 DEF CoreTypes
  <2>3. CASE ReadLastHash(t)
    <3>1. PICK hash \in LastHashes(rows) : local' = [local EXCEPT ![t].prev = hash]
      BY <2>3 DEF ReadLastHash
    <3> QED
      BY <1>2, <3>1 DEF CoreTypes
  <2> QED
    BY <2>1, <2>2, <2>3
<1> QED
  BY <1>3 DEF ReadVersion, Stamp, ReadLastHash, Goto, CoreTypes, tableVars, Labels

LEMMA RespondTypes ==
  ASSUME CoreTypes, NEW t \in Threads, Respond(t)
  PROVE  CoreTypes'
<1> DEFINE row == decision[local[t].body.decision]
<1>1. row \in [state : States, version : Nat]
  BY BodyFields DEF CoreTypes
<1>2. [id |-> local[t].id, previous_state |-> row.state,
       resulting_state |-> local[t].target, version |-> row.version] \in ResponseType
  BY <1>1 DEF CoreTypes, LocalType, ResponseType
<1>3. response' \in [Threads -> SUBSET ResponseType]
  BY <1>2 DEF Respond, CoreTypes
<1> QED
  BY <1>3, NoRequestType DEF Respond, Goto, CoreTypes, tableVars, Labels

\* The steps of a request keep the types, given that a last hash is a number.
LEMMA StepTypes ==
  ASSUME CoreTypes, LastHashes(rows) \subseteq Nat, NEW t \in Threads, Step(t)
  PROVE  CoreTypes'
<1>1. CASE CsrfRefused(t) \/ SessionGone(t) \/ ValidateRefused(t) \/ StoreFails(t)
  BY <1>1, FailTypes DEF CsrfRefused, SessionGone, ValidateRefused, StoreFails
<1> QED
  BY <1>1, MoveTypes, ValidateTypes, ApplyTypes, ReadTypes, RespondTypes DEF Step

\* So do those of sessions, and a restart.
LEMMA SessionTypes ==
  ASSUME CoreTypes,
         \E s \in Sessions : Login(s) \/ Revoke(s) \/ Expire(s) \/ RevokeAll(s)
  PROVE  CoreTypes'
  BY DEF Login, Revoke, Expire, SetSession, RevokeAll, CoreTypes

LEMMA RestartTypes ==
  ASSUME CoreTypes, Restart
  PROVE  CoreTypes'
<1>1. restarts' \in 0 .. MaxRestarts
  BY ApiAssumption DEF Restart, CoreTypes
<1> QED
  BY <1>1, NoRequestType, InitialDecisionsType DEF Restart, CoreTypes, tableVars, Labels

LEMMA InitTypes ==
  ASSUME Init
  PROVE  CoreTypes
  BY NoRequestType, InitialDecisionsType, ApiAssumption DEF Init, CoreTypes, Labels

-----------------------------------------------------------------------------
(* What the ledger and the requests have to do with each other *)

\* The invariant, but for what is said of versions, and what follows from it.
Related ==
  /\ TypeOK
  /\ RequestIds /\ RowIds /\ PrevKnown /\ RecordHasAudit

\* TypeOK from its parts.
LEMMA TypesWhole ==
  ASSUME CoreTypes', rows' \subseteq RowType, records' \subseteq 1 .. MaxRequests
  PROVE  TypeOK'
  BY DEF TypeOK, CoreTypes

LEMMA TypesParts ==
  ASSUME Related
  PROVE  /\ CoreTypes /\ rows \subseteq RowType /\ records \subseteq 1 .. MaxRequests
         /\ \A r \in rows : r.id \in Nat /\ r.created_at \in Nat
         /\ LastHashes(rows) \subseteq Nat /\ \A hash \in LastHashes(rows) : Present(hash)
<1>1. CoreTypes /\ rows \subseteq RowType /\ records \subseteq 1 .. MaxRequests
  BY DEF Related, TypeOK, CoreTypes
<1>2. \A r \in rows : r.id \in Nat /\ r.created_at \in Nat
  BY <1>1 DEF RowType
<1> QED
  BY <1>1, <1>2, LastHashNat, LastHashPresent DEF Present

\* A step after which each thread is idle or where it was, and that touches no
\* table.
LEMMA QuietStep ==
  ASSUME Related, CoreTypes', UNCHANGED <<rows, records, made>>,
         \A u \in Threads : pc'[u] = "idle" \/ (pc'[u] = pc[u] /\ local'[u] = local[u])
  PROVE  Related'
<1>1. RequestIds'
  BY DEF Related, RequestIds
<1>2. RowIds'
  BY DEF Related, RowIds, Unwritten
<1>3. PrevKnown'
  BY DEF Related, PrevKnown, Present
<1>4. RecordHasAudit'
  BY DEF Related, RecordHasAudit
<1> QED
  BY <1>1, <1>2, <1>3, <1>4, TypesParts, TypesWhole DEF Related

\* The steps from one call to the next up to the reading of the last hash.
LEMMA GoStep ==
  ASSUME Related, NEW t \in Threads,
         \/ ValidateCsrf(t) \/ ReadSession(t) \/ Validate(t) \/ Apply(t)
         \/ ReadVersion(t) \/ Stamp(t)
  PROVE  Related'
<1>1. UNCHANGED <<rows, records, made>>
  BY DEF ValidateCsrf, ReadSession, Validate, Apply, ReadVersion, Stamp, tableVars
<1>2. /\ pc[t] \in {"csrf", "gate", "validate", "apply", "version", "stamp"}
      /\ pc'[t] \in {"gate", "validate", "apply", "version", "stamp", "prev"}
      /\ local'[t].id = local[t].id
      /\ \A u \in Threads \ {t} : pc'[u] = pc[u] /\ local'[u] = local[u]
  BY TypesParts DEF ValidateCsrf, ReadSession, Validate, Apply, ReadVersion, Stamp, Goto,
                    CoreTypes, LocalType
<1>3. CoreTypes'
  BY TypesParts, StepTypes DEF Step
<1>4. RequestIds'
  BY <1>1, <1>2 DEF Related, RequestIds
<1>5. RowIds'
  BY <1>1, <1>2 DEF Related, RowIds, Unwritten
<1>6. PrevKnown'
  BY <1>1, <1>2 DEF Related, PrevKnown, Present
<1>7. RecordHasAudit'
  BY <1>1 DEF Related, RecordHasAudit
<1> QED
  BY <1>1, <1>3, <1>4, <1>5, <1>6, <1>7, TypesParts, TypesWhole DEF Related

\* The hash that is read is that of a row, or Genesis.
LEMMA LastHashStep ==
  ASSUME Related, NEW t \in Threads, ReadLastHash(t)
  PROVE  Related'
<1>1. UNCHANGED <<rows, records, made>>
  BY DEF ReadLastHash, tableVars
<1>2. /\ pc[t] = "prev" /\ pc'[t] = "insert"
      /\ local'[t].id = local[t].id
      /\ local'[t].prev \in LastHashes(rows)
      /\ \A u \in Threads \ {t} : pc'[u] = pc[u] /\ local'[u] = local[u]
  BY TypesParts DEF ReadLastHash, Goto, CoreTypes, LocalType
<1>3. CoreTypes'
  BY TypesParts, StepTypes DEF Step
<1>4. RequestIds'
  BY <1>1, <1>2 DEF Related, RequestIds
<1>5. RowIds'
  BY <1>1, <1>2 DEF Related, RowIds, Unwritten
<1>6. PrevKnown'
  BY <1>1, <1>2, TypesParts DEF Related, PrevKnown, Present
<1>7. RecordHasAudit'
  BY <1>1 DEF Related, RecordHasAudit
<1> QED
  BY <1>1, <1>3, <1>4, <1>5, <1>6, <1>7, TypesParts, TypesWhole DEF Related

\* The row of a request that inserts one, and that it is new.
LEMMA NewRow ==
  ASSUME Related, NEW t \in Threads, pc[t] = "insert"
  PROVE  /\ Row(t) \in RowType /\ Row(t) \notin rows
         /\ Row(t).id = local[t].id /\ Row(t).id \in 1 .. made
         /\ Row(t).prev = local[t].prev /\ Present(Row(t).prev)
         /\ Row(t).decision = local[t].body.decision
         /\ Row(t).action = local[t].body.action
         /\ Row(t).from = local[t].old /\ Row(t).to = local[t].target
         /\ \A r \in rows : r.id # Row(t).id
<1>1. Row(t) \in RowType
  BY TypesParts, BodyFields DEF CoreTypes, LocalType, Row, RowType
<1>2. /\ Row(t).id = local[t].id
      /\ Row(t).prev = local[t].prev
      /\ Row(t).decision = local[t].body.decision
      /\ Row(t).action = local[t].body.action
      /\ Row(t).from = local[t].old /\ Row(t).to = local[t].target
  BY DEF Row
<1>3. local[t].id \in 1 .. made /\ \A r \in rows : r.id # local[t].id
  BY DEF Related, RequestIds, RowIds, Unwritten
<1>4. Present(local[t].prev)
  BY DEF Related, PrevKnown
<1> QED
  BY <1>1, <1>2, <1>3, <1>4

LEMMA InsertStep ==
  ASSUME Related, NEW t \in Threads, Insert(t)
  PROVE  Related'
<1> DEFINE new == Row(t)
<1>1. UNCHANGED <<records, made, local>> /\ rows' = rows \cup {new}
  BY DEF Insert
<1>2. /\ pc[t] = "insert" /\ pc'[t] = "record"
      /\ \A u \in Threads \ {t} : pc'[u] = pc[u]
  BY TypesParts DEF Insert, Goto, CoreTypes
<1>3. CoreTypes'
  BY TypesParts, StepTypes DEF Step
<1>4. /\ new \in RowType /\ new.id = local[t].id /\ new.id \in 1 .. made
      /\ Present(new.prev)
      /\ \A r \in rows : r.id # new.id
  BY <1>2, NewRow
<1> HIDE DEF new
<1>5. RequestIds'
  BY <1>1, <1>2 DEF Related, RequestIds
<1>6. RowIds'
  <2>1. \A u \in Threads : pc'[u] \in Unwritten => local[u].id # new.id
    BY <1>2, <1>4 DEF Related, RequestIds, Unwritten
  <2> QED
    BY <1>1, <1>2, <1>4, <2>1 DEF Related, RowIds, Unwritten
<1>7. PrevKnown'
  BY <1>1, <1>2, <1>4 DEF Related, PrevKnown, Present
<1>8. RecordHasAudit'
  BY <1>1 DEF Related, RecordHasAudit
<1>9. rows' \subseteq RowType
  BY <1>1, <1>4, TypesParts
<1> QED
  BY <1>1, <1>3, <1>5, <1>6, <1>7, <1>8, <1>9, TypesParts, TypesWhole
     DEF Related

\* The record is that of a request whose event is in the ledger.
LEMMA RecordStep ==
  ASSUME Related, NEW t \in Threads, Record(t)
  PROVE  Related'
<1>1. UNCHANGED <<rows, made, local>> /\ records' = records \cup {local[t].id}
  BY DEF Record
<1>2. /\ pc[t] = "record" /\ pc'[t] = "respond"
      /\ \A u \in Threads \ {t} : pc'[u] = pc[u]
  BY TypesParts DEF Record, Goto, CoreTypes
<1>3. CoreTypes'
  BY TypesParts, StepTypes DEF Step
<1>4. local[t].id \in 1 .. MaxRequests /\ \E r \in rows : r.id = local[t].id
  BY <1>2, TypesParts, ApiAssumption DEF Related, RequestIds, RowIds, CoreTypes
<1>5. RequestIds'
  BY <1>1, <1>2 DEF Related, RequestIds
<1>6. RowIds'
  BY <1>1, <1>2 DEF Related, RowIds, Unwritten
<1>7. PrevKnown'
  BY <1>1, <1>2 DEF Related, PrevKnown, Present
<1>8. RecordHasAudit'
  BY <1>1, <1>4 DEF Related, RecordHasAudit
<1>9. records' \subseteq 1 .. MaxRequests
  BY <1>1, <1>4, TypesParts
<1> QED
  BY <1>1, <1>3, <1>5, <1>6, <1>7, <1>8, <1>9, TypesParts, TypesWhole
     DEF Related

\* A request is numbered as none before it.
LEMMA RequestStep ==
  ASSUME Related, NEW t \in Threads, NEW body \in Bodies, Request(t, body)
  PROVE  Related'
<1>1. UNCHANGED <<rows, records>> /\ made' = made + 1
  BY DEF Request, tableVars
<1>2. /\ pc[t] = "idle" /\ pc'[t] = "csrf"
      /\ local'[t].id = made + 1
      /\ \A u \in Threads \ {t} : pc'[u] = pc[u] /\ local'[u] = local[u]
  BY TypesParts DEF Request, Goto, CoreTypes, LocalType
<1>3. CoreTypes'
  BY TypesParts, RequestTypes
<1>4. made \in Nat
  BY TypesParts DEF CoreTypes
<1>5. RequestIds'
  BY <1>1, <1>2, <1>4 DEF Related, RequestIds
<1>6. RowIds'
  BY <1>1, <1>2, <1>4 DEF Related, RowIds, Unwritten
<1>7. PrevKnown'
  BY <1>1, <1>2 DEF Related, PrevKnown, Present
<1>8. RecordHasAudit'
  BY <1>1 DEF Related, RecordHasAudit
<1> QED
  BY <1>1, <1>3, <1>5, <1>6, <1>7, <1>8, TypesParts, TypesWhole DEF Related

\* A thread that leaves, with an error or with its response.
LEMMA LeaveStep ==
  ASSUME Related, NEW t \in Threads,
         \/ CsrfRefused(t) \/ SessionGone(t) \/ ValidateRefused(t) \/ StoreFails(t)
         \/ Respond(t)
  PROVE  Related'
<1>1. UNCHANGED <<rows, records, made>>
  BY DEF CsrfRefused, SessionGone, ValidateRefused, StoreFails, Fail, Respond, tableVars
<1>2. pc'[t] = "idle" /\ \A u \in Threads \ {t} : pc'[u] = pc[u] /\ local'[u] = local[u]
  BY TypesParts DEF CsrfRefused, SessionGone, ValidateRefused, StoreFails, Fail, Respond,
                    Goto, CoreTypes
<1>3. CoreTypes'
  BY TypesParts, StepTypes DEF Step
<1> QED
  BY <1>1, <1>2, <1>3, QuietStep

\* Sessions, and a restart.
LEMMA AroundStep ==
  ASSUME Related,
         \/ \E s \in Sessions : Login(s) \/ Revoke(s) \/ Expire(s) \/ RevokeAll(s)
         \/ Restart
  PROVE  Related'
<1>1. UNCHANGED <<rows, records, made>>
  BY DEF Login, Revoke, Expire, SetSession, RevokeAll, Restart, tableVars
<1>2. \A u \in Threads : pc'[u] = "idle" \/ (pc'[u] = pc[u] /\ local'[u] = local[u])
  BY DEF Login, Revoke, Expire, SetSession, RevokeAll, Restart
<1>3. CoreTypes'
  BY TypesParts, SessionTypes, RestartTypes
<1> QED
  BY <1>1, <1>2, <1>3, QuietStep

LEMMA StutterStep ==
  ASSUME Related, UNCHANGED vars
  PROVE  Related'
<1>1. CoreTypes'
  BY TypesParts DEF CoreTypes, vars, tableVars
<1> QED
  BY <1>1, QuietStep DEF vars, tableVars

LEMMA InitRelated == Init => Related
<1> SUFFICES ASSUME Init PROVE Related
  OBVIOUS
<1>1. TypeOK
  BY InitTypes, ApiAssumption DEF Init, TypeOK, CoreTypes
<1>2. RequestIds /\ RowIds /\ PrevKnown /\ RecordHasAudit
  BY DEF Init, RequestIds, RowIds, PrevKnown, RecordHasAudit, Unwritten
<1> QED
  BY <1>1, <1>2 DEF Related

LEMMA NextRelated == Related /\ [Next]_vars => Related'
<1> SUFFICES ASSUME Related, [Next]_vars PROVE Related'
  OBVIOUS
<1>1. ASSUME NEW t \in Threads, Step(t)
      PROVE  Related'
  BY <1>1, GoStep, LastHashStep, InsertStep, RecordStep, LeaveStep DEF Step
<1> QED
  BY <1>1, RequestStep, AroundStep, StutterStep DEF Next

\* The variables have their types.
THEOREM TypeCorrect == Spec => []TypeOK
<1>1. Related => TypeOK
  BY DEF Related
<1> QED
  BY <1>1, InitRelated, NextRelated, PTL DEF Spec

\* Whatever failed or died between the two connections, a record of a request means
\* that its event is in the ledger.
THEOREM RecordsAreAudited == Spec => []RecordHasAudit
<1>1. Related => RecordHasAudit
  BY DEF Related
<1> QED
  BY <1>1, InitRelated, NextRelated, PTL DEF Spec

-----------------------------------------------------------------------------
(* Events and versions *)

\* Steps that add no event and no request that owes one, and take no version back.
LEMMA NothingOwed ==
  ASSUME VersionsLead, UNCHANGED rows,
         decision \in [Decisions -> [state : States, version : Nat]],
         restarts' = 0 => /\ restarts = 0 /\ decision' = decision
                          /\ \A d \in Decisions : Unaudited(d)' \subseteq Unaudited(d)
  PROVE  VersionsLead'
<1> SUFFICES ASSUME restarts' = 0, NEW d \in Decisions
             PROVE  /\ IsFiniteSet(Unaudited(d)')
                    /\ Cardinality(EventsOf(d)') + Cardinality(Unaudited(d)')
                         < decision'[d].version
  BY DEF VersionsLead
<1>1. /\ IsFiniteSet(Unaudited(d)) /\ IsFiniteSet(EventsOf(d))
      /\ Cardinality(EventsOf(d)) + Cardinality(Unaudited(d)) < decision[d].version
  BY FS_Subset DEF VersionsLead, EventsOf
<1>2. /\ IsFiniteSet(Unaudited(d)')
      /\ Cardinality(Unaudited(d)') <= Cardinality(Unaudited(d))
  BY <1>1, FS_Subset
<1>3. /\ Cardinality(EventsOf(d)) \in Nat /\ Cardinality(Unaudited(d)) \in Nat
      /\ Cardinality(Unaudited(d)') \in Nat /\ decision[d].version \in Nat
  BY <1>1, <1>2, FS_CardinalityType
<1>4. EventsOf(d)' = EventsOf(d) /\ decision'[d] = decision[d]
  BY DEF EventsOf
<1> QED
  BY <1>1, <1>2, <1>3, <1>4

\* A change of a decision counts its version up for the event it owes.
LEMMA VersionsApply ==
  ASSUME Related, VersionsLead, NEW t \in Threads, Apply(t)
  PROVE  VersionsLead'
<1> DEFINE e == local[t].body.decision
<1>1. UNCHANGED <<rows, restarts>>
  BY DEF Apply, tableVars
<1>2. /\ pc[t] = "apply" /\ pc'[t] = "version" /\ local'[t].body = local[t].body
      /\ \A u \in Threads \ {t} : pc'[u] = pc[u] /\ local'[u] = local[u]
  BY TypesParts DEF Apply, Goto, CoreTypes, LocalType
<1>3. /\ e \in Decisions /\ decision'[e].version = decision[e].version + 1
      /\ \A d \in Decisions \ {e} : decision'[d] = decision[d]
  BY TypesParts, BodyFields DEF Apply, CoreTypes
<1>4. SUFFICES ASSUME restarts' = 0, NEW d \in Decisions
               PROVE  /\ IsFiniteSet(Unaudited(d)')
                      /\ Cardinality(EventsOf(d)') + Cardinality(Unaudited(d)')
                           < decision'[d].version
  BY <1>1 DEF VersionsLead
<1>5. /\ IsFiniteSet(Unaudited(d)) /\ IsFiniteSet(EventsOf(d)) /\ EventsOf(d)' = EventsOf(d)
      /\ Cardinality(EventsOf(d)) + Cardinality(Unaudited(d)) < decision[d].version
  BY <1>1, <1>4, FS_Subset DEF VersionsLead, EventsOf
<1>6. /\ Cardinality(EventsOf(d)) \in Nat /\ Cardinality(Unaudited(d)) \in Nat
      /\ decision[d].version \in Nat
  BY <1>5, TypesParts, FS_CardinalityType DEF CoreTypes
<1>7. CASE d = e
  <2>1. Unaudited(d)' = Unaudited(d) \cup {t} /\ t \notin Unaudited(d)
    BY <1>2, <1>7 DEF Unaudited
  <2>2. /\ IsFiniteSet(Unaudited(d)')
        /\ Cardinality(Unaudited(d)') = Cardinality(Unaudited(d)) + 1
    BY <1>5, <2>1, FS_AddElement
  <2> QED
    BY <1>3, <1>5, <1>6, <1>7, <2>2
<1>8. CASE d # e
  <2>1. Unaudited(d)' = Unaudited(d)
    BY <1>2, <1>8 DEF Unaudited
  <2> QED
    BY <1>3, <1>5, <1>6, <1>8, <2>1
<1> QED
  BY <1>7, <1>8

\* An event is inserted by a request that owed it.
LEMMA VersionsInsert ==
  ASSUME Related, VersionsLead, NEW t \in Threads, Insert(t)
  PROVE  VersionsLead'
<1> DEFINE e == local[t].body.decision
           new == Row(t)
<1>1. UNCHANGED <<restarts, decision, local>> /\ rows' = rows \cup {new}
  BY DEF Insert
<1>2. /\ pc[t] = "insert" /\ pc'[t] = "record"
      /\ \A u \in Threads \ {t} : pc'[u] = pc[u]
  BY TypesParts DEF Insert, Goto, CoreTypes
<1>3. new \notin rows /\ new.decision = e
  BY <1>2, NewRow
<1> HIDE DEF new
<1>4. IsFiniteSet(rows')
  BY <1>1, FS_AddElement DEF VersionsLead
<1>5. SUFFICES ASSUME restarts' = 0, NEW d \in Decisions
               PROVE  /\ IsFiniteSet(Unaudited(d)')
                      /\ Cardinality(EventsOf(d)') + Cardinality(Unaudited(d)')
                           < decision'[d].version
  BY <1>4 DEF VersionsLead
<1>6. /\ IsFiniteSet(Unaudited(d)) /\ IsFiniteSet(EventsOf(d))
      /\ Cardinality(EventsOf(d)) + Cardinality(Unaudited(d)) < decision[d].version
  BY <1>1, <1>5, FS_Subset DEF VersionsLead, EventsOf
<1>7. /\ Cardinality(EventsOf(d)) \in Nat /\ Cardinality(Unaudited(d)) \in Nat
      /\ decision[d].version \in Nat
  BY <1>6, TypesParts, FS_CardinalityType DEF CoreTypes
<1>8. CASE d = e
  <2>1. Unaudited(d)' = Unaudited(d) \ {t} /\ t \in Unaudited(d)
    BY <1>1, <1>2, <1>8 DEF Unaudited
  <2>2. EventsOf(d)' = EventsOf(d) \cup {new} /\ new \notin EventsOf(d)
    BY <1>1, <1>3, <1>8 DEF EventsOf
  <2>3. /\ IsFiniteSet(Unaudited(d)')
        /\ Cardinality(Unaudited(d)') = Cardinality(Unaudited(d)) - 1
    BY <1>6, <2>1, FS_RemoveElement
  <2>4. Cardinality(EventsOf(d)') = Cardinality(EventsOf(d)) + 1
    BY <1>6, <2>2, FS_AddElement
  <2> QED
    BY <1>1, <1>6, <1>7, <2>3, <2>4
<1>9. CASE d # e
  <2>1. Unaudited(d)' = Unaudited(d)
    BY <1>1, <1>2, <1>9 DEF Unaudited
  <2>2. EventsOf(d)' = EventsOf(d)
    BY <1>1, <1>3, <1>9 DEF EventsOf
  <2> QED
    BY <1>1, <1>6, <1>7, <2>1, <2>2
<1> QED
  BY <1>8, <1>9

\* The other steps of a request, which changes nothing or has changed it already.
LEMMA VersionsStep ==
  ASSUME Related, VersionsLead, NEW t \in Threads, Step(t)
  PROVE  VersionsLead'
<1>1. CASE ~Apply(t) /\ ~Insert(t)
  <2>1. UNCHANGED <<rows, restarts, decision>>
    BY <1>1 DEF Step, ValidateCsrf, CsrfRefused, ReadSession, SessionGone, Validate,
                ValidateRefused, ReadVersion, Stamp, ReadLastHash, Record, StoreFails,
                Respond, Fail, tableVars
  <2>2. /\ \A u \in Threads \ {t} : pc'[u] = pc[u] /\ local'[u] = local[u]
        /\ pc'[t] \in {"version", "stamp", "prev", "insert"} =>
             /\ pc[t] \in {"version", "stamp", "prev", "insert"}
             /\ local'[t].body = local[t].body
    BY <1>1, TypesParts
       DEF Step, ValidateCsrf, CsrfRefused, ReadSession, SessionGone, Validate,
           ValidateRefused, ReadVersion, Stamp, ReadLastHash, Record, StoreFails,
           Respond, Fail, Goto, CoreTypes, LocalType
  <2>3. \A d \in Decisions : Unaudited(d)' \subseteq Unaudited(d)
    BY <2>2 DEF Unaudited
  <2> QED
    BY <2>1, <2>3, TypesParts, NothingOwed DEF CoreTypes
<1> QED
  BY <1>1, VersionsApply, VersionsInsert

LEMMA NextVersions == Related /\ VersionsLead /\ [Next]_vars => VersionsLead'
<1> SUFFICES ASSUME Related, VersionsLead, [Next]_vars PROVE VersionsLead'
  OBVIOUS
<1>0. /\ decision \in [Decisions -> [state : States, version : Nat]]
      /\ restarts \in Nat
  BY TypesParts DEF CoreTypes
<1>1. ASSUME NEW t \in Threads, NEW body \in Bodies, Request(t, body)
      PROVE  VersionsLead'
  <2>1. UNCHANGED <<rows, restarts, decision>>
    BY <1>1 DEF Request, tableVars
  <2>2. /\ \A u \in Threads \ {t} : pc'[u] = pc[u] /\ local'[u] = local[u]
        /\ pc'[t] = "csrf"
    BY <1>1, TypesParts DEF Request, Goto, CoreTypes
  <2>3. \A d \in Decisions : Unaudited(d)' \subseteq Unaudited(d)
    BY <2>2 DEF Unaudited
  <2> QED
    BY <1>0, <2>1, <2>3, NothingOwed
<1>2. CASE \/ \E s \in Sessions : Login(s) \/ Revoke(s) \/ Expire(s) \/ RevokeAll(s)
           \/ UNCHANGED vars
  <2>1. UNCHANGED <<rows, restarts, decision, pc, local>>
    BY <1>2 DEF Login, Revoke, Expire, SetSession, RevokeAll, vars, tableVars
  <2>2. \A d \in Decisions : Unaudited(d)' \subseteq Unaudited(d)
    BY <2>1 DEF Unaudited
  <2> QED
    BY <1>0, <2>1, <2>2, NothingOwed
<1>3. CASE Restart
  <2>1. UNCHANGED rows /\ restarts' # 0
    BY <1>0, <1>3 DEF Restart, tableVars
  <2> QED
    BY <1>0, <2>1, NothingOwed
<1> QED
  BY <1>1, <1>2, <1>3, VersionsStep DEF Next

LEMMA InitVersions == Init => VersionsLead
<1> SUFFICES ASSUME Init PROVE VersionsLead
  OBVIOUS
<1>1. \A d \in Decisions : Unaudited(d) = {} /\ EventsOf(d) = {}
  BY DEF Init, Unaudited, EventsOf
<1>2. \A d \in Decisions : decision[d].version = 1
  BY DEF Init, InitialDecisions
<1>3. IsFiniteSet({}) /\ Cardinality({}) = 0
  BY FS_EmptySet
<1>4. ASSUME NEW d \in Decisions
      PROVE  /\ IsFiniteSet(Unaudited(d))
             /\ Cardinality(EventsOf(d)) + Cardinality(Unaudited(d)) < decision[d].version
  <2>1. IsFiniteSet(Unaudited(d)) /\ Cardinality(Unaudited(d)) = 0
    BY <1>1, <1>3, Zenon
  <2>2. Cardinality(EventsOf(d)) = 0
    BY <1>1, <1>3, Zenon
  <2> QED
    BY <1>2, <2>1, <2>2
<1>5. IsFiniteSet(rows)
  BY <1>3, Zenon DEF Init
<1> QED
  BY <1>4, <1>5 DEF VersionsLead

\* Of a decision the ledger has fewer events than the decision has versions.
LEMMA VersionsEnough == CoreTypes /\ VersionsLead => NoAuditWithoutMutation
<1> SUFFICES ASSUME CoreTypes, VersionsLead, restarts = 0, NEW d \in Decisions
             PROVE  Cardinality(EventsOf(d)) < decision[d].version
  BY DEF NoAuditWithoutMutation, EventsOf
<1>1. IsFiniteSet(EventsOf(d)) /\ IsFiniteSet(Unaudited(d))
  BY FS_Subset DEF VersionsLead, EventsOf
<1>2. /\ Cardinality(EventsOf(d)) \in Nat /\ Cardinality(Unaudited(d)) \in Nat
      /\ decision[d].version \in Nat
  BY <1>1, FS_CardinalityType DEF CoreTypes
<1> QED
  BY <1>2 DEF VersionsLead

\* Whatever the threads do at the same time and wherever a request fails, the ledger
\* never shows more changes of a decision than the memory has made since it started.
THEOREM LedgerNeverAhead == Spec => []NoAuditWithoutMutation
<1>1. Related => CoreTypes
  BY TypesParts
<1> QED
  BY <1>1, InitRelated, NextRelated, InitVersions, NextVersions, VersionsEnough, PTL
     DEF Spec

-----------------------------------------------------------------------------
(* Sessions *)

\* A step of a request adds to what is done under a session only if it is live.
LEMMA ActsStep ==
  ASSUME Related, NEW t \in Threads, Step(t), NEW s \in Sessions, session[s] # "live"
  PROVE  ActsUnder(s)' \subseteq ActsUnder(s)
<1> DEFINE Passed(u) == pc[u] \notin {"idle", "csrf", "gate"} /\ local[u].body.session = s
<1>1. \A u \in Threads \ {t} : pc'[u] = pc[u] /\ local'[u] = local[u]
  BY TypesParts
     DEF Step, ValidateCsrf, CsrfRefused, ReadSession, SessionGone, Validate,
         ValidateRefused, Apply, ReadVersion, Stamp, ReadLastHash, Insert, Record,
         StoreFails, Respond, Fail, Goto, CoreTypes
<1>2. Passed(t)' => /\ local'[t].body = local[t].body /\ local'[t].id = local[t].id
                    /\ Passed(t)
  BY TypesParts
     DEF Step, ValidateCsrf, CsrfRefused, ReadSession, SessionGone, Validate,
         ValidateRefused, Apply, ReadVersion, Stamp, ReadLastHash, Insert, Record,
         StoreFails, Respond, Fail, Goto, Live, CoreTypes, LocalType
<1>3. \A r \in rows' \ rows : r.session = s => Passed(t) /\ r.id = local[t].id
  <2>1. CASE Insert(t)
    BY <2>1 DEF Insert, Row
  <2>2. CASE ~Insert(t)
    BY <2>2 DEF Step, ValidateCsrf, CsrfRefused, ReadSession, SessionGone, Validate,
                ValidateRefused, Apply, ReadVersion, Stamp, ReadLastHash, Record,
                StoreFails, Respond, Fail, tableVars
  <2> QED
    BY <2>1, <2>2
<1>4. \A u \in Threads : Passed(u)' => Passed(u) /\ local'[u].id = local[u].id
  BY <1>1, <1>2
<1> QED
  BY <1>3, <1>4 DEF ActsUnder

\* Nor does any other step; and a session that has ended has ended.
LEMMA SessionSticks ==
  ASSUME Related, Next, NEW s \in Sessions, session[s] \in {"revoked", "expired"}
  PROVE  /\ session'[s] \in {"revoked", "expired"}
         /\ ActsUnder(s)' \subseteq ActsUnder(s)
<1>1. ASSUME NEW t \in Threads, Step(t)
      PROVE  UNCHANGED session
  BY <1>1 DEF Step, ValidateCsrf, CsrfRefused, ReadSession, SessionGone, Validate,
              ValidateRefused, Apply, ReadVersion, Stamp, ReadLastHash, Insert, Record,
              StoreFails, Respond, Fail, tableVars
<1>2. ASSUME NEW t \in Threads, NEW body \in Bodies, Request(t, body)
      PROVE  UNCHANGED session /\ ActsUnder(s)' \subseteq ActsUnder(s)
  <2>1. UNCHANGED <<session, rows>>
    BY <1>2 DEF Request, tableVars
  <2>2. /\ pc'[t] = "csrf"
        /\ \A u \in Threads \ {t} : pc'[u] = pc[u] /\ local'[u] = local[u]
    BY <1>2, TypesParts DEF Request, Goto, CoreTypes
  <2> QED
    BY <2>1, <2>2 DEF ActsUnder
<1>3. ASSUME \E x \in Sessions : Login(x) \/ Revoke(x) \/ Expire(x) \/ RevokeAll(x)
      PROVE  /\ session'[s] \in {"revoked", "expired"}
             /\ ActsUnder(s)' \subseteq ActsUnder(s)
  <2>1. UNCHANGED <<rows, pc, local>>
    BY <1>3 DEF Login, Revoke, Expire, SetSession, RevokeAll
  <2>2. session'[s] \in {"revoked", "expired"}
    BY <1>3, TypesParts DEF Login, Revoke, Expire, SetSession, RevokeAll, CoreTypes
  <2> QED
    BY <2>1, <2>2 DEF ActsUnder
<1>4. ASSUME Restart
      PROVE  UNCHANGED session /\ ActsUnder(s)' \subseteq ActsUnder(s)
  BY <1>4 DEF Restart, tableVars, ActsUnder
<1>5. ASSUME NEW t \in Threads, Step(t)
      PROVE  ActsUnder(s)' \subseteq ActsUnder(s)
  BY <1>5, ActsStep
<1> QED
  BY <1>1, <1>2, <1>3, <1>4, <1>5 DEF Next

\* A session that has ended stays so, and nothing is added to what is done under it,
\* on whatever thread and across restarts.
THEOREM SessionsStayEnded == Spec => RevocationSticks
<1>1. Related /\ [Next]_vars =>
        [ \A s \in Sessions :
            session[s] \in {"revoked", "expired"} =>
              /\ session'[s] \in {"revoked", "expired"}
              /\ ActsUnder(s)' \subseteq ActsUnder(s) ]_vars
  BY SessionSticks
<1> QED
  BY <1>1, InitRelated, NextRelated, PTL DEF Spec, RevocationSticks

-----------------------------------------------------------------------------
(* What verification finds *)

\* Ledgers that ORDER BY created_at puts in one order.
Dated(R) ==
  /\ IsFiniteSet(R)
  /\ \A r \in R : r.created_at \in Nat
  /\ \A r, q \in R : r.created_at = q.created_at => r = q

Earlier(R, r) == {q \in R : q.created_at < r.created_at}

\* A row's place in that order: one more than the rows before it.
Rank(R) == [r \in R |-> Cardinality(Earlier(R, r)) + 1]

LEMMA RankGrows ==
  ASSUME NEW R, Dated(R), NEW r \in R, NEW q \in R, q.created_at < r.created_at
  PROVE  Rank(R)[q] < Rank(R)[r]
<1>1. Earlier(R, q) \subseteq Earlier(R, r)
  BY DEF Dated, Earlier
<1>2. q \in Earlier(R, r) /\ q \notin Earlier(R, q)
  BY DEF Dated, Earlier
<1>3. IsFiniteSet(Earlier(R, r)) /\ IsFiniteSet(Earlier(R, q))
  BY FS_Subset DEF Dated, Earlier
<1>4. Cardinality(Earlier(R, q)) # Cardinality(Earlier(R, r))
  BY <1>1, <1>2, <1>3, FS_Subset
<1>5. Cardinality(Earlier(R, q)) <= Cardinality(Earlier(R, r))
  BY <1>1, <1>3, FS_Subset
<1>6. Cardinality(Earlier(R, q)) \in Nat /\ Cardinality(Earlier(R, r)) \in Nat
  BY <1>3, FS_CardinalityType
<1> QED
  BY <1>4, <1>5, <1>6 DEF Rank

\* Every place from the first to the last is taken by one row.
LEMMA RankOnto ==
  ASSUME NEW R, Dated(R)
  PROVE  /\ Rank(R) \in [R -> 1 .. Cardinality(R)]
         /\ \A i \in 1 .. Cardinality(R) : \E r \in R : Rank(R)[r] = i
<1> DEFINE n == Cardinality(R)
<1>1. n \in Nat
  BY FS_CardinalityType DEF Dated
<1>2. \A r \in R : Rank(R)[r] \in 1 .. n
  <2> TAKE r \in R
  <2>1. Earlier(R, r) \subseteq R \ {r}
    BY DEF Dated, Earlier
  <2>2. IsFiniteSet(R \ {r}) /\ Cardinality(R \ {r}) = n - 1
    BY FS_RemoveElement DEF Dated
  <2>3. /\ IsFiniteSet(Earlier(R, r)) /\ Cardinality(Earlier(R, r)) <= n - 1
        /\ Cardinality(Earlier(R, r)) \in Nat
    BY <2>1, <2>2, FS_Subset, FS_CardinalityType
  <2> QED
    BY <1>1, <2>3 DEF Rank
<1>3. Rank(R) \in [R -> 1 .. n]
  BY <1>2 DEF Rank
<1>4. \A r, q \in R : Rank(R)[r] = Rank(R)[q] => r = q
  <2> SUFFICES ASSUME NEW r \in R, NEW q \in R, Rank(R)[r] = Rank(R)[q], r # q
               PROVE  FALSE
    OBVIOUS
  <2>1. /\ r.created_at \in Nat /\ q.created_at \in Nat /\ r.created_at # q.created_at
        /\ Rank(R)[r] \in Nat /\ Rank(R)[q] \in Nat
    BY <1>2 DEF Dated
  <2>2. r.created_at < q.created_at \/ q.created_at < r.created_at
    BY <2>1
  <2> QED
    BY <2>1, <2>2, RankGrows
<1>5. Rank(R) \in Injection(R, 1 .. n)
  BY <1>3, <1>4 DEF Injection, IsInjective
<1>6. IsFiniteSet(1 .. n) /\ Cardinality(1 .. n) = n
  BY <1>1, FS_Interval
<1>7. Rank(R) \in Surjection(R, 1 .. n)
  BY <1>5, <1>6, FS_Injection
<1> QED
  BY <1>3, <1>7 DEF Surjection

\* ORDER BY created_at ASC: all the rows, each once, none before an earlier one.
LEMMA TimeOrder ==
  ASSUME NEW R, IsFiniteSet(R), NEW order \in InTimeOrders(R)
  PROVE  LET n == Cardinality(R)
         IN  /\ n \in Nat /\ order \in [1 .. n -> R] /\ Len(order) = n
             /\ \A i, j \in 1 .. n : i # j => order[i] # order[j]
             /\ \A i, j \in 1 .. n : i < j => order[i].created_at <= order[j].created_at
             /\ \A r \in R : \E i \in 1 .. n : order[i] = r
<1> DEFINE n == Cardinality(R)
<1>1. n \in Nat
  BY FS_CardinalityType
<1>2. /\ order \in [1 .. n -> R]
      /\ \A i, j \in 1 .. n : i # j => order[i] # order[j]
      /\ \A i, j \in 1 .. n : i < j => order[i].created_at <= order[j].created_at
  BY DEF InTimeOrders, SetToSeqs
<1>3. Len(order) = n
  BY <1>1, <1>2
<1>4. \A r \in R : \E i \in 1 .. n : order[i] = r
  <2>1. order \in Injection(1 .. n, R)
    BY <1>2 DEF Injection, IsInjective
  <2>2. Cardinality(1 .. n) = n
    BY <1>1, FS_Interval
  <2>3. order \in Surjection(1 .. n, R)
    BY <2>1, <2>2, FS_Injection
  <2> QED
    BY <2>3 DEF Surjection
<1> QED
  BY <1>1, <1>2, <1>3, <1>4

\* There is such an order of rows whose times differ.
LEMMA TimeOrderExists ==
  ASSUME NEW R, Dated(R)
  PROVE  InTimeOrders(R) # {}
<1> DEFINE n == Cardinality(R)
           sorted == [i \in 1 .. n |-> CHOOSE r \in R : Rank(R)[r] = i]
<1>1. \A i \in 1 .. n : sorted[i] \in R /\ Rank(R)[sorted[i]] = i
  BY RankOnto
<1>2. sorted \in [1 .. n -> R]
  BY <1>1
<1> HIDE DEF sorted
<1>3. \A i, j \in 1 .. n : i < j => sorted[i].created_at <= sorted[j].created_at
  <2> SUFFICES ASSUME NEW i \in 1 .. n, NEW j \in 1 .. n, i < j,
                      ~(sorted[i].created_at <= sorted[j].created_at)
               PROVE  FALSE
    OBVIOUS
  <2>1. sorted[i].created_at \in Nat /\ sorted[j].created_at \in Nat
    BY <1>1 DEF Dated
  <2>2. Rank(R)[sorted[j]] < Rank(R)[sorted[i]]
    BY <1>1, <2>1, RankGrows
  <2> QED
    BY <1>1, <2>2
<1>4. sorted \in SetToSeqs(R)
  BY <1>1, <1>2 DEF SetToSeqs
<1> QED
  BY <1>2, <1>3, <1>4 DEF InTimeOrders

\* The hash of the row that all others are earlier than is the last hash.
LEMMA LastHashIs ==
  ASSUME NEW R, NEW last \in R, last.created_at \in Nat,
         \A r \in R \ {last} : r.created_at \in Nat /\ r.created_at < last.created_at
  PROVE  LastHashes(R) = {last.id}
<1>1. \A s \in R : s.created_at <= last.created_at
  OBVIOUS
<1>2. \A r \in R : (\A s \in R : s.created_at <= r.created_at) => r = last
  OBVIOUS
<1>3. {r \in R : \A s \in R : s.created_at <= r.created_at} = {last}
  BY <1>1, <1>2
<1> QED
  BY <1>3 DEF LastHashes

-----------------------------------------------------------------------------
(* The loop of verify_hash_chain *)

\* What the function that Found chooses has to satisfy, up to row n.
Loop(order, f, n) ==
  f = [i \in 0 .. n |-> IF i = 0 THEN [expected_prev |-> Genesis, broken |-> {}]
                                 ELSE CheckRow(f[i - 1], order[i])]

LEMMA FoundIs ==
  ASSUME NEW order
  PROVE  Found(order) = CHOOSE f : Loop(order, f, Len(order))
  BY DEF Found, Loop

LEMMA FoundAny ==
  ASSUME NEW order, NEW g, Loop(order, g, Len(order))
  PROVE  Loop(order, Found(order), Len(order))
  BY FoundIs

\* The loop can be run to the end.
LEMMA LoopRuns ==
  ASSUME NEW order, Len(order) \in Nat
  PROVE  Loop(order, Found(order), Len(order))
<1> DEFINE N == Len(order)
           G == {n \in 0 .. N : \E f : Loop(order, f, n)}
           start == [i \in 0 .. 0 |-> [expected_prev |-> Genesis, broken |-> {}]]
<1> HIDE DEF N
<1>0. N \in Nat
  BY DEF N
<1>1. 0 \in G
  <2>1. Loop(order, start, 0)
    BY DEF Loop
  <2> QED
    BY <1>0, <2>1
<1>2. ASSUME NEW n \in 0 .. N, n < N, n \in G
      PROVE  n + 1 \in G
  <2>1. PICK f : Loop(order, f, n)
    BY <1>2
  <2> DEFINE g == [i \in 0 .. n + 1 |-> IF i = n + 1 THEN CheckRow(f[n], order[n + 1])
                                                     ELSE f[i]]
  <2>2. \A i \in 0 .. n : g[i] = f[i]
    BY <1>0
  <2>3. \A i \in 0 .. n : f[i] = IF i = 0 THEN [expected_prev |-> Genesis, broken |-> {}]
                                          ELSE CheckRow(f[i - 1], order[i])
    BY <2>1 DEF Loop
  <2>4. \A i \in 0 .. n + 1 : i # 0 => i - 1 \in 0 .. n
    BY <1>0
  <2>5. g[n + 1] = CheckRow(g[n], order[n + 1])
    BY <1>0, <2>2
  <2> HIDE DEF g
  <2>6. \A i \in 0 .. n + 1 : g[i] = IF i = 0 THEN [expected_prev |-> Genesis, broken |-> {}]
                                              ELSE CheckRow(g[i - 1], order[i])
    <3> TAKE i \in 0 .. n + 1
    <3>1. CASE i = n + 1
      BY <1>0, <2>5, <3>1
    <3>2. CASE i # n + 1
      <4>1. i \in 0 .. n
        BY <1>0, <3>2
      <4> QED
        BY <2>2, <2>3, <2>4, <4>1
    <3> QED
      BY <3>1, <3>2
  <2>7. Loop(order, g, n + 1)
    BY <2>6 DEF Loop, g
  <2>8. n + 1 \in 0 .. N
    BY <1>0, <1>2
  <2> QED
    BY <2>7, <2>8
<1>3. 0 .. N \subseteq G
  BY <1>0, <1>1, <1>2, UpTo
<1>4. N \in G
  BY <1>0, <1>3
<1> QED
  BY <1>4, FoundAny DEF N

\* Each row was computed from the row before it.
Chained(order, n) ==
  \A i \in 1 .. n : order[i].prev = IF i = 1 THEN Genesis ELSE order[i - 1].id

\* After n rows the loop has found nothing exactly if they are chained, and then it
\* expects the hash of the last.
LEMMA LoopFinds ==
  ASSUME NEW order, Len(order) \in Nat
  PROVE  Found(order)[Len(order)].broken = {} <=> Chained(order, Len(order))
<1> DEFINE N == Len(order)
           f == Found(order)
           G == {n \in 0 .. N :
                   /\ f[n] = [expected_prev |-> f[n].expected_prev, broken |-> f[n].broken]
                   /\ f[n].broken = {} <=> Chained(order, n)
                   /\ f[n].broken = {} =>
                        f[n].expected_prev = IF n = 0 THEN Genesis ELSE order[n].id}
<1>1. Loop(order, f, N)
  BY LoopRuns
<1> HIDE DEF N, f
<1>2. N \in Nat
  BY DEF N
<1>3. \A i \in 0 .. N : f[i] = IF i = 0 THEN [expected_prev |-> Genesis, broken |-> {}]
                                        ELSE CheckRow(f[i - 1], order[i])
  BY <1>1 DEF Loop
<1>4. 0 \in G
  <2>0. 0 \in 0 .. N
    BY <1>2
  <2>1. f[0] = [expected_prev |-> Genesis, broken |-> {}]
    BY <1>3, <2>0, Zenon
  <2>2. Chained(order, 0)
    BY DEF Chained
  <2>3. f[0].expected_prev = Genesis /\ f[0].broken = {}
    BY <2>1
  <2> QED
    BY <2>0, <2>1, <2>2, <2>3
<1>5. ASSUME NEW n \in 0 .. N, n < N, n \in G
      PROVE  n + 1 \in G
  <2> DEFINE row == order[n + 1]
             last == IF n = 0 THEN Genesis ELSE order[n].id
  <2>1. n + 1 \in 0 .. N /\ n + 1 # 0 /\ (n + 1) - 1 = n
    BY <1>2, <1>5
  <2>2. f[n + 1] = CheckRow(f[n], row)
    BY <1>3, <2>1
  <2>3. Chained(order, n + 1) <=> Chained(order, n) /\ row.prev = last
    <3>1. \A i : i \in 1 .. n + 1 <=> i \in 1 .. n \/ i = n + 1
      BY <1>2
    <3>2. (n + 1 = 1 <=> n = 0) /\ (n + 1) - 1 = n
      BY <1>2
    <3> QED
      BY <3>1, <3>2 DEF Chained
  <2>4. CASE row.prev = f[n].expected_prev
    <3>1. f[n + 1] = [expected_prev |-> row.id, broken |-> f[n].broken]
      BY <1>5, <2>2, <2>4 DEF CheckRow
    <3> QED
      BY <1>5, <2>1, <2>3, <2>4, <3>1
  <2>5. CASE row.prev # f[n].expected_prev
    <3>1. f[n + 1] = [expected_prev |-> f[n].expected_prev,
                      broken |-> f[n].broken \cup {row.id}]
      BY <1>5, <2>2, <2>5 DEF CheckRow
    <3>2. f[n + 1].broken # {}
      BY <3>1
    <3> QED
      BY <1>5, <2>1, <2>3, <2>5, <3>1, <3>2
  <2> QED
    BY <2>4, <2>5
<1>6. 0 .. N \subseteq G
  BY <1>2, <1>4, <1>5, UpTo
<1>7. N \in G
  BY <1>2, <1>6
<1> QED
  BY <1>7 DEF N, f

\* So verification of an order finds nothing exactly if its rows are chained in it.
LEMMA IntegrityIs ==
  ASSUME NEW R, IsFiniteSet(R), NEW order \in InTimeOrders(R)
  PROVE  Integrity(order) = IF Chained(order, Len(order)) THEN "INTACT" ELSE "COMPROMISED"
  BY TimeOrder, LoopFinds DEF Integrity, Broken

\* Of rows whose times differ verification can report one thing only, INTACT exactly
\* when every row was computed from the one before it in time: it raises no false
\* alarm, and misses nothing that is still in the table.
THEOREM VerificationExact ==
  ASSUME NEW R, Dated(R)
  PROVE  Verdicts(R) = {IF Linked(R) THEN "INTACT" ELSE "COMPROMISED"}
<1>1. ASSUME NEW order \in InTimeOrders(R)
      PROVE  Chained(order, Len(order)) <=> Linked(R)
  <2> DEFINE n == Cardinality(R)
  <2>1. /\ n \in Nat /\ order \in [1 .. n -> R] /\ Len(order) = n
        /\ \A i, j \in 1 .. n : i # j => order[i] # order[j]
        /\ \A i, j \in 1 .. n : i < j => order[i].created_at <= order[j].created_at
        /\ \A r \in R : \E i \in 1 .. n : order[i] = r
    BY <1>1, TimeOrder DEF Dated
  <2> HIDE DEF n
  <2>2. \A j \in 1 .. n : order[j] \in R /\ order[j].created_at \in Nat
    BY <2>1 DEF Dated
  <2>3. \A i, j \in 1 .. n : i < j => order[i].created_at < order[j].created_at
    <3> TAKE i, j \in 1 .. n
    <3> HAVE i < j
    <3>1. order[i].created_at # order[j].created_at
      BY <2>1, <2>2 DEF Dated
    <3> QED
      BY <2>1, <2>2, <3>1
  <2>4. ASSUME NEW i \in 1 .. n
        PROVE  LastHashes(Earlier(R, order[i]))
                 = {IF i = 1 THEN Genesis ELSE order[i - 1].id}
    <3>1. \A j \in 1 .. n : order[j] \in Earlier(R, order[i]) <=> j < i
      <4> TAKE j \in 1 .. n
      <4>1. j < i \/ j = i \/ i < j
        BY <2>1
      <4> QED
        BY <2>2, <2>3, <4>1 DEF Earlier
    <3>2. CASE i = 1
      <4>1. Earlier(R, order[i]) = {}
        BY <2>1, <3>1, <3>2 DEF Earlier
      <4> QED
        BY <3>2, <4>1 DEF LastHashes
    <3>3. CASE i # 1
      <4>1. i - 1 \in 1 .. n /\ i - 1 < i
        BY <2>1, <3>3
      <4>2. order[i - 1] \in Earlier(R, order[i])
        BY <3>1, <4>1
      <4>3. \A r \in Earlier(R, order[i]) \ {order[i - 1]} :
              r.created_at \in Nat /\ r.created_at < order[i - 1].created_at
        <5> TAKE r \in Earlier(R, order[i]) \ {order[i - 1]}
        <5>1. PICK j \in 1 .. n : order[j] = r
          BY <2>1 DEF Earlier
        <5>2. j < i /\ j # i - 1
          BY <3>1, <5>1
        <5>3. j < i - 1
          BY <2>1, <5>2
        <5> QED
          BY <2>2, <2>3, <4>1, <5>1, <5>3
      <4>4. LastHashes(Earlier(R, order[i])) = {order[i - 1].id}
        BY <2>2, <4>1, <4>2, <4>3, LastHashIs
      <4> QED
        BY <3>3, <4>4
    <3> QED
      BY <3>2, <3>3
  <2>5. Linked(R) <=> \A i \in 1 .. n : order[i].prev \in LastHashes(Earlier(R, order[i]))
    BY <2>1 DEF Linked, Earlier
  <2>6. Linked(R) <=>
          \A i \in 1 .. n : order[i].prev = IF i = 1 THEN Genesis ELSE order[i - 1].id
    BY <2>4, <2>5
  <2>7. Len(order) = n
    BY <2>1
  <2> QED
    BY <2>6, <2>7 DEF Chained
<1>2. \A order \in InTimeOrders(R) :
        Integrity(order) = IF Linked(R) THEN "INTACT" ELSE "COMPROMISED"
  BY <1>1, IntegrityIs DEF Dated
<1> QED
  BY <1>2, TimeOrderExists DEF Verdicts

-----------------------------------------------------------------------------
(* A broken ledger, and the ledger of a server of one thread *)

\* The times of a ledger differ if the clock goes forward.
LEMMA LedgerDated ==
  ASSUME Related, VersionsLead, InOrder(rows)
  PROVE  Dated(rows)
<1> SUFFICES ASSUME NEW r \in rows, NEW q \in rows, r.created_at = q.created_at
             PROVE  r = q
  BY TypesParts DEF Dated, VersionsLead
<1>1. ~(r.created_at < q.created_at) /\ ~(q.created_at < r.created_at)
  BY TypesParts
<1>2. ~(r.id < q.id) /\ ~(q.id < r.id)
  BY <1>1 DEF InOrder
<1>3. r.id = q.id
  BY <1>2, TypesParts
<1> QED
  BY <1>3 DEF Related, RowIds

\* A row no other was computed from is the last of any order that is chained; so
\* the rows are chained without it.
LEMMA ChainedWithout ==
  ASSUME NEW R, NEW new, IsFiniteSet(R), new \notin R, \A r \in R : r.prev # new.id,
         NEW order \in InTimeOrders(R \cup {new}), Chained(order, Len(order))
  PROVE  \E rest \in InTimeOrders(R) : Chained(rest, Len(rest))
<1> DEFINE n == Cardinality(R)
           rest == [i \in 1 .. n |-> order[i]]
<1>1. /\ n \in Nat /\ IsFiniteSet(R \cup {new})
      /\ Cardinality(R \cup {new}) = n + 1
  BY FS_CardinalityType, FS_AddElement
<1> HIDE DEF n
<1>2. /\ order \in [1 .. n + 1 -> R \cup {new}] /\ Len(order) = n + 1
      /\ \A i, j \in 1 .. n + 1 : i # j => order[i] # order[j]
      /\ \A i, j \in 1 .. n + 1 : i < j => order[i].created_at <= order[j].created_at
      /\ \E k \in 1 .. n + 1 : order[k] = new
  <2> DEFINE all == R \cup {new}
             m == Cardinality(all)
  <2>0. IsFiniteSet(all) /\ order \in InTimeOrders(all) /\ m = n + 1 /\ new \in all
    BY <1>1
  <2> HIDE DEF all
  <2>1. /\ order \in [1 .. m -> all] /\ Len(order) = m
        /\ \A i, j \in 1 .. m : i # j => order[i] # order[j]
        /\ \A i, j \in 1 .. m : i < j => order[i].created_at <= order[j].created_at
        /\ \A r \in all : \E i \in 1 .. m : order[i] = r
    BY <2>0, TimeOrder
  <2>2. m = n + 1
    BY <2>0
  <2>3. \E k \in 1 .. m : order[k] = new
    BY <2>0, <2>1
  <2> HIDE DEF m
  <2>4. /\ order \in [1 .. n + 1 -> R \cup {new}] /\ Len(order) = n + 1
        /\ \E k \in 1 .. n + 1 : order[k] = new
    BY <2>1, <2>2, <2>3 DEF all
  <2>5. \A i, j \in 1 .. n + 1 : i # j => order[i] # order[j]
    BY <2>1, <2>2
  <2>6. \A i, j \in 1 .. n + 1 : i < j => order[i].created_at <= order[j].created_at
    BY <2>1, <2>2
  <2> QED
    BY <2>4, <2>5, <2>6
<1>3. \A i \in 1 .. n + 1 : order[i].prev = IF i = 1 THEN Genesis ELSE order[i - 1].id
  BY <1>2 DEF Chained
<1>4. order[n + 1] = new
  <2>1. PICK k \in 1 .. n + 1 : order[k] = new
    BY <1>2
  <2> SUFFICES ASSUME k # n + 1 PROVE FALSE
    BY <2>1
  <2>2. k + 1 \in 1 .. n + 1 /\ k + 1 # 1 /\ (k + 1) - 1 = k /\ k + 1 # k
    BY <1>1
  <2>3. order[k + 1].prev = new.id
    BY <1>3, <2>1, <2>2
  <2>4. order[k + 1] \in R
    BY <1>2, <2>1, <2>2
  <2> QED
    BY <2>3, <2>4
<1>5. \A i \in 1 .. n : i \in 1 .. n + 1 /\ order[i] \in R /\ rest[i] = order[i]
  <2> TAKE i \in 1 .. n
  <2>1. i \in 1 .. n + 1 /\ n + 1 \in 1 .. n + 1 /\ i # n + 1
    BY <1>1
  <2>2. order[i] # new /\ order[i] \in R \cup {new}
    BY <1>2, <1>4, <2>1
  <2> QED
    BY <2>1, <2>2
<1>6. rest \in [1 .. n -> R] /\ Len(rest) = n
  BY <1>1, <1>5
<1> HIDE DEF rest
<1>7. rest \in SetToSeqs(R)
  BY <1>2, <1>5, <1>6 DEF SetToSeqs, n
<1>8. \A i, j \in DOMAIN rest : i < j => rest[i].created_at <= rest[j].created_at
  BY <1>2, <1>5, <1>6
<1>9. \A i \in 1 .. n : rest[i].prev = IF i = 1 THEN Genesis ELSE rest[i - 1].id
  <2> TAKE i \in 1 .. n
  <2>1. i # 1 => i - 1 \in 1 .. n
    BY <1>1
  <2> QED
    BY <1>3, <1>5, <2>1
<1> QED
  BY <1>6, <1>7, <1>8, <1>9 DEF InTimeOrders, Chained

\* No step of any thread mends the chain.
LEMMA NeverMended ==
  ASSUME Related, VersionsLead, [Next]_vars, "INTACT" \in Verdicts(rows')
  PROVE  "INTACT" \in Verdicts(rows)
<1>1. CASE rows' = rows
  BY <1>1
<1>2. ASSUME NEW t \in Threads, Insert(t)
      PROVE  "INTACT" \in Verdicts(rows)
  <2> DEFINE new == Row(t)
  <2>1. /\ rows' = rows \cup {new} /\ new \notin rows /\ new.id \in 1 .. made
        /\ \A r \in rows : r.id # new.id
    BY <1>2, NewRow DEF Insert
  <2> HIDE DEF new
  <2>2. \A r \in rows : r.prev # new.id
    BY <2>1, TypesParts DEF Related, PrevKnown, Present, Genesis, CoreTypes
  <2>3. IsFiniteSet(rows) /\ IsFiniteSet(rows')
    BY <2>1, FS_AddElement DEF VersionsLead
  <2>4. PICK order \in InTimeOrders(rows') : Integrity(order) = "INTACT"
    BY DEF Verdicts
  <2>5. Chained(order, Len(order))
    BY <2>3, <2>4, IntegrityIs
  <2>6. PICK rest \in InTimeOrders(rows) : Chained(rest, Len(rest))
    BY <2>1, <2>2, <2>3, <2>5, ChainedWithout
  <2>7. Integrity(rest) = "INTACT"
    BY <2>3, <2>6, IntegrityIs
  <2> QED
    BY <2>7 DEF Verdicts
<1>3. \/ rows' = rows
      \/ \E t \in Threads : Insert(t)
  BY DEF Next, Step, Request, ValidateCsrf, CsrfRefused, ReadSession, SessionGone,
         Validate, ValidateRefused, Apply, ReadVersion, Stamp, ReadLastHash, Record,
         StoreFails, Respond, Fail, Login, Revoke, Expire, SetSession, RevokeAll,
         Restart, vars, tableVars
<1> QED
  BY <1>1, <1>2, <1>3

\* Once verification can report nothing but COMPROMISED it is so for ever, whatever
\* further requests append, in whatever order they get there, and whatever the clock
\* says.
THEOREM ChainStaysBroken == Spec => CompromisedForever
<1>1. Related /\ VersionsLead /\ [Next]_vars =>
        ["INTACT" \notin Verdicts(rows) => "INTACT" \notin Verdicts(rows')]_vars
  BY NeverMended
<1> QED
  BY <1>1, InitRelated, NextRelated, InitVersions, NextVersions, PTL
     DEF Spec, CompromisedForever

\* The only thread there is.
LEMMA Alone ==
  ASSUME OneThread, NEW t \in Threads, NEW u \in Threads
  PROVE  u = t
  BY DEF OneThread

\* One thread takes the edge it found, from the state it found.
LEMMA EdgeStep ==
  ASSUME OneThread, Related, EdgeHeld, NEW t \in Threads, Step(t)
  PROVE  EdgeHeld'
<1> DEFINE d == local[t].body.decision
           a == local[t].body.action

           Held == {"version", "stamp", "prev", "insert"}
<1>1. SUFFICES /\ pc'[t] = "apply" =>
                    <<decision'[local'[t].body.decision].state, local'[t].body.action,
                      local'[t].target>> \in TRANSITIONS
               /\ pc'[t] \in Held =>
                    <<local'[t].old, local'[t].body.action, local'[t].target>> \in TRANSITIONS
  BY Alone DEF EdgeHeld
<1>2. CASE Validate(t)
  <2>1. /\ pc'[t] = "apply" /\ decision' = decision
        /\ local'[t].target = Target(decision[d].state, a)
        /\ local'[t].body = local[t].body
    BY <1>2, TypesParts DEF Validate, Goto, CoreTypes, LocalType
  <2>2. <<decision[d].state, a, Target(decision[d].state, a)>> \in TRANSITIONS
    BY <1>2 DEF Validate, Valid, CanTransition, Targets, Target
  <2> QED
    BY <2>1, <2>2
<1>3. CASE Apply(t)
  <2>1. /\ pc[t] = "apply" /\ pc'[t] = "version"
        /\ local'[t].old = decision[d].state
        /\ local'[t].body = local[t].body /\ local'[t].target = local[t].target
    BY <1>3, TypesParts DEF Apply, Goto, CoreTypes, LocalType
  <2> QED
    BY <2>1 DEF EdgeHeld
<1>4. CASE ReadVersion(t) \/ Stamp(t) \/ ReadLastHash(t)
  <2>1. /\ pc[t] \in Held /\ pc'[t] \in Held
        /\ local'[t].old = local[t].old
        /\ local'[t].body = local[t].body /\ local'[t].target = local[t].target
    BY <1>4, TypesParts DEF ReadVersion, Stamp, ReadLastHash, Goto, CoreTypes, LocalType
  <2> QED
    BY <2>1 DEF EdgeHeld
<1>5. CASE ~Validate(t) /\ ~Apply(t) /\ ~(ReadVersion(t) \/ Stamp(t) \/ ReadLastHash(t))
  <2>1. pc'[t] # "apply" /\ pc'[t] \notin Held
    BY <1>5, TypesParts
       DEF Step, ValidateCsrf, CsrfRefused, ReadSession, SessionGone, ValidateRefused,
           Insert, Record, StoreFails, Respond, Fail, Goto, CoreTypes
  <2> QED
    BY <2>1
<1> QED
  BY <1>2, <1>3, <1>4, <1>5

\* Its event shows that edge.
LEMMA LegalStep ==
  ASSUME Related, EdgeHeld, AuditedTransitionsLegal, NEW t \in Threads, Step(t)
  PROVE  AuditedTransitionsLegal'
<1>1. CASE Insert(t)
  <2>1. /\ rows' = rows \cup {Row(t)} /\ Row(t).from = local[t].old
        /\ Row(t).to = local[t].target /\ Row(t).action = local[t].body.action
    BY <1>1, NewRow DEF Insert
  <2>2. <<Row(t).from, Row(t).action, Row(t).to>> \in TRANSITIONS
    BY <1>1, <2>1 DEF EdgeHeld, Insert
  <2> QED
    BY <2>1, <2>2 DEF AuditedTransitionsLegal
<1>2. CASE ~Insert(t)
  BY <1>2 DEF Step, ValidateCsrf, CsrfRefused, ReadSession, SessionGone, Validate,
              ValidateRefused, Apply, ReadVersion, Stamp, ReadLastHash, Record,
              StoreFails, Respond, Fail, tableVars, AuditedTransitionsLegal
<1> QED
  BY <1>1, <1>2

\* No event comes between its reading of the last hash and its own event, which is
\* that of the latest request.
LEMMA LastStep ==
  ASSUME OneThread, Related, LastToWrite, NEW t \in Threads, Step(t)
  PROVE  LastToWrite'
<1>1. SUFFICES /\ pc'[t] \in Unwritten => \A r \in rows' : r.id < local'[t].id
               /\ pc'[t] = "insert" => local'[t].prev \in LastHashes(rows')
  BY Alone DEF LastToWrite
<1>2. CASE pc'[t] \in Unwritten
  <2>1. pc[t] \in Unwritten /\ local'[t].id = local[t].id /\ rows' = rows
    BY <1>2, TypesParts
       DEF Step, ValidateCsrf, CsrfRefused, ReadSession, SessionGone, Validate,
           ValidateRefused, Apply, ReadVersion, Stamp, ReadLastHash, Insert, Record,
           StoreFails, Respond, Fail, Goto, Unwritten, CoreTypes, LocalType, tableVars
  <2>2. pc'[t] = "insert" => local'[t].prev \in LastHashes(rows)
    <3>1. CASE ReadLastHash(t)
      BY <3>1, TypesParts DEF ReadLastHash, CoreTypes
    <3>2. CASE ~ReadLastHash(t)
      BY <3>2, TypesParts
         DEF Step, ValidateCsrf, CsrfRefused, ReadSession, SessionGone, Validate,
             ValidateRefused, Apply, ReadVersion, Stamp, Insert, Record, StoreFails,
             Respond, Fail, Goto, CoreTypes
    <3> QED
      BY <3>1, <3>2
  <2> QED
    BY <2>1, <2>2 DEF LastToWrite
<1> QED
  BY <1>2 DEF Unwritten

\* So each event is linked to the one before it, if the clock goes forward.
LEMMA LinkStep ==
  ASSUME Related, LastToWrite, InOrder(rows) => Linked(rows), NEW t \in Threads, Step(t),
         InOrder(rows')
  PROVE  Linked(rows')
<1>1. CASE Insert(t)
  <2> DEFINE new == Row(t)
  <2>1. /\ rows' = rows \cup {new} /\ new.prev \in LastHashes(rows)
        /\ new.created_at \in Nat
        /\ \A r \in rows : r.id < new.id /\ r.created_at \in Nat
    BY <1>1, NewRow, TypesParts DEF Insert, LastToWrite, Unwritten, RowType
  <2> HIDE DEF new
  <2>2. Linked(rows)
    BY <2>1 DEF InOrder
  <2>3. \A r \in rows : r.created_at < new.created_at
    BY <2>1 DEF InOrder
  <2>4. {q \in rows' : q.created_at < new.created_at} = rows
    BY <2>1, <2>3
  <2>5. \A r \in rows : {q \in rows' : q.created_at < r.created_at}
                        = {q \in rows : q.created_at < r.created_at}
    BY <2>1, <2>3
  <2> QED
    BY <2>1, <2>2, <2>4, <2>5 DEF Linked
<1>2. CASE ~Insert(t)
  BY <1>2 DEF Step, ValidateCsrf, CsrfRefused, ReadSession, SessionGone, Validate,
              ValidateRefused, Apply, ReadVersion, Stamp, ReadLastHash, Record,
              StoreFails, Respond, Fail, tableVars
<1> QED
  BY <1>1, <1>2

LEMMA NextSequential ==
  OneThread /\ Related /\ SequentialInv /\ [Next]_vars => SequentialInv'
<1> SUFFICES ASSUME OneThread, Related, SequentialInv, [Next]_vars
             PROVE  SequentialInv'
  OBVIOUS
<1>1. ASSUME NEW t \in Threads, Step(t)
      PROVE  SequentialInv'
  BY <1>1, EdgeStep, LegalStep, LastStep, LinkStep DEF SequentialInv
<1>2. ASSUME NEW t \in Threads, NEW body \in Bodies, Request(t, body)
      PROVE  SequentialInv'
  <2>1. rows' = rows /\ pc'[t] = "csrf" /\ local'[t].id = made + 1
    BY <1>2, TypesParts DEF Request, Goto, tableVars, CoreTypes, LocalType
  <2>2. \A u \in Threads : pc'[u] = "csrf" /\ local'[u].id = made + 1
    BY <2>1, Alone
  <2>3. \A r \in rows : r.id < made + 1
    BY TypesParts DEF Related, RowIds, CoreTypes
  <2>4. EdgeHeld' /\ LastToWrite'
    BY <2>1, <2>2, <2>3 DEF EdgeHeld, LastToWrite
  <2> QED
    BY <2>1, <2>4 DEF SequentialInv, AuditedTransitionsLegal
<1>3. CASE \/ \E s \in Sessions : Login(s) \/ Revoke(s) \/ Expire(s) \/ RevokeAll(s)
           \/ UNCHANGED vars
  <2>1. UNCHANGED <<rows, decision, pc, local>>
    BY <1>3 DEF Login, Revoke, Expire, SetSession, RevokeAll, vars, tableVars
  <2> QED
    BY <2>1 DEF SequentialInv, EdgeHeld, AuditedTransitionsLegal, LastToWrite
<1>4. CASE Restart
  <2>1. rows' = rows /\ \A u \in Threads : pc'[u] = "idle"
    BY <1>4 DEF Restart, tableVars
  <2> QED
    BY <2>1 DEF SequentialInv, EdgeHeld, AuditedTransitionsLegal, LastToWrite, Unwritten
<1> QED
  BY <1>1, <1>2, <1>3, <1>4 DEF Next

LEMMA InitSequential == Init => SequentialInv
  BY DEF Init, SequentialInv, EdgeHeld, AuditedTransitionsLegal, LastToWrite, Unwritten,
         Linked

\* The ledger of a server that serves one request at a time verifies, over errors
\* and restarts, while the clock goes forward.
THEOREM SequentialChainIntact ==
  ASSUME OneThread
  PROVE  Spec => []ChainIntact
<1>1. Related /\ VersionsLead /\ SequentialInv => ChainIntact
  BY LedgerDated, VerificationExact DEF SequentialInv, ChainIntact
<1>2. Related /\ SequentialInv /\ [Next]_vars => SequentialInv'
  BY NextSequential
<1> QED
  BY <1>1, <1>2, InitRelated, NextRelated, InitVersions, NextVersions, InitSequential, PTL
     DEF Spec

\* And shows only edges of the state machine.
THEOREM SequentialEdgesLegal ==
  ASSUME OneThread
  PROVE  Spec => []AuditedTransitionsLegal
<1>1. SequentialInv => AuditedTransitionsLegal
  BY DEF SequentialInv
<1>2. Related /\ SequentialInv /\ [Next]_vars => SequentialInv'
  BY NextSequential
<1> QED
  BY <1>1, <1>2, InitRelated, NextRelated, InitSequential, PTL DEF Spec
=============================================================================
