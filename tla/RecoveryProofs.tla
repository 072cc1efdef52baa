--------------------------- MODULE RecoveryProofs ---------------------------
(***************************************************************************)
(* Proofs about Recovery, for any backup ids, requests, runs and bounds.   *)
(* What a run has established by the step it is at (Established) only      *)
(* speaks of the run's variables and the files in its directory, so no     *)
(* backup or upload disturbs it, nor another run as long as it is alone    *)
(* there (AloneIsAlone).  A state that lets a run begin is left by an      *)
(* approval or a run that has no download yet, and restored by nobody else *)
(* (GateIsApproval).                                                       *)
(***************************************************************************)
EXTENDS Recovery, TLAPS

\* The parts of the invariant that speak of the runs.
RunInv ==
  /\ AloneIsAlone
  /\ \A r \in Runs : HasRead(r) /\ (alone[r] => Established(r))
  /\ RestoredMatchesMetadata
  /\ GateIsApproval

BackupTypes ==
  /\ live \in Database
  /\ made \in Nat
  /\ local \in Slots(BackupIds, Archive)
  /\ uploading \in Slots(BackupIds, Archive)
  /\ data \in Slots(BackupIds, Archive)
  /\ meta \in Slots(BackupIds, Archive)
  /\ catalog \subseteq BackupIds

FileTypes ==
  /\ file \in Slots(Paths, Archive)
  /\ plain \in Slots(Dirs, Database)
  /\ restored \in Slots(Paths, Database)

RequestTypes ==
  /\ state \in [Recoveries -> RecoveryStates]
  /\ point \in [Recoveries -> BackupIds]
  /\ approvals \in Nat
  /\ pc \in [Runs -> Steps]
  /\ of \in [Runs -> Recoveries]
  /\ dir \in [Runs -> Dirs]
  /\ seen \in Slots(Runs, Archive)
  /\ FileTypes
  /\ unspent \in [Recoveries -> BOOLEAN]
  /\ alone \in [Runs -> BOOLEAN]

\* TypeOK is the two together.
LEMMA TypeParts == TypeOK <=> BackupTypes /\ RequestTypes
  BY DEF TypeOK, BackupTypes, RequestTypes, FileTypes

\* A slot given at most one new member keeps its type.
LEMMA SlotUpdate ==
  ASSUME NEW I, NEW S, NEW f \in Slots(I, S), NEW i \in I,
         NEW o \in SUBSET S, \A x, y \in o : x = y
  PROVE  [f EXCEPT ![i] = o] \in Slots(I, S)
  BY DEF Slots

\* What a slot holds has its type.
LEMMA SlotMember ==
  ASSUME NEW I, NEW S, NEW f \in Slots(I, S), NEW i \in I
  PROVE  f[i] \in SUBSET S /\ \A x, y \in f[i] : x = y
  BY DEF Slots

-----------------------------------------------------------------------------
(* The initial states and the steps that are not a run's *)

\* The invariant holds initially.
LEMMA InitInv == Init => IInv
<1> SUFFICES ASSUME Init PROVE IInv
  OBVIOUS
<1>1. TypeOK
  BY DEF Init, TypeOK, Slots, Database, RecoveryStates, Steps, Underway
<1>2. RunInv
  <2>1. \A r \in Runs : pc[r] = "idle" /\ ~alone[r]
    BY DEF Init
  <2>2. \A q \in Recoveries : ~MayRun(q)
    BY DEF Init, MayRun
  <2> QED
    BY <2>1, <2>2 DEF RunInv, AloneIsAlone, HasRead, RestoredMatchesMetadata,
                      GateIsApproval
<1> QED
  BY <1>1, <1>2 DEF IInv, RunInv

\* Whatever the service and the backups do, their variables keep their types.
LEMMA BackupTyped ==
  ASSUME BackupTypes, LiveChanges \/ \E id \in BackupIds : BackupStep(id)
  PROVE  BackupTypes' /\ UNCHANGED requestVars
<1>1. CASE LiveChanges
  <2>1. live' \in Database
    <3> DEFINE next == [live EXCEPT !.revision = @ + 1]
    <3>1. next \in Database
      BY DEF BackupTypes, Database
    <3>2. CASE live' = [live EXCEPT !.revision = @ + 1, !.intact = FALSE]
      <4>1. live' = [next EXCEPT !.intact = FALSE]
        BY <3>2
      <4> QED
        BY <3>1, <4>1 DEF Database
    <3>3. CASE live' = [live EXCEPT !.revision = @ + 1, !.sound = FALSE]
      <4>1. live' = [next EXCEPT !.sound = FALSE]
        BY <3>3
      <4> QED
        BY <3>1, <4>1 DEF Database
    <3>4. CASE live' = [live EXCEPT !.revision = @ + 1]
      BY <3>4 DEF BackupTypes, Database
    <3> QED
      BY <1>1, <3>2, <3>3, <3>4 DEF LiveChanges
  <2> QED
    BY <1>1, <2>1 DEF LiveChanges, BackupTypes, requestVars
<1>2. ASSUME NEW id \in BackupIds, BackupStep(id)
      PROVE  BackupTypes' /\ UNCHANGED requestVars
  <2>1. CASE Backup(id)
    <3>1. [copy |-> live, seal |-> made + 1] \in Archive
      BY DEF BackupTypes, Archive
    <3>2. local' \in Slots(BackupIds, Archive)
      BY <2>1, <3>1, SlotUpdate DEF Backup, BackupTypes
    <3> QED
      BY <2>1, <3>2 DEF Backup, BackupTypes, requestVars
  <2>2. CASE UploadData(id)
    <3>1. local[id] \in SUBSET Archive /\ \A x, y \in local[id] : x = y
      BY SlotMember DEF BackupTypes
    <3>2. data' \in Slots(BackupIds, Archive) /\ uploading' \in Slots(BackupIds, Archive)
      BY <2>2, <3>1, SlotUpdate DEF UploadData, BackupTypes
    <3> QED
      BY <2>2, <3>2 DEF UploadData, BackupTypes, requestVars
  <2>3. CASE UploadMetadata(id)
    <3>1. uploading[id] \in SUBSET Archive /\ \A x, y \in uploading[id] : x = y
      BY SlotMember DEF BackupTypes
    <3>2. meta' \in Slots(BackupIds, Archive) /\ uploading' \in Slots(BackupIds, Archive)
      BY <2>3, <3>1, SlotUpdate DEF UploadMetadata, BackupTypes
    <3> QED
      BY <2>3, <3>2 DEF UploadMetadata, BackupTypes, requestVars
  <2>4. CASE UploadFails(id)
    <3>1. uploading' \in Slots(BackupIds, Archive)
      BY <2>4, SlotUpdate DEF UploadFails, BackupTypes
    <3> QED
      BY <2>4, <3>1 DEF UploadFails, BackupTypes, requestVars
  <2>5. CASE Catalogue(id)
    BY <2>5 DEF Catalogue, BackupTypes, requestVars
  <2>6. CASE StorageDecays(id)
    <3>1. PICK a \in data[id] : data' = [data EXCEPT ![id] = {Damaged(a)}]
      BY <2>6 DEF StorageDecays
    <3>2. a \in Archive
      BY SlotMember DEF BackupTypes
    <3>3. Damaged(a) \in Archive
      BY <3>2 DEF Damaged, Archive
    <3>4. data' \in Slots(BackupIds, Archive)
      BY <3>1, <3>3, SlotUpdate DEF BackupTypes
    <3> QED
      BY <2>6, <3>4 DEF StorageDecays, BackupTypes, requestVars
  <2> QED
    BY <1>2, <2>1, <2>2, <2>3, <2>4, <2>5, <2>6 DEF BackupStep
<1> QED
  BY <1>1, <1>2

\* The runs' part of the invariant only speaks of the runs' variables.
LEMMA RequestsUntouched ==
  ASSUME RequestTypes, RunInv, UNCHANGED requestVars
  PROVE  RequestTypes' /\ RunInv'
<1>1. RequestTypes'
  BY DEF RequestTypes, FileTypes, requestVars
<1>2. RunInv'
  BY DEF RunInv, requestVars, AloneIsAlone, Established, HasRead, MayRun, Path,
         RestoredMatchesMetadata, GateIsApproval
<1> QED
  BY <1>1, <1>2

-----------------------------------------------------------------------------
(* Approvals *)

\* An approval touches the request only.
LEMMA ApproveStep ==
  ASSUME BackupTypes, RequestTypes, RunInv, NEW q \in Recoveries, Approve(q)
  PROVE  BackupTypes' /\ RequestTypes' /\ RunInv'
<1>1. BackupTypes'
  BY DEF Approve, backupVars, BackupTypes
<1>2. RequestTypes'
  BY DEF Approve, argumentVars, RequestTypes, FileTypes, RecoveryStates
<1>3. UNCHANGED <<pc, of, point, dir, seen, file, plain, restored, alone>>
  BY DEF Approve, argumentVars
<1>4. /\ AloneIsAlone' /\ RestoredMatchesMetadata'
      /\ \A r \in Runs : HasRead(r)' /\ (alone'[r] => Established(r)')
  BY <1>3 DEF RunInv, AloneIsAlone, RestoredMatchesMetadata, HasRead, Established, Path
<1>5. \A p \in Recoveries \ {q} : state'[p] = state[p] /\ unspent'[p] = unspent[p]
  BY DEF Approve, RequestTypes
<1>6. unspent'[q]
  BY DEF Approve, RequestTypes
<1>7. GateIsApproval'
  BY <1>5, <1>6 DEF RunInv, GateIsApproval, MayRun
<1> QED
  BY <1>1, <1>2, <1>4, <1>7 DEF RunInv

-----------------------------------------------------------------------------
(* Steps of a run *)

\* The parts of the invariant that speak of the run r.
OneRunInv(r) ==
  /\ HasRead(r)
  /\ alone[r] => Established(r)
  /\ pc[r] = "verified" /\ alone[r] =>
       \E a \in seen[r] :
          /\ restored[Path(r)] = {a.copy}
          /\ a.seal # 0 /\ a.copy.sound /\ a.copy.intact

\* A step of one run leaves the others as they were, and their files unless they
\* are in its directory; who is alone was, and is not where the run works.
OthersKept(r) ==
  /\ UNCHANGED argumentVars
  /\ pc'[r] # "idle"
  /\ \A q \in Runs \ {r} :
       /\ pc'[q] = pc[q] /\ seen'[q] = seen[q]
       /\ alone'[q] => alone[q] /\ dir[q] # dir[r]
       /\ dir[q] # dir[r] => /\ file'[Path(q)] = file[Path(q)]
                             /\ plain'[dir[q]] = plain[dir[q]]
                             /\ restored'[Path(q)] = restored[Path(q)]
  /\ alone'[r] => \A q \in Runs \ {r} : dir[q] = dir[r] => pc[q] \notin Underway

\* So the invariant of all runs follows from that of the run that moved.
LEMMA OneRunMoves ==
  ASSUME RunInv, NEW r \in Runs, OthersKept(r), OneRunInv(r)'
  PROVE  /\ AloneIsAlone' /\ RestoredMatchesMetadata'
         /\ \A q \in Runs : HasRead(q)' /\ (alone'[q] => Established(q)')
<1>1. ASSUME NEW q \in Runs \ {r}
      PROVE  OneRunInv(q)'
  <2>1. OneRunInv(q)
    BY DEF RunInv, RestoredMatchesMetadata, OneRunInv
  <2>2. /\ pc'[q] = pc[q] /\ seen'[q] = seen[q]
        /\ Path(q)' = Path(q) /\ dir'[q] = dir[q]
    BY DEF OthersKept, Path, argumentVars
  <2>3. alone'[q] => /\ alone[q]
                     /\ file'[Path(q)] = file[Path(q)]
                     /\ plain'[dir[q]] = plain[dir[q]]
                     /\ restored'[Path(q)] = restored[Path(q)]
    BY DEF OthersKept
  <2>4. HasRead(q)' /\ (alone'[q] => Established(q)')
    BY <2>1, <2>2, <2>3 DEF OneRunInv, HasRead, Established
  <2> QED
    BY <2>1, <2>2, <2>3, <2>4 DEF OneRunInv
<1>2. \A q \in Runs : OneRunInv(q)'
  BY <1>1
<1>3. AloneIsAlone'
  <2>1. UNCHANGED dir
    BY DEF OthersKept, argumentVars
  <2>2. \A q \in Runs \ {r} : pc'[q] = pc[q] /\ (alone'[q] => alone[q] /\ dir[q] # dir[r])
    BY DEF OthersKept
  <2>3. alone'[r] => \A q \in Runs \ {r} : dir[q] = dir[r] => pc[q] \notin Underway
    BY DEF OthersKept
  <2> QED
    BY <2>1, <2>2, <2>3 DEF RunInv, AloneIsAlone
<1> QED
  BY <1>2, <1>3 DEF OneRunInv, RestoredMatchesMetadata

\* A directory and a path of a run are ones there are; in another directory the
\* path is another.
LEMMA PathTyped ==
  ASSUME RequestTypes, NEW r \in Runs
  PROVE  /\ of[r] \in Recoveries /\ dir[r] \in Dirs /\ Path(r) \in Paths
         /\ \A q \in Runs : dir[q] # dir[r] => Path(q) # Path(r)
  BY DEF RequestTypes, Path, Paths

\* What no step of a run changes: the backups, and what runs were called with.
LEMMA PlaceKept ==
  ASSUME NEW r \in Runs, RunStep(r)
  PROVE  /\ UNCHANGED <<backupVars, argumentVars, approvals>>
         /\ Path(r)' = Path(r) /\ dir'[r] = dir[r]
<1>1. UNCHANGED <<backupVars, argumentVars, approvals>>
  BY DEF RunStep, Select, ReadMetadata, Download, VerifyChecksum, Decrypt,
         DecryptFails, Restore, CheckIntegrity, Reconcile, Raises, Goto
<1> QED
  BY <1>1 DEF Path, argumentVars

\* A step that is not a run's first leaves who is alone, which nobody else is in
\* the directory of a run under way.
LEMMA UnderwayKeeps ==
  ASSUME RequestTypes, RunInv, NEW r \in Runs, RunStep(r), pc[r] # "idle"
  PROVE  /\ pc[r] \in Underway /\ UNCHANGED alone
         /\ \A q \in Runs \ {r} : alone[q] => dir[q] # dir[r]
         /\ alone[r] => \A q \in Runs \ {r} : dir[q] = dir[r] => pc[q] \notin Underway
<1>1. pc[r] \in Underway /\ UNCHANGED alone
  BY DEF RunStep, Select, ReadMetadata, Download, VerifyChecksum, Decrypt,
         DecryptFails, Restore, CheckIntegrity, Reconcile, Raises, Underway
<1> QED
  BY <1>1 DEF RunInv, AloneIsAlone

\* Every step of a run assigns a state to its request.  One that passes the gate is
\* assigned only where it was found.
LEMMA StateAssigned ==
  ASSUME RequestTypes, RunInv, NEW r \in Runs, RunStep(r)
  PROVE  /\ state' \in [Recoveries -> RecoveryStates]
         /\ unspent' \in [Recoveries -> BOOLEAN]
         /\ GateIsApproval'
<1> DEFINE q == of[r]
<1>1. q \in Recoveries
  BY PathTyped
<1>2. PICK s \in RecoveryStates :
        /\ state' = [state EXCEPT ![q] = s]
        /\ s \in {"APPROVED", "RECOVERY_POINT_SELECTED"} =>
             MayRun(q) /\ unspent' = unspent
        /\ unspent' \in {unspent, [unspent EXCEPT ![q] = FALSE]}
  <2> HIDE DEF q
  <2> DEFINE P(s) == /\ state' = [state EXCEPT ![q] = s]
                     /\ s \in {"APPROVED", "RECOVERY_POINT_SELECTED"} =>
                          MayRun(q) /\ unspent' = unspent
                     /\ unspent' \in {unspent, [unspent EXCEPT ![q] = FALSE]}
  <2> SUFFICES \E s \in RecoveryStates : P(s)
    OBVIOUS
  <2>1. state[q] \in RecoveryStates
    BY <1>1 DEF RequestTypes
  <2>2. state' = [state EXCEPT ![q] = state[q]] /\ unspent' = unspent => P(state[q])
    BY DEF MayRun
  <2>3. CASE Select(r)
    BY <2>3 DEF Select, Goto, q, RecoveryStates
  <2>4. CASE ReadMetadata(r)
    <3>1. P("DOWNLOAD_FAILED") \/ P(state[q])
      BY <2>2, <2>4 DEF ReadMetadata, Goto, q
    <3> QED
      BY <2>1, <3>1 DEF RecoveryStates
  <2>5. CASE Download(r)
    <3>1. P("DOWNLOAD_FAILED") \/ P("DOWNLOADED")
      BY <2>5 DEF Download, Goto, q
    <3> QED
      BY <3>1 DEF RecoveryStates
  <2>6. CASE VerifyChecksum(r)
    <3>1. P("CORRUPT") \/ P("DECRYPTION_PENDING")
      BY <2>6 DEF VerifyChecksum, Goto, q
    <3> QED
      BY <3>1 DEF RecoveryStates
  <2>7. CASE Decrypt(r)
    <3>1. P("RESTORE_PENDING")
      BY <2>7 DEF Decrypt, Goto, q
    <3> QED
      BY <3>1 DEF RecoveryStates
  <2>8. CASE DecryptFails(r)
    <3>1. P("DECRYPTION_FAILED") \/ P(state[q])
      BY <2>2, <2>8 DEF DecryptFails, Goto, q
    <3> QED
      BY <2>1, <3>1 DEF RecoveryStates
  <2>9. CASE Restore(r)
    BY <2>1, <2>2, <2>9 DEF Restore, Goto, q
  <2>10. CASE CheckIntegrity(r)
    <3>1. P("RESTORED") \/ P("RESTORE_FAILED")
      BY <2>10 DEF CheckIntegrity, Goto, q
    <3> QED
      BY <3>1 DEF RecoveryStates
  <2>11. CASE Reconcile(r)
    <3>1. P("VERIFIED_TEST_ONLY") \/ P("RECONCILIATION_FAILED")
      BY <2>11 DEF Reconcile, Goto, q
    <3> QED
      BY <3>1 DEF RecoveryStates
  <2>12. CASE Raises(r)
    BY <2>1, <2>2, <2>12 DEF Raises, Goto, q
  <2> QED
    BY <2>3, <2>4, <2>5, <2>6, <2>7, <2>8, <2>9, <2>10, <2>11, <2>12 DEF RunStep
<1> HIDE DEF q
<1>3. state' \in [Recoveries -> RecoveryStates] /\ unspent' \in [Recoveries -> BOOLEAN]
  BY <1>1, <1>2 DEF RequestTypes
<1>4. \A p \in Recoveries \ {q} : state'[p] = state[p] /\ unspent'[p] = unspent[p]
  BY <1>1, <1>2 DEF RequestTypes
<1>5. state'[q] = s
  BY <1>1, <1>2 DEF RequestTypes
<1>6. ASSUME NEW p \in Recoveries, MayRun(p)'
      PROVE  unspent'[p]
  <2>1. CASE p = q
    BY <1>1, <1>2, <1>5, <1>6, <2>1 DEF MayRun, RunInv, GateIsApproval
  <2>2. CASE p # q
    BY <1>4, <1>6, <2>2 DEF MayRun, RunInv, GateIsApproval
  <2> QED
    BY <2>1, <2>2
<1> QED
  BY <1>3, <1>6 DEF GateIsApproval

\* Every step of a run keeps the types, the other runs and the run's own part of
\* the invariant.
LEMMA RunSteps ==
  ASSUME BackupTypes, RequestTypes, RunInv, NEW r \in Runs, RunStep(r)
  PROVE  RequestTypes' /\ OthersKept(r) /\ OneRunInv(r)'
<1>1. OneRunInv(r)
  BY DEF RunInv, RestoredMatchesMetadata, OneRunInv
<1>2. /\ meta[point[of[r]]] \in SUBSET Archive
      /\ \A x, y \in meta[point[of[r]]] : x = y
      /\ data[point[of[r]]] \in SUBSET Archive
      /\ \A x, y \in data[point[of[r]]] : x = y
  <2>1. point[of[r]] \in BackupIds
    BY DEF RequestTypes
  <2> QED
    BY <2>1, SlotMember DEF BackupTypes
<1>3. /\ dir[r] \in Dirs /\ Path(r) \in Paths
      /\ \A q \in Runs : dir[q] # dir[r] => Path(q) # Path(r)
      /\ \A q \in Runs : Path(q) \in Paths /\ dir[q] \in Dirs
  BY PathTyped
<1>4. /\ seen[r] \in SUBSET Archive /\ \A x, y \in seen[r] : x = y
      /\ file[Path(r)] \in SUBSET Archive /\ \A x, y \in file[Path(r)] : x = y
      /\ plain[dir[r]] \in SUBSET Database /\ \A x, y \in plain[dir[r]] : x = y
  BY <1>3, SlotMember DEF RequestTypes, FileTypes
<1>5. /\ UNCHANGED argumentVars /\ UNCHANGED approvals
      /\ Path(r)' = Path(r) /\ dir'[r] = dir[r]
  BY PlaceKept
<1>6. /\ state' \in [Recoveries -> RecoveryStates]
      /\ unspent' \in [Recoveries -> BOOLEAN]
  BY StateAssigned
<1>7. pc[r] # "idle" => /\ UNCHANGED alone
                        /\ \A q \in Runs \ {r} : alone[q] => dir[q] # dir[r]
                        /\ alone[r] => \A q \in Runs \ {r} :
                                          dir[q] = dir[r] => pc[q] \notin Underway
  BY UnderwayKeeps
\* What is left to show of a step that is not the first.
<1>8. ASSUME /\ pc[r] # "idle" /\ FileTypes'
             /\ \E step \in Steps \ {"idle"} : pc' = [pc EXCEPT ![r] = step]
             /\ \E s \in SUBSET Archive : /\ \A x, y \in s : x = y
                                          /\ seen' = [seen EXCEPT ![r] = s]
             /\ \A q \in Runs : dir[q] # dir[r] =>
                  /\ file'[Path(q)] = file[Path(q)]
                  /\ plain'[dir[q]] = plain[dir[q]]
                  /\ restored'[Path(q)] = restored[Path(q)]
      PROVE  RequestTypes' /\ OthersKept(r)
  <2>1. seen' \in Slots(Runs, Archive)
    <3>1. PICK s \in SUBSET Archive : /\ \A x, y \in s : x = y
                                      /\ seen' = [seen EXCEPT ![r] = s]
      BY <1>8
    <3>2. seen \in Slots(Runs, Archive)
      BY DEF RequestTypes
    <3> QED
      BY <3>1, <3>2, SlotUpdate
  <2>2. pc' \in [Runs -> Steps] /\ pc'[r] # "idle"
    BY <1>8 DEF RequestTypes
  <2>3. \A q \in Runs \ {r} : pc'[q] = pc[q] /\ seen'[q] = seen[q]
    BY <1>8 DEF RequestTypes, Slots
  <2>4. RequestTypes'
    BY <1>5, <1>6, <1>7, <1>8, <2>1, <2>2 DEF RequestTypes, argumentVars
  <2>5. OthersKept(r)
    BY <1>5, <1>7, <1>8, <2>2, <2>3 DEF OthersKept
  <2> QED
    BY <2>4, <2>5
<1>9. seen' = seen =>
        \E s \in SUBSET Archive : /\ \A x, y \in s : x = y
                                  /\ seen' = [seen EXCEPT ![r] = s]
  <2>1. seen = [seen EXCEPT ![r] = seen[r]]
    BY DEF RequestTypes, Slots
  <2> QED
    BY <1>4, <2>1
<1>10. CASE Select(r)
  <2>1. /\ UNCHANGED <<seen, file, plain, restored>> /\ pc' = [pc EXCEPT ![r] = "metadata"]
        /\ \A q \in Runs \ {r} : alone'[q] => alone[q] /\ dir[q] # dir[r]
        /\ alone'[r] => \A q \in Runs \ {r} : dir[q] = dir[r] => pc[q] \notin Underway
        /\ alone' \in [Runs -> BOOLEAN]
    BY <1>10 DEF Select, Goto, RequestTypes
  <2>2. RequestTypes'
    BY <1>5, <1>6, <2>1 DEF RequestTypes, FileTypes, argumentVars, Steps, Underway
  <2>3. OthersKept(r)
    BY <1>5, <2>1 DEF OthersKept, RequestTypes
  <2>4. pc'[r] = "metadata"
    BY <2>1 DEF RequestTypes
  <2> QED
    BY <2>2, <2>3, <2>4 DEF OneRunInv, HasRead, Established
<1>11. CASE ReadMetadata(r)
  <2>1. /\ pc[r] = "metadata" /\ UNCHANGED <<file, plain, restored>>
        /\ seen' = [seen EXCEPT ![r] = meta[point[of[r]]]]
        /\ \/ pc' = [pc EXCEPT ![r] = "over"]
           \/ pc' = [pc EXCEPT ![r] = "download"] /\ meta[point[of[r]]] # {}
    BY <1>11 DEF ReadMetadata, Goto
  <2>2. RequestTypes' /\ OthersKept(r)
    BY <1>2, <1>8, <2>1 DEF RequestTypes, FileTypes, Steps, Underway
  <2>3. \/ pc'[r] = "over"
        \/ pc'[r] = "download" /\ seen'[r] # {}
    BY <2>1 DEF RequestTypes, Slots
  <2> QED
    BY <2>2, <2>3 DEF OneRunInv, HasRead, Established
<1>12. CASE Download(r)
  <2>1. /\ pc[r] = "download" /\ UNCHANGED <<seen, plain, restored>>
        /\ \/ pc' = [pc EXCEPT ![r] = "over"] /\ file' = file
           \/ /\ pc' = [pc EXCEPT ![r] = "checksum"]
              /\ file' = [file EXCEPT ![Path(r)] = data[point[of[r]]]]
    BY <1>12 DEF Download, Goto
  <2>2. file' \in Slots(Paths, Archive)
    <3>1. file \in Slots(Paths, Archive)
      BY DEF RequestTypes, FileTypes
    <3>2. [file EXCEPT ![Path(r)] = data[point[of[r]]]] \in Slots(Paths, Archive)
      BY <1>2, <1>3, <3>1, SlotUpdate
    <3> QED
      BY <2>1, <3>1, <3>2
  <2>3. \A q \in Runs : dir[q] # dir[r] => file'[Path(q)] = file[Path(q)]
    BY <1>3, <2>1 DEF RequestTypes, FileTypes, Slots
  <2>4. RequestTypes' /\ OthersKept(r)
    BY <1>8, <1>9, <2>1, <2>2, <2>3 DEF RequestTypes, FileTypes, Steps, Underway
  <2>5. pc'[r] \in {"over", "checksum"} /\ seen'[r] # {}
    BY <1>1, <2>1 DEF RequestTypes, OneRunInv, HasRead
  <2> QED
    BY <2>4, <2>5 DEF OneRunInv, HasRead, Established
<1>13. CASE VerifyChecksum(r)
  <2>1. /\ pc[r] = "checksum" /\ UNCHANGED <<seen, file, plain, restored>>
        /\ \/ pc' = [pc EXCEPT ![r] = "over"]
           \/ pc' = [pc EXCEPT ![r] = "decrypt"] /\ file[Path(r)] = seen[r]
    BY <1>13 DEF VerifyChecksum, ChecksumMatches, Goto
  <2>2. RequestTypes' /\ OthersKept(r)
    BY <1>8, <1>9, <2>1 DEF RequestTypes, FileTypes, Steps, Underway
  <2>3. \/ pc'[r] = "over"
        \/ pc'[r] = "decrypt" /\ file'[Path(r)'] = seen'[r] /\ seen'[r] # {}
    BY <1>1, <1>5, <2>1 DEF RequestTypes, OneRunInv, HasRead
  <2> QED
    BY <2>2, <2>3 DEF OneRunInv, HasRead, Established
<1>14. CASE Decrypt(r)
  <2>1. PICK a \in file[Path(r)] :
          a.seal # 0 /\ plain' = [plain EXCEPT ![dir[r]] = {a.copy}]
    BY <1>14 DEF Decrypt
  <2>2. /\ pc[r] = "decrypt" /\ UNCHANGED <<seen, file, restored>>
        /\ pc' = [pc EXCEPT ![r] = "restore"]
    BY <1>14 DEF Decrypt, Goto
  <2>3. a.copy \in Database
    BY <1>4 DEF Archive
  <2>4. plain' \in Slots(Dirs, Database) /\ plain'[dir[r]] = {a.copy}
    <3>1. plain \in Slots(Dirs, Database)
      BY DEF RequestTypes, FileTypes
    <3>2. {a.copy} \in SUBSET Database /\ \A x, y \in {a.copy} : x = y
      BY <2>3
    <3>3. [plain EXCEPT ![dir[r]] = {a.copy}] \in Slots(Dirs, Database)
      BY <1>3, <3>1, <3>2, SlotUpdate
    <3> QED
      BY <1>3, <2>1, <3>1, <3>3 DEF Slots
  <2>5. \A q \in Runs : dir[q] # dir[r] => plain'[dir[q]] = plain[dir[q]]
    BY <1>3, <2>1 DEF RequestTypes, FileTypes, Slots
  <2>6. RequestTypes' /\ OthersKept(r)
    BY <1>8, <1>9, <2>2, <2>4, <2>5 DEF RequestTypes, FileTypes, Steps, Underway
  <2>7. pc'[r] = "restore" /\ (alone'[r] <=> alone[r])
    BY <1>7, <2>2 DEF RequestTypes
  <2>8. alone[r] => seen[r] = {a} /\ file[Path(r)] = seen[r]
    BY <1>1, <1>4, <2>2 DEF OneRunInv, Established
  <2>9. alone'[r] => Established(r)'
    BY <1>5, <2>1, <2>2, <2>4, <2>7, <2>8 DEF Established
  <2> QED
    BY <2>6, <2>7, <2>9 DEF OneRunInv, HasRead
<1>15. CASE DecryptFails(r)
  <2>1. /\ pc[r] = "decrypt" /\ UNCHANGED <<seen, file, restored>>
        /\ pc' = [pc EXCEPT ![r] = "over"]
        /\ plain' \in {plain, [plain EXCEPT ![dir[r]] = {Partial}]}
    BY <1>15 DEF DecryptFails, Goto
  <2>2. {Partial} \in SUBSET Database /\ \A x, y \in {Partial} : x = y
    BY DEF Partial, Database
  <2>3. plain' \in Slots(Dirs, Database)
    <3>1. plain \in Slots(Dirs, Database)
      BY DEF RequestTypes, FileTypes
    <3>2. [plain EXCEPT ![dir[r]] = {Partial}] \in Slots(Dirs, Database)
      BY <1>3, <2>2, <3>1, SlotUpdate
    <3> QED
      BY <2>1, <3>1, <3>2
  <2>4. \A q \in Runs : dir[q] # dir[r] => plain'[dir[q]] = plain[dir[q]]
    BY <1>3, <2>1 DEF RequestTypes, FileTypes, Slots
  <2>5. RequestTypes' /\ OthersKept(r)
    BY <1>8, <1>9, <2>1, <2>3, <2>4 DEF RequestTypes, FileTypes, Steps, Underway
  <2>6. pc'[r] = "over"
    BY <2>1 DEF RequestTypes
  <2> QED
    BY <2>5, <2>6 DEF OneRunInv, HasRead, Established
<1>16. CASE Restore(r)
  <2>1. /\ pc[r] = "restore" /\ UNCHANGED <<seen, file, plain>>
        /\ pc' = [pc EXCEPT ![r] = "integrity"]
        /\ restored' = [restored EXCEPT ![Path(r)] = plain[dir[r]]]
    BY <1>16 DEF Restore, Goto
  <2>2. restored' \in Slots(Paths, Database) /\ restored'[Path(r)] = plain[dir[r]]
    <3>1. restored \in Slots(Paths, Database)
      BY DEF RequestTypes, FileTypes
    <3>2. [restored EXCEPT ![Path(r)] = plain[dir[r]]] \in Slots(Paths, Database)
      BY <1>3, <1>4, <3>1, SlotUpdate
    <3> QED
      BY <1>3, <2>1, <3>1, <3>2 DEF Slots
  <2>3. \A q \in Runs : dir[q] # dir[r] => restored'[Path(q)] = restored[Path(q)]
    BY <1>3, <2>1 DEF RequestTypes, FileTypes, Slots
  <2>4. RequestTypes' /\ OthersKept(r)
    BY <1>8, <1>9, <2>1, <2>2, <2>3 DEF RequestTypes, FileTypes, Steps, Underway
  <2>5. pc'[r] = "integrity" /\ (alone'[r] <=> alone[r])
    BY <1>7, <2>1 DEF RequestTypes
  <2>6. alone'[r] => Established(r)'
    BY <1>1, <1>5, <2>1, <2>2, <2>5 DEF OneRunInv, Established
  <2> QED
    BY <2>4, <2>5, <2>6 DEF OneRunInv, HasRead
<1>17. CASE CheckIntegrity(r)
  <2>1. /\ pc[r] = "integrity" /\ UNCHANGED <<seen, file, plain, restored>>
        /\ \/ pc' = [pc EXCEPT ![r] = "over"]
           \/ /\ pc' = [pc EXCEPT ![r] = "reconcile"]
              /\ \A db \in restored[Path(r)] : db.sound
    BY <1>17 DEF CheckIntegrity, Goto
  <2>2. RequestTypes' /\ OthersKept(r)
    BY <1>8, <1>9, <2>1 DEF RequestTypes, FileTypes, Steps, Underway
  <2>3. /\ alone'[r] <=> alone[r]
        /\ \/ pc'[r] = "over"
           \/ pc'[r] = "reconcile" /\ \A db \in restored[Path(r)] : db.sound
    BY <1>7, <2>1 DEF RequestTypes
  <2>4. alone'[r] => Established(r)'
    BY <1>1, <1>5, <2>1, <2>3 DEF OneRunInv, Established
  <2> QED
    BY <2>2, <2>3, <2>4 DEF OneRunInv, HasRead
<1>18. CASE Reconcile(r)
  <2>1. /\ pc[r] = "reconcile" /\ UNCHANGED <<seen, file, plain, restored>>
        /\ \/ pc' = [pc EXCEPT ![r] = "over"]
           \/ /\ pc' = [pc EXCEPT ![r] = "verified"]
              /\ \A db \in restored[Path(r)] : db.intact
    BY <1>18 DEF Reconcile, Goto
  <2>2. RequestTypes' /\ OthersKept(r)
    BY <1>8, <1>9, <2>1 DEF RequestTypes, FileTypes, Steps, Underway
  <2>3. /\ alone'[r] <=> alone[r]
        /\ \/ pc'[r] = "over"
           \/ pc'[r] = "verified" /\ \A db \in restored[Path(r)] : db.intact
    BY <1>7, <2>1 DEF RequestTypes
  <2>4. ASSUME alone[r], pc'[r] = "verified"
        PROVE  \E a \in seen[r] :
                 /\ restored[Path(r)] = {a.copy}
                 /\ a.seal # 0 /\ a.copy.sound /\ a.copy.intact
    <3>1. PICK a \in seen[r] : seen[r] = {a} /\ a.seal # 0 /\ a.copy.sound
      BY <1>1, <1>4, <2>1, <2>4 DEF OneRunInv, Established
    <3>2. restored[Path(r)] = {a.copy}
      BY <1>1, <2>1, <2>4, <3>1 DEF OneRunInv, Established
    <3> QED
      BY <2>3, <2>4, <3>1, <3>2
  <2> QED
    BY <1>5, <2>1, <2>2, <2>3, <2>4 DEF OneRunInv, HasRead, Established
<1>19. CASE Raises(r)
  <2>1. /\ pc[r] # "idle" /\ UNCHANGED <<seen, file, plain, restored>>
        /\ pc' = [pc EXCEPT ![r] = "over"]
    BY <1>19 DEF Raises, Goto, Underway
  <2>2. RequestTypes' /\ OthersKept(r)
    BY <1>8, <1>9, <2>1 DEF RequestTypes, FileTypes, Steps, Underway
  <2>3. pc'[r] = "over"
    BY <2>1 DEF RequestTypes
  <2> QED
    BY <2>2, <2>3 DEF OneRunInv, HasRead, Established
<1> QED
  BY <1>10, <1>11, <1>12, <1>13, <1>14, <1>15, <1>16, <1>17, <1>18, <1>19 DEF RunStep

-----------------------------------------------------------------------------
(* The theorems *)

\* Every step keeps the invariant.
LEMMA NextInv == IInv /\ [Next]_vars => IInv'
<1> SUFFICES ASSUME IInv, [Next]_vars PROVE IInv'
  OBVIOUS
<1>1. BackupTypes /\ RequestTypes /\ RunInv
  BY TypeParts DEF IInv, RunInv
<1>2. ASSUME LiveChanges \/ \E id \in BackupIds : BackupStep(id)
      PROVE  BackupTypes' /\ RequestTypes' /\ RunInv'
  BY <1>1, <1>2, BackupTyped, RequestsUntouched
<1>3. ASSUME NEW r \in Runs, RunStep(r)
      PROVE  BackupTypes' /\ RequestTypes' /\ RunInv'
  <2>1. UNCHANGED backupVars
    BY <1>3, PlaceKept
  <2>2. BackupTypes'
    BY <1>1, <2>1 DEF BackupTypes, backupVars
  <2>3. RequestTypes' /\ OthersKept(r) /\ OneRunInv(r)'
    BY <1>1, <1>3, RunSteps
  <2>4. GateIsApproval'
    BY <1>1, <1>3, StateAssigned
  <2> QED
    BY <1>1, <2>2, <2>3, <2>4, OneRunMoves DEF RunInv
<1>4. ASSUME UNCHANGED vars
      PROVE  BackupTypes' /\ RequestTypes' /\ RunInv'
  <2>1. UNCHANGED backupVars /\ UNCHANGED requestVars
    BY <1>4 DEF vars, backupVars, requestVars
  <2>2. BackupTypes'
    BY <1>1, <2>1 DEF BackupTypes, backupVars
  <2> QED
    BY <1>1, <2>1, <2>2, RequestsUntouched
<1>5. BackupTypes' /\ RequestTypes' /\ RunInv'
  BY <1>1, <1>2, <1>3, <1>4, ApproveStep DEF Next
<1>6. TypeOK'
  BY <1>5 DEF TypeOK, BackupTypes, RequestTypes, FileTypes
<1> QED
  BY <1>5, <1>6 DEF IInv, RunInv

\* The inductive invariant holds in every reachable state.
THEOREM Invariance == Spec => []IInv
  BY InitInv, NextInv, PTL DEF Spec

\* Requests, runs and stores stay in the states they are declared for.
THEOREM TypeCorrect == Spec => []TypeOK
<1>1. IInv => TypeOK
  BY DEF IInv
<1> QED
  BY Invariance, <1>1, PTL

\* A run alone in its directory that returns VERIFIED_TEST_ONLY restored the archive
\* its metadata describes, sound and with an intact chain, whatever uploads and
\* other runs went on meanwhile.
THEOREM RestoresWhatItRead == Spec => []RestoredMatchesMetadata
<1>1. IInv => RestoredMatchesMetadata
  BY DEF IInv
<1> QED
  BY Invariance, <1>1, PTL

\* A run that begins does so on an approval that no run has used up.
LEMMA BeginsApproved ==
  ASSUME IInv, [Next]_vars, NEW r \in Runs, pc[r] = "idle", pc'[r] # "idle"
  PROVE  unspent[of[r]]
<1>1. RequestTypes /\ of[r] \in Recoveries
  BY TypeParts, PathTyped DEF IInv
<1>2. ASSUME NEW q \in Runs, RunStep(q), q # r
      PROVE  FALSE
  <2>1. PICK step : pc' = [pc EXCEPT ![q] = step]
    BY <1>2 DEF RunStep, Select, ReadMetadata, Download, VerifyChecksum, Decrypt,
       DecryptFails, Restore, CheckIntegrity, Reconcile, Raises, Goto
  <2> QED
    BY <1>1, <1>2, <2>1 DEF RequestTypes
<1>3. ASSUME RunStep(r)
      PROVE  MayRun(of[r])
  BY <1>3 DEF RunStep, Select, ReadMetadata, Download, VerifyChecksum, Decrypt,
     DecryptFails, Restore, CheckIntegrity, Reconcile, Raises, Underway
<1>4. ~UNCHANGED pc
  OBVIOUS
<1>5. \E q \in Runs : RunStep(q)
  BY <1>4 DEF Next, vars, LiveChanges, BackupStep, Backup, UploadData, UploadMetadata,
     UploadFails, Catalogue, StorageDecays, Approve, requestVars
<1>6. RunStep(r)
  BY <1>2, <1>5
<1> QED
  BY <1>1, <1>3, <1>6 DEF IInv, GateIsApproval

\* However many runs of a request overlap, raise or are called again, none begins
\* on an approval of which another already has its download or its completion.
THEOREM RunsAreApproved == Spec => RunNeedsApproval
<1> DEFINE Step1 == \A r \in Runs : pc[r] = "idle" /\ pc'[r] # "idle" => unspent[of[r]]
<1>1. IInv /\ [Next]_vars => [Step1]_vars
  BY BeginsApproved
<1>2. Spec => [][Step1]_vars
  BY Invariance, <1>1, PTL DEF Spec
<1> QED
  BY <1>2 DEF RunNeedsApproval
=============================================================================
