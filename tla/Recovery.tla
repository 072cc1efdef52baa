------------------------------ MODULE Recovery ------------------------------
(***************************************************************************)
(* Backup and restore: create_backup (backup.py), the age encryption,      *)
(* StorageAdapter and CATALOG (encryption.py) and run_recovery             *)
(* (restore.py).  A backup copies the live database, is encrypted under a  *)
(* backup id, uploaded in two stores (the bytes, then the metadata with    *)
(* their checksum) and catalogued.  A recovery request approved by the     *)
(* owner lets run_recovery be called: each call, a run, retrieves the      *)
(* backup step by step while backups, uploads and other runs, of the same  *)
(* request too, go on, and any step may raise.  The files a run works on   *)
(* are named after its output directory and backup id, or the directory    *)
(* alone.                                                                  *)
(***************************************************************************)
EXTENDS Naturals

CONSTANTS BackupIds,     \* ids archives are stored and catalogued under
          Recoveries,    \* RecoveryRequest objects
          Runs,          \* calls of run_recovery
          Dirs,          \* output directories of runs
          MaxBackups,    \* bound: archives made
          MaxWrites,     \* bound: changes of the live database
          MaxApprovals   \* bound: approvals of all requests

ASSUME RecoveryAssumption ==
  /\ MaxBackups \in Nat /\ MaxWrites \in Nat /\ MaxApprovals \in Nat

\* What the checks of a restore can tell of a database file: which revision of
\* the file it holds, whether its hash chain verifies, and whether PRAGMA
\* integrity_check says ok.
Database == [revision : Nat, intact : BOOLEAN, sound : BOOLEAN]

\* An encrypted copy.  age encrypts with a fresh file key, so each archive has
\* bytes, and a checksum, of its own: its seal.  Seal 0 is a damaged archive,
\* which age refuses.
Archive == [copy : Database, seal : Nat]
Damaged(a) == [a EXCEPT !.seal = 0]

\* What age leaves of a database when it fails or is stopped half-way.
Partial == [revision |-> 0, intact |-> FALSE, sound |-> FALSE]

\* Of the archive and the restored database: <output_dir>/[restored-]<backup_id>.
Paths == Dirs \X BackupIds

VARIABLES
  live,         \* the database backups are taken of
  made,         \* how many archives were made
  local,        \* backup id -> its archive on the writer's disk, none or one
  uploading,    \* backup id -> the archive whose upload is under way
  data,         \* StorageAdapter._data
  meta,         \* StorageAdapter._store: the archive its checksum is of
  catalog,      \* the keys of CATALOG
  state,        \* request.state
  point,        \* request.backup_id
  approvals,    \* how often requests were approved
  pc,           \* the next step of a run, or how it ended
  of,           \* the request the run is of
  dir,          \* its output_dir
  seen,         \* its `meta`
  file,         \* path -> the archive at download_path
  plain,        \* directory -> the database at `decrypted`, restored.db for every run
  restored,     \* path -> the database at restored_db
  \* Histories:
  unspent,      \* the request was approved and no run got past its download since
  alone         \* no other run was in the run's directory since it began

backupVars == <<live, made, local, uploading, data, meta, catalog>>
argumentVars == <<point, of, dir>>
requestVars == <<state, point, approvals, pc, of, dir, seen, file, plain, restored,
                 unspent, alone>>
vars == <<live, made, local, uploading, data, meta, catalog,
          state, point, approvals, pc, of, dir, seen, file, plain, restored,
          unspent, alone>>

Path(r) == <<dir[r], point[of[r]]>>

\* Functions from I to a member of S, or none.
Slots(I, S) == {f \in [I -> SUBSET S] : \A i \in I : \A x, y \in f[i] : x = y}

RecoveryStates ==
  {"REQUESTED", "APPROVED", "RECOVERY_POINT_SELECTED", "DOWNLOADED",
   "DOWNLOAD_FAILED", "CORRUPT", "DECRYPTION_PENDING", "DECRYPTION_FAILED",
   "RESTORE_PENDING", "RESTORE_FAILED", "RESTORED", "RECONCILIATION_FAILED",
   "VERIFIED_TEST_ONLY"}

\* Where a run is; "verified" is one that returned VERIFIED_TEST_ONLY as its
\* evidence, "over" one that returned anything else or raised.
Underway == {"metadata", "download", "checksum", "decrypt", "restore", "integrity",
             "reconcile"}
Steps == Underway \cup {"idle", "over", "verified"}

-----------------------------------------------------------------------------
(* The live database and its backups *)

\* The service goes on: transitions are recorded; the race on the audit ledger
\* breaks its chain; pages rot.  Each change is a revision of the file.
LiveChanges ==
  /\ live.revision < MaxWrites
  /\ \/ live' = [live EXCEPT !.revision = @ + 1]
     \/ live' = [live EXCEPT !.revision = @ + 1, !.intact = FALSE]
     \/ live' = [live EXCEPT !.revision = @ + 1, !.sound = FALSE]
  /\ UNCHANGED <<made, local, uploading, data, meta, catalog, requestVars>>

\* create_backup checks the source and the copy; encrypt_with_age makes the
\* archive under the id.
Backup(id) ==
  /\ made < MaxBackups
  /\ live.sound
  /\ made' = made + 1
  /\ local' = [local EXCEPT ![id] = {[copy |-> live, seal |-> made + 1]}]
  /\ UNCHANGED <<live, uploading, data, meta, catalog, requestVars>>

\* upload stores the bytes first ...
UploadData(id) ==
  /\ local[id] # {} /\ uploading[id] = {}
  /\ uploading' = [uploading EXCEPT ![id] = local[id]]
  /\ data' = [data EXCEPT ![id] = local[id]]
  /\ UNCHANGED <<live, made, local, meta, catalog, requestVars>>

\* ... and the metadata once it has the checksum of the file;
UploadMetadata(id) ==
  /\ uploading[id] # {}
  /\ meta' = [meta EXCEPT ![id] = uploading[id]]
  /\ uploading' = [uploading EXCEPT ![id] = {}]
  /\ UNCHANGED <<live, made, local, data, catalog, requestVars>>

\* an exception in between leaves the new bytes under the old metadata.
UploadFails(id) ==
  /\ uploading[id] # {}
  /\ uploading' = [uploading EXCEPT ![id] = {}]
  /\ UNCHANGED <<live, made, local, data, meta, catalog, requestVars>>

\* record_catalog_entry takes the object upload returned and sets "verified".
Catalogue(id) ==
  /\ meta[id] # {} /\ uploading[id] = {}
  /\ catalog' = catalog \cup {id}
  /\ UNCHANGED <<live, made, local, uploading, data, meta, requestVars>>

\* The store returns other bytes than it was given.
StorageDecays(id) ==
  /\ \E a \in data[id] : data' = [data EXCEPT ![id] = {Damaged(a)}]
  /\ UNCHANGED <<live, made, local, uploading, meta, catalog, requestVars>>

-----------------------------------------------------------------------------
(* run_recovery *)

\* approve looks at the approver, not at the state of the request.
Approve(q) ==
  /\ approvals < MaxApprovals
  /\ approvals' = approvals + 1
  /\ state' = [state EXCEPT ![q] = "APPROVED"]
  /\ unspent' = [unspent EXCEPT ![q] = TRUE]
  /\ UNCHANGED <<backupVars, argumentVars, pc, seen, file, plain, restored, alone>>

\* The run goes on at `step`, its request in state `s`.  Whatever other runs have
\* made of request.state is overwritten.
Goto(r, step, s) ==
  /\ pc' = [pc EXCEPT ![r] = step]
  /\ state' = [state EXCEPT ![of[r]] = s]
  /\ UNCHANGED <<backupVars, argumentVars, approvals>>

\* Mutant: a request keeps running rights once it was approved.
MayRunAgain(q) == state[q] # "REQUESTED"

\* A run whose request is not approved, or names no catalogued backup, returns
\* and changes nothing.  A run that has selected its backup leaves the state as
\* one that passes: further runs may begin until one of them has its download.
MayRun(q) == state[q] \in {"APPROVED", "RECOVERY_POINT_SELECTED"}

Select(r) ==
  /\ pc[r] = "idle"
  /\ MayRun(of[r]) /\ point[of[r]] \in catalog
  /\ Goto(r, "metadata", "RECOVERY_POINT_SELECTED")
  /\ alone' = [q \in Runs |->
       IF q = r THEN \A p \in Runs \ {r} : dir[p] = dir[r] => pc[p] \notin Underway
       ELSE alone[q] /\ dir[q] # dir[r]]
  /\ UNCHANGED <<seen, file, plain, restored, unspent>>

ReadMetadata(r) ==
  /\ pc[r] = "metadata"
  /\ IF meta[point[of[r]]] = {}
     THEN Goto(r, "over", "DOWNLOAD_FAILED")
     ELSE Goto(r, "download", state[of[r]])
  /\ seen' = [seen EXCEPT ![r] = meta[point[of[r]]]]
  /\ UNCHANGED <<file, plain, restored, unspent, alone>>

Download(r) ==
  /\ pc[r] = "download"
  /\ IF data[point[of[r]]] = {}
     THEN Goto(r, "over", "DOWNLOAD_FAILED") /\ UNCHANGED <<file, unspent>>
     ELSE /\ Goto(r, "checksum", "DOWNLOADED")
          /\ file' = [file EXCEPT ![Path(r)] = data[point[of[r]]]]
          /\ unspent' = [unspent EXCEPT ![of[r]] = FALSE]
  /\ UNCHANGED <<seen, plain, restored, alone>>

\* Mutant: the checksum is not compared.
ChecksumUnchecked(r) == TRUE

ChecksumMatches(r) == file[Path(r)] = seen[r]

VerifyChecksum(r) ==
  /\ pc[r] = "checksum"
  /\ IF ChecksumMatches(r)
     THEN Goto(r, "decrypt", "DECRYPTION_PENDING")
     ELSE Goto(r, "over", "CORRUPT")
  /\ UNCHANGED <<seen, file, plain, restored, unspent, alone>>

\* Mutant: the archive is left where the database belongs.
DecryptNothing(r) ==
  /\ pc[r] = "decrypt"
  /\ \E a \in file[Path(r)] : a.seal # 0
  /\ plain' = [plain EXCEPT ![dir[r]] = file[Path(r)]]
  /\ Goto(r, "restore", "RESTORE_PENDING")
  /\ UNCHANGED <<seen, file, restored, unspent, alone>>

\* decrypt_with_age writes restored.db in the output directory, whatever the backup.
Decrypt(r) ==
  /\ pc[r] = "decrypt"
  /\ \E a \in file[Path(r)] : a.seal # 0 /\ plain' = [plain EXCEPT ![dir[r]] = {a.copy}]
  /\ Goto(r, "restore", "RESTORE_PENDING")
  /\ UNCHANGED <<seen, file, restored, unspent, alone>>

\* age fails on a damaged archive, on any other with the wrong key, and when the
\* disk is full, or is killed by its timeout, which raises; it may have written
\* something by then.
DecryptFails(r) ==
  /\ pc[r] = "decrypt"
  /\ plain' \in {plain, [plain EXCEPT ![dir[r]] = {Partial}]}
  /\ Goto(r, "over", "DECRYPTION_FAILED") \/ Goto(r, "over", state[of[r]])
  /\ UNCHANGED <<seen, file, restored, unspent, alone>>

\* Copies restored.db, as it is by now, over the database of an earlier run.
Restore(r) ==
  /\ pc[r] = "restore"
  /\ restored' = [restored EXCEPT ![Path(r)] = plain[dir[r]]]
  /\ Goto(r, "integrity", state[of[r]])
  /\ UNCHANGED <<seen, file, plain, unspent, alone>>

CheckIntegrity(r) ==
  /\ pc[r] = "integrity"
  /\ IF \A db \in restored[Path(r)] : db.sound
     THEN Goto(r, "reconcile", "RESTORED")
     ELSE Goto(r, "over", "RESTORE_FAILED")
  /\ UNCHANGED <<seen, file, plain, restored, unspent, alone>>

\* The audit chain of the restored file is verified.  The checkpoints are
\* "verified" as the empty list, and the states DATA_VERIFIED to
\* VERIFIED_TEST_ONLY follow each other with nothing done in between.
Reconcile(r) ==
  /\ pc[r] = "reconcile"
  /\ IF \A db \in restored[Path(r)] : db.intact
     THEN /\ Goto(r, "verified", "VERIFIED_TEST_ONLY")
          /\ unspent' = [unspent EXCEPT ![of[r]] = FALSE]
     ELSE /\ Goto(r, "over", "RECONCILIATION_FAILED")
          /\ UNCHANGED unspent
  /\ UNCHANGED <<seen, file, plain, restored, alone>>

\* Any step may raise: the request keeps the state last assigned to it.
Raises(r) ==
  /\ pc[r] \in Underway
  /\ Goto(r, "over", state[of[r]])
  /\ UNCHANGED <<seen, file, plain, restored, unspent, alone>>

-----------------------------------------------------------------------------
Init ==
  /\ live = [revision |-> 0, intact |-> TRUE, sound |-> TRUE]
  /\ made = 0
  /\ local = [id \in BackupIds |-> {}]
  /\ uploading = [id \in BackupIds |-> {}]
  /\ data = [id \in BackupIds |-> {}]
  /\ meta = [id \in BackupIds |-> {}]
  /\ catalog = {}
  /\ state = [q \in Recoveries |-> "REQUESTED"]
  /\ point \in [Recoveries -> BackupIds]
  /\ approvals = 0
  /\ pc = [r \in Runs |-> "idle"]
  /\ of \in [Runs -> Recoveries]
  /\ dir \in [Runs -> Dirs]
  /\ seen = [r \in Runs |-> {}]
  /\ file = [p \in Paths |-> {}]
  /\ plain = [o \in Dirs |-> {}]
  /\ restored = [p \in Paths |-> {}]
  /\ unspent = [q \in Recoveries |-> FALSE]
  /\ alone = [r \in Runs |-> FALSE]

BackupStep(id) ==
  \/ Backup(id)
  \/ UploadData(id) \/ UploadMetadata(id) \/ UploadFails(id)
  \/ Catalogue(id) \/ StorageDecays(id)

RunStep(r) ==
  \/ Select(r) \/ ReadMetadata(r) \/ Download(r) \/ VerifyChecksum(r)
  \/ Decrypt(r) \/ DecryptFails(r) \/ Restore(r) \/ CheckIntegrity(r) \/ Reconcile(r)
  \/ Raises(r)

Next ==
  \/ LiveChanges
  \/ \E id \in BackupIds : BackupStep(id)
  \/ \E q \in Recoveries : Approve(q)
  \/ \E r \in Runs : RunStep(r)

Spec == Init /\ [][Next]_vars

-----------------------------------------------------------------------------
(* Properties *)

TypeOK ==
  /\ live \in Database
  /\ made \in Nat
  /\ local \in Slots(BackupIds, Archive)
  /\ uploading \in Slots(BackupIds, Archive)
  /\ data \in Slots(BackupIds, Archive)
  /\ meta \in Slots(BackupIds, Archive)
  /\ catalog \subseteq BackupIds
  /\ state \in [Recoveries -> RecoveryStates]
  /\ point \in [Recoveries -> BackupIds]
  /\ approvals \in Nat
  /\ pc \in [Runs -> Steps]
  /\ of \in [Runs -> Recoveries]
  /\ dir \in [Runs -> Dirs]
  /\ seen \in Slots(Runs, Archive)
  /\ file \in Slots(Paths, Archive)
  /\ plain \in Slots(Dirs, Database)
  /\ restored \in Slots(Paths, Database)
  /\ unspent \in [Recoveries -> BOOLEAN]
  /\ alone \in [Runs -> BOOLEAN]

\* A run that returns VERIFIED_TEST_ONLY has restored, whole and with an intact
\* chain, the very archive the metadata it read describes: not the bytes of an
\* upload that never finished, nor of one that began meanwhile, nor what an
\* earlier run left in the directory.  It has to be alone in its directory: shared
\* with another, restored.db may be another backup's by the time it is copied, and
\* the copy another's by the time it is checked.
RestoredMatchesMetadata ==
  \A r \in Runs : pc[r] = "verified" /\ alone[r] =>
     \E a \in seen[r] :
        /\ restored[Path(r)] = {a.copy}
        /\ a.seal # 0 /\ a.copy.sound /\ a.copy.intact

\* A run begins only on an approval, and on one that no run has used up: once one
\* has its download, or has completed, whatever becomes of it and of the runs
\* that began beside it, and whichever of them assigns the state last, no other
\* begins until the request is approved again.  (Those that began before may all
\* complete, on that one approval.)
RunNeedsApproval ==
  [][ \A r \in Runs : pc[r] = "idle" /\ pc'[r] # "idle" => unspent[of[r]] ]_vars

-----------------------------------------------------------------------------
(* What makes the properties inductive *)

\* Nobody else works in the directory of a run that is alone.
AloneIsAlone ==
  \A r \in Runs : alone[r] =>
     \A q \in Runs \ {r} : dir[q] = dir[r] => pc[q] \notin Underway

\* What a run that is alone has established by the step it is at.
Established(r) ==
  /\ pc[r] \in {"decrypt", "restore", "integrity", "reconcile"} =>
       file[Path(r)] = seen[r] /\ seen[r] # {}
  /\ pc[r] \in {"restore", "integrity", "reconcile"} => \A a \in seen[r] : a.seal # 0
  /\ pc[r] = "restore" => plain[dir[r]] = {a.copy : a \in seen[r]}
  /\ pc[r] \in {"integrity", "reconcile"} => restored[Path(r)] = {a.copy : a \in seen[r]}
  /\ pc[r] = "reconcile" => \A a \in seen[r] : a.copy.sound

\* What a run has read, alone or not.
HasRead(r) == pc[r] \in {"download", "checksum"} => seen[r] # {}

\* The state a run needs to begin is one only an unspent approval leaves.
GateIsApproval == \A q \in Recoveries : MayRun(q) => unspent[q]

IInv ==
  /\ TypeOK
  /\ AloneIsAlone
  /\ \A r \in Runs : HasRead(r) /\ (alone[r] => Established(r))
  /\ RestoredMatchesMetadata
  /\ GateIsApproval
=============================================================================
