----------------------------- MODULE Checkpoint -----------------------------
(***************************************************************************)
(* The signed checkpoints of src/backend/hos4c/checkpoint.py: jobs (a      *)
(* daily one, and one after a mutation) that read the latest checkpoint,   *)
(* build and sign the next one on its hash and store it as a file, a       *)
(* storage that loses, alters or copies files, and the verification of     *)
(* what is there.  The module's functions are the steps; their order in a  *)
(* job is that of its tests.  SHA-256 is taken to be injective and Ed25519 *)
(* not to be forged: a payload is its number in the order of signing, its  *)
(* hash is that number, and only signed payloads have a valid signature.   *)
(***************************************************************************)
EXTENDS Integers, SequencesExt

CONSTANTS Writers,
          Times,            \* readings of the clock, in microseconds or any unit
          SecondOf,         \* the second of a reading, all that a file name shows
          Tags,             \* 1 .. n, what its random part can be
          MaxAge,           \* max_age_hours of check_missed_checkpoint, in the unit of Times
          MaxCheckpoints,   \* bound: checkpoints signed
          MaxFaults         \* bound: crashes and faults of the storage

ASSUME CheckpointAssumption ==
  /\ Times \subseteq Nat /\ 0 \in Times /\ Tags \subseteq Nat
  /\ SecondOf \in [Times -> Nat]
  /\ \A s, t \in Times : s <= t => SecondOf[s] <= SecondOf[t]
  /\ MaxAge \in Nat /\ MaxCheckpoints \in Nat /\ MaxFaults \in Nat

\* What a file can hold besides a whole checkpoint, and what no file holds.
\* Opening for writing truncates: a torn file is empty or half a JSON text.
Torn == 0
Altered == -1
Absent == -2

\* The previous_checkpoint_hash of the first checkpoint, "".
Genesis == 0

\* checkpoint_id: the second it was built in, then random digits.
Names == {SecondOf[t] : t \in Times} \X Tags

Before(a, b) == a[1] < b[1] \/ (a[1] = b[1] /\ a[2] < b[2])

VARIABLES
  made,     \* the payloads signed so far, in that order: name and previous hash
  taken,    \* their checkpoint_timestamps, read after the clock of the name
  dir,      \* the directory: what is under each name
  now,      \* the wall clock, which goes forward
  pc,       \* per writer
  prev,     \* per writer: the hash of the checkpoint it read
  number,   \* per writer: the payload it signed
  faults    \* crashes and storage faults so far

vars == <<made, taken, dir, now, pc, prev, number, faults>>

Signed == 1 .. Len(made)

Contents == Altered .. MaxCheckpoints

-----------------------------------------------------------------------------
(* What the functions find in a directory *)

\* list_checkpoints: by name, each after as many as come before it.
list_checkpoints(d) ==
  LET files == {n \in Names : d[n] # Absent}
  IN  [i \in 1 .. Cardinality(files) |->
         CHOOSE n \in files : Cardinality({m \in files : Before(m, n)}) = i - 1]

\* What load_checkpoint finds in each file, if it can be read.
Records(d) ==
  LET files == list_checkpoints(d)
  IN  [i \in DOMAIN files |-> d[files[i]]]

\* Mutant: files[0].
EarliestFile(d) ==
  LET records == Records(d) IN IF records = <<>> THEN Absent ELSE Head(records)

\* get_latest_checkpoint: the last file; Absent for None; a torn one raises.
LatestFile(d) ==
  LET records == Records(d) IN IF records = <<>> THEN Absent ELSE Last(records)

\* Mutant: a failure does not end the loop, the last record decides.
VerifyLast(found, c) ==
  [valid |-> (c \in Signed) /\ (made[c].prev = found.prev_hash), prev_hash |-> c]

\* Mutant: a record that does not verify is passed over.
VerifyOrSkip(found, c) ==
  IF c \in Signed /\ made[c].prev = found.prev_hash
  THEN [found EXCEPT !.prev_hash = c]
  ELSE found

\* One turn of verify_chain: signature, then previous hash.  The first failure
\* ends the loop with an exception.
verify_checkpoint(found, c) ==
  IF found.valid /\ c \in Signed /\ made[c].prev = found.prev_hash
  THEN [found EXCEPT !.prev_hash = c]
  ELSE [found EXCEPT !.valid = FALSE]

\* What the loop of verify_chain has found after the first n records.
Verified(records) ==
  LET found[n \in 0 .. Len(records)] ==
        IF n = 0 THEN [valid |-> TRUE, prev_hash |-> Genesis]
                 ELSE verify_checkpoint(found[n - 1], records[n])
  IN  found

\* verify_chain of the files: FALSE stands for an exception, the one that
\* load_checkpoint raises on a torn file included.
verify_chain(d) ==
  LET records == Records(d) IN Verified(records)[Len(records)].valid

\* Mutant: the age in the first file counts.
MissedEarliest(d) ==
  LET latest == EarliestFile(d)
  IN  latest = Absent \/ (latest \in Signed /\ now - taken[latest] > MaxAge)

\* check_missed_checkpoint, on a latest file that can be read: latest by its name,
\* its age by its timestamp.
check_missed_checkpoint(d) ==
  LET latest == LatestFile(d)
  IN  latest = Absent \/ (latest \in Signed /\ now - taken[latest] > MaxAge)

-----------------------------------------------------------------------------
(* A job *)

Goto(w, label) == pc' = [pc EXCEPT ![w] = label]

\* Mutant: None is hashed like a checkpoint.
ReadLatestUnchecked(w) ==
  LET latest == LatestFile(dir)
  IN  /\ pc[w] = "idle"
      /\ latest # Torn
      /\ prev' = [prev EXCEPT ![w] = latest]
      /\ Goto(w, "build")
      /\ UNCHANGED <<made, taken, dir, now, number, faults>>

\* The latest checkpoint is read and hashed, without its signature being
\* verified.  On a torn one the job ends with an exception.
ReadLatest(w) ==
  LET latest == LatestFile(dir)
  IN  /\ pc[w] = "idle"
      /\ latest # Torn
      /\ prev' = [prev EXCEPT ![w] = IF latest = Absent THEN Genesis ELSE latest]
      /\ Goto(w, "build")
      /\ UNCHANGED <<made, taken, dir, now, number, faults>>

\* build_checkpoint_payload names the payload, with random digits that are new ...
Build(w) ==
  /\ pc[w] = "build"
  /\ Len(made) < MaxCheckpoints
  /\ \E tag \in Tags :
       LET name == <<SecondOf[now], tag>>
       IN  /\ dir[name] = Absent
           /\ \A n \in Signed : made[n].name # name
           /\ made' = Append(made, [name |-> name, prev |-> prev[w]])
  /\ number' = [number EXCEPT ![w] = Len(made) + 1]
  /\ Goto(w, "stamp")
  /\ UNCHANGED <<taken, dir, now, prev, faults>>

\* ... and reads the clock again for its timestamp; sign_payload signs it.
Stamp(w) ==
  /\ pc[w] = "stamp"
  /\ taken' = [taken EXCEPT ![number[w]] = now]
  /\ Goto(w, "open")
  /\ UNCHANGED <<made, dir, now, prev, number, faults>>

\* Mutant: the file is opened under the name of the latest one.
OpenLatest(w) ==
  /\ pc[w] = "open"
  /\ LET files == list_checkpoints(dir)
         name  == IF files = <<>> THEN made[number[w]].name ELSE Last(files)
     IN  dir' = [dir EXCEPT ![name] = Torn]
  /\ Goto(w, "write")
  /\ UNCHANGED <<made, taken, now, prev, number, faults>>

\* store_checkpoint_local: the file is there, empty, as soon as it is opened ...
Open(w) ==
  /\ pc[w] = "open"
  /\ dir' = [dir EXCEPT ![made[number[w]].name] = Torn]
  /\ Goto(w, "write")
  /\ UNCHANGED <<made, taken, now, prev, number, faults>>

\* The job is over, one way or the other.
End(w) ==
  /\ Goto(w, "idle")
  /\ prev' = [prev EXCEPT ![w] = Genesis]
  /\ number' = [number EXCEPT ![w] = 0]
  /\ UNCHANGED <<made, taken, now>>

\* ... and whole when it is closed.
Write(w) ==
  /\ pc[w] = "write"
  /\ dir' = [dir EXCEPT ![made[number[w]].name] = number[w]]
  /\ End(w)
  /\ UNCHANGED faults

\* The process dies, or the disk is full.
Crash(w) ==
  /\ pc[w] # "idle"
  /\ faults < MaxFaults
  /\ faults' = faults + 1
  /\ End(w)
  /\ UNCHANGED dir

-----------------------------------------------------------------------------
(* The storage: it loses a file, damages one, or brings back a copy *)

\* A name that so far only a job knows.
Unstored(name) ==
  \E w \in Writers : pc[w] \in {"stamp", "open"} /\ made[number[w]].name = name

StorageFault ==
  /\ faults < MaxFaults
  /\ faults' = faults + 1
  /\ \E name \in Names :
        /\ dir[name] > Torn
        /\ \/ dir' = [dir EXCEPT ![name] = Absent]
           \/ dir' = [dir EXCEPT ![name] = Altered]
           \/ \E other \in Names :
                 /\ dir[other] \notin {Torn, dir[name]} /\ ~Unstored(other)
                 /\ dir' = [dir EXCEPT ![other] = dir[name]]
  /\ UNCHANGED <<made, taken, now, pc, prev, number>>

Tick ==
  /\ \E t \in Times : t > now /\ now' = t
  /\ UNCHANGED <<made, taken, dir, pc, prev, number, faults>>

-----------------------------------------------------------------------------
Init ==
  /\ made = <<>>
  /\ taken = [n \in 1 .. MaxCheckpoints |-> 0]
  /\ dir = [n \in Names |-> Absent]
  /\ now = 0
  /\ pc = [w \in Writers |-> "idle"]
  /\ prev = [w \in Writers |-> Genesis]
  /\ number = [w \in Writers |-> 0]
  /\ faults = 0

Next ==
  \/ \E w \in Writers :
       \/ ReadLatest(w) \/ Build(w) \/ Stamp(w) \/ Open(w) \/ Write(w)
       \/ Crash(w)
  \/ StorageFault
  \/ Tick

Spec == Init /\ [][Next]_vars

-----------------------------------------------------------------------------
(* Properties *)

TypeOK ==
  /\ made \in Seq([name : Names, prev : Contents]) /\ Len(made) <= MaxCheckpoints
  /\ taken \in [1 .. MaxCheckpoints -> Times]
  /\ dir \in [Names -> Contents \cup {Absent}]
  /\ now \in Times
  /\ pc \in [Writers -> {"idle", "build", "stamp", "open", "write"}]
  /\ prev \in [Writers -> Contents]
  /\ number \in [Writers -> 0 .. MaxCheckpoints]
  /\ faults \in 0 .. MaxFaults

\* The checkpoints a checkpoint stands on, oldest first, itself last.  One built on
\* an altered file stands on that.
Ancestry[n \in Contents] ==
  IF n = Genesis THEN <<>>
  ELSE IF n \in Signed THEN Append(Ancestry[made[n].prev], n)
  ELSE <<n>>

\* verify_chain accepts a directory exactly when it holds the whole ancestry of
\* its last checkpoint and nothing else, in order: whatever was lost, damaged,
\* copied, torn, forked or misordered before that one is found.  (What was lost
\* after it is not, which is why the age is checked too.)
VerdictExact ==
  LET records == Records(dir)
  IN  verify_chain(dir) <=>
        \/ records = <<>>
        \/ /\ \A i \in DOMAIN records : records[i] \in Signed
           /\ records = Ancestry[Last(records)]

\* Two checkpoints built in one second, or upon the same predecessor.
SameSecond == \E m, n \in Signed : m # n /\ made[m].name[1] = made[n].name[1]
Forked == \E m, n \in Signed : m # n /\ made[m].prev = made[n].prev

\* There are no other causes of a false alarm while the clock goes forward: when
\* nothing crashed, nothing was damaged, no two jobs built upon one checkpoint and
\* none were in one second, the directory of idle jobs verifies and holds every
\* checkpoint signed.
CleanDirectoryVerifies ==
  faults = 0 /\ ~SameSecond /\ ~Forked /\ (\A w \in Writers : pc[w] = "idle") =>
    /\ verify_chain(dir)
    /\ Records(dir) = [n \in Signed |-> n]

\* The directory without the files that are being written.
Settled ==
  [n \in Names |-> IF \E w \in Writers : pc[w] = "write" /\ made[number[w]].name = n
                   THEN Absent ELSE dir[n]]

\* An alarm lasts until somebody repairs the storage: no checkpoint stored later,
\* nor one stored late under an earlier name, makes a broken chain verify again.
AlarmLasts ==
  [][ ~verify_chain(Settled) /\ faults' = faults => ~verify_chain(Settled)' ]_vars

\* "Return True if latest checkpoint is within max_age_hours" (line 147; the code
\* returns the opposite).  Latest is by name, age by timestamp, and the two need not
\* agree: in one second the random digits decide, and a job may be held up between
\* its two readings of the clock.  What is true while the storage keeps what it was
\* given: when a checkpoint is reported missed, every file is named after a second
\* that had begun longer ago than the limit; and without two in one second or upon
\* one predecessor it is reported exactly when every timestamp there is older.
MissedMeansNoneRecent ==
  faults = 0 /\ LatestFile(dir) # Torn =>
    /\ check_missed_checkpoint(dir) =>
         \A name \in Names : dir[name] # Absent =>
           \E t \in Times : name[1] <= SecondOf[t] /\ now - t > MaxAge
    /\ ~SameSecond /\ ~Forked =>
         (check_missed_checkpoint(dir) <=>
            \A name \in Names : dir[name] \in Signed => now - taken[dir[name]] > MaxAge)

-----------------------------------------------------------------------------
(* What makes them inductive *)

Files(d) == {n \in Names : d[n] # Absent}

\* A writer that has signed a payload and not yet stored it whole.
Storing(w) == pc[w] \in {"stamp", "open", "write"}

\* Names tell payloads apart, and a writer stores one of its own.
Payloads ==
  /\ IsFiniteSet(Files(dir))
  /\ \A m, n \in Signed : made[m].name = made[n].name => m = n
  /\ \A w \in Writers : Storing(w) =>
       /\ number[w] \in Signed
       /\ \A u \in Writers : Storing(u) /\ number[u] = number[w] => u = w

\* Only what was signed is built on or stored, and what is built on was signed before.
SignedBefore ==
  /\ \A n \in Signed : made[n].prev < n
  /\ \A w \in Writers : prev[w] <= Len(made)
  /\ \A n \in Names : dir[n] <= Len(made)

\* Nothing is built on what is not stored yet, and its file is not there, or torn.
NotYetStored ==
  \A w \in Writers : Storing(w) =>
    /\ \A n \in Names : dir[n] # number[w]
    /\ \A u \in Writers : prev[u] # number[w]
    /\ \A n \in Signed : made[n].prev # number[w]
    /\ dir[made[number[w]].name] = IF pc[w] = "write" THEN Torn ELSE Absent

\* Payloads are made in the order of their seconds.
SignedInTime ==
  \A n \in Signed :
    /\ made[n].name[1] <= SecondOf[now]
    /\ \A m \in Signed : m < n => made[m].name[1] <= made[n].name[1]

\* Before the first fault: a payload is stamped in its second or later, and after the
\* one it was built on, which was stored by then.
StampedInTime ==
  /\ \A n \in 1 .. MaxCheckpoints : taken[n] <= now
  /\ faults = 0 =>
       \A n \in Signed :
         \/ \E w \in Writers : pc[w] = "stamp" /\ number[w] = n
         \/ /\ made[n].name[1] <= SecondOf[taken[n]]
            /\ made[n].prev \in Signed => taken[made[n].prev] <= taken[n]

\* Before the first fault: a file is the payload of its name or is being written, a
\* payload is in its file or being stored, and no file is altered.
FaultFree ==
  faults = 0 =>
    /\ \A n \in Files(dir) :
         \/ dir[n] \in Signed /\ made[dir[n]].name = n
         \/ dir[n] = Torn /\ \E w \in Writers : pc[w] = "write" /\ made[number[w]].name = n
    /\ \A n \in Signed : \/ dir[made[n].name] = n
                         \/ \E w \in Writers : Storing(w) /\ number[w] = n
    /\ \A n \in Signed : made[n].prev >= Genesis
    /\ \A w \in Writers : prev[w] >= Genesis

IInv ==
  /\ TypeOK /\ Payloads /\ SignedBefore /\ NotYetStored
  /\ SignedInTime /\ StampedInTime /\ FaultFree
=============================================================================
