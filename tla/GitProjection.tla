--------------------------- MODULE GitProjection ----------------------------
(***************************************************************************)
(* project_to_directory of src/backend/hos4c/authoritative_adapter.py over *)
(* the ledger the adapter implements: exporters that read the decisions    *)
(* once and then write one file after another, in place, while transitions *)
(* go on and other exporters do the same in the same directory.            *)
(***************************************************************************)
EXTENDS DecisionLedger

CONSTANTS Exporters,
          MaxExports     \* bound: exports started

ASSUME ProjectionAssumption ==
  /\ InitialStates \subseteq States
  /\ MaxExports \in Nat

VARIABLES
  file,       \* the directory: what is in each decision's file
  pc,         \* per exporter
  list,       \* per exporter: the rows it read
  todo,       \* per exporter: the decisions whose files it has still to write ...
  done,       \* ... and those whose files it has written
  current,    \* per exporter: the decisions, none or one, whose file it has open
  clobbered,  \* per exporter: another one wrote its open file since it was opened
  alone,      \* history: no other export has been under way since this one began
  published,  \* history: per decision, the newest version its file has shown
  exports     \* exports started so far

exportVars == <<pc, list, todo, done, current, clobbered, alone, published, exports>>
vars == <<ledgerVars, file, exportVars>>

RowType == [state : States, version : Nat]

\* What else a file can be: not there; empty, cut off or two texts in one, after
\* open has truncated it and before, or instead of, a whole text.
NoFile == [state |-> "none", version |-> 0]
Torn == [state |-> "torn", version |-> 0]

NoList == [d \in Decisions |-> NoFile]

Running == {e \in Exporters : pc[e] # "idle"}

\* The rows a decision has had: the one it has, and the one every event left.
RowsOf(d) ==
  {decision[d]} \cup {[state |-> ev.from, version |-> ev.version - 1] :
                         ev \in {x \in events : x.decision = d}}

\* list_decisions: one SELECT.
Rows == decision

\* What the filters of a caller left of it, and all of it again if they left
\* nothing ("if not decisions").
Selected(chosen) == IF chosen = {} THEN Decisions ELSE chosen

\* project_to_directory is called; an export counts from the reading of its list.
Begin(e, chosen) ==
  /\ pc[e] = "idle"
  /\ exports < MaxExports
  /\ exports' = exports + 1
  /\ list' = [list EXCEPT ![e] = Rows]
  /\ todo' = [todo EXCEPT ![e] = Selected(chosen)]
  /\ alone' = [x \in Exporters |->
                 IF x = e THEN Running = {} ELSE alone[x] /\ x \notin Running]
  /\ pc' = [pc EXCEPT ![e] = "next"]
  /\ UNCHANGED <<ledgerVars, file, done, current, clobbered, published>>

\* Mutant: a file that is there is left alone.
OpenMissing(e, d) ==
  /\ pc[e] = "next"
  /\ d \in todo[e]
  /\ IF file[d] = NoFile
     THEN /\ file' = [file EXCEPT ![d] = Torn]
          /\ current' = [current EXCEPT ![e] = {d}]
          /\ pc' = [pc EXCEPT ![e] = "write"]
          /\ UNCHANGED <<todo, done>>
     ELSE /\ todo' = [todo EXCEPT ![e] = @ \ {d}]
          /\ done' = [done EXCEPT ![e] = @ \cup {d}]
          /\ UNCHANGED <<file, current, pc>>
  /\ UNCHANGED <<ledgerVars, list, clobbered, alone, published, exports>>

\* The next file in the order of the list (which is that of updated_at, any order)
\* is opened for writing, which truncates it.
OpenFile(e, d) ==
  /\ pc[e] = "next"
  /\ d \in todo[e]
  /\ file' = [file EXCEPT ![d] = Torn]
  /\ current' = [current EXCEPT ![e] = {d}]
  /\ pc' = [pc EXCEPT ![e] = "write"]
  /\ UNCHANGED <<ledgerVars, list, todo, done, clobbered, alone, published, exports>>

\* Mutant: the version is read again when the file is written.
TextReread(e, d) == [state |-> list[e][d].state, version |-> decision[d].version]

\* The fields of the row, without those of the export itself.
Text(e, d) == list[e][d]

\* The text is written from the start of the file: upon an empty file, or upon the
\* text another exporter has written there since, of which a longer tail remains.
WriteFile(e, d) ==
  /\ pc[e] = "write"
  /\ d \in current[e]
  /\ \E text \in {Text(e, d)} \cup (IF clobbered[e] THEN {Torn} ELSE {}) :
       /\ file' = [file EXCEPT ![d] = text]
       /\ published' = [published EXCEPT ![d] =
                           IF text.version > @ THEN text.version ELSE @]
  /\ clobbered' = [x \in Exporters |->
       x # e /\ (clobbered[x] \/ (d \in current[x] /\ list[x][d] # list[e][d]))]
  /\ current' = [current EXCEPT ![e] = {}]
  /\ todo' = [todo EXCEPT ![e] = @ \ {d}]
  /\ done' = [done EXCEPT ![e] = @ \cup {d}]
  /\ pc' = [pc EXCEPT ![e] = "next"]
  /\ UNCHANGED <<ledgerVars, list, alone, exports>>

\* What is written stays.
Leave(e) ==
  /\ pc' = [pc EXCEPT ![e] = "idle"]
  /\ list' = [list EXCEPT ![e] = NoList]
  /\ todo' = [todo EXCEPT ![e] = {}]
  /\ done' = [done EXCEPT ![e] = {}]
  /\ current' = [current EXCEPT ![e] = {}]
  /\ clobbered' = [clobbered EXCEPT ![e] = FALSE]
  /\ alone' = [alone EXCEPT ![e] = FALSE]
  /\ UNCHANGED <<ledgerVars, file, published, exports>>

\* The count is returned.
Return(e) == pc[e] = "next" /\ todo[e] = {} /\ Leave(e)

\* The process dies, or the disk is full.
Crash(e) == pc[e] # "idle" /\ Leave(e)

-----------------------------------------------------------------------------
Init ==
  /\ LedgerInit
  /\ file = [d \in Decisions |-> NoFile]
  /\ pc = [e \in Exporters |-> "idle"]
  /\ list = [e \in Exporters |-> NoList]
  /\ todo = [e \in Exporters |-> {}]
  /\ done = [e \in Exporters |-> {}]
  /\ current = [e \in Exporters |-> {}]
  /\ clobbered = [e \in Exporters |-> FALSE]
  /\ alone = [e \in Exporters |-> FALSE]
  /\ published = [d \in Decisions |-> 0]
  /\ exports = 0

Ledger == LedgerNext /\ UNCHANGED <<file, exportVars>>

ExportStep(e) ==
  \/ \E d \in Decisions : OpenFile(e, d) \/ WriteFile(e, d)
  \/ Return(e)
  \/ Crash(e)

Next ==
  \/ Ledger
  \/ \E e \in Exporters, chosen \in SUBSET Decisions : Begin(e, chosen)
  \/ \E e \in Exporters : ExportStep(e)

Spec == Init /\ [][Next]_vars

-----------------------------------------------------------------------------
(* Properties *)

TypeOK ==
  /\ decision \in [Decisions -> RowType]
  /\ file \in [Decisions -> RowType \cup {NoFile, Torn}]
  /\ pc \in [Exporters -> {"idle", "next", "write"}]
  /\ list \in [Exporters -> [Decisions -> RowType \cup {NoFile}]]
  /\ todo \in [Exporters -> SUBSET Decisions]
  /\ done \in [Exporters -> SUBSET Decisions]
  /\ current \in [Exporters -> SUBSET Decisions]
  /\ clobbered \in [Exporters -> BOOLEAN]
  /\ alone \in [Exporters -> BOOLEAN]
  /\ published \in [Decisions -> Nat]
  /\ exports \in 0 .. MaxExports

\* A file that is whole shows its decision as the ledger had it at one time, state
\* and version of the same moment, whatever transitions were committed while it
\* was written and whoever else wrote it.
FilesAreHistory ==
  \A d \in Decisions : file[d] \in RowsOf(d) \cup {NoFile, Torn}

\* An export that has the directory to itself repairs it: whatever others left
\* there, what it has written is, in all files together, the ledger as it was
\* when the export began.
SoloExportIsSnapshot ==
  \A e \in Running : alone[e] => \A d \in done[e] : file[d] = list[e][d]

\* A file goes back to an older version only where exports overlapped: one that is
\* alone has read nothing older than what any file has ever shown.
AloneNeverRegresses ==
  \A e \in Running : alone[e] => \A d \in Decisions : published[d] <= list[e][d].version

-----------------------------------------------------------------------------
(* What makes them inductive *)

\* What an exporter read was so when it read it.
ListsAreHistory ==
  \A e \in Running, d \in Decisions :
    list[e][d] \in RowsOf(d) /\ list[e][d].version <= decision[d].version

\* Nothing is published before it is committed.
PublishedIsCommitted == \A d \in Decisions : published[d] <= decision[d].version

\* An exporter that does not run holds nothing; a running one holds open a file
\* that it has still to write.
ExporterShape ==
  \A e \in Exporters :
    /\ e \notin Running => done[e] = {} /\ current[e] = {} /\ ~clobbered[e]
    /\ current[e] \subseteq todo[e]
    /\ todo[e] \cap done[e] = {}

\* An export that is alone is under way, is the only one, and its file is its own.
AloneInv ==
  \A e \in Exporters :
    alone[e] => e \in Running /\ Running \subseteq {e} /\ ~clobbered[e]

IInv ==
  /\ TypeOK
  /\ ExporterShape /\ AloneInv
  /\ ListsAreHistory /\ FilesAreHistory /\ PublishedIsCommitted
  /\ SoloExportIsSnapshot /\ AloneNeverRegresses
=============================================================================
