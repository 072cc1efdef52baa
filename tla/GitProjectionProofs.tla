------------------------ MODULE GitProjectionProofs -------------------------
(***************************************************************************)
(* Proofs about GitProjection, for any decisions, keys, exporters and      *)
(* number of exports.  The argument: the rows a decision has had only grow *)
(* (RowsGrow), so a list read once stays history and so does every file    *)
(* written of it; an export that is alone (AloneInv) finds its files as it *)
(* wrote them, and has read rows no older than anything published before.  *)
(***************************************************************************)
EXTENDS GitProjection, TLAPS

\* An edge leads to a state.
LEMMA EdgesLead == \A edge \in TRANSITIONS : edge[3] \in States
  BY DEF TRANSITIONS, States

\* The invariant holds initially.
LEMMA InitInv == Init => IInv
<1> SUFFICES ASSUME Init PROVE IInv
  OBVIOUS
<1>1. decision \in [Decisions -> RowType]
  <2>1. [state : InitialStates, version : {1}] \subseteq RowType
    BY ProjectionAssumption DEF RowType
  <2> QED
    BY <2>1 DEF Init, LedgerInit
<1>2. TypeOK
  BY <1>1, ProjectionAssumption DEF Init, TypeOK, NoList
<1>3. Running = {}
  BY DEF Init, Running
<1>4. PublishedIsCommitted
  BY <1>1 DEF Init, PublishedIsCommitted, RowType
<1> QED
  BY <1>2, <1>3, <1>4 DEF Init, IInv, ExporterShape, AloneInv, ListsAreHistory,
       FilesAreHistory, SoloExportIsSnapshot, AloneNeverRegresses

-----------------------------------------------------------------------------
(* The ledger moves *)

\* A transition: some decision gets a later version, its old row is recorded, and
\* the exporters and the directory are as they were.
LEMMA RowsGrow ==
  ASSUME TypeOK, Ledger
  PROVE  /\ decision' \in [Decisions -> RowType]
         /\ \A d \in Decisions : /\ RowsOf(d) \subseteq RowsOf(d)'
                                 /\ decision[d].version <= decision'[d].version
         /\ UNCHANGED <<file, exportVars>>
<1>1. PICK k \in Keys, c \in Decisions, edge \in TRANSITIONS, role \in Roles :
        Transition(k, c, edge, role)
  BY DEF Ledger, LedgerNext
<1> DEFINE row == decision[c]
           ev == [decision |-> c, action |-> edge[2], role |-> role, from |-> edge[1],
                  to |-> edge[3], version |-> row.version + 1, key |-> k]
<1>2. /\ decision' = [decision EXCEPT ![c] = [state |-> edge[3],
                                              version |-> row.version + 1]]
      /\ events' = events \cup {ev}
      /\ edge[1] = row.state
  BY <1>1 DEF Transition
<1>3. row \in RowType /\ row.version \in Nat
  BY DEF TypeOK, RowType
<1>4. decision' \in [Decisions -> RowType]
  <2>1. [state |-> edge[3], version |-> row.version + 1] \in RowType
    BY <1>3, EdgesLead DEF RowType
  <2> QED
    BY <1>2, <2>1 DEF TypeOK
<1>5. decision'[c].version = row.version + 1
  BY <1>2 DEF TypeOK
<1>6. \A d \in Decisions \ {c} : decision'[d] = decision[d]
  BY <1>2 DEF TypeOK
<1>7. \A d \in Decisions : decision[d].version <= decision'[d].version
  <2>1. \A d \in Decisions : decision[d].version \in Nat
    BY DEF TypeOK, RowType
  <2> QED
    BY <1>3, <1>5, <1>6, <2>1
<1>8. row \in RowsOf(c)'
  <2>1. row = [state |-> ev.from, version |-> ev.version - 1]
    BY <1>2, <1>3 DEF RowType
  <2>2. ev \in events' /\ ev.decision = c
    BY <1>2
  <2> QED
    BY <2>1, <2>2 DEF RowsOf
<1>9. \A d \in Decisions : RowsOf(d) \subseteq RowsOf(d)'
  <2>1. ASSUME NEW d \in Decisions, NEW r \in RowsOf(d)
        PROVE  r \in RowsOf(d)'
    <3>1. CASE r = decision[d]
      BY <1>6, <1>8, <3>1 DEF RowsOf
    <3>2. CASE r # decision[d]
      <4>1. PICK x \in events :
              x.decision = d /\ r = [state |-> x.from, version |-> x.version - 1]
        BY <2>1, <3>2 DEF RowsOf
      <4>2. x \in events'
        BY <1>2
      <4> QED
        BY <4>1, <4>2 DEF RowsOf
    <3> QED
      BY <3>1, <3>2
  <2> QED
    BY <2>1
<1> QED
  BY <1>4, <1>7, <1>9 DEF Ledger

\* Transitions keep the invariant.
LEMMA LedgerStep ==
  ASSUME IInv, Ledger
  PROVE  IInv'
<1>1. /\ decision' \in [Decisions -> RowType]
      /\ \A d \in Decisions : /\ RowsOf(d) \subseteq RowsOf(d)'
                              /\ decision[d].version <= decision'[d].version
      /\ UNCHANGED <<file, pc, list, todo, done, current, clobbered, alone, published,
                     exports>>
  BY RowsGrow DEF IInv, exportVars
<1>2. TypeOK'
  BY <1>1 DEF IInv, TypeOK
<1>3. UNCHANGED Running
  BY <1>1 DEF Running
<1>4. ExporterShape' /\ AloneInv' /\ SoloExportIsSnapshot' /\ AloneNeverRegresses'
  BY <1>1, <1>3 DEF IInv, ExporterShape, AloneInv, SoloExportIsSnapshot,
                    AloneNeverRegresses
<1>5. FilesAreHistory'
  BY <1>1 DEF IInv, FilesAreHistory
<1>6. PublishedIsCommitted'
  <2>1. \A d \in Decisions : /\ published[d] \in Nat
                             /\ decision[d].version \in Nat
                             /\ decision'[d].version \in Nat
    BY <1>1 DEF IInv, TypeOK, RowType
  <2> QED
    BY <1>1, <2>1 DEF IInv, PublishedIsCommitted
<1>7. ListsAreHistory'
  <2>1. \A e \in Running, d \in Decisions : /\ list[e][d].version \in Nat
                                            /\ decision[d].version \in Nat
                                            /\ decision'[d].version \in Nat
    BY <1>1 DEF IInv, TypeOK, RowType, NoFile, Running
  <2> QED
    BY <1>1, <1>3, <2>1 DEF IInv, ListsAreHistory
<1> QED
  BY <1>2, <1>4, <1>5, <1>6, <1>7 DEF IInv

-----------------------------------------------------------------------------
(* The exporters move *)

\* The ledger is where it was.
LEMMA LedgerKept ==
  ASSUME UNCHANGED ledgerVars
  PROVE  UNCHANGED <<decision, events>> /\ \A d \in Decisions : RowsOf(d)' = RowsOf(d)
  BY DEF ledgerVars, RowsOf

\* A new export reads the ledger as it is.
LEMMA BeginStep ==
  ASSUME IInv, NEW e \in Exporters, NEW chosen \in SUBSET Decisions, Begin(e, chosen)
  PROVE  IInv'
<1>1. /\ UNCHANGED <<decision, events>> /\ \A d \in Decisions : RowsOf(d)' = RowsOf(d)
      /\ UNCHANGED <<file, done, current, clobbered, published>>
  BY LedgerKept DEF Begin
<1>2. /\ e \notin Running /\ Running' = Running \cup {e}
      /\ list'[e] = decision /\ \A x \in Exporters \ {e} : list'[x] = list[x]
      /\ todo'[e] \subseteq Decisions /\ \A x \in Exporters \ {e} : todo'[x] = todo[x]
      /\ alone'[e] <=> Running = {}
      /\ \A x \in Exporters \ {e} : alone'[x] <=> (alone[x] /\ x \notin Running)
  BY DEF Begin, Rows, Selected, Running, IInv, TypeOK
<1>3. TypeOK'
  <2>1. list' \in [Exporters -> [Decisions -> RowType \cup {NoFile}]]
    BY DEF Begin, Rows, IInv, TypeOK
  <2>2. todo' \in [Exporters -> SUBSET Decisions]
    BY DEF Begin, Selected, IInv, TypeOK
  <2>3. alone' \in [Exporters -> BOOLEAN]
    BY DEF Begin, IInv, TypeOK
  <2>4. exports' \in 0 .. MaxExports
    BY ProjectionAssumption DEF Begin, IInv, TypeOK
  <2> QED
    BY <1>1, <2>1, <2>2, <2>3, <2>4 DEF Begin, IInv, TypeOK
<1>4. ExporterShape'
  <2>1. done[e] = {} /\ current[e] = {}
    BY <1>2 DEF IInv, ExporterShape
  <2> QED
    BY <1>1, <1>2, <2>1 DEF IInv, ExporterShape
<1>5. AloneInv'
  BY <1>1, <1>2 DEF IInv, AloneInv, ExporterShape
<1>6. ListsAreHistory'
  <2>1. \A d \in Decisions :
          decision[d] \in RowsOf(d) /\ decision[d].version <= decision[d].version
    BY DEF RowsOf, IInv, TypeOK, RowType
  <2> QED
    BY <1>1, <1>2, <2>1 DEF IInv, ListsAreHistory, Running
<1>7. FilesAreHistory' /\ PublishedIsCommitted'
  BY <1>1 DEF IInv, FilesAreHistory, PublishedIsCommitted
<1>8. SoloExportIsSnapshot'
  BY <1>1, <1>2 DEF IInv, SoloExportIsSnapshot, ExporterShape, Running
<1>9. AloneNeverRegresses'
  BY <1>1, <1>2 DEF IInv, AloneNeverRegresses, PublishedIsCommitted, Running
<1> QED
  BY <1>3, <1>4, <1>5, <1>6, <1>7, <1>8, <1>9 DEF IInv

\* A file that is opened is torn, and is not one its exporter has written.
LEMMA OpenStep ==
  ASSUME IInv, NEW e \in Exporters, NEW d \in Decisions, OpenFile(e, d)
  PROVE  IInv'
<1>1. /\ UNCHANGED <<decision, events>> /\ \A c \in Decisions : RowsOf(c)' = RowsOf(c)
      /\ UNCHANGED <<list, todo, done, clobbered, alone, published, exports>>
  BY LedgerKept DEF OpenFile
<1>2. /\ e \in Running /\ Running' = Running
      /\ d \in todo[e]
      /\ current'[e] = {d} /\ \A x \in Exporters \ {e} : current'[x] = current[x]
      /\ file'[d] = Torn /\ \A c \in Decisions \ {d} : file'[c] = file[c]
  BY DEF OpenFile, Running, IInv, TypeOK
<1>3. TypeOK'
  BY <1>1 DEF OpenFile, IInv, TypeOK
<1>4. ExporterShape' /\ AloneInv' /\ ListsAreHistory' /\ FilesAreHistory'
      /\ PublishedIsCommitted' /\ AloneNeverRegresses'
  BY <1>1, <1>2 DEF IInv, ExporterShape, AloneInv, ListsAreHistory, FilesAreHistory,
                    PublishedIsCommitted, AloneNeverRegresses
<1>5. SoloExportIsSnapshot'
  <2>1. ASSUME NEW x \in Running, alone[x], NEW c \in done[x]
        PROVE  file'[c] = list[x][c]
    <3>1. x = e
      BY <1>2, <2>1 DEF IInv, AloneInv, Running
    <3>2. c \in Decisions /\ c # d
      BY <1>2, <2>1, <3>1 DEF IInv, TypeOK, ExporterShape
    <3> QED
      BY <1>2, <2>1, <3>2 DEF IInv, SoloExportIsSnapshot
  <2> QED
    BY <1>1, <1>2, <2>1 DEF SoloExportIsSnapshot
<1> QED
  BY <1>3, <1>4, <1>5 DEF IInv

\* A file that is written shows what its exporter has read, or is torn, the latter
\* only if the exporter is not alone.
LEMMA WriteStep ==
  ASSUME IInv, NEW e \in Exporters, NEW d \in Decisions, WriteFile(e, d)
  PROVE  IInv'
<1>1. /\ UNCHANGED <<decision, events>> /\ \A c \in Decisions : RowsOf(c)' = RowsOf(c)
      /\ UNCHANGED <<list, alone, exports>>
  BY LedgerKept DEF WriteFile
<1>2. PICK text \in {list[e][d]} \cup (IF clobbered[e] THEN {Torn} ELSE {}) :
        /\ file' = [file EXCEPT ![d] = text]
        /\ published' = [published EXCEPT ![d] =
                           IF text.version > @ THEN text.version ELSE @]
  BY DEF WriteFile, Text
<1>3. /\ e \in Running /\ Running' = Running
      /\ file'[d] = text /\ \A c \in Decisions \ {d} : file'[c] = file[c]
      /\ todo'[e] = todo[e] \ {d} /\ \A x \in Exporters \ {e} : todo'[x] = todo[x]
      /\ done'[e] = done[e] \cup {d} /\ \A x \in Exporters \ {e} : done'[x] = done[x]
      /\ current'[e] = {} /\ \A x \in Exporters \ {e} : current'[x] = current[x]
      /\ \A c \in Decisions \ {d} : published'[c] = published[c]
      /\ published'[d] = IF text.version > published[d] THEN text.version
                                                         ELSE published[d]
  BY <1>2 DEF WriteFile, Running, IInv, TypeOK
<1>4. /\ text \in RowType \cup {NoFile, Torn}
      /\ text.version \in Nat /\ text.version <= decision[d].version
      /\ text \in RowsOf(d) \cup {NoFile, Torn}
  <2>1. decision[d].version \in Nat
    BY DEF IInv, TypeOK, RowType
  <2>2. CASE text = list[e][d]
    <3>1. list[e][d] \in RowType \cup {NoFile}
      BY DEF IInv, TypeOK
    <3> QED
      BY <1>3, <2>2, <3>1 DEF IInv, ListsAreHistory, RowType, NoFile
  <2>3. CASE text = Torn
    BY <2>1, <2>3 DEF Torn
  <2> QED
    BY <1>2, <2>2, <2>3
<1>5. TypeOK'
  <2>1. file' \in [Decisions -> RowType \cup {NoFile, Torn}]
    BY <1>2, <1>4 DEF IInv, TypeOK
  <2>2. published' \in [Decisions -> Nat]
    BY <1>2, <1>4 DEF IInv, TypeOK
  <2>3. clobbered' \in [Exporters -> BOOLEAN]
    BY DEF WriteFile, IInv, TypeOK
  <2>4. /\ done' \in [Exporters -> SUBSET Decisions]
        /\ todo' \in [Exporters -> SUBSET Decisions]
        /\ current' \in [Exporters -> SUBSET Decisions]
        /\ pc' \in [Exporters -> {"idle", "next", "write"}]
    BY DEF WriteFile, IInv, TypeOK
  <2> QED
    BY <1>1, <2>1, <2>2, <2>3, <2>4 DEF IInv, TypeOK
<1>6. \A x \in Exporters :
        clobbered'[x] => x # e /\ (clobbered[x] \/ d \in current[x])
  BY DEF WriteFile, IInv, TypeOK
<1>7. ExporterShape'
  <2>1. ASSUME NEW x \in Exporters
        PROVE  /\ x \notin Running => done'[x] = {} /\ current'[x] = {} /\ ~clobbered'[x]
               /\ current'[x] \subseteq todo'[x]
               /\ todo'[x] \cap done'[x] = {}
    <3>1. CASE x = e
      BY <1>3, <3>1 DEF IInv, ExporterShape
    <3>2. CASE x # e
      <4>1. x \notin Running => current[x] = {}
        BY DEF IInv, ExporterShape, Running
      <4> QED
        BY <1>3, <1>6, <3>2, <4>1 DEF IInv, ExporterShape
    <3> QED
      BY <3>1, <3>2
  <2> QED
    BY <1>3, <2>1 DEF ExporterShape
<1>8. AloneInv'
  BY <1>1, <1>3, <1>6 DEF IInv, AloneInv
<1>9. ListsAreHistory' /\ FilesAreHistory'
  BY <1>1, <1>3, <1>4 DEF IInv, ListsAreHistory, FilesAreHistory
<1>10. PublishedIsCommitted'
  BY <1>1, <1>3, <1>4 DEF IInv, PublishedIsCommitted
<1>11. ASSUME NEW x \in Running, alone[x]
       PROVE  x = e /\ text = list[e][d]
  BY <1>2, <1>3, <1>11 DEF IInv, AloneInv, Running
<1>12. SoloExportIsSnapshot'
  <2>1. ASSUME NEW x \in Running, alone[x], NEW c \in done'[x]
        PROVE  file'[c] = list[x][c]
    BY <1>3, <1>11, <2>1 DEF IInv, SoloExportIsSnapshot, TypeOK
  <2> QED
    BY <1>1, <1>3, <2>1 DEF SoloExportIsSnapshot
<1>13. AloneNeverRegresses'
  <2>1. ASSUME NEW x \in Running, alone[x], NEW c \in Decisions
        PROVE  published'[c] <= list[x][c].version
    <3>1. x = e /\ text = list[e][d]
      BY <1>11, <2>1
    <3>2. published[c] <= list[x][c].version /\ published[c] \in Nat
      BY <2>1 DEF IInv, AloneNeverRegresses, TypeOK
    <3> QED
      BY <1>3, <1>4, <3>1, <3>2
  <2> QED
    BY <1>1, <1>3, <2>1 DEF AloneNeverRegresses
<1> QED
  BY <1>5, <1>7, <1>8, <1>9, <1>10, <1>12, <1>13 DEF IInv

\* An exporter that leaves takes nothing back.
LEMMA LeaveStep ==
  ASSUME IInv, NEW e \in Exporters, Leave(e)
  PROVE  IInv'
<1>1. /\ UNCHANGED <<decision, events>> /\ \A c \in Decisions : RowsOf(c)' = RowsOf(c)
      /\ UNCHANGED <<file, published, exports>>
  BY LedgerKept DEF Leave
<1>2. /\ Running' = Running \ {e}
      /\ done'[e] = {} /\ todo'[e] = {} /\ current'[e] = {}
      /\ ~clobbered'[e] /\ ~alone'[e]
      /\ \A x \in Exporters \ {e} :
           /\ list'[x] = list[x] /\ done'[x] = done[x] /\ todo'[x] = todo[x]
           /\ current'[x] = current[x] /\ clobbered'[x] = clobbered[x]
           /\ alone'[x] = alone[x]
  BY DEF Leave, Running, IInv, TypeOK
<1>3. TypeOK'
  BY <1>1 DEF Leave, NoList, IInv, TypeOK
<1>4. ExporterShape' /\ AloneInv'
  BY <1>2 DEF IInv, ExporterShape, AloneInv
<1>5. FilesAreHistory' /\ PublishedIsCommitted'
  BY <1>1 DEF IInv, FilesAreHistory, PublishedIsCommitted
<1>6. ListsAreHistory' /\ SoloExportIsSnapshot' /\ AloneNeverRegresses'
  BY <1>1, <1>2 DEF IInv, ListsAreHistory, SoloExportIsSnapshot, AloneNeverRegresses,
                    Running
<1> QED
  BY <1>3, <1>4, <1>5, <1>6 DEF IInv

-----------------------------------------------------------------------------
(* The theorems *)

\* Every step keeps the invariant.
LEMMA NextInv == IInv /\ [Next]_vars => IInv'
<1> SUFFICES ASSUME IInv, [Next]_vars PROVE IInv'
  OBVIOUS
<1>1. CASE UNCHANGED vars
  BY <1>1 DEF vars, ledgerVars, exportVars, IInv, TypeOK, ExporterShape, AloneInv,
              ListsAreHistory, FilesAreHistory, PublishedIsCommitted,
              SoloExportIsSnapshot, AloneNeverRegresses, Running, RowsOf
<1>2. CASE Ledger
  BY <1>2, LedgerStep
<1>3. ASSUME NEW e \in Exporters, NEW chosen \in SUBSET Decisions, Begin(e, chosen)
      PROVE  IInv'
  BY <1>3, BeginStep
<1>4. ASSUME NEW e \in Exporters, ExportStep(e)
      PROVE  IInv'
  BY <1>4, OpenStep, WriteStep, LeaveStep DEF ExportStep, Return, Crash
<1> QED
  BY <1>1, <1>2, <1>3, <1>4 DEF Next

\* The inductive invariant holds in every reachable state.
THEOREM Invariance == Spec => []IInv
  BY InitInv, NextInv, PTL DEF Spec

\* Files, lists and the ledger's rows stay what they are declared to be.
THEOREM TypeCorrect == Spec => []TypeOK
<1>1. IInv => TypeOK
  BY DEF IInv
<1> QED
  BY Invariance, <1>1, PTL

\* A whole file always shows a row its decision has had, state and version of one
\* moment, with any number of exporters writing it.
THEOREM FilesShowHistory == Spec => []FilesAreHistory
<1>1. IInv => FilesAreHistory
  BY DEF IInv
<1> QED
  BY Invariance, <1>1, PTL

\* What an export that is alone has written is the ledger of one moment.
THEOREM SoloExportsAreSnapshots == Spec => []SoloExportIsSnapshot
<1>1. IInv => SoloExportIsSnapshot
  BY DEF IInv
<1> QED
  BY Invariance, <1>1, PTL

\* An export that is alone takes no file back to an older version.
THEOREM SoloExportsGoForward == Spec => []AloneNeverRegresses
<1>1. IInv => AloneNeverRegresses
  BY DEF IInv
<1> QED
  BY Invariance, <1>1, PTL
=============================================================================
