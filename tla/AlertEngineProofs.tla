------------------------- MODULE AlertEngineProofs --------------------------
(***************************************************************************)
(* Proofs about AlertEngine, for any rules, thresholds, windows and bounds.*)
(* The counters are shown to hold exactly the events of their window, from *)
(* which both directions of "an alert at the threshold" follow.            *)
(***************************************************************************)
EXTENDS AlertEngine, FiniteSetTheorems, TLAPS

\* An event that reaches a rule: the three outcomes of process_event.
Process(fp) == BelowThreshold(fp) \/ Absorb(fp) \/ Raise(fp)

\* An operator acts on the alert n.
Operate(n) == (\E role \in AckRoles : Acknowledge(n, role)) \/ Escalate(n) \/ Resolve(n)

\* What the operators make of an alert.
Operated(a) == {Acknowledged(a), Escalated(a), Resolved(a)}

\* An operator changes one alert, in one of three ways, and nothing else.
LEMMA OperateChanges ==
  ASSUME NEW n \in DOMAIN alerts, Operate(n)
  PROVE  /\ \E a \in Operated(alerts[n]) : alerts' = [alerts EXCEPT ![n] = a]
         /\ UNCHANGED <<clock, counters, reported>>
  BY DEF Operate, Acknowledge, Escalate, Resolve, Operated

\* An alert that is acted on, or absorbs an event, stays one; only its status,
\* counts and stamps change, and a stamp once set stays set.
LEMMA ChangesAreAlerts ==
  ASSUME TypeOK, NEW a \in AlertType, NEW b \in {Absorbed(a)} \cup Operated(a)
  PROVE  /\ b \in AlertType
         /\ b.fingerprint = a.fingerprint /\ b.first_seen_at = a.first_seen_at
         /\ a.recovery_at # "" => b.recovery_at # ""
         /\ b.status = "RESOLVED" => b.recovery_at # "" \/ a.status = "RESOLVED"
<1>1. CASE b = Absorbed(a)
  <2>1. a.occurrence_count + 1 \in Nat /\ clock \in Nat
    BY DEF AlertType, TypeOK
  <2>2. \A k, t \in Nat : LET c == [a EXCEPT !.occurrence_count = k, !.last_seen_at = t]
                           IN  /\ c \in AlertType
                               /\ c.fingerprint = a.fingerprint /\ c.status = a.status
                               /\ c.first_seen_at = a.first_seen_at
                               /\ c.recovery_at = a.recovery_at
    BY DEF AlertType
  <2> QED
    BY <1>1, <2>1, <2>2 DEF Absorbed
<1>2. CASE b = Acknowledged(a)
  BY <1>2 DEF Acknowledged, AlertType, Statuses, Stamps
<1>3. CASE b = Escalated(a)
  <2>1. a.escalation_level + 1 \in Nat
    BY DEF AlertType
  <2>2. \A k \in Nat : LET c == [a EXCEPT !.status = "ESCALATED", !.escalation_level = k]
                        IN  /\ c \in AlertType
                            /\ c.fingerprint = a.fingerprint /\ c.status = "ESCALATED"
                            /\ c.first_seen_at = a.first_seen_at
                            /\ c.recovery_at = a.recovery_at
    BY DEF AlertType, Statuses
  <2> QED
    BY <1>3, <2>1, <2>2 DEF Escalated
<1>4. CASE b = Resolved(a)
  BY <1>4 DEF Resolved, AlertType, Statuses, Stamps
<1> QED
  BY <1>1, <1>2, <1>3, <1>4 DEF Operated

-----------------------------------------------------------------------------
(* Counting *)

\* An event that is being processed has not been reported before.
LEMMA EventIsNew ==
  ASSUME TypeOK, Dated, NEW fp \in Fingerprints
  PROVE  /\ Event(fp) \in [fingerprint : Fingerprints, nth : Nat, at : 0 .. MaxTime]
         /\ Event(fp) \notin reported
         /\ Cardinality(reported) \in Nat
<1>1. Cardinality(reported) \in Nat
  BY FS_CardinalityType DEF Dated
<1>2. Event(fp) \in [fingerprint : Fingerprints, nth : Nat, at : 0 .. MaxTime]
  BY <1>1 DEF Event, TypeOK
<1>3. Event(fp).nth = Cardinality(reported) + 1
  BY DEF Event
<1>4. Event(fp) \notin reported
  BY <1>1, <1>3 DEF Dated, TypeOK
<1> QED
  BY <1>1, <1>2, <1>4

\* What evaluate keeps is what was reported in the window, the new event
\* included: the pruning of the calls before lost nothing that still counts.
LEMMA KeptIsWindow ==
  ASSUME TypeOK, Dated, CountersComplete, NEW fp \in Fingerprints, Count(fp)
  PROVE  Kept(fp) = InWindow(fp, clock)'
<1>1. /\ clock' = clock /\ reported' = reported \cup {Event(fp)}
      /\ clock \in Nat /\ Window[fp[1]] \in Nat \ {0}
      /\ Event(fp).fingerprint = fp /\ Event(fp).at = clock
  BY EngineAssumption DEF Count, Event, TypeOK, Fingerprints
<1>2. ASSUME NEW e \in Kept(fp)
      PROVE  e \in InWindow(fp, clock)'
  <2>1. CASE e \in counters[fp]
    <3>1. e \in reported /\ e.fingerprint = fp /\ e.at <= clock
      BY <2>1 DEF TypeOK, CountersComplete, Dated
    <3> QED
      BY <1>1, <1>2, <3>1 DEF Kept, InWindow
  <2>2. CASE e = Event(fp)
    BY <1>1, <1>2, <2>2 DEF Kept, InWindow
  <2> QED
    BY <1>2, <2>1, <2>2 DEF Kept
<1>3. ASSUME NEW e \in InWindow(fp, clock)'
      PROVE  e \in Kept(fp)
  <2>1. e.fingerprint = fp /\ e.at <= clock /\ clock - e.at < Window[fp[1]]
        /\ e \in reported \cup {Event(fp)}
    BY <1>1, <1>3 DEF InWindow
  <2>2. e \in reported => e \in counters[fp]
    BY <2>1 DEF InWindow, CountersComplete
  <2> QED
    BY <2>1, <2>2 DEF Kept
<1> QED
  BY <1>2, <1>3

\* A set of reported events is finite and has a number of elements.
LEMMA KeptFinite ==
  ASSUME TypeOK, Dated, NEW fp \in Fingerprints
  PROVE  IsFiniteSet(Kept(fp)) /\ Cardinality(Kept(fp)) \in Nat
<1>1. counters[fp] \subseteq reported
  BY DEF TypeOK
<1>2. IsFiniteSet(reported \cup {Event(fp)})
  BY FS_AddElement DEF Dated
<1>3. Kept(fp) \subseteq reported \cup {Event(fp)}
  BY <1>1 DEF Kept
<1> QED
  BY <1>2, <1>3, FS_Subset, FS_CardinalityType

-----------------------------------------------------------------------------
(* Types and dates *)

\* Every step keeps the types.
LEMMA NextTypes ==
  ASSUME TypeOK, Dated, [Next]_vars
  PROVE  TypeOK'
<1>1. CASE UNCHANGED vars
  BY <1>1 DEF vars, TypeOK
<1>2. ASSUME NEW fp \in Fingerprints, Process(fp)
      PROVE  TypeOK'
  <2>1. Count(fp)
    BY <1>2 DEF Process, BelowThreshold, Absorb, Raise
  <2>2. reported' \subseteq [fingerprint : Fingerprints, nth : Nat, at : 0 .. MaxTime]
    BY <2>1, EventIsNew DEF Count, TypeOK
  <2>3. counters' \in [Fingerprints -> SUBSET reported']
    <3>1. counters \in [Fingerprints -> SUBSET reported'] /\ Kept(fp) \in SUBSET reported'
      BY <2>1 DEF Count, TypeOK, Kept
    <3> QED
      BY <2>1, <3>1 DEF Count
  <2>4. alerts' \in Seq(AlertType)
    <3>1. CASE BelowThreshold(fp)
      BY <3>1 DEF BelowThreshold, TypeOK
    <3>2. CASE Absorb(fp)
      <4>1. PICK n \in DOMAIN alerts : alerts' = [alerts EXCEPT ![n] = Absorbed(alerts[n])]
        BY <3>2 DEF Absorb, Active
      <4>2. alerts[n] \in AlertType
        BY DEF TypeOK
      <4>3. Absorbed(alerts[n]) \in AlertType
        BY <4>2, ChangesAreAlerts
      <4> QED
        BY <4>1, <4>3 DEF TypeOK
    <3>3. CASE Raise(fp)
      <4>1. NewAlert(fp) \in AlertType
        <5>1. Cardinality(Kept(fp)) \in Nat /\ clock \in Nat
          BY KeptFinite DEF TypeOK
        <5> QED
          BY <5>1 DEF NewAlert, AlertType, Statuses, Stamps
      <4> QED
        BY <3>3, <4>1 DEF Raise, TypeOK
    <3> QED
      BY <1>2, <3>1, <3>2, <3>3 DEF Process
  <2> QED
    BY <2>1, <2>2, <2>3, <2>4 DEF Count, TypeOK
<1>3. ASSUME NEW n \in DOMAIN alerts, Operate(n)
      PROVE  TypeOK'
  <2>1. PICK a \in Operated(alerts[n]) : alerts' = [alerts EXCEPT ![n] = a]
    BY <1>3, OperateChanges
  <2>2. alerts[n] \in AlertType
    BY DEF TypeOK
  <2>3. a \in AlertType
    BY <2>1, <2>2, ChangesAreAlerts
  <2>4. alerts' \in Seq(AlertType)
    BY <2>1, <2>3 DEF TypeOK
  <2> QED
    BY <1>3, <2>4, OperateChanges DEF TypeOK
<1>4. CASE Tick
  BY <1>4, EngineAssumption DEF Tick, TypeOK
<1> QED
  BY <1>1, <1>2, <1>3, <1>4 DEF Next, Process, Operate

-----------------------------------------------------------------------------
(* Alerts *)

\* What a step does to the alerts: those there are keep their fingerprint, their
\* first time and a stamp once set, and become resolved only with one; a new one
\* comes last, from an event that found no active alert.
LEMMA AlertsEvolve ==
  ASSUME TypeOK, Dated, [Next]_vars
  PROVE  /\ DOMAIN alerts \subseteq DOMAIN alerts'
         /\ \A n \in DOMAIN alerts :
              /\ alerts'[n].fingerprint = alerts[n].fingerprint
              /\ alerts'[n].first_seen_at = alerts[n].first_seen_at
              /\ alerts[n].recovery_at # "" => alerts'[n].recovery_at # ""
              /\ alerts'[n].status = "RESOLVED" =>
                   alerts'[n].recovery_at # "" \/ alerts[n].status = "RESOLVED"
         /\ \A n \in DOMAIN alerts' \ DOMAIN alerts :
              /\ \A m \in DOMAIN alerts : m < n
              /\ DOMAIN alerts' = DOMAIN alerts \cup {n}
              /\ \E fp \in Fingerprints : Raise(fp) /\ alerts'[n] = NewAlert(fp)
<1> DEFINE Goal == /\ DOMAIN alerts \subseteq DOMAIN alerts'
                   /\ \A n \in DOMAIN alerts :
                        /\ alerts'[n].fingerprint = alerts[n].fingerprint
                        /\ alerts'[n].first_seen_at = alerts[n].first_seen_at
                        /\ alerts[n].recovery_at # "" => alerts'[n].recovery_at # ""
                        /\ alerts'[n].status = "RESOLVED" =>
                             alerts'[n].recovery_at # "" \/ alerts[n].status = "RESOLVED"
                   /\ \A n \in DOMAIN alerts' \ DOMAIN alerts :
                        /\ \A m \in DOMAIN alerts : m < n
                        /\ DOMAIN alerts' = DOMAIN alerts \cup {n}
                        /\ \E fp \in Fingerprints : Raise(fp) /\ alerts'[n] = NewAlert(fp)
<1>1. ASSUME UNCHANGED alerts
      PROVE  Goal
  BY <1>1
<1>2. ASSUME NEW k \in DOMAIN alerts,
             NEW b \in {Absorbed(alerts[k])} \cup Operated(alerts[k]),
             alerts' = [alerts EXCEPT ![k] = b]
      PROVE  Goal
  <2>1. alerts[k] \in AlertType
    BY DEF TypeOK
  <2>2. /\ b.fingerprint = alerts[k].fingerprint
        /\ b.first_seen_at = alerts[k].first_seen_at
        /\ alerts[k].recovery_at # "" => b.recovery_at # ""
        /\ b.status = "RESOLVED" => b.recovery_at # "" \/ alerts[k].status = "RESOLVED"
    BY <2>1, ChangesAreAlerts
  <2>3. DOMAIN alerts' = DOMAIN alerts
        /\ \A n \in DOMAIN alerts : alerts'[n] = IF n = k THEN b ELSE alerts[n]
    BY <1>2
  <2> QED
    BY <2>2, <2>3
<1>3. ASSUME NEW fp \in Fingerprints, Raise(fp)
      PROVE  Goal
  <2>1. /\ Len(alerts) \in Nat /\ DOMAIN alerts = 1 .. Len(alerts)
        /\ DOMAIN alerts' = 1 .. Len(alerts) + 1
        /\ \A n \in DOMAIN alerts : alerts'[n] = alerts[n]
        /\ alerts'[Len(alerts) + 1] = NewAlert(fp)
    BY <1>3 DEF Raise, TypeOK
  <2>2. \A n \in DOMAIN alerts' \ DOMAIN alerts : n = Len(alerts) + 1
    BY <2>1
  <2>3. DOMAIN alerts' = DOMAIN alerts \cup {Len(alerts) + 1}
        /\ \A m \in DOMAIN alerts : m < Len(alerts) + 1
    BY <2>1
  <2> QED
    BY <1>3, <2>1, <2>2, <2>3
<1>4. ASSUME NEW fp \in Fingerprints, Absorb(fp)
      PROVE  Goal
  <2>1. PICK k \in DOMAIN alerts : alerts' = [alerts EXCEPT ![k] = Absorbed(alerts[k])]
    BY <1>4 DEF Absorb, Active
  <2> QED
    BY <1>2, <2>1
<1>5. ASSUME NEW k \in DOMAIN alerts, Operate(k)
      PROVE  Goal
  <2>1. PICK b \in Operated(alerts[k]) : alerts' = [alerts EXCEPT ![k] = b]
    BY <1>5, OperateChanges
  <2> QED
    BY <1>2, <2>1
<1>6. CASE UNCHANGED vars
  BY <1>1, <1>6 DEF vars
<1>7. CASE Tick
  BY <1>1, <1>7 DEF Tick
<1>8. ASSUME NEW fp \in Fingerprints, BelowThreshold(fp)
      PROVE  Goal
  BY <1>1, <1>8 DEF BelowThreshold
<1>9. Goal
  BY <1>3, <1>4, <1>5, <1>6, <1>7, <1>8 DEF Next, Operate
<1> QED
  BY <1>9

\* The fields of a new alert the invariants look at.
LEMMA NewAlertFields ==
  \A fp : /\ NewAlert(fp).fingerprint = fp
         /\ NewAlert(fp).status = "OPEN"
         /\ NewAlert(fp).first_seen_at = clock
  BY DEF NewAlert

\* An alert is resolved by Resolve alone, which stamps it.
LEMMA NextStamped ==
  ASSUME TypeOK, Dated, ResolvedIsStamped, [Next]_vars
  PROVE  ResolvedIsStamped'
<1>1. alerts' \in Seq(AlertType)
  BY NextTypes DEF TypeOK
<1>2. ASSUME NEW n \in DOMAIN alerts', alerts'[n].status \in Inactive
      PROVE  alerts'[n].recovery_at # ""
  <2>1. alerts'[n].status = "RESOLVED"
    <3>1. alerts'[n] \in AlertType
      BY <1>1
    <3> QED
      BY <1>2, <3>1 DEF AlertType, Statuses, Inactive
  <2>2. CASE n \in DOMAIN alerts
    BY <2>1, <2>2, AlertsEvolve DEF ResolvedIsStamped, Inactive
  <2>3. CASE n \notin DOMAIN alerts
    <3>1. PICK fp \in Fingerprints : alerts'[n] = NewAlert(fp)
      BY <2>3, AlertsEvolve
    <3> QED
      BY <2>1, <3>1, NewAlertFields
  <2> QED
    BY <2>2, <2>3
<1> QED
  BY <1>2 DEF ResolvedIsStamped

\* A second alert of a fingerprint finds the first ones inactive, so stamped, and
\* a stamp stays.
LEMMA NextDedup ==
  ASSUME TypeOK, Dated, ResolvedIsStamped, DedupUntilResolved, [Next]_vars
  PROVE  DedupUntilResolved'
<1>1. ASSUME NEW m \in DOMAIN alerts', NEW n \in DOMAIN alerts',
             alerts'[m].fingerprint = alerts'[n].fingerprint, m < n
      PROVE  alerts'[m].recovery_at # ""
  <2>1. DOMAIN alerts = 1 .. Len(alerts) /\ Len(alerts) \in Nat
        /\ DOMAIN alerts' \subseteq Nat
    BY NextTypes DEF TypeOK
  <2>2. CASE n \in DOMAIN alerts
    <3>1. m \in DOMAIN alerts
      BY <1>1, <2>1, <2>2
    <3> QED
      BY <1>1, <2>2, <3>1, AlertsEvolve DEF DedupUntilResolved
  <2>3. CASE n \notin DOMAIN alerts
    <3>1. PICK fp \in Fingerprints : Raise(fp) /\ alerts'[n] = NewAlert(fp)
      BY <2>3, AlertsEvolve
    <3>2. m \in DOMAIN alerts
      <4>1. DOMAIN alerts' = DOMAIN alerts \cup {n}
        BY <2>3, AlertsEvolve
      <4>2. m # n
        BY <1>1, <2>1
      <4> QED
        BY <4>1, <4>2
    <3>3. alerts[m].fingerprint = fp
      <4>1. alerts'[m].fingerprint = alerts[m].fingerprint
        BY <3>2, AlertsEvolve
      <4> QED
        BY <1>1, <3>1, <4>1, NewAlertFields
    <3>4. m \notin Active(fp)
      BY <3>1 DEF Raise
    <3>5. alerts[m].recovery_at # ""
      BY <3>2, <3>3, <3>4 DEF Active, ResolvedIsStamped
    <3> QED
      BY <3>2, <3>5, AlertsEvolve
  <2> QED
    BY <2>2, <2>3
<1> QED
  BY <1>1 DEF DedupUntilResolved

-----------------------------------------------------------------------------
(* Events and their window *)

\* What a step does to the history: one event is processed, or time passes, or
\* neither.
LEMMA HistoryEvolves ==
  ASSUME TypeOK, Dated, [Next]_vars
  PROVE  \/ /\ UNCHANGED <<reported, counters>> /\ clock' \in Nat /\ clock <= clock'
            /\ \A fp \in Fingerprints : ~Raise(fp)
         \/ \E fp \in Fingerprints : Count(fp) /\ Process(fp)
<1>1. clock \in Nat
  BY EngineAssumption DEF TypeOK
<1>2. CASE UNCHANGED vars
  <2>1. \A fp \in Fingerprints : ~Count(fp)
    BY <1>2, EventIsNew DEF vars, Count
  <2> QED
    BY <1>1, <1>2, <2>1 DEF vars, Raise
<1>3. CASE Tick
  <2>1. \A fp \in Fingerprints : ~Count(fp)
    BY <1>1, <1>3 DEF Tick, Count
  <2> QED
    BY <1>1, <1>3, <2>1 DEF Tick, Raise
<1>4. ASSUME NEW n \in DOMAIN alerts, Operate(n)
      PROVE  /\ UNCHANGED <<reported, counters>> /\ clock' \in Nat /\ clock <= clock'
             /\ \A fp \in Fingerprints : ~Raise(fp)
  <2>1. UNCHANGED <<clock, counters, reported>>
    BY <1>4, OperateChanges
  <2>2. \A fp \in Fingerprints : ~Count(fp)
    BY <2>1, EventIsNew DEF Count
  <2> QED
    BY <1>1, <2>1, <2>2 DEF Raise
<1>5. ASSUME NEW fp \in Fingerprints, Process(fp)
      PROVE  Count(fp)
  BY <1>5 DEF Process, BelowThreshold, Absorb, Raise
<1> QED
  BY <1>2, <1>3, <1>4, <1>5 DEF Next, Operate, Process

\* The history stays finite, numbered and dated no later than the clock.
LEMMA NextDated ==
  ASSUME TypeOK, Dated, [Next]_vars
  PROVE  Dated'
<1>1. clock \in Nat /\ clock' \in Nat /\ clock <= clock'
  <2>1. clock \in Nat /\ clock' \in Nat
    BY NextTypes, EngineAssumption DEF TypeOK
  <2> QED
    BY <2>1, HistoryEvolves DEF Count
<1>2. /\ IsFiniteSet(reported')
      /\ \A e \in reported' : e.at <= clock' /\ e.nth <= Cardinality(reported')
  <2>1. CASE UNCHANGED <<reported, counters>>
    BY <1>1, <2>1 DEF Dated, TypeOK
  <2>2. ASSUME NEW fp \in Fingerprints, Count(fp)
        PROVE  /\ IsFiniteSet(reported')
               /\ \A e \in reported' : e.at <= clock' /\ e.nth <= Cardinality(reported')
    <3>1. reported' = reported \cup {Event(fp)} /\ clock' = clock
      BY <2>2 DEF Count
    <3>2. /\ IsFiniteSet(reported')
          /\ Cardinality(reported') = Cardinality(reported) + 1
          /\ Cardinality(reported) \in Nat
      BY <3>1, EventIsNew, FS_AddElement DEF Dated
    <3>3. Event(fp).at = clock /\ Event(fp).nth = Cardinality(reported) + 1
      BY DEF Event
    <3>4. \A e \in reported : /\ e.at <= clock /\ e.nth <= Cardinality(reported)
                              /\ e.nth \in Nat
      BY DEF Dated, TypeOK
    <3>5. ASSUME NEW e \in reported'
          PROVE  e.at <= clock' /\ e.nth <= Cardinality(reported')
      <4>1. CASE e \in reported
        BY <1>1, <3>1, <3>2, <3>4, <4>1
      <4>2. CASE e = Event(fp)
        BY <1>1, <3>1, <3>2, <3>3, <4>2
      <4> QED
        BY <3>1, <4>1, <4>2
    <3> QED
      BY <3>2, <3>5
  <2> QED
    BY <2>1, <2>2, HistoryEvolves
<1>3. \A n \in DOMAIN alerts' : alerts'[n].first_seen_at <= clock'
  <2>1. ASSUME NEW n \in DOMAIN alerts
        PROVE  alerts'[n].first_seen_at <= clock'
    <3>1. alerts[n] \in AlertType
      BY DEF TypeOK
    <3>2. alerts[n].first_seen_at \in Nat /\ alerts[n].first_seen_at <= clock
      BY <3>1 DEF AlertType, Dated
    <3>3. alerts'[n].first_seen_at = alerts[n].first_seen_at
      BY AlertsEvolve
    <3> QED
      BY <1>1, <3>2, <3>3
  <2>2. ASSUME NEW n \in DOMAIN alerts' \ DOMAIN alerts
        PROVE  alerts'[n].first_seen_at <= clock'
    <3>1. \E fp \in Fingerprints : alerts'[n] = NewAlert(fp)
      BY <2>2, AlertsEvolve
    <3> QED
      BY <1>1, <3>1, NewAlertFields
  <2> QED
    BY <2>1, <2>2
<1> QED
  BY <1>2, <1>3 DEF Dated

\* The counters stay complete: the window only moves forward.
LEMMA NextCountersComplete ==
  ASSUME TypeOK, Dated, CountersComplete, [Next]_vars
  PROVE  CountersComplete'
<1>1. CASE /\ UNCHANGED <<reported, counters>> /\ clock' \in Nat /\ clock <= clock'
  <2>1. ASSUME NEW fp \in Fingerprints, NEW e \in InWindow(fp, clock)'
        PROVE  e \in InWindow(fp, clock)
    <3>1. /\ e \in reported /\ e.fingerprint = fp /\ clock' - e.at < Window[fp[1]]
          /\ clock \in Nat /\ Window[fp[1]] \in Nat
      BY <1>1, <2>1, EngineAssumption DEF InWindow, TypeOK, Fingerprints
    <3>2. e.at \in Nat /\ e.at <= clock
      BY <3>1 DEF TypeOK, Dated
    <3>3. clock - e.at < Window[fp[1]]
      BY <1>1, <3>1, <3>2
    <3> QED
      BY <3>1, <3>2, <3>3 DEF InWindow
  <2> QED
    BY <1>1, <2>1 DEF CountersComplete
<1>2. ASSUME NEW gp \in Fingerprints, Count(gp)
      PROVE  CountersComplete'
  <2>1. /\ counters' = [counters EXCEPT ![gp] = Kept(gp)] /\ counters' [gp] = Kept(gp)
        /\ reported' = reported \cup {Event(gp)} /\ clock' = clock
    BY <1>2 DEF Count, TypeOK
  <2>2. Kept(gp) = InWindow(gp, clock)'
    BY <1>2, KeptIsWindow
  <2>3. ASSUME NEW fp \in Fingerprints, fp # gp
        PROVE  InWindow(fp, clock)' = InWindow(fp, clock) /\ counters'[fp] = counters[fp]
    BY <2>1, <2>3 DEF InWindow, Event, TypeOK
  <2>4. \A e \in Kept(gp) : e.fingerprint = gp
    BY <2>2 DEF InWindow
  <2> QED
    BY <2>1, <2>2, <2>3, <2>4 DEF CountersComplete
<1> QED
  BY <1>1, <1>2, HistoryEvolves

\* An alert stays justified, as its events stay reported; a new one is, as what
\* was kept is what its window holds.
LEMMA NextJustified ==
  ASSUME TypeOK, Dated, CountersComplete, AlertJustified, [Next]_vars
  PROVE  AlertJustified'
<1>1. IsFiniteSet(reported') /\ reported \subseteq reported'
  BY NextDated, HistoryEvolves DEF Dated, Count
<1>2. ASSUME NEW n \in DOMAIN alerts
      PROVE  Cardinality(InWindow(alerts[n].fingerprint, alerts[n].first_seen_at)')
               >= Threshold[alerts'[n].fingerprint[1]]
  <2> DEFINE W == InWindow(alerts[n].fingerprint, alerts[n].first_seen_at)
  <2>1. /\ alerts'[n].fingerprint = alerts[n].fingerprint
        /\ alerts'[n].first_seen_at = alerts[n].first_seen_at
    BY AlertsEvolve
  <2>2. W \subseteq W'
    BY <1>1, <2>1 DEF InWindow
  <2>3. IsFiniteSet(W')
    BY <1>1, FS_Subset DEF InWindow
  <2>4. Cardinality(W) \in Nat /\ Cardinality(W') \in Nat /\ Cardinality(W) <= Cardinality(W')
    BY <2>2, <2>3, FS_Subset, FS_CardinalityType
  <2>5. Threshold[alerts[n].fingerprint[1]] \in Nat
    <3>1. alerts[n] \in AlertType
      BY DEF TypeOK
    <3> QED
      BY <3>1, EngineAssumption DEF AlertType, Fingerprints
  <2>6. Cardinality(W) >= Threshold[alerts[n].fingerprint[1]]
    BY DEF AlertJustified
  <2> QED
    BY <2>1, <2>4, <2>5, <2>6
<1>3. ASSUME NEW n \in DOMAIN alerts' \ DOMAIN alerts
      PROVE  Cardinality(InWindow(alerts[n].fingerprint, alerts[n].first_seen_at)')
               >= Threshold[alerts'[n].fingerprint[1]]
  <2>1. PICK fp \in Fingerprints : Raise(fp) /\ alerts'[n] = NewAlert(fp)
    BY <1>3, AlertsEvolve
  <2>2. alerts'[n].fingerprint = fp /\ alerts'[n].first_seen_at = clock /\ clock' = clock
    BY <2>1, NewAlertFields DEF Raise, Count
  <2>3. InWindow(alerts[n].fingerprint, alerts[n].first_seen_at)' = InWindow(fp, clock)'
    BY <2>2 DEF InWindow
  <2>4. Kept(fp) = InWindow(fp, clock)'
    BY <2>1, KeptIsWindow DEF Raise
  <2>5. Cardinality(Kept(fp)) >= Threshold[fp[1]]
    BY <2>1 DEF Raise, Triggered
  <2> QED
    BY <2>2, <2>3, <2>4, <2>5
<1> QED
  BY <1>2, <1>3 DEF AlertJustified

-----------------------------------------------------------------------------
(* Theorems *)

\* The inductive invariant holds initially ...
LEMMA InitIInv == Init => IInv
<1> SUFFICES ASSUME Init PROVE IInv
  OBVIOUS
<1>1. TypeOK
  BY EngineAssumption DEF Init, TypeOK
<1>2. IsFiniteSet({})
  BY FS_EmptySet
<1> QED
  BY <1>1, <1>2 DEF Init, IInv, Dated, CountersComplete, ResolvedIsStamped,
                    DedupUntilResolved, AlertJustified, InWindow

\* ... and over every step.
LEMMA NextIInv == IInv /\ [Next]_vars => IInv'
  BY NextTypes, NextDated, NextCountersComplete, NextStamped, NextDedup, NextJustified
     DEF IInv

\* So it always holds.
THEOREM Invariance == Spec => []IInv
  BY InitIInv, NextIInv, PTL DEF Spec

\* Every variable keeps its type.
THEOREM TypeCorrect == Spec => []TypeOK
<1>1. IInv => TypeOK
  BY DEF IInv
<1> QED
  BY <1>1, Invariance, PTL

\* For any rules, thresholds and windows, an alert is raised only when the events
\* reported in its window had reached the threshold of its rule.
THEOREM AlertsAreJustified == Spec => []AlertJustified
<1>1. IInv => AlertJustified
  BY DEF IInv
<1> QED
  BY <1>1, Invariance, PTL

\* A fingerprint gets a second alert only once the first has been resolved.
THEOREM DuplicatesAreAbsorbed == Spec => []DedupUntilResolved
<1>1. IInv => DedupUntilResolved
  BY DEF IInv
<1> QED
  BY <1>1, Invariance, PTL

\* An event that brings its window to the threshold always leaves an active alert.
THEOREM NoAlertIsMissed == Spec => AlertAtThreshold
<1>1. ASSUME IInv, [Next]_vars,
             NEW fp \in Fingerprints,
             reported' = reported \cup {Event(fp)}, reported' # reported,
             Cardinality(InWindow(fp, clock)') >= Threshold[fp[1]]
      PROVE  Active(fp)' # {}
  <2>1. TypeOK /\ Dated /\ CountersComplete
    BY <1>1 DEF IInv
  <2>2. PICK gp \in Fingerprints : Count(gp) /\ Process(gp)
    BY <1>1, <2>1, HistoryEvolves
  <2>3. gp = fp
    <3>1. Event(gp) \in reported' /\ Event(gp) \notin reported
      BY <2>1, <2>2, EventIsNew DEF Count
    <3>2. Event(gp) = Event(fp)
      BY <1>1, <3>1
    <3> QED
      BY <3>2 DEF Event
  <2>4. Kept(fp) = InWindow(fp, clock)'
    BY <2>1, <2>2, <2>3, KeptIsWindow
  <2>5. Triggered(fp)
    BY <1>1, <2>4 DEF Triggered
  <2>6. CASE Absorb(fp)
    <3>1. PICK k \in Active(fp) : alerts' = [alerts EXCEPT ![k] = Absorbed(alerts[k])]
      BY <2>6 DEF Absorb
    <3>2. /\ k \in DOMAIN alerts /\ alerts[k].fingerprint = fp
          /\ alerts[k].status \notin Inactive
      BY DEF Active
    <3>3. alerts[k] \in AlertType
      BY <2>1, <3>2 DEF TypeOK
    <3>4. alerts'[k] = Absorbed(alerts[k]) /\ k \in DOMAIN alerts'
      BY <3>1, <3>2
    <3>5. /\ Absorbed(alerts[k]).fingerprint = fp
          /\ Absorbed(alerts[k]).status = alerts[k].status
      BY <3>2, <3>3 DEF Absorbed, AlertType
    <3> QED
      BY <3>2, <3>4, <3>5 DEF Active
  <2>7. CASE Raise(fp)
    <3>1. alerts' = Append(alerts, NewAlert(fp)) /\ alerts \in Seq(AlertType)
      BY <2>1, <2>7 DEF Raise, TypeOK
    <3>2. /\ Len(alerts) + 1 \in DOMAIN alerts'
          /\ alerts'[Len(alerts) + 1] = NewAlert(fp)
      BY <3>1
    <3>3. NewAlert(fp).status \notin Inactive
      BY NewAlertFields DEF Inactive
    <3> QED
      BY <3>2, <3>3, NewAlertFields DEF Active
  <2> QED
    BY <2>2, <2>3, <2>5, <2>6, <2>7 DEF Process, BelowThreshold
<1>2. IInv /\ [Next]_vars =>
        [ \A fp \in Fingerprints :
            /\ reported' = reported \cup {Event(fp)} /\ reported' # reported
            /\ Cardinality(InWindow(fp, clock)') >= Threshold[fp[1]]
            => Active(fp)' # {} ]_vars
  BY <1>1
<1> QED
  BY <1>2, Invariance, PTL DEF Spec, AlertAtThreshold
=============================================================================
