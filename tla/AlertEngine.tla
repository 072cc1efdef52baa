---------------------------- MODULE AlertEngine -----------------------------
(***************************************************************************)
(* The alert engine of src/backend/hos4c/alert_engine.py: events counted   *)
(* per fingerprint in a sliding window, alerts raised at the threshold of  *)
(* their rule, later events folded into the alert that is still active,    *)
(* and the operators' actions on alerts.  Alerts are never removed, so     *)
(* _active_alerts is a sequence in insertion order.                        *)
(***************************************************************************)
EXTENDS Naturals, Sequences, FiniteSets

CONSTANTS Rules,        \* rule ids
          Sources,      \* source components (with their failure codes)
          Severity,     \* of each rule
          Threshold,    \* of each rule: events in the window that raise an alert
          Window,       \* of each rule, in units of the clock
          AckRoles,     \* roles of those who acknowledge
          MaxTime,      \* bound on the clock
          MaxEvents     \* bound on the events reported

Severities == {"CRITICAL", "HIGH", "MEDIUM", "LOW", "INFORMATIONAL"}

ASSUME EngineAssumption ==
  /\ Severity \in [Rules -> Severities]
  /\ Threshold \in [Rules -> Nat \ {0}]
  /\ Window \in [Rules -> Nat \ {0}]
  /\ MaxTime \in Nat /\ MaxEvents \in Nat

VARIABLES clock,       \* time.time()
          counters,    \* _counters of the rules: the times kept per fingerprint,
                       \* each as the event it was taken for
          alerts,      \* _active_alerts
          reported     \* history: every event reported, with its time

vars == <<clock, counters, alerts, reported>>

\* alert_fingerprint: of the rule, the source and the failure code; SHA-256 is
\* taken to be injective (its first 64 bits are kept).
Fingerprints == Rules \X Sources

Statuses == {"OPEN", "ACKNOWLEDGED", "ESCALATED", "RESOLVED"}
Inactive == {"RESOLVED", "SUPPRESSED"}

\* acknowledgment_at and recovery_at are empty until they are stamped.
Stamps == {"", "stamped"}

AlertType ==
  [fingerprint : Fingerprints, status : Statuses, occurrence_count : Nat,
   first_seen_at : Nat, last_seen_at : Nat, escalation_level : Nat,
   acknowledgment_at : Stamps, recovery_at : Stamps]

-----------------------------------------------------------------------------
(* Events *)

\* The event being processed.
Event(fp) == [fingerprint |-> fp, nth |-> Cardinality(reported) + 1, at |-> clock]

\* Mutant: the boundary of the window is inclusive.
KeptInclusive(fp) ==
  {e \in counters[fp] \cup {Event(fp)} : clock - e.at <= Window[fp[1]]}

\* What evaluate keeps: this event and those still in the window.
Kept(fp) ==
  {e \in counters[fp] \cup {Event(fp)} : clock - e.at < Window[fp[1]]}

\* Mutant: one event more than the threshold.
BeyondThreshold(fp) == Cardinality(Kept(fp)) > Threshold[fp[1]]

Triggered(fp) == Cardinality(Kept(fp)) >= Threshold[fp[1]]

\* Mutant: only an alert nobody has acted on absorbs events.
StillOpen(fp) == {n \in DOMAIN alerts : alerts[n].fingerprint = fp /\ alerts[n].status = "OPEN"}

\* The alerts an event of fp is a duplicate of.
Active(fp) ==
  {n \in DOMAIN alerts : alerts[n].fingerprint = fp /\ alerts[n].status \notin Inactive}

\* Mutant: the status stays the one _create_alert gives.
NewAlertUnopened(fp) ==
  [fingerprint |-> fp, status |-> "NEW", occurrence_count |-> Cardinality(Kept(fp)),
   first_seen_at |-> clock, last_seen_at |-> clock, escalation_level |-> 0,
   acknowledgment_at |-> "", recovery_at |-> ""]

NewAlert(fp) ==
  [fingerprint |-> fp, status |-> "OPEN", occurrence_count |-> Cardinality(Kept(fp)),
   first_seen_at |-> clock, last_seen_at |-> clock, escalation_level |-> 0,
   acknowledgment_at |-> "", recovery_at |-> ""]

\* What every call of process_event does first.
Count(fp) ==
  /\ Cardinality(reported) < MaxEvents
  /\ reported' = reported \cup {Event(fp)}
  /\ counters' = [counters EXCEPT ![fp] = Kept(fp)]
  /\ UNCHANGED clock

BelowThreshold(fp) ==
  /\ Count(fp)
  /\ ~Triggered(fp)
  /\ UNCHANGED alerts

Absorbed(a) ==
  [a EXCEPT !.occurrence_count = a.occurrence_count + 1, !.last_seen_at = clock]

\* The first active alert of the fingerprint takes the event.
Absorb(fp) ==
  /\ Count(fp)
  /\ Triggered(fp)
  /\ \E n \in Active(fp) :
       /\ \A m \in Active(fp) : n <= m
       /\ alerts' = [alerts EXCEPT ![n] = Absorbed(alerts[n])]

Raise(fp) ==
  /\ Count(fp)
  /\ Triggered(fp)
  /\ Active(fp) = {}
  /\ alerts' = Append(alerts, NewAlert(fp))

-----------------------------------------------------------------------------
(* Operators: any alert may be acted on, whatever its status *)

Acknowledged(a) == [a EXCEPT !.status = "ACKNOWLEDGED", !.acknowledgment_at = "stamped"]

Escalated(a) ==
  [a EXCEPT !.status = "ESCALATED", !.escalation_level = a.escalation_level + 1]

Resolved(a) == [a EXCEPT !.status = "RESOLVED", !.recovery_at = "stamped"]

MayAcknowledge(n, role) ==
  /\ Severity[alerts[n].fingerprint[1]] = "CRITICAL" => role = "AMJAD_OWNER"
  /\ role # "HERMES_ASSISTANT"

Acknowledge(n, role) ==
  /\ MayAcknowledge(n, role)
  /\ alerts' = [alerts EXCEPT ![n] = Acknowledged(alerts[n])]
  /\ UNCHANGED <<clock, counters, reported>>

\* (Levels count the calls; the model stops at 2.)
Escalate(n) ==
  /\ alerts[n].escalation_level < 2
  /\ alerts' = [alerts EXCEPT ![n] = Escalated(alerts[n])]
  /\ UNCHANGED <<clock, counters, reported>>

Resolve(n) ==
  /\ alerts' = [alerts EXCEPT ![n] = Resolved(alerts[n])]
  /\ UNCHANGED <<clock, counters, reported>>

Tick ==
  /\ clock < MaxTime
  /\ clock' = clock + 1
  /\ UNCHANGED <<counters, alerts, reported>>

-----------------------------------------------------------------------------
Init ==
  /\ clock = 0
  /\ counters = [fp \in Fingerprints |-> {}]
  /\ alerts = <<>>
  /\ reported = {}

Next ==
  \/ \E fp \in Fingerprints : BelowThreshold(fp) \/ Absorb(fp) \/ Raise(fp)
  \/ \E n \in DOMAIN alerts :
       \/ \E role \in AckRoles : Acknowledge(n, role)
       \/ Escalate(n) \/ Resolve(n)
  \/ Tick

Spec == Init /\ [][Next]_vars

-----------------------------------------------------------------------------
(* Properties *)

TypeOK ==
  /\ clock \in 0 .. MaxTime
  /\ counters \in [Fingerprints -> SUBSET reported]
  /\ alerts \in Seq(AlertType)
  /\ reported \subseteq [fingerprint : Fingerprints, nth : Nat, at : 0 .. MaxTime]

\* The events of fp reported in the window that ends at time t.
InWindow(fp, t) ==
  {e \in reported : e.fingerprint = fp /\ e.at <= t /\ t - e.at < Window[fp[1]]}

\* No alert is missed: an event that makes the events of its window reach the
\* threshold leaves an active alert of its fingerprint, whatever the pruning of
\* earlier calls, resolutions and other fingerprints did before it.
AlertAtThreshold ==
  [][ \A fp \in Fingerprints :
        /\ reported' = reported \cup {Event(fp)} /\ reported' # reported
        /\ Cardinality(InWindow(fp, clock)') >= Threshold[fp[1]]
        => Active(fp)' # {} ]_vars

\* No alert is raised for nothing: when it was first seen the events of its
\* window had reached the threshold.
AlertJustified ==
  \A n \in DOMAIN alerts :
    Cardinality(InWindow(alerts[n].fingerprint, alerts[n].first_seen_at))
      >= Threshold[alerts[n].fingerprint[1]]

\* A fingerprint gets a second alert only after the first has been resolved once,
\* acknowledged and escalated alerts included.
DedupUntilResolved ==
  \A m, n \in DOMAIN alerts :
     alerts[m].fingerprint = alerts[n].fingerprint /\ m < n => alerts[m].recovery_at # ""

-----------------------------------------------------------------------------
(* What makes them inductive *)

\* A resolved alert has been stamped.
ResolvedIsStamped ==
  \A n \in DOMAIN alerts : alerts[n].status \in Inactive => alerts[n].recovery_at # ""

\* The counters have every event still in its window and none of another
\* fingerprint: what was pruned never comes back into the window.
CountersComplete ==
  \A fp \in Fingerprints :
     /\ \A e \in counters[fp] : e.fingerprint = fp
     /\ InWindow(fp, clock) \subseteq counters[fp]

\* Nothing is dated after the clock, and the events are numbered 1, 2, ...
Dated ==
  /\ IsFiniteSet(reported)
  /\ \A e \in reported : e.at <= clock /\ e.nth <= Cardinality(reported)
  /\ \A n \in DOMAIN alerts : alerts[n].first_seen_at <= clock

IInv ==
  /\ TypeOK
  /\ Dated
  /\ CountersComplete
  /\ ResolvedIsStamped
  /\ DedupUntilResolved
  /\ AlertJustified
=============================================================================
