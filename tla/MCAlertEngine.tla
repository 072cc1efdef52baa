--------------------------- MODULE MCAlertEngine ----------------------------
(***************************************************************************)
(* Instances of AlertEngine for TLC: a CRITICAL rule that alerts on every  *)
(* event and a HIGH one that wants two events within two ticks, as the     *)
(* rules registered at the end of alert_engine.py differ.                  *)
(***************************************************************************)
EXTENDS AlertEngine, TLC

CONSTANTS mismatch, spike

MCSeverity == (mismatch :> "CRITICAL") @@ (spike :> "HIGH")
MCThreshold == (mismatch :> 1) @@ (spike :> 2)
MCWindow == [r \in Rules |-> 2]
=============================================================================
