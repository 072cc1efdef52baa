-------------------------- MODULE MCSimulationApi ---------------------------
(***************************************************************************)
(* Instances of SimulationApi for TLC: one decision that waits for its     *)
(* owner and one that is locked, as in SIM_DECISIONS, and requests that    *)
(* take the first around HOLD and AWAITING_AMJAD or defer it.              *)
(***************************************************************************)
EXTENDS SimulationApi, TLC

CONSTANTS d1, d2

MCThreadSymmetry == Permutations(Threads)

MCInitialState == (d1 :> "AWAITING_AMJAD") @@ (d2 :> "LOCKED")

\* One actor, as in SIMULATION_MODE.
MCActorOf == [s \in Sessions |-> "amjadthaufeeg"]

Ask(d, a, s, ok) ==
  [decision |-> d, action |-> a, session |-> s, token |-> TRUE, acceptable |-> ok]

\* Two actions that both leave AWAITING_AMJAD, one that comes back.
MCMoves ==
  {Ask(d1, a, s, TRUE) : a \in {"DEFER", "PLACE_ON_HOLD", "RESUME"}, s \in Sessions}

\* The same, with requests that are not in order and one on a locked decision.
MCBodies ==
  MCMoves \cup {Ask(d1, "DEFER", s, FALSE) : s \in Sessions}
          \cup {[Ask(d1, "DEFER", s, TRUE) EXCEPT !.token = FALSE] : s \in Sessions}
          \cup {Ask(d2, "DEFER", s, TRUE) : s \in Sessions}
=============================================================================
