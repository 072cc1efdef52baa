---------------------------- MODULE MCOAuthLogin ----------------------------
(***************************************************************************)
(* An instance of OAuthLogin for TLC: one decision, deferred under the     *)
(* first of two sessions with its CSRF token or without, a one-time state  *)
(* that may come back twice, the owner, who is the actor of simulated      *)
(* logins too, and a stranger, three requests in all and one restart.      *)
(***************************************************************************)
EXTENDS OAuthLogin

CONSTANTS d1, s1, amjad

MCThreadSymmetry == Permutations(Threads)
MCInitialState == d1 :> "AWAITING_AMJAD"
MCBodies ==
  [decision : {d1}, session : {s1}, token : BOOLEAN, action : {"DEFER"},
   acceptable : {TRUE}]
MCActorOf == [s \in Sessions |-> amjad]
=============================================================================
