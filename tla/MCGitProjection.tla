-------------------------- MODULE MCGitProjection ---------------------------
(***************************************************************************)
(* An instance of GitProjection for TLC: two closed decisions, two         *)
(* transitions (a key each) and three exports by two exporters, so that an *)
(* export that has failed or was overlapped is followed by another.        *)
(***************************************************************************)
EXTENDS GitProjection, TLC

MCInitialStates == {"CLOSED"}
MCSymmetry == Permutations(Exporters) \cup Permutations(Decisions)
                \cup Permutations(Keys)
=============================================================================
