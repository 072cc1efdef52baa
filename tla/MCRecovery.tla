------------------------------ MODULE MCRecovery ------------------------------
(***************************************************************************)
(* Recovery for TLC: runs have no order.  One request, so that its runs    *)
(* overlap, and one directory, so that they meet in it: runs in two        *)
(* directories share no file, runs of two requests no state.               *)
(***************************************************************************)
EXTENDS Recovery, TLC

MCSymmetry == Permutations(Runs)
=============================================================================
