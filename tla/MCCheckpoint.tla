---------------------------- MODULE MCCheckpoint ----------------------------
(***************************************************************************)
(* An instance of Checkpoint for TLC: two jobs that may overlap, three     *)
(* checkpoints in two seconds with two names each, one fault.  The clock   *)
(* is read in half seconds.                                                *)
(***************************************************************************)
EXTENDS Checkpoint

MCWriterSymmetry == Permutations(Writers)

MCSecondOf == [t \in Times |-> t \div 2]
=============================================================================
