-------------------------- MODULE MCFinalSecurity ---------------------------
(***************************************************************************)
(* An instance of FinalSecurity for TLC: two keys of one payload each, as  *)
(* idempotency_key derives them, that expect the same revision, and a key  *)
(* the callers use with two payloads, one after the other.                 *)
(***************************************************************************)
EXTENDS FinalSecurity, TLC

CONSTANTS k1, k2, shared

MCThreadSymmetry == Permutations(Threads)

Ask(k, s, r) == [key |-> k, payload |-> [new_state |-> s, expected_revision |-> r]]

MCCalls ==
  {Ask(k1, "proposed", 1), Ask(k2, "draft", 1), Ask(shared, "approved", 1),
   Ask(shared, "rejected", 2)}
=============================================================================
