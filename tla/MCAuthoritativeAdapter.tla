----------------------- MODULE MCAuthoritativeAdapter -----------------------
(***************************************************************************)
(* Instances of AuthoritativeAdapter for TLC.  Each call spends a key at   *)
(* most once, so the number of keys bounds the ledger; the versions and    *)
(* states of MCRequests are the ones rows then reach, plus stale ones.     *)
(***************************************************************************)
EXTENDS AuthoritativeAdapter, TLC

CONSTANTS d1, d2, ghost, k1, k2, k3

MCClientSymmetry == Permutations(Clients)

MCInitialStates == {"AWAITING_AMJAD"}

Ask(d, a, s, v, r, k) ==
  [decision |-> d, action |-> a, expected_state |-> s, expected_version |-> v,
   role |-> r, key |-> k]

\* Calls by the owner on what a reader of the rows may have seen, however long
\* ago; calls nobody may make; calls on a row that is not there; calls no
\* transition matches.
MCRequests ==
  UNION {
    {Ask(d1, "DEFER", "AWAITING_AMJAD", v, "AMJAD_OWNER", k) : v \in {1, 3}, k \in Keys},
    {Ask(d1, "RESUME", "DEFERRED", 2, "AMJAD_OWNER", k) : k \in Keys},
    {Ask(d2, "APPROVE", "AWAITING_AMJAD", 1, "AMJAD_OWNER", k) : k \in Keys},
    {Ask(d1, "RESUME", "AWAITING_AMJAD", 1, "AMJAD_OWNER", k) : k \in Keys},
    {Ask(ghost, "DEFER", "AWAITING_AMJAD", 1, "AMJAD_OWNER", k) : k \in Keys},
    {Ask(d1, "DEFER", "AWAITING_AMJAD", 1, "REVIEWER", k) : k \in Keys}}

\* One row going there and back and there again, a key per call, and a row of its
\* own for which the first key is used too.
MCOneRowRequests ==
  {Ask(d1, "DEFER", "AWAITING_AMJAD", 1, "AMJAD_OWNER", k1),
   Ask(d1, "RESUME", "DEFERRED", 2, "AMJAD_OWNER", k2),
   Ask(d1, "DEFER", "AWAITING_AMJAD", 3, "AMJAD_OWNER", k3),
   Ask(d2, "APPROVE", "AWAITING_AMJAD", 1, "AMJAD_OWNER", k1)}
=============================================================================
