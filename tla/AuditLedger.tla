---------------------------- MODULE AuditLedger -----------------------------
(***************************************************************************)
(* The hash chain of src/backend/hos4c/audit.py as functions of the table  *)
(* audit_events: what an append chains itself to, and what verification    *)
(* finds.  SHA-256 is taken to be injective, so the hash of an event is    *)
(* its id, and an event "was computed from" the one whose id is its prev;  *)
(* Genesis is the hash of no event.                                        *)
(***************************************************************************)
EXTENDS Naturals, SequencesExt

Genesis == 0

\* Mutant: ORDER BY created_at ASC LIMIT 1.
FirstHashes(rows) ==
  IF rows = {} THEN {Genesis}
  ELSE {r.id : r \in {x \in rows : \A y \in rows : x.created_at <= y.created_at}}

\* _get_last_hash: ORDER BY created_at DESC LIMIT 1, which of several rows with the
\* latest time SQL does not say.
LastHashes(rows) ==
  IF rows = {} THEN {Genesis}
  ELSE {r.id : r \in {x \in rows : \A y \in rows : y.created_at <= x.created_at}}

\* ORDER BY created_at ASC: rows of one time come in any order.
InTimeOrders(rows) ==
  {order \in SetToSeqs(rows) :
     \A i, j \in DOMAIN order : i < j => order[i].created_at <= order[j].created_at}

\* One row of verify_hash_chain: it is recomputed from the last row that
\* verified; a row that does not verify is passed over.
CheckRow(found, row) ==
  IF row.prev = found.expected_prev
  THEN [found EXCEPT !.expected_prev = row.id]
  ELSE [found EXCEPT !.broken = @ \cup {row.id}]

\* Mutant: only the newest link is looked at.
BrokenTail(order) ==
  {order[n].id : n \in {m \in DOMAIN order :
     m = Len(order) /\ order[m].prev # IF m = 1 THEN Genesis ELSE order[m - 1].id}}

\* What the loop has found after its first n rows.
Found(order) ==
  LET found[n \in 0 .. Len(order)] ==
        IF n = 0 THEN [expected_prev |-> Genesis, broken |-> {}]
                 ELSE CheckRow(found[n - 1], order[n])
  IN  found

\* verify_hash_chain: the ids of the rows that do not verify.
Broken(order) == Found(order)[Len(order)].broken

Integrity(order) == IF Broken(order) = {} THEN "INTACT" ELSE "COMPROMISED"

\* What it can say of a table.
Verdicts(rows) == {Integrity(order) : order \in InTimeOrders(rows)}
=============================================================================
