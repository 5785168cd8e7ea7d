----------------------------- MODULE FirstSeen -----------------------------
(***************************************************************************)
(* Refetch consistency as VERIFICATION-SPEC.md and the doc comments of     *)
(* SeenStore promise it: one map from proof ids to the hash first seen,    *)
(* which never changes, and an answer per sighting that says whether the   *)
(* hash is the first one.  Module Audit is shown to implement it.          *)
(***************************************************************************)
EXTENDS Sequences

CONSTANTS Ids, Hashes

VARIABLES first, answers

Known == DOMAIN first

Sighting(id, hash) ==
  /\ first' = IF id \in Known THEN first
              ELSE [i \in Known \cup {id} |-> IF i = id THEN hash ELSE first[i]]
  /\ answers' = Append(answers, [id |-> id, hash |-> hash,
                                 ok |-> id \in Known => first[id] = hash])

Init == first = <<>> /\ answers = <<>>

Next == \E id \in Ids, hash \in Hashes : Sighting(id, hash)

Spec == Init /\ [][Next]_<<first, answers>>
=============================================================================
