------------------------------ MODULE MCAudit ------------------------------
(* Runs of the backend subcommands over one seen-store file. *)
EXTENDS Audit, TLC

CONSTANTS r1, r2, r3, i1, i2, h1, h2

Body(hash, code) == [hash |-> hash, code |-> code]

\* Two bodies an id can be swapped between.
MCTwoBodies == {Body(h1, ExitSuccess), Body(h2, ExitInconclusive)}

\* One with a twin of the same hash that the recipe rejects, and one that
\* cannot be decoded.
MCAllBodies == MCTwoBodies \cup {Body(h1, ExitInvalid), Body(h2, ExitError)}

\* A good proof and a bad one.
MCGoodAndBad == {Body(h1, ExitSuccess), Body(h2, ExitInvalid)}

MCRangeWatchFetch == (r1 :> "range") @@ (r2 :> "watch") @@ (r3 :> "fetch")
MCRangeThenWatch == (r1 :> "range") @@ (r2 :> "watch")
MCFetches == [r \in Runs |-> "fetch"]
MCWatches == [r \in Runs |-> "watch"]
=============================================================================
