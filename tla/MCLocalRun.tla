----------------------------- MODULE MCLocalRun -----------------------------
(* Two runs over one nullifier store, on a build that checks attestations. *)
EXTENDS LocalRun

CONSTANTS r1, r2, n1, n2

Options == {"store", "metadata", "envelope", "skip", "config", "requireAttestation",
            "integrity", "expectQuery"}

With(given) == [o \in Options |-> o \in given]

\* The store with and without each of the checks before it, attestation wanted
\* and skipped, and attestation wanted with each check behind it.
MCArgs ==
  {With({"store", "skip"}), With({"store", "skip", "envelope"}),
   With({"metadata", "skip", "integrity", "requireAttestation"}),
   With({"config", "requireAttestation"}), With({"requireAttestation", "expectQuery"})}

MCCores == {{Check("stage-signatures", "pass")}}
=============================================================================
