--------------------------- MODULE MCAttestation ---------------------------
(* Two iPhones, one with another app, an Android phone and the relay. *)
EXTENDS Attestation, TLC

CONSTANTS phone, other, android, relay, navigator, elsewhere

MCAppOf == (phone :> navigator) @@ (other :> elsewhere) @@ (android :> navigator)
MCMaxProofs == (phone :> 3) @@ (other :> 1) @@ (android :> 2)
MCExpect == [app |-> navigator, envs |-> {"production"}, apps |-> {navigator}]
MCDates == [from |-> 1, to |-> 3]
MCExchanges == SUBSET {"keyId", "nonce", "object", "assertion", "chain"}
                 \cup SUBSET {"nonce", "assertion", "sig", "token"}
MCWindows == [from : {None} \cup -1 .. 7, to : 0 .. 8]
=============================================================================
