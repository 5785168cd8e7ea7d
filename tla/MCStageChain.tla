---------------------------- MODULE MCStageChain ----------------------------
(* Two contents, two devices: splicing stages between proofs. *)
EXTENDS StageChain

CONSTANTS d1, d2, x

Region(type, id, geometry) == [type |-> type, id |-> id, geometry |-> geometry]

Content(n, plan, version) ==
  [plan |-> plan, version |-> version, nullifier |-> n, commitment |-> Empty,
   zk |-> None, spoofing |-> "VERIFIED", level |-> "COUNTRY", integrity |-> "none",
   region |-> Region("country", "FR", "all"), locv |-> "UNSPECIFIED",
   query |-> None, uncertainty |-> None, nonce |-> None, upload |-> n,
   metadata |-> None]

\* A bare proof, and one whose ZK proof has a stage of its own.
MCContents ==
  {Content("n1", <<"uploadChallenge", "nullifier">>, "v2"),
   [Content("n2", <<"uploadChallenge", "nullifier", "zkProof">>, "v2") EXCEPT !.zk = "z2"]}

MCQueryIds == [t \in {"country"} |-> {"FR"}]

Option(pin, maxAge, window, echo) ==
  [pin |-> pin, requireV2 |-> FALSE, requireVerdict |-> None, nonce |-> None,
   requireSession |-> FALSE, requireAttestation |-> FALSE, maxAge |-> maxAge,
   window |-> window, echo |-> echo, presented |-> Nothing]

\* Live with the chain's own key and an envelope that echoes a proof assembled
\* at the first instant, which is stale at the second one or just counts as fresh;
\* in a window with a pinned key and no envelope.
MCOptions ==
  {Option(None, a, None, [nonce |-> "n1", nullifier |-> "n1", signedTime |-> 0]) : a \in {0, 1}}
    \cup {Option(d1, 0, [from |-> 0, to |-> 0], None)}
=============================================================================
