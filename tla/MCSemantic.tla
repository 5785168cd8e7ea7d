----------------------------- MODULE MCSemantic -----------------------------
(* The semantic fields under the three preimage versions, the uncertainty   *)
(* and the login nonce: fields edited and stages exchanged between proofs.  *)
EXTENDS StageChain

CONSTANTS d1, x

Region(type, id, geometry) == [type |-> type, id |-> id, geometry |-> geometry]
Query(type, id) == [type |-> type, id |-> id]

\* The ids of the right form: a digest, here of the disc asked about.
MCQueryIds == [t \in {"earth", "country", "ellipse", "h3", "bbox", "subdivision", "cellset",
                      "voxelset"} |-> IF t = "ellipse" THEN {"q"} ELSE {}]

\* An uncertainty of two H3 cells.
Cells ==
  [region |-> [type |-> "h3", numbers |-> <<1, 2>>], coverage |-> 1, profile |-> None,
   status |-> "uncalibrated", risk |-> None, rest |-> "then"]

\* A disc answer bound under v3, made for a login, with its uncertainty.
Disc ==
  [plan |-> <<"spoofDetection", "nullifier", "semanticFields", "uncertaintyFields",
              "sessionBinding">>,
   version |-> "v3", nullifier |-> "n3", commitment |-> Empty, zk |-> None,
   spoofing |-> "PLAUSIBLE", level |-> "CONTINUOUS_AREA", integrity |-> "strong",
   region |-> Region("ellipse", "e", "g1"), locv |-> "INSIDE",
   query |-> Query("ellipse", "q"), uncertainty |-> Cells, nonce |-> "login1",
   upload |-> Empty, metadata |-> None]

\* A note bound into a proof: one byte of salt, one of value.
Note == <<[key |-> "note", type |-> "text", salt |-> <<"s">>, value |-> <<"v">>]>>

\* A city claim, bound with its geometry under v2 and without it under v1.
City(version, n, geometry, metadata) ==
  [plan |-> <<IF metadata = None THEN "spoofDetection" ELSE "callerMetadata",
              "nullifier", "semanticFields">>,
   version |-> version, nullifier |-> n, commitment |-> Empty, zk |-> None,
   spoofing |-> "VERIFIED", level |-> "CITY", integrity |-> "none",
   region |-> Region("city", "Lyon", geometry), locv |-> IF version = "v1" THEN "UNSPECIFIED" ELSE "OUTSIDE",
   query |-> None, uncertainty |-> None, nonce |-> None, upload |-> Empty,
   metadata |-> metadata]

MCDiscAndCity == {Disc, City("v2", "n2", "g2", Note)}
MCClaims == MCDiscAndCity \cup {City("v1", "n1", "g1", None)}

Option(requireVerdict, nonce, presented) ==
  [pin |-> None, requireV2 |-> FALSE, requireVerdict |-> requireVerdict, nonce |-> nonce,
   requireSession |-> FALSE, requireAttestation |-> FALSE, maxAge |-> 1,
   window |-> None, echo |-> None, presented |-> presented]

\* The note presented as it is, and with its salt taken for a part of it by a
\* verifying party that hashes the value itself.
Shown(salt, value, fed) ==
  [manifest |-> <<[key |-> "note", type |-> "text", size |-> 1, salt |-> salt,
                   digest |-> EntryDigest(<<"s">>, <<"v">>)]>>,
   content |-> <<[key |-> "note", value |-> value, salt |-> fed]>>,
   requireKeys |-> {"note"}, requireAll |-> FALSE, requireStage |-> TRUE]

MCOptions ==
  {Option("verified", None, Nothing), Option("plausible", "login1", Nothing),
   Option(None, None, Shown(<<"s">>, <<"v">>, None)),
   Option(None, None, Shown(<<>>, <<"s", "v">>, <<>>))}

\* The relay takes up a proof when no other is half signed: what a relay can do
\* with the stages of an unfinished proof is the matter of MCStageChain.
NothingHalfSigned == wire # None => \A d \in Devices : draft[d] = None
=============================================================================
