------------------------------- MODULE Verify -------------------------------
(***************************************************************************)
(* The core verification recipe: `verify` of src/verify.rs and the checks  *)
(* it calls, as operators from a decoded proof, a key and the options to a *)
(* report.                                                                 *)
(*                                                                         *)
(* A proof is a record:                                                    *)
(*   stages       sequence of [stage, data, ts, prev, sig]                 *)
(*   timestamp    the unbound proof-level time                             *)
(*   nullifier, commitment, zk     opaque fields                           *)
(*   spoofing, level, integrity, region, locv, query   the semantic fields *)
(*   uncertainty  field 20 (see Uncertainty), or None                      *)
(*   manifest     field 19 (see CallerMetadata), or None                   *)
(*   platform     "ios", "android" or anything else                        *)
(*   chainKey     the P-256 key of certificate_chain[0], None when there   *)
(*                is no readable one                                       *)
(***************************************************************************)
EXTENDS CallerMetadata, Uncertainty

CONSTANTS
  ZeroNullifier,   \* a nullifier of zero bytes only
  MsPerS,          \* clock ticks to the second, 1000 in the code
  QueryIds,        \* per type a query may have, the ids of its length and form
  FutureSkew,      \* FUTURE_SKEW_S, in seconds
  DriftTolerance   \* the timestamp-binding tolerance, in clock ticks

ASSUME QueryAssumption == DOMAIN QueryIds \cap {"none", "city"} = {}

ASSUME ClockAssumption == MsPerS \in Nat \ {0} /\ FutureSkew \in Nat

---------------------------------------------------------------------------
(* Time and nullifier *)

\* Mutant of SignedTime: the unbound proof-level time is trusted.
SignedTimeUnbound(p) == p.timestamp

\* The signed time of a proof: its proofAssembly stage by name, else its last
\* stage, else the unbound field.
SignedTime(p) ==
  IF HasStage(p.stages, "proofAssembly") THEN StageByName(p.stages, "proofAssembly").ts
  ELSE IF p.stages # <<>> THEN p.stages[Len(p.stages)].ts
  ELSE p.timestamp

\* Seconds of a time span as i64 division has them, rounded towards zero.
WholeSeconds(ms) == IF ms < 0 THEN -((-ms) \div MsPerS) ELSE ms \div MsPerS

\* In a window the time counts to the millisecond, live to the second.
Freshness(p, o, now) ==
  LET age  == WholeSeconds(now - SignedTime(p))
      skew == FutureSkew * MsPerS IN
    CASE o.window # None -> Check("freshness",
           IF /\ o.window.from <= o.window.to
              /\ SignedTime(p) >= o.window.from - skew
              /\ SignedTime(p) <= o.window.to + skew
           THEN "pass" ELSE "fail")
      [] o.window = None /\ age < -FutureSkew -> Check("freshness", "fail")
      [] o.window = None /\ age \in -FutureSkew .. -1 -> Check("freshness", "warn")
      [] OTHER -> Check("freshness", IF age > o.maxAge THEN "fail" ELSE "pass")

\* The unbound timestamp is never judged, but a disagreement is reported.
TimestampBinding(p) ==
  LET drift == SignedTime(p) - p.timestamp IN
    IF p.stages # <<>> /\ (drift > DriftTolerance \/ -drift > DriftTolerance)
    THEN {Check("timestamp-binding", "warn")} ELSE {}

NullifierPresence(p) ==
  Check("nullifier", IF p.nullifier \in {Empty, ZeroNullifier} THEN "fail" ELSE "pass")

---------------------------------------------------------------------------
(* The stage chain *)

\* check_linkage.  Every data hash of the model is a full-length digest, so the
\* length test is the membership in the range of Hash.
LinkageOk(stages) ==
  /\ stages[1].prev \in {Absent, EmptyBytes}
  /\ \A i \in DOMAIN stages : i > 1 =>
       /\ stages[i].prev = stages[i - 1].data
       /\ stages[i].ts >= stages[i - 1].ts

SignaturesOk(stages, key) ==
  \A i \in DOMAIN stages : P256Verify(key, StageMessage(stages[i]), stages[i].sig)

\* Every signature but the last, as the bytes the assembly stage commits to.
PriorSigs(stages) == <<"sigs", [i \in 1 .. Len(stages) - 1 |-> stages[i].sig]>>

\* Mutant of AssemblyOk: the name of the last stage is taken for its hash.
AssemblyNamed(stages) == stages[Len(stages)].stage = "proofAssembly"

\* check_assembly: whatever the last stage is called.
AssemblyOk(stages) == stages[Len(stages)].data = Hash(PriorSigs(stages))

\* Mutant of FieldBinding: a stage of the name binds whatever is shown.
FieldBindingByName(stages, name, value, present) ==
  IF HasStage(stages, name) THEN "bound"
  ELSE IF present THEN "unbound" ELSE "absent"

\* A visible field and the stage that binds it: the stage decides when there
\* is one; without one a present field is unbound.
FieldBinding(stages, name, value, present) ==
  IF HasStage(stages, name)
  THEN IF StageByName(stages, name).data = Hash(FieldBytes(value)) THEN "bound" ELSE "mismatch"
  ELSE IF present THEN "unbound" ELSE "absent"

FieldBindings(p) ==
  LET outcomes ==
        {FieldBinding(p.stages, "commitment", p.commitment, p.commitment # Empty),
         FieldBinding(p.stages, "nullifier", p.nullifier, p.nullifier # Empty)}
        \cup IF p.zk = None THEN {}
             ELSE {FieldBinding(p.stages, "zkProof", p.zk, p.zk # Empty)}
  IN Check("field-binding",
       CASE outcomes \cap {"mismatch", "unbound"} # {} -> "fail"
         [] outcomes = {"absent"} -> "notchecked"
         [] OTHER -> "pass")

\* The four checks of a chain with stages, the one failing check of none.
ChainChecks(p, key) ==
  IF p.stages = <<>> THEN {Check("stage-chain", "fail")}
  ELSE {Check("stage-chain", IF LinkageOk(p.stages) THEN "pass" ELSE "fail"),
        Check("stage-signatures",
          CASE key = None -> "notchecked"
            [] key # None /\ p.platform \notin KnownPlatforms -> "fail"
            [] OTHER -> IF SignaturesOk(p.stages, key) THEN "pass" ELSE "fail"),
        Check("chain-assembly",
          CASE Len(p.stages) < 2 -> "notchecked"
            [] OTHER -> IF AssemblyOk(p.stages) THEN "pass" ELSE "fail"),
        FieldBindings(p)}

---------------------------------------------------------------------------
(* Semantic fields *)

\* Regions whose v1 identity leaves their geometry out.
GeometryOutsideV1 == {"city", "earth"}

\* semantic_region and semantic_region_v2: what each version signs of a region.
RegionV1(r) == CASE r = None -> <<"none">>
                 [] r # None /\ r.type \in GeometryOutsideV1 -> <<r.type, r.id>>
                 [] OTHER -> <<r.type, r.id, r.geometry>>
RegionV2(r) == IF r = None THEN <<"none">> ELSE <<r.type, r.id, r.geometry>>

\* An absent query is encoded as type 0 with an empty id.
QueryBytes(q) == IF q = None THEN <<"none", Empty>> ELSE <<q.type, q.id>>

\* Mutant of BodyV2: the answer is left out of the preimage.
BodyV2NoAnswer(p) == <<p.spoofing, p.level, p.integrity, RegionV2(p.region), p.commitment>>

BodyV2(p) ==
  <<p.spoofing, p.level, p.integrity, RegionV2(p.region), p.commitment, p.locv>>
PreimageV1(p) ==
  <<"v1", p.spoofing, p.level, p.integrity, RegionV1(p.region), p.commitment>>
PreimageV2(p) == <<"v2", BodyV2(p)>>
PreimageV3(p) == <<"v3", BodyV2(p), QueryBytes(p.query)>>

\* Mutant of GeometryBoundV1: v1 counts as binding every region.
GeometryBoundAlways(p) == TRUE

\* region_geometry_bound_v1
GeometryBoundV1(p) == p.region = None \/ p.region.type \notin GeometryOutsideV1

\* query_region_id_shape_ok: an id has the length and form of its type, and types
\* 0, 3 (city) and those from 10 never name a query.
QueryShapeOk(q) == q.type \in DOMAIN QueryIds /\ q.id \in QueryIds[q.type]

SignedVerdict(locv) == IF locv = "UNSPECIFIED" THEN None ELSE locv

\* add_query_region_v3: a query counts only with its answer.
QueryAnswered(p) ==
  p.query # None /\ QueryShapeOk(p.query) /\ SignedVerdict(p.locv) # None
QueryRegionCheck(p) ==
  Check("query-region", IF p.query = None \/ QueryAnswered(p) THEN "pass" ELSE "fail")

\* add_semantic_binding: which version the stage hash matches, the checks it
\* adds, and the verdict and query the report exposes.
SemanticBinding(p, requireV2) ==
  LET Result(status, locv, query, extra) ==
        [checks |-> {Check("semantic-binding", status)} \cup extra,
         locv   |-> locv,
         query  |-> query]
      Matches(preimage) == StageByName(p.stages, "semanticFields").data = Hash(preimage)
  IN IF ~HasStage(p.stages, "semanticFields")
     THEN Result(IF requireV2 THEN "fail" ELSE "notchecked", None, None, {})
     ELSE CASE Matches(PreimageV3(p)) ->
                 Result("pass", SignedVerdict(p.locv),
                        IF QueryAnswered(p) THEN p.query ELSE None, {QueryRegionCheck(p)})
            [] Matches(PreimageV2(p)) ->
                 IF p.query # None THEN Result("fail", None, None, {})
                 ELSE Result("pass", SignedVerdict(p.locv), None, {})
            [] Matches(PreimageV1(p)) ->
                 IF p.query # None THEN Result("fail", None, None, {})
                 ELSE Result(IF GeometryBoundV1(p) THEN "pass" ELSE "warn", None, None, {})
            [] OTHER -> Result("fail", None, None, {})

\* Mutant of TierSatisfied: any good tier meets any requirement.
TierSatisfiedByAny(required, verdict) == verdict \in {"VERIFIED", "PLAUSIBLE"}

\* RequiredVerdict::satisfied_by
TierSatisfied(required, verdict) ==
  \/ verdict = "VERIFIED"
  \/ required = "plausible" /\ verdict = "PLAUSIBLE"

\* add_spoofing_verdict: `sem` is the outcome of SemanticBinding.
ExposedSpoofing(p, sem) ==
  IF IsSemanticallyBound(sem.checks) /\ p.spoofing # "UNSPECIFIED"
  THEN p.spoofing ELSE None

SpoofingChecks(p, sem, required) ==
  LET v    == ExposedSpoofing(p, sem)
      disc == \/ p.level = "CONTINUOUS_AREA"
              \/ sem.query # None /\ sem.query.type = "ellipse"
      tier == IF disc /\ v # None
              THEN {Check("verdict-tier",
                      IF v \in {"VERIFIED", "PLAUSIBLE"} THEN "pass" ELSE "warn")}
              ELSE {}
      need == IF required = None THEN {}
              ELSE {Check("verdict-required",
                      IF v # None /\ TierSatisfied(required, v) THEN "pass" ELSE "fail")}
  IN tier \cup need

\* Mutant of SessionBinding: a proof without the stage is not checked.
SessionBindingIfStaged(p, nonce, require) ==
  Check("session-binding",
    CASE nonce = None \/ ~HasStage(p.stages, "sessionBinding") -> "notchecked"
      [] OTHER -> IF StageByName(p.stages, "sessionBinding").data = Hash(SessionBytes(nonce))
                  THEN "pass" ELSE "fail")

\* check_session_binding
SessionBinding(p, nonce, require) ==
  Check("session-binding",
    CASE nonce = None -> IF require THEN "fail" ELSE "notchecked"
      [] OTHER -> IF /\ HasStage(p.stages, "sessionBinding")
                     /\ StageByName(p.stages, "sessionBinding").data
                          = Hash(SessionBytes(nonce))
                  THEN "pass" ELSE "fail")

\* Mutant of ReplayBinding: the echoed time is compared with the unbound one.
ReplayBindingUnsigned(p, echo, require) ==
  Check("replay-binding",
    CASE echo = None -> IF require THEN "fail" ELSE "notchecked"
      [] OTHER -> IF /\ HasStage(p.stages, "uploadChallenge")
                     /\ StageByName(p.stages, "uploadChallenge").data
                          = Hash(FieldBytes(echo.nonce))
                     /\ echo.nullifier = p.nullifier
                     /\ p.timestamp = echo.signedTime
                  THEN "pass" ELSE "fail")

\* check_replay_binding: the values an envelope echoes beside the proof, None
\* without replay control.
ReplayBinding(p, echo, require) ==
  Check("replay-binding",
    CASE echo = None -> IF require THEN "fail" ELSE "notchecked"
      [] OTHER -> IF /\ echo.nonce # Empty
                     /\ HasStage(p.stages, "uploadChallenge")
                     /\ StageByName(p.stages, "uploadChallenge").data
                          = Hash(FieldBytes(echo.nonce))
                     /\ echo.nullifier = p.nullifier
                     /\ HasStage(p.stages, "proofAssembly")
                     /\ StageByName(p.stages, "proofAssembly").ts = echo.signedTime
                  THEN "pass" ELSE "fail")

---------------------------------------------------------------------------
(* The whole recipe *)

\* verify(): every check it adds and what the report exposes, on a default build
\* (whose attestation lines are placeholders), for options without a region
\* expectation and proofs without a cell set; and the checks of presented content
\* and of replay control that its callers append.
VerifyProof(p, key, o, now) ==
  LET sem == SemanticBinding(p, o.requireV2)
      checks == {Freshness(p, o, now)} \cup TimestampBinding(p)
                \cup {NullifierPresence(p)} \cup ChainChecks(p, key)
                \cup {Check("region-claim", "pass"), Check("zk-proof", "notchecked")}
                \cup {Check(name, "notchecked") :
                        name \in {"attestation-root", "device-attestation-sig"}}
                \cup sem.checks \cup UncertaintyBinding(p)
                \cup SpoofingChecks(p, sem, o.requireVerdict)
                \cup {SessionBinding(p, o.nonce, o.requireSession)} \cup ManifestChecks(p)
  IN [checks   |-> checks \cup MetadataChecks(p, o.presented)
                   \cup {ReplayBinding(p, o.echo, o.requireV2)}
                   \cup IF o.requireAttestation
                        THEN {RequireAttestationCheck(checks)} ELSE {},
      locv     |-> sem.locv,
      query    |-> sem.query,
      manifest |-> ExposedManifest(p),
      spoofing |-> ExposedSpoofing(p, sem)]

\* resolve_hardware_key: the pinned key wins but must agree with a readable
\* chain key; without a pin the chain's own key is used.
KeyConflict(p, pin) == pin # None /\ p.chainKey # None /\ p.chainKey # pin
ResolvedKey(p, pin) == IF pin # None THEN pin ELSE p.chainKey

\* Mutant of CanonicalProof: the last signature, which no hash covers, is left
\* as it is.
CanonicalProofChained(p) ==
  IF p.platform \notin KnownPlatforms THEN p
  ELSE [p EXCEPT !.stages =
          [i \in DOMAIN p.stages |->
             IF i = Len(p.stages) THEN p.stages[i]
             ELSE [p.stages[i] EXCEPT !.sig = CanonicalSig(p.stages[i].sig)]]]

\* canonical_proof_hash: the proof re-encoded with every S in the low half.  An
\* unknown platform has no signature encoding, so the raw bytes are hashed.
CanonicalProof(p) ==
  IF p.platform \notin KnownPlatforms THEN p
  ELSE [p EXCEPT !.stages =
          [i \in DOMAIN p.stages |->
             [p.stages[i] EXCEPT !.sig = CanonicalSig(p.stages[i].sig)]]]
=============================================================================
