---------------------------- MODULE FieldProofs ----------------------------
(***************************************************************************)
(* For every set of devices, contents and options and every number of      *)
(* edits: what a consumer reads off an accepted proof is what its device   *)
(* signed.  AuthenticIsIssued finds the issued proof whose chain is        *)
(* carried; here each check of the recipe ties one field to that chain.    *)
(***************************************************************************)
EXTENDS StageChainProofs, FiniteSetTheorems, WellFoundedInduction

---------------------------------------------------------------------------
(* Stages looked up by name *)

\* Every set of numbers that has a member has a least one.
LEMMA LeastNumber ==
  ASSUME NEW T, T \subseteq Nat, T # {}
  PROVE  \E m \in T : \A j \in T : m <= j
<1>1. PICK less : IsWellFoundedOn(less, Nat) /\ \A i, j \in Nat : i < j => <<i, j>> \in less
  <2> DEFINE less == OpToRel(<, Nat)
  <2>1. /\ IsWellFoundedOn(less, Nat)
        /\ \A i, j \in Nat : i < j => <<i, j>> \in less
    BY NatLessThanWellFounded DEF OpToRel
  <2> QED BY <2>1
<1>2. PICK m \in T : \A j \in T : ~(<<j, m>> \in less)
  <2>1. IsWellFoundedOn(less, Nat)
    BY <1>1
  <2> QED BY <2>1, WFMin, Zenon
<1>3. \A j \in T : m <= j
  <2> SUFFICES ASSUME NEW j \in T PROVE m <= j
    OBVIOUS
  <2>1. ~(j < m) /\ j \in Nat /\ m \in Nat
    BY <1>1, <1>2
  <2> QED BY <2>1
<1> QED BY <1>3

\* The first stage of a name is one of that name (stage_by_name).
LEMMA FirstNamed ==
  ASSUME NEW S, NEW stages \in Seq(S), NEW name, HasStage(stages, name)
  PROVE  \E i \in DOMAIN stages :
           stages[i].stage = name /\ StageByName(stages, name) = stages[i]
<1> DEFINE found == StagesNamed(stages, name)
<1>1. DOMAIN stages = 1 .. Len(stages) /\ Len(stages) \in Nat
  BY LenProperties
<1>2. found \subseteq Nat /\ found # {}
  BY <1>1 DEF HasStage, StagesNamed
<1>4. \E m \in found : \A j \in found : m <= j
  BY <1>2, LeastNumber
<1>5. StageByName(stages, name) = stages[CHOOSE i \in found : \A j \in found : i <= j]
  BY DEF StageByName
<1>6. (CHOOSE i \in found : \A j \in found : i <= j) \in found
  BY <1>4
<1> QED BY <1>5, <1>6 DEF StagesNamed

---------------------------------------------------------------------------
(* What an accepted chain says of its content *)

\* An accepted proof is the one the answer is about, and no check of it failed.
LEMMA AcceptedReport ==
  ASSUME FieldInv, Accepted
  PROVE  /\ wire # None /\ verdict # None /\ verdict.key # None
         /\ verdict.opts \in Options
         /\ verdict.report = VerifyProof(wire, verdict.key, verdict.opts, clock)
         /\ \A c \in verdict.report.checks : c.status # "fail"
<1>1. verdict # None /\ verdict.key # None
  BY KeysAssumption DEF Accepted
<1>2. wire # None /\ verdict.report = VerifyProof(wire, verdict.key, verdict.opts, clock)
  BY <1>1 DEF FieldInv, ChainInv, VerdictInv
<1>3. \A c \in verdict.report.checks : c.status # "fail"
  BY DEF Accepted, IsAuthentic, IsValid, Failed
<1> QED BY <1>1, <1>2, <1>3 DEF FieldInv, OptionsInv

\* The stages an accepted proof carries are its origin's, place by place.
LEMMA OriginStages ==
  ASSUME FieldInv, Accepted, NEW r \in Origins
  PROVE  LET w == wire.stages
             s == r.proof.stages
         IN /\ w \in Seq(Range(w))
            /\ Len(w) = Len(s) /\ Len(w) \in Nat
            /\ DOMAIN w = 1 .. Len(w) /\ DOMAIN s = 1 .. Len(w)
            /\ r.content \in Contents
            /\ Len(r.content.plan) \in Nat /\ Len(w) = Len(r.content.plan) + 1
            /\ DOMAIN r.content.plan = 1 .. Len(r.content.plan)
            /\ \A i \in 1 .. Len(w) : /\ w[i].stage = s[i].stage
                                     /\ w[i].data = s[i].data
                                     /\ w[i].ts = s[i].ts
<1> DEFINE w == wire.stages
           s == r.proof.stages
<1>1. r \in issued /\ SameChain(w, s)
  BY DEF Origins
<1>2. w \in Seq(Range(w))
  BY AcceptedReport DEF FieldInv, ChainInv, WireInv, GoodStages
<1>3. Len(w) \in Nat /\ DOMAIN w = 1 .. Len(w)
  BY <1>2, LenProperties
<1>4. s \in Seq(signed)
  BY <1>1 DEF FieldInv, ChainInv, IssuedInv
<1>5. DOMAIN s = 1 .. Len(s)
  BY <1>4, LenProperties
<1>6. r.content \in Contents /\ Len(s) = Len(r.content.plan) + 1
  BY <1>1 DEF FieldInv, IssuedPlanInv
<1>7. r.content.plan \in Seq(STRING)
  BY <1>6, ContentsAssumption
<1>8. Len(r.content.plan) \in Nat /\ DOMAIN r.content.plan = 1 .. Len(r.content.plan)
  BY <1>7, LenProperties
<1>9. Len(w) = Len(s)
  BY <1>1 DEF SameChain
<1>10. ASSUME NEW i \in 1 .. Len(w)
       PROVE  w[i].stage = s[i].stage /\ w[i].data = s[i].data /\ w[i].ts = s[i].ts
  BY <1>1, <1>3 DEF SameChain, SameStage, StageMessage
<1> QED BY <1>2, <1>3, <1>5, <1>6, <1>8, <1>9, <1>10

\* Every stage of an accepted proof but the last is one of its content's plan, and
\* commits to what the plan has it commit to.
LEMMA SignedStages ==
  ASSUME FieldInv, Accepted, NEW r \in Origins, NEW name, name # "proofAssembly"
  PROVE  /\ HasStage(wire.stages, name) <=> name \in Range(r.content.plan)
         /\ \A i \in StagesNamed(wire.stages, name) :
              wire.stages[i].data = StageData(r.content, name)
         /\ HasStage(wire.stages, name) =>
              StageByName(wire.stages, name).data = StageData(r.content, name)
<1> DEFINE w == wire.stages
           plan == r.content.plan
           n == Len(plan)
<1>1. /\ w \in Seq(Range(w)) /\ DOMAIN w = 1 .. n + 1 /\ n \in Nat /\ DOMAIN plan = 1 .. n
      /\ Len(w) = n + 1
      /\ \A i \in 1 .. n + 1 : /\ w[i].stage = r.proof.stages[i].stage
                              /\ w[i].data = r.proof.stages[i].data
      /\ DOMAIN r.proof.stages = 1 .. n + 1
  BY OriginStages
<1>2. r \in issued
  BY DEF Origins
<1>3. /\ FollowsPlan(r.proof.stages, r.content) /\ Len(r.proof.stages) = n + 1
      /\ r.proof.stages[Len(r.proof.stages)].stage = "proofAssembly"
  BY <1>2 DEF FieldInv, IssuedPlanInv
<1> HIDE DEF w, n, plan
<1>4. \A i \in 1 .. n : w[i].stage = plan[i] /\ w[i].data = StageData(r.content, plan[i])
  BY <1>1, <1>3 DEF FollowsPlan, n, plan
<1>5. w[n + 1].stage = "proofAssembly"
  BY <1>1, <1>3
<1>6. ASSUME NEW i \in StagesNamed(w, name)
      PROVE  i \in 1 .. n /\ plan[i] = name /\ w[i].data = StageData(r.content, name)
  <2>1. i \in 1 .. n + 1 /\ w[i].stage = name
    BY <1>1 DEF StagesNamed
  <2>2. i # n + 1
    BY <1>5, <2>1
  <2>3. i \in 1 .. n
    BY <1>1, <2>1, <2>2
  <2> QED BY <1>4, <2>1, <2>3
<1>7. ASSUME name \in Range(plan) PROVE HasStage(w, name)
  <2>1. PICK i \in 1 .. n : plan[i] = name
    BY <1>1, <1>7 DEF Range
  <2>2. i \in DOMAIN w /\ w[i].stage = name
    BY <1>1, <1>4, <2>1
  <2> QED BY <2>2 DEF HasStage, StagesNamed
<1>8. ASSUME HasStage(w, name)
      PROVE  name \in Range(plan) /\ StageByName(w, name).data = StageData(r.content, name)
  <2>1. PICK i \in DOMAIN w : w[i].stage = name /\ StageByName(w, name) = w[i]
    BY <1>1, <1>8, FirstNamed
  <2>2. i \in StagesNamed(w, name)
    BY <2>1 DEF StagesNamed
  <2> QED BY <1>1, <1>6, <2>1, <2>2 DEF Range
<1> QED BY <1>6, <1>7, <1>8 DEF w, plan

\* Its stages of a name are where the plan has them.
LEMMA PlannedStages ==
  ASSUME FieldInv, Accepted, NEW r \in Origins, NEW name, name # "proofAssembly"
  PROVE  StagesNamed(wire.stages, name)
           = {i \in DOMAIN r.content.plan : r.content.plan[i] = name}
<1> DEFINE w == wire.stages
           plan == r.content.plan
           n == Len(plan)
<1>1. /\ DOMAIN w = 1 .. n + 1 /\ n \in Nat /\ DOMAIN plan = 1 .. n
      /\ \A i \in 1 .. n + 1 : w[i].stage = r.proof.stages[i].stage
      /\ DOMAIN r.proof.stages = 1 .. n + 1
  BY OriginStages
<1>2. r \in issued
  BY DEF Origins
<1>3. /\ FollowsPlan(r.proof.stages, r.content) /\ Len(r.proof.stages) = n + 1
      /\ r.proof.stages[Len(r.proof.stages)].stage = "proofAssembly"
  BY <1>2 DEF FieldInv, IssuedPlanInv
<1> HIDE DEF w, n, plan
<1>4. \A i \in 1 .. n : w[i].stage = plan[i]
  BY <1>1, <1>3 DEF FollowsPlan, n, plan
<1>5. w[n + 1].stage = "proofAssembly"
  BY <1>1, <1>3
<1>6. \A i : i \in DOMAIN w /\ w[i].stage = name <=> i \in DOMAIN plan /\ plan[i] = name
  BY <1>1, <1>4, <1>5
<1> QED BY <1>6 DEF StagesNamed, w, plan

\* Its one proofAssembly stage is the last, so the signed time is the assembly's.
LEMMA SignedAssembly ==
  ASSUME FieldInv, Accepted, NEW r \in Origins
  PROVE  LET assembled == r.proof.stages[Len(r.proof.stages)].ts IN
           /\ assembled \in Int
           /\ HasStage(wire.stages, "proofAssembly")
           /\ StageByName(wire.stages, "proofAssembly").ts = assembled
           /\ SignedTime(wire) = assembled
<1> DEFINE w == wire.stages
           plan == r.content.plan
           n == Len(plan)
<1>1. /\ w \in Seq(Range(w)) /\ DOMAIN w = 1 .. n + 1 /\ n \in Nat /\ DOMAIN plan = 1 .. n
      /\ r.content \in Contents /\ DOMAIN r.proof.stages = 1 .. n + 1
      /\ \A i \in 1 .. n + 1 : /\ w[i].stage = r.proof.stages[i].stage
                              /\ w[i].ts = r.proof.stages[i].ts
  BY OriginStages
<1>2. r \in issued
  BY DEF Origins
<1>3. /\ FollowsPlan(r.proof.stages, r.content) /\ Len(r.proof.stages) = n + 1
      /\ r.proof.stages[Len(r.proof.stages)].stage = "proofAssembly"
      /\ r.proof.stages[Len(r.proof.stages)].ts \in Int
  BY <1>2 DEF FieldInv, IssuedPlanInv
<1>4. \A i \in 1 .. n : plan[i] # "proofAssembly"
  BY <1>1, ContentsAssumption
<1> HIDE DEF w, n, plan
<1>5. \A i \in 1 .. n : w[i].stage = plan[i]
  BY <1>1, <1>3 DEF FollowsPlan, n, plan
<1>6. w[n + 1].stage = "proofAssembly" /\ n + 1 \in DOMAIN w
  BY <1>1, <1>3
<1>7. HasStage(w, "proofAssembly")
  BY <1>6 DEF HasStage, StagesNamed
<1>8. PICK i \in DOMAIN w : /\ w[i].stage = "proofAssembly"
                            /\ StageByName(w, "proofAssembly") = w[i]
  BY <1>1, <1>7, FirstNamed
<1>9. i = n + 1
  BY <1>1, <1>4, <1>5, <1>8
<1>10. StageByName(w, "proofAssembly").ts = r.proof.stages[Len(r.proof.stages)].ts
  BY <1>1, <1>3, <1>8, <1>9
<1>11. SignedTime(wire) = StageByName(w, "proofAssembly").ts
  BY <1>7 DEF SignedTime, w
<1> QED BY <1>3, <1>7, <1>10, <1>11 DEF w

---------------------------------------------------------------------------
(* The fields beside the chain *)

\* What the plan has the field-binding stages commit to.
LEMMA BoundData ==
  ASSUME NEW c
  PROVE  /\ StageData(c, "commitment") = Hash(FieldBytes(c.commitment))
         /\ StageData(c, "nullifier") = Hash(FieldBytes(c.nullifier))
         /\ StageData(c, "zkProof") = Hash(FieldBytes(c.zk))
         /\ StageData(c, "semanticFields") = Hash(SemanticPreimage(c))
         /\ StageData(c, "uncertaintyFields") = Hash(UncertaintyBytes(c.uncertainty))
         /\ StageData(c, "sessionBinding") = Hash(SessionBytes(c.nonce))
         /\ StageData(c, "uploadChallenge") = Hash(FieldBytes(c.upload))
         /\ StageData(c, "callerMetadata") = Hash(MetadataBytes(Entries(c)))
BY DEF StageData

\* Equal digests come from equal values.
LEMMA HashInjective ==
  /\ \A a, b : Hash(a) = Hash(b) => a = b
  /\ \A a, b : FieldBytes(a) = FieldBytes(b) => a = b
  /\ \A a, b : SessionBytes(a) = SessionBytes(b) => a = b
  /\ \A a, b : UncertaintyBytes(a) = UncertaintyBytes(b) => AsSigned(a) = AsSigned(b)
BY DEF Hash, FieldBytes, SessionBytes, UncertaintyBytes

\* The binding of a field whose stage says otherwise, or of a present one without
\* a stage, fails the check (FieldBinding::judge).
LEMMA BindingsHold ==
  ASSUME NEW p, FieldBindings(p).status # "fail"
  PROVE  /\ HasStage(p.stages, "commitment") =>
              StageByName(p.stages, "commitment").data = Hash(FieldBytes(p.commitment))
         /\ p.nullifier # Empty =>
              /\ HasStage(p.stages, "nullifier")
              /\ StageByName(p.stages, "nullifier").data = Hash(FieldBytes(p.nullifier))
         /\ p.zk \notin {None, Empty} =>
              /\ HasStage(p.stages, "zkProof")
              /\ StageByName(p.stages, "zkProof").data = Hash(FieldBytes(p.zk))
<1> DEFINE commitment == FieldBinding(p.stages, "commitment", p.commitment, p.commitment # Empty)
           nullifier == FieldBinding(p.stages, "nullifier", p.nullifier, p.nullifier # Empty)
           zk == FieldBinding(p.stages, "zkProof", p.zk, p.zk # Empty)
           outcomes == {commitment, nullifier} \cup IF p.zk = None THEN {} ELSE {zk}
<1>1. outcomes \cap {"mismatch", "unbound"} = {}
  <2> SUFFICES ASSUME outcomes \cap {"mismatch", "unbound"} # {} PROVE FALSE
    OBVIOUS
  <2>1. FieldBindings(p) = Check("field-binding", "fail")
    BY DEF FieldBindings
  <2> QED BY <2>1 DEF Check
<1>2. /\ commitment \notin {"mismatch", "unbound"}
      /\ nullifier \notin {"mismatch", "unbound"}
      /\ p.zk # None => zk \notin {"mismatch", "unbound"}
  <2> HIDE DEF commitment, nullifier, zk
  <2> QED BY <1>1
<1> QED BY <1>2 DEF FieldBinding

LEMMA AcceptedBindings ==
  ASSUME FieldInv, Accepted
  PROVE  FieldBindings(wire).status # "fail" /\ wire.nullifier # Empty
<1>1. /\ verdict.key # None
      /\ verdict.report = VerifyProof(wire, verdict.key, verdict.opts, clock)
  BY AcceptedReport
<1>2. IsAuthentic(VerifyProof(wire, verdict.key, verdict.opts, clock).checks)
  BY <1>1 DEF Accepted
<1> QED BY <1>1, <1>2, AuthenticChain

LEMMA FieldInvImpliesVisible == FieldInv => VisibleFieldsAreSigned
<1> SUFFICES ASSUME FieldInv, Accepted, NEW r \in Origins
             PROVE  /\ wire.nullifier = r.content.nullifier
                    /\ "commitment" \in {r.content.plan[i] : i \in DOMAIN r.content.plan} =>
                         wire.commitment = r.content.commitment
                    /\ wire.zk \in {None, Empty, r.content.zk}
  BY DEF VisibleFieldsAreSigned
<1>1. FieldBindings(wire).status # "fail" /\ wire.nullifier # Empty
  BY AcceptedBindings
<1>2. wire.nullifier = r.content.nullifier
  <2>1. /\ HasStage(wire.stages, "nullifier")
        /\ StageByName(wire.stages, "nullifier").data = Hash(FieldBytes(wire.nullifier))
    BY <1>1, BindingsHold
  <2>2. StageByName(wire.stages, "nullifier").data = StageData(r.content, "nullifier")
    BY <2>1, SignedStages
  <2> QED BY <2>1, <2>2, BoundData, HashInjective
<1>3. ASSUME "commitment" \in Range(r.content.plan)
      PROVE  wire.commitment = r.content.commitment
  <2>1. /\ HasStage(wire.stages, "commitment")
        /\ StageByName(wire.stages, "commitment").data = StageData(r.content, "commitment")
    BY <1>3, SignedStages
  <2>2. StageByName(wire.stages, "commitment").data = Hash(FieldBytes(wire.commitment))
    BY <1>1, <2>1, BindingsHold
  <2> QED BY <2>1, <2>2, BoundData, HashInjective
<1>4. ASSUME wire.zk \notin {None, Empty} PROVE wire.zk = r.content.zk
  <2>1. /\ HasStage(wire.stages, "zkProof")
        /\ StageByName(wire.stages, "zkProof").data = Hash(FieldBytes(wire.zk))
    BY <1>1, <1>4, BindingsHold
  <2>2. StageByName(wire.stages, "zkProof").data = StageData(r.content, "zkProof")
    BY <2>1, SignedStages
  <2> QED BY <2>1, <2>2, BoundData, HashInjective
<1> QED BY <1>2, <1>3, <1>4 DEF Range

---------------------------------------------------------------------------
(* The other bindings: each check that did not fail, read as a fact *)

\* The checks of the recipe that are added whatever the options.
LEMMA RecipeChecks ==
  ASSUME NEW p, NEW key, NEW o, NEW now
  PROVE  LET R == VerifyProof(p, key, o, now).checks IN
           /\ UncertaintyBinding(p) \subseteq R
           /\ SessionBinding(p, o.nonce, o.requireSession) \in R
           /\ ManifestChecks(p) \subseteq R
           /\ SemanticBinding(p, o.requireV2).checks \subseteq R
           /\ SpoofingChecks(p, SemanticBinding(p, o.requireV2), o.requireVerdict) \subseteq R
BY DEF VerifyProof

LEMMA FieldInvImpliesSession == FieldInv => SessionIsThisLogin
<1> SUFFICES ASSUME FieldInv, Accepted, verdict.opts.nonce # None, NEW r \in Origins
             PROVE  r.content.nonce = verdict.opts.nonce
  BY DEF SessionIsThisLogin
<1> DEFINE nonce == verdict.opts.nonce
<1>1. SessionBinding(wire, nonce, verdict.opts.requireSession).status # "fail"
  BY AcceptedReport, RecipeChecks
<1>2. /\ HasStage(wire.stages, "sessionBinding")
      /\ StageByName(wire.stages, "sessionBinding").data = Hash(SessionBytes(nonce))
  BY <1>1 DEF SessionBinding, Check
<1>3. StageByName(wire.stages, "sessionBinding").data = StageData(r.content, "sessionBinding")
  BY <1>2, SignedStages
<1> QED BY <1>2, <1>3, BoundData, HashInjective

LEMMA FieldInvImpliesUncertainty == FieldInv => UncertaintyIsSigned
<1> SUFFICES ASSUME FieldInv, Accepted, NEW r \in Origins
             PROVE  LET planned == {i \in DOMAIN r.content.plan :
                                      r.content.plan[i] = "uncertaintyFields"} IN
                      \/ planned = {} /\ wire.uncertainty = None
                      \/ /\ Cardinality(planned) = 1
                         /\ wire.uncertainty # None
                         /\ AsSigned(wire.uncertainty) = AsSigned(r.content.uncertainty)
  BY DEF UncertaintyIsSigned
<1> DEFINE planned == {i \in DOMAIN r.content.plan : r.content.plan[i] = "uncertaintyFields"}
           stages == StagesNamed(wire.stages, "uncertaintyFields")
<1>1. stages = planned
  BY PlannedStages
<1>2. \A i \in stages : wire.stages[i].data = Hash(UncertaintyBytes(r.content.uncertainty))
  BY SignedStages, BoundData
<1>3. \A c \in UncertaintyBinding(wire) : c.status # "fail"
  BY AcceptedReport, RecipeChecks
<1>4. \/ wire.uncertainty = None /\ stages = {}
      \/ /\ wire.uncertainty # None /\ Cardinality(stages) = 1
         /\ \A i \in stages : wire.stages[i].data = Hash(UncertaintyBytes(wire.uncertainty))
  BY <1>3 DEF UncertaintyBinding, Check
<1>5. CASE wire.uncertainty # None /\ Cardinality(stages) = 1
  <2>1. stages # {}
    BY <1>5, FS_EmptySet
  <2>2. PICK i \in stages : wire.stages[i].data = Hash(UncertaintyBytes(wire.uncertainty))
    BY <1>4, <1>5, <2>1
  <2>3. AsSigned(wire.uncertainty) = AsSigned(r.content.uncertainty)
    BY <1>2, <2>2, HashInjective
  <2> QED BY <1>1, <1>5, <2>3
<1> QED BY <1>1, <1>4, <1>5

\* A check a report is read for comes from the one place that adds it.
LEMMA NamedChecks ==
  ASSUME NEW p, NEW key, NEW o, NEW now, NEW status
  PROVE  LET R == VerifyProof(p, key, o, now).checks
             sem == SemanticBinding(p, o.requireV2)
         IN /\ Check("freshness", status) \in R =>
                 Check("freshness", status) = Freshness(p, o, now)
            /\ Check("semantic-binding", status) \in R =>
                 Check("semantic-binding", status) \in sem.checks
            /\ Check("caller-metadata", status) \in R =>
                 Check("caller-metadata", status) \in MetadataChecks(p, o.presented)
            /\ Check("replay-binding", status) \in R =>
                 Check("replay-binding", status) = ReplayBinding(p, o.echo, o.requireV2)
<1> DEFINE R == VerifyProof(p, key, o, now).checks
           sem == SemanticBinding(p, o.requireV2)
           read == {"freshness", "semantic-binding", "caller-metadata", "replay-binding"}
<1>1. ASSUME NEW c \in R
      PROVE  \/ c = Freshness(p, o, now)
             \/ c \in sem.checks
             \/ c \in MetadataChecks(p, o.presented)
             \/ c = ReplayBinding(p, o.echo, o.requireV2)
             \/ c.name \notin read
  <2>1. \/ c \in {Freshness(p, o, now)} \cup sem.checks \cup MetadataChecks(p, o.presented)
                \cup {ReplayBinding(p, o.echo, o.requireV2)}
        \/ c \in TimestampBinding(p)
        \/ c \in {NullifierPresence(p)} \cup ChainChecks(p, key)
        \/ c \in {Check("region-claim", "pass"), Check("zk-proof", "notchecked")}
        \/ \E name \in {"attestation-root", "device-attestation-sig"} :
             c = Check(name, "notchecked")
        \/ c \in UncertaintyBinding(p)
        \/ c \in SpoofingChecks(p, sem, o.requireVerdict)
        \/ c = SessionBinding(p, o.nonce, o.requireSession)
        \/ c \in ManifestChecks(p)
        \/ \E checks : c = RequireAttestationCheck(checks)
    BY DEF VerifyProof
  <2>2. c \in TimestampBinding(p) => c.name \notin read
    BY DEF TimestampBinding, Check
  <2>3. c \in {NullifierPresence(p)} \cup ChainChecks(p, key) => c.name \notin read
    BY DEF NullifierPresence, ChainChecks, FieldBindings, Check
  <2>4. /\ c \in {Check("region-claim", "pass"), Check("zk-proof", "notchecked")} =>
             c.name \notin read
        /\ (\E name \in {"attestation-root", "device-attestation-sig"} :
             c = Check(name, "notchecked")) => c.name \notin read
    BY DEF Check
  <2>5. c \in UncertaintyBinding(p) => c.name \notin read
    BY DEF UncertaintyBinding, Check
  <2>6. c \in SpoofingChecks(p, sem, o.requireVerdict) => c.name \notin read
    BY DEF SpoofingChecks, Check
  <2>7. c = SessionBinding(p, o.nonce, o.requireSession) => c.name \notin read
    BY DEF SessionBinding, Check
  <2>8. c \in ManifestChecks(p) => c.name \notin read
    BY DEF ManifestChecks, Check
  <2>9. (\E checks : c = RequireAttestationCheck(checks)) => c.name \notin read
    BY DEF RequireAttestationCheck, Check
  <2> HIDE DEF sem, read
  <2> QED BY <2>1, <2>2, <2>3, <2>4, <2>5, <2>6, <2>7, <2>8, <2>9
<1>2. Freshness(p, o, now).name = "freshness"
  BY DEF Freshness, Check
<1>3. \A c \in sem.checks : c.name \in {"semantic-binding", "query-region"}
  BY DEF SemanticBinding, QueryRegionCheck, Check
<1>4. \A c \in MetadataChecks(p, o.presented) : c.name = "caller-metadata"
  BY DEF MetadataChecks, Check
<1>5. ReplayBinding(p, o.echo, o.requireV2).name = "replay-binding"
  BY DEF ReplayBinding, Check
<1>6. \A name : Check(name, status).name = name
  BY DEF Check
<1> HIDE DEF R, sem
<1> QED BY <1>1, <1>2, <1>3, <1>4, <1>5, <1>6 DEF R, sem

LEMMA FieldInvImpliesEcho == FieldInv => EchoIsSigned
<1> SUFFICES ASSUME FieldInv, Accepted,
                    Check("replay-binding", "pass") \in verdict.report.checks,
                    NEW r \in Origins
             PROVE  verdict.opts.echo =
                      [nonce |-> r.content.upload, nullifier |-> r.content.nullifier,
                       signedTime |-> r.proof.stages[Len(r.proof.stages)].ts]
  BY DEF EchoIsSigned
<1> DEFINE echo == verdict.opts.echo
<1>1. ReplayBinding(wire, echo, verdict.opts.requireV2) = Check("replay-binding", "pass")
  BY AcceptedReport, NamedChecks
<1>2. /\ echo # None
      /\ HasStage(wire.stages, "uploadChallenge")
      /\ StageByName(wire.stages, "uploadChallenge").data = Hash(FieldBytes(echo.nonce))
      /\ echo.nullifier = wire.nullifier
      /\ StageByName(wire.stages, "proofAssembly").ts = echo.signedTime
  BY <1>1 DEF ReplayBinding, Check
<1>3. StageByName(wire.stages, "uploadChallenge").data = StageData(r.content, "uploadChallenge")
  BY <1>2, SignedStages
<1>4. echo.nonce = r.content.upload
  BY <1>2, <1>3, BoundData, HashInjective
<1>5. echo.nullifier = r.content.nullifier
  BY <1>2, FieldInvImpliesVisible DEF VisibleFieldsAreSigned
<1>6. echo.signedTime = r.proof.stages[Len(r.proof.stages)].ts
  BY <1>2, SignedAssembly
<1>7. echo = [nonce |-> echo.nonce, nullifier |-> echo.nullifier,
              signedTime |-> echo.signedTime]
  BY <1>2, AcceptedReport, OptionsAssumption
<1> QED BY <1>4, <1>5, <1>6, <1>7

---------------------------------------------------------------------------
(* Freshness *)

\* A span of less than n + 1 whole seconds, and of more than minus one.
LEMMA WithinSeconds ==
  ASSUME NEW ms \in Int, NEW n \in Int, WholeSeconds(ms) \in 0 .. n
  PROVE  -MsPerS < ms /\ ms < (n + 1) * MsPerS
<1> DEFINE k == MsPerS
<1>0. k \in Nat /\ k > 0
  BY ClockAssumption
<1>1. CASE ms < 0
  <2> DEFINE q == (-ms) \div k
  <2>1. -q \in 0 .. n
    BY <1>1 DEF WholeSeconds
  <2>2. q \in Int /\ k * q <= -ms /\ -ms < k * q + k
    BY <1>0
  <2> HIDE DEF q, k
  <2>3. q = 0 \/ q < 0
    BY <2>1, <2>2
  <2>4. q = 0
    BY <1>0, <1>1, <2>1, <2>2, <2>3
  <2> QED BY <1>0, <1>1, <2>2, <2>4 DEF k
<1>2. CASE ~(ms < 0)
  <2> DEFINE q == ms \div k
  <2>1. q \in 0 .. n
    BY <1>2 DEF WholeSeconds
  <2>2. k * q <= ms /\ ms < k * q + k
    BY <1>0
  <2> HIDE DEF q, k
  <2>3. k * q <= k * n
    BY <1>0, <2>1
  <2>4. (n + 1) * k = k * n + k
    BY <1>0
  <2> QED BY <1>0, <1>2, <2>1, <2>2, <2>3, <2>4 DEF k
<1> QED BY <1>1, <1>2

LEMMA FieldInvImpliesFresh == FieldInv => FreshMeansAssembledInTime
<1> SUFFICES ASSUME FieldInv, Accepted, IsFresh(verdict.report.checks), NEW r \in Origins
             PROVE  LET assembled == r.proof.stages[Len(r.proof.stages)].ts
                        o == verdict.opts
                        skew == FutureSkew * MsPerS
                    IN IF o.window = None
                       THEN /\ -MsPerS < clock - assembled
                            /\ clock - assembled < (o.maxAge + 1) * MsPerS
                       ELSE assembled \in o.window.from - skew .. o.window.to + skew
  BY DEF FreshMeansAssembledInTime
<1> DEFINE assembled == r.proof.stages[Len(r.proof.stages)].ts
           o == verdict.opts
           skew == FutureSkew * MsPerS
           age == WholeSeconds(clock - assembled)
<1>1. Freshness(wire, o, clock) = Check("freshness", "pass")
  BY AcceptedReport, NamedChecks DEF IsFresh, HasStatus
<1>2. assembled \in Int /\ SignedTime(wire) = assembled
  BY SignedAssembly
<1>3. /\ o.maxAge \in Int
      /\ o.window # None => o.window.from \in Int /\ o.window.to \in Int
  BY AcceptedReport, OptionsAssumption
<1>4. clock \in Int /\ FutureSkew \in Nat /\ MsPerS \in Nat /\ skew \in Int
  BY ClockAssumption DEF FieldInv
<1> HIDE DEF assembled, o
<1>5. CASE o.window # None
  <2>1. assembled >= o.window.from - skew /\ assembled <= o.window.to + skew
    BY <1>1, <1>2, <1>5 DEF Freshness, Check
  <2> HIDE DEF skew
  <2>2. assembled \in o.window.from - skew .. o.window.to + skew
    BY <1>2, <1>3, <1>4, <1>5, <2>1
  <2> QED BY <1>5, <2>2 DEF assembled, o, skew
<1>6. CASE o.window = None
  <2>1. /\ ~(age < -FutureSkew) /\ age \notin -FutureSkew .. -1
        /\ ~(age > o.maxAge)
    BY <1>1, <1>2, <1>6 DEF Freshness, Check
  <2>2. clock - assembled \in Int
    BY <1>2, <1>4
  <2>3. age \in Int
    BY <2>2, ClockAssumption DEF WholeSeconds
  <2> HIDE DEF age
  <2>4. age \in 0 .. o.maxAge
    BY <1>3, <1>4, <2>1, <2>3
  <2>5. -MsPerS < clock - assembled /\ clock - assembled < (o.maxAge + 1) * MsPerS
    BY <1>3, <2>2, <2>4, WithinSeconds DEF age
  <2> QED BY <1>6, <2>5 DEF assembled, o
<1> QED BY <1>5, <1>6

---------------------------------------------------------------------------
(* The semantic fields *)

\* Equal v1 identities of a region whose geometry v1 covers are equal in full.
LEMMA BoundRegionV1 ==
  ASSUME NEW p, NEW c, GeometryBoundV1(p), RegionV1(p.region) = RegionV1(c.region)
  PROVE  RegionV2(p.region) = RegionV2(c.region)
<1>1. \A a, b, x1, y1, z1 : <<"none">> # <<x1, y1>> /\ <<"none">> # <<x1, y1, z1>>
                          /\ <<a, b>> # <<x1, y1, z1>>
  OBVIOUS
<1>2. CASE p.region = None
  <2>1. RegionV1(p.region) = <<"none">>
    BY <1>2 DEF RegionV1
  <2>2. c.region = None
    BY <1>1, <2>1 DEF RegionV1
  <2> QED BY <1>2, <2>2 DEF RegionV2
<1>3. CASE p.region # None
  <2>1. RegionV1(p.region) = <<p.region.type, p.region.id, p.region.geometry>>
    BY <1>3 DEF RegionV1, GeometryBoundV1
  <2>2. c.region # None /\ c.region.type \notin GeometryOutsideV1
    BY <1>1, <2>1 DEF RegionV1
  <2> QED BY <1>3, <2>1, <2>2 DEF RegionV1, RegionV2
<1> QED BY <1>2, <1>3

\* The preimages of the three versions differ in their first part, so a hash says
\* which one was signed.
LEMMA PreimagesDiffer ==
  ASSUME NEW c, c.version \in {"v1", "v2", "v3"}
  PROVE  /\ \A p : SemanticPreimage(c) = PreimageV1(p) =>
                     c.version = "v1" /\ PreimageV1(c) = PreimageV1(p)
         /\ \A p : SemanticPreimage(c) = PreimageV2(p) =>
                     c.version = "v2" /\ PreimageV2(c) = PreimageV2(p)
         /\ \A p : SemanticPreimage(c) = PreimageV3(p) =>
                     c.version = "v3" /\ PreimageV3(c) = PreimageV3(p)
<1>1. \A p : /\ PreimageV1(p)[1] = "v1" /\ PreimageV2(p)[1] = "v2" /\ PreimageV3(p)[1] = "v3"
  BY DEF PreimageV1, PreimageV2, PreimageV3
<1> QED BY <1>1 DEF SemanticPreimage

\* The ways a claim can be found bound (add_semantic_binding).
LEMMA BoundVersions ==
  ASSUME NEW p, NEW requireV2,
         \A c \in SemanticBinding(p, requireV2).checks : c.status # "fail",
         \/ Check("semantic-binding", "pass") \in SemanticBinding(p, requireV2).checks
         \/ SemanticBinding(p, requireV2).query # None
  PROVE  LET sem == SemanticBinding(p, requireV2)
             data == StageByName(p.stages, "semanticFields").data
         IN /\ HasStage(p.stages, "semanticFields")
            /\ \/ /\ data = Hash(PreimageV3(p))
                  /\ sem.locv = SignedVerdict(p.locv)
                  /\ sem.query = IF QueryAnswered(p) THEN p.query ELSE None
                  /\ p.query = None \/ QueryAnswered(p)
               \/ /\ data = Hash(PreimageV2(p))
                  /\ sem.locv = SignedVerdict(p.locv)
                  /\ sem.query = None /\ p.query = None
               \/ /\ data = Hash(PreimageV1(p))
                  /\ sem.locv = None
                  /\ sem.query = None /\ p.query = None
                  /\ GeometryBoundV1(p)
<1> DEFINE sem == SemanticBinding(p, requireV2)
           data == StageByName(p.stages, "semanticFields").data
           outcome(status, locv, query, extra) ==
             [checks |-> {Check("semantic-binding", status)} \cup extra,
              locv |-> locv, query |-> query]
<1>1. ASSUME NEW status, NEW locv, NEW query, NEW extra, sem = outcome(status, locv, query, extra)
      PROVE  /\ Check("semantic-binding", status) \in sem.checks
             /\ extra \subseteq sem.checks
             /\ sem.locv = locv /\ sem.query = query
             /\ status # "fail"
             /\ extra = {} /\ query = None => status = "pass"
  <2>1. /\ Check("semantic-binding", status) \in sem.checks /\ extra \subseteq sem.checks
        /\ sem.locv = locv /\ sem.query = query
        /\ extra = {} => sem.checks = {Check("semantic-binding", status)}
    BY <1>1
  <2>2. status # "fail"
    BY <2>1 DEF Check
  <2>3. ASSUME extra = {}, query = None PROVE status = "pass"
    <3>1. Check("semantic-binding", "pass") = Check("semantic-binding", status)
      BY <2>1, <2>3
    <3> QED BY <3>1 DEF Check
  <2> QED BY <2>1, <2>2, <2>3
<1>t. /\ Hash(PreimageV3(p)) # Hash(PreimageV2(p)) /\ Hash(PreimageV3(p)) # Hash(PreimageV1(p))
      /\ Hash(PreimageV2(p)) # Hash(PreimageV1(p))
  <2>1. PreimageV1(p)[1] = "v1" /\ PreimageV2(p)[1] = "v2" /\ PreimageV3(p)[1] = "v3"
    BY DEF PreimageV1, PreimageV2, PreimageV3
  <2> QED BY <2>1, HashInjective
<1>2. HasStage(p.stages, "semanticFields")
  <2> SUFFICES ASSUME ~HasStage(p.stages, "semanticFields") PROVE FALSE
    OBVIOUS
  <2>1. sem = outcome(IF requireV2 THEN "fail" ELSE "notchecked", None, None, {})
    BY DEF SemanticBinding
  <2> HIDE DEF sem, outcome
  <2>2. (IF requireV2 THEN "fail" ELSE "notchecked") = "pass"
    BY <1>1, <2>1
  <2> QED BY <2>2
<1>3. CASE data = Hash(PreimageV3(p))
  <2>1. sem = outcome("pass", SignedVerdict(p.locv), IF QueryAnswered(p) THEN p.query ELSE None,
                      {QueryRegionCheck(p)})
    BY <1>t, <1>2, <1>3 DEF SemanticBinding
  <2> HIDE DEF sem, outcome
  <2>2. /\ QueryRegionCheck(p) \in sem.checks
        /\ sem.locv = SignedVerdict(p.locv)
        /\ sem.query = IF QueryAnswered(p) THEN p.query ELSE None
    BY <1>1, <2>1
  <2>3. QueryRegionCheck(p).status # "fail"
    BY <2>2 DEF sem
  <2>4. p.query = None \/ QueryAnswered(p)
    BY <2>3 DEF QueryRegionCheck, Check
  <2> QED BY <1>2, <1>3, <2>2, <2>4 DEF sem
<1>4. CASE data = Hash(PreimageV2(p))
  <2>1. /\ p.query # None => sem = outcome("fail", None, None, {})
        /\ p.query = None => sem = outcome("pass", SignedVerdict(p.locv), None, {})
    BY <1>t, <1>2, <1>4 DEF SemanticBinding
  <2> HIDE DEF sem, outcome
  <2>2. p.query = None /\ sem.locv = SignedVerdict(p.locv) /\ sem.query = None
    BY <1>1, <2>1
  <2> QED BY <1>2, <1>4, <2>2 DEF sem
<1>5. CASE data = Hash(PreimageV1(p))
  <2> DEFINE status == IF GeometryBoundV1(p) THEN "pass" ELSE "warn"
  <2>1. /\ p.query # None => sem = outcome("fail", None, None, {})
        /\ p.query = None => sem = outcome(status, None, None, {})
    BY <1>t, <1>2, <1>5 DEF SemanticBinding
  <2> HIDE DEF sem, outcome, status
  <2>2. p.query = None /\ sem.locv = None /\ sem.query = None /\ status = "pass"
    BY <1>1, <2>1
  <2>3. GeometryBoundV1(p)
    BY <2>2 DEF status
  <2> QED BY <1>2, <1>5, <2>2, <2>3 DEF sem
<1>6. CASE /\ data # Hash(PreimageV3(p)) /\ data # Hash(PreimageV2(p))
           /\ data # Hash(PreimageV1(p))
  <2>1. sem = outcome("fail", None, None, {})
    BY <1>t, <1>2, <1>6 DEF SemanticBinding
  <2> HIDE DEF sem, outcome
  <2> QED BY <1>1, <2>1
<1> QED BY <1>3, <1>4, <1>5, <1>6

\* Equal encodings of a query name the same one, if neither is of the type that
\* stands for none.
LEMMA QueryBytesInjective ==
  ASSUME NEW p, NEW c,
         c # None => c.type # "none" /\ c = [type |-> c.type, id |-> c.id],
         p # None => p.type # "none" /\ p = [type |-> p.type, id |-> p.id],
         QueryBytes(p) = QueryBytes(c)
  PROVE  p = c
<1>1. \A q : q # None /\ q.type # "none" => QueryBytes(q)[1] # "none"
  BY DEF QueryBytes
<1>2. QueryBytes(None)[1] = "none"
  BY DEF QueryBytes
<1>3. CASE p = None \/ c = None
  BY <1>1, <1>2, <1>3
<1>4. CASE p # None /\ c # None
  <2>1. p.type = c.type /\ p.id = c.id
    BY <1>4 DEF QueryBytes
  <2>2. p = [type |-> p.type, id |-> p.id] /\ c = [type |-> c.type, id |-> c.id]
    BY <1>4
  <2> QED BY <2>1, <2>2
<1> QED BY <1>3, <1>4

\* The claim of an accepted proof that was found bound is its device's.
LEMMA BoundClaim ==
  ASSUME FieldInv, Accepted, NEW r \in Origins,
         \/ IsSemanticallyBound(verdict.report.checks)
         \/ verdict.report.query # None
  PROVE  LET c == r.content IN
           /\ wire.spoofing = c.spoofing
           /\ wire.level = c.level
           /\ wire.integrity = c.integrity
           /\ RegionV2(wire.region) = RegionV2(c.region)
           /\ wire.commitment = c.commitment
           /\ wire.query = c.query
           /\ verdict.report.locv \in {None, SignedVerdict(c.locv)}
           /\ verdict.report.query \in {None, c.query}
           /\ verdict.report.query # None =>
                verdict.report.locv = c.locv /\ verdict.report.locv # None /\ c.version = "v3"
<1> DEFINE c == r.content
           required == verdict.opts.requireV2
           sem == SemanticBinding(wire, required)
           data == StageByName(wire.stages, "semanticFields").data
<1>1. /\ verdict.report.locv = sem.locv /\ verdict.report.query = sem.query
  BY AcceptedReport DEF VerifyProof
<1>2. \A k \in sem.checks : k.status # "fail"
  BY AcceptedReport, RecipeChecks
<1>3. Check("semantic-binding", "pass") \in sem.checks \/ sem.query # None
  BY <1>1, AcceptedReport, NamedChecks DEF IsSemanticallyBound, HasStatus
<1>4. /\ HasStage(wire.stages, "semanticFields")
      /\ \/ /\ data = Hash(PreimageV3(wire))
            /\ sem.locv = SignedVerdict(wire.locv)
            /\ sem.query = IF QueryAnswered(wire) THEN wire.query ELSE None
            /\ wire.query = None \/ QueryAnswered(wire)
         \/ /\ data = Hash(PreimageV2(wire))
            /\ sem.locv = SignedVerdict(wire.locv)
            /\ sem.query = None /\ wire.query = None
         \/ /\ data = Hash(PreimageV1(wire))
            /\ sem.locv = None
            /\ sem.query = None /\ wire.query = None
            /\ GeometryBoundV1(wire)
  BY <1>2, <1>3, BoundVersions
<1>5. data = Hash(SemanticPreimage(c))
  BY <1>4, SignedStages, BoundData
<1>6. c \in Contents
  BY OriginStages
<1>7. /\ c.version \in {"v1", "v2", "v3"}
      /\ c.query # None =>
           /\ c.version = "v3" /\ c.query.type # "none"
           /\ c.query = [type |-> c.query.type, id |-> c.query.id]
  BY <1>6, ClaimsAssumption
<1>8. /\ wire.query \in {None, [type |-> "none", id |-> Empty]} \cup {k.query : k \in Contents}
  BY AcceptedReport DEF FieldInv, WireFieldsInv
<1> HIDE DEF c, sem, data
<1>9. CASE /\ data = Hash(PreimageV3(wire))
           /\ sem.locv = SignedVerdict(wire.locv)
           /\ sem.query = IF QueryAnswered(wire) THEN wire.query ELSE None
           /\ wire.query = None \/ QueryAnswered(wire)
  <2>1. c.version = "v3" /\ PreimageV3(c) = PreimageV3(wire)
    <3>1. SemanticPreimage(c) = PreimageV3(wire)
      BY <1>5, <1>9, HashInjective
    <3> QED BY <1>7, <3>1, PreimagesDiffer
  <2>2. /\ wire.spoofing = c.spoofing /\ wire.level = c.level /\ wire.integrity = c.integrity
        /\ RegionV2(wire.region) = RegionV2(c.region)
        /\ wire.commitment = c.commitment /\ wire.locv = c.locv
        /\ QueryBytes(wire.query) = QueryBytes(c.query)
    BY <2>1 DEF PreimageV3, BodyV2
  <2>3. wire.query # None => /\ wire.query.type # "none"
                             /\ wire.query = [type |-> wire.query.type, id |-> wire.query.id]
    <3> SUFFICES ASSUME wire.query # None
                 PROVE  /\ wire.query.type # "none"
                        /\ wire.query = [type |-> wire.query.type, id |-> wire.query.id]
      OBVIOUS
    <3>1. wire.query.type # "none"
      BY <1>9, QueryAssumption DEF QueryAnswered, QueryShapeOk
    <3>2. PICK k \in Contents : wire.query = k.query
      BY <1>8, <3>1
    <3> QED BY <3>1, <3>2, ClaimsAssumption
  <2>4. wire.query = c.query
    BY <1>7, <2>2, <2>3, QueryBytesInjective
  <2>5. sem.query # None => QueryAnswered(wire)
    BY <1>9
  <2>6. sem.query # None => sem.locv = c.locv /\ sem.locv # None
    BY <1>9, <2>2, <2>5 DEF QueryAnswered, SignedVerdict
  <2> QED BY <1>1, <1>9, <2>1, <2>2, <2>4, <2>6 DEF c
<1>10. CASE /\ data = Hash(PreimageV2(wire))
            /\ sem.locv = SignedVerdict(wire.locv)
            /\ sem.query = None /\ wire.query = None
  <2>1. c.version = "v2" /\ PreimageV2(c) = PreimageV2(wire)
    <3>1. SemanticPreimage(c) = PreimageV2(wire)
      BY <1>5, <1>10, HashInjective
    <3> QED BY <1>7, <3>1, PreimagesDiffer
  <2>2. /\ wire.spoofing = c.spoofing /\ wire.level = c.level /\ wire.integrity = c.integrity
        /\ RegionV2(wire.region) = RegionV2(c.region)
        /\ wire.commitment = c.commitment /\ wire.locv = c.locv
    BY <2>1 DEF PreimageV2, BodyV2
  <2>3. c.query = None
    BY <1>7, <2>1
  <2> QED BY <1>1, <1>10, <2>2, <2>3 DEF c
<1>11. CASE /\ data = Hash(PreimageV1(wire))
            /\ sem.locv = None
            /\ sem.query = None /\ wire.query = None
            /\ GeometryBoundV1(wire)
  <2>1. c.version = "v1" /\ PreimageV1(c) = PreimageV1(wire)
    <3>1. SemanticPreimage(c) = PreimageV1(wire)
      BY <1>5, <1>11, HashInjective
    <3> QED BY <1>7, <3>1, PreimagesDiffer
  <2>2. /\ wire.spoofing = c.spoofing /\ wire.level = c.level /\ wire.integrity = c.integrity
        /\ RegionV1(wire.region) = RegionV1(c.region)
        /\ wire.commitment = c.commitment
    BY <2>1 DEF PreimageV1
  <2>3. RegionV2(wire.region) = RegionV2(c.region)
    BY <1>11, <2>2, BoundRegionV1
  <2>4. c.query = None
    BY <1>7, <2>1
  <2> QED BY <1>1, <1>11, <2>2, <2>3, <2>4 DEF c
<1> QED BY <1>4, <1>9, <1>10, <1>11

LEMMA FieldInvImpliesSemantic == FieldInv => SemanticFieldsAreSigned
BY BoundClaim DEF SemanticFieldsAreSigned

LEMMA FieldInvImpliesAnswer == FieldInv => QueryHasItsAnswer
<1> SUFFICES ASSUME FieldInv, Accepted, verdict.report.query # None
             PROVE  /\ verdict.report.locv # None
                    /\ \A r \in Origins : verdict.report.locv = r.content.locv
                                          /\ r.content.version = "v3"
  BY DEF QueryHasItsAnswer
<1>1. Origins # {}
  BY ChainInvImpliesIssued DEF FieldInv, AuthenticIsIssued
<1> QED BY <1>1, BoundClaim

LEMMA FieldInvImpliesTier == FieldInv => RequiredTierWasSigned
<1> SUFFICES ASSUME FieldInv, Accepted, verdict.opts.requireVerdict # None, NEW r \in Origins
             PROVE  r.content.spoofing \in
                      {"VERIFIED"} \cup IF verdict.opts.requireVerdict = "plausible"
                                        THEN {"PLAUSIBLE"} ELSE {}
  BY DEF RequiredTierWasSigned
<1> DEFINE required == verdict.opts.requireVerdict
           sem == SemanticBinding(wire, verdict.opts.requireV2)
           shown == ExposedSpoofing(wire, sem)
<1>1. \A c \in SpoofingChecks(wire, sem, required) : c.status # "fail"
  BY AcceptedReport, RecipeChecks
<1>2. shown # None /\ TierSatisfied(required, shown)
  <2> SUFFICES ASSUME ~(shown # None /\ TierSatisfied(required, shown)) PROVE FALSE
    OBVIOUS
  <2>1. Check("verdict-required", "fail") \in SpoofingChecks(wire, sem, required)
    BY DEF SpoofingChecks
  <2> QED BY <1>1, <2>1 DEF Check
<1>3. IsSemanticallyBound(sem.checks) /\ shown = wire.spoofing
  BY <1>2 DEF ExposedSpoofing
<1>4. IsSemanticallyBound(verdict.report.checks)
  BY <1>3, AcceptedReport, RecipeChecks DEF IsSemanticallyBound, HasStatus
<1>5. wire.spoofing = r.content.spoofing
  BY <1>4, BoundClaim
<1> QED BY <1>2, <1>3, <1>5 DEF TierSatisfied

---------------------------------------------------------------------------
(* Content bound by the integrator *)

\* Equal commitments to entries are to the same keys, types, sizes and digests.
LEMMA CommittedEntries ==
  ASSUME NEW c, NEW m, Hash(MetadataBytes(m)) = Hash(MetadataBytes(Entries(c)))
  PROVE  /\ Committed(m) = Committed(Entries(c))
         /\ DOMAIN m = DOMAIN c.metadata
         /\ \A i \in DOMAIN m :
              /\ m[i].key = c.metadata[i].key
              /\ m[i].size = Len(c.metadata[i].value)
              /\ m[i].digest = EntryDigest(c.metadata[i].salt, c.metadata[i].value)
<1> DEFINE e == Entries(c)
<1>1. Committed(m) = Committed(e)
  BY HashInjective DEF MetadataBytes
<1>2. DOMAIN Committed(m) = DOMAIN m /\ DOMAIN Committed(e) = DOMAIN c.metadata
      /\ DOMAIN e = DOMAIN c.metadata
  BY DEF Committed, Entries
<1>3. DOMAIN m = DOMAIN c.metadata
  BY <1>1, <1>2
<1>4. ASSUME NEW i \in DOMAIN m
      PROVE  /\ m[i].key = c.metadata[i].key
             /\ m[i].size = Len(c.metadata[i].value)
             /\ m[i].digest = EntryDigest(c.metadata[i].salt, c.metadata[i].value)
  <2>1. Committed(m)[i] = Committed(e)[i]
    BY <1>1
  <2>2. /\ Committed(m)[i].key = m[i].key /\ Committed(m)[i].size = m[i].size
        /\ Committed(m)[i].digest = m[i].digest
    BY DEF Committed
  <2>3. /\ Committed(e)[i].key = e[i].key /\ Committed(e)[i].size = e[i].size
        /\ Committed(e)[i].digest = e[i].digest
    BY <1>2, <1>3 DEF Committed
  <2>4. /\ e[i].key = c.metadata[i].key /\ e[i].size = Len(c.metadata[i].value)
        /\ e[i].digest = EntryDigest(c.metadata[i].salt, c.metadata[i].value)
    BY <1>3 DEF Entries
  <2> QED BY <2>1, <2>2, <2>3, <2>4
<1> QED BY <1>1, <1>3, <1>4

LEMMA FieldInvImpliesManifest == FieldInv => ManifestIsSigned
<1> SUFFICES ASSUME FieldInv, Accepted, wire.manifest # None, NEW r \in Origins
             PROVE  /\ r.content.metadata # None
                    /\ Committed(wire.manifest) = Committed(Entries(r.content))
                    /\ verdict.report.manifest = wire.manifest
  BY DEF ManifestIsSigned
<1>1. \A c \in ManifestChecks(wire) : c.status # "fail"
  BY AcceptedReport, RecipeChecks
<1>2. ManifestListed(wire)
  <2> SUFFICES ASSUME ~ManifestListed(wire) PROVE FALSE
    OBVIOUS
  <2>1. Check("caller-manifest", "fail") \in ManifestChecks(wire)
    BY DEF ManifestChecks
  <2> QED BY <1>1, <2>1 DEF Check
<1>3. verdict.report.manifest = wire.manifest
  <2>1. Check("caller-manifest", "pass") \in ManifestChecks(wire)
    BY <1>2 DEF ManifestChecks
  <2>2. ExposedManifest(wire) = wire.manifest
    BY <2>1 DEF ExposedManifest
  <2> QED BY <2>2, AcceptedReport DEF VerifyProof
<1>4. /\ HasStage(wire.stages, "callerMetadata")
      /\ StageByName(wire.stages, "callerMetadata").data = Hash(MetadataBytes(wire.manifest))
  BY <1>2 DEF ManifestListed
<1>5. /\ "callerMetadata" \in Range(r.content.plan)
      /\ StageByName(wire.stages, "callerMetadata").data = StageData(r.content, "callerMetadata")
  BY <1>4, SignedStages
<1>6. Committed(wire.manifest) = Committed(Entries(r.content))
  BY <1>4, <1>5, BoundData, CommittedEntries
<1>7. r.content.metadata # None
  BY <1>5, OriginStages, ClaimsAssumption
<1> QED BY <1>3, <1>6, <1>7

\* Two values that end equal byte strings and have one length are equal, wherever
\* the salts before them end.
LEMMA SameSuffix ==
  ASSUME NEW a, a \in Seq(Range(a)), NEW b, b \in Seq(Range(b)),
         NEW s, s \in Seq(Range(s)), NEW t, t \in Seq(Range(t)),
         a \o s = b \o t, Len(s) = Len(t)
  PROVE  s = t
<1> DEFINE U == Range(a) \cup Range(b) \cup Range(s) \cup Range(t)
<1>1. a \in Seq(U) /\ b \in Seq(U) /\ s \in Seq(U) /\ t \in Seq(U)
  BY SeqMonotonic
<1> HIDE DEF U
<1>2. /\ Len(a) \in Nat /\ Len(b) \in Nat /\ Len(s) \in Nat
      /\ s \in [1 .. Len(s) -> U] /\ t \in [1 .. Len(t) -> U]
  BY <1>1, LenProperties
<1>3. Len(a \o s) = Len(a) + Len(s) /\ Len(b \o t) = Len(b) + Len(t)
  BY <1>1, ConcatProperties
<1>4. Len(a) = Len(b)
  <2>1. Len(a) + Len(s) = Len(b) + Len(s)
    BY <1>3
  <2> QED BY <1>2, <2>1
<1>5. /\ \A j \in 1 .. Len(a) + Len(s) :
           (a \o s)[j] = IF j <= Len(a) THEN a[j] ELSE s[j - Len(a)]
      /\ \A j \in 1 .. Len(b) + Len(t) :
           (b \o t)[j] = IF j <= Len(b) THEN b[j] ELSE t[j - Len(b)]
  BY <1>1, ConcatProperties
<1>6. ASSUME NEW i \in 1 .. Len(s) PROVE s[i] = t[i]
  <2> DEFINE j == Len(a) + i
  <2>1. j \in 1 .. Len(a) + Len(s) /\ ~(j <= Len(a)) /\ j - Len(a) = i
    BY <1>2
  <2> HIDE DEF j
  <2>2. (a \o s)[j] = s[i]
    BY <1>5, <2>1
  <2>3. (b \o t)[j] = t[i]
    BY <1>4, <1>5, <2>1
  <2> QED BY <2>2, <2>3
<1> QED BY <1>2, <1>6

\* Presented content that passes: it fits what the stage commits to, and every
\* entry shown or asked for is there byte for byte (check_caller_metadata).
LEMMA ContentResolves ==
  ASSUME NEW p, NEW in, Check("caller-metadata", "pass") \in MetadataChecks(p, in)
  PROVE  /\ HasStage(p.stages, "callerMetadata")
         /\ in.manifest # None
         /\ ManifestFits(p, in)
         /\ \A i \in DOMAIN in.manifest :
              EntryState(in.manifest[i], in) \notin {"mismatch", "unresolved"}
<1>1. MetadataStatus(p, in) = "pass"
  BY DEF MetadataChecks, Check
<1>2. HasStage(p.stages, "callerMetadata") /\ in.manifest # None
  BY <1>1 DEF MetadataStatus
<1> DEFINE states == {EntryState(in.manifest[i], in) : i \in DOMAIN in.manifest}
<1>3. ManifestFits(p, in) /\ "mismatch" \notin states /\ "unresolved" \notin states
  BY <1>1, <1>2 DEF MetadataStatus
<1> QED BY <1>2, <1>3

\* An entry whose content was shown and counts has it in full; one that must be
\* shown is.
LEMMA EntryResolves ==
  ASSUME NEW in, NEW e, EntryState(e, in) \notin {"mismatch", "unresolved"},
         ContentIsListed(in)
  PROVE  /\ \A i \in DOMAIN in.content : in.content[i].key = e.key =>
              /\ in.content[i].value # None
              /\ Len(in.content[i].value) = e.size
              /\ ShownDigest(e, in.content[i]) = e.digest
         /\ in.requireAll \/ e.key \in in.requireKeys =>
              \E i \in DOMAIN in.content : in.content[i].key = e.key
<1>1. ASSUME NEW i \in DOMAIN in.content, in.content[i].key = e.key
      PROVE  /\ in.content[i].value # None
             /\ Len(in.content[i].value) = e.size
             /\ ShownDigest(e, in.content[i]) = e.digest
  <2>1. \A k \in DOMAIN in.content : in.content[k].key = e.key <=> k = i
    BY <1>1 DEF ContentIsListed
  <2>2. (CHOOSE k \in DOMAIN in.content : in.content[k].key = e.key) = i
    BY <2>1
  <2>3. ShownFor(e, in) = in.content[i] /\ e.key \in Keys(in.content)
    BY <1>1, <2>2 DEF ShownFor, Keys
  <2> QED BY <2>3 DEF EntryState
<1>2. ASSUME in.requireAll \/ e.key \in in.requireKeys
      PROVE  e.key \in Keys(in.content)
  BY <1>2 DEF EntryState
<1> QED BY <1>1, <1>2 DEF Keys

LEMMA FieldInvImpliesContent == FieldInv => ContentIsSigned
<1> SUFFICES ASSUME FieldInv, Accepted,
                    Check("caller-metadata", "pass") \in verdict.report.checks,
                    NEW r \in Origins
             PROVE  LET in == verdict.opts.presented IN
                      /\ \A i \in DOMAIN in.content : \E j \in DOMAIN r.content.metadata :
                           /\ r.content.metadata[j].key = in.content[i].key
                           /\ r.content.metadata[j].value = in.content[i].value
                      /\ {r.content.metadata[j].key : j \in
                            {k \in DOMAIN r.content.metadata :
                               in.requireAll \/ r.content.metadata[k].key \in in.requireKeys}}
                           \subseteq {in.content[i].key : i \in DOMAIN in.content}
  BY DEF ContentIsSigned
<1> DEFINE in == verdict.opts.presented
           m == in.manifest
           entries == r.content.metadata
<1>1. Check("caller-metadata", "pass") \in MetadataChecks(wire, in)
  BY AcceptedReport, NamedChecks
<1>2. /\ HasStage(wire.stages, "callerMetadata") /\ m # None
      /\ ManifestFits(wire, in)
      /\ \A i \in DOMAIN m : EntryState(m[i], in) \notin {"mismatch", "unresolved"}
  BY <1>1, ContentResolves
<1>3. /\ "callerMetadata" \in Range(r.content.plan)
      /\ StageByName(wire.stages, "callerMetadata").data = StageData(r.content, "callerMetadata")
  BY <1>2, SignedStages
<1>4. /\ ContentIsListed(in)
      /\ Hash(MetadataBytes(m)) = Hash(MetadataBytes(Entries(r.content)))
  BY <1>2, <1>3, BoundData DEF ManifestFits
<1>5. /\ DOMAIN m = DOMAIN entries
      /\ \A i \in DOMAIN m : /\ m[i].key = entries[i].key
                             /\ m[i].size = Len(entries[i].value)
                             /\ m[i].digest = EntryDigest(entries[i].salt, entries[i].value)
  BY <1>4, CommittedEntries
<1>6. \A i \in DOMAIN entries : /\ entries[i].salt \in Seq(Range(entries[i].salt))
                                /\ entries[i].value \in Seq(Range(entries[i].value))
  BY <1>3, OriginStages, ClaimsAssumption
<1>7. /\ \A i \in DOMAIN in.content :
           /\ in.content[i].value # None => in.content[i].value \in Seq(Range(in.content[i].value))
           /\ in.content[i].salt # None => in.content[i].salt \in Seq(Range(in.content[i].salt))
      /\ \A i \in DOMAIN m : m[i].salt \in Seq(Range(m[i].salt))
  BY <1>2, AcceptedReport, OptionsAssumption
<1> HIDE DEF in, m, entries
<1>8. ASSUME NEW i \in DOMAIN in.content
      PROVE  \E j \in DOMAIN entries : /\ entries[j].key = in.content[i].key
                                       /\ entries[j].value = in.content[i].value
  <2>1. PICK j \in DOMAIN m : m[j].key = in.content[i].key
    BY <1>4 DEF ContentIsListed, Keys, m
  <2> DEFINE value == in.content[i].value
             salt == IF in.content[i].salt = None THEN m[j].salt ELSE in.content[i].salt
  <2>2. /\ value # None /\ Len(value) = m[j].size
        /\ ShownDigest(m[j], in.content[i]) = m[j].digest
    BY <1>2, <1>4, <2>1, EntryResolves
  <2>3. salt \o value = entries[j].salt \o entries[j].value
    <3>1. EntryDigest(salt, value) = EntryDigest(entries[j].salt, entries[j].value)
      BY <1>5, <2>2 DEF ShownDigest
    <3>2. <<"entry", salt \o value>> = <<"entry", entries[j].salt \o entries[j].value>>
      BY <3>1, HashInjective DEF EntryDigest
    <3> QED BY <3>2
  <2>4. value = entries[j].value
    <3>1. /\ salt \in Seq(Range(salt)) /\ value \in Seq(Range(value))
          /\ entries[j].salt \in Seq(Range(entries[j].salt))
          /\ entries[j].value \in Seq(Range(entries[j].value))
      BY <1>5, <1>6, <1>7, <2>2
    <3>2. Len(value) = Len(entries[j].value)
      BY <1>5, <2>2
    <3> HIDE DEF value, salt
    <3> QED BY <2>3, <3>1, <3>2, SameSuffix
  <2>5. j \in DOMAIN entries /\ entries[j].key = in.content[i].key
    BY <1>5, <2>1
  <2> QED BY <2>4, <2>5
<1>9. ASSUME NEW k \in DOMAIN entries,
             in.requireAll \/ entries[k].key \in in.requireKeys
      PROVE  \E i \in DOMAIN in.content : in.content[i].key = entries[k].key
  <2>1. k \in DOMAIN m /\ m[k].key = entries[k].key
    BY <1>5
  <2> QED BY <1>2, <1>4, <1>9, <2>1, EntryResolves
<1> QED BY <1>8, <1>9 DEF in, entries

---------------------------------------------------------------------------
(* Twins *)

\* Two stages that differ in their signatures alone have the same canonical form
\* when their signatures do.
LEMMA CanonicalStage ==
  ASSUME NEW a, NEW b,
         [a EXCEPT !.sig = NoSignature] = [b EXCEPT !.sig = NoSignature],
         CanonicalSig(a.sig) = CanonicalSig(b.sig)
  PROVE  [a EXCEPT !.sig = CanonicalSig(a.sig)] = [b EXCEPT !.sig = CanonicalSig(b.sig)]
<1> DEFINE A == [a EXCEPT !.sig = NoSignature]
           B == [b EXCEPT !.sig = NoSignature]
<1>1. DOMAIN a = DOMAIN b
  <2>1. DOMAIN A = DOMAIN a /\ DOMAIN B = DOMAIN b
    OBVIOUS
  <2> QED BY <2>1
<1>2. \A f \in DOMAIN a : f # "sig" => a[f] = b[f]
  <2> SUFFICES ASSUME NEW f \in DOMAIN a, f # "sig" PROVE a[f] = b[f]
    OBVIOUS
  <2>1. A[f] = a[f] /\ B[f] = b[f]
    BY <1>1
  <2> QED BY <2>1
<1> QED BY <1>1, <1>2

LEMMA FieldInvImpliesTwin == FieldInv => TwinIsNoNewProof
<1> SUFFICES ASSUME FieldInv, Accepted, NEW r \in Origins, Unsigned(wire) = Unsigned(r.proof)
             PROVE  CanonicalProof(wire) = CanonicalProof(r.proof)
  BY DEF TwinIsNoNewProof
<1> DEFINE q == r.proof
           W == [i \in DOMAIN wire.stages |-> [wire.stages[i] EXCEPT !.sig = NoSignature]]
           Q == [i \in DOMAIN q.stages |-> [q.stages[i] EXCEPT !.sig = NoSignature]]
           fields == {"stages", "timestamp", "platform", "manifest", "chainKey"} \cup ContentFields
<1>1. r \in issued /\ SameChain(wire.stages, q.stages)
  BY DEF Origins
<1>2. DOMAIN wire = fields
  BY AcceptedReport DEF FieldInv, WireFieldsInv
<1>3. q.platform = "ios" /\ DOMAIN q = fields
  <2>1. q = ProofOf(r.device, r.content, q.stages, q.timestamp)
    BY <1>1 DEF FieldInv, IssuedPlanInv
  <2>2. \A d, c, s, t : /\ ProofOf(d, c, s, t).platform = "ios"
                        /\ DOMAIN ProofOf(d, c, s, t) = fields
    BY DEF ProofOf, ContentFields
  <2> QED BY <2>1, <2>2
<1>4. DOMAIN wire.stages = 1 .. Len(wire.stages) /\ DOMAIN q.stages = 1 .. Len(wire.stages)
  BY OriginStages
<1>5. /\ Unsigned(wire) = [wire EXCEPT !.stages = W]
      /\ Unsigned(q) = [q EXCEPT !.stages = Q]
  BY <1>2, <1>3 DEF Unsigned
<1> HIDE DEF W, Q, q, fields
<1>6. W = Q /\ \A f \in fields : f # "stages" => wire[f] = q[f]
  <2>0. "stages" \in fields
    BY DEF fields
  <2>1. W = Q
    <3>1. Unsigned(wire)["stages"] = W /\ Unsigned(q)["stages"] = Q
      BY <1>2, <1>3, <1>5, <2>0
    <3> QED BY <3>1 DEF q
  <2>2. ASSUME NEW f \in fields, f # "stages" PROVE wire[f] = q[f]
    <3>1. Unsigned(wire)[f] = wire[f] /\ Unsigned(q)[f] = q[f]
      BY <1>2, <1>3, <1>5, <2>2
    <3> QED BY <3>1 DEF q
  <2> QED BY <2>1, <2>2
<1>7. wire.platform = "ios"
  BY <1>3, <1>6 DEF fields
<1> DEFINE CW == [i \in DOMAIN wire.stages |->
                    [wire.stages[i] EXCEPT !.sig = CanonicalSig(wire.stages[i].sig)]]
           CQ == [i \in DOMAIN q.stages |->
                    [q.stages[i] EXCEPT !.sig = CanonicalSig(q.stages[i].sig)]]
<1>8. CW = CQ
  <2> SUFFICES ASSUME NEW i \in DOMAIN wire.stages
               PROVE  [wire.stages[i] EXCEPT !.sig = CanonicalSig(wire.stages[i].sig)]
                        = [q.stages[i] EXCEPT !.sig = CanonicalSig(q.stages[i].sig)]
    BY <1>4 DEF q
  <2>1. [wire.stages[i] EXCEPT !.sig = NoSignature] = [q.stages[i] EXCEPT !.sig = NoSignature]
    <3>1. W[i] = Q[i] /\ i \in DOMAIN q.stages
      BY <1>4, <1>6 DEF q
    <3> QED BY <3>1 DEF W, Q
  <2>2. CanonicalSig(wire.stages[i].sig) = CanonicalSig(q.stages[i].sig)
    BY <1>1 DEF SameChain, q
  <2> QED BY <2>1, <2>2, CanonicalStage
<1>9. /\ CanonicalProof(wire) = [wire EXCEPT !.stages = CW]
      /\ CanonicalProof(q) = [q EXCEPT !.stages = CQ]
  BY <1>3, <1>7 DEF CanonicalProof, KnownPlatforms
<1> HIDE DEF CW, CQ
<1>10. [wire EXCEPT !.stages = CW] = [q EXCEPT !.stages = CQ]
  BY <1>2, <1>3, <1>6, <1>8
<1> QED BY <1>9, <1>10 DEF q

---------------------------------------------------------------------------
(* The invariant is inductive: the device *)

\* A longer sequence still follows the plan when its new stage does.
LEMMA FollowsOn ==
  ASSUME NEW S, NEW stages \in Seq(S), NEW st, NEW c,
         FollowsPlan(stages, c),
         Len(stages) + 1 <= Len(c.plan) =>
           /\ st.stage = c.plan[Len(stages) + 1]
           /\ st.data = StageData(c, c.plan[Len(stages) + 1])
  PROVE  FollowsPlan(Append(stages, st), c)
<1> DEFINE all == Append(stages, st)
           T == S \cup {st}
<1>1. stages \in Seq(T) /\ Len(stages) \in Nat /\ DOMAIN stages = 1 .. Len(stages)
  BY SeqMonotonic, LenProperties
<1>2. /\ all \in Seq(T) /\ Len(all) = Len(stages) + 1
      /\ \A i \in 1 .. Len(stages) : all[i] = stages[i]
      /\ all[Len(stages) + 1] = st
  BY <1>1, AppendProperties
<1>3. DOMAIN all = 1 .. Len(stages) + 1
  BY <1>2, LenProperties
<1> HIDE DEF all, T
<1> SUFFICES ASSUME NEW i \in DOMAIN all, i <= Len(c.plan)
             PROVE  all[i].stage = c.plan[i] /\ all[i].data = StageData(c, c.plan[i])
  BY DEF FollowsPlan, all
<1>4. i \in 1 .. Len(stages) \/ i = Len(stages) + 1
  BY <1>1, <1>3
<1> QED BY <1>1, <1>2, <1>4 DEF FollowsPlan

\* Only a device's own step changes its draft or adds a finished proof.
LEMMA RestKept ==
  ASSUME FieldInv, UNCHANGED <<draft, issued>>
  PROVE  DraftPlanInv' /\ IssuedPlanInv'
BY DEF FieldInv, DraftPlanInv, IssuedPlanInv

LEMMA BeginFieldInv ==
  ASSUME FieldInv, ChainInv', NEW d \in Devices, Begin(d)
  PROVE  FieldInv'
<1>1. PICK c \in Contents : draft' = [draft EXCEPT ![d] = [content |-> c, stages |-> <<>>]]
  BY DEF Begin
<1>2. UNCHANGED <<clock, signed, issued, wire, edits, verdict>>
  BY DEF Begin
<1>3. DOMAIN draft = Devices
  BY DEF FieldInv, ChainInv
<1>4. DraftPlanInv'
  <2> SUFFICES ASSUME NEW e \in Devices, draft'[e] # None
               PROVE  /\ Len(draft'[e].stages) <= Len(draft'[e].content.plan)
                      /\ FollowsPlan(draft'[e].stages, draft'[e].content)
    BY DEF DraftPlanInv
  <2>1. CASE e = d
    <3>1. draft'[e].content = c /\ draft'[e].stages = <<>>
      BY <1>1, <1>3, <2>1
    <3>2. Len(c.plan) \in Nat
      BY ContentsAssumption, LenProperties
    <3>3. FollowsPlan(<<>>, c) /\ Len(<<>>) = 0
      BY DEF FollowsPlan
    <3> QED BY <3>1, <3>2, <3>3
  <2>2. CASE e # d
    BY <1>1, <1>3, <2>2 DEF FieldInv, DraftPlanInv
  <2> QED BY <2>1, <2>2
<1> QED BY <1>2, <1>4 DEF FieldInv, IssuedPlanInv, WireFieldsInv, OptionsInv

LEMMA SignStageFieldInv ==
  ASSUME FieldInv, ChainInv', NEW d \in Devices, SignStage(d)
  PROVE  FieldInv'
<1> DEFINE c == draft[d].content
           stages == draft[d].stages
           n == Len(stages)
           st == SignedStage(d, stages, c.plan[n + 1], StageData(c, c.plan[n + 1]))
<1>1. /\ draft[d] # None /\ n < Len(c.plan)
      /\ draft' = [draft EXCEPT ![d].stages = Append(@, st)]
      /\ UNCHANGED <<clock, used, issued, wire, edits, verdict>>
  BY DEF SignStage
<1>2. /\ DOMAIN draft = Devices /\ DOMAIN draft[d] = {"content", "stages"}
      /\ c \in Contents /\ stages \in Seq(signed)
  BY <1>1 DEF FieldInv, ChainInv, DraftInv
<1>3. FollowsPlan(stages, c)
  BY <1>1 DEF FieldInv, DraftPlanInv
<1>4. st.stage = c.plan[n + 1] /\ st.data = StageData(c, c.plan[n + 1])
  BY NewStage
<1>5. draft'[d].content = c /\ draft'[d].stages = Append(stages, st)
  BY <1>1, <1>2
<1> HIDE DEF st, stages, n
<1>6. FollowsPlan(Append(stages, st), c)
  BY <1>2, <1>3, <1>4, FollowsOn DEF n
<1>7. Len(Append(stages, st)) <= Len(c.plan)
  <2>1. Len(Append(stages, st)) = n + 1 /\ n \in Nat
    <3>1. stages \in Seq(signed \cup {st})
      BY <1>2, SeqMonotonic
    <3> QED BY <3>1, AppendProperties, LenProperties DEF n
  <2>2. Len(c.plan) \in Nat
    BY <1>2, ContentsAssumption, LenProperties
  <2> QED BY <1>1, <2>1, <2>2
<1>8. DraftPlanInv'
  <2> SUFFICES ASSUME NEW e \in Devices, draft'[e] # None
               PROVE  /\ Len(draft'[e].stages) <= Len(draft'[e].content.plan)
                      /\ FollowsPlan(draft'[e].stages, draft'[e].content)
    BY DEF DraftPlanInv
  <2>1. CASE e = d
    BY <1>5, <1>6, <1>7, <2>1
  <2>2. CASE e # d
    BY <1>1, <1>2, <2>2 DEF FieldInv, DraftPlanInv
  <2> QED BY <2>1, <2>2
<1> QED BY <1>1, <1>8 DEF FieldInv, IssuedPlanInv, WireFieldsInv, OptionsInv

LEMMA AssembleFieldInv ==
  ASSUME FieldInv, ChainInv', NEW d \in Devices, Assemble(d)
  PROVE  FieldInv'
<1> DEFINE c == draft[d].content
           stages == draft[d].stages
           data == Hash(<<"sigs", [i \in DOMAIN stages |-> stages[i].sig]>>)
           st == SignedStage(d, stages, "proofAssembly", data)
           all == Append(stages, st)
           r == [device |-> d, content |-> c, proof |-> ProofOf(d, c, all, clock)]
<1>1. /\ draft[d] # None /\ Len(stages) = Len(c.plan)
      /\ issued' = issued \cup {r}
      /\ draft' = [draft EXCEPT ![d] = None]
      /\ UNCHANGED <<clock, used, wire, edits, verdict>>
  BY DEF Assemble
<1>2. DOMAIN draft = Devices /\ c \in Contents /\ stages \in Seq(signed)
  BY <1>1 DEF FieldInv, ChainInv, DraftInv
<1>3. FollowsPlan(stages, c)
  BY <1>1 DEF FieldInv, DraftPlanInv
<1>4. st.stage = "proofAssembly" /\ st.ts = clock
  BY DEF SignedStage
<1>5. /\ r.content = c /\ r.device = d
      /\ r.proof.stages = all /\ r.proof.timestamp = clock
      /\ r.proof = ProofOf(d, c, all, clock)
  BY DEF ProofOf
<1> HIDE DEF st, stages, c, r, data
<1>6. Len(stages) \in Nat
  BY <1>2, LenProperties
<1>7. FollowsPlan(all, c)
  <2>1. ~(Len(stages) + 1 <= Len(c.plan))
    BY <1>1, <1>6
  <2> QED BY <1>2, <1>3, <2>1, FollowsOn
<1>8. Len(all) = Len(c.plan) + 1 /\ all[Len(all)] = st
  <2>1. stages \in Seq(signed \cup {st})
    BY <1>2, SeqMonotonic
  <2> QED BY <1>1, <2>1, AppendProperties
<1> HIDE DEF all
<1>9. IssuedPlanInv'
  <2> SUFFICES ASSUME NEW q \in issued'
               PROVE  /\ q.content \in Contents
                      /\ q.proof = ProofOf(q.device, q.content, q.proof.stages, q.proof.timestamp)
                      /\ Len(q.proof.stages) = Len(q.content.plan) + 1
                      /\ FollowsPlan(q.proof.stages, q.content)
                      /\ q.proof.stages[Len(q.proof.stages)].stage = "proofAssembly"
                      /\ q.proof.stages[Len(q.proof.stages)].ts \in Int
    BY DEF IssuedPlanInv
  <2>1. CASE q = r
    <3>1. clock \in Int
      BY DEF FieldInv
    <3> QED BY <1>2, <1>4, <1>5, <1>7, <1>8, <2>1, <3>1
  <2>2. CASE q \in issued
    BY <2>2 DEF FieldInv, IssuedPlanInv
  <2> QED BY <1>1, <2>1, <2>2
<1>10. DraftPlanInv'
  BY <1>1, <1>2 DEF FieldInv, DraftPlanInv
<1> QED BY <1>1, <1>9, <1>10 DEF FieldInv, WireFieldsInv, OptionsInv

---------------------------------------------------------------------------
(* The invariant is inductive: the relay and the verifier *)

WireFields == {"stages", "timestamp", "platform", "manifest", "chainKey"} \cup ContentFields
Queries == {None, [type |-> "none", id |-> Empty]} \cup {c.query : c \in Contents}

LEMMA RelayFieldInv ==
  ASSUME FieldInv, ChainInv', RelayStep
  PROVE  FieldInv'
<1>1. UNCHANGED <<clock, draft, used, signed, issued, verdict>>
  BY DEF RelayStep, Relay, RemoveStage, InsertStage, RewriteStage, EditField,
         RestateClaim, Edit
<1>2. wire # None => DOMAIN wire = WireFields /\ wire.query \in Queries
  BY DEF FieldInv, WireFieldsInv, WireFields, Queries
<1>3. wire' # None => DOMAIN wire' = WireFields /\ wire'.query \in Queries
  <2>1. CASE Relay
    <3>1. PICK r \in issued : wire' = r.proof
      BY <2>1 DEF Relay
    <3>2. /\ wire' = ProofOf(r.device, r.content, r.proof.stages, r.proof.timestamp)
          /\ r.content \in Contents
      BY <3>1 DEF FieldInv, IssuedPlanInv
    <3>3. DOMAIN wire' = WireFields /\ wire'.query = r.content.query
      BY <3>2 DEF ProofOf, WireFields, ContentFields
    <3> QED BY <3>2, <3>3 DEF Queries
  <2>2. CASE RemoveStage \/ InsertStage \/ RewriteStage
    <3>1. wire # None /\ \E s : wire' = [wire EXCEPT !.stages = s]
      BY <2>2 DEF RemoveStage, InsertStage, RewriteStage, Edit, WithStages
    <3>2. PICK s : wire' = [wire EXCEPT !.stages = s]
      BY <3>1
    <3>3. "query" \in WireFields
      BY DEF WireFields, ContentFields
    <3> QED BY <1>2, <3>1, <3>2, <3>3
  <2>3. CASE EditField
    <3>1. PICK e \in FieldEdits : wire # None /\ wire' = [wire EXCEPT ![e[1]] = e[2]]
      BY <2>3 DEF EditField, Edit
    <3>2. e[1] = "query" => e[2] \in Queries
      BY DEF FieldEdits, ContentFields, Queries
    <3>3. "query" \in WireFields
      BY DEF WireFields, ContentFields
    <3> QED BY <1>2, <3>1, <3>2, <3>3
  <2>4. CASE RestateClaim
    <3>1. PICK c \in Contents : wire # None /\ wire' = Restated(c)
      BY <2>4 DEF RestateClaim, Edit
    <3>2. DOMAIN wire' = DOMAIN wire
      BY <3>1 DEF Restated
    <3>3. "query" \in DOMAIN wire
      BY <1>2, <3>1 DEF WireFields, ContentFields
    <3>4. wire'.query = c.query
      BY <3>1, <3>3 DEF Restated
    <3> QED BY <1>2, <3>1, <3>2, <3>4 DEF Queries
  <2> QED BY <2>1, <2>2, <2>3, <2>4 DEF RelayStep
<1>4. WireFieldsInv'
  BY <1>3 DEF WireFieldsInv, WireFields, Queries
<1>5. DraftPlanInv' /\ IssuedPlanInv'
  BY <1>1, RestKept
<1> QED BY <1>1, <1>4, <1>5 DEF FieldInv, OptionsInv

LEMMA VerifyFieldInv ==
  ASSUME FieldInv, ChainInv', VerifyWire
  PROVE  FieldInv'
<1>1. UNCHANGED <<clock, draft, used, signed, issued, wire, edits>>
  BY DEF VerifyWire
<1>2. verdict'.opts \in Options
  <2>1. PICK o \in Options :
          verdict' = IF KeyConflict(wire, o.pin)
                     THEN [opts |-> o, key |-> None, report |-> None]
                     ELSE LET key == ResolvedKey(wire, o.pin) IN
                            [opts |-> o, key |-> key,
                             report |-> VerifyProof(wire, key, o, clock)]
    BY DEF VerifyWire
  <2>2. verdict'.opts = o
    BY <2>1
  <2> QED BY <2>2
<1>3. DraftPlanInv' /\ IssuedPlanInv'
  BY <1>1, RestKept
<1> QED BY <1>1, <1>2, <1>3 DEF FieldInv, WireFieldsInv, OptionsInv

LEMMA DeliverFieldInv ==
  ASSUME FieldInv, ChainInv', Deliver
  PROVE  FieldInv'
<1>1. UNCHANGED <<clock, draft, used, signed, issued>> /\ verdict' = None /\ wire' = None
  BY DEF Deliver
<1>2. DraftPlanInv' /\ IssuedPlanInv'
  BY <1>1, RestKept
<1> QED BY <1>1, <1>2 DEF FieldInv, WireFieldsInv, OptionsInv

LEMMA TickFieldInv ==
  ASSUME FieldInv, ChainInv', Tick
  PROVE  FieldInv'
<1>1. UNCHANGED <<draft, used, signed, issued, wire, edits, verdict>> /\ clock' \in Int
  BY InstantsAssumption DEF Tick
<1>2. DraftPlanInv' /\ IssuedPlanInv'
  BY <1>1, RestKept
<1> QED BY <1>1, <1>2 DEF FieldInv, WireFieldsInv, OptionsInv

---------------------------------------------------------------------------
(* Theorems *)

\* Every draft and every finished proof follows its content's plan, and what the
\* relay holds keeps its fields, in every reachable state.
THEOREM FieldInvariant == Spec => []FieldInv
<1>1. Init => FieldInv
  BY InitChainInv DEF Init, FieldInv, DraftPlanInv, IssuedPlanInv, WireFieldsInv, OptionsInv
<1>2. FieldInv /\ ChainInv' /\ [Next]_vars => FieldInv'
  <2> SUFFICES ASSUME FieldInv, ChainInv', [Next]_vars PROVE FieldInv'
    OBVIOUS
  <2>1. CASE \E d \in Devices : Begin(d) \/ SignStage(d) \/ Assemble(d)
    BY <2>1, BeginFieldInv, SignStageFieldInv, AssembleFieldInv
  <2>2. CASE Tick
    BY <2>2, TickFieldInv
  <2>3. CASE RelayStep
    BY <2>3, RelayFieldInv
  <2>4. CASE VerifyWire
    BY <2>4, VerifyFieldInv
  <2>5. CASE Deliver
    BY <2>5, DeliverFieldInv
  <2>6. CASE UNCHANGED vars
    BY <2>6 DEF vars, FieldInv, DraftPlanInv, IssuedPlanInv, WireFieldsInv, OptionsInv
  <2> QED BY <2>1, <2>2, <2>3, <2>4, <2>5, <2>6 DEF Next, DeviceStep
<1> QED BY <1>1, <1>2, ChainInvariant, PTL DEF Spec

\* The nullifier and the commitment beside an accepted chain are the signed ones,
\* and so is the ZK proof unless it was taken out (add_field_bindings).
THEOREM VisibleFieldsAreSignedTheorem == Spec => []VisibleFieldsAreSigned
BY FieldInvariant, FieldInvImpliesVisible, PTL

\* A semantically bound accepted proof shows the tier, level, integrity status,
\* region, commitment, answer and query its device signed, whichever version bound
\* them (add_semantic_binding).
THEOREM SemanticFieldsAreSignedTheorem == Spec => []SemanticFieldsAreSigned
BY FieldInvariant, FieldInvImpliesSemantic, PTL

\* A query is never exposed without the answer signed for it under v3
\* (add_query_region_v3).
THEOREM QueryHasItsAnswerTheorem == Spec => []QueryHasItsAnswer
BY FieldInvariant, FieldInvImpliesAnswer, PTL

\* An accepted proof shows an uncertainty exactly where one was signed, and then that one
\* (add_uncertainty_binding).
THEOREM UncertaintyIsSignedTheorem == Spec => []UncertaintyIsSigned
BY FieldInvariant, FieldInvImpliesUncertainty, PTL

\* A fresh accepted proof was assembled in time by the clock of its device, less
\* than a second outside the age limit (verify).
THEOREM FreshMeansAssembledInTimeTheorem == Spec => []FreshMeansAssembledInTime
BY FieldInvariant, FieldInvImpliesFresh, PTL

\* With a login nonce supplied, an accepted proof was made for that login
\* (check_session_binding).
THEOREM SessionIsThisLoginTheorem == Spec => []SessionIsThisLogin
BY FieldInvariant, FieldInvImpliesSession, PTL

\* With a passing replay binding, the values the backend dedups on are the signed
\* ones (check_replay_binding).
THEOREM EchoIsSignedTheorem == Spec => []EchoIsSigned
BY FieldInvariant, FieldInvImpliesEcho, PTL

\* Content that passes is what the device committed to, byte for byte, and what had
\* to be seen was (check_caller_metadata).
THEOREM ContentIsSignedTheorem == Spec => []ContentIsSigned
BY FieldInvariant, FieldInvImpliesContent, PTL

\* An accepted proof with field 19 lists in it what the device committed to
\* (check_caller_manifest).
THEOREM ManifestIsSignedTheorem == Spec => []ManifestIsSigned
BY FieldInvariant, FieldInvImpliesManifest, PTL

\* A required tier is met only by a tier the device signed (add_spoofing_verdict).
THEOREM RequiredTierWasSignedTheorem == Spec => []RequiredTierWasSigned
BY FieldInvariant, FieldInvImpliesTier, PTL

\* An accepted proof that differs from an issued one in its signatures alone has
\* its canonical form (canonical_proof_hash).
THEOREM TwinIsNoNewProofTheorem == Spec => []TwinIsNoNewProof
BY FieldInvariant, FieldInvImpliesTwin, PTL
=============================================================================
