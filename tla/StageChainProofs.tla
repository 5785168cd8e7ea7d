-------------------------- MODULE StageChainProofs --------------------------
(***************************************************************************)
(* For every set of devices, contents and options and every number of      *)
(* edits, an accepted proof carries the whole chain of a proof that its    *)
(* device finished.                                                        *)
(***************************************************************************)
EXTENDS StageChain, SequenceTheorems, TLAPS

---------------------------------------------------------------------------
(* What an authentic report says of the proof *)

\* Authenticity under a key means that no check of the recipe failed, so each
\* part of the chain was found intact: the checks of src/verify.rs verify()
\* read as facts about the stages.
LEMMA AuthenticChain ==
  ASSUME NEW p, NEW key, NEW o, NEW now, key # None,
         IsAuthentic(VerifyProof(p, key, o, now).checks)
  PROVE  /\ p.stages # <<>>
         /\ LinkageOk(p.stages)
         /\ SignaturesOk(p.stages, key)
         /\ Len(p.stages) < 2 \/ AssemblyOk(p.stages)
         /\ FieldBindings(p).status # "fail"
         /\ p.nullifier # Empty
<1> DEFINE R == VerifyProof(p, key, o, now).checks
<1>1. \A c \in R : c.status # "fail"
  BY DEF IsAuthentic, IsValid, Failed
<1>2. ChainChecks(p, key) \subseteq R /\ NullifierPresence(p) \in R
  BY DEF VerifyProof
<1>3. p.stages # <<>>
  <2>1. SUFFICES ASSUME p.stages = <<>> PROVE FALSE
    OBVIOUS
  <2>2. Check("stage-chain", "fail") \in R
    BY <1>2, <2>1 DEF ChainChecks
  <2> QED BY <1>1, <2>2 DEF Check
<1>4. LinkageOk(p.stages)
  <2>1. Check("stage-chain", IF LinkageOk(p.stages) THEN "pass" ELSE "fail") \in R
    BY <1>2, <1>3 DEF ChainChecks
  <2> QED BY <1>1, <2>1 DEF Check
<1>5. SignaturesOk(p.stages, key)
  <2>1. SUFFICES ASSUME ~SignaturesOk(p.stages, key) PROVE FALSE
    OBVIOUS
  <2>2. Check("stage-signatures", "fail") \in R
    BY <1>2, <1>3, <2>1 DEF ChainChecks
  <2> QED BY <1>1, <2>2 DEF Check
<1>6. Len(p.stages) < 2 \/ AssemblyOk(p.stages)
  <2>1. SUFFICES ASSUME ~(Len(p.stages) < 2), ~AssemblyOk(p.stages) PROVE FALSE
    OBVIOUS
  <2>2. Check("chain-assembly", "fail") \in R
    BY <1>2, <1>3, <2>1 DEF ChainChecks
  <2> QED BY <1>1, <2>2 DEF Check
<1>7. FieldBindings(p).status # "fail"
  BY <1>1, <1>2, <1>3 DEF ChainChecks
<1>8. p.nullifier # Empty
  BY <1>1, <1>2 DEF NullifierPresence, Check
<1> QED BY <1>3, <1>4, <1>5, <1>6, <1>7, <1>8

\* A present nullifier must be bound by a stage of its name (add_field_bindings).
LEMMA NullifierHasStage ==
  ASSUME NEW p, p.nullifier # Empty, FieldBindings(p).status # "fail"
  PROVE  \E i \in DOMAIN p.stages : p.stages[i].stage = "nullifier"
<1> SUFFICES ASSUME \A i \in DOMAIN p.stages : p.stages[i].stage # "nullifier"
             PROVE  FALSE
  OBVIOUS
<1>1. ~HasStage(p.stages, "nullifier")
  BY DEF HasStage, StagesNamed
<1>2. FieldBinding(p.stages, "nullifier", p.nullifier, p.nullifier # Empty) = "unbound"
  BY <1>1 DEF FieldBinding
<1>3. FieldBindings(p).status = "fail"
  BY <1>2 DEF FieldBindings, Check
<1> QED BY <1>3

---------------------------------------------------------------------------
(* The invariant implies the property *)

\* Equal commitments to signatures come from equal signatures.
LEMMA PriorSigsInjective ==
  ASSUME NEW a, NEW b, Len(a) \in Nat, Len(b) \in Nat, Len(a) > 0, Len(b) > 0,
         Hash(PriorSigs(a)) = Hash(PriorSigs(b))
  PROVE  /\ Len(a) = Len(b)
         /\ \A i \in 1 .. Len(a) - 1 : a[i].sig = b[i].sig
<1> DEFINE A == [i \in 1 .. Len(a) - 1 |-> a[i].sig]
           B == [i \in 1 .. Len(b) - 1 |-> b[i].sig]
<1>1. A = B
  BY DEF Hash, PriorSigs
<1>2. DOMAIN A = 1 .. Len(a) - 1 /\ DOMAIN B = 1 .. Len(b) - 1
  OBVIOUS
<1> HIDE DEF A, B
<1>3. 1 .. Len(a) - 1 = 1 .. Len(b) - 1
  BY <1>1, <1>2
<1>4. Len(a) = Len(b)
  BY <1>3
<1>5. \A i \in 1 .. Len(a) - 1 : A[i] = B[i]
  BY <1>1
<1> QED BY <1>4, <1>5 DEF A, B

\* A device's signature is about the stage it is in.
LEMMA SignedMessage ==
  ASSUME SignedInv, NEW st \in signed
  PROVE  st.sig.msg = StageMessage(st)
<1>1. st.sig = Signature(st.sig.key, StageMessage(st), "low")
  BY DEF SignedInv
<1>2. \A m : Signature(st.sig.key, m, "low").msg = m
  BY DEF Signature
<1> QED BY <1>1, <1>2

\* An accepted chain of several stages is the chain of the proof whose assembly
\* stage it ends with: the assembly fixes the signatures before it, and each
\* signature fixes its stage.
LEMMA AcceptedChainIsIssued ==
  ASSUME SignedInv, IssuedInv, AssemblyInv, WireInv, wire # None,
         NEW k \in Devices,
         SignaturesOk(wire.stages, k),
         Len(wire.stages) >= 2,
         AssemblyOk(wire.stages)
  PROVE  \E r \in issued : r.device = k /\ SameChain(wire.stages, r.proof.stages)
<1> DEFINE w == wire.stages
           n == Len(w)
<1>1. /\ w \in Seq(Range(w)) /\ n \in Nat /\ DOMAIN w = 1 .. n
      /\ \A i \in 1 .. n : /\ StageForm(w[i]) /\ Genuine(w[i].sig)
                         /\ w[i].sig.key = k
                         /\ w[i].sig.msg = StageMessage(w[i])
  <2>1. w \in Seq(Range(w)) /\ \A st \in Range(w) : StageForm(st) /\ Genuine(st.sig)
    BY DEF WireInv, GoodStages
  <2>2. n \in Nat /\ DOMAIN w = 1 .. n
    BY <2>1, LenProperties
  <2>3. \A i \in 1 .. n : w[i] \in Range(w)
    BY <2>2 DEF Range
  <2> QED BY <2>1, <2>2, <2>3 DEF SignaturesOk, P256Verify
<1> HIDE DEF w
<1>2. PICK st \in signed : st.sig.key = k /\ st.sig.msg = StageMessage(w[n])
  <2>1. Genuine(w[n].sig) /\ w[n].sig.key = k /\ w[n].sig.msg = StageMessage(w[n])
    BY <1>1 DEF w
  <2> QED BY <2>1 DEF Genuine
<1>3. StageMessage(st) = StageMessage(w[n]) /\ st.sig = Signature(k, StageMessage(st), "low")
  BY <1>2 DEF SignedInv, Signature
<1>4. st.data = Hash(PriorSigs(w))
  <2>1. w[n].data = Hash(PriorSigs(w))
    BY DEF AssemblyOk, w
  <2> QED BY <1>3, <2>1 DEF StageMessage
<1>5. CommitsToSigs(st.data)
  BY <1>4 DEF CommitsToSigs, Hash, PriorSigs
<1>6. PICK r \in issued : /\ r.device = k
                          /\ st = r.proof.stages[Len(r.proof.stages)]
                          /\ st.data = Hash(PriorSigs(r.proof.stages))
  BY <1>2, <1>5 DEF AssemblyInv
<1> DEFINE s == r.proof.stages
<1>7. /\ s \in Seq(signed) /\ Len(s) \in Nat /\ Len(s) > 0 /\ DOMAIN s = 1 .. Len(s)
      /\ \A i \in 1 .. Len(s) : s[i] \in signed /\ s[i].sig.key = k
  <2>1. s \in Seq(signed) /\ Len(s) > 0 /\ \A i \in DOMAIN s : s[i].sig.key = r.device
    BY DEF IssuedInv
  <2>2. Len(s) \in Nat /\ DOMAIN s = 1 .. Len(s)
    BY <2>1, LenProperties
  <2> QED BY <1>6, <2>1, <2>2, ElementOfSeq
<1>8. \A i \in 1 .. Len(s) : s[i].sig = Signature(k, StageMessage(s[i]), "low")
  BY <1>7 DEF SignedInv
<1> HIDE DEF s
<1>9. Len(s) = n /\ \A i \in 1 .. n - 1 : w[i].sig = s[i].sig
  <2>1. Hash(PriorSigs(w)) = Hash(PriorSigs(s)) /\ n > 0 /\ n \in Nat
    BY <1>1, <1>4, <1>6 DEF s, w
  <2> QED BY <1>7, <2>1, PriorSigsInjective
<1>n. n \in Nat
  BY <1>1
<1>10. ASSUME NEW i \in 1 .. n
       PROVE  SameStage(w[i], s[i])
  <2>1. CASE i < n
    <3>1. i \in 1 .. n - 1
      BY <1>n, <2>1
    <3>2. w[i].sig = s[i].sig
      BY <1>9, <3>1
    <3>3. s[i].sig.msg = StageMessage(s[i])
      <4>1. s[i] \in signed
        BY <1>7, <1>9
      <4> QED BY <4>1, SignedMessage
    <3>4. w[i].sig.msg = StageMessage(w[i])
      BY <1>1
    <3> QED BY <3>2, <3>3, <3>4 DEF SameStage
  <2>2. CASE i = n
    BY <1>3, <1>6, <1>9, <2>2 DEF SameStage, s
  <2>3. i < n \/ i = n
    BY <1>n
  <2> QED BY <2>1, <2>2, <2>3
<1>11. CanonicalSig(w[n].sig) = CanonicalSig(s[n].sig)
  <2>1. n \in 1 .. n
    BY <1>1 DEF w
  <2>2. w[n].sig = Signature(k, StageMessage(w[n]), w[n].sig.s)
    BY <1>1, <2>1 DEF StageForm, w
  <2>3. s[n].sig = Signature(k, StageMessage(w[n]), "low")
    BY <1>8, <1>9, <1>10, <2>1 DEF SameStage
  <2> QED BY <2>2, <2>3 DEF CanonicalSig, Signature
<1>12. SameChain(w, s)
  <2>1. \A i \in DOMAIN w : IF i < Len(w) THEN w[i].sig = s[i].sig
                            ELSE CanonicalSig(w[i].sig) = CanonicalSig(s[i].sig)
    <3> SUFFICES ASSUME NEW i \in 1 .. n
                 PROVE IF i < n THEN w[i].sig = s[i].sig
                       ELSE CanonicalSig(w[i].sig) = CanonicalSig(s[i].sig)
      BY <1>1 DEF w
    <3>1. CASE i < n
      <4>1. i \in 1 .. n - 1
        BY <1>n, <3>1
      <4> QED BY <1>9, <3>1, <4>1
    <3>2. CASE ~(i < n)
      <4>1. i = n
        BY <1>n, <3>2
      <4> QED BY <1>11, <3>2, <4>1
    <3> QED BY <3>1, <3>2
  <2> QED BY <1>1, <1>9, <1>10, <2>1 DEF SameChain, w
<1> QED BY <1>6, <1>12 DEF s, w

\* A chain of one stage is never accepted: its only stage would have to be a
\* nullifier stage signed first, which no device does.
LEMMA OneStageIsRefused ==
  ASSUME SignedInv, WireInv, wire # None,
         NEW k \in Devices,
         SignaturesOk(wire.stages, k), LinkageOk(wire.stages),
         NEW i \in DOMAIN wire.stages, wire.stages[i].stage = "nullifier"
  PROVE  Len(wire.stages) >= 2
<1> SUFFICES ASSUME ~(Len(wire.stages) >= 2) PROVE FALSE
  OBVIOUS
<1>1. /\ wire.stages \in Seq(Range(wire.stages))
      /\ \A st \in Range(wire.stages) : Genuine(st.sig)
  BY DEF WireInv, GoodStages
<1>2. Len(wire.stages) \in Nat /\ DOMAIN wire.stages = 1 .. Len(wire.stages)
  BY <1>1, LenProperties
<1>3. i = 1
  BY <1>2
<1>4. Genuine(wire.stages[i].sig)
  BY <1>1 DEF Range
<1>5. wire.stages[i].sig.key = k /\ wire.stages[i].sig.msg = StageMessage(wire.stages[i])
  BY DEF SignaturesOk, P256Verify
<1>6. PICK st \in signed : st.sig.key = k /\ st.sig.msg = StageMessage(wire.stages[i])
  BY <1>4, <1>5 DEF Genuine
<1>7. StageMessage(st) = StageMessage(wire.stages[i])
  BY <1>6, SignedMessage
<1>8. PrevBytes(wire.stages[i].prev) = EmptyBytes
  BY <1>3 DEF LinkageOk, PrevBytes
<1>9. PrevBytes(st.prev) = EmptyBytes /\ st.stage = "nullifier"
  BY <1>7, <1>8 DEF StageMessage
<1> QED BY <1>9 DEF SignedInv

\* Under the invariant an accepted proof carries the chain of an issued one.
LEMMA ChainInvImpliesIssued == ChainInv => AuthenticIsIssued
<1> SUFFICES ASSUME ChainInv, Accepted
             PROVE  Origins # {}
  BY DEF AuthenticIsIssued
<1> DEFINE k == verdict.key
<1>1. k \in Devices /\ k # None /\ verdict # None
  BY KeysAssumption DEF Accepted
<1>2. wire # None /\ verdict.report = VerifyProof(wire, k, verdict.opts, clock)
  BY <1>1 DEF ChainInv, VerdictInv
<1>3. IsAuthentic(VerifyProof(wire, k, verdict.opts, clock).checks)
  BY <1>2 DEF Accepted
<1>4. /\ LinkageOk(wire.stages) /\ SignaturesOk(wire.stages, k)
      /\ Len(wire.stages) < 2 \/ AssemblyOk(wire.stages)
      /\ FieldBindings(wire).status # "fail" /\ wire.nullifier # Empty
  BY <1>1, <1>3, AuthenticChain
<1>5. PICK i \in DOMAIN wire.stages : wire.stages[i].stage = "nullifier"
  BY <1>4, NullifierHasStage
<1>6. Len(wire.stages) >= 2
  BY <1>1, <1>2, <1>4, <1>5, OneStageIsRefused DEF ChainInv
<1>7. ~(Len(wire.stages) < 2)
  <2>1. wire.stages \in Seq(Range(wire.stages))
    BY <1>2 DEF ChainInv, WireInv, GoodStages
  <2>2. Len(wire.stages) \in Nat
    BY <2>1, LenProperties
  <2> QED BY <1>6, <2>2
<1>8. \E r \in issued : r.device = k /\ SameChain(wire.stages, r.proof.stages)
  BY <1>1, <1>2, <1>4, <1>6, <1>7, AcceptedChainIsIssued DEF ChainInv
<1> QED BY <1>8 DEF Origins

---------------------------------------------------------------------------
(* The invariant is inductive: the device *)

\* What SignedStage builds.
LEMMA NewStage ==
  ASSUME NEW d, NEW stages, NEW name, NEW data
  PROVE  LET st == SignedStage(d, stages, name, data) IN
           /\ DOMAIN st = {"stage", "data", "ts", "prev", "sig"}
           /\ st.stage = name
           /\ st.data = data
           /\ st.prev = IF stages = <<>> THEN Absent ELSE stages[Len(stages)].data
           /\ st.sig = Signature(d, StageMessage(st), "low")
BY DEF SignedStage, StageMessage

\* A new stage is one a device may have signed: with signatures before it or
\* a name that is not the nullifier's.
LEMMA NewStageIsSigned ==
  ASSUME NEW d \in Devices, NEW stages, NEW name, NEW data,
         \/ name # "nullifier"
         \/ stages # <<>> /\ \E b : stages[Len(stages)].data = Hash(b)
  PROVE  LET st == SignedStage(d, stages, name, data) IN
           /\ StageForm(st)
           /\ st.sig.key = d
           /\ st.sig = Signature(st.sig.key, StageMessage(st), "low")
           /\ PrevBytes(st.prev) = EmptyBytes => st.stage # "nullifier"
<1> DEFINE st == SignedStage(d, stages, name, data)
<1>1. st.sig = Signature(d, StageMessage(st), "low")
  BY NewStage
<1>2. st.sig.key = d /\ st.sig.msg = StageMessage(st) /\ st.sig.s = "low"
  BY <1>1 DEF Signature
<1>3. StageForm(st)
  BY <1>1, <1>2, NewStage DEF StageForm
<1>4. ASSUME PrevBytes(st.prev) = EmptyBytes PROVE st.stage # "nullifier"
  <2>1. st.stage = name
    BY NewStage
  <2>2. CASE stages # <<>> /\ \E b : stages[Len(stages)].data = Hash(b)
    <3>1. PICK b : st.prev = Hash(b)
      BY <2>2, NewStage
    <3>2. Hash(b) # Absent /\ Hash(b) # EmptyBytes
      BY DEF Hash, Absent, EmptyBytes
    <3> QED BY <1>4, <3>1, <3>2 DEF PrevBytes
  <2> QED BY <2>1, <2>2
<1> QED BY <1>1, <1>2, <1>3, <1>4

\* No stage of a plan commits to signatures, and each data hash is a digest.
LEMMA StageDataCommitsToNoSigs ==
  ASSUME NEW c, NEW name
  PROVE  /\ ~CommitsToSigs(StageData(c, name))
         /\ StageData(c, name) = Hash(StageData(c, name)[2])
<1>1. \A b : Hash(b)[2] = b
  BY DEF Hash
<1>2. \E b : StageData(c, name) = Hash(b) /\ b[1] # "sigs"
  <2>1. \A v : FieldBytes(v)[1] # "sigs" /\ SessionBytes(v)[1] # "sigs"
               /\ UncertaintyBytes(v)[1] # "sigs" /\ MetadataBytes(v)[1] # "sigs"
    BY DEF FieldBytes, SessionBytes, UncertaintyBytes, MetadataBytes
  <2>2. SemanticPreimage(c)[1] # "sigs"
    <3>1. PreimageV1(c)[1] # "sigs" /\ PreimageV2(c)[1] # "sigs" /\ PreimageV3(c)[1] # "sigs"
      BY DEF PreimageV1, PreimageV2, PreimageV3
    <3> QED BY <3>1 DEF SemanticPreimage
  <2> QED BY <2>1, <2>2 DEF StageData
<1> QED BY <1>1, <1>2 DEF CommitsToSigs

\* Signing more keeps what is known of the proofs issued and of the wire.
LEMMA MoreSigned ==
  ASSUME signed \subseteq signed'
  PROVE  /\ IssuedInv /\ issued' = issued => IssuedInv'
         /\ WireInv /\ wire' = wire => WireInv'
<1>1. ASSUME IssuedInv, issued' = issued PROVE IssuedInv'
  <2> SUFFICES ASSUME NEW r \in issued
               PROVE  r.proof.stages \in Seq(signed')
    BY <1>1 DEF IssuedInv
  <2>1. r.proof.stages \in Seq(signed)
    BY <1>1 DEF IssuedInv
  <2> QED BY <2>1, SeqMonotonic
<1>2. \A sig : Genuine(sig) => Genuine(sig)'
  BY DEF Genuine
<1>3. ASSUME WireInv, wire' = wire PROVE WireInv'
  BY <1>2, <1>3 DEF WireInv, GoodStages
<1> QED BY <1>1, <1>3

LEMMA InitChainInv == Init => ChainInv
  BY DEF Init, ChainInv, SignedInv, IssuedInv, AssemblyInv, DraftInv, WireInv, VerdictInv

\* A new draft starts with no stage.
LEMMA BeginChainInv ==
  ASSUME ChainInv, NEW d \in Devices, Begin(d)
  PROVE  ChainInv'
<1>1. PICK c \in Contents : draft' = [draft EXCEPT ![d] = [content |-> c, stages |-> <<>>]]
  BY DEF Begin
<1>2. UNCHANGED <<clock, signed, issued, wire, edits, verdict>>
  BY DEF Begin
<1>3. DOMAIN draft' = Devices
  BY <1>1 DEF ChainInv
<1>4. DraftInv'
  <2> SUFFICES ASSUME NEW e \in Devices, draft'[e] # None
               PROVE  /\ DOMAIN draft'[e] = {"content", "stages"}
                      /\ draft'[e].content \in Contents
                      /\ draft'[e].stages \in Seq(signed)
                      /\ \A i \in DOMAIN draft'[e].stages :
                           /\ draft'[e].stages[i].sig.key = e
                           /\ draft'[e].stages[i].data = Hash(draft'[e].stages[i].data[2])
    BY <1>2 DEF DraftInv
  <2>1. CASE e = d
    <3>1. draft'[e] = [content |-> c, stages |-> <<>>]
      BY <1>1, <2>1 DEF ChainInv
    <3>2. draft'[e].stages = <<>> /\ DOMAIN draft'[e] = {"content", "stages"}
          /\ draft'[e].content = c
      BY <3>1
    <3> QED BY <3>2, EmptySeq
  <2>2. CASE e # d
    <3>1. draft'[e] = draft[e]
      BY <1>1, <2>2 DEF ChainInv
    <3> QED BY <3>1 DEF ChainInv, DraftInv
  <2> QED BY <2>1, <2>2
<1>5. SignedInv' /\ IssuedInv' /\ AssemblyInv' /\ WireInv' /\ VerdictInv'
  BY <1>2 DEF ChainInv, SignedInv, IssuedInv, AssemblyInv, WireInv, VerdictInv,
              GoodStages, Genuine
<1> QED BY <1>3, <1>4, <1>5 DEF ChainInv

\* The next stage of a plan is signed and is no assembly.
LEMMA SignStageChainInv ==
  ASSUME ChainInv, NEW d \in Devices, SignStage(d)
  PROVE  ChainInv'
<1> DEFINE c == draft[d].content
           stages == draft[d].stages
           name == c.plan[Len(stages) + 1]
           st == SignedStage(d, stages, name, StageData(c, name))
<1>1. /\ draft[d] # None /\ Len(stages) < Len(c.plan)
      /\ draft' = [draft EXCEPT ![d].stages = Append(@, st)]
      /\ signed' = signed \cup {st}
      /\ UNCHANGED <<clock, used, issued, wire, edits, verdict>>
  BY DEF SignStage
<1>2. /\ DOMAIN draft = Devices /\ DOMAIN draft[d] = {"content", "stages"}
      /\ c \in Contents /\ stages \in Seq(signed)
      /\ \A i \in DOMAIN stages : /\ stages[i].sig.key = d
                                /\ stages[i].data = Hash(stages[i].data[2])
  BY <1>1 DEF ChainInv, DraftInv
<1>3. Len(stages) \in Nat /\ DOMAIN stages = 1 .. Len(stages)
  BY <1>2, LenProperties
<1>4. \/ name # "nullifier"
      \/ stages # <<>> /\ \E b : stages[Len(stages)].data = Hash(b)
  <2>1. CASE stages = <<>>
    <3>1. name = c.plan[1]
      BY <2>1
    <3> QED BY <1>2, <3>1, ContentsAssumption
  <2>2. CASE stages # <<>>
    <3>1. Len(stages) \in DOMAIN stages
      BY <1>2, <1>3, <2>2, EmptySeq
    <3> QED BY <1>2, <2>2, <3>1
  <2> QED BY <2>1, <2>2
<1>5. /\ StageForm(st) /\ st.sig.key = d
      /\ st.sig = Signature(st.sig.key, StageMessage(st), "low")
      /\ PrevBytes(st.prev) = EmptyBytes => st.stage # "nullifier"
  BY <1>4, NewStageIsSigned
<1>6. st.data = StageData(c, name)
  BY NewStage
<1>7. ~CommitsToSigs(st.data) /\ st.data = Hash(st.data[2])
  BY <1>6, StageDataCommitsToNoSigs
<1> HIDE DEF st, stages
<1>8. signed \subseteq signed' /\ st \in signed'
  BY <1>1
<1>9. SignedInv'
  <2> SUFFICES ASSUME NEW t \in signed'
               PROVE  /\ StageForm(t) /\ t.sig.key \in Devices
                      /\ t.sig = Signature(t.sig.key, StageMessage(t), "low")
                      /\ PrevBytes(t.prev) = EmptyBytes => t.stage # "nullifier"
    BY DEF SignedInv
  <2>1. CASE t = st
    BY <1>5, <2>1
  <2>2. CASE t \in signed
    BY <2>2 DEF ChainInv, SignedInv
  <2> QED BY <1>1, <2>1, <2>2
<1>10. AssemblyInv'
  <2> SUFFICES ASSUME NEW t \in signed', CommitsToSigs(t.data)
               PROVE  \E r \in issued' :
                        /\ t.sig.key = r.device
                        /\ t = r.proof.stages[Len(r.proof.stages)]
                        /\ t.data = Hash(PriorSigs(r.proof.stages))
    BY DEF AssemblyInv
  <2>1. t \in signed
    BY <1>1, <1>7
  <2> QED BY <1>1, <2>1 DEF ChainInv, AssemblyInv
<1>11. DraftInv'
  <2> SUFFICES ASSUME NEW e \in Devices, draft'[e] # None
               PROVE  /\ DOMAIN draft'[e] = {"content", "stages"}
                      /\ draft'[e].content \in Contents
                      /\ draft'[e].stages \in Seq(signed')
                      /\ \A i \in DOMAIN draft'[e].stages :
                           /\ draft'[e].stages[i].sig.key = e
                           /\ draft'[e].stages[i].data = Hash(draft'[e].stages[i].data[2])
    BY DEF DraftInv
  <2>1. CASE e = d
    <3>1. /\ draft'[e].stages = Append(stages, st) /\ draft'[e].content = c
          /\ DOMAIN draft'[e] = {"content", "stages"}
      BY <1>1, <1>2, <2>1 DEF stages
    <3>2. stages \in Seq(signed')
      BY <1>2, <1>8, SeqMonotonic
    <3>3. Append(stages, st) \in Seq(signed') /\ Len(Append(stages, st)) = Len(stages) + 1
          /\ DOMAIN Append(stages, st) = 1 .. Len(stages) + 1
      BY <1>8, <3>2, AppendProperties
    <3>4. \A i \in 1 .. Len(stages) : Append(stages, st)[i] = stages[i]
      BY <1>8, <3>2, AppendProperties
    <3>5. Append(stages, st)[Len(stages) + 1] = st
      BY <1>8, <3>2, AppendProperties
    <3>6. ASSUME NEW i \in DOMAIN Append(stages, st)
          PROVE  /\ Append(stages, st)[i].sig.key = d
                 /\ Append(stages, st)[i].data = Hash(Append(stages, st)[i].data[2])
      <4>1. i \in 1 .. Len(stages) \/ i = Len(stages) + 1
        BY <1>3, <3>3
      <4>2. CASE i \in 1 .. Len(stages)
        BY <1>2, <1>3, <3>4, <4>2
      <4>3. CASE i = Len(stages) + 1
        BY <1>5, <1>7, <3>5, <4>3
      <4> QED BY <4>1, <4>2, <4>3
    <3> QED BY <1>2, <2>1, <3>1, <3>3, <3>6
  <2>2. CASE e # d
    <3>1. draft'[e] = draft[e]
      BY <1>1, <1>2, <2>2
    <3>2. draft[e].stages \in Seq(signed)
      BY <2>2, <3>1 DEF ChainInv, DraftInv
    <3>3. draft[e].stages \in Seq(signed')
      BY <1>8, <3>2, SeqMonotonic
    <3> QED BY <3>1, <3>3 DEF ChainInv, DraftInv
  <2> QED BY <2>1, <2>2
<1>12. IssuedInv' /\ WireInv' /\ VerdictInv'
  <2>1. IssuedInv' /\ WireInv'
    BY <1>1, <1>8, MoreSigned DEF ChainInv
  <2>2. VerdictInv'
    BY <1>1 DEF ChainInv, VerdictInv
  <2> QED BY <2>1, <2>2
<1>13. DOMAIN draft' = Devices
  BY <1>1, <1>2
<1> QED BY <1>9, <1>10, <1>11, <1>12, <1>13 DEF ChainInv

\* The assembly stage commits to the signatures of the proof it finishes.
LEMMA AssembleChainInv ==
  ASSUME ChainInv, NEW d \in Devices, Assemble(d)
  PROVE  ChainInv'
<1> DEFINE c == draft[d].content
           stages == draft[d].stages
           data == Hash(<<"sigs", [i \in DOMAIN stages |-> stages[i].sig]>>)
           st == SignedStage(d, stages, "proofAssembly", data)
           all == Append(stages, st)
           r == [device |-> d, content |-> c, proof |-> ProofOf(d, c, all, clock)]
<1>1. /\ draft[d] # None
      /\ signed' = signed \cup {st}
      /\ issued' = issued \cup {r}
      /\ draft' = [draft EXCEPT ![d] = None]
      /\ UNCHANGED <<clock, used, wire, edits, verdict>>
  BY DEF Assemble
<1>2. /\ DOMAIN draft = Devices /\ stages \in Seq(signed)
      /\ \A i \in DOMAIN stages : stages[i].sig.key = d
  BY <1>1 DEF ChainInv, DraftInv
<1>3. Len(stages) \in Nat /\ DOMAIN stages = 1 .. Len(stages)
  BY <1>2, LenProperties
<1>4. /\ StageForm(st) /\ st.sig.key = d
      /\ st.sig = Signature(st.sig.key, StageMessage(st), "low")
      /\ PrevBytes(st.prev) = EmptyBytes => st.stage # "nullifier"
  BY NewStageIsSigned
<1>5. st.data = data
  BY NewStage
<1>6. /\ r.device = d /\ r.proof.stages = all
      /\ "stages" \in DOMAIN r.proof
  BY DEF ProofOf
<1> HIDE DEF st, stages, r
<1>7. signed \subseteq signed' /\ st \in signed' /\ issued \subseteq issued' /\ r \in issued'
  BY <1>1
<1>8. /\ all \in Seq(signed') /\ Len(all) = Len(stages) + 1
      /\ \A i \in 1 .. Len(stages) : all[i] = stages[i]
      /\ all[Len(stages) + 1] = st
      /\ DOMAIN all = 1 .. Len(stages) + 1
  <2>1. stages \in Seq(signed')
    BY <1>2, <1>7, SeqMonotonic
  <2> QED BY <1>7, <2>1, AppendProperties, LenProperties
<1>9. st.data = Hash(PriorSigs(all))
  <2>1. Len(all) - 1 = Len(stages)
    BY <1>3, <1>8
  <2>2. [i \in 1 .. Len(all) - 1 |-> all[i].sig] = [i \in DOMAIN stages |-> stages[i].sig]
    BY <1>3, <1>8, <2>1
  <2> QED BY <1>5, <2>2 DEF PriorSigs
<1> HIDE DEF all
<1>10. SignedInv'
  <2> SUFFICES ASSUME NEW t \in signed'
               PROVE  /\ StageForm(t) /\ t.sig.key \in Devices
                      /\ t.sig = Signature(t.sig.key, StageMessage(t), "low")
                      /\ PrevBytes(t.prev) = EmptyBytes => t.stage # "nullifier"
    BY DEF SignedInv
  <2>1. CASE t = st
    BY <1>4, <2>1
  <2>2. CASE t \in signed
    BY <2>2 DEF ChainInv, SignedInv
  <2> QED BY <1>1, <2>1, <2>2
<1>11. IssuedInv'
  <2> SUFFICES ASSUME NEW q \in issued'
               PROVE  /\ q.device \in Devices
                      /\ q.proof.stages \in Seq(signed')
                      /\ Len(q.proof.stages) > 0
                      /\ \A i \in DOMAIN q.proof.stages : q.proof.stages[i].sig.key = q.device
                      /\ "stages" \in DOMAIN q.proof
    BY DEF IssuedInv
  <2>1. CASE q = r
    <3>1. Len(all) > 0
      BY <1>3, <1>8
    <3>2. ASSUME NEW i \in DOMAIN all PROVE all[i].sig.key = d
      <4>1. i \in 1 .. Len(stages) \/ i = Len(stages) + 1
        BY <1>3, <1>8
      <4> QED BY <1>2, <1>3, <1>4, <1>8, <4>1
    <3> QED BY <1>6, <1>8, <2>1, <3>1, <3>2
  <2>2. CASE q \in issued
    <3>1. q.proof.stages \in Seq(signed)
      BY <2>2 DEF ChainInv, IssuedInv
    <3>2. q.proof.stages \in Seq(signed')
      BY <1>7, <3>1, SeqMonotonic
    <3> QED BY <2>2, <3>2 DEF ChainInv, IssuedInv
  <2> QED BY <1>1, <2>1, <2>2
<1>12. AssemblyInv'
  <2> SUFFICES ASSUME NEW t \in signed', CommitsToSigs(t.data)
               PROVE  \E q \in issued' :
                        /\ t.sig.key = q.device
                        /\ t = q.proof.stages[Len(q.proof.stages)]
                        /\ t.data = Hash(PriorSigs(q.proof.stages))
    BY DEF AssemblyInv
  <2>1. CASE t = st
    BY <1>4, <1>6, <1>7, <1>8, <1>9, <2>1
  <2>2. CASE t \in signed
    BY <1>7, <2>2 DEF ChainInv, AssemblyInv
  <2> QED BY <1>1, <2>1, <2>2
<1>13. DraftInv'
  <2> SUFFICES ASSUME NEW e \in Devices, draft'[e] # None
               PROVE  /\ draft'[e] = draft[e]
                      /\ draft'[e].stages \in Seq(signed')
    BY DEF ChainInv, DraftInv
  <2>1. draft'[e] = draft[e]
    BY <1>1, <1>2
  <2>2. draft[e].stages \in Seq(signed)
    BY <2>1 DEF ChainInv, DraftInv
  <2> QED BY <1>7, <2>1, <2>2, SeqMonotonic
<1>14. WireInv' /\ VerdictInv'
  <2>1. WireInv'
    BY <1>1, <1>7, MoreSigned DEF ChainInv
  <2>2. VerdictInv'
    BY <1>1 DEF ChainInv, VerdictInv
  <2> QED BY <2>1, <2>2
<1>15. DOMAIN draft' = Devices
  BY <1>1, <1>2
<1> QED BY <1>10, <1>11, <1>12, <1>13, <1>14, <1>15 DEF ChainInv

---------------------------------------------------------------------------
(* The invariant is inductive: the relay and the verifier *)

\* A sequence over well-formed stages with genuine signatures is one.
LEMMA GoodFromSet ==
  ASSUME NEW S, NEW s \in Seq(S), \A st \in S : StageForm(st) /\ Genuine(st.sig)
  PROVE  GoodStages(s)
<1>1. Len(s) \in Nat /\ DOMAIN s = 1 .. Len(s) /\ \A i \in 1 .. Len(s) : s[i] \in S
  BY LenProperties, ElementOfSeq
<1>2. Range(s) \subseteq S
  BY <1>1 DEF Range
<1>3. s \in Seq(Range(s))
  BY <1>1 DEF Range
<1> QED BY <1>2, <1>3 DEF GoodStages

\* What devices signed is well formed and genuine.
LEMMA SignedIsGood ==
  ASSUME SignedInv, NEW st \in signed
  PROVE  StageForm(st) /\ Genuine(st.sig)
BY DEF SignedInv, Genuine

\* Rewriting a good stage never makes a signature of a device.
LEMMA RewritesAreGood ==
  ASSUME NEW st, StageForm(st), Genuine(st.sig), NEW t \in Rewrites(st)
  PROVE  StageForm(t) /\ Genuine(t.sig)
<1>1. CASE \E v : \/ t = [st EXCEPT !.stage = v] \/ t = [st EXCEPT !.ts = v]
                 \/ t = [st EXCEPT !.data = v] \/ t = [st EXCEPT !.prev = v]
  <2>1. t.sig = st.sig /\ DOMAIN t = DOMAIN st
    BY <1>1 DEF StageForm
  <2> QED BY <2>1 DEF StageForm
<1>2. CASE \E k \in OtherKeys \cup {None} : \E m :
             t = [st EXCEPT !.sig = Signature(k, m, "low")]
  <2>0. PICK k \in OtherKeys \cup {None} :
               \E m : t = [st EXCEPT !.sig = Signature(k, m, "low")]
    BY <1>2
  <2>1. PICK m : t = [st EXCEPT !.sig = Signature(k, m, "low")]
    BY <2>0
  <2>2. t.sig = Signature(k, m, "low") /\ DOMAIN t = DOMAIN st
    BY <2>1 DEF StageForm
  <2>3. t.sig.key = k /\ t.sig = Signature(t.sig.key, t.sig.msg, t.sig.s)
    BY <2>2 DEF Signature
  <2>4. k \notin Devices
    BY <2>0, KeysAssumption
  <2> QED BY <2>2, <2>3, <2>4 DEF StageForm, Genuine
<1>3. CASE \E s : t = [st EXCEPT !.sig.s = s]
  <2>1. PICK s : t = [st EXCEPT !.sig.s = s]
    BY <1>3
  <2>2. t.sig = [st.sig EXCEPT !.s = s] /\ DOMAIN t = DOMAIN st
    BY <2>1 DEF StageForm
  <2>3. st.sig = [key |-> st.sig.key, msg |-> st.sig.msg, s |-> st.sig.s]
    BY DEF StageForm, Signature
  <2>4. t.sig = [key |-> st.sig.key, msg |-> st.sig.msg, s |-> s]
    BY <2>2, <2>3
  <2>5. t.sig.key = st.sig.key /\ t.sig.msg = st.sig.msg
        /\ t.sig = Signature(t.sig.key, t.sig.msg, t.sig.s)
    BY <2>4 DEF Signature
  <2> QED BY <2>2, <2>5 DEF StageForm, Genuine
<1> QED BY <1>1, <1>2, <1>3 DEF Rewrites, NoSignature

\* Every edit leaves good stages.
LEMMA EditedStagesAreGood ==
  ASSUME ChainInv, wire # None,
         \/ RemoveStage \/ InsertStage \/ RewriteStage \/ EditField \/ RestateClaim
  PROVE  "stages" \in DOMAIN wire' /\ GoodStages(wire'.stages)
<1> DEFINE w == wire.stages
<1>1. /\ "stages" \in DOMAIN wire /\ w \in Seq(Range(w))
      /\ \A st \in Range(w) : StageForm(st) /\ Genuine(st.sig)
  BY DEF ChainInv, WireInv, GoodStages
<1>2. Len(w) \in Nat /\ DOMAIN w = 1 .. Len(w) /\ \A i \in 1 .. Len(w) : w[i] \in Range(w)
  BY <1>1, LenProperties, ElementOfSeq
<1>3. \A s : WithStages(s).stages = s /\ "stages" \in DOMAIN WithStages(s)
  BY <1>1 DEF WithStages
<1> HIDE DEF w
<1>4. CASE RemoveStage
  <2>1. PICK i \in DOMAIN w : wire' = WithStages(RemoveAt(w, i))
    BY <1>4 DEF RemoveStage, Edit, w
  <2>2. SubSeq(w, 1, i - 1) \in Seq(Range(w)) /\ SubSeq(w, i + 1, Len(w)) \in Seq(Range(w))
    BY <1>2, SubSeqProperties
  <2>3. RemoveAt(w, i) \in Seq(Range(w))
    BY <2>2, ConcatProperties DEF RemoveAt
  <2> QED BY <1>1, <1>3, <2>1, <2>3, GoodFromSet
<1>5. CASE InsertStage
  <2>1. PICK i \in 1 .. Len(w) + 1, st \in signed : wire' = WithStages(InsertAt(w, i, st))
    BY <1>5 DEF InsertStage, Edit, w
  <2> DEFINE S == Range(w) \cup {st}
  <2>2. SubSeq(w, 1, i - 1) \in Seq(S) /\ SubSeq(w, i, Len(w)) \in Seq(S)
    BY <1>2, SubSeqProperties
  <2>3. <<st>> \in Seq(S)
    OBVIOUS
  <2>4. InsertAt(w, i, st) \in Seq(S)
    BY <2>2, <2>3, ConcatProperties DEF InsertAt
  <2>5. \A t \in S : StageForm(t) /\ Genuine(t.sig)
    BY <1>1, SignedIsGood DEF ChainInv
  <2> HIDE DEF S
  <2> QED BY <1>3, <2>1, <2>4, <2>5, GoodFromSet
<1>6. CASE RewriteStage
  <2>1. PICK i \in DOMAIN w : \E st \in Rewrites(w[i]) : wire' = WithStages([w EXCEPT ![i] = st])
    BY <1>6 DEF RewriteStage, Edit, w
  <2>2. PICK st \in Rewrites(w[i]) : wire' = WithStages([w EXCEPT ![i] = st])
    BY <2>1
  <2> DEFINE S == Range(w) \cup {st}
  <2>3. StageForm(st) /\ Genuine(st.sig)
    BY <1>1, <1>2, RewritesAreGood
  <2>4. w \in Seq(S)
    BY <1>1, SeqMonotonic
  <2>5. [w EXCEPT ![i] = st] \in Seq(S)
    BY <1>2, <2>4, ExceptSeq
  <2>6. \A t \in S : StageForm(t) /\ Genuine(t.sig)
    BY <1>1, <2>3
  <2> HIDE DEF S
  <2> QED BY <1>3, <2>2, <2>5, <2>6, GoodFromSet
<1>7. CASE EditField
  <2>1. wire'.stages = wire.stages /\ DOMAIN wire' = DOMAIN wire
    <3>1. PICK e \in FieldEdits : wire' = [wire EXCEPT ![e[1]] = e[2]]
      BY <1>7 DEF EditField, Edit
    <3>2. e[1] # "stages"
      BY DEF FieldEdits, ContentFields
    <3> QED BY <1>1, <3>1, <3>2
  <2> QED BY <1>1, <2>1 DEF ChainInv, WireInv
<1>8. CASE RestateClaim
  <2>1. PICK c \in Contents : wire' = Restated(c)
    BY <1>8 DEF RestateClaim, Edit
  <2>2. \A i \in DOMAIN w : \E data, prev :
          wire'.stages[i] = [w[i] EXCEPT !.data = data, !.prev = prev]
    BY <1>1, <2>1 DEF Restated, w
  <2>3. "stages" \in DOMAIN wire' /\ DOMAIN wire'.stages = DOMAIN w
        /\ wire'.stages = [i \in DOMAIN w |-> wire'.stages[i]]
    BY <1>1, <2>1 DEF Restated, w
  <2> DEFINE s == wire'.stages
             S == Range(s)
  <2>4. \A i \in DOMAIN w : StageForm(s[i]) /\ Genuine(s[i].sig)
    <3> SUFFICES ASSUME NEW i \in DOMAIN w
                 PROVE  StageForm(s[i]) /\ Genuine(s[i].sig)
      OBVIOUS
    <3>1. PICK data, prev : s[i] = [w[i] EXCEPT !.data = data, !.prev = prev]
      BY <2>2
    <3>2. StageForm(w[i]) /\ Genuine(w[i].sig)
      BY <1>1, <1>2
    <3>3. s[i].sig = w[i].sig /\ DOMAIN s[i] = DOMAIN w[i]
      BY <3>1, <3>2 DEF StageForm
    <3> QED BY <3>2, <3>3 DEF StageForm
  <2>5. \A st \in S : StageForm(st) /\ Genuine(st.sig)
    BY <2>3, <2>4 DEF Range
  <2>6. \A i \in 1 .. Len(w) : s[i] \in S
    BY <1>2, <2>3 DEF Range
  <2>7. s = [i \in 1 .. Len(w) |-> s[i]]
    BY <1>2, <2>3
  <2> HIDE DEF s, S
  <2>8. [i \in 1 .. Len(w) |-> s[i]] \in Seq(S)
    BY <1>2, <2>6
  <2>9. s \in Seq(S)
    BY <2>7, <2>8
  <2>10. GoodStages(s)
    BY <2>5, <2>9, GoodFromSet
  <2> QED BY <2>3, <2>10 DEF s
<1> QED BY <1>4, <1>5, <1>6, <1>7, <1>8

\* No step of the relay or the verifier signs or issues anything.
LEMMA RelayChainInv ==
  ASSUME ChainInv, RelayStep
  PROVE  ChainInv'
<1>1. UNCHANGED <<clock, draft, used, signed, issued, verdict>> /\ verdict = None
  BY DEF RelayStep, Relay, RemoveStage, InsertStage, RewriteStage, EditField,
         RestateClaim, Edit
<1>2. \A sig : Genuine(sig)' <=> Genuine(sig)
  BY <1>1 DEF Genuine
<1>3. WireInv'
  <2>1. CASE Relay
    <3>1. PICK r \in issued : wire' = r.proof
      BY <2>1 DEF Relay
    <3>2. "stages" \in DOMAIN r.proof /\ r.proof.stages \in Seq(signed)
      BY DEF ChainInv, IssuedInv
    <3>3. GoodStages(r.proof.stages)
      BY <3>2, SignedIsGood, GoodFromSet DEF ChainInv
    <3> QED BY <1>2, <3>1, <3>2, <3>3 DEF WireInv, GoodStages
  <2>2. CASE RemoveStage \/ InsertStage \/ RewriteStage \/ EditField \/ RestateClaim
    <3>1. wire # None
      BY <2>2 DEF RemoveStage, InsertStage, RewriteStage, EditField, RestateClaim, Edit
    <3>2. "stages" \in DOMAIN wire' /\ GoodStages(wire'.stages)
      BY <2>2, <3>1, EditedStagesAreGood
    <3> QED BY <1>2, <3>2 DEF WireInv, GoodStages
  <2> QED BY <2>1, <2>2 DEF RelayStep
<1>4. DraftInv' /\ SignedInv' /\ IssuedInv' /\ AssemblyInv' /\ VerdictInv'
  BY <1>1 DEF ChainInv, DraftInv, SignedInv, IssuedInv, AssemblyInv, VerdictInv
<1> QED BY <1>1, <1>3, <1>4 DEF ChainInv

\* The answer is the recipe's, on the proof at hand under the resolved key.
LEMMA VerifyChainInv ==
  ASSUME ChainInv, VerifyWire
  PROVE  ChainInv'
<1>1. UNCHANGED <<clock, draft, used, signed, issued, wire, edits>> /\ wire # None
  BY DEF VerifyWire
<1>2. VerdictInv'
  <2>1. PICK o \in Options :
          verdict' = IF KeyConflict(wire, o.pin)
                     THEN [opts |-> o, key |-> None, report |-> None]
                     ELSE LET key == ResolvedKey(wire, o.pin) IN
                            [opts |-> o, key |-> key,
                             report |-> VerifyProof(wire, key, o, clock)]
    BY DEF VerifyWire
  <2>2. CASE KeyConflict(wire, o.pin)
    <3>1. verdict'.key = None
      BY <2>1, <2>2
    <3> QED BY <3>1 DEF VerdictInv
  <2>3. CASE ~KeyConflict(wire, o.pin)
    <3> DEFINE key == ResolvedKey(wire, o.pin)
    <3>1. verdict' = [opts |-> o, key |-> key, report |-> VerifyProof(wire, key, o, clock)]
      BY <2>1, <2>3
    <3> HIDE DEF key
    <3>2. verdict'.opts = o /\ verdict'.key = key
          /\ verdict'.report = VerifyProof(wire, key, o, clock)
      BY <3>1
    <3>3. verdict'.report = VerifyProof(wire', verdict'.key, verdict'.opts, clock')
      BY <1>1, <3>2
    <3> QED BY <1>1, <3>3 DEF VerdictInv
  <2> QED BY <2>2, <2>3
<1>3. /\ DraftInv' /\ SignedInv' /\ IssuedInv' /\ AssemblyInv' /\ WireInv'
  BY <1>1 DEF ChainInv, DraftInv, SignedInv, IssuedInv, AssemblyInv, WireInv,
              GoodStages, Genuine
<1> QED BY <1>1, <1>2, <1>3 DEF ChainInv

LEMMA DeliverChainInv ==
  ASSUME ChainInv, Deliver
  PROVE  ChainInv'
BY DEF Deliver, ChainInv, DraftInv, SignedInv, IssuedInv, AssemblyInv, WireInv, VerdictInv

LEMMA TickChainInv ==
  ASSUME ChainInv, Tick
  PROVE  ChainInv'
BY DEF Tick, ChainInv, DraftInv, SignedInv, IssuedInv, AssemblyInv, WireInv, VerdictInv,
       GoodStages, Genuine

---------------------------------------------------------------------------
(* Theorems *)

\* Well-formedness and genuineness of everything signed, issued or relayed hold
\* in every reachable state.
THEOREM ChainInvariant == Spec => []ChainInv
<1>1. ChainInv /\ [Next]_vars => ChainInv'
  <2> SUFFICES ASSUME ChainInv, [Next]_vars PROVE ChainInv'
    OBVIOUS
  <2>1. CASE \E d \in Devices : Begin(d) \/ SignStage(d) \/ Assemble(d)
    BY <2>1, BeginChainInv, SignStageChainInv, AssembleChainInv
  <2>2. CASE Tick
    BY <2>2, TickChainInv
  <2>3. CASE RelayStep
    BY <2>3, RelayChainInv
  <2>4. CASE VerifyWire
    BY <2>4, VerifyChainInv
  <2>5. CASE Deliver
    BY <2>5, DeliverChainInv
  <2>6. CASE UNCHANGED vars
    BY <2>6 DEF vars, ChainInv, DraftInv, SignedInv, IssuedInv, AssemblyInv, WireInv,
                VerdictInv, GoodStages, Genuine
  <2> QED BY <2>1, <2>2, <2>3, <2>4, <2>5, <2>6 DEF Next, DeviceStep
<1> QED BY <1>1, InitChainInv, PTL DEF Spec

\* The verifier never accepts a proof whose chain is not, stage by stage and
\* signature by signature, that of one proof the device finished: whatever the
\* relay drops, adds, reorders, rewrites or takes from other proofs, and however
\* many edits it makes (src/verify.rs check_linkage, check_signatures,
\* check_assembly, add_field_bindings together).
THEOREM AuthenticIsIssuedTheorem == Spec => []AuthenticIsIssued
BY ChainInvariant, ChainInvImpliesIssued, PTL
=============================================================================
