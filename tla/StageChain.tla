----------------------------- MODULE StageChain -----------------------------
(***************************************************************************)
(* A proof from the device that signs it to the verifier that judges it.   *)
(*                                                                         *)
(* Devices sign the stages of a proof one at a time and assemble them; an  *)
(* untrusted relay (the backend, a file, a person) holds every stage ever  *)
(* signed and hands the verifier a proof it may have edited; the verifier  *)
(* runs the recipe of module Verify.  The device SDK and the relay are not *)
(* in this repository: the device is modelled from the signing rules the   *)
(* verifier's helpers mirror and the tests rebuild (src/verify.rs), the    *)
(* relay as any sequence of at most MaxEdits edits of what was issued.     *)
(***************************************************************************)
EXTENDS Verify, SequencesExt

CONSTANTS
  Devices,      \* hardware keys that sign by the rules
  OtherKeys,    \* P-256 keys that belong to no device
  Contents,     \* what a device may be asked to prove
  Options,      \* the verifier's options
  MaxEdits,     \* bound: edits of one relayed proof
  Instants      \* bound: the times the clock can show, 0 the first

VARIABLES
  clock,
  draft,     \* per device: the proof it is signing, or None
  used,      \* contents already proved: a nullifier is never signed twice
  signed,    \* every stage any device signed
  issued,    \* finished proofs, with their device and content
  wire,      \* the proof in the relay's hands, or None
  edits,     \* how often it was edited
  verdict    \* the verifier's answer about it, or None

vars == <<clock, draft, used, signed, issued, wire, edits, verdict>>

\* The device signs the content's stages in the order of its plan and then
\* proofAssembly; the first stage is never one of the field-binding stages.
ASSUME ContentsAssumption ==
  \A c \in Contents :
    /\ c.plan \in Seq(STRING)
    /\ Len(c.plan) > 0
    /\ c.plan[1] # "nullifier"
    /\ \A i \in DOMAIN c.plan : c.plan[i] # "proofAssembly"

\* A region is asked about only under v3, and by a type of its own; an uncertainty is
\* signed and content committed to where there is some, and the SDK refuses to sign
\* an uncertainty without a preimage.
ASSUME ClaimsAssumption ==
  \A c \in Contents :
    /\ c.version \in {"v1", "v2", "v3"}
    /\ c.query # None =>
         /\ c.version = "v3"
         /\ c.query = [type |-> c.query.type, id |-> c.query.id]
         /\ c.query.type # "none"
    /\ "uncertaintyFields" \in Range(c.plan) => c.uncertainty # None /\ HasPreimage(c.uncertainty)
    /\ "callerMetadata" \in Range(c.plan) =>
         /\ c.metadata # None
         /\ \A i \in DOMAIN c.metadata :
              /\ c.metadata[i].salt \in Seq(Range(c.metadata[i].salt))
              /\ c.metadata[i].value \in Seq(Range(c.metadata[i].value))

\* An envelope echoes three values, a window and an age limit are times, and what
\* could be read of presented content is a sequence of bytes.
ASSUME OptionsAssumption ==
  \A o \in Options :
    /\ o.maxAge \in Int
    /\ o.window # None => o.window.from \in Int /\ o.window.to \in Int
    /\ o.echo # None =>
         o.echo = [nonce |-> o.echo.nonce, nullifier |-> o.echo.nullifier,
                   signedTime |-> o.echo.signedTime]
    /\ \A i \in DOMAIN o.presented.content :
         LET shown == o.presented.content[i] IN
           /\ shown.value # None => shown.value \in Seq(Range(shown.value))
           /\ shown.salt # None => shown.salt \in Seq(Range(shown.salt))
    /\ o.presented.manifest # None => \A i \in DOMAIN o.presented.manifest :
         LET salt == o.presented.manifest[i].salt IN salt \in Seq(Range(salt))

ASSUME InstantsAssumption == Instants \subseteq Int

ASSUME KeysAssumption == Devices \cap OtherKeys = {} /\ None \notin Devices \cup OtherKeys

---------------------------------------------------------------------------
(* The device *)

SemanticPreimage(c) ==
  CASE c.version = "v1" -> PreimageV1(c)
    [] c.version = "v2" -> PreimageV2(c)
    [] OTHER -> PreimageV3(c)

\* The entries of a content's metadata, and the same as field 19.
Entries(c) ==
  [i \in DOMAIN c.metadata |->
     [key |-> c.metadata[i].key, type |-> c.metadata[i].type,
      size |-> Len(c.metadata[i].value), salt |-> c.metadata[i].salt,
      digest |-> EntryDigest(c.metadata[i].salt, c.metadata[i].value)]]
Field19(c) ==
  IF c.metadata = None THEN None
  ELSE [i \in DOMAIN c.metadata |-> Committed(Entries(c))[i] @@ [locator |-> "id"]]

\* The hash a stage of a content's plan commits to.
StageData(c, name) ==
  CASE name = "commitment"        -> Hash(FieldBytes(c.commitment))
    [] name = "nullifier"         -> Hash(FieldBytes(c.nullifier))
    [] name = "zkProof"           -> Hash(FieldBytes(c.zk))
    [] name = "semanticFields"    -> Hash(SemanticPreimage(c))
    [] name = "uncertaintyFields" -> Hash(UncertaintyBytes(c.uncertainty))
    [] name = "sessionBinding"    -> Hash(SessionBytes(c.nonce))
    [] name = "uploadChallenge"   -> Hash(FieldBytes(c.upload))
    [] name = "callerMetadata"    -> Hash(MetadataBytes(Entries(c)))
    [] OTHER                      -> Hash(FieldBytes(name))

\* Mutant of SignedStage: signed before it is linked to the stage before it.
SignedStageUnlinked(d, stages, name, data) ==
  LET prev == IF stages = <<>> THEN Absent ELSE stages[Len(stages)].data
      unlinked == [stage |-> name, data |-> data, ts |-> clock, prev |-> Absent]
  IN [stage |-> name, data |-> data, ts |-> clock, prev |-> prev,
      sig |-> Signature(d, StageMessage(unlinked), "low")]

\* A new stage after `stages`, signed at the present instant.
SignedStage(d, stages, name, data) ==
  LET prev == IF stages = <<>> THEN Absent ELSE stages[Len(stages)].data
      unsigned == [stage |-> name, data |-> data, ts |-> clock, prev |-> prev]
  IN [stage |-> name, data |-> data, ts |-> clock, prev |-> prev,
      sig |-> Signature(d, StageMessage(unsigned), "low")]

Begin(d) ==
  /\ verdict = None
  /\ draft[d] = None
  /\ \E c \in Contents \ used :
       /\ draft' = [draft EXCEPT ![d] = [content |-> c, stages |-> <<>>]]
       /\ used' = used \cup {c}
  /\ UNCHANGED <<clock, signed, issued, wire, edits, verdict>>

SignStage(d) ==
  /\ verdict = None
  /\ draft[d] # None
  /\ LET c == draft[d].content
         n == Len(draft[d].stages)
     IN /\ n < Len(c.plan)
        /\ LET st == SignedStage(d, draft[d].stages, c.plan[n + 1],
                                 StageData(c, c.plan[n + 1]))
           IN /\ draft' = [draft EXCEPT ![d].stages = Append(@, st)]
              /\ signed' = signed \cup {st}
  /\ UNCHANGED <<clock, used, issued, wire, edits, verdict>>

\* The finished proof of a content.
ProofOf(d, c, stages, ts) ==
  [stages |-> stages, timestamp |-> ts, nullifier |-> c.nullifier,
   commitment |-> c.commitment, zk |-> c.zk, spoofing |-> c.spoofing,
   level |-> c.level, integrity |-> c.integrity, region |-> c.region, locv |-> c.locv,
   query |-> c.query, uncertainty |-> c.uncertainty, manifest |-> Field19(c), platform |-> "ios",
   chainKey |-> d]

Assemble(d) ==
  /\ verdict = None
  /\ draft[d] # None
  /\ LET c      == draft[d].content
         stages == draft[d].stages
         data   == Hash(<<"sigs", [i \in DOMAIN stages |-> stages[i].sig]>>)
         st     == SignedStage(d, stages, "proofAssembly", data)
     IN /\ Len(stages) = Len(c.plan)
        /\ signed' = signed \cup {st}
        /\ issued' = issued \cup
             {[device |-> d, content |-> c,
               proof |-> ProofOf(d, c, Append(stages, st), clock)]}
  /\ draft' = [draft EXCEPT ![d] = None]
  /\ UNCHANGED <<clock, used, wire, edits, verdict>>

Tick ==
  /\ verdict = None
  /\ \E t \in Instants : clock < t /\ clock' = t
  /\ UNCHANGED <<draft, used, signed, issued, wire, edits, verdict>>

---------------------------------------------------------------------------
(* The relay *)

\* The relay takes up an issued proof, dropping the one it had.
Relay ==
  /\ verdict = None
  /\ \E r \in issued : wire' = r.proof
  /\ edits' = 0
  /\ UNCHANGED <<clock, draft, used, signed, issued, verdict>>

Edit(proofs) ==
  /\ verdict = None
  /\ wire # None
  /\ edits < MaxEdits
  /\ wire' \in proofs
  /\ edits' = edits + 1
  /\ UNCHANGED <<clock, draft, used, signed, issued, verdict>>

WithStages(stages) == [wire EXCEPT !.stages = stages]

RemoveStage ==
  Edit({WithStages(RemoveAt(wire.stages, i)) : i \in DOMAIN wire.stages})

InsertStage ==
  Edit({WithStages(InsertAt(wire.stages, i, st)) :
          i \in 1 .. Len(wire.stages) + 1, st \in signed})

\* A stage re-written in place: renamed, re-timed, re-hashed or re-linked under
\* its old signature, the signature replaced by its S-twin or dropped, or the
\* stage signed again by a key the relay owns.
Rewrites(st) ==
  {[st EXCEPT !.stage = t.stage] : t \in signed}
  \cup {[st EXCEPT !.ts = t] : t \in Instants}
  \cup {[st EXCEPT !.data = t.data] : t \in signed}
  \cup {[st EXCEPT !.prev = b] : b \in {Absent, EmptyBytes} \cup {t.data : t \in signed}}
  \cup {[st EXCEPT !.sig = NoSignature]}
  \cup {[st EXCEPT !.sig = Signature(k, StageMessage(st), "low")] : k \in OtherKeys}
  \cup {[st EXCEPT !.sig.s = s] : s \in {"low", "high"}}

RewriteStage ==
  Edit(UNION {{WithStages([wire.stages EXCEPT ![i] = st]) : st \in Rewrites(wire.stages[i])} :
              i \in DOMAIN wire.stages})

\* A field outside the chain replaced by another content's, or by nothing.
ContentFields == {"nullifier", "commitment", "zk", "spoofing", "level", "integrity", "region",
                  "locv", "query", "uncertainty"}

\* Field 20 with its cells the other way round, or with a status of no use.
UncertaintyEdits(u) ==
  IF u = None THEN {}
  ELSE {[u EXCEPT !.region.numbers = Reverse(@)], [u EXCEPT !.status = "unspecified"]}

\* Field 19 as it is, left out, or with another size, type or locator.
ManifestEdits(field) ==
  {None, field} \cup IF field = None THEN {} ELSE
    {[field EXCEPT ![1].size = @ + 1], [field EXCEPT ![1].type = Empty],
     [field EXCEPT ![1].locator = "credential"]}

FieldEdits ==
  {<<f, c[f]>> : f \in ContentFields, c \in Contents}
  \cup {<<"nullifier", Empty>>, <<"nullifier", ZeroNullifier>>, <<"commitment", Empty>>,
        <<"zk", None>>, <<"uncertainty", None>>, <<"query", None>>,
        <<"query", [type |-> "none", id |-> Empty]>>, <<"platform", "other">>}
  \cup {<<"timestamp", t>> : t \in Instants}
  \cup {<<"uncertainty", u>> : u \in UNION {UncertaintyEdits(c.uncertainty) : c \in Contents}}
  \cup {<<"manifest", f>> : f \in UNION {ManifestEdits(Field19(c)) : c \in Contents}}
  \cup {<<"chainKey", k>> : k \in Devices \cup OtherKeys \cup {None}}

EditField == Edit({[wire EXCEPT ![e[1]] = e[2]] : e \in FieldEdits})

\* The claim of another content put in place of the signed one: its semantic
\* fields, the stage hash that matches them and the link to it, under the old
\* signatures.  Anyone can compute a hash.
Restated(c) ==
  LET claim == Hash(SemanticPreimage(c))
      Claims(i) == wire.stages[i].stage = "semanticFields"
      data(i) == IF Claims(i) THEN claim ELSE wire.stages[i].data
      prev(i) == IF i > 1 /\ Claims(i - 1) THEN claim ELSE wire.stages[i].prev
  IN [wire EXCEPT !.spoofing = c.spoofing, !.level = c.level, !.integrity = c.integrity,
                  !.region = c.region, !.locv = c.locv, !.query = c.query, !.commitment = c.commitment,
                  !.stages = [i \in DOMAIN wire.stages |->
                    [wire.stages[i] EXCEPT !.data = data(i), !.prev = prev(i)]]]

RestateClaim == Edit({Restated(c) : c \in Contents})

---------------------------------------------------------------------------
(* The verifier *)

\* One verification: the key is resolved, a conflict of pin and chain is an
\* error, and the recipe is run on the proof at hand.
VerifyWire ==
  /\ verdict = None
  /\ wire # None
  /\ \E o \in Options :
       verdict' = IF KeyConflict(wire, o.pin)
                  THEN [opts |-> o, key |-> None, report |-> None]
                  ELSE LET key == ResolvedKey(wire, o.pin) IN
                         [opts |-> o, key |-> key,
                          report |-> VerifyProof(wire, key, o, clock)]
  /\ UNCHANGED <<clock, draft, used, signed, issued, wire, edits>>

\* The answer is delivered and the verifier waits for the next proof.
Deliver ==
  /\ verdict # None
  /\ verdict' = None
  /\ wire' = None
  /\ edits' = 0
  /\ UNCHANGED <<clock, draft, used, signed, issued>>

---------------------------------------------------------------------------
Init ==
  /\ clock = 0
  /\ draft = [d \in Devices |-> None]
  /\ used = {}
  /\ signed = {}
  /\ issued = {}
  /\ wire = None
  /\ edits = 0
  /\ verdict = None

DeviceStep == \E d \in Devices : Begin(d) \/ SignStage(d) \/ Assemble(d)
RelayStep == Relay \/ RemoveStage \/ InsertStage \/ RewriteStage \/ EditField \/ RestateClaim
Next == DeviceStep \/ Tick \/ RelayStep \/ VerifyWire \/ Deliver

Spec == Init /\ [][Next]_vars

---------------------------------------------------------------------------
(* Properties *)

\* The verifier accepted the proof at hand as authentic under a device's key.
Accepted ==
  /\ verdict # None
  /\ verdict.key \in Devices
  /\ IsAuthentic(verdict.report.checks)

\* Two stages that sign the same message.
SameStage(a, b) == StageMessage(a) = StageMessage(b)

\* The same chain, up to the S parity of the last signature, which nothing
\* after it commits to.
SameChain(a, b) ==
  /\ Len(a) = Len(b)
  /\ \A i \in DOMAIN a :
       /\ SameStage(a[i], b[i])
       /\ IF i < Len(a) THEN a[i].sig = b[i].sig
          ELSE CanonicalSig(a[i].sig) = CanonicalSig(b[i].sig)

\* The issued proofs whose chain the accepted proof carries.
Origins == {r \in issued : r.device = verdict.key /\ SameChain(wire.stages, r.proof.stages)}

\* An accepted proof carries the whole chain of one proof its device finished:
\* no stage was dropped, added, reordered, rewritten or taken from another
\* proof, and the device did not stop half way.  Linkage, signatures and
\* assembly each look at a part of this (src/verify.rs check_linkage,
\* check_signatures, check_assembly); none gives it alone.
AuthenticIsIssued == Accepted => Origins # {}

\* The nullifier and commitment shown beside an accepted chain are those the
\* device signed, and the ZK proof is too unless it was taken out altogether
\* (add_field_bindings).
VisibleFieldsAreSigned ==
  Accepted => \A r \in Origins :
    /\ wire.nullifier = r.content.nullifier
    /\ "commitment" \in {r.content.plan[i] : i \in DOMAIN r.content.plan} =>
         wire.commitment = r.content.commitment
    /\ wire.zk \in {None, Empty, r.content.zk}

\* When an accepted proof is semantically bound, everything a consumer reads
\* off the report and the claim was signed with it: verdict tier, level, the
\* platform's integrity status, the region with its geometry, the commitment, the
\* inside/outside answer and the region it answers about, whichever of the three
\* versions bound them (add_semantic_binding, add_query_region_v3).
SemanticFieldsAreSigned ==
  Accepted /\ IsSemanticallyBound(verdict.report.checks) =>
    \A r \in Origins :
      /\ wire.spoofing = r.content.spoofing
      /\ wire.level = r.content.level
      /\ wire.integrity = r.content.integrity
      /\ RegionV2(wire.region) = RegionV2(r.content.region)
      /\ wire.commitment = r.content.commitment
      /\ verdict.report.locv \in {None, SignedVerdict(r.content.locv)}
      /\ verdict.report.query \in {None, r.content.query}
      /\ wire.query = r.content.query

\* An exposed query always comes with the answer signed for it: the report never
\* pairs a query with no verdict, or with a verdict signed for another proof.
QueryHasItsAnswer ==
  Accepted /\ verdict.report.query # None =>
    /\ verdict.report.locv # None
    /\ \A r \in Origins : verdict.report.locv = r.content.locv /\ r.content.version = "v3"

\* An accepted proof shows the uncertainty its device signed, in one stage and up to
\* the order of an H3 set's cells, and shows none when none was signed: a field 20
\* that was stripped, put on another proof or signed twice is noticed
\* (add_uncertainty_binding).
UncertaintyIsSigned ==
  Accepted => \A r \in Origins :
    LET stages == {i \in DOMAIN r.content.plan : r.content.plan[i] = "uncertaintyFields"} IN
      \/ stages = {} /\ wire.uncertainty = None
      \/ /\ Cardinality(stages) = 1
         /\ wire.uncertainty # None
         /\ AsSigned(wire.uncertainty) = AsSigned(r.content.uncertainty)

\* Freshness is judged on the time the device signed at assembly: a fresh
\* accepted proof was assembled less than a second outside the age limit, or
\* inside the window, no matter what the unbound timestamp says and which stages
\* were relayed.
FreshMeansAssembledInTime ==
  Accepted /\ IsFresh(verdict.report.checks) => \A r \in Origins :
    LET assembled == r.proof.stages[Len(r.proof.stages)].ts
        o == verdict.opts
        skew == FutureSkew * MsPerS
    IN IF o.window = None
       THEN -MsPerS < clock - assembled /\ clock - assembled < (o.maxAge + 1) * MsPerS
       ELSE assembled \in o.window.from - skew .. o.window.to + skew

\* A relying party that supplies its login nonce accepts only a proof made for
\* that login (src/session.rs check_session_binding).
SessionIsThisLogin ==
  Accepted /\ verdict.opts.nonce # None => \A r \in Origins :
    r.content.nonce = verdict.opts.nonce

\* The ingestion backend dedups on the values an envelope echoes without decoding
\* the proof; "the verifier confirms each surfaced value equals what the proof
\* actually signed" (src/replay.rs): with a passing replay binding, the nonce,
\* the nullifier and the time it saw are those the device signed.
EchoIsSigned ==
  Accepted /\ Check("replay-binding", "pass") \in verdict.report.checks =>
    \A r \in Origins :
      verdict.opts.echo = [nonce |-> r.content.upload, nullifier |-> r.content.nullifier,
                           signedTime |-> r.proof.stages[Len(r.proof.stages)].ts]

\* Content accepted with a proof is what the device bound into it: each presented
\* value is the whole value committed under its key, though the stage signs only a
\* digest of salt and value and the presenter says which is which; and a value
\* that must be seen was (src/caller_metadata.rs check_caller_metadata).
ContentIsSigned ==
  Accepted /\ Check("caller-metadata", "pass") \in verdict.report.checks =>
    LET in == verdict.opts.presented IN \A r \in Origins :
      /\ \A i \in DOMAIN in.content : \E j \in DOMAIN r.content.metadata :
           /\ r.content.metadata[j].key = in.content[i].key
           /\ r.content.metadata[j].value = in.content[i].value
      /\ {r.content.metadata[j].key : j \in
            {k \in DOMAIN r.content.metadata :
               in.requireAll \/ r.content.metadata[k].key \in in.requireKeys}}
           \subseteq {in.content[i].key : i \in DOMAIN in.content}

\* Field 19 is not signed, but the one a report exposes lists what the device
\* committed to, except for the locators, and an accepted proof shows no other
\* (Report::caller_manifest, check_caller_manifest).
ManifestIsSigned ==
  Accepted /\ wire.manifest # None => \A r \in Origins :
    /\ r.content.metadata # None
    /\ Committed(wire.manifest) = Committed(Entries(r.content))
    /\ verdict.report.manifest = wire.manifest

\* A policy the operator asked for cannot be met by a proof whose device did
\* not sign for it: an accepted proof under --require-verdict has a signed tier
\* at or above it (RequiredVerdict, add_spoofing_verdict).
RequiredTierWasSigned ==
  Accepted /\ verdict.opts.requireVerdict # None => \A r \in Origins :
    r.content.spoofing \in
      {"VERIFIED"} \cup IF verdict.opts.requireVerdict = "plausible" THEN {"PLAUSIBLE"} ELSE {}

\* A proof without its signatures.
Unsigned(p) == [p EXCEPT !.stages = [i \in DOMAIN @ |-> [@[i] EXCEPT !.sig = NoSignature]]]

\* An accepted proof whose signatures alone differ from those issued is no new
\* proof to the seen-store: it "hashes identically and cannot pose as a different
\* proof" (src/bin/octet-verify.rs canonical_proof_hash).
TwinIsNoNewProof ==
  Accepted => \A r \in Origins :
    Unsigned(wire) = Unsigned(r.proof) => CanonicalProof(wire) = CanonicalProof(r.proof)

---------------------------------------------------------------------------
(* The inductive invariant behind AuthenticIsIssued *)

\* A stage and its signature are records with all their fields.
StageForm(st) ==
  /\ DOMAIN st = {"stage", "data", "ts", "prev", "sig"}
  /\ st.sig = Signature(st.sig.key, st.sig.msg, st.sig.s)

\* What a device signed is well formed, is about the stage itself, and a
\* nullifier stage is never first.
SignedInv == \A st \in signed :
  /\ StageForm(st)
  /\ st.sig.key \in Devices
  /\ st.sig = Signature(st.sig.key, StageMessage(st), "low")
  /\ PrevBytes(st.prev) = EmptyBytes => st.stage # "nullifier"

\* The data hash commits to signatures, which only proofAssembly does.
CommitsToSigs(data) == data[2][1] = "sigs"

IssuedInv == \A r \in issued :
  /\ r.device \in Devices
  /\ r.proof.stages \in Seq(signed)
  /\ Len(r.proof.stages) > 0
  /\ \A i \in DOMAIN r.proof.stages : r.proof.stages[i].sig.key = r.device
  /\ "stages" \in DOMAIN r.proof

\* A device signs a commitment to signatures only when it finishes a proof.
AssemblyInv == \A st \in signed : CommitsToSigs(st.data) =>
  \E r \in issued :
    /\ st.sig.key = r.device
    /\ st = r.proof.stages[Len(r.proof.stages)]
    /\ st.data = Hash(PriorSigs(r.proof.stages))

DraftInv == \A d \in Devices : draft[d] # None =>
  /\ DOMAIN draft[d] = {"content", "stages"}
  /\ draft[d].content \in Contents
  /\ draft[d].stages \in Seq(signed)
  /\ \A i \in DOMAIN draft[d].stages :
       /\ draft[d].stages[i].sig.key = d
       /\ draft[d].stages[i].data = Hash(draft[d].stages[i].data[2])

\* A device's signature on the wire is one it made, up to the parity of S.
Genuine(sig) == sig.key \in Devices =>
  \E st \in signed : sig.key = st.sig.key /\ sig.msg = st.sig.msg

GoodStages(s) ==
  /\ s \in Seq(Range(s))
  /\ \A st \in Range(s) : StageForm(st) /\ Genuine(st.sig)

WireInv == wire # None => "stages" \in DOMAIN wire /\ GoodStages(wire.stages)

\* An answer is about the proof still at hand, judged at the present instant.
VerdictInv == verdict # None /\ verdict.key # None =>
  /\ wire # None
  /\ verdict.report = VerifyProof(wire, verdict.key, verdict.opts, clock)

ChainInv ==
  /\ DOMAIN draft = Devices
  /\ SignedInv
  /\ IssuedInv
  /\ AssemblyInv
  /\ DraftInv
  /\ WireInv
  /\ VerdictInv

---------------------------------------------------------------------------
(* What the accepted fields need besides *)

\* The stages so far are those of the content's plan.
FollowsPlan(stages, c) ==
  \A i \in DOMAIN stages : i <= Len(c.plan) =>
    stages[i].stage = c.plan[i] /\ stages[i].data = StageData(c, c.plan[i])

DraftPlanInv == \A d \in Devices : draft[d] # None =>
  /\ Len(draft[d].stages) <= Len(draft[d].content.plan)
  /\ FollowsPlan(draft[d].stages, draft[d].content)

\* A finished proof shows its content and ends its plan with proofAssembly.
IssuedPlanInv == \A r \in issued :
  /\ r.content \in Contents
  /\ r.proof = ProofOf(r.device, r.content, r.proof.stages, r.proof.timestamp)
  /\ Len(r.proof.stages) = Len(r.content.plan) + 1
  /\ FollowsPlan(r.proof.stages, r.content)
  /\ r.proof.stages[Len(r.proof.stages)].stage = "proofAssembly"
  /\ r.proof.stages[Len(r.proof.stages)].ts \in Int

\* The relay changes what fields hold, never which there are, and knows no query
\* but those of contents and those that stand for none.
WireFieldsInv == wire # None =>
  /\ DOMAIN wire = {"stages", "timestamp", "platform", "manifest", "chainKey"} \cup ContentFields
  /\ wire.query \in {None, [type |-> "none", id |-> Empty]} \cup {c.query : c \in Contents}

OptionsInv == verdict # None => verdict.opts \in Options

FieldInv ==
  /\ ChainInv
  /\ clock \in Int
  /\ DraftPlanInv
  /\ IssuedPlanInv
  /\ WireFieldsInv
  /\ OptionsInv
=============================================================================
