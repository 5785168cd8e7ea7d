------------------------ MODULE BrowserSessionProofs ------------------------
(***************************************************************************)
(* For every set of tokens, manifests, challenges and keys and every       *)
(* history of runs: what passes a gate is vouched for, and runs that       *)
(* follow each other neither go back to a lower revision nor to an older   *)
(* manifest, wherever a run was killed.                                    *)
(***************************************************************************)
EXTENDS BrowserSession, SequenceTheorems, FiniteSetTheorems, TLAPS

Step(r) ==
  \/ Start(r) \/ Verify(r) \/ TruncateRevisions(r) \/ FillRevisions(r) \/ NoRevisions(r)
  \/ TruncateSeq(r) \/ FillSeq(r) \/ NoSeq(r) \/ PrintReport(r) \/ WriteFails(r) \/ Crash(r)

---------------------------------------------------------------------------
(* A valid report *)

KeyOf(in)      == CHOOSE k \in Listed(in.jwks, in.token.kid) : TRUE
ManifestOf(in) == CheckManifest(in.manifest, in.min, in.now)
LinkOf(in)     == SessionLink(in.token, in.challenge, in.challengeKeys)

ManifestKeyLine(in) ==
  IF ManifestOf(in).manifest = None THEN Line("manifest-verdict-key", "notchecked")
  ELSE ListingLine("manifest-verdict-key", ManifestOf(in).manifest.verdictKeys, KeyOf(in))

\* What a valid report says of its token, line by line.
LEMMA ValidReport ==
  ASSUME NEW in, Valid(VerifyBrowser(in))
  PROVE  /\ in.token.genuine
         /\ KeyOf(in) \in Listed(in.jwks, in.token.kid)
         /\ ManifestOf(in).line.status # "failed"
         /\ ManifestKeyLine(in).status # "failed"
         /\ KeyValidity(WindowKey(ManifestOf(in).manifest, KeyOf(in)), in.token.iat).status # "failed"
         /\ ChainLine(in.token).status # "failed"
         /\ LinkOf(in).status # "failed"
         /\ ChallengeListing(ManifestOf(in).manifest, LinkOf(in), in.challenge,
                             in.challengeKeys).status # "failed"
         /\ EdgeLink(in.token, in.edge).status # "failed"
         /\ \A l \in StageLines(in.token, in.prior) : l.status # "failed"
         /\ VerifyBrowser(in).claims = in.token
         /\ VerifyBrowser(in).seq = ManifestOf(in).seq
<1> DEFINE keys == Listed(in.jwks, in.token.kid)
           lines == {Line("verdict-jws", "verified"), ManifestOf(in).line, ManifestKeyLine(in),
              KeyValidity(WindowKey(ManifestOf(in).manifest, KeyOf(in)), in.token.iat),
              Expiry(in.token, in.now), ChainLine(in.token), LinkOf(in),
              ChallengeListing(ManifestOf(in).manifest, LinkOf(in), in.challenge, in.challengeKeys),
              EdgeLink(in.token, in.edge)} \cup StageLines(in.token, in.prior)
<1>1. VerifyBrowser(in) =
        IF ~in.token.genuine \/ Cardinality(keys) # 1
        THEN [lines |-> {Line("verdict-jws", "failed")}, claims |-> None, seq |-> None]
        ELSE [lines |-> lines, claims |-> in.token, seq |-> ManifestOf(in).seq]
  BY DEF VerifyBrowser, KeyOf, ManifestOf, LinkOf, ManifestKeyLine
<1> HIDE DEF keys, lines
<1>2. in.token.genuine /\ Cardinality(keys) = 1
  BY <1>1 DEF Valid, Line
<1>3. keys # {}
  BY <1>2, FS_EmptySet
<1>4. KeyOf(in) \in keys
  BY <1>3 DEF KeyOf, keys
<1>5. \A l \in lines : l.status # "failed"
  BY <1>1, <1>2 DEF Valid
<1> QED BY <1>1, <1>2, <1>4, <1>5 DEF lines, keys

\* A manifest that does not fail is the one at hand.
LEMMA ManifestAtHand ==
  ASSUME NEW m, NEW min, NEW now, m # None, CheckManifest(m, min, now).line.status # "failed"
  PROVE  /\ CheckManifest(m, min, now).manifest = m
         /\ CheckManifest(m, min, now).seq = m.seq
         /\ m.genuine
         /\ min # None => ~(m.seq < min)
BY DEF CheckManifest, Line

LEMMA ValidIsVouched ==
  ASSUME NEW in, Valid(VerifyBrowser(in)), in.manifest # None
  PROVE  \E k \in in.manifest.verdictKeys :
           /\ k.kid = in.token.kid
           /\ \E j \in in.jwks : j.kid = k.kid /\ j.material = k.material
           /\ k.revoked # None => in.token.iat < k.revoked
<1> DEFINE m == in.manifest
           key == KeyOf(in)
           same == {k \in Listed(m.verdictKeys, key.kid) : k.material = key.material}
           window == WindowKey(m, key)
<1>1. ManifestOf(in).manifest = m
  BY ValidReport, ManifestAtHand DEF ManifestOf
<1>2. key \in in.jwks /\ key.kid = in.token.kid
  BY ValidReport DEF Listed
<1>3. ListingLine("manifest-verdict-key", m.verdictKeys, key).status # "failed"
  BY <1>1, ValidReport DEF ManifestKeyLine
<1>4. same # {}
  BY <1>3 DEF ListingLine, Line
<1>5. window \in same
  <2>1. window = CHOOSE k \in same : TRUE
    BY <1>4 DEF WindowKey
  <2> HIDE DEF same, window
  <2> QED BY <1>4, <2>1
<1>6. window \in m.verdictKeys /\ window.kid = key.kid /\ window.material = key.material
  BY <1>5 DEF Listed
<1>7. KeyValidity(window, in.token.iat).status # "failed"
  BY <1>1, ValidReport
<1>8. window.revoked # None => in.token.iat < window.revoked
  BY <1>7 DEF KeyValidity, Line
<1> HIDE DEF window, key
<1> QED BY <1>2, <1>6, <1>8

LEMMA ValidIsOfItsSession ==
  ASSUME NEW in, Valid(VerifyBrowser(in)), in.token.version \in Int, in.token.version >= 3
  PROVE  /\ in.challenge # None /\ in.challengeKeys # None =>
              /\ in.token.chain.s0 = in.challenge.id /\ in.challenge.genuine
              /\ in.challenge.sessionRef = in.token.sessionRef
              /\ in.challenge.iat <= in.token.iat
              /\ in.token.iat <= in.challenge.exp + SkewS
              /\ in.manifest # None => \E k \in in.manifest.challengeKeys, j \in in.challengeKeys :
                   k.kid = in.challenge.kid /\ j.kid = in.challenge.kid /\ j.material = k.material
         /\ in.edge # None => in.edge \in in.token.chain.edges
<1> DEFINE t == in.token
           c == in.challenge
           ckeys == in.challengeKeys
<1>1. ChainOk(t)
  BY ValidReport DEF ChainLine, Line
<1>2. in.edge # None => in.edge \in t.chain.edges
  BY <1>1, ValidReport DEF EdgeLink, Line
<1>3. ASSUME c # None, ckeys # None
      PROVE  /\ LinkOf(in).status = "verified"
             /\ t.chain.s0 = c.id /\ c.genuine /\ c.sessionRef = t.sessionRef
             /\ c.iat <= t.iat /\ t.iat <= c.exp + SkewS
             /\ Cardinality(Listed(ckeys, c.kid)) = 1
  BY <1>1, <1>3, ValidReport DEF LinkOf, SessionLink, Line
<1>4. ASSUME c # None, ckeys # None, in.manifest # None
      PROVE  \E k \in in.manifest.challengeKeys, j \in ckeys :
               k.kid = c.kid /\ j.kid = c.kid /\ j.material = k.material
  <2> DEFINE listed == Listed(ckeys, c.kid)
             ckey == CHOOSE k \in listed : TRUE
  <2>1. ckey \in listed
    <3>1. listed # {}
      BY <1>3, <1>4, FS_EmptySet
    <3> HIDE DEF listed
    <3> QED BY <3>1
  <2>2. ManifestOf(in).manifest = in.manifest
    BY <1>4, ValidReport, ManifestAtHand DEF ManifestOf
  <2>3. ListingLine("manifest-challenge-key", in.manifest.challengeKeys, ckey).status # "failed"
    BY <1>3, <1>4, <2>2, ValidReport DEF ChallengeListing
  <2>4. PICK k \in Listed(in.manifest.challengeKeys, ckey.kid) : k.material = ckey.material
    BY <2>3 DEF ListingLine, Line
  <2> QED BY <2>1, <2>4 DEF Listed
<1> QED BY <1>2, <1>3, <1>4

---------------------------------------------------------------------------
(* Runs *)

After == {"revisions", "fill revisions", "seq", "fill seq", "print"}

\* What a run verifies.
Asked(r) ==
  [token |-> job[r].token, jwks |-> Keys, manifest |-> job[r].manifest,
   min |-> job[r].stored, challenge |-> job[r].challenge,
   challengeKeys |-> IF job[r].challenge = None THEN None ELSE ChallengeKeys,
   edge |-> job[r].edge, now |-> Now, prior |-> Prior(found[r].map, job[r].token)]

Given(r) ==
  /\ job[r].token \in offer.tokens /\ job[r].manifest \in offer.manifests
  /\ job[r].challenge \in offer.challenges /\ job[r].edge \in offer.edges

Judged(r) ==
  /\ found[r].report = VerifyBrowser(Asked(r))
  /\ found[r].next = NextRevisions(found[r].report, Asked(r).prior)

Gate(r) == PassesGate(found[r].report, r \in AcceptProvisional)

\* A run was given what the history offers, its report is of that, and it exits 0
\* only past the gate.
GivenInv ==
  /\ offer \in Offers
  /\ DOMAIN pc = Runs /\ DOMAIN job = Runs /\ DOMAIN found = Runs /\ DOMAIN exit = Runs
  /\ \A r \in Runs :
       /\ pc[r] # "ready" => Given(r)
       /\ pc[r] \in After => Judged(r)
       /\ pc[r] # "done" => exit[r] = None
       /\ exit[r] = 0 => /\ pc[r] = "done" /\ Judged(r)
                         /\ Gate(r)

LEMMA RunsOnly ==
  ASSUME GivenInv, NEW r \in offer.runs
  PROVE  r \in Runs
BY SessionAssumption DEF GivenInv

LEMMA Others ==
  ASSUME GivenInv, NEW r \in Runs, Step(r), NEW s \in Runs, s # r
  PROVE  /\ pc'[s] = pc[s] /\ job'[s] = job[s] /\ found'[s] = found[s] /\ exit'[s] = exit[s]
BY DEF GivenInv, Step, Start, Verify, TruncateRevisions, FillRevisions, NoRevisions, TruncateSeq,
       FillSeq, NoSeq, PrintReport, WriteFails, Crash, Finish

LEMMA Domains ==
  ASSUME GivenInv, NEW r \in Runs, Step(r)
  PROVE  /\ offer' = offer
         /\ DOMAIN pc' = Runs /\ DOMAIN job' = Runs /\ DOMAIN found' = Runs /\ DOMAIN exit' = Runs
BY DEF GivenInv, Step, Start, Verify, TruncateRevisions, FillRevisions, NoRevisions, TruncateSeq,
       FillSeq, NoSeq, PrintReport, WriteFails, Crash, Finish

LEMMA NoneIsNoCode == None \notin Int /\ None # 0 /\ None # 2
<1>1. None \notin Int
  BY SessionAssumption
<1> QED BY <1>1

\* What each action does to its own run.
LEMMA StartOwn ==
  ASSUME GivenInv, NEW r \in Runs, Start(r)
  PROVE  /\ pc[r] = "ready"
         /\ \E t \in offer.tokens, m \in offer.manifests, c \in offer.challenges, e \in offer.edges :
              job'[r] = [token |-> t, manifest |-> m, challenge |-> c, edge |-> e,
                         stored |-> seqStore, after |-> Len(log)]
         /\ found' = found
         /\ \/ seqStore = Torn /\ pc'[r] = "done" /\ exit'[r] = 2
            \/ seqStore # Torn /\ pc'[r] = "read" /\ exit' = exit
BY DEF Start, Finish, GivenInv

LEMMA VerifyOwn ==
  ASSUME GivenInv, NEW r \in Runs, Verify(r)
  PROVE  /\ pc[r] = "read" /\ job' = job
         /\ \/ revStore = Torn /\ pc'[r] = "done" /\ exit'[r] = 2 /\ found' = found
            \/ /\ revStore # Torn /\ pc'[r] = "revisions" /\ exit' = exit
               /\ found'[r].map = revStore
               /\ Judged(r)'
<1>1. pc[r] = "read" /\ job' = job
  BY DEF Verify
<1>2. CASE revStore = Torn
  BY <1>1, <1>2 DEF Verify, Finish, GivenInv
<1>3. CASE revStore # Torn
  <2> DEFINE in == [token |-> job[r].token, jwks |-> Keys, manifest |-> job[r].manifest,
                    min |-> job[r].stored, challenge |-> job[r].challenge,
                    challengeKeys |-> IF job[r].challenge = None THEN None ELSE ChallengeKeys,
                    edge |-> job[r].edge, now |-> Now, prior |-> Prior(revStore, job[r].token)]
             report == VerifyBrowser(in)
             next == NextRevisions(report, Prior(revStore, job[r].token))
  <2>1. /\ found' = [found EXCEPT ![r] = [map |-> revStore, report |-> report, next |-> next]]
        /\ pc' = [pc EXCEPT ![r] = "revisions"] /\ exit' = exit
    BY <1>3 DEF Verify
  <2> HIDE DEF report, next
  <2>2. found'[r] = [map |-> revStore, report |-> report, next |-> next]
    BY <2>1 DEF GivenInv
  <2>3. found'[r].map = revStore /\ found'[r].report = report /\ found'[r].next = next
    BY <2>2
  <2>4. Asked(r)' = in
    BY <1>1, <2>3 DEF Asked
  <2>5. Judged(r)'
    BY <2>3, <2>4 DEF Judged, report, next
  <2> QED BY <1>1, <1>3, <2>1, <2>3, <2>5 DEF GivenInv
<1> QED BY <1>2, <1>3

LEMMA StoreOwn ==
  ASSUME GivenInv, NEW r \in Runs,
         TruncateRevisions(r) \/ FillRevisions(r) \/ NoRevisions(r)
         \/ TruncateSeq(r) \/ FillSeq(r) \/ NoSeq(r)
  PROVE  /\ pc[r] \in After /\ pc'[r] \in After
         /\ job' = job /\ found' = found /\ exit' = exit
BY DEF TruncateRevisions, FillRevisions, NoRevisions, TruncateSeq, FillSeq, NoSeq, GivenInv, After

LEMMA EndOwn ==
  ASSUME GivenInv, NEW r \in Runs, PrintReport(r) \/ WriteFails(r) \/ Crash(r)
  PROVE  /\ pc[r] \notin {"ready", "done"} /\ pc'[r] = "done"
         /\ job' = job /\ found' = found
         /\ exit'[r] = 0 => pc[r] = "print" /\ Gate(r)
<1>1. CASE PrintReport(r)
  <2> DEFINE report == found[r].report
             valid  == Valid(report)
             passes == PassesGate(report, r \in AcceptProvisional)
  <2>1. /\ pc[r] = "print" /\ pc'[r] = "done" /\ job' = job /\ found' = found
        /\ exit'[r] = CASE ~valid -> 1 [] valid /\ passes -> 0 [] OTHER -> 3
    BY <1>1 DEF PrintReport, Finish, GivenInv
  <2> HIDE DEF valid, passes
  <2>2. exit'[r] = 0 => passes
    BY <2>1
  <2> QED BY <2>1, <2>2 DEF passes, Gate
<1>2. CASE WriteFails(r) \/ Crash(r)
  <2>1. /\ pc[r] \notin {"ready", "done"} /\ pc'[r] = "done" /\ job' = job /\ found' = found
        /\ exit'[r] \in {2, None}
    BY <1>2 DEF WriteFails, Crash, Running, Finish, GivenInv
  <2> QED BY <2>1, NoneIsNoCode
<1> QED BY <1>1, <1>2

LEMMA GivenInvariant == Spec => []GivenInv
<1>1. Init => GivenInv
  BY SessionAssumption DEF Init, GivenInv, After
<1>2. GivenInv /\ [Next]_vars => GivenInv'
  <2>1. ASSUME GivenInv, NEW r \in Runs, Step(r)
        PROVE  GivenInv'
    <3>1. ASSUME NEW s \in Runs, s # r
          PROVE  /\ pc'[s] # "ready" => Given(s)'
                 /\ pc'[s] \in After => Judged(s)'
                 /\ pc'[s] # "done" => exit'[s] = None
                 /\ exit'[s] = 0 => /\ pc'[s] = "done" /\ Judged(s)'
                                    /\ Gate(s)'
      BY <2>1, <3>1, Others, Domains DEF GivenInv, Given, Judged, Asked, Gate
    <3>2. /\ pc'[r] # "ready" => Given(r)'
          /\ pc'[r] \in After => Judged(r)'
          /\ pc'[r] # "done" => exit'[r] = None
          /\ exit'[r] = 0 => /\ pc'[r] = "done" /\ Judged(r)'
                             /\ Gate(r)'
      <4>1. CASE Start(r)
        <5>1. Given(r)'
          <6>1. PICK t \in offer.tokens, m \in offer.manifests, c \in offer.challenges,
                     e \in offer.edges :
                  job'[r] = [token |-> t, manifest |-> m, challenge |-> c, edge |-> e,
                             stored |-> seqStore, after |-> Len(log)]
            BY <2>1, <4>1, StartOwn
          <6>2. job'[r].token = t /\ job'[r].manifest = m /\ job'[r].challenge = c
                /\ job'[r].edge = e
            BY <6>1
          <6> QED BY <2>1, <6>2, Domains DEF Given
        <5>2. pc'[r] \in {"read", "done"} /\ (exit'[r] = None \/ exit'[r] = 2)
              /\ (pc'[r] = "read" => exit'[r] = None)
          BY <2>1, <4>1, StartOwn DEF GivenInv
        <5>3. pc'[r] \notin After
          BY <5>2 DEF After
        <5>4. exit'[r] # 0
          <6>1. CASE exit'[r] = None
            BY <6>1, NoneIsNoCode
          <6>2. CASE exit'[r] = 2
            BY <6>2
          <6> QED BY <5>2, <6>1, <6>2
        <5> QED BY <5>1, <5>2, <5>3, <5>4
      <4>2. CASE Verify(r)
        <5>1. Given(r)'
          BY <2>1, <4>2, VerifyOwn, Domains DEF GivenInv, Given
        <5>2. \/ pc'[r] = "done" /\ exit'[r] = 2
              \/ pc'[r] = "revisions" /\ exit'[r] = None /\ Judged(r)'
          BY <2>1, <4>2, VerifyOwn DEF GivenInv
        <5>3. CASE pc'[r] = "done" /\ exit'[r] = 2
          BY <5>1, <5>3 DEF After
        <5>4. CASE pc'[r] = "revisions" /\ exit'[r] = None /\ Judged(r)'
          <6>1. exit'[r] # 0
            BY <5>4, NoneIsNoCode
          <6> QED BY <5>1, <5>4, <6>1
        <5> QED BY <5>2, <5>3, <5>4
      <4>3. CASE TruncateRevisions(r) \/ FillRevisions(r) \/ NoRevisions(r)
                 \/ TruncateSeq(r) \/ FillSeq(r) \/ NoSeq(r)
        <5>1. Given(r)' /\ Judged(r)'
          BY <2>1, <4>3, StoreOwn, Domains DEF GivenInv, Given, Judged, Asked, After
        <5>2. pc'[r] \in After /\ exit'[r] = None
          BY <2>1, <4>3, StoreOwn DEF GivenInv, After
        <5>3. pc'[r] # "done" /\ exit'[r] # 0
          BY <5>2, NoneIsNoCode DEF After
        <5> QED BY <5>1, <5>2, <5>3
      <4>4. CASE PrintReport(r) \/ WriteFails(r) \/ Crash(r)
        <5>1. Given(r)' /\ pc'[r] = "done"
          BY <2>1, <4>4, EndOwn, Domains DEF GivenInv, Given
        <5>2. exit'[r] = 0 => Judged(r)' /\ Gate(r)'
          BY <2>1, <4>4, EndOwn DEF GivenInv, Judged, Asked, After, Gate
        <5> QED BY <5>1, <5>2 DEF After
      <4> QED BY <2>1, <4>1, <4>2, <4>3, <4>4 DEF Step
    <3> QED BY <2>1, <3>1, <3>2, Domains DEF GivenInv
  <2>2. ASSUME GivenInv, UNCHANGED vars PROVE GivenInv'
    BY <2>2 DEF GivenInv, vars, Given, Judged, Asked, Gate
  <2> QED BY <2>1, <2>2, RunsOnly DEF Next, Step
<1> QED BY <1>1, <1>2, PTL DEF Spec

\* A run that passes verified its token well.
LEMMA PassedIsValid ==
  ASSUME GivenInv, NEW r \in Runs, exit[r] = 0
  PROVE  Valid(VerifyBrowser(Asked(r)))
BY DEF GivenInv, Judged, Gate, PassesGate

\* A gated action passes only on a complete final verdict whose key the manifest at
\* hand lists, unrevoked and of the same material (passes_gate, key-validity).
THEOREM GateIsVouchedTheorem == Spec => []GateIsVouched
<1>1. GivenInv => GateIsVouched
  <2> SUFFICES ASSUME GivenInv, NEW r \in Runs, exit[r] = 0, r \notin AcceptProvisional
               PROVE  LET t == job[r].token
                          m == job[r].manifest
                      IN /\ t.genuine
                         /\ t.version = 4 => t.stage = "final" /\ ~t.incomplete
                         /\ m # None => \E k \in m.verdictKeys :
                              /\ k.kid = t.kid
                              /\ \E j \in Keys : j.kid = k.kid /\ j.material = k.material
                              /\ k.revoked # None => t.iat < k.revoked
    BY DEF GateIsVouched
  <2> DEFINE in == Asked(r)
  <2>1. in.token = job[r].token /\ in.manifest = job[r].manifest /\ in.jwks = Keys
    BY DEF Asked
  <2>2. Valid(VerifyBrowser(in))
    BY PassedIsValid
  <2>3. IsFinal(VerifyBrowser(in)) /\ VerifyBrowser(in).claims = in.token
    BY <2>2, ValidReport DEF GivenInv, Judged, Gate, PassesGate
  <2> HIDE DEF in
  <2>4. in.token.version = 4 => in.token.stage = "final" /\ ~in.token.incomplete
    BY <2>3 DEF IsFinal
  <2> QED BY <2>1, <2>2, <2>4, ValidReport, ValidIsVouched
<1> QED BY <1>1, GivenInvariant, PTL

\* With the challenge of the session at hand a token that passes belongs to it, and
\* the edge log line matches one of its reports (session-link, edge-link).
THEOREM GateIsOfThisSessionTheorem == Spec => []GateIsOfThisSession
<1>1. GivenInv => GateIsOfThisSession
  <2> SUFFICES ASSUME GivenInv, NEW r \in Runs, exit[r] = 0, job[r].token.version >= 3
               PROVE  LET t == job[r].token
                          c == job[r].challenge
                          m == job[r].manifest
                      IN /\ c # None =>
                              /\ c.id = t.chain.s0 /\ c.genuine /\ c.sessionRef = t.sessionRef
                              /\ t.iat >= c.iat /\ t.iat - SkewS <= c.exp
                              /\ m # None => \E k \in m.challengeKeys, j \in ChallengeKeys :
                                   k.kid = c.kid /\ j.kid = c.kid /\ j.material = k.material
                         /\ job[r].edge # None => job[r].edge \in t.chain.edges
    BY DEF GateIsOfThisSession
  <2> DEFINE in == Asked(r)
  <2>1. /\ in.token = job[r].token /\ in.manifest = job[r].manifest /\ in.edge = job[r].edge
        /\ in.challenge = job[r].challenge
        /\ in.challenge # None => in.challengeKeys = ChallengeKeys
    BY DEF Asked
  <2>2. Valid(VerifyBrowser(in))
    BY PassedIsValid
  <2>3. Given(r)
    BY SessionAssumption DEF GivenInv
  <2>4. /\ in.token.version \in Int /\ in.token.iat \in Int /\ SkewS \in Int
        /\ in.challenge # None => in.challenge.iat \in Int /\ in.challenge.exp \in Int
        /\ ChallengeKeys # None
    BY <2>1, <2>3, SessionAssumption DEF GivenInv, Given
  <2> HIDE DEF in
  <2>5. in.token.version >= 3
    BY <2>1
  <2>6. /\ in.challenge # None =>
              /\ in.token.chain.s0 = in.challenge.id /\ in.challenge.genuine
              /\ in.challenge.sessionRef = in.token.sessionRef
              /\ in.challenge.iat <= in.token.iat
              /\ in.token.iat <= in.challenge.exp + SkewS
              /\ in.manifest # None => \E k \in in.manifest.challengeKeys, j \in ChallengeKeys :
                   k.kid = in.challenge.kid /\ j.kid = in.challenge.kid /\ j.material = k.material
        /\ in.edge # None => in.edge \in in.token.chain.edges
    BY <2>1, <2>2, <2>4, <2>5, ValidIsOfItsSession
  <2> QED BY <2>1, <2>4, <2>6
<1> QED BY <1>1, GivenInvariant, PTL

---------------------------------------------------------------------------
(* Revisions *)

Entry(e) == e # None /\ e.highest \in Int /\ e.final \in Int \cup {None}
Entries(map) == \A s \in DOMAIN map : Entry(map[s])

\* The map knows that this token was accepted.
Covers(map, t) ==
  /\ t.sessionRef \in DOMAIN map
  /\ t.revision <= map[t.sessionRef].highest
  /\ t.stage = "final" => map[t.sessionRef].final = t.revision

\* A valid token of version 4 is allowed by what the session accepted before.
LEMMA ValidV4 ==
  ASSUME NEW in, Valid(VerifyBrowser(in)), in.token.version = 4,
         in.token.revision \in Int \cup {None}
  PROVE  /\ in.token.revision \in Int /\ in.token.revision >= 1
         /\ RevisionOk(in.token, in.prior)
<1> DEFINE shape == StageShapeOk(in.token)
           rev   == RevisionOk(in.token, in.prior)
           layer == Layer1Only(in.token)
<1>1. StageLines(in.token, in.prior) =
        {Line("verdict-stage",
            CASE ~(shape /\ rev) -> "failed"
              [] shape /\ rev /\ layer -> "warning"
              [] OTHER -> "verified")}
  BY DEF StageLines
<1> HIDE DEF shape, rev, layer
<1>2. ASSUME ~(shape /\ rev) PROVE FALSE
  <2>1. StageLines(in.token, in.prior) = {Line("verdict-stage", "failed")}
    BY <1>1, <1>2
  <2>2. Line("verdict-stage", "failed").status # "failed"
    BY <2>1, ValidReport
  <2> QED BY <2>2 DEF Line
<1> QED BY <1>2 DEF shape, rev, StageShapeOk

LEMMA NextEntry ==
  ASSUME NEW in, Valid(VerifyBrowser(in)), in.token.version = 4,
         in.token.revision \in Int \cup {None}, in.prior = None \/ Entry(in.prior),
         NEW next, next = NextRevisions(VerifyBrowser(in), in.prior)
  PROVE  /\ Entry(next)
         /\ next.highest >= in.token.revision
         /\ in.prior # None => next.highest >= in.prior.highest
         /\ in.token.stage = "final" => next.final = in.token.revision
         /\ in.token.stage # "final" /\ in.prior # None => next.final = in.prior.final
<1> DEFINE t == in.token
           before == IF in.prior = None THEN [highest |-> 0, final |-> None] ELSE in.prior
           high == IF t.revision > before.highest THEN t.revision ELSE before.highest
           fin == IF t.stage = "final" THEN t.revision ELSE before.final
<1>1. t.revision \in Int /\ VerifyBrowser(in).claims = t
  BY ValidV4, ValidReport
<1>2. next = [highest |-> high, final |-> fin]
  BY <1>1 DEF NextRevisions
<1>3. before.highest \in Int /\ before.final \in Int \cup {None}
      /\ (in.prior # None => before = in.prior)
  BY DEF Entry
<1>4. high \in Int /\ high >= t.revision /\ high >= before.highest
  <2> HIDE DEF before
  <2> QED BY <1>1, <1>3
<1>5. fin \in Int \cup {None}
  BY <1>1, <1>3
<1> HIDE DEF high, fin
<1>6. next # None /\ next.highest = high /\ next.final = fin
  BY <1>2, <1>4, <1>5, SessionAssumption
<1> QED BY <1>3, <1>4, <1>5, <1>6 DEF Entry, fin

\* An accepted token never goes back behind one the map it was judged by knows.
LEMMA NotBack ==
  ASSUME NEW in, NEW map, Entries(map), in.prior = Prior(map, in.token),
         Valid(VerifyBrowser(in)), in.token.version = 4, in.token.revision \in Int \cup {None},
         NEW u, u.revision \in Int, Covers(map, u), u.sessionRef = in.token.sessionRef
  PROVE  /\ u.revision <= in.token.revision
         /\ u.stage = "final" => in.token.stage = "final" /\ in.token.revision = u.revision
<1> DEFINE prior == in.prior
<1>1. prior = map[u.sessionRef] /\ Entry(prior)
  BY DEF Prior, Covers, Entries
<1>2. RevisionOk(in.token, prior) /\ in.token.revision \in Int
  BY ValidV4
<1>3. in.token.revision >= prior.highest
      /\ (prior.final # None => in.token.revision = prior.final /\ in.token.stage = "final")
  BY <1>1, <1>2 DEF RevisionOk, Entry
<1>4. u.revision <= prior.highest /\ (u.stage = "final" => prior.final = u.revision)
  BY <1>1 DEF Covers
<1>5. u.revision # None
  BY NoneIsNoCode
<1> HIDE DEF prior
<1> QED BY <1>1, <1>2, <1>3, <1>4, <1>5 DEF Entry

\* The map with the session's entry replaced knows what the old one knew, and the
\* token itself.
LEMMA UpdateCovers ==
  ASSUME NEW in, NEW map, Entries(map), in.prior = Prior(map, in.token),
         Valid(VerifyBrowser(in)), in.token.version = 4, in.token.revision \in Int \cup {None},
         NEW next, next = NextRevisions(VerifyBrowser(in), in.prior),
         NEW new, new = [s \in DOMAIN map \cup {in.token.sessionRef} |->
                           IF s = in.token.sessionRef THEN next ELSE map[s]]
  PROVE  /\ Entries(new)
         /\ Covers(new, in.token)
         /\ \A u : u.revision \in Int /\ Covers(map, u) => Covers(new, u)
<1> DEFINE t == in.token
<1>1. in.prior = None \/ Entry(in.prior)
  BY DEF Prior, Entries
<1>2. /\ Entry(next) /\ next.highest >= t.revision
      /\ in.prior # None => next.highest >= in.prior.highest
      /\ t.stage = "final" => next.final = t.revision
      /\ t.stage # "final" /\ in.prior # None => next.final = in.prior.final
      /\ t.revision \in Int
  BY <1>1, NextEntry, ValidV4
<1>3. DOMAIN new = DOMAIN map \cup {t.sessionRef} /\ new[t.sessionRef] = next
      /\ \A s \in DOMAIN map : s # t.sessionRef => new[s] = map[s]
  OBVIOUS
<1>4. Entries(new)
  BY <1>2, <1>3 DEF Entries
<1>5. Covers(new, t)
  BY <1>2, <1>3 DEF Covers, Entry
<1>6. ASSUME NEW u, u.revision \in Int, Covers(map, u)
      PROVE  Covers(new, u)
  <2>1. CASE u.sessionRef # t.sessionRef
    BY <1>3, <1>6, <2>1 DEF Covers
  <2>2. CASE u.sessionRef = t.sessionRef
    <3>1. in.prior = map[u.sessionRef] /\ in.prior # None /\ Entry(in.prior)
      BY <1>6, <2>2 DEF Prior, Covers, Entries, Entry
    <3>2. u.revision <= in.prior.highest /\ (u.stage = "final" => in.prior.final = u.revision)
      BY <1>6, <3>1 DEF Covers
    <3>3. u.stage = "final" => t.stage = "final" /\ t.revision = u.revision
      BY <1>6, <2>2, NotBack
    <3>4. u.revision <= next.highest
      BY <1>2, <1>6, <3>1, <3>2 DEF Entry
    <3> QED BY <1>2, <1>3, <2>2, <3>3, <3>4 DEF Covers
  <2> QED BY <2>1, <2>2
<1> QED BY <1>4, <1>5, <1>6

---------------------------------------------------------------------------
(* Runs that follow each other *)

\* One run is at work at a time, and a report counts those printed before its run
\* started.
WorkInv ==
  /\ log \in Seq({log[i] : i \in DOMAIN log})
  /\ \A r, s \in Runs : Running(r) /\ Running(s) => r = s
  /\ \A i \in DOMAIN log :
       /\ log[i].token \in offer.tokens
       /\ log[i].after \in Nat /\ log[i].after < i
  /\ \A r \in Runs : Running(r) => job[r].after \in Nat /\ job[r].after <= Len(log)

LEMMA Alone ==
  ASSUME Serial, GivenInv, WorkInv, NEW r \in Runs, Step(r), NEW s \in Runs, s # r
  PROVE  ~Running(s) /\ ~Running(s)'
<1>1. Running(s)' <=> Running(s)
  BY Others DEF Running
<1>2. CASE Start(r)
  BY <1>1, <1>2 DEF Start
<1>3. CASE ~Start(r)
  <2>1. Running(r)
    BY <1>3, VerifyOwn, StoreOwn, EndOwn DEF Step, Running, After
  <2> QED BY <1>1, <2>1 DEF WorkInv
<1> QED BY <1>2, <1>3

\* The log grows only by the report of the run that prints it.
LEMMA LogOnlyIn ==
  ASSUME NEW r \in Runs, Step(r), ~PrintReport(r)
  PROVE  log' = log
BY DEF Step, Start, Verify, TruncateRevisions, FillRevisions, NoRevisions, TruncateSeq,
       FillSeq, NoSeq, WriteFails, Crash

LEMMA LogGrows ==
  ASSUME log \in Seq({log[i] : i \in DOMAIN log}), NEW r \in Runs, PrintReport(r)
  PROVE  /\ log' \in Seq({log'[i] : i \in DOMAIN log'})
         /\ Len(log) \in Nat /\ DOMAIN log = 1 .. Len(log)
         /\ Len(log') = Len(log) + 1 /\ DOMAIN log' = 1 .. Len(log) + 1
         /\ \A i \in DOMAIN log : log'[i] = log[i]
         /\ log'[Len(log) + 1].token = job[r].token
         /\ log'[Len(log) + 1].manifest = job[r].manifest
         /\ log'[Len(log) + 1].report = found[r].report
         /\ log'[Len(log) + 1].after = job[r].after
         /\ revStore' = revStore /\ seqStore' = seqStore /\ pc[r] = "print"
<1> DEFINE e == [run |-> r, token |-> job[r].token, manifest |-> job[r].manifest,
                 report |-> found[r].report, after |-> job[r].after]
           S == {log[i] : i \in DOMAIN log}
<1>1. log' = Append(log, e) /\ revStore' = revStore /\ seqStore' = seqStore /\ pc[r] = "print"
  BY DEF PrintReport
<1>2. e.token = job[r].token /\ e.manifest = job[r].manifest /\ e.report = found[r].report
      /\ e.after = job[r].after
  OBVIOUS
<1> HIDE DEF e
<1>3. log \in Seq(S \cup {e}) /\ Len(log) \in Nat /\ DOMAIN log = 1 .. Len(log)
  BY SeqMonotonic, LenProperties
<1> HIDE DEF S
<1>4. /\ log' \in Seq(S \cup {e}) /\ Len(log') = Len(log) + 1 /\ DOMAIN log' = 1 .. Len(log) + 1
      /\ \A i \in 1 .. Len(log) : log'[i] = log[i]
      /\ log'[Len(log) + 1] = e
  BY <1>1, <1>3, AppendProperties, LenProperties
<1>5. log' \in Seq({log'[i] : i \in DOMAIN log'})
  <2>1. \A i \in 1 .. Len(log') : log'[i] \in {log'[j] : j \in DOMAIN log'}
    BY <1>4
  <2> QED BY <1>4, <2>1, IsASeq
<1> QED BY <1>1, <1>2, <1>3, <1>4, <1>5

LEMMA WorkStep ==
  ASSUME Serial, GivenInv, GivenInv', WorkInv, NEW r \in Runs, Step(r)
  PROVE  WorkInv'
<1>1. \A s, t \in Runs : Running(s)' /\ Running(t)' => s = t
  BY Alone
<1>2. CASE ~PrintReport(r)
  <2>1. log' = log /\ offer' = offer
    BY <1>2, LogOnlyIn, Domains
  <2>2. ASSUME Running(r)' PROVE job'[r].after \in Nat /\ job'[r].after <= Len(log)
    <3>1. CASE Start(r)
      <4>1. job'[r].after = Len(log)
        <5>1. PICK t \in offer.tokens, m \in offer.manifests, c \in offer.challenges,
                   e \in offer.edges :
                job'[r] = [token |-> t, manifest |-> m, challenge |-> c, edge |-> e,
                           stored |-> seqStore, after |-> Len(log)]
          BY <3>1, StartOwn
        <5> QED BY <5>1
      <4>2. Len(log) \in Nat
        BY LenProperties DEF WorkInv
      <4> QED BY <4>1, <4>2
    <3>2. CASE ~Start(r)
      <4>1. Running(r) /\ job'[r] = job[r]
        BY <3>2, VerifyOwn, StoreOwn, EndOwn DEF Step, Running, After
      <4> QED BY <4>1 DEF WorkInv
    <3> QED BY <3>1, <3>2
  <2>3. \A s \in Runs : Running(s)' => job'[s].after \in Nat /\ job'[s].after <= Len(log')
    BY <2>1, <2>2, Alone
  <2> QED BY <1>1, <2>1, <2>3 DEF WorkInv
<1>3. CASE PrintReport(r)
  <2>1. \A s \in Runs : ~Running(s)'
    <3>1. pc'[r] = "done"
      BY <1>3, EndOwn
    <3> QED BY <3>1, Alone DEF Running
  <2>2. /\ Running(r) /\ Given(r) /\ offer' = offer
    BY <1>3, EndOwn, Domains DEF GivenInv, Running
  <2>3. job[r].after \in Nat /\ job[r].after <= Len(log)
    BY <2>2 DEF WorkInv
  <2>4. ASSUME NEW i \in DOMAIN log'
        PROVE  log'[i].token \in offer'.tokens /\ log'[i].after \in Nat /\ log'[i].after < i
    <3>1. CASE i \in DOMAIN log
      BY <1>3, <2>2, <3>1, LogGrows DEF WorkInv
    <3>2. CASE i \notin DOMAIN log
      <4>1. i = Len(log) + 1 /\ Len(log) \in Nat
        <5>1. i \in 1 .. Len(log) + 1 /\ i \notin 1 .. Len(log) /\ Len(log) \in Nat
          BY <1>3, <3>2, LogGrows DEF WorkInv
        <5> QED BY <5>1
      <4>2. log'[i].token = job[r].token /\ log'[i].after = job[r].after
        BY <1>3, <4>1, LogGrows DEF WorkInv
      <4> QED BY <2>2, <2>3, <4>1, <4>2 DEF Given
    <3> QED BY <3>1, <3>2
  <2>5. log' \in Seq({log'[i] : i \in DOMAIN log'})
    BY <1>3, LogGrows DEF WorkInv
  <2> QED BY <1>1, <2>1, <2>4, <2>5 DEF WorkInv
<1> QED BY <1>2, <1>3

\* The map knows every accepted token.
Known(map) == \A i \in AcceptedV4 : Covers(map, log[i].token)

Accepted(r) == Valid(found[r].report) /\ job[r].token.version = 4

\* The store, and what the run at work read of it, know every accepted token; behind
\* its write the store knows the run's own.
RevisionInv ==
  /\ revStore # Torn => Entries(revStore) /\ Known(revStore)
  /\ \A r \in Runs :
       /\ pc[r] \in After => Entries(found[r].map) /\ Known(found[r].map)
       /\ pc[r] = "fill revisions" => KeepsRevisions(r)
       /\ pc[r] \in {"seq", "fill seq", "print"} /\ Accepted(r) => Covers(revStore, job[r].token)
  /\ \A i \in AcceptedV4 : log[i].token.revision \in Int
  /\ RevisionsNeverGoBack

LEMMA AskedFacts ==
  ASSUME GivenInv, NEW r \in Runs, pc[r] \in After
  PROVE  /\ found[r].report = VerifyBrowser(Asked(r))
         /\ found[r].next = NextRevisions(VerifyBrowser(Asked(r)), Asked(r).prior)
         /\ Asked(r).token = job[r].token
         /\ Asked(r).prior = Prior(found[r].map, job[r].token)
         /\ job[r].token.revision \in Int \cup {None}
         /\ VerifyBrowser(Asked(r)).claims = job[r].token \/ ~Valid(VerifyBrowser(Asked(r)))
<1>1. Judged(r) /\ Given(r)
  BY DEF GivenInv, After
<1>2. Asked(r).token = job[r].token /\ Asked(r).prior = Prior(found[r].map, job[r].token)
  BY DEF Asked
<1>3. job[r].token.revision \in Int \cup {None}
  BY <1>1, SessionAssumption DEF Given, GivenInv
<1>4. Valid(VerifyBrowser(Asked(r))) => VerifyBrowser(Asked(r)).claims = Asked(r).token
  BY ValidReport
<1> QED BY <1>1, <1>2, <1>3, <1>4 DEF Judged

\* A run that accepted its token has an entry to keep, and only such a run.
LEMMA KeepsAccepted ==
  ASSUME GivenInv, NEW r \in Runs, pc[r] \in After, Entries(found[r].map)
  PROVE  KeepsRevisions(r) <=> Accepted(r)
<1> DEFINE in == Asked(r)
<1>1. CASE Accepted(r)
  <2>1. in.prior = None \/ Entry(in.prior)
    BY AskedFacts DEF Prior, Entries
  <2>2. Valid(VerifyBrowser(in)) /\ in.token.version = 4 /\ in.token.revision \in Int \cup {None}
    BY <1>1, AskedFacts DEF Accepted
  <2>3. Entry(NextRevisions(VerifyBrowser(in), in.prior))
    <3> HIDE DEF in
    <3> QED BY <2>1, <2>2, NextEntry
  <2> QED BY <1>1, <2>3, AskedFacts DEF KeepsRevisions, Entry
<1>2. CASE ~Accepted(r)
  <2>1. ~Valid(VerifyBrowser(in)) \/ VerifyBrowser(in).claims.version # 4
    BY <1>2, AskedFacts DEF Accepted
  <2>2. NextRevisions(VerifyBrowser(in), in.prior) = None
    BY <2>1 DEF NextRevisions
  <2> QED BY <1>2, <2>2, AskedFacts DEF KeepsRevisions
<1> QED BY <1>1, <1>2

\* A step that prints nothing keeps what a map knows of the log.
LEMMA KnownStays ==
  ASSUME RevisionInv, log' = log
  PROVE  /\ AcceptedV4' = AcceptedV4
         /\ \A map : Known(map) => (\A i \in AcceptedV4' : Covers(map, log'[i].token))
         /\ \A i \in AcceptedV4' : log'[i].token.revision \in Int
         /\ RevisionsNeverGoBack'
<1>1. AcceptedV4' = AcceptedV4
  BY DEF AcceptedV4
<1>2. \A map : Known(map) => (\A i \in AcceptedV4' : Covers(map, log'[i].token))
  BY <1>1 DEF Known
<1> QED BY <1>1, <1>2 DEF RevisionInv, RevisionsNeverGoBack

\* Writing the updated map.
LEMMA FillKnows ==
  ASSUME GivenInv, RevisionInv, NEW r \in Runs, FillRevisions(r)
  PROVE  /\ Entries(revStore') /\ Covers(revStore', job[r].token)
         /\ \A i \in AcceptedV4 : Covers(revStore', log[i].token)
<1> DEFINE in == Asked(r)
           map == found[r].map
<1>1. /\ pc[r] = "fill revisions" /\ pc[r] \in After
      /\ revStore' = [s \in DOMAIN map \cup {job[r].token.sessionRef} |->
                        IF s = job[r].token.sessionRef THEN found[r].next ELSE map[s]]
  BY DEF FillRevisions, After, Updated
<1>2. Entries(map) /\ Known(map) /\ Accepted(r)
  BY <1>1, KeepsAccepted DEF RevisionInv
<1>3. /\ Valid(VerifyBrowser(in)) /\ in.token.version = 4 /\ in.token = job[r].token
      /\ in.token.revision \in Int \cup {None} /\ in.prior = Prior(map, in.token)
      /\ found[r].next = NextRevisions(VerifyBrowser(in), in.prior)
  BY <1>1, <1>2, AskedFacts DEF Accepted
<1>4. revStore' = [s \in DOMAIN map \cup {in.token.sessionRef} |->
                     IF s = in.token.sessionRef THEN found[r].next ELSE map[s]]
  BY <1>1, <1>3
<1> HIDE DEF in, map
<1>5. /\ Entries(revStore') /\ Covers(revStore', in.token)
      /\ \A u : u.revision \in Int /\ Covers(map, u) => Covers(revStore', u)
  BY <1>2, <1>3, <1>4, UpdateCovers
<1> QED BY <1>2, <1>3, <1>5 DEF Known, RevisionInv

LEMMA RevisionStep ==
  ASSUME Serial, GivenInv, GivenInv', WorkInv, WorkInv', RevisionInv, NEW r \in Runs, Step(r)
  PROVE  RevisionInv'
<1>0. \A s \in Runs : s # r => pc'[s] \notin After
  BY Alone DEF Running, After
<1>1. CASE ~PrintReport(r)
  <2>1. log' = log
    BY <1>1, LogOnlyIn
  <2>2. ASSUME revStore' # Torn
        PROVE  Entries(revStore') /\ Known(revStore)'
    <3>1. CASE FillRevisions(r)
      BY <2>1, <3>1, FillKnows, KnownStays DEF Known
    <3>2. CASE ~FillRevisions(r)
      <4>1. revStore' = revStore
        BY <1>1, <2>2, <3>2 DEF Step, Start, Verify, TruncateRevisions, NoRevisions, TruncateSeq,
             FillSeq, NoSeq, WriteFails, Crash
      <4> QED BY <2>1, <2>2, <4>1, KnownStays DEF RevisionInv, Known
    <3> QED BY <3>1, <3>2
  <2>3. ASSUME pc'[r] \in After
        PROVE  Entries(found'[r].map) /\ Known(found[r].map)'
    <3>1. CASE Verify(r)
      <4>1. revStore # Torn /\ found'[r].map = revStore
        BY <2>3, <3>1, VerifyOwn DEF After
      <4> QED BY <2>1, <4>1, KnownStays DEF RevisionInv, Known
    <3>2. CASE ~Verify(r)
      <4>1. pc[r] \in After /\ found' = found
        BY <1>1, <2>3, <3>2, StartOwn, StoreOwn, EndOwn DEF Step, After
      <4> QED BY <2>1, <4>1, KnownStays DEF RevisionInv, Known
    <3> QED BY <3>1, <3>2
  <2>4. ASSUME pc'[r] = "fill revisions" PROVE KeepsRevisions(r)'
    <3>1. TruncateRevisions(r)
      BY <1>1, <2>4, StartOwn, VerifyOwn, EndOwn
         DEF Step, FillRevisions, NoRevisions, TruncateSeq, FillSeq, NoSeq, GivenInv
    <3> QED BY <3>1 DEF TruncateRevisions, KeepsRevisions
  <2>5. ASSUME pc'[r] \in {"seq", "fill seq", "print"}, Accepted(r)'
        PROVE  Covers(revStore', job'[r].token)
    <3>1. CASE FillRevisions(r)
      BY <3>1, FillKnows, StoreOwn
    <3>2. CASE NoRevisions(r)
      <4>1. pc[r] \in After /\ ~KeepsRevisions(r) /\ found' = found /\ job' = job
        BY <3>2, StoreOwn DEF NoRevisions
      <4>2. Accepted(r)
        BY <2>5, <4>1 DEF Accepted
      <4> QED BY <4>1, <4>2, KeepsAccepted DEF RevisionInv
    <3>3. CASE TruncateSeq(r) \/ FillSeq(r) \/ NoSeq(r)
      <4>1. /\ pc[r] \in {"seq", "fill seq", "print"} /\ found' = found /\ job' = job
            /\ revStore' = revStore
        BY <3>3 DEF TruncateSeq, FillSeq, NoSeq
      <4> QED BY <2>5, <4>1 DEF RevisionInv, Accepted
    <3>4. CASE Start(r) \/ Verify(r) \/ TruncateRevisions(r) \/ WriteFails(r) \/ Crash(r)
      <4>1. pc'[r] \notin {"seq", "fill seq", "print"}
        BY <3>4, StartOwn, VerifyOwn, EndOwn DEF TruncateRevisions, GivenInv
      <4> QED BY <2>5, <4>1
    <3> QED BY <1>1, <3>1, <3>2, <3>3, <3>4 DEF Step
  <2>6. /\ \A s \in Runs : pc'[s] \in After => Entries(found'[s].map) /\ Known(found[s].map)'
        /\ \A s \in Runs : pc'[s] = "fill revisions" => KeepsRevisions(s)'
        /\ \A s \in Runs : pc'[s] \in {"seq", "fill seq", "print"} /\ Accepted(s)' =>
             Covers(revStore', job'[s].token)
    BY <1>0, <2>3, <2>4, <2>5 DEF After
  <2>7. (\A i \in AcceptedV4' : log'[i].token.revision \in Int) /\ RevisionsNeverGoBack'
    BY <2>1, KnownStays
  <2> QED BY <2>2, <2>6, <2>7 DEF RevisionInv, Entries, Covers
<1>2. CASE PrintReport(r)
  <2> DEFINE n == Len(log) + 1
             in == Asked(r)
             map == found[r].map
  <2>1. /\ Len(log) \in Nat /\ DOMAIN log = 1 .. Len(log) /\ DOMAIN log' = 1 .. n
        /\ \A i \in DOMAIN log : log'[i] = log[i]
        /\ log'[n].token = job[r].token /\ log'[n].report = found[r].report
        /\ log'[n].after = job[r].after
        /\ revStore' = revStore /\ pc[r] = "print"
    BY <1>2, LogGrows DEF WorkInv
  <2>2. pc[r] \in After /\ pc'[r] = "done" /\ job' = job /\ found' = found
    BY <1>2, <2>1, EndOwn DEF After
  <2>3. \A i \in DOMAIN log' : i \in DOMAIN log \/ i = n
    BY <2>1
  <2>4. \A i \in AcceptedV4' : i \in AcceptedV4 \/ (i = n /\ Accepted(r))
    BY <2>1, <2>3 DEF AcceptedV4, Accepted
  <2>5. Accepted(r) =>
          /\ Valid(VerifyBrowser(in)) /\ in.token.version = 4 /\ in.token = job[r].token
          /\ in.token.revision \in Int \cup {None} /\ in.prior = Prior(map, in.token)
    BY <2>2, AskedFacts DEF Accepted
  <2>6. Accepted(r) => job[r].token.revision \in Int
    <3> HIDE DEF in
    <3> QED BY <2>5, ValidV4
  <2>7. \A i \in AcceptedV4' : log'[i].token.revision \in Int
    BY <2>1, <2>4, <2>6 DEF RevisionInv, AcceptedV4
  <2>8. ASSUME revStore' # Torn
        PROVE  Entries(revStore') /\ Known(revStore)'
    BY <2>1, <2>4, <2>8 DEF RevisionInv, Known, AcceptedV4
  <2>9. ASSUME NEW i \in AcceptedV4', NEW j \in AcceptedV4',
               i <= log'[j].after, log'[i].token.sessionRef = log'[j].token.sessionRef
        PROVE  /\ log'[i].token.revision <= log'[j].token.revision
               /\ log'[i].token.stage = "final" =>
                    log'[j].token.stage = "final" /\ log'[j].token.revision = log'[i].token.revision
    <3>1. log'[j].after <= Len(log) /\ i \in DOMAIN log' /\ log'[j].after \in Nat
      <4>1. log'[j].after \in Nat /\ log'[j].after < j /\ j \in 1 .. n /\ i \in DOMAIN log'
        BY <2>1 DEF WorkInv, AcceptedV4
      <4> QED BY <2>1, <4>1
    <3>2. i \in DOMAIN log
      <4>1. i \in 1 .. n /\ i <= Len(log)
        BY <2>1, <2>9, <3>1
      <4> QED BY <2>1, <4>1
    <3>3. i \in AcceptedV4 /\ log'[i] = log[i]
      BY <2>1, <2>4, <3>2
    <3>4. CASE j \in AcceptedV4
      <4>1. log'[j] = log[j]
        BY <2>1, <3>4 DEF AcceptedV4
      <4> QED BY <2>9, <3>3, <3>4, <4>1 DEF RevisionInv, RevisionsNeverGoBack
    <3>5. CASE j = n /\ Accepted(r)
      <4>1. log'[j].token = in.token
        BY <2>1, <2>5, <3>5
      <4>2. Entries(map) /\ Covers(map, log[i].token) /\ log[i].token.revision \in Int
        BY <2>2, <3>3 DEF RevisionInv, Known
      <4> HIDE DEF in, map
      <4> QED BY <2>5, <2>9, <3>3, <3>5, <4>1, <4>2, NotBack
    <3> QED BY <2>4, <3>4, <3>5
  <2>10. \A s \in Runs : pc'[s] \notin After
    BY <1>0, <2>2 DEF After
  <2> QED BY <2>7, <2>8, <2>9, <2>10 DEF RevisionInv, RevisionsNeverGoBack, After, Entries
<1> QED BY <1>1, <1>2

\* A run started after a token was accepted accepts none of the same session that
\* goes back, when runs follow each other and wherever one of them was killed
\* (verdict_stage, next_revisions, --revision-store).
THEOREM RevisionsNeverGoBackTheorem ==
  ASSUME Serial
  PROVE  Spec => []RevisionsNeverGoBack
<1>1. Init => WorkInv /\ RevisionInv
  <2> SUFFICES ASSUME Init PROVE WorkInv /\ RevisionInv
    OBVIOUS
  <2>1. AcceptedV4 = {} /\ \A r \in Runs : ~Running(r) /\ pc[r] = "ready"
    BY DEF Init, AcceptedV4, Running
  <2>2. WorkInv
    BY <2>1 DEF Init, WorkInv
  <2>3. RevisionInv
    BY <2>1 DEF Init, RevisionInv, RevisionsNeverGoBack, Known, Entries, After
  <2> QED BY <2>2, <2>3
<1>2. GivenInv /\ GivenInv' /\ WorkInv /\ RevisionInv /\ [Next]_vars => WorkInv' /\ RevisionInv'
  <2>1. ASSUME GivenInv, GivenInv', WorkInv, RevisionInv, NEW r \in Runs, Step(r)
        PROVE  WorkInv' /\ RevisionInv'
    BY <2>1, WorkStep, RevisionStep
  <2>2. ASSUME WorkInv, RevisionInv, UNCHANGED vars
        PROVE  WorkInv' /\ RevisionInv'
    <3>1. WorkInv'
      BY <2>2 DEF WorkInv, vars, Running
    <3>2. RevisionInv'
      <4>1. AcceptedV4' = AcceptedV4 /\ log' = log /\ revStore' = revStore /\ found' = found
            /\ job' = job /\ pc' = pc
        BY <2>2 DEF AcceptedV4, vars
      <4>2. RevisionsNeverGoBack' /\ \A i \in AcceptedV4' : log'[i].token.revision \in Int
        BY <2>2, <4>1 DEF RevisionsNeverGoBack, RevisionInv
      <4>3. \A map : Known(map) => (\A i \in AcceptedV4' : Covers(map, log'[i].token))
        BY <4>1 DEF Known
      <4> QED BY <2>2, <4>1, <4>2, <4>3 DEF RevisionInv, Known, KeepsRevisions, Accepted
    <3> QED BY <3>1, <3>2
  <2> QED BY <2>1, <2>2, RunsOnly DEF Next, Step
<1>3. RevisionInv => RevisionsNeverGoBack
  BY DEF RevisionInv
<1> QED BY <1>1, <1>2, <1>3, GivenInvariant, PTL DEF Spec

---------------------------------------------------------------------------
(* Manifests *)

TrustedLine(report) == \E s \in {"verified", "warning"} : Line("root-manifest", s) \in report.lines

\* A trusted manifest is at hand, is not behind the floor and is the seq to keep.
LEMMA TrustedManifest ==
  ASSUME NEW in, TrustedLine(VerifyBrowser(in))
  PROVE  /\ in.manifest # None
         /\ VerifyBrowser(in).seq = in.manifest.seq
         /\ in.min # None => ~(in.manifest.seq < in.min)
<1>1. PICK s \in {"verified", "warning"} : Line("root-manifest", s) \in VerifyBrowser(in).lines
  BY DEF TrustedLine
<1> DEFINE keys == Listed(in.jwks, in.token.kid)
           lines == {Line("verdict-jws", "verified"), ManifestOf(in).line, ManifestKeyLine(in),
              KeyValidity(WindowKey(ManifestOf(in).manifest, KeyOf(in)), in.token.iat),
              Expiry(in.token, in.now), ChainLine(in.token), LinkOf(in),
              ChallengeListing(ManifestOf(in).manifest, LinkOf(in), in.challenge, in.challengeKeys),
              EdgeLink(in.token, in.edge)} \cup StageLines(in.token, in.prior)
<1>2. VerifyBrowser(in) =
        IF ~in.token.genuine \/ Cardinality(keys) # 1
        THEN [lines |-> {Line("verdict-jws", "failed")}, claims |-> None, seq |-> None]
        ELSE [lines |-> lines, claims |-> in.token, seq |-> ManifestOf(in).seq]
  BY DEF VerifyBrowser, KeyOf, ManifestOf, LinkOf, ManifestKeyLine
<1> HIDE DEF keys, lines
<1>3. VerifyBrowser(in).lines = lines /\ VerifyBrowser(in).seq = ManifestOf(in).seq
  BY <1>1, <1>2 DEF Line
<1>4. Line("root-manifest", s) = ManifestOf(in).line
  <2>1. \A name, status : Line(name, status).name = name
    BY DEF Line
  <2>2. /\ ManifestKeyLine(in).name = "manifest-verdict-key"
        /\ \A key, iat : KeyValidity(key, iat).name = "key-validity"
        /\ \A t, now : Expiry(t, now).name = "verdict-expiry"
        /\ \A t : ChainLine(t).name = "chain-root"
        /\ \A t, e : EdgeLink(t, e).name = "edge-link"
    BY <2>1 DEF ManifestKeyLine, ListingLine, KeyValidity, Expiry, ChainLine, EdgeLink
  <2>3. LinkOf(in).name = "session-link"
    BY <2>1 DEF LinkOf, SessionLink
  <2>4. \A m, link, c, ckeys : ChallengeListing(m, link, c, ckeys).name = "manifest-challenge-key"
    BY <2>1 DEF ChallengeListing, ListingLine
  <2>5. \A t, prior : \A l \in StageLines(t, prior) : l.name = "verdict-stage"
    BY <2>1 DEF StageLines
  <2> QED BY <1>1, <1>3, <2>1, <2>2, <2>3, <2>4, <2>5 DEF lines
<1>5. ManifestOf(in).line.status = s
  BY <1>4 DEF Line
<1>6. in.manifest # None
  BY <1>5 DEF ManifestOf, CheckManifest, Line
<1> QED BY <1>3, <1>5, <1>6, ManifestAtHand DEF ManifestOf

\* No manifest that a printed report trusted is newer than seq.
Above(seq) == \A i \in DOMAIN log : TrustedLine(log[i].report) =>
  seq \in Int /\ log[i].manifest.seq <= seq

\* The stored seq, and the one the run at work read, are no lower than any manifest
\* trusted so far; behind its write that holds for the run's own too.
ManifestInv ==
  /\ seqStore # Torn => seqStore \in Int \cup {None} /\ Above(seqStore)
  /\ \A r \in Runs :
       /\ Running(r) => job[r].stored \in Int \cup {None} /\ Above(job[r].stored)
       /\ pc[r] \in {"read", "revisions", "fill revisions", "seq"} => seqStore = job[r].stored
       /\ pc[r] = "fill seq" => KeepsSeq(r)
       /\ pc[r] = "print" /\ TrustedLine(found[r].report) =>
            seqStore \in Int /\ job[r].manifest.seq <= seqStore
  /\ \A i \in DOMAIN log : TrustedLine(log[i].report) => log[i].manifest.seq \in Int
  /\ ManifestNeverRollsBack

\* The seq to keep is the manifest's.
LEMMA SeqOfManifest ==
  ASSUME NEW in, VerifyBrowser(in).seq # None
  PROVE  in.manifest # None /\ VerifyBrowser(in).seq = in.manifest.seq
<1> DEFINE m == ManifestOf(in)
<1>1. VerifyBrowser(in).seq = None \/ VerifyBrowser(in).seq = m.seq
  BY DEF VerifyBrowser, ManifestOf
<1>2. m.seq # None => in.manifest # None /\ m.seq = in.manifest.seq
  BY DEF ManifestOf, CheckManifest, Line
<1> QED BY <1>1, <1>2

LEMMA SeqFacts ==
  ASSUME GivenInv, NEW r \in Runs, pc[r] \in After
  PROVE  /\ found[r].report.seq # None =>
              found[r].report.seq \in Int /\ found[r].report.seq = job[r].manifest.seq
         /\ TrustedLine(found[r].report) =>
              /\ job[r].manifest.seq \in Int
              /\ found[r].report.seq # None
              /\ job[r].stored # None => ~(job[r].manifest.seq < job[r].stored)
<1> DEFINE in == Asked(r)
<1>1. found[r].report = VerifyBrowser(in) /\ Given(r)
  BY DEF GivenInv, Judged, After
<1>2. in.manifest = job[r].manifest /\ in.min = job[r].stored
  BY DEF Asked
<1>3. in.manifest # None => in.manifest.seq \in Int
  BY <1>1, <1>2, SessionAssumption DEF GivenInv, Given
<1> HIDE DEF in
<1>4. found[r].report.seq # None =>
        found[r].report.seq \in Int /\ found[r].report.seq = job[r].manifest.seq
  BY <1>1, <1>2, <1>3, SeqOfManifest
<1>5. ASSUME TrustedLine(found[r].report)
      PROVE  /\ job[r].manifest.seq \in Int
             /\ found[r].report.seq # None
             /\ job[r].stored # None => ~(job[r].manifest.seq < job[r].stored)
  <2>1. /\ in.manifest # None
        /\ VerifyBrowser(in).seq = in.manifest.seq
        /\ in.min # None => ~(in.manifest.seq < in.min)
    BY <1>1, <1>5, TrustedManifest
  <2> QED BY <1>1, <1>2, <1>3, <2>1, NoneIsNoCode
<1> QED BY <1>4, <1>5

LEMMA AboveStays ==
  ASSUME ManifestInv, log' = log
  PROVE  /\ \A seq : Above(seq) =>
              (\A i \in DOMAIN log' : TrustedLine(log'[i].report) =>
                 seq \in Int /\ log'[i].manifest.seq <= seq)
         /\ \A i \in DOMAIN log' : TrustedLine(log'[i].report) => log'[i].manifest.seq \in Int
         /\ ManifestNeverRollsBack'
<1>1. \A seq : Above(seq) =>
        (\A i \in DOMAIN log' : TrustedLine(log'[i].report) =>
           seq \in Int /\ log'[i].manifest.seq <= seq)
  BY DEF Above
<1> QED BY <1>1 DEF ManifestInv, ManifestNeverRollsBack

LEMMA BelowHigher == \A a, b, c \in Int : a <= b /\ c > b => a <= c
OBVIOUS

\* A seq that is written is no lower than any trusted so far.
LEMMA WrittenSeq ==
  ASSUME GivenInv, ManifestInv, NEW r \in Runs, pc[r] = "fill seq"
  PROVE  /\ found[r].report.seq \in Int /\ Above(found[r].report.seq)
         /\ found[r].report.seq = job[r].manifest.seq
<1>1. /\ KeepsSeq(r) /\ job[r].stored \in Int \cup {None} /\ Above(job[r].stored)
      /\ \A i \in DOMAIN log : TrustedLine(log[i].report) => log[i].manifest.seq \in Int
  BY DEF ManifestInv, Running
<1>2. found[r].report.seq \in Int /\ found[r].report.seq = job[r].manifest.seq
  BY <1>1, SeqFacts DEF After, KeepsSeq
<1>3. job[r].stored # None => job[r].stored \in Int /\ found[r].report.seq > job[r].stored
  BY <1>1 DEF KeepsSeq
<1>4. ASSUME NEW i \in DOMAIN log, TrustedLine(log[i].report)
      PROVE  log[i].manifest.seq <= found[r].report.seq
  <2>1. job[r].stored \in Int /\ log[i].manifest.seq <= job[r].stored /\ log[i].manifest.seq \in Int
    BY <1>1, <1>4 DEF Above
  <2>2. job[r].stored # None
    BY <2>1, NoneIsNoCode
  <2>3. found[r].report.seq > job[r].stored
    BY <1>3, <2>2
  <2>5. found[r].report.seq \in Int
    BY <1>2
  <2> QED BY <2>1, <2>3, <2>5, BelowHigher
<1> QED BY <1>2, <1>4 DEF Above

LEMMA ManifestStep ==
  ASSUME Serial, GivenInv, GivenInv', WorkInv, WorkInv', ManifestInv, NEW r \in Runs, Step(r)
  PROVE  ManifestInv'
<1>0. \A s \in Runs : s # r => ~Running(s)' /\ pc'[s] \notin After \cup {"read"}
  BY Alone DEF Running, After
<1>1. CASE ~PrintReport(r)
  <2>1. log' = log
    BY <1>1, LogOnlyIn
  <2>2. ASSUME seqStore' # Torn
        PROVE  seqStore' \in Int \cup {None} /\ Above(seqStore)'
    <3>1. CASE FillSeq(r)
      <4>1. pc[r] = "fill seq" /\ seqStore' = found[r].report.seq
        BY <3>1 DEF FillSeq
      <4> QED BY <2>1, <4>1, WrittenSeq, AboveStays DEF Above
    <3>2. CASE ~FillSeq(r)
      <4>1. seqStore' = seqStore
        BY <1>1, <2>2, <3>2 DEF Step, Start, Verify, TruncateRevisions, FillRevisions, NoRevisions,
             TruncateSeq, NoSeq, WriteFails, Crash
      <4> QED BY <2>1, <2>2, <4>1, AboveStays DEF ManifestInv, Above
    <3> QED BY <3>1, <3>2
  <2>3. ASSUME Running(r)'
        PROVE  job'[r].stored \in Int \cup {None} /\ Above(job[r].stored)'
    <3>1. CASE Start(r)
      <4>1. PICK t \in offer.tokens, m \in offer.manifests, c \in offer.challenges,
                 e \in offer.edges :
              job'[r] = [token |-> t, manifest |-> m, challenge |-> c, edge |-> e,
                         stored |-> seqStore, after |-> Len(log)]
        BY <3>1, StartOwn
      <4>2. job'[r].stored = seqStore /\ seqStore # Torn
        BY <2>3, <3>1, <4>1, StartOwn DEF Running
      <4> QED BY <2>1, <4>2, AboveStays DEF ManifestInv, Above
    <3>2. CASE ~Start(r)
      <4>1. Running(r) /\ job' = job
        BY <3>2, VerifyOwn, StoreOwn, EndOwn DEF Step, Running, After
      <4> QED BY <2>1, <4>1, AboveStays DEF ManifestInv, Above
    <3> QED BY <3>1, <3>2
  <2>4. ASSUME pc'[r] \in {"read", "revisions", "fill revisions", "seq"}
        PROVE  seqStore' = job'[r].stored
    <3>1. CASE Start(r)
      <4>1. PICK t \in offer.tokens, m \in offer.manifests, c \in offer.challenges,
                 e \in offer.edges :
              job'[r] = [token |-> t, manifest |-> m, challenge |-> c, edge |-> e,
                         stored |-> seqStore, after |-> Len(log)]
        BY <3>1, StartOwn
      <4> QED BY <3>1, <4>1 DEF Start
    <3>2. CASE ~Start(r)
      <4>1. /\ pc[r] \in {"read", "revisions", "fill revisions", "seq"}
            /\ job' = job /\ seqStore' = seqStore
        BY <1>1, <2>4, <3>2, EndOwn DEF Step, Verify, TruncateRevisions, FillRevisions,
             NoRevisions, TruncateSeq, FillSeq, NoSeq, GivenInv
      <4> QED BY <4>1 DEF ManifestInv
    <3> QED BY <3>1, <3>2
  <2>5. ASSUME pc'[r] = "fill seq" PROVE KeepsSeq(r)'
    <3>1. TruncateSeq(r)
      BY <1>1, <2>5, StartOwn, VerifyOwn, EndOwn
         DEF Step, TruncateRevisions, FillRevisions, NoRevisions, FillSeq, NoSeq, GivenInv
    <3> QED BY <3>1 DEF TruncateSeq, KeepsSeq
  <2>6. ASSUME pc'[r] = "print", TrustedLine(found'[r].report)
        PROVE  seqStore' \in Int /\ job'[r].manifest.seq <= seqStore'
    <3>1. CASE FillSeq(r)
      <4>1. /\ pc[r] = "fill seq" /\ seqStore' = found[r].report.seq /\ job' = job
        BY <3>1 DEF FillSeq
      <4>2. seqStore' \in Int /\ job'[r].manifest.seq = seqStore'
        BY <4>1, WrittenSeq
      <4>3. \A a \in Int : a <= a
        OBVIOUS
      <4> QED BY <4>2, <4>3
    <3>2. CASE NoSeq(r)
      <4>1. /\ pc[r] = "seq" /\ pc[r] \in After /\ ~KeepsSeq(r) /\ seqStore' = seqStore
            /\ job' = job /\ found' = found
        BY <3>2 DEF NoSeq, After
      <4>2. /\ seqStore = job[r].stored /\ job[r].stored \in Int \cup {None}
        BY <4>1 DEF ManifestInv, Running
      <4>3. /\ job[r].manifest.seq \in Int /\ found[r].report.seq # None
            /\ found[r].report.seq = job[r].manifest.seq
        BY <2>6, <4>1, SeqFacts
      <4>4. job[r].stored # None /\ ~(found[r].report.seq > job[r].stored)
        BY <4>1, <4>3 DEF KeepsSeq
      <4>5. job[r].stored \in Int
        BY <4>2, <4>4
      <4>6. job[r].manifest.seq <= job[r].stored
        BY <4>3, <4>4, <4>5
      <4> QED BY <4>1, <4>2, <4>5, <4>6
    <3>3. CASE ~FillSeq(r) /\ ~NoSeq(r)
      <4>1. pc'[r] # "print"
        BY <1>1, <3>3, StartOwn, VerifyOwn, EndOwn DEF Step, TruncateRevisions, FillRevisions,
             NoRevisions, TruncateSeq, GivenInv
      <4> QED BY <2>6, <4>1
    <3> QED BY <3>1, <3>2, <3>3
  <2>7. /\ \A i \in DOMAIN log' : TrustedLine(log'[i].report) => log'[i].manifest.seq \in Int
        /\ ManifestNeverRollsBack'
    BY <2>1, AboveStays
  <2>8. \A s \in Runs :
       /\ Running(s)' => job'[s].stored \in Int \cup {None} /\ Above(job[s].stored)'
       /\ pc'[s] \in {"read", "revisions", "fill revisions", "seq"} => seqStore' = job'[s].stored
       /\ pc'[s] = "fill seq" => KeepsSeq(s)'
       /\ pc'[s] = "print" /\ TrustedLine(found'[s].report) =>
            seqStore' \in Int /\ job'[s].manifest.seq <= seqStore'
    BY <1>0, <2>3, <2>4, <2>5, <2>6 DEF After
  <2> QED BY <2>2, <2>7, <2>8 DEF ManifestInv
<1>2. CASE PrintReport(r)
  <2> DEFINE n == Len(log) + 1
  <2>1. /\ Len(log) \in Nat /\ DOMAIN log = 1 .. Len(log) /\ DOMAIN log' = 1 .. n
        /\ \A i \in DOMAIN log : log'[i] = log[i]
        /\ log'[n].manifest = job[r].manifest /\ log'[n].report = found[r].report
        /\ log'[n].after = job[r].after
        /\ seqStore' = seqStore /\ pc[r] = "print"
    BY <1>2, LogGrows DEF WorkInv
  <2>2. pc[r] \in After /\ pc'[r] = "done" /\ Running(r)
    BY <1>2, <2>1, EndOwn DEF After, Running
  <2>3. \A i \in DOMAIN log' : i \in DOMAIN log \/ i = n
    BY <2>1
  <2>4. /\ job[r].stored \in Int \cup {None} /\ Above(job[r].stored)
        /\ TrustedLine(found[r].report) => seqStore \in Int /\ job[r].manifest.seq <= seqStore
    BY <2>1, <2>2 DEF ManifestInv
  <2>5. TrustedLine(found[r].report) =>
          /\ job[r].manifest.seq \in Int
          /\ job[r].stored # None => ~(job[r].manifest.seq < job[r].stored)
    BY <2>2, SeqFacts
  <2>6. ASSUME seqStore' # Torn
        PROVE  seqStore' \in Int \cup {None} /\ Above(seqStore)'
    BY <2>1, <2>3, <2>4, <2>6 DEF ManifestInv, Above
  <2>7. \A i \in DOMAIN log' : TrustedLine(log'[i].report) => log'[i].manifest.seq \in Int
    BY <2>1, <2>3, <2>5 DEF ManifestInv
  <2>8. ASSUME NEW i \in DOMAIN log', NEW j \in DOMAIN log', i <= log'[j].after,
               TrustedLine(log'[i].report), TrustedLine(log'[j].report)
        PROVE  log'[i].manifest.seq <= log'[j].manifest.seq
    <3>1. log'[j].after <= Len(log) /\ log'[j].after \in Nat
      <4>1. log'[j].after \in Nat /\ log'[j].after < j /\ j \in 1 .. n
        BY <2>1 DEF WorkInv
      <4> QED BY <2>1, <4>1
    <3>2. i \in DOMAIN log
      <4>1. i \in 1 .. n /\ i <= Len(log)
        BY <2>1, <2>8, <3>1
      <4> QED BY <2>1, <4>1
    <3>3. CASE j \in DOMAIN log
      BY <2>1, <2>8, <3>2, <3>3 DEF ManifestInv, ManifestNeverRollsBack, TrustedLine
    <3>4. CASE j = n
      <4>1. job[r].stored \in Int /\ log[i].manifest.seq <= job[r].stored
            /\ log[i].manifest.seq \in Int
        BY <2>1, <2>4, <2>8, <3>2 DEF Above, ManifestInv
      <4>2. job[r].stored # None
        BY <4>1, NoneIsNoCode
      <4>3. job[r].manifest.seq \in Int /\ ~(job[r].manifest.seq < job[r].stored)
        BY <2>1, <2>5, <2>8, <3>4, <4>2
      <4>4. log[i].manifest.seq <= job[r].manifest.seq
        BY <4>1, <4>3
      <4> QED BY <2>1, <3>2, <3>4, <4>4
    <3> QED BY <2>3, <3>3, <3>4
  <2>9. ManifestNeverRollsBack'
    BY <2>8 DEF ManifestNeverRollsBack, TrustedLine
  <2>10. \A s \in Runs : ~Running(s)' /\ pc'[s] \notin After \cup {"read"}
    BY <1>0, <2>2 DEF Running, After
  <2> QED BY <2>6, <2>7, <2>9, <2>10 DEF ManifestInv, After
<1> QED BY <1>1, <1>2

\* A manifest that a run trusted is never older than one trusted before it started,
\* when runs follow each other and wherever one of them was killed
\* (check_manifest, --manifest-seq-store).
THEOREM ManifestNeverRollsBackTheorem ==
  ASSUME Serial
  PROVE  Spec => []ManifestNeverRollsBack
<1>1. Init => WorkInv /\ ManifestInv
  <2> SUFFICES ASSUME Init PROVE WorkInv /\ ManifestInv
    OBVIOUS
  <2>1. \A r \in Runs : ~Running(r) /\ pc[r] = "ready"
    BY DEF Init, Running
  <2>2. WorkInv
    BY <2>1 DEF Init, WorkInv
  <2>3. ManifestInv
    BY <2>1 DEF Init, ManifestInv, ManifestNeverRollsBack, Above
  <2> QED BY <2>2, <2>3
<1>2. GivenInv /\ GivenInv' /\ WorkInv /\ ManifestInv /\ [Next]_vars => WorkInv' /\ ManifestInv'
  <2>1. ASSUME GivenInv, GivenInv', WorkInv, ManifestInv, NEW r \in Runs, Step(r)
        PROVE  WorkInv' /\ ManifestInv'
    BY <2>1, WorkStep, ManifestStep
  <2>2. ASSUME WorkInv, ManifestInv, UNCHANGED vars
        PROVE  WorkInv' /\ ManifestInv'
    <3>1. WorkInv'
      BY <2>2 DEF WorkInv, vars, Running
    <3>2. ManifestInv'
      <4>1. log' = log /\ seqStore' = seqStore /\ found' = found /\ job' = job /\ pc' = pc
        BY <2>2 DEF vars
      <4> QED BY <2>2, <4>1, AboveStays DEF ManifestInv, Above, KeepsSeq, Running
    <3> QED BY <3>1, <3>2
  <2> QED BY <2>1, <2>2, RunsOnly DEF Next, Step
<1>3. ManifestInv => ManifestNeverRollsBack
  BY DEF ManifestInv
<1> QED BY <1>1, <1>2, <1>3, GivenInvariant, PTL DEF Spec
=============================================================================
