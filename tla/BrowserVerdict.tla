--------------------------- MODULE BrowserVerdict ---------------------------
(***************************************************************************)
(* The browser profile: verify_browser_verdict_with of src/browser.rs, as  *)
(* operators from a verdict token, the keys, a root manifest and the       *)
(* session's earlier revisions to a report.                                *)
(*                                                                         *)
(* Tokens, manifests and challenges are records of their signed claims;    *)
(* `genuine` says that the signature, header and issuer checks of          *)
(* verify_jws, verify_manifest or verify_challenge hold.  A token's chain  *)
(* is None (no chain claim) or [root, s0, reports, edges]: whether         *)
(* chain_root recomputes, the challenge it names, how many reports it has  *)
(* and the edge log lines they match.  `confidence` is "low" up to         *)
(* PROVISIONAL_CONFIDENCE_CAP and "high" above.  A key is                  *)
(* [kid, material, from, to, revoked], None for an absent bound; the kids  *)
(* of a manifest's list are distinct, those of a JWKS need not be.         *)
(* octet's own attested links (s1, receipts) never fail and are left out.  *)
(***************************************************************************)
EXTENDS Integers, FiniteSets

CONSTANTS
  None,
  SkewS,        \* SKEW_S, in clock ticks
  Grace         \* MANIFEST_GRACE_S, in clock ticks

Line(name, status) == [name |-> name, status |-> status]

\* check_manifest: its line and the manifest when it can be trusted, with the
\* seq to persist, which is set before the manifest's expiry is looked at.
CheckManifest(m, min, now) ==
  LET Outcome(status, trusted, seq) ==
        [line |-> Line("root-manifest", status), manifest |-> trusted, seq |-> seq]
  IN CASE m = None -> Outcome("notchecked", None, None)
       [] m # None /\ ~m.genuine -> Outcome("failed", None, None)
       [] m # None /\ m.genuine /\ min # None /\ m.seq < min -> Outcome("failed", None, None)
       [] OTHER -> CASE now > m.exp + Grace -> Outcome("failed", None, m.seq)
                     [] now <= m.exp        -> Outcome("verified", m, m.seq)
                     [] OTHER               -> Outcome("warning", m, m.seq)

\* A key listed in a manifest with the same kid.
Listed(keys, kid) == {k \in keys : k.kid = kid}

\* Mutant of ListingLine: the kid is enough.
ListingLineByKid(name, keys, key) ==
  Line(name, IF Listed(keys, key.kid) # {} THEN "verified" ELSE "failed")

ListingLine(name, keys, key) ==
  Line(name, IF \E k \in Listed(keys, key.kid) : k.material = key.material
             THEN "verified" ELSE "failed")

\* The key whose window counts: the manifest's entry of the same key, else the
\* key of the JWKS.
WindowKey(manifest, key) ==
  LET same == IF manifest = None THEN {}
              ELSE {k \in Listed(manifest.verdictKeys, key.kid) : k.material = key.material}
  IN IF same = {} THEN key ELSE CHOOSE k \in same : TRUE

KeyValidity(key, iat) ==
  Line("key-validity",
    CASE key.from = None /\ key.revoked = None -> "notchecked"
      [] OTHER ->
           IF /\ key.revoked # None => iat < key.revoked
              /\ key.from # None => iat >= key.from - SkewS
              /\ key.to # None => iat <= key.to + SkewS
           THEN "verified" ELSE "failed")

\* A stored token is expected to be expired: that is never a failure.
Expiry(t, now) ==
  Line("verdict-expiry",
    CASE t.exp < t.iat -> "failed"
      [] t.exp >= t.iat /\ now <= t.exp + SkewS -> "verified"
      [] OTHER -> "notchecked")

ChainOk(t) == t.version >= 3 /\ t.chain # None /\ t.chain.root

ChainLine(t) ==
  Line("chain-root",
    CASE t.version < 3 -> "notchecked"
      [] OTHER -> IF ChainOk(t) THEN "verified" ELSE "failed")

---------------------------------------------------------------------------
(* verdict_stage: the profile of a version 4 token and its session *)

\* A token judged on layer 1 alone.
Layer1Only(t) == t.stage = "provisional" \/ t.incomplete

StageShapeOk(t) ==
  /\ t.stage \in {"provisional", "final"}
  /\ t.revision # None /\ t.revision >= 1
  /\ t.incomplete => t.stage = "final"
  /\ t.chain # None
  /\ IF Layer1Only(t) THEN t.chain.reports = 1 ELSE t.chain.reports \in 1 .. 2
  /\ Layer1Only(t) => t.confidence = "low"

\* Mutant of RevisionOk: the accepted final is forgotten.
RevisionNotLower(t, prior) == prior # None => t.revision >= prior.highest

\* What the session has already accepted allows this revision.
RevisionOk(t, prior) ==
  prior # None =>
    /\ t.revision >= prior.highest
    /\ prior.final # None => t.revision = prior.final /\ t.stage = "final"

StageLines(t, prior) ==
  CASE t.version < 4 ->
         IF t.stage # None \/ t.revision # None \/ t.incomplete
         THEN {Line("verdict-stage", "failed")} ELSE {}
    [] OTHER ->
         {Line("verdict-stage",
            CASE ~(StageShapeOk(t) /\ RevisionOk(t, prior)) -> "failed"
              [] StageShapeOk(t) /\ RevisionOk(t, prior) /\ Layer1Only(t) -> "warning"
              [] OTHER -> "verified")}

---------------------------------------------------------------------------
(* Links *)

\* session_link: the challenge the chain names, signed, of the same session and
\* alive when the verdict was issued.
SessionLink(t, c, ckeys) ==
  Line("session-link",
    CASE c = None \/ ~ChainOk(t) -> "notchecked"
      [] c # None /\ ChainOk(t) /\ t.chain.s0 # c.id -> "failed"
      [] c # None /\ ChainOk(t) /\ t.chain.s0 = c.id /\ ckeys = None -> "notchecked"
      [] OTHER ->
           IF /\ c.genuine /\ Cardinality(Listed(ckeys, c.kid)) = 1
              /\ c.sessionRef = t.sessionRef
              /\ c.iat <= t.iat /\ t.iat <= c.exp + SkewS
           THEN "verified" ELSE "failed")

ChallengeListing(manifest, link, c, ckeys) ==
  IF manifest = None \/ link.status # "verified"
  THEN Line("manifest-challenge-key", "notchecked")
  ELSE ListingLine("manifest-challenge-key", manifest.challengeKeys,
                   CHOOSE k \in Listed(ckeys, c.kid) : TRUE)

\* Mutant of EdgeLink: a log line that matches no report is not checked.
EdgeLinkIfFound(t, edge) ==
  Line("edge-link", IF ChainOk(t) /\ edge \in t.chain.edges THEN "verified" ELSE "notchecked")

EdgeLink(t, edge) ==
  Line("edge-link",
    CASE edge = None \/ ~ChainOk(t) -> "notchecked"
      [] OTHER -> IF edge \in t.chain.edges THEN "verified" ELSE "failed")

---------------------------------------------------------------------------
(* The report *)

\* `in` has the token, jwks, manifest, min (the rollback floor), challenge,
\* challengeKeys, edge, now and prior of one call.
VerifyBrowser(in) ==
  LET t     == in.token
      keys  == Listed(in.jwks, t.kid)      \* find_key refuses a kid listed twice
      key   == CHOOSE k \in keys : TRUE
      m     == CheckManifest(in.manifest, in.min, in.now)
      link  == SessionLink(t, in.challenge, in.challengeKeys)
  IN IF ~t.genuine \/ Cardinality(keys) # 1
     THEN [lines |-> {Line("verdict-jws", "failed")}, claims |-> None, seq |-> None]
     ELSE [lines |->
             {Line("verdict-jws", "verified"), m.line,
              IF m.manifest = None THEN Line("manifest-verdict-key", "notchecked")
              ELSE ListingLine("manifest-verdict-key", m.manifest.verdictKeys, key),
              KeyValidity(WindowKey(m.manifest, key), t.iat),
              Expiry(t, in.now), ChainLine(t), link,
              ChallengeListing(m.manifest, link, in.challenge, in.challengeKeys),
              EdgeLink(t, in.edge)} \cup StageLines(t, in.prior),
           claims |-> t, seq |-> m.seq]

Valid(report) ==
  /\ \A l \in report.lines : l.status # "failed"
  /\ Line("verdict-jws", "verified") \in report.lines

IsFinal(report) ==
  /\ report.claims # None
  /\ report.claims.version = 4 =>
       report.claims.stage = "final" /\ ~report.claims.incomplete

PassesGate(report, acceptProvisional) ==
  Valid(report) /\ (acceptProvisional \/ IsFinal(report))

\* next_revisions: None when the token changes nothing.
NextRevisions(report, prior) ==
  IF ~Valid(report) \/ report.claims.version # 4 THEN None
  ELSE LET t == report.claims
           before == IF prior = None THEN [highest |-> 0, final |-> None] ELSE prior
       IN [highest |-> IF t.revision > before.highest THEN t.revision ELSE before.highest,
           final   |-> IF t.stage = "final" THEN t.revision ELSE before.final]
=============================================================================
