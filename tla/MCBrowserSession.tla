-------------------------- MODULE MCBrowserSession --------------------------
(* Tokens of two sessions verified by a few runs over one pair of stores. *)
EXTENDS BrowserSession

CONSTANTS r1, r2, r3, s1, s2, k1, k2, c1, c2, e1, e2, good, bad

Key(kid, material, revoked) ==
  [kid |-> kid, material |-> material, from |-> 0, to |-> None, revoked |-> revoked]

Manifest(genuine, seq, exp, verdictKeys) ==
  [genuine |-> genuine, seq |-> seq, exp |-> exp, verdictKeys |-> verdictKeys,
   challengeKeys |-> {Key(k2, good, None)}]

V4(ref, stage, revision, incomplete, answer) ==
  [genuine |-> TRUE, version |-> 4, kid |-> k1, sessionRef |-> ref, stage |-> stage,
   revision |-> revision, incomplete |-> incomplete, confidence |-> "low",
   iat |-> 2, exp |-> 9, answer |-> answer,
   chain |-> [root |-> TRUE, s0 |-> c1, edges |-> {e1}, reports |-> 1]]

MCKeys == {Key(k1, good, None)}

\* Revisions of s1, two finals among them, and a token of s2.
MCTokens ==
  {V4(s1, "provisional", 1, FALSE, good),
   V4(s1, "final", 2, FALSE, good), V4(s1, "final", 3, TRUE, good),
   V4(s2, "provisional", 1, FALSE, good)}

\* Tokens a gate must refuse beside one it may accept.
MCGateTokens ==
  LET fine == V4(s1, "final", 2, FALSE, good) IN
    {fine, [fine EXCEPT !.genuine = FALSE], [fine EXCEPT !.confidence = "high"],
     [fine EXCEPT !.stage = "provisional", !.confidence = "high"],
     [fine EXCEPT !.version = 3], [fine EXCEPT !.version = 3, !.stage = None, !.revision = None],
     [fine EXCEPT !.iat = 5], [fine EXCEPT !.exp = 1], [fine EXCEPT !.chain.root = FALSE],
     [fine EXCEPT !.incomplete = TRUE], [fine EXCEPT !.kid = k2],
     [fine EXCEPT !.sessionRef = s2], [fine EXCEPT !.chain.s0 = c2]}

\* No manifest at hand, and three of rising seq, the last one expired.
MCManifests ==
  {None, Manifest(TRUE, 1, 9, {Key(k1, good, None)}), Manifest(TRUE, 2, 5, {Key(k1, good, None)}),
   Manifest(TRUE, 3, 1, {Key(k1, good, None)})}

\* Manifests that leave a key out, list another one under its kid or revoke it.
MCGateManifests ==
  LET m == Manifest(TRUE, 1, 9, {Key(k1, good, None)}) IN
    {None, m, [m EXCEPT !.challengeKeys = {}], [m EXCEPT !.challengeKeys = {Key(k2, bad, None)}],
     Manifest(FALSE, 1, 9, {}), Manifest(TRUE, 1, 9, {}),
     Manifest(TRUE, 1, 9, {Key(k1, bad, None)}), Manifest(TRUE, 1, 9, {Key(k1, good, 4)})}

\* Challenges of which only the first belongs to the tokens of s1.
MCChallenges ==
  LET own == [id |-> c1, genuine |-> TRUE, kid |-> k2, sessionRef |-> s1, iat |-> 1, exp |-> 3]
  IN {None, own, [own EXCEPT !.id = c2], [own EXCEPT !.genuine = FALSE],
      [own EXCEPT !.sessionRef = s2], [own EXCEPT !.iat = 3],
      [own EXCEPT !.iat = 0, !.exp = 0]}

MCChallengeKeys == {Key(k2, good, None)}

\* Three runs over the stores, and one run at a gate.
MCOffers ==
  {[runs |-> {r1, r2, r3}, tokens |-> MCTokens, manifests |-> MCManifests,
    challenges |-> {None}, edges |-> {None}],
   [runs |-> {r1}, tokens |-> MCGateTokens, manifests |-> MCGateManifests,
    challenges |-> MCChallenges, edges |-> {None, e1, e2}]}
=============================================================================
