\* Runs one after the other, each possibly killed or unable to write, and a gate.
CONSTANTS
  None = None
  Torn = Torn
  r1 = r1
  r2 = r2
  r3 = r3
  s1 = s1
  s2 = s2
  k1 = k1
  k2 = k2
  c1 = c1
  c2 = c2
  e1 = e1
  e2 = e2
  good = good
  bad = bad
  Runs = {r1, r2, r3}
  Offers <- MCOffers
  Keys <- MCKeys
  ChallengeKeys <- MCChallengeKeys
  Serial = TRUE
  MayCrash = TRUE
  AcceptProvisional = {r2}
  Now = 6
  SkewS = 1
  Grace = 2
SPECIFICATION Spec
INVARIANTS
  RevisionsNeverGoBack
  ManifestNeverRollsBack
  GateIsVouched
  GateIsOfThisSession
\* Every run ends, and then nothing is left to do.
CHECK_DEADLOCK FALSE
