\* Proofs of three phones, delivered with each other's evidence.
CONSTANTS
  None = None
  Garbage = Garbage
  NoReply = NoReply
  CutBody = CutBody
  phone = phone
  other = other
  android = android
  relay = relay
  navigator = navigator
  elsewhere = elsewhere
  KeygenChallenge = "navigate-stage-chain-v1"
  MsPerS = 2
  IosDevices = {phone, other}
  AndroidDevices = {android}
  AppOf <- MCAppOf
  Exchanges <- MCExchanges
  Outsiders = {relay}
  Expect <- MCExpect
  Dates <- MCDates
  Pinned = {phone}
  Now = 4
  Windows <- MCWindows
  MaxProofs <- MCMaxProofs
SPECIFICATION Spec
INVARIANTS
  KeyCacheInv
  AttestedIsBound
  AssertionIsSpentOnce
  DatedMeansValidThroughout
  EvidenceIsOfThisProof
  OutageIsNoVerdict
