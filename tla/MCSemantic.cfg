\* Semantic fields, uncertainty and login nonce of three proofs of one device.
CONSTANTS
  None = None
  Empty = Empty
  ZeroNullifier = ZeroNullifier
  MsPerS = 1
  QueryIds <- MCQueryIds
  FutureSkew = 0
  DriftTolerance = 0
  SaltLens = {0, 1}
  MaxEntries = 1
  d1 = d1
  x = x
  Devices = {d1}
  OtherKeys = {x}
  Contents <- MCClaims
  Options <- MCOptions
  MaxEdits = 2
  Instants = {0}
SPECIFICATION Spec
INVARIANTS
  SemanticFieldsAreSigned
  QueryHasItsAnswer
  UncertaintyIsSigned
  SessionIsThisLogin
  RequiredTierWasSigned
  ContentIsSigned
  ManifestIsSigned
CONSTRAINT NothingHalfSigned
