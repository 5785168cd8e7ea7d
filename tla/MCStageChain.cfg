\* Stage chains: two proofs of one device, spliced and rewritten.
CONSTANTS
  None = None
  Empty = Empty
  ZeroNullifier = ZeroNullifier
  MsPerS = 2
  QueryIds <- MCQueryIds
  FutureSkew = 0
  DriftTolerance = 0
  SaltLens = {0, 1}
  MaxEntries = 1
  d1 = d1
  d2 = d2
  x = x
  Devices = {d1}
  OtherKeys = {x}
  Contents <- MCContents
  Options <- MCOptions
  MaxEdits = 2
  Instants = {0, 3}
SPECIFICATION Spec
INVARIANTS
  FieldInv
  AuthenticIsIssued
  FreshMeansAssembledInTime
  VisibleFieldsAreSigned
  TwinIsNoNewProof
  EchoIsSigned
