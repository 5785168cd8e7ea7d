\* Any message of four elements, against the doc of the guard.
CONSTANTS
  MaxLevel = 2
  LookupBits = 1
  Lookups = 4
  MaxCellSetEntries = 7
  MaxFZoom = 1
  NoHeight = NoHeight
  None = None
  NoPoint = NoPoint
  Unevaluable = Unevaluable
  Lower <- MCLower
  Cut = Cut
  Elements <- MCElements
  MaxElements = 4
  Openings <- MCOpenings
  Entries <- MCEntries
  MaxAdded = 2
  Faces = {0, 1}
  Claims <- MCClaims
  Wants <- MCWants
  Types <- MCTypes
  Directions <- MCDirections
  Asked <- MCAsked
SPECIFICATION Spec
INVARIANTS
  AcceptedWireHasOneReading
CHECK_DEADLOCK FALSE
