\* A range, a watch and a fetch one after the other on one store.
CONSTANTS
  None = None
  r1 = r1
  r2 = r2
  r3 = r3
  i1 = i1
  i2 = i2
  h1 = h1
  h2 = h2
  Runs = {r1, r2, r3}
  Sub <- MCRangeWatchFetch
  Stored = {r1, r2, r3}
  Ids = {i1, i2}
  Bodies <- MCTwoBodies
  Serial = TRUE
  MayCrash = FALSE
  StoreMayFail = FALSE
  MaxPage = 1
  MaxFetches = 2
SPECIFICATION Spec
INVARIANTS
  SubstitutionFails
  SkippedOnlyIfPrinted
PROPERTY RefinesFirstSeen
\* Every run ends, and then nothing is left to do.
CHECK_DEADLOCK FALSE
