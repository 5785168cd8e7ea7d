\* A store that cannot be written loses the first sighting.
CONSTANTS
  None = None
  r1 = r1
  r2 = r2
  r3 = r3
  i1 = i1
  i2 = i2
  h1 = h1
  h2 = h2
  Runs = {r1, r2}
  Sub <- MCFetches
  Stored = {r1, r2}
  Ids = {i1}
  Bodies <- MCTwoBodies
  Serial = TRUE
  MayCrash = FALSE
  StoreMayFail = TRUE
  MaxPage = 1
  MaxFetches = 1
SPECIFICATION Spec
INVARIANT RecordedIsRemembered
\* Every run ends, and then nothing is left to do.
CHECK_DEADLOCK FALSE
