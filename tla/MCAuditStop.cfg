\* A range and a watch at the same time, killed, unwritable and stopped.
CONSTANTS
  None = None
  r1 = r1
  r2 = r2
  r3 = r3
  i1 = i1
  i2 = i2
  h1 = h1
  h2 = h2
  Runs = {r1, r2}
  Sub <- MCRangeThenWatch
  Stored = {r1}
  Ids = {i1}
  Bodies <- MCAllBodies
  Serial = FALSE
  MayCrash = TRUE
  StoreMayFail = TRUE
  MaxPage = 1
  MaxFetches = 2
SPECIFICATION FairSpec
INVARIANTS
  ExitCoversAll
PROPERTY StopEnds
\* Every run ends, and then nothing is left to do.
CHECK_DEADLOCK FALSE
