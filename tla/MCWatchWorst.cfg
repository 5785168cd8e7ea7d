\* A watch that printed an INVALID proof exits with the last one.
CONSTANTS
  None = None
  r1 = r1
  r2 = r2
  r3 = r3
  i1 = i1
  i2 = i2
  h1 = h1
  h2 = h2
  Runs = {r1}
  Sub <- MCWatches
  Stored = {r1}
  Ids = {i1, i2}
  Bodies <- MCGoodAndBad
  Serial = TRUE
  MayCrash = FALSE
  StoreMayFail = FALSE
  MaxPage = 1
  MaxFetches = 2
SPECIFICATION Spec
INVARIANT WatchExitIsWorst
\* Every run ends, and then nothing is left to do.
CHECK_DEADLOCK FALSE
