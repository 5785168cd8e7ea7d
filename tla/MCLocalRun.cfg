\* Two runs, one after the other or overlapping, killed or disturbed at any step.
CONSTANTS
  None = None
  r1 = r1
  r2 = r2
  n1 = n1
  n2 = n2
  Runs = {r1, r2}
  Nullifiers = {n1, n2}
  Args <- MCArgs
  Cores <- MCCores
  AttestationBuild = TRUE
SPECIFICATION Spec
INVARIANTS
  ReplayIsCaught
  ReplayHasACause
  SuccessIsAttested
\* Every run ends, and then nothing is left to do.
CHECK_DEADLOCK FALSE
