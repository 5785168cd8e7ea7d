------------------------------- MODULE Report -------------------------------
(***************************************************************************)
(* A verification report: the set of checks a run made, and the verdicts   *)
(* read off it.  Translated from `Report` and `Check` in src/verify.rs and *)
(* from `exit_code` and `headline` in src/bin/octet-verify.rs.  A check is *)
(* a name and a status; the wording of its detail is left out.  The code   *)
(* keeps the checks in a vector, but every verdict asks only whether some  *)
(* check with a property is in it, so a set says the same.                 *)
(***************************************************************************)
EXTENDS Integers

Status == {"pass", "fail", "warn", "notchecked"}

Check(name, status) == [name |-> name, status |-> status]

\* Some check called `name` has the status.
HasStatus(checks, name, status) == Check(name, status) \in checks

Failed(checks) == \E c \in checks : c.status = "fail"

\* A report is rejected iff one of its checks failed: NOT-CHECKED and WARN
\* neither reject it nor make it valid.
IsValid(checks) == ~Failed(checks)

SigsVerified(checks) == HasStatus(checks, "stage-signatures", "pass")

\* A caller-metadata WARN is reserved for content that could not be read.
ContentResolved(checks) == ~HasStatus(checks, "caller-metadata", "warn")

IsAuthentic(checks) ==
  IsValid(checks) /\ SigsVerified(checks) /\ ContentResolved(checks)

IsAttested(checks) ==
  \/ HasStatus(checks, "app-attest", "pass")
  \/ HasStatus(checks, "attestation-root", "pass")

IsFresh(checks) == HasStatus(checks, "freshness", "pass")

IsSemanticallyBound(checks) == HasStatus(checks, "semantic-binding", "pass")

\* The check that makes a missing hardware attestation fatal.
RequireAttestationCheck(checks) ==
  Check("attestation-required", IF IsAttested(checks) THEN "pass" ELSE "fail")

\* Exit codes of the command line: 2 is kept for usage, I/O, decode and backend
\* errors, which end a run before it has a report.
ExitSuccess      == 0
ExitInvalid      == 1
ExitError        == 2
ExitInconclusive == 3

ExitCode(checks) ==
  CASE Failed(checks)       -> ExitInvalid
    [] IsAuthentic(checks)  -> ExitSuccess
    [] OTHER                -> ExitInconclusive

\* The worst proof of several, as the range summary folds them: any rejected
\* one, else any inconclusive one, else success.
WorstExit(codes) ==
  IF ExitInvalid \in codes THEN ExitInvalid
  ELSE IF ExitInconclusive \in codes THEN ExitInconclusive
  ELSE ExitSuccess
=============================================================================
