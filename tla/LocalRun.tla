------------------------------ MODULE LocalRun ------------------------------
(***************************************************************************)
(* Runs of the local-file command line (local_main and run of              *)
(* src/bin/octet-verify.rs) that share one --nullifier-store file.  A run  *)
(* decodes its input, resolves the hardware key, verifies, and then        *)
(* appends one check after the other to the report: any step that can fail *)
(* ends the run with exit code 2 and no report, whatever the steps before  *)
(* it left in the store.  The outcomes of the core recipe, of the          *)
(* attestation layer and of the metadata and transport checks are inputs   *)
(* of the run.                                                             *)
(***************************************************************************)
EXTENDS LineFile, Report, FiniteSets

CONSTANTS
  None,
  Runs,
  Nullifiers,
  Args,             \* the options a run may be given
  Cores,            \* the sets of checks verify() may return
  AttestationBuild  \* the `appattest` feature is compiled in

\* Nullifiers are hex words, verify() leaves the checks named here to its caller,
\* and None is no value of the program.
ASSUME LocalRunAssumption ==
  /\ AttestationBuild \in BOOLEAN
  /\ Nullifiers \cap {Space, Newline} = {}
  /\ \A core \in Cores : \A c \in core :
       /\ c.status \in Status
       /\ c.name \notin {"app-attest", "attestation-root", "attestation-required", "replay"}
  /\ None \notin {ExitSuccess} \cup [nullifier : Nullifiers, args : Args, alone : BOOLEAN, reads : BOOLEAN]

VARIABLES
  file,     \* the nullifier store
  pc,
  input,    \* the nullifier and options of each run, whether it started alone, and
            \* whether it can read the store
  checks,   \* the report so far
  pending,  \* the pieces of its line a run has not written yet
  exit,
  log       \* every report printed, by all runs

vars == <<file, pc, input, checks, pending, exit, log>>

Running(r) == pc[r] \notin {"ready", "done"}

Finish(r, code) ==
  /\ pc' = [pc EXCEPT ![r] = "done"]
  /\ exit' = [exit EXCEPT ![r] = code]

Goto(r, step) == pc' = [pc EXCEPT ![r] = step] /\ UNCHANGED exit

\* A check is appended to the report.
Add(r, new) == checks' = [checks EXCEPT ![r] = @ \cup new]

\* A step that cannot read one of its files or parse it ends the run.
Error(r, step) ==
  /\ pc[r] = step
  /\ Finish(r, ExitError)
  /\ UNCHANGED <<file, input, checks, pending, log>>

---------------------------------------------------------------------------
\* Decode, resolve the key (an error when pin and chain conflict) and verify
\* with require_attestation cleared.  On a default build the recipe leaves the
\* attestation placeholders.
Start(r) ==
  /\ pc[r] = "ready"
  /\ \E n \in Nullifiers, a \in Args, core \in Cores, reads \in BOOLEAN :
       /\ a.store \/ reads
       /\ input' = [input EXCEPT ![r] = [nullifier |-> n, args |-> a,
                                        alone |-> \A s \in Runs : ~Running(s),
                                        reads |-> reads]]
       /\ Add(r, core \cup IF AttestationBuild THEN {}
                           ELSE {Check("attestation-root", "notchecked"),
                                 Check("device-attestation-sig", "notchecked")})
  /\ Goto(r, "metadata")
  /\ UNCHANGED <<file, pending, log>>

BadInput(r) == Error(r, "ready")

\* The caller-metadata check, when the proof or a flag asks for one.
Metadata(r) ==
  /\ pc[r] = "metadata"
  /\ IF input[r].args.metadata
     THEN \E s \in {"pass", "warn", "fail", "notchecked"} : Add(r, {Check("caller-metadata", s)})
     ELSE UNCHANGED checks
  /\ Goto(r, "transport")
  /\ UNCHANGED <<file, input, pending, log>>

BadManifest(r) == input[r] # None /\ input[r].args.metadata /\ Error(r, "metadata")

\* With --envelope: the replay-control binding and, when the envelope carries one,
\* the transport signature, which is NOT-CHECKED without a key.
Transport(r) ==
  /\ pc[r] = "transport"
  /\ IF input[r].args.envelope
     THEN \E b \in {"pass", "fail", "notchecked"},
             signature \in {{}} \cup {{Check("ed25519-transport", s)} :
                                      s \in {"pass", "fail", "notchecked"}} :
            Add(r, {Check("replay-binding", b)} \cup signature)
     ELSE UNCHANGED checks
  /\ Goto(r, "store")
  /\ UNCHANGED <<file, input, pending, log>>

BadTransportKey(r) == input[r] # None /\ input[r].args.envelope /\ Error(r, "transport")

---------------------------------------------------------------------------
(* replay_check *)

\* Mutants of Seen: only the last line is looked at, or any line will do.
SeenLast(r) == input[r].reads /\ IsLone(file[Len(file)], <<input[r].nullifier>>)
SeenAny(r) == input[r].reads /\ file # EmptyFile

\* read_to_string(..).unwrap_or_default(): a store that cannot be read, for its
\* permissions, a failing read or one byte that is not UTF-8, counts as empty.
Seen(r) == input[r].reads /\ \E l \in DOMAIN file : IsLone(file[l], <<input[r].nullifier>>)

\* A nullifier that was not seen is appended and counts as recorded.
ReplayCheck(r) ==
  /\ pc[r] = "store"
  /\ \/ /\ ~input[r].args.store
        /\ Goto(r, "attest")
        /\ UNCHANGED <<checks, pending>>
     \/ /\ input[r].args.store
        /\ Seen(r)
        /\ Add(r, {Check("replay", "fail")})
        /\ Goto(r, "attest")
        /\ UNCHANGED pending
     \/ /\ input[r].args.store
        /\ ~Seen(r)
        /\ pending' = [pending EXCEPT ![r] = <<input[r].nullifier, Newline>>]
        /\ Goto(r, "write")
        /\ UNCHANGED checks
  /\ UNCHANGED <<file, input, log>>

\* writeln! of the hex: the word, then the newline.
WritePiece(r) ==
  /\ pc[r] = "write"
  /\ pending[r] # <<>>
  /\ file' = AppendPiece(file, Head(pending[r]))
  /\ pending' = [pending EXCEPT ![r] = Tail(@)]
  /\ UNCHANGED <<pc, input, checks, exit, log>>

Recorded(r) ==
  /\ pc[r] = "write"
  /\ pending[r] = <<>>
  /\ Add(r, {Check("replay", "pass")})
  /\ Goto(r, "attest")
  /\ UNCHANGED <<file, input, pending, log>>

\* Opening for append and writing may fail, and end the run; only the error of the
\* read is dropped.
StoreError(r) == pending[r] # <<>> /\ Error(r, "write")

---------------------------------------------------------------------------
(* Attestation and the end *)

\* The attestation layer unless --skip-hardware-attestation: App Attest with a
\* config, and on an `appattest` build the Android chain and the device key.
Attest(r) ==
  /\ pc[r] = "attest"
  /\ LET a == input[r].args IN
       IF a.skip THEN UNCHANGED checks
       ELSE \E app, root, sig \in {"pass", "fail", "notchecked"} :
              Add(r, IF AttestationBuild
                     THEN {Check("app-attest", IF a.config THEN app ELSE "notchecked"),
                           Check("attestation-root", root), Check("device-attestation-sig", sig)}
                     ELSE IF a.config THEN {Check("app-attest", "notchecked")} ELSE {})
  /\ Goto(r, "integrity")
  /\ UNCHANGED <<file, input, pending, log>>

BadConfig(r) ==
  /\ input[r] # None
  /\ AttestationBuild /\ input[r].args.config /\ ~input[r].args.skip
  /\ Error(r, "attest")

\* Play Integrity, whether the attestation layer was skipped or not: NOT-CHECKED
\* when it cannot be asked or is not compiled in.
Integrity(r) ==
  /\ pc[r] = "integrity"
  /\ IF input[r].args.integrity
     THEN \E s \in {"pass", "fail", "notchecked"} : Add(r, {Check("play-integrity", s)})
     ELSE UNCHANGED checks
  /\ Goto(r, "require")
  /\ UNCHANGED <<file, input, pending, log>>

\* Mutant of Require: the policy sits inside the attestation block.
RequireUnlessSkipped(r) ==
  /\ pc[r] = "require"
  /\ IF input[r].args.requireAttestation /\ ~input[r].args.skip
     THEN Add(r, {RequireAttestationCheck(checks[r])})
     ELSE UNCHANGED checks
  /\ Goto(r, "query")
  /\ UNCHANGED <<file, input, pending, log>>

\* --require-attestation is judged on the whole report, skipped or not.
Require(r) ==
  /\ pc[r] = "require"
  /\ IF input[r].args.requireAttestation
     THEN Add(r, {RequireAttestationCheck(checks[r])})
     ELSE UNCHANGED checks
  /\ Goto(r, "query")
  /\ UNCHANGED <<file, input, pending, log>>

\* --expect-query-region: an expectation that does not hold fails.
QueryMatch(r) ==
  /\ pc[r] = "query"
  /\ IF input[r].args.expectQuery
     THEN \E s \in {"pass", "fail"} : Add(r, {Check("query-region-match", s)})
     ELSE UNCHANGED checks
  /\ Goto(r, "print")
  /\ UNCHANGED <<file, input, pending, log>>

PrintReport(r) ==
  /\ pc[r] = "print"
  /\ log' = Append(log, [run |-> r, nullifier |-> input[r].nullifier,
                         args |-> input[r].args, checks |-> checks[r]])
  /\ Finish(r, ExitCode(checks[r]))
  /\ UNCHANGED <<file, input, checks, pending>>

Crash(r) ==
  /\ Running(r)
  /\ Finish(r, None)
  /\ UNCHANGED <<file, input, checks, pending, log>>

Init ==
  /\ file = EmptyFile
  /\ pc = [r \in Runs |-> "ready"]
  /\ input = [r \in Runs |-> None]
  /\ checks = [r \in Runs |-> {}]
  /\ pending = [r \in Runs |-> <<>>]
  /\ exit = [r \in Runs |-> None]
  /\ log = <<>>

Next == \E r \in Runs :
  \/ Start(r) \/ BadInput(r) \/ Metadata(r) \/ BadManifest(r) \/ Transport(r)
  \/ BadTransportKey(r) \/ ReplayCheck(r) \/ WritePiece(r) \/ Recorded(r) \/ StoreError(r)
  \/ Attest(r) \/ BadConfig(r) \/ Integrity(r) \/ Require(r) \/ QueryMatch(r)
  \/ PrintReport(r) \/ Crash(r)

Spec == Init /\ [][Next]_vars

---------------------------------------------------------------------------
(* Properties *)

\* A run that started while another one was at work, or ended inside its line.
Disturbed(r) == input[r] # None /\ (~input[r].alone \/ (pc[r] = "done" /\ Len(pending[r]) = 1))

\* "Detect (and record) reuse of a nullifier across runs" (replay_check): of two
\* reports that say of one nullifier that it was not seen before, the later is of a
\* run that could not read the store, unless runs overlapped or one was stopped
\* inside its line.  A run stopped at any other point costs nothing, and neither
\* does an earlier run that could not read: its line is found by the next.
ReplayIsCaught == (\A r \in Runs : ~Disturbed(r)) => \A i, j \in DOMAIN log :
  /\ i < j
  /\ log[i].nullifier = log[j].nullifier
  /\ Check("replay", "pass") \in log[i].checks \cap log[j].checks
  => ~input[log[j].run].reads

\* A nullifier is called a replay only when an earlier run with the same one got
\* as far as the store, at whatever point that run or another one was killed or
\* disturbed since: torn and merged lines never accuse a fresh proof.
ReplayHasACause == \A r \in Runs : Check("replay", "fail") \in checks[r] =>
  \E s \in Runs \ {r} :
    /\ input[s] # None
    /\ input[s].nullifier = input[r].nullifier
    /\ input[s].args.store
    /\ pc[s] \notin {"metadata", "transport", "store"}

\* Success under --require-attestation takes a hardware attestation that this run
\* checked and found good: neither --skip-hardware-attestation, nor a default
\* build, nor the order of the checks gets around it.
SuccessIsAttested == \A r \in Runs :
  exit[r] = ExitSuccess /\ input[r].args.requireAttestation =>
    /\ IsAttested(checks[r])
    /\ ~input[r].args.skip
    /\ AttestationBuild
=============================================================================
