------------------------ MODULE HardwareAttestation ------------------------
(***************************************************************************)
(* The hardware attestation layer (src/appattest_layer.rs) and the way the *)
(* command line uses it (src/bin/octet-verify.rs).  The evidence of a      *)
(* proof:                                                                  *)
(*                                                                         *)
(*   da         [keyId, nonce, object, assertion, chain, sig, token]       *)
(*   object     an App Attest attestation [key, app, env, nonce, from, to] *)
(*   assertion  [key, app, nonce, bound, counter]: bound is the signing    *)
(*              key it commits to, None in the form of old SDKs            *)
(*   chain      [kind |-> "raw", key] for the Secure Enclave key of iOS,   *)
(*              [kind |-> "x509", key, app, challenge, from, to] of Android*)
(*   sig        field 2, [key, commitment, ts, nonce]                      *)
(*                                                                         *)
(* Each may be None, and Garbage stands for bytes that do not parse.  A    *)
(* proof is [signer, commitment, ts, da].  What Apple, Google and the      *)
(* devices sign is as in the shared octet-attest-verify crate, which is    *)
(* not in the repository.  Certificates are dated in seconds, everything   *)
(* else in milliseconds, MsPerS of them to the second.                     *)
(***************************************************************************)
EXTENDS Report

CONSTANTS None, Garbage, MsPerS,
          KeygenChallenge   \* android_keygen_challenge

ASSUME AttestationAssumption == MsPerS \in Nat \ {0}

KeyId(key) == <<"id", key>>

\* max(0): times before 1970 are taken for 1970.
AtLeast0(n) == IF n < 0 THEN 0 ELSE n
SecondsDown(ms) == AtLeast0(ms \div MsPerS)
SecondsUp(ms)   == AtLeast0((ms + (MsPerS - 1)) \div MsPerS)

---------------------------------------------------------------------------
(* The attestation crate, as the layer calls it *)

\* verify_attestation: the recovered key with the counter an object starts at.
ObjectOk(obj, nonce, keyId, expect) ==
  /\ obj # Garbage
  /\ obj.nonce = nonce /\ keyId = KeyId(obj.key)
  /\ obj.app = expect.app /\ obj.env \in expect.envs
AttestedKey(key, counter) == [key |-> key, counter |-> counter]

\* verify_assertion_with_binding: bound to a key, or nonce-only for None.
AssertionOk(a, nonce, expect, key, bound) ==
  /\ a # Garbage
  /\ a.key = key.key /\ a.app = expect.app /\ a.nonce = nonce
  /\ a.bound = bound
  /\ a.counter > key.counter

\* verify_key_attestation_multi: an empty set of apps asks for no identity.
ChainOk(chain, at, apps) ==
  /\ chain # Garbage
  /\ chain.challenge = KeygenChallenge
  /\ chain.from <= at /\ at <= chain.to
  /\ apps = {} \/ chain.app \in apps

\* verify_device_signature
DeviceSigOk(sig, proof, nonce, key) ==
  /\ sig # Garbage
  /\ sig = [key |-> key, commitment |-> proof.commitment, ts |-> proof.ts, nonce |-> nonce]

---------------------------------------------------------------------------
(* App Attest *)

\* AssertionPolicy::from_options
AllowsUnbound(opts) == opts.allowUnbound /\ ~opts.requireAttestation

\* AssertionMode
Enrolment == [enrolment |-> TRUE]
Live(signingKey, allowUnbound) ==
  [enrolment |-> FALSE, signingKey |-> signingKey, allowUnbound |-> allowUnbound]

\* Mutant of Binding: the nonce-only form is tried whatever the policy.
BindingDowngraded(a, nonce, expect, key, mode) ==
  CASE mode.enrolment /\ AssertionOk(a, nonce, expect, key, None) -> "bound"
    [] ~mode.enrolment /\ mode.signingKey # None
         /\ AssertionOk(a, nonce, expect, key, mode.signingKey) -> "bound"
    [] ~mode.enrolment /\ AssertionOk(a, nonce, expect, key, None) -> "bound"
    [] OTHER -> "bad"

\* check_assertion
Binding(a, nonce, expect, key, mode) ==
  CASE mode.enrolment /\ AssertionOk(a, nonce, expect, key, None) -> "bound"
    [] ~mode.enrolment /\ mode.signingKey # None
         /\ AssertionOk(a, nonce, expect, key, mode.signingKey) -> "bound"
    [] ~mode.enrolment /\ (mode.signingKey = None \/ mode.allowUnbound)
         /\ AssertionOk(a, nonce, expect, key, None) -> "unbound"
    [] OTHER -> "bad"

\* assertion_verified
StatusOf(binding) ==
  CASE binding = "bound" -> "pass" [] binding = "unbound" -> "warn" [] OTHER -> "fail"

Outcome(status, key) == [status |-> status, key |-> key]

\* Mutant of AgainstKey: the key is returned as it was.
AgainstKeyUnadvanced(da, expect, key, mode) ==
  LET binding == Binding(da.assertion, da.nonce, expect, key, mode)
  IN Outcome(StatusOf(binding), IF binding = "bad" THEN None ELSE key)

\* The outcome of an assertion against a key, and the key to keep: the same with
\* the assertion's counter.
AgainstKey(da, expect, key, mode) ==
  LET binding == Binding(da.assertion, da.nonce, expect, key, mode)
  IN Outcome(StatusOf(binding),
             IF binding = "bad" THEN None ELSE AttestedKey(key.key, da.assertion.counter))

HasEvidence(da) == da # None /\ da.nonce # None /\ da.assertion # None

\* appattest_check and appattest_check_da: `cached` is a key or None, and is not
\* looked at when the proof has an object of its own.
AppAttest(da, expect, cached, mode) ==
  CASE ~HasEvidence(da) -> Outcome("notchecked", None)
    [] HasEvidence(da) /\ ~mode.enrolment /\ mode.signingKey = None
         /\ ~mode.allowUnbound -> Outcome("fail", None)
    [] OTHER ->
         CASE da.keyId = Garbage -> Outcome("fail", None)
           [] da.keyId # Garbage /\ da.object # None ->
                IF ObjectOk(da.object, da.nonce, da.keyId, expect)
                THEN AgainstKey(da, expect, AttestedKey(da.object.key, 0), mode)
                ELSE Outcome("fail", None)
           [] da.keyId # Garbage /\ da.object = None /\ cached = None ->
                Outcome("notchecked", None)
           [] OTHER ->
                IF da.keyId = KeyId(cached.key) THEN AgainstKey(da, expect, cached, mode)
                ELSE Outcome("fail", None)

\* appattest_enroll on a bundle [da, version]: the key, or None for an error.  A
\* bundle without an assertion needs version 2 (bundle_from_json).
Enrolled(bundle, expect) ==
  LET da == bundle.da IN
    IF da.object = None \/ (da.assertion = None /\ bundle.version < 2) THEN None
    ELSE IF da.assertion # None THEN AppAttest(da, expect, None, Enrolment).key
    ELSE IF da.nonce # None /\ da.keyId # Garbage
            /\ ObjectOk(da.object, da.nonce, da.keyId, expect)
         THEN AttestedKey(da.object.key, 0) ELSE None

\* appattest_validity_check of the object's chain over a window in milliseconds,
\* whose start may be None.
ValidityCheck(obj, window) ==
  LET lower == IF window.from = None THEN obj.from ELSE SecondsDown(window.from)
      upper == SecondsUp(window.to)
      Dated(s) == obj.from <= s /\ s <= obj.to
  IN Check("app-attest-validity",
           IF obj # Garbage /\ lower <= upper /\ Dated(lower) /\ Dated(upper)
           THEN "pass" ELSE "fail")

ValidityNotChecked == Check("app-attest-validity", "notchecked")

---------------------------------------------------------------------------
(* Android, and the field-2 signature *)

\* attestation_root_check_multi
RootStatus(da, at, apps, key) ==
  CASE da = None -> "notchecked"
    [] da # None /\ da.chain = None -> "notchecked"
    [] OTHER ->
         IF da.chain # Garbage /\ da.chain.kind = "raw" THEN "notchecked"
         ELSE IF ChainOk(da.chain, at, apps) /\ key # None /\ da.chain.key = key
              THEN "pass" ELSE "fail"

\* Mutant of WindowEnds: both ends are rounded down.
WindowEndsDown(window) == {SecondsDown(window.from), SecondsDown(window.to)}

\* attestation_root_check_window: the ends of a window, rounded outward.
WindowEnds(window) == {SecondsDown(window.from), SecondsUp(window.to)}

\* attestation_root_check_for: at one instant, or at both ends of the window.
RootCheck(da, opts, apps, key) ==
  LET at == IF opts.window = None THEN {SecondsDown(opts.now)} ELSE WindowEnds(opts.window)
      found == {RootStatus(da, s, apps, key) : s \in at}
  IN Check("attestation-root",
           CASE "fail" \in found -> "fail" [] found = {"pass"} -> "pass" [] OTHER -> "notchecked")

\* device_signature_check
DeviceSignature(proof, key) ==
  LET da == proof.da IN
    Check("device-attestation-sig",
      IF da = None THEN "notchecked"
      ELSE IF da.sig = None \/ da.nonce = None \/ key = None THEN "notchecked"
      ELSE IF DeviceSigOk(da.sig, proof, da.nonce, key) THEN "pass" ELSE "fail")

---------------------------------------------------------------------------
(* The composed entry points *)

\* What verify() says of the signatures, the only check of the core at hand.
StageSignatures(proof, key) ==
  Check("stage-signatures",
        CASE key = None -> "notchecked" [] key = proof.signer -> "pass" [] OTHER -> "fail")

\* verify_attested_cached: the report's checks and the key to keep, if any.
VerifyAttestedCached(proof, opts, expect, cached) ==
  LET app    == AppAttest(proof.da, expect, cached, Live(opts.key, AllowsUnbound(opts)))
      checks == {StageSignatures(proof, opts.key), Check("app-attest", app.status),
                 RootCheck(proof.da, opts, expect.apps, opts.key),
                 DeviceSignature(proof, opts.key)}
                \cup IF app.status = "pass" THEN {ValidityNotChecked} ELSE {}
  IN [checks |-> checks \cup IF opts.requireAttestation
                             THEN {RequireAttestationCheck(checks)} ELSE {},
      status |-> app.status,
      key    |-> app.key]

\* resolve_enrolment_key: the bundle's key with its counter set to 0, None for an
\* error, which ends the run without a report.
BundleKey(bundle, expect) ==
  LET enrolled == Enrolled(bundle, expect)
  IN IF enrolled = None THEN None ELSE AttestedKey(enrolled.key, 0)

\* appattest_from_config: one proof, with the key of a bundle when there is one.
\* The dates are those of the object the key came from.
FromConfig(proof, opts, expect, bundle) ==
  LET cached == IF bundle = None THEN None ELSE BundleKey(bundle, expect)
      app    == AppAttest(proof.da, expect, cached, Live(opts.key, AllowsUnbound(opts)))
      object == IF proof.da.object # None THEN proof.da.object ELSE bundle.da.object
  IN {Check("app-attest", app.status)}
     \cup IF app.status # "pass" THEN {}
          ELSE IF opts.appWindow = None THEN {ValidityNotChecked}
          ELSE {ValidityCheck(object, opts.appWindow)}

\* The attestation checks of run() in the command line, with the core's.
LocalChecks(proof, opts, expect, bundle) ==
  LET checks == {StageSignatures(proof, opts.key),
                 RootCheck(proof.da, opts, expect.apps, opts.key),
                 DeviceSignature(proof, opts.key)}
                \cup FromConfig(proof, opts, expect, bundle)
  IN checks \cup IF opts.requireAttestation THEN {RequireAttestationCheck(checks)} ELSE {}
=============================================================================
