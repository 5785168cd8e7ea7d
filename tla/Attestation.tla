---------------------------- MODULE Attestation ----------------------------
(***************************************************************************)
(* The hardware attestation layer at work.  Genuine devices issue proofs   *)
(* with evidence; a relay delivers proofs with the evidence of other       *)
(* proofs, stripped or garbled evidence, and proofs of its own keys; a     *)
(* consumer verifies them with verify_attested_cached and persists the key *)
(* it returns under the proof's key id, or enrols a device from a bundle.  *)
(* The command line judges the same proofs with a bundle and no cache.     *)
(***************************************************************************)
EXTENDS HardwareAttestation, FiniteSets

CONSTANTS
  IosDevices, AndroidDevices,
  AppOf,          \* the app each device runs
  Outsiders,      \* keys the relay made itself
  Expect,         \* the expected identities [app, envs, apps]
  Dates,          \* validity [from, to] of every certificate, in seconds
  Exchanges,      \* sets of fields of the evidence the relay exchanges together
  Pinned,         \* devices whose key some caller pins
  Now,            \* the verifier's clock, in milliseconds
  Windows,        \* windows [from, to] a caller may ask about, in milliseconds
  NoReply, CutBody,
  MaxProofs       \* bound: proofs of each device

Devices == IosDevices \cup AndroidDevices

EvidenceFields == {"keyId", "nonce", "object", "assertion", "chain", "sig", "token"}

SigningKey(d)    == <<"signing", d>>
AppAttestKey(d)  == <<"app attest", d>>
Nonce(d, n)      == <<"nonce", d, n>>
Commitment(d, n) == <<"commitment", d, n>>

ASSUME DevicesAssumption ==
  /\ IosDevices \cap AndroidDevices = {}
  /\ Outsiders \cap Devices = {}
  /\ None \notin {SigningKey(d) : d \in Devices \cup Outsiders}
  /\ MaxProofs \in [Devices -> Nat]
  /\ Exchanges \subseteq SUBSET EvidenceFields

VARIABLES
  made,   \* proofs each device has issued
  cache,  \* the consumer's store: a key or None for each key id
  spent   \* assertions it took since it last saw the object of their key

vars == <<made, cache, spent>>

KeyIds == {KeyId(AppAttestKey(d)) : d \in IosDevices}

---------------------------------------------------------------------------
(* What devices issue *)

ObjectOf(d) ==
  [key |-> AppAttestKey(d), app |-> AppOf[d], env |-> "production", nonce |-> Nonce(d, 1),
   from |-> Dates.from, to |-> Dates.to]

AssertionOf(d, n) ==
  [key |-> AppAttestKey(d), app |-> AppOf[d], nonce |-> Nonce(d, n),
   bound |-> SigningKey(d), counter |-> n]

ChainOf(d) ==
  IF d \in IosDevices THEN [kind |-> "raw", key |-> SigningKey(d)]
  ELSE [kind |-> "x509", key |-> SigningKey(d), app |-> AppOf[d],
        challenge |-> KeygenChallenge, from |-> Dates.from, to |-> Dates.to]

SigOver(key, commitment, ts, nonce) ==
  [key |-> key, commitment |-> commitment, ts |-> ts, nonce |-> nonce]

TokenOf(d, n) ==
  [nonce |-> Nonce(d, n), package |-> AppOf[d], ts |-> n, level |-> "device", big |-> FALSE]

\* The attestation object rides on the first proof of a key only.
EvidenceOf(d, n) ==
  [keyId     |-> IF d \in IosDevices THEN KeyId(AppAttestKey(d)) ELSE None,
   nonce     |-> Nonce(d, n),
   object    |-> IF d \in IosDevices /\ n = 1 THEN ObjectOf(d) ELSE None,
   assertion |-> IF d \in IosDevices THEN AssertionOf(d, n) ELSE None,
   chain     |-> ChainOf(d),
   sig       |-> SigOver(SigningKey(d), Commitment(d, n), n, Nonce(d, n)),
   token     |-> IF d \in AndroidDevices THEN TokenOf(d, n) ELSE None]

ProofOf(d, n) ==
  [signer |-> SigningKey(d), commitment |-> Commitment(d, n), ts |-> n, da |-> EvidenceOf(d, n)]

\* Certificates are dated after 1970, a window has an end, and None is none of the
\* times.
ASSUME DatesAssumption ==
  /\ Dates.from \in Nat \ {0} /\ Dates.to \in Int
  /\ \A w \in Windows : (w.from = None \/ w.from \in Int) /\ w.to \in Int
  /\ None \notin Windows

\* Proofs are made before they are verified; None and CutBody are none of the parts.
ASSUME IssueAssumption ==
  /\ Now \in Nat
  /\ \A d \in Devices : \A n \in 1 .. MaxProofs[d] :
       /\ n <= Now
       /\ EvidenceOf(d, n) # None /\ Nonce(d, n) # None
       /\ TokenOf(d, n) \notin {None, CutBody}

Issued == UNION {{ProofOf(d, n) : n \in 1 .. made[d]} : d \in Devices}

\* The snapshot of an enrolment: the assertion is nonce-only, the only form SDKs
\* before 2.0.0 had.
EnrolmentAssertion(d) ==
  [key |-> AppAttestKey(d), app |-> AppOf[d], nonce |-> Nonce(d, 1), bound |-> None, counter |-> 1]

EnrolmentOf(d) ==
  [keyId |-> KeyId(AppAttestKey(d)), nonce |-> Nonce(d, 1), object |-> ObjectOf(d),
   assertion |-> EnrolmentAssertion(d), chain |-> None, sig |-> None, token |-> None]

---------------------------------------------------------------------------
(* What the relay delivers *)

Mixed(da, other, fields) ==
  [f \in EvidenceFields |-> IF f \in fields THEN other[f] ELSE da[f]]

AllOf(value) == [f \in EvidenceFields |-> IF f = "token" THEN None ELSE value]

\* A proof under keys of the relay's own: field 2 and an assertion over a nonce it
\* has seen, but no object for its App Attest key and no chain for its signing key.
ForgedAssertion(x, nonce) ==
  [key |-> AppAttestKey(x), app |-> Expect.app, nonce |-> nonce, bound |-> SigningKey(x),
   counter |-> 1]

ForgedEvidence(x, nonce) ==
  [keyId     |-> KeyId(AppAttestKey(x)),
   nonce     |-> nonce,
   object    |-> None,
   assertion |-> ForgedAssertion(x, nonce),
   chain     |-> [kind |-> "raw", key |-> SigningKey(x)],
   sig       |-> SigOver(SigningKey(x), Commitment(x, 1), 1, nonce),
   token     |-> None]

Forged ==
  {[signer |-> SigningKey(x), commitment |-> Commitment(x, 1), ts |-> 1,
    da |-> ForgedEvidence(x, p.da.nonce)] : x \in Outsiders, p \in Issued}

WithEvidence(p, da) ==
  [signer |-> p.signer, commitment |-> p.commitment, ts |-> p.ts, da |-> da]

Enrolments == {EnrolmentOf(d) : d \in {c \in IosDevices : made[c] > 0}}

Delivered ==
  {WithEvidence(b, Mixed(b.da, e, fields)) :
     b \in Issued \cup Forged,
     e \in {p.da : p \in Issued} \cup Enrolments \cup {AllOf(None), AllOf(Garbage)},
     fields \in Exchanges}

\* Bundles the relay passes on, in both versions of the JSON form: the assertion
\* may be dropped, garbled or of another device.
Bundles ==
  {[da |-> Mixed(da, e, fields), version |-> v] :
     da \in Enrolments, e \in Enrolments \cup {AllOf(None), AllOf(Garbage)},
     fields \in SUBSET {"assertion", "keyId"}, v \in {1, 2}}

\* resolve_hardware_key without a pin: the key the chain carries.
CarriedKey(da) == IF da.chain \in {None, Garbage} THEN None ELSE da.chain.key

\* The calls a caller may make: with the carried key or a pinned one, under every
\* policy.
Options(p) ==
  {[key |-> k, allowUnbound |-> u, requireAttestation |-> q,
    now |-> Now, window |-> None, appWindow |-> None] :
     k \in {CarriedKey(p.da)} \cup {SigningKey(d) : d \in Pinned}, u \in BOOLEAN, q \in BOOLEAN}

---------------------------------------------------------------------------
(* The Play Integrity service *)

Play == INSTANCE Integrity

PlaySettings == [url |-> "https", service |-> "token", package |-> Expect.app, maxAgeS |-> None]

\* With the age the freshness check allows as the default.
PlayStatus(da, settings, reply) ==
  Play!PlayIntegrityFromCfg(da, settings, Now, MsPerS, Now, reply)

Reply(code, detail, body) == [code |-> code, detail |-> detail, body |-> body]

\* Google's answer to a token a device has, and to one that none has.
Answer(token) ==
  IF token \in {p.da.token : p \in Issued} THEN Reply(200, None, token)
  ELSE Reply(422, "integrity_token_invalid", "short")

\* A verdict the connection drops in the middle.
CutReply == Reply(200, None, CutBody)

\* Replies whose body the report quotes, and cannot.
Unquotable ==
  {Reply(204, None, "split"), Reply(204, "array", "split"), Reply(422, "array", "split")}

\* Replies that say nothing of the token: the connection fails or breaks off, or the
\* service answers with an error of its own or of the verifier's account or request.
Outages ==
  {NoReply, CutReply, Reply(403, "forbidden", "short"), Reply(403, "forbidden", "split")}
    \cup {Reply(code, detail, body) :
             code \in {204, 401, 403, 422, 429, 500, 503}, detail \in {None, "array"},
             body \in {"short", "split"}}

\* None and NoReply are none of the values of a reply.
ASSUME PlayAssumption ==
  /\ Expect.app # None
  /\ None \notin {"https", "token", "array", "forbidden"}
  /\ None \notin {"integrity_token_invalid", "package_not_allowed"}
  /\ NoReply \notin {CutReply} \cup Unquotable
  /\ \A d \in Devices : \A n \in 1 .. MaxProofs[d] : Reply(200, None, TokenOf(d, n)) # NoReply

---------------------------------------------------------------------------
(* The steps *)

Issue(d) ==
  /\ made[d] < MaxProofs[d]
  /\ made' = [made EXCEPT ![d] = @ + 1]
  /\ UNCHANGED <<cache, spent>>

\* The consumer looks the key up under the proof's key id and stores what
\* verify_attested_cached returns; an assertion that came without an object is
\* spent.
CachedFor(da) == IF da.keyId \in KeyIds THEN cache[da.keyId] ELSE None

Spend(da) ==
  {a \in spent : da.object = None \/ a.key # da.assertion.key}
     \cup IF da.object = None THEN {da.assertion} ELSE {}

Deliver(p, opts) ==
  LET result == VerifyAttestedCached(p, opts, Expect, CachedFor(p.da)) IN
    /\ result.key # None
    /\ cache' = [cache EXCEPT ![p.da.keyId] = result.key]
    /\ spent' = Spend(p.da)
    /\ UNCHANGED made

\* appattest_enroll on a bundle; the key is stored in place of any older one.
Enrol(bundle) ==
  LET key == Enrolled(bundle, Expect) IN
    /\ key # None
    /\ cache' = [cache EXCEPT ![bundle.da.keyId] = key]
    /\ spent' = {a \in spent : a.key # key.key}
    /\ UNCHANGED made

Init ==
  /\ made = [d \in Devices |-> 0]
  /\ cache = [k \in KeyIds |-> None]
  /\ spent = {}

Next ==
  \/ \E d \in Devices : Issue(d)
  \/ \E p \in Delivered : \E opts \in Options(p) : Deliver(p, opts)
  \/ \E bundle \in Bundles : Enrol(bundle)

Spec == Init /\ [][Next]_vars

---------------------------------------------------------------------------
(* Properties *)

\* What the consumer stores under a key id is the App Attest key of a genuine
\* device of the expected app, and its counter is not behind any assertion spent.
KeyCacheInv ==
  /\ made \in [Devices -> Nat] /\ DOMAIN cache = KeyIds
  /\ \A k \in KeyIds : cache[k] # None =>
       \E d \in IosDevices :
         /\ k = KeyId(AppAttestKey(d)) /\ AppOf[d] = Expect.app
         /\ cache[k].key = AppAttestKey(d)
         /\ cache[k].counter \in 0 .. made[d]
  /\ \A a \in spent : \E d \in IosDevices :
       /\ a.key = AppAttestKey(d)
       /\ cache[KeyId(a.key)] # None /\ a.counter \in 1 .. cache[KeyId(a.key)].counter

Genuine(d) == IF d \in IosDevices THEN AppOf[d] = Expect.app
              ELSE Expect.apps = {} \/ AppOf[d] \in Expect.apps

\* A report that is valid and attested names a proof signed by the very key that
\* the hardware of a genuine device of an expected app holds, whatever evidence
\* was borrowed, stripped or cached on the way (verify_attested_cached, and run in
\* the command line).
Attests(checks) == IsValid(checks) /\ IsAttested(checks)
AttestedIsBound ==
  LET enrolling == {b \in Bundles : BundleKey(b, Expect) # None} IN
    \A p \in Delivered : \A opts \in Options(p) :
      \/ Attests(VerifyAttestedCached(p, opts, Expect, CachedFor(p.da)).checks)
      \/ \E b \in enrolling \cup {None} : Attests(LocalChecks(p, opts, Expect, b))
      => \E d \in Devices : Genuine(d) /\ p.signer = SigningKey(d)

\* "re-storing it after each proof keeps the counter monotonic": once an assertion
\* without an object was accepted, it is accepted again only after the consumer
\* saw the key's object once more (verify_attested_cached, check_assertion).
AssertionIsSpentOnce ==
  \A p \in Delivered : p.da.object = None /\ p.da.assertion \in spent =>
    \A opts \in Options(p) :
      VerifyAttestedCached(p, opts, Expect, CachedFor(p.da)).status \notin {"pass", "warn"}

\* A PASS over a window dates the certificates at every millisecond of it, and not
\* only at the ends: rounding never widens the window (appattest_validity_check,
\* attestation_root_check_window).
ValidAt(ms) == Dates.from * MsPerS <= ms /\ ms <= Dates.to * MsPerS
DatedMeansValidThroughout ==
  \A p \in Issued : \A opts \in Options(p) : \A w \in Windows :
    LET at == [opts EXCEPT !.appWindow = w, !.window = IF w.from = None THEN None ELSE w]
        dated == {Check("app-attest-validity", "pass")}
                   \cup IF w.from = None THEN {} ELSE {Check("attestation-root", "pass")}
    IN LocalChecks(p, at, Expect, None) \cap dated # {} =>
         \A ms \in (IF w.from = None THEN Dates.from * MsPerS ELSE w.from) .. w.to : ValidAt(ms)

\* Where field 2 passes on a device's own proof, the evidence that passed was made
\* for this very proof: the assertion and the Play Integrity token cannot come from
\* another proof of the device (device_signature_check, check_assertion,
\* play_integrity_check).
EvidenceIsOfThisProof ==
  \A p \in Delivered : \A opts \in Options(p) :
    LET result == VerifyAttestedCached(p, opts, Expect, CachedFor(p.da)) IN
      /\ IsValid(result.checks)
      /\ HasStatus(result.checks, "device-attestation-sig", "pass")
      /\ p.signer \in {SigningKey(d) : d \in Devices}
      => \E d \in Devices : \E n \in 1 .. made[d] :
           /\ p.commitment = Commitment(d, n) /\ p.signer = SigningKey(d)
           /\ result.status = "pass" => p.da.assertion = AssertionOf(d, n)
           /\ PlayStatus(p.da, PlaySettings, Answer(p.da.token)) = "pass" =>
                p.da.token = TokenOf(d, n)

\* "transient or verifier-side conditions are NOT-CHECKED" (src/integrity.rs:15):
\* while the service is out of order or refuses the verifier, a good token is
\* NOT-CHECKED whatever error it answers with, and passes as soon as it answers; a
\* missing setting leaves it NOT-CHECKED too.  Two replies are exceptions to that
\* line and are stated as such: a verdict cut in the middle fails the proof, and an
\* error text that cannot be cut at its 200th byte ends the run without a report
\* (classify, snippet, map_outcome).
OutageIsNoVerdict ==
  \A p \in {q \in Issued : q.da.token # None /\ q.da.token.package = Expect.app} :
    /\ PlayStatus(p.da, PlaySettings, Answer(p.da.token)) = "pass"
    /\ PlayStatus(p.da, PlaySettings, CutReply) = "fail"
    /\ \A reply \in Unquotable : PlayStatus(p.da, PlaySettings, reply) = None
    /\ \A reply \in Outages \ ({CutReply} \cup Unquotable) :
         PlayStatus(p.da, PlaySettings, reply) = "notchecked"
    /\ \A s \in {"url", "service", "package"} : \A reply \in Outages \cup {Answer(p.da.token)} :
         PlayStatus(p.da, [PlaySettings EXCEPT ![s] = None], reply) = "notchecked"
=============================================================================
