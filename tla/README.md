# Formal models of octet-verify

`octet-verify` checks location proofs: a proof is a chain of stages signed by a
hardware key on a phone, relayed by parties nobody has to trust, and judged by
a library (`src/verify.rs` and its helpers) and a command line
(`src/bin/octet-verify.rs`). This directory holds TLA+ models of both, the TLC
configurations that check them, and the TLAPS proofs that carry all but two of the
safety properties the runs check, and the refinement of the audit store, to all
values of the constants.
Paths in the modules' comments and below are relative to the repository root.

    tlc -workers 2 -config MCStageChain.cfg MCStageChain    # any row of "Runs"
    tlapm StageChainProofs.tla                              # any of the proofs

The proof modules are `StageChainProofs`, `FieldProofs`, `AttestationProofs`,
`BackendClientProofs`, `LocalRunProofs`, `BrowserSessionProofs`, `AuditProofs` and
`EncodingsProofs`.

## The system

| Part | State it keeps | Operations | Hard behaviour |
| --- | --- | --- | --- |
| Verification recipe (`verify.rs`, `crypto.rs`, `session.rs`, `uncertainty.rs`) | none | `verify`: freshness, nullifier, stage linkage, signatures, assembly, field bindings, semantic fields under three preimage versions, uncertainty, spoofing tier, login nonce, policies | a verdict is a conjunction of passes that each see a part of the proof; stages are found by name; some checks may be NOT-CHECKED without making a report invalid |
| Reports (`verify.rs`) | the list of checks | `is_valid`, `is_authentic`, `is_fresh`, `is_attested`, `is_semantically_bound`, `region_asserted`, exit codes | three-valued outcomes, and which of them count |
| Regions and cell sets (`verify.rs`, `s2.rs`) | none | expectations of a region, its type or a point; canonical form, normalisation and membership of cell and voxel sets; the Hilbert curve | one region must have one accepted spelling; a check of neighbours stands for a global normal form; boundaries of leaves and height bins |
| Wire scan (`wire.rs`) | none | `duplicate_singular_fields` | a scanner that must agree with a decoder it does not share code with |
| Caller metadata (`caller_metadata.rs`) | none | `check_caller_metadata`, `check_caller_manifest` | the stage signs digests only: manifest, salts, content and the unsigned field 19 come from others and must fit; required content that is missing is neither valid nor invalid |
| Replay-control binding (`replay.rs`) | none | `check_replay_binding` | echoed values against signed ones |
| Hardware attestation (`appattest_layer.rs`, and its use in the binary) | none of its own; the consumer persists the attested key and its counter, or enrols it from a bundle | `verify_attested`, `verify_attested_cached`, `appattest_enroll`, the Android root, field 2, the dates of certificates | assertion, object, chain, key id and nonce are judged apart and come from the sender; a counter that must only grow; seconds against milliseconds |
| Play Integrity (`integrity.rs`) | none | one networked call | errors of the service, of the verifier's account and of the token look alike |
| Backend audit (`backend` in the binary) | `--seen-store` file, its copy in memory, the last or worst exit code, the Ctrl-C flag | `fetch`, `range`, `watch`; `SeenStore::load`, `peek`, `record` | several runs on one file, kills inside a line, failing reads and writes, a backend that changes its answers, Ctrl-C in the middle |
| Backend client (`backend.rs`) | the upload token and when it was minted | `ensure_token`, `get` with one retry on 401, `fetch_one`, `fetch_latest`, `fetch_range` | tokens that expire early or are revoked between pages; retries |
| Local file command (`local_main`, `run`) | `--nullifier-store` file | decode, key resolution, recipe, metadata, transport, `replay_check`, attestation, integrity, policy | order of checks and of the effect on the store; early errors; kills |
| Browser verdict profile (`browser.rs`) | none (revisions and seq are inputs and outputs) | `verify_browser_verdict_with`, `is_valid`, `passes_gate`, `next_revisions` | token, key set, manifest, challenge and edge log line of different parties have to fit each other |
| Browser verdict command (`browser_cli`) | `--manifest-seq-store`, `--revision-store` | read both, verify, write both, print | two files, each truncated and then filled; kills and failing writes |
| Keys (`keys.rs`), arguments and printing, schema | none | parsing and formatting | none over time |

How they interact: the binary's subcommands call the recipe and append further
checks to its report; the report alone decides the exit code (0 authentic, 1
invalid, 3 inconclusive, 2 an error before any verdict). The audit commands get
their envelopes from the client. Runs of the program share nothing but files.
There are no threads besides the Ctrl-C handler, which sets one flag; all
concurrency is between processes, between the program and a backend that may
answer anything, and between a proof and whoever edits it on the way.

What makes each part correct, in a sentence: an authentic verdict is about one
proof the device finished (recipe); an attested one was signed by the key in the
hardware of a device of the expected app (attestation); one region, and one
message, has one accepted spelling and one reading (encodings); a proof id never changes its bytes unnoticed
and no verdict is lost on the way to the exit code (audit); a range is whole or
an error and every request ends (client); a nullifier passes once and success
means what was asked for (local); revisions and manifests never go back and
a gate opens only for a token that fits everything at hand (browser).

## Modules

| Module | Models | Correspondence |
| --- | --- | --- |
| `Report` | `Status`, `Check`, the accessors of `Report`, exit codes | a report is a set of checks (name and status); an accessor is a predicate of that set |
| `Stages` | `crypto.rs`, `stage_message`, `stage_by_name` | symbolic bytes, hashes and signatures |
| `CallerMetadata` | `caller_metadata.rs` | operators from a proof and what is presented to checks; salts and values are byte sequences, because the digest is of one after the other; content is presented as a value, hashed by the verifying party with a salt of its own (`Content::Hashed`), or could not be read |
| `Uncertainty` | `uncertainty.rs`, `add_uncertainty_binding` | `HasPreimage` says for which uncertainties the code builds a preimage, `UncertaintyBytes` is that preimage: every field, the cells of an H3 set without their order |
| `Verify` | the recipe and the replay-control binding | operators from a decoded proof (a record), key and options to a report; one operator per check function |
| `StageChain` | devices, an untrusted relay, the verifier | `Begin`/`SignStage`/`Assemble` are a device signing by the rules the repository's tests rebuild; `Relay`, `RemoveStage`, `InsertStage`, `RewriteStage`, `EditField`, `RestateClaim` are the relay; `VerifyWire` resolves the key and runs `VerifyProof`; `Deliver` hands the answer over |
| `StageChainProofs`, `FieldProofs` | | the theorems about `StageChain`: whose chain an accepted proof carries, and what its fields then say |
| `WireScan` | `wire.rs`, and the decoder it guards | a message is a sequence of elements of a field number, a wire type and a body; `DuplicateSingularFields` is the scan, `Decodes` and `Decoded` are prost as `wire.rs` describes it; what the scan reaches and how deep a group the decoder is in are said of positions |
| `CellSet`, `VoxelSet` | the two halves of `s2.rs`, what the verifier runs of them | ids are the numbers on the wire, shifts and masks are arithmetic, the width of the curve, of its lookup table and of the height grid are constants; a direction has integer components, on which the quadratic projection is exact |
| `Normalization` | what a sender runs of `s2.rs`: `normalize`, `normalize_voxels` and their helpers | recursive operators, for TLC only |
| `Region` | `match_expected_region`, `region_contains`, `add_cell_set_shape` and `region_asserted` of `verify.rs` | operators from a claimed region and an expectation to checks; discs, ellipses, boxes and H3 cells enter as sets of points |
| `Encodings` | a sender that writes a message, a list of entries or a claim | `WriteField` and `WriteEntry` add one part at a time; the verifier keeps nothing, so it is all in operators |
| `NormalForms` | `Encodings` beside `Normalization` | no state of its own: states that the verifier's checks accept what a normalising sender writes |
| `EncodingsProofs` | | the theorems about `Encodings`: one reading, one region, membership, the curve, one spelling |
| `HardwareAttestation` | `appattest_layer.rs`, and `appattest_from_config`, `resolve_enrolment_key` and the policy of the binary | evidence is a record of parts that may be missing or garbage; one operator per check function |
| `Integrity` | `integrity.rs`, `play_integrity_from_cfg` | a reply is a status, a detail and a body; `Classify` and `MapOutcome` are the functions of that name |
| `Attestation` | devices, an untrusted relay, and a consumer with a key store | `Issue` is a device; `Delivered` and `Bundles` are what the relay can make of what it has seen; `Deliver` is `verify_attested_cached` and the store of the key it returns, `Enrol` is `appattest_enroll` |
| `AttestationProofs` | | the theorems about `Attestation`: the key cache and what an attested report names, and whose evidence, over which dates, under which outages |
| `BackendClientProofs`, `LocalRunProofs`, `BrowserSessionProofs`, `AuditProofs` | | the theorems about the module of that name |
| `LineFile` | files of lines written by `writeln!` in append mode | lines of words of pieces, one piece per write call; `Loaded` is `SeenStore::load`, `IsLone` the comparison of `replay_check` |
| `FirstSeen` | what refetch consistency promises | abstract specification: one map of first sightings and an answer per sighting |
| `Audit` | `fetch`, `range`, `watch` | one process per run: `Load` (an unreadable store counts as empty), then `FetchOne`/`FetchPage`/`FetchLatest`/`FetchError`, `Judge` (peek, verify, record in memory), `WritePiece`/`WriteFails`, `Emit`, `EndRange`/`Wake`/`EndWatch`; `Interrupt` and `Crash` from outside |
| `BackendClient` | `backend.rs` | `Ensure` is `ensure_token`, `Remint` is `force_refresh`, the `Get...` actions are the outcomes of one GET inside `get`; `cursor` is the client's own, `Follow` what `fetch_range` does with a page, and `Page` what a server that keeps nothing answers to the cursor it is sent; `refused` is history: the token of the first 401 of a GET |
| `BrowserVerdict` | `browser.rs` | operators from symbolic inputs to a report; one per check |
| `BrowserSession` | `browser_cli::run` | `Start` reads the seq store, `Verify` the revision store and runs the profile, then truncate and fill of each file, `PrintReport`; an element of `Offers` is the scene of one history: which runs there are and what they may be given |
| `LocalRun` | `local_main`, `run`, `replay_check` | one action per check appended to the report, each early error an action of its own; `reads` is whether a run could read its store, which it takes for empty if not; the core recipe and the attestation, metadata, transport, integrity and query checks enter as outcomes |
| `MC...` | | values of the constants for TLC |

What is abstracted. Byte strings are symbols: a hash is injective, a signature
is a record of key, message and parity of S, and the tuples that stand for
messages are unambiguous. So the models say nothing of SHA-256, ECDSA, the JWS
and PASETO encodings or the byte layout of the preimages, but they keep which
field goes into which preimage, that an absent and an empty `previous_hash` add
the same nothing to a message, that an absent and an empty query have one
encoding, and that verification accepts both parities of S while assembly hashes
the signature bytes as sent. The detail texts of checks are left out; warnings
are kept where a status other than pass and fail counts. The preimages have all
their claims, the platform's integrity status among them. A query id is one of the
ids of its type's length and form (`QueryIds`), of which some types have none. A
number of an uncertainty that is out of its range stands for one that is not a
number, and both for a calibration that has no preimage. Time is in milliseconds
in `Verify` and `HardwareAttestation`, with `MsPerS` of them to the second, and
is divided where and as the code divides it.

The device and the relay are not in this repository. The device signs a content
by its plan and never the same nullifier twice, and evidence over a fresh nonce
for each proof; the relay may do anything that changes a relayed proof by at most
`MaxEdits` edits from what it has seen, the keys it owns and hashes it can
compute, and may exchange the parts of the evidence named in `Exchanges` in one
go.

## Runs

All runs finish in under four minutes with two workers. `CHECK_DEADLOCK FALSE`
stands in the configurations of terminating programs only: when every run of the
program is done, the message is written, or the bound on requests is reached,
nothing is left to do.

| Run | Module, configuration | Question | Properties | Bounds |
| --- | --- | --- | --- | --- |
| `stage_chain` | `MCStageChain` | Can stages and fields of two proofs of one device be combined into another authentic, fresh proof, or one with another hash? | `FieldInv`, `AuthenticIsIssued`, `FreshMeansAssembledInTime`, `VisibleFieldsAreSigned`, `TwinIsNoNewProof`, `EchoIsSigned` | one device, one foreign key, proofs of 3 and 4 stages, 2 edits, the instants 0 and 3 ms with seconds of 2 ms, maximal ages of 0 and 1 s and a window |
| `semantic` | `MCSemantic` | Is what a consumer reads off an authentic report signed, whichever preimage version bound it, is an uncertainty shown exactly where one was signed, and is the content accepted with it the content bound into it? | `SemanticFieldsAreSigned`, `QueryHasItsAnswer`, `UncertaintyIsSigned`, `SessionIsThisLogin`, `RequiredTierWasSigned`, `ContentIsSigned`, `ManifestIsSigned` | a v3 disc answer with login and an uncertainty over a set of H3 cells, a v2 (with a salted note) and a v1 claim about one city with different geometry; uncertainties moved, taken out, reordered or without a usable status; the note presented as it is, with its salt as part of it, and hashed by the verifying party; 2 edits; the relay waits until no proof is half signed |
| `attestation` | `MCAttestation` | Can evidence of another proof, of another device or of none make a proof attested; what does the key a consumer caches vouch for; over which dates and outages is a verdict given? | `KeyCacheInv`, `AttestedIsBound`, `AssertionIsSpentOnce`, `DatedMeansValidThroughout`, `EvidenceIsOfThisProof`, `OutageIsNoVerdict` | an iPhone with 3 proofs, one of another app with 1, an Android phone with 2, keys of the relay's own; every set of the App Attest parts, or of nonce, assertion, field 2 and Play token, exchanged together; enrolment bundles of both versions; every policy, carried and pinned keys; windows from before 1970 to after the certificates |
| `encodings` | `MCEncodings` | Is one region spelled in one way, does membership mean membership, does an expectation name one region, and does a message have one reading? | `OneNormalForm`, `CanonicalIsNormal`, `ContainmentIsMembership`, `CurveKeepsPlaces`, `ExpectationIsOneRegion`, `ListedFieldsHaveOneReading` | messages of 4 elements of 15; six openings and two more entries of 64, on a face with a quarter of leaves and on the next face, height zooms 0 and 1; directions through every leaf of the six faces; 3 names in all spellings (the first two properties are in `NormalForms`, the others in `Encodings`) |
| `wire_reading` | `MCEncodings`, `MCWireReading.cfg` | Does every message the guard passes have one reading? (violated) | `AcceptedWireHasOneReading` | as above |
| `audit_serial` | `MCAudit`, `MCAuditSerial.cfg` | Do undisturbed runs on one store keep the promise of refetch consistency? | `SubstitutionFails`, `SkippedOnlyIfPrinted`, `RefinesFirstSeen` | three runs, 2 ids, 2 bodies, 2 requests of a page of one |
| `audit_stop` | `MCAudit`, `MCAuditStop.cfg` | What stays true under kills, failing reads and writes, overlap and Ctrl-C, and does a stopped watch end? | `ExitCoversAll`, `StopEnds` | two runs, 1 id, 4 bodies |
| `audit_unwritable` | `MCAudit`, `MCAuditUnwritable.cfg` | Is a hash said to be recorded remembered? (violated) | `RecordedIsRemembered` | two fetches |
| `watch_worst` | `MCAudit`, `MCWatchWorst.cfg` | Is the exit code of a watch that of its worst proof? (violated) | `WatchExitIsWorst` | one watch, two polls |
| `client` | `MCBackendClient` | Are ranges whole whatever pages they are cut into, is a refusal a second one about a token minted since the first, and does every request end? | `RangeIsComplete`, `RefusalIsOfAFreshToken`, `RequestsEnd` | 3 requests, 3 proofs, pages of 0 to 2, at most one empty page with a cursor in a range, refresh after 2 ticks, tokens of 3 |
| `browser_session` | `MCBrowserSession` | Do accepted revisions and trusted manifests ever go back, and what does a gate let through? | `RevisionsNeverGoBack`, `ManifestNeverRollsBack`, `GateIsVouched`, `GateIsOfThisSession` | two scenes: three runs in turn over 4 tokens of 2 sessions and 3 manifests or none; one run with 13 tokens, 8 manifests, 7 challenges and 3 log lines in every combination |
| `local` | `MCLocalRun` | Is a reused nullifier caught by a run that can read the store, a fresh one never accused, and success under `--require-attestation` attested? | `ReplayIsCaught`, `ReplayHasACause`, `SuccessIsAttested` | two runs in any interleaving, with a store that can be read or not, 2 nullifiers, 5 sets of options |

Why the bounds are enough. Two contents are what splicing needs: a stage is from
the proof at hand or from another. Two edits are one to break a check and one to
repair another; a chain that takes three different repairs would need a check
that covers what two others cover together, and for the stage chain itself the
theorems below hold for any number of edits, contents and devices. Two instants
with a second of two milliseconds tell too old from fresh, and an age that is
truncated to the limit from one that is below it. For the stores, two runs make
one entry and judge it and a third sees what a torn line left; two ids and two
hashes are needed for a swap; longer pages repeat `Judge` and `Emit`. Four ticks
let a token be young, old and dead, and three requests let a revocation hit the
first, a later and the last of them. An empty page can stand before, between and
after the others, and a second one in a row does what the first did. Two things
the runs do not reach are covered by the theorems alone: proofs of two different
logins, and a plan that signs its uncertainty twice. Every branch of the browser checks has an
input on each side in the second scene of `browser_session`.

Three proofs of one phone are the one that carries the object, one that advances
the counter and one that comes late; the theorems hold for any number. Four
elements are two copies of a field with a group opened and closed around or
before them. A cell set is judged by neighbours and by windows of four, so three
siblings and two more entries complete one level, and the opening that lacks a
single leaf completes two. Two levels of the curve with one bit to a lookup hand
an orientation on between lookups and walk two bits that the leaf does not have,
as the code's eight lookups of four bits do for thirty levels; `CellAssumption`
states what that needs.

### Fairness

Two properties are about something that must happen. `StopEnds` assumes
`WF_vars(Step(r))` for each run: the program takes its next step when it has one.
The code justifies it: requests have a total timeout (30 s in `backend.rs`), so a
fetch returns with an answer or an error; the sleep of a watch is cut into short
naps that look at the flag; everything else is local computation. No fairness is
assumed of `Load`, of Ctrl-C or of the faults. `RequestsEnd` assumes
`WF_vars(ClientStep)` for the same reason: a GET and a mint return. Nothing is
assumed of the clock or of the server's willingness to answer well, and the
property still depends on the server: its window is finite and does not change
under a range, its cursors advance, and it hands out finitely many empty pages
(`MaxEmpty`). A server that returns a cursor for ever keeps `fetch_range` going for
ever.

## What is proved

Every safety property that a passing run checks, but for `OneNormalForm` and
`CanonicalIsNormal`, and the refinement `RefinesFirstSeen`, is a theorem: it holds
for every value of the constants that meets the assumptions named below, and
every length of a run.

### Stage chain (`StageChainProofs`)

For every set of devices, foreign keys, contents, options and instants and every
number of edits:

* `ChainInvariant`: `Spec => []ChainInv`. In words: every stage a device signed
  carries that device's signature over exactly this stage; a stage named
  `nullifier` is never first; a data hash that commits to signatures is signed
  only by the last stage of a finished proof and commits to that proof's
  signatures; drafts and issued proofs consist of signed stages of one device;
  the proof in the relay's hands holds no signature of a device that the device
  did not make, except for the parity of S; an answer is that of the recipe about
  the proof still at hand.
* `AuthenticIsIssuedTheorem`: a proof accepted as authentic under a device's key
  carries the whole chain of one proof which that device finished, stage by
  stage, up to the parity of the last signature.

`AuthenticIsIssued` alone is not inductive: it speaks of an answer, and nothing
in it says where the stages on the wire come from. `ChainInv` carries that
history. The argument: an authentic report passed linkage, signatures, assembly
and the field bindings (`AuthenticChain`). The last stage's hash commits to
signatures and its own signature is the device's, so by `WireInv`, `SignedInv`
and `AssemblyInv` it is the assembly stage of a finished proof, and as hashes are
injective the signatures before it are that proof's, so the messages are too
(`SignedMessage`, `AcceptedChainIsIssued`). What is left is a chain of a single
stage, for which assembly is NOT-CHECKED: it would have to carry the nullifier
stage, which is never first in what a device signs (`NullifierHasStage`,
`OneStageIsRefused`). This is the one place where the recipe leans on the
device's order of stages, and the assumption says so.

### What the fields of an accepted proof say (`FieldProofs`)

`FieldInvariant`, `Spec => []FieldInv`, adds to `ChainInv` that drafts and issued
proofs follow the plan of their content (each stage commits to the content's
value for its name, and an issued proof shows its content), and that the relay
changes what fields hold but not which there are. Without it the chain of an
accepted proof is an issued one, but nothing ties a data hash in it to a content.
`stage_chain` checks `FieldInv` with TLC.

From it follow the eleven theorems of what a consumer reads:
`VisibleFieldsAreSigned`, `SemanticFieldsAreSigned`, `QueryHasItsAnswer`,
`UncertaintyIsSigned`, `FreshMeansAssembledInTime`, `SessionIsThisLogin`,
`EchoIsSigned`, `ContentIsSigned`, `ManifestIsSigned`, `RequiredTierWasSigned` and
`TwinIsNoNewProof`. All go the same way. The first stage of a name in the accepted
chain is the first of that name in the issued one (`FirstNamed`, `SignedStages`),
its hash is over what the plan says (`BoundData`), the check that passed recomputed
that hash from the field at hand, and hashes and preimages are injective. Three
need more: the three preimage versions must not be taken for each other
(`PreimagesDiffer`, `BoundVersions`: a v1 preimage is a region hash and neither
v2 nor v3 starts like one); a salt and a value are hashed one after the other, so
what is signed of content is the place of the cut only where the presented cut is
the committed one (`SameSuffix`); and the age is divided to seconds before it is
compared (`WithinSeconds`: the code truncates toward zero).
`UncertaintyIsSigned` is about proofs that show an uncertainty and proofs that do
not: a name is in the accepted chain where it is in the plan (`PlannedStages`), so
the one stage that the check wants is there exactly when the device signed one.

### Hardware attestation and Play Integrity (`AttestationProofs`)

For every set of devices, apps, relay keys, exchanges of evidence, expectations,
dates and windows, and every history of proofs, deliveries and enrolments:

* `KeyCacheInvariant`: `Spec => []KeyCacheInv`. Whatever a consumer stores under
  a key id is the App Attest key of a genuine device of the expected app, with a
  counter that device has reached, and not behind any assertion it took without
  an object.
* `AttestedIsBoundTheorem`: a valid and attested report, of the library with the
  cache or of the command line with a bundle, names a proof signed by the key in
  the hardware of a genuine device.
* `AssertionIsSpentOnceTheorem`: an assertion taken without an object is not taken
  again while the consumer keeps its key.
* `EvidenceIsOfThisProofTheorem`: where field 2 passes on a device's proof, the
  assertion that passed and the token that passes were made for this proof.
* `DatedMeansValidThroughoutTheorem`: a PASS over a window says that the
  certificates are valid at each of its milliseconds.
* `OutageIsNoVerdictTheorem`: the token of a genuine device passes when the service
  answers, and is NOT-CHECKED, which is what `integrity.rs` says of transient
  conditions, whatever else comes back or is missing from the verifier's
  settings, but for two replies: a 200 whose body is cut fails the proof
  (`CutFails`), and an error whose text cannot be quoted ends the run without a
  report (`UnquotableHasNoReport`).

`AttestedIsBound` needs the cache, because a proof without an object is judged
against the key stored earlier, so `KeyCacheInv` is the inductive invariant.
Every part of what the relay delivers is a device's, is missing or garbage, or
carries a key of the relay's own (`KnownEvidence`). A key that the layer returns
is accounted for by an object or by the cache (`AppAttestOutcome`), in both cases
the App Attest key of a device, which signs no assertion but its own
(`AssertionOfDevice`), with a counter above the stored one; that is the step of
the invariant for `Deliver` and, with counter 0 and older assertions forgotten,
for `Enrol`. A pass of `app-attest` is a binding to the signing key
(`AppPassIsBound`), a pass of `attestation-root` is the chain of an Android
device for that key, and a valid report has its stages signed by it. The stored
counter is not behind any assertion taken without an object, and such an
assertion is taken only when it is ahead (`TakenIsAhead`): so it is spent. For
`EvidenceIsOfThisProof`, field 2 signs the commitment, which one proof of one
device has, together with the nonce, so the nonce is that proof's
(`SignatureTies`); a bound assertion and a token carry the nonce they were made
over (`AssertionTies`, `TokenTies`), and nonces of different proofs differ. The
last two rest on `MadeInTime` (no device issues more than it may) and, for the
dates, on the rounding: the start of a window is rounded down and its end up to
seconds, so that seconds between the certificate's ends put the milliseconds
between them too.

### Backend audit (`AuditProofs`)

* `ExitCoversAllTheorem`, with no hypothesis on overlap, kills or failing stores:
  a fetch or range that ends with a verdict reported every envelope it was
  served, in order, and exits with the worst of the codes.
* `SubstitutionFailsTheorem`, `SkippedOnlyIfPrintedTheorem` and
  `RefinesFirstSeenTheorem` under `Undisturbed`: there are no runs with a store
  (then runs may overlap and be killed), or runs follow each other, none is
  killed and the store can be read and written. The first two say that other
  bytes than first seen fail, and that a watch leaves out only what was printed;
  the third that all the runs on a store implement the one map of `FirstSeen`.

The hypothesis is what the code needs: the run `audit_unwritable` shows a first
sighting lost to a store that cannot be written, and killed or overlapping runs
lose one too (see below).

`PrintedBy` numbers the reports of some runs, and `OrderInv` says that every
number has one report, so that printing appends (`PrintedGrows`). `CoverInv` says
that what a run was served is what it printed, what it has at hand and what is
queued, in this order (`Handled`), and that a range's codes are those it printed.
For the rest, `MemoryInv` says that a run's map holds, for each id reported by the
runs it shares a store with, the hash of the first such report, and besides those
only the id it is about to report. `SubstitutionFails` speaks of the log alone and
cannot be kept without it. Between runs the memory is the file, so `StoreInv` says
that the file spells the map line by line, each entry once, and that inside a
line all but the new entry is there and the last line holds the pieces written so
far; `LoadedSpelled` (what `SeenStore::load` reads from a file that spells a map is
that map) and `PieceGoes` (each of the four pieces) carry it over `WritePiece`, and
`SerialInv` that one run with a store is at work at a time. `RefinesFirstSeen`
then goes step by step: a judged envelope is a sighting (`JudgeIsSighting`), and
no load, piece, report or end of a run changes the map or an answer (`LoadKnows`,
`OtherStepsTell`, `ForeignStep`).

### Backend client (`BackendClientProofs`)

* `RangeIsCompleteTheorem`: a range that returns is the window of the server, each
  proof once and in order, for every window, limit of a page, way to cut the
  window into pages (empty ones too), lifetime of tokens and history of
  revocations. The server knows only the cursor it is sent; a client that lost,
  repeated or misplaced it would get other pages. `RangeInv` says that what a
  request has received is the window up to the place of its cursor.
* `RefusalIsOfAFreshTokenTheorem`, an action property: a 401 that reaches the
  caller is the second of its GET, and about a token minted after the first one.
  Its invariant follows `refused`: it is the token of the first 401 from then on,
  and what is held in the retry is newer.

### Local file command (`LocalRunProofs`)

For any runs, options and outcomes of the checks, in any interleaving, with kills
and failing stores:

* `SuccessIsAttestedTheorem`, from `AttestationInv` (an attested report was not
  made with the layer skipped or by a build without it, and past the policy a
  report under `--require-attestation` is attested or failed).
* `ReplayHasACauseTheorem`, from `CauseInv`: whatever pieces were torn or merged,
  every word of the file is made of nullifiers of runs that came as far as the
  store, so a line that is one nullifier and nothing else accuses nobody who was
  not there.
* `ReplayIsCaughtTheorem`, from `CaughtInv`: while nothing is disturbed, one run
  works at a time, the last line is empty or the writer's word, every run that
  passed has its line, and a run that passed with a nullifier that had passed
  before could not read the store; `OrderInv` carries that to the reports in their
  order. The hypothesis, no overlap and no stop inside a line, is part of the
  property, and so is the unreadable store: the code takes it for empty.

### Browser verdict command (`BrowserSessionProofs`)

* `GateIsVouchedTheorem` and `GateIsOfThisSessionTheorem`, for any overlap, kills
  and failing writes: from `GivenInv` (what a run judges is what it was given) and
  from what each line of a valid report says (`ValidReport`, `ValidIsVouched`).
* `RevisionsNeverGoBackTheorem` and `ManifestNeverRollsBackTheorem`, under `Serial`
  and with kills anywhere: from `WorkInv` (one run at a time, which knows how many
  reports came before it), `RevisionInv` (a store that is not torn, and the map a
  run is about to write, cover every accepted token) and `ManifestInv` (the stored
  seq is above every trusted manifest's). A torn store is unreadable and the next
  run stops at it, which is why kills do no harm. Overlapping runs do break both
  properties, hence `Serial`.

### Encodings (`EncodingsProofs`)

For messages and lists of any length, any numbers in their entries, any depth of
the cell hierarchy and of the height grid and any width of the lookup table, the
30, 32 and 4 of the code among them:

* `ListedFieldsHaveOneReadingTheorem`: where a message has no group, decodes and
  passes the guard, a reader of the first copy of a listed field sees what the
  decoder kept.
* `ExpectationIsOneRegionTheorem`: no two claims with different identifiers, or a
  city and another region, satisfy one expectation.
* `ContainmentIsMembershipTheorem`: an expectation of containment passes exactly if
  the set is canonical and one of the listed cells, and bins, holds the point.
* `CurveKeepsPlacesTheorem`: on a face, two leaves are in one cell of a level exactly
  if their columns and rows agree in as many high bits, leaves that follow each
  other share an edge, and columns and rows are in the order of the coordinates.
* `OneSpelling` and `OneVoxelSpelling`: two lists that the check of canonical form
  accepts and that cover the same leaves, or the same height bins over every
  leaf, are the same list. They have no run of their own: `CanonicalIsNormal` compares the
  accepted lists with the normalised ones, these compare them with each other.

These are facts about operators, so the only invariant of the steps is the type
of what a sender has written (`TypeCorrect`). The rest is the argument inside
each.

*One reading.* Without groups the scan skips whatever the decoder takes, so it
counts every copy of a listed field (`ScanReachesAll`), and of at most one copy
the first is the last (`OneCopyOneReading`).

*Membership.* The checks of a report have different names, so an assertion is
what each of them says (`AssertedChecks`). Cells whose neighbours share no leaf
are apart pairwise (`PairwiseApart`), so those before a leaf are a beginning of
the list, the binary search has one answer (`PartitionFound`), and only the cell
after it can hold the leaf (`SearchFinds`).

*The curve.* The code walks by table lookups of four bits; an entry of the table
is a descent over those bits (`FillDescends`), so the walk ends where a descent
bit by bit does (`WalkDescends`). Two descents are compared step by step
(`DescentsAlike`). That following leaves share an edge is not inductive: the
strengthening is `Touch`, which says that the curve leaves one cell at the side
at which it enters the next, whichever way it is turned (`StepsTouch`).

*One spelling.* A cell is a size and a place (`CellForm`) and carries a label, the
same for all in a cell set and the heights of its entries in a voxel set. Suppose
a cell of one list held smaller cells of the other, with its label at every leaf.
Of the smallest of them, the three siblings are covered too and by nothing
smaller, so all four are listed with that label; nothing fits between them
(`NothingBetween`), so they are neighbours, and four such neighbours are what the
check refuses (`SiblingsMissing`, `NoSplit`). So each list has the cells of the
other (`ListedToo`), and lists in order with the same members are equal
(`SameList`, `OneList`). For voxels, `chunk_by` cuts the list into runs of one cell
(`ChunksCut`), the intervals of a run have gaps between them and are therefore
determined by the heights in them (`OneRow`), and an interval has one entry that
cannot be written coarser (`OneZoom`).

The recursive functions of these modules equal their definitions only where some
function obeys the equation. `RecursionExists` gives one for any set, start and
step, from the least number up to which there would be none, since the library's
theorems about recursion take operators as parameters.

### Assumptions

All are named in the module that declares the constants and evaluated by TLC in
the runs. Of a device: `ContentsAssumption` (a content's plan is a sequence of
names, is not empty, does not start with the nullifier stage and leaves
`proofAssembly` to the device), `ClaimsAssumption` (a region is asked about only
under v3; an uncertainty that is signed has a preimage, as the SDK refuses to
sign others; what is committed to has entries of salt and value),
`DevicesAssumption` (a device is of one kind and the relay's keys are not its),
`IssueAssumption` (what it issues is there, and in time). Of the verifier's
options and clocks: `OptionsAssumption`, `InstantsAssumption`, `ClockAssumption`,
`DatesAssumption`, `AttestationAssumption`, `ClientAssumption` (a token is refreshed
before it dies), `NoneAssumption` (no number and no cursor is the absence of one),
`QueryAssumption` (a query without a type, or of type city, has no id the code takes).
Of names and words: `KeysAssumption`, `PlayAssumption`,
`WordsAssumption` and `LocalRunAssumption` (an id, hash or nullifier is no blank
and no line end; the core recipe reports no check of the names that `run` adds),
`AuditAssumption` (the recipe gives one of the four exit codes),
`CellAssumption` (the lookups reach all levels, and the bits they have too many are
even in number, since each swaps the axes), `VoxelAssumption` (a height out of range
is no number), `RegionAssumption` (lower case of lower case is there),
`EncodingsAssumption` (wire elements have one of the wire types, entries are
numbers, a direction is not zero), and
`SessionAssumption` (times, revisions and seqs are integers, as `browser.rs`
decodes them). And the symbolic cryptography of `Stages`, `Verify` and
`HardwareAttestation`: hashes and messages are injective.

### What the proofs changed in the models

* The age in whole seconds was rounded down for proofs from the future; the code
  divides, which truncates toward zero (`WholeSeconds`).
* `Classify` in `Audit` was a CASE whose guards overlapped for an unknown id; it is
  the code's match now.
* Whether a record differs from a model value is not provable, so stages are
  looked up with `HasStage`, and in `BrowserSession` what a run found is a variable
  of its own beside what it was given.
* The number of a report, `PrintedBy`, is defined by counting instead of by a fold
  over the log.
* What `Encodings` reaches is free of RECURSIVE operators: the fill of the lookup
  table, the walk of the curve and `chunk_by` are recursive functions, the depth of
  groups in a message is a count, and what only a sender runs is in `Normalization`,
  with its two properties in `NormalForms`.
* The lookup table is one function of tuples of bits and orientation; as nested
  functions its entries could not be told apart.
* A region that is not there is a record of its own (`NoRegion`), and a direction
  is assumed not to be zero, which the code's are not.

### Only model-checked

* `StopEnds` and `RequestsEnd`: liveness under fairness is out of this prover's
  reach.
* `OneNormalForm` and `CanonicalIsNormal`: `normalize` and `normalize_voxels` recurse
  over lists and trees of cells (`PushMerged`, `Refine`, `Parts`), which needs
  RECURSIVE operators, and what they compute for every list is an induction over
  that list. `OneSpelling` and `OneVoxelSpelling` are the half of `CanonicalIsNormal`
  that a verifier depends on: whatever a sender does, one region has one accepted
  list. That the sender's list is the accepted one stays with TLC.
* The three runs that find a violation, which are about what the code does not do.

## Where code and documents disagree

Three runs are expected to find a violation of what a document or a comment of
the repository says; the findings quote the lines.

* `audit_unwritable`: a seen-store that cannot be written is reported as
  "byte-hash recorded", one that cannot be read counts as empty, and the next run
  takes other bytes for a first sighting.
* `watch_worst`: VERIFICATION-SPEC.md says the exit code of `watch` is the worst;
  the code keeps the last one.
* `wire_reading`: the guard of `wire.rs` refuses duplicates of "a field the schema
  declares non-repeated", but its list lacks field 20 (`uncertainty`), and a group
  ends its scan while the decoder skips the group and reads on.

Reading and modelling showed a few more, which have no run of their own.

* `Report::spoofing_verdict` says its value "was verified as signed"; without a
  resolvable key, signatures are NOT-CHECKED and a recomputed hash is enough.
  `is_authentic` is false for such a report; `is_valid` is true.
  `RequiredTierWasSigned` covers what a required tier still guarantees.
* VERIFICATION-SPEC.md says a session has at most one `final`; the code compares
  revision numbers, so two different finals of one revision both pass.
* A proof that carries an attestation object is judged against the object and a
  counter of 0, not against the cached key, and the key to store goes back to the
  counter of that proof. INTEGRATION.md's "the verifier rejects any assertion
  whose counter is not strictly greater than the highest already seen for that
  key" holds between sightings of the object, which is what
  `AssertionIsSpentOnce` says; `spent` in `Attestation` drops what the object
  reopens.
* A Play Integrity reply of status 200 cut in the middle fails the proof, while
  `integrity.rs` says that transient conditions are NOT-CHECKED; and the snippet
  of an unexpected body is cut at a byte, so one with a character across that
  place ends the run without a report. Both are in `Integrity` (`CutBody`,
  `Snippet`), and `OutageIsNoVerdict` says of each what it does.
* A nullifier store that cannot be read counts as empty, and if it can be
  appended to the report says "nullifier not seen before; recorded"
  (`src/bin/octet-verify.rs`, `replay_check`), although the nullifier may be in it.
  `ReplayIsCaught` says that this is the only way for an undisturbed reuse to pass.
* A run killed inside its seen-store line leaves a tail that the next run's line
  is appended to (`MayCrash` in `Audit`). Killed after the blank, or after the hash
  and before the line end, the line then reads as three words: the first id is
  remembered with a word that is no hash of it (the second id, or the hash and
  the second id in one), so its proof, unchanged, is later accused of a conflict,
  and the second id is forgotten. Killed right after the id, the two ids merge
  into one that does not exist, and both are forgotten.
* `watch` skips a proof whose hash is in the store without judging it, so a watch
  that saw only an INVALID proof of an earlier run exits 0, while the comment
  above `run_watch` says "the most recent proof's tri-state code". A conflicting
  proof is printed again at every poll, while VERIFICATION-SPEC.md says that
  `watch` "re-prints a proof only when its bytes change".
* Two overlapping `browser-verdict` runs write back whole maps and can lose each
  other's entries (`Serial = FALSE` in `BrowserSession`); the nullifier store's
  similar race is documented in the code.
* The twin of a proof with one flipped S is "equally valid" in the comment of
  `canonical_proof_hash`, which is so for the last stage only: assembly hashes the
  others as sent.

What no property covers, because the code does not have it: first sightings, accepted
revisions and nullifiers survive neither overlapping runs (the stores are read,
judged and written without a lock) nor, in the seen-store, a kill inside a line.
`SubstitutionFails`, `RefinesFirstSeen`, `RevisionsNeverGoBack` and `ReplayIsCaught`
name that as their hypothesis; `ExitCoversAll` and `ReplayHasACause` hold in such
runs but are about exit codes and false accusations, and would not notice what is
lost. Nor does a property say that a `watch` judges a body again that it has
already printed: it does not, even if the verdict would be another by then. The
hazards in `PROJECT.json` say so each at its line.

## What is not modelled, and why

* Geometry over floats (discs, ellipses, boxes, H3 cells, latitude and longitude
  to a direction) is out of TLC's reach; containment enters as a set of points.
* X.509, CBOR, JWS, PASETO, JSON and protobuf parsing, certificate chains and key
  files: bytes in, values out, in external crates or without state. A manifest of
  the browser profile is genuine or not.
* Argument parsing and printing: text in, text out.
* The digests of cell sets: `Hash` in `Stages` is injective, and `OneSpelling`,
  `OneVoxelSpelling` and `CanonicalIsNormal` say that what is hashed has one form.
* A consumer of the library that crashes between a verdict and the store of the
  key, or that verifies two proofs of one key at once: the repository leaves the
  cache to its caller and shows no code for it.
* A clock that steps back during a run, and the saturation of subtraction at the
  ends of i64.

## What is left

1. `Normalization` as recursive functions, and that what `normalize` returns is
   canonical and covers what it was given; with `OneSpelling` this gives
   `CanonicalIsNormal` for lists of any length.
2. `BrowserVerdict`: the JSON of a manifest and the encodings of a token, should
   a property need them.
3. A sharper hypothesis than `Undisturbed`: a run killed between two lines costs
   the store nothing, which `ReplayIsCaught` already says of the nullifier store.
