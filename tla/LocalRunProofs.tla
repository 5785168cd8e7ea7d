--------------------------- MODULE LocalRunProofs ---------------------------
(***************************************************************************)
(* For every set of runs, nullifiers and options and every interleaving of *)
(* the runs: success is attested, a replay has a cause, and undisturbed    *)
(* runs catch every replay.                                                *)
(***************************************************************************)
EXTENDS LocalRun, SequenceTheorems, TLAPS

Step(r) ==
  \/ Start(r) \/ BadInput(r) \/ Metadata(r) \/ BadManifest(r) \/ Transport(r)
  \/ BadTransportKey(r) \/ ReplayCheck(r) \/ WritePiece(r) \/ Recorded(r) \/ StoreError(r)
  \/ Attest(r) \/ BadConfig(r) \/ Integrity(r) \/ Require(r) \/ QueryMatch(r)
  \/ PrintReport(r) \/ Crash(r)

Input == [nullifier : Nullifiers, args : Args, alone : BOOLEAN, reads : BOOLEAN]

\* The functions are over the runs, and a run has an input once it started and for
\* good; a run that is not at its line has no piece of it left to write, unless it
\* was stopped there.
ShapeInv ==
  /\ DOMAIN pc = Runs /\ DOMAIN input = Runs /\ DOMAIN checks = Runs
  /\ DOMAIN pending = Runs /\ DOMAIN exit = Runs
  /\ \A r \in Runs :
       /\ pc[r] = "ready" => input[r] = None /\ checks[r] = {}
       /\ pc[r] \notin {"ready", "done"} => input[r] \in Input
       /\ input[r] = None \/ input[r] \in Input
       /\ pc[r] # "done" => exit[r] = None

LEMMA Others ==
  ASSUME ShapeInv, NEW r \in Runs, Step(r), NEW s \in Runs, s # r
  PROVE  /\ pc'[s] = pc[s] /\ input'[s] = input[s] /\ checks'[s] = checks[s]
         /\ pending'[s] = pending[s] /\ exit'[s] = exit[s]
BY DEF ShapeInv, Step, Start, BadInput, Metadata, BadManifest, Transport, BadTransportKey,
       ReplayCheck, WritePiece, Recorded, StoreError, Attest, BadConfig, Integrity, Require,
       QueryMatch, PrintReport, Crash, Error, Finish, Goto, Add

LEMMA Domains ==
  ASSUME ShapeInv, NEW r \in Runs, Step(r)
  PROVE  /\ DOMAIN pc' = Runs /\ DOMAIN input' = Runs /\ DOMAIN checks' = Runs
         /\ DOMAIN pending' = Runs /\ DOMAIN exit' = Runs
BY DEF ShapeInv, Step, Start, BadInput, Metadata, BadManifest, Transport, BadTransportKey,
       ReplayCheck, WritePiece, Recorded, StoreError, Attest, BadConfig, Integrity, Require,
       QueryMatch, PrintReport, Crash, Error, Finish, Goto, Add

\* What a step does to its own run.
LEMMA Own ==
  ASSUME ShapeInv, NEW r \in Runs, Step(r)
  PROVE  /\ pc[r] # "ready" => input'[r] = input[r]
         /\ pc[r] = "ready" /\ pc'[r] = "done" => input'[r] = None /\ checks'[r] = {}
         /\ pc[r] = "ready" /\ pc'[r] # "done" =>
              /\ input'[r] \in Input
              /\ pc'[r] = "metadata"
         /\ pc'[r] # "ready"
         /\ pc'[r] # "done" => exit'[r] = exit[r]
         /\ checks[r] \subseteq checks'[r]
         /\ pc[r] # "done"
<1>1. CASE Start(r)
  BY <1>1 DEF Start, Add, Goto, ShapeInv, Input, Running
<1>2. CASE BadInput(r) \/ BadManifest(r) \/ BadTransportKey(r) \/ StoreError(r) \/ BadConfig(r)
           \/ PrintReport(r) \/ Crash(r)
  BY <1>2 DEF BadInput, BadManifest, BadTransportKey, StoreError, BadConfig, PrintReport, Crash,
              Error, Finish, ShapeInv, Running
<1>3. CASE Metadata(r) \/ Transport(r)
  BY <1>3 DEF Metadata, Transport, Add, Goto, ShapeInv
<1>4. CASE ReplayCheck(r) \/ WritePiece(r) \/ Recorded(r)
  BY <1>4 DEF ReplayCheck, WritePiece, Recorded, Add, Goto, ShapeInv
<1>5. CASE Attest(r) \/ Integrity(r)
  BY <1>5 DEF Attest, Integrity, Add, Goto, ShapeInv
<1>6. CASE Require(r) \/ QueryMatch(r)
  BY <1>6 DEF Require, QueryMatch, Add, Goto, ShapeInv
<1> QED BY <1>1, <1>2, <1>3, <1>4, <1>5, <1>6 DEF Step

LEMMA ShapeInvariant == Spec => []ShapeInv
<1>1. Init => ShapeInv
  BY DEF Init, ShapeInv
<1>2. ShapeInv /\ [Next]_vars => ShapeInv'
  <2>1. ASSUME ShapeInv, NEW r \in Runs, Step(r)
        PROVE  ShapeInv'
    <3>1. ASSUME NEW s \in Runs
          PROVE  /\ pc'[s] = "ready" => input'[s] = None /\ checks'[s] = {}
                 /\ pc'[s] \notin {"ready", "done"} => input'[s] \in Input
                 /\ input'[s] = None \/ input'[s] \in Input
                 /\ pc'[s] # "done" => exit'[s] = None
      <4>1. CASE s = r
        BY <2>1, <4>1, Own DEF ShapeInv
      <4>2. CASE s # r
        BY <2>1, <4>2, Others DEF ShapeInv
      <4> QED BY <4>1, <4>2
    <3> QED BY <2>1, <3>1, Domains DEF ShapeInv
  <2>2. ASSUME ShapeInv, UNCHANGED vars PROVE ShapeInv'
    BY <2>2 DEF ShapeInv, vars
  <2> QED BY <2>1, <2>2 DEF Next, Step
<1> QED BY <1>1, <1>2, PTL DEF Spec

---------------------------------------------------------------------------
(* Attestation *)

\* An attestation in the report was made by this run, and behind the policy the
\* report has one or is rejected for it.
AttestationInv == \A r \in Runs :
  /\ IsAttested(checks[r]) =>
       input[r] # None /\ ~input[r].args.skip /\ AttestationBuild
  /\ pc[r] \in {"query", "print"} /\ input[r].args.requireAttestation =>
       IsAttested(checks[r]) \/ Failed(checks[r])
  /\ exit[r] = ExitSuccess /\ input[r].args.requireAttestation => IsAttested(checks[r])

\* Checks of other names attest nothing.
LEMMA NoAttestation ==
  ASSUME NEW S, NEW T,
         \A c \in T : c.name \notin {"app-attest", "attestation-root"}
  PROVE  IsAttested(S \cup T) <=> IsAttested(S)
BY DEF IsAttested, HasStatus, Check

LEMMA StillFailed ==
  ASSUME NEW S, NEW T, S \subseteq T, Failed(S)
  PROVE  Failed(T)
BY DEF Failed

LEMMA StillAttested ==
  ASSUME NEW S, NEW T, S \subseteq T, IsAttested(S)
  PROVE  IsAttested(T)
BY DEF IsAttested, HasStatus

\* The steps that are neither the attestation layer nor the start add no
\* attestation.
LEMMA AttestationOnlyIn ==
  ASSUME ShapeInv, NEW r \in Runs, Step(r), IsAttested(checks'[r]), ~IsAttested(checks[r])
  PROVE  Attest(r)
<1> SUFFICES ASSUME ~Attest(r) PROVE FALSE
  OBVIOUS
<1>1. CASE Start(r)
  <2>1. PICK core \in Cores :
          checks'[r] = checks[r] \cup (core \cup IF AttestationBuild THEN {}
                           ELSE {Check("attestation-root", "notchecked"),
                                 Check("device-attestation-sig", "notchecked")})
    BY <1>1 DEF Start, Add, ShapeInv
  <2>2. \A c \in core : c.name \notin {"app-attest", "attestation-root"}
    BY LocalRunAssumption
  <2>3. Check("app-attest", "pass").name = "app-attest"
        /\ Check("attestation-root", "pass").name = "attestation-root"
        /\ Check("attestation-root", "pass") \notin {Check("attestation-root", "notchecked"),
                                 Check("device-attestation-sig", "notchecked")}
        /\ Check("app-attest", "pass") \notin {Check("attestation-root", "notchecked"),
                                 Check("device-attestation-sig", "notchecked")}
    BY DEF Check
  <2> QED BY <2>1, <2>2, <2>3 DEF IsAttested, HasStatus
<1>2. CASE \E name, s : name \notin {"app-attest", "attestation-root"} /\
             checks'[r] = checks[r] \cup {Check(name, s)}
  <2>1. PICK name, s : name \notin {"app-attest", "attestation-root"} /\
             checks'[r] = checks[r] \cup {Check(name, s)}
    BY <1>2
  <2>2. \A c \in {Check(name, s)} : c.name \notin {"app-attest", "attestation-root"}
    BY <2>1 DEF Check
  <2> QED BY <2>1, <2>2, NoAttestation
<1>3. CASE checks'[r] = checks[r]
  BY <1>3
<1>4. CASE Transport(r)
  <2>1. PICK b \in {"pass", "fail", "notchecked"}, signature \in {{}} \cup {{Check("ed25519-transport", s)} :
                                      s \in {"pass", "fail", "notchecked"}} :
          checks'[r] = checks[r] \cup ({Check("replay-binding", b)} \cup signature)
    BY <1>3, <1>4 DEF Transport, Add, ShapeInv
  <2>2. \A c \in {Check("replay-binding", b)} \cup signature :
          c.name \notin {"app-attest", "attestation-root"}
    BY DEF Check
  <2> QED BY <2>1, <2>2, NoAttestation
<1>5. CASE Metadata(r) \/ ReplayCheck(r) \/ Recorded(r)
  BY <1>2, <1>3, <1>5 DEF Metadata, ReplayCheck, Recorded, Add, ShapeInv
<1>6. CASE Integrity(r) \/ QueryMatch(r)
  BY <1>2, <1>3, <1>6 DEF Integrity, QueryMatch, Add, ShapeInv
<1>7. CASE Require(r)
  BY <1>2, <1>3, <1>7 DEF Require, RequireAttestationCheck, Add, ShapeInv
<1>8. CASE BadInput(r) \/ BadManifest(r) \/ BadTransportKey(r) \/ WritePiece(r) \/ StoreError(r)
           \/ BadConfig(r) \/ PrintReport(r) \/ Crash(r)
  BY <1>3, <1>8 DEF BadInput, BadManifest, BadTransportKey, WritePiece, StoreError, BadConfig,
                    PrintReport, Crash, Error
<1> QED BY <1>1, <1>4, <1>5, <1>6, <1>7, <1>8 DEF Step

LEMMA AttestAttests ==
  ASSUME ShapeInv, NEW r \in Runs, Attest(r), IsAttested(checks'[r]), ~IsAttested(checks[r])
  PROVE  ~input[r].args.skip /\ AttestationBuild
<1>1. ~input[r].args.skip
  BY DEF Attest
<1>2. ASSUME ~AttestationBuild PROVE FALSE
  <2>1. checks'[r] = checks[r] \/ checks'[r] = checks[r] \cup {Check("app-attest", "notchecked")}
        \/ checks'[r] = checks[r] \cup {}
    BY <1>1, <1>2 DEF Attest, Add, ShapeInv
  <2>2. Check("app-attest", "notchecked") # Check("app-attest", "pass")
        /\ Check("app-attest", "notchecked") # Check("attestation-root", "pass")
    BY DEF Check
  <2> QED BY <2>1, <2>2 DEF IsAttested, HasStatus
<1> QED BY <1>1, <1>2

LEMMA AttestationStep ==
  ASSUME ShapeInv, ShapeInv', AttestationInv, NEW r \in Runs, Step(r)
  PROVE  AttestationInv'
<1>1. ASSUME NEW s \in Runs, s # r
      PROVE  /\ IsAttested(checks'[s]) =>
                  input'[s] # None /\ ~input'[s].args.skip /\ AttestationBuild
             /\ pc'[s] \in {"query", "print"} /\ input'[s].args.requireAttestation =>
                  IsAttested(checks'[s]) \/ Failed(checks'[s])
             /\ exit'[s] = ExitSuccess /\ input'[s].args.requireAttestation =>
                  IsAttested(checks'[s])
  BY <1>1, Others DEF AttestationInv
<1>2. ASSUME IsAttested(checks'[r])
      PROVE  input'[r] # None /\ ~input'[r].args.skip /\ AttestationBuild
  <2>1. CASE IsAttested(checks[r])
    <3>1. checks[r] # {}
      BY <2>1 DEF IsAttested, HasStatus
    <3>2. pc[r] # "ready"
      BY <3>1 DEF ShapeInv
    <3> QED BY <2>1, <3>2, Own DEF AttestationInv
  <2>2. CASE ~IsAttested(checks[r])
    <3>1. Attest(r)
      BY <1>2, <2>2, AttestationOnlyIn
    <3>2. input[r] \in Input /\ input'[r] = input[r]
      BY <3>1 DEF Attest, ShapeInv
    <3> QED BY <1>2, <2>2, <3>1, <3>2, AttestAttests, LocalRunAssumption DEF Input
  <2> QED BY <2>1, <2>2
<1>3. ASSUME pc'[r] \in {"query", "print"}, input'[r].args.requireAttestation
      PROVE  IsAttested(checks'[r]) \/ Failed(checks'[r])
  <2>1. CASE Require(r)
    <3>1. input'[r] = input[r]
      BY <2>1, Own DEF Require
    <3>2. checks'[r] = checks[r] \cup {RequireAttestationCheck(checks[r])}
      BY <1>3, <2>1, <3>1 DEF Require, Add, ShapeInv
    <3>3. CASE IsAttested(checks[r])
      BY <3>2, <3>3, StillAttested
    <3>4. CASE ~IsAttested(checks[r])
      <4>1. Check("attestation-required", "fail") \in checks'[r]
        BY <3>2, <3>4 DEF RequireAttestationCheck
      <4> QED BY <4>1 DEF Failed, Check
    <3> QED BY <3>3, <3>4
  <2>2. CASE QueryMatch(r)
    <3>1. pc[r] = "query" /\ input'[r] = input[r] /\ checks[r] \subseteq checks'[r]
      BY <2>2, Own DEF QueryMatch
    <3> QED BY <1>3, <3>1, StillAttested, StillFailed DEF AttestationInv
  <2>3. CASE ~Require(r) /\ ~QueryMatch(r)
    <3>1. FALSE
      BY <1>3, <2>3 DEF Step, Start, BadInput, Metadata, BadManifest, Transport, BadTransportKey,
           ReplayCheck, WritePiece, Recorded, StoreError, Attest, BadConfig, Integrity,
           PrintReport, Crash, Error, Finish, Goto, ShapeInv
    <3> QED BY <3>1
  <2> QED BY <2>1, <2>2, <2>3
<1>4. ASSUME exit'[r] = ExitSuccess, input'[r].args.requireAttestation
      PROVE  IsAttested(checks'[r])
  <2>1. PrintReport(r)
    BY <1>4, LocalRunAssumption DEF Step, Start, BadInput, Metadata, BadManifest, Transport,
         BadTransportKey, ReplayCheck, WritePiece, Recorded, StoreError, Attest, BadConfig,
         Integrity, Require, QueryMatch, Crash, Error, Finish, Goto, ShapeInv,
         ExitError, ExitSuccess
  <2>2. pc[r] = "print" /\ input'[r] = input[r] /\ checks'[r] = checks[r]
        /\ exit'[r] = ExitCode(checks[r])
    BY <2>1 DEF PrintReport, Finish, ShapeInv
  <2>3. ~Failed(checks[r])
    BY <1>4, <2>2 DEF ExitCode, IsAuthentic, IsValid, ExitSuccess, ExitInvalid
  <2> QED BY <1>4, <2>2, <2>3 DEF AttestationInv
<1> QED BY <1>1, <1>2, <1>3, <1>4 DEF AttestationInv

\* A run that succeeds under --require-attestation checked a hardware attestation
\* itself and found it good: neither skipping the layer, nor a build without it,
\* nor a check that is appended later stands in for it (run, the policy block).
THEOREM SuccessIsAttestedTheorem == Spec => []SuccessIsAttested
<1>1. Init => AttestationInv
  BY LocalRunAssumption DEF Init, AttestationInv, IsAttested, HasStatus
<1>2. ShapeInv /\ ShapeInv' /\ AttestationInv /\ [Next]_vars => AttestationInv'
  <2>1. ASSUME AttestationInv, UNCHANGED vars PROVE AttestationInv'
    BY <2>1 DEF AttestationInv, vars
  <2> QED BY <2>1, AttestationStep DEF Next, Step
<1>3. AttestationInv => SuccessIsAttested
  BY DEF AttestationInv, SuccessIsAttested
<1> QED BY <1>1, <1>2, <1>3, ShapeInvariant, PTL DEF Spec

---------------------------------------------------------------------------
(* Files of lines *)

Lines(W) == Seq(Seq(W))
Files(W) == {f \in Seq(Lines(W)) : Len(f) > 0 /\ \A l \in DOMAIN f : Len(f[l]) > 0}

LEMMA MoreWords ==
  ASSUME NEW W, NEW V, W \subseteq V, NEW f \in Files(W)
  PROVE  f \in Files(V)
<1>1. \A w \in Seq(W) : w \in Seq(V)
  BY SeqMonotonic
<1>2. Seq(W) \subseteq Seq(V)
  BY <1>1
<1>3. \A w \in Lines(W) : w \in Lines(V)
  BY <1>2, SeqMonotonic DEF Lines
<1>4. Lines(W) \subseteq Lines(V)
  BY <1>3
<1>5. f \in Seq(Lines(V))
  BY <1>4, SeqMonotonic DEF Files
<1> QED BY <1>5 DEF Files

LEMMA AppendKeepsFiles ==
  ASSUME NEW W, NEW f \in Files(W), NEW piece, piece \in W \cup {Space, Newline}
  PROVE  AppendPiece(f, piece) \in Files(W)
<1> DEFINE last == Len(f)
           line == f[last]
<1>1. /\ f \in Seq(Lines(W)) /\ last \in Nat /\ last > 0 /\ DOMAIN f = 1 .. last
      /\ \A l \in 1 .. last : Len(f[l]) > 0 /\ f[l] \in Lines(W)
  BY LenProperties, ElementOfSeq DEF Files
<1>2. line \in Seq(Seq(W)) /\ Len(line) \in Nat /\ Len(line) > 0
  BY <1>1, LenProperties DEF Lines
<1> HIDE DEF last, line
<1>3. CASE piece = Newline
  <2>1. << <<>> >> \in Lines(W) /\ Len(<< <<>> >>) = 1
    BY DEF Lines
  <2>2. AppendPiece(f, piece) = Append(f, << <<>> >>)
    BY <1>3 DEF AppendPiece, Newline, Space
  <2>3. /\ Append(f, << <<>> >>) \in Seq(Lines(W)) /\ Len(Append(f, << <<>> >>)) = last + 1
        /\ \A l \in 1 .. last : Append(f, << <<>> >>)[l] = f[l]
        /\ Append(f, << <<>> >>)[last + 1] = << <<>> >>
        /\ DOMAIN Append(f, << <<>> >>) = 1 .. last + 1
    BY <1>1, <2>1, AppendProperties, LenProperties DEF last
  <2> DEFINE g == Append(f, << <<>> >>)
  <2>4. \A l \in 1 .. last + 1 : Len(g[l]) > 0
    <3> TAKE l \in 1 .. last + 1
    <3>1. CASE l \in 1 .. last
      BY <1>1, <2>3, <3>1
    <3>2. CASE l = last + 1
      BY <2>1, <2>3, <3>2
    <3> QED BY <1>1, <3>1, <3>2
  <2>5. g \in Seq(Lines(W)) /\ Len(g) = last + 1 /\ DOMAIN g = 1 .. last + 1
    BY <2>3
  <2>6. AppendPiece(f, piece) = g
    BY <2>2
  <2> HIDE DEF g
  <2> QED BY <1>1, <2>4, <2>5, <2>6 DEF Files
<1>4. ASSUME NEW g \in Seq(Seq(W)), Len(g) > 0, AppendPiece(f, piece) = [f EXCEPT ![last] = g]
      PROVE  AppendPiece(f, piece) \in Files(W)
  <2>1. /\ [f EXCEPT ![last] = g] \in Seq(Lines(W)) /\ Len([f EXCEPT ![last] = g]) = last
        /\ \A l \in 1 .. last : [f EXCEPT ![last] = g][l] = IF l = last THEN g ELSE f[l]
    <3>1. last \in 1 .. Len(f) /\ g \in Lines(W)
      BY <1>1 DEF Lines, last
    <3> QED BY <1>1, <3>1, ExceptSeq DEF last
  <2>2. DOMAIN [f EXCEPT ![last] = g] = 1 .. last
    BY <1>1
  <2> QED BY <1>1, <1>4, <2>1, <2>2 DEF Files
<1>5. CASE piece = Space /\ piece # Newline
  <2>1. AppendPiece(f, piece) = [f EXCEPT ![last] = Append(line, <<>>)]
    BY <1>5 DEF AppendPiece, last, line, Newline, Space
  <2>2. Append(line, <<>>) \in Seq(Seq(W)) /\ Len(Append(line, <<>>)) > 0
    BY <1>2, AppendProperties, EmptySeq
  <2> QED BY <1>4, <2>1, <2>2
<1>6. CASE piece # Space /\ piece # Newline
  <2> DEFINE word == Append(line[Len(line)], piece)
  <2>1. AppendPiece(f, piece) = [f EXCEPT ![last] = [line EXCEPT ![Len(line)] = word]]
    BY <1>6 DEF AppendPiece, last, line, Newline, Space
  <2>2. word \in Seq(W)
    BY <1>2, <1>6, ElementOfSeq, AppendProperties
  <2>3. Len(line) \in 1 .. Len(line)
    BY <1>2
  <2> HIDE DEF word
  <2>4. [line EXCEPT ![Len(line)] = word] \in Seq(Seq(W))
        /\ Len([line EXCEPT ![Len(line)] = word]) > 0
    BY <1>2, <2>2, <2>3, ExceptSeq
  <2> QED BY <1>4, <2>1, <2>4
<1> QED BY <1>3, <1>5, <1>6

---------------------------------------------------------------------------
(* Causes *)

\* The nullifiers a run got to the store with.
PastStore(r) == pc[r] \notin {"ready", "metadata", "transport", "store"}
Came(r, n) ==
  input[r] # None /\ input[r].nullifier = n /\ input[r].args.store /\ PastStore(r)
Brought == {n \in Nullifiers : \E r \in Runs : Came(r, n)}

\* What is or will be in the file was brought by a run, and so was what a replay
\* is blamed on, by another one.
CauseInv ==
  /\ file \in Files(Brought)
  /\ \A r \in Runs :
       /\ pending[r] # <<>> => Came(r, input[r].nullifier)
       /\ pending[r] \in {<<>>, <<Newline>>, <<input[r].nullifier, Newline>>}
       /\ Check("replay", "fail") \in checks[r] =>
            \E s \in Runs \ {r} : Came(s, input[r].nullifier)

LEMMA PastStays ==
  ASSUME ShapeInv, NEW r \in Runs, Step(r), NEW s \in Runs, PastStore(s)
  PROVE  input'[s] = input[s] /\ PastStore(s)'
<1>1. CASE s # r
  BY <1>1, Others DEF PastStore
<1>2. CASE s = r
  <2>1. pc[r] # "ready" /\ input'[r] = input[r]
    BY <1>2, Own DEF PastStore
  <2>2. PastStore(r)'
    <3>1. pc[r] \notin {"ready", "metadata", "transport", "store"}
      BY <1>2 DEF PastStore
    <3> QED BY <3>1 DEF PastStore, Step, Start, BadInput, Metadata, BadManifest, Transport,
         BadTransportKey, ReplayCheck, WritePiece, Recorded, StoreError, Attest, BadConfig,
         Integrity, Require, QueryMatch, PrintReport, Crash, Error, Finish, Goto, ShapeInv
  <2> QED BY <1>2, <2>1, <2>2
<1> QED BY <1>1, <1>2

LEMMA CameStays ==
  ASSUME ShapeInv, NEW r \in Runs, Step(r), NEW s \in Runs, NEW n, Came(s, n)
  PROVE  Came(s, n)'
BY PastStays DEF Came

\* A nullifier that is found in the file was brought by some run.
LEMMA SeenWasBrought ==
  ASSUME file \in Files(Brought), NEW r \in Runs, Seen(r)
  PROVE  input[r].nullifier \in Brought
<1> DEFINE n == input[r].nullifier
<1>1. PICK l \in DOMAIN file : \E i \in DOMAIN file[l] : file[l][i] = <<n>>
  BY DEF Seen, IsLone
<1>2. PICK i \in DOMAIN file[l] : file[l][i] = <<n>>
  BY <1>1
<1>3. file[l] \in Seq(Seq(Brought))
  BY <1>1, LenProperties, ElementOfSeq DEF Files, Lines
<1>4. file[l][i] \in Seq(Brought)
  BY <1>2, <1>3, LenProperties, ElementOfSeq
<1>5. <<n>> \in Seq(Brought) /\ 1 \in 1 .. Len(<<n>>) /\ <<n>>[1] = n
  BY <1>2, <1>4
<1> QED BY <1>5, ElementOfSeq

\* Only replay_check calls a nullifier a replay.
LEMMA FailOnlyIn ==
  ASSUME ShapeInv, NEW r \in Runs, Step(r),
         Check("replay", "fail") \in checks'[r], Check("replay", "fail") \notin checks[r]
  PROVE  /\ pc[r] = "store" /\ input[r].args.store /\ Seen(r)
         /\ pc'[r] = "attest"
<1>1. CASE Start(r)
  <2>1. PICK core \in Cores :
          checks'[r] = checks[r] \cup (core \cup IF AttestationBuild THEN {}
                           ELSE {Check("attestation-root", "notchecked"),
                                 Check("device-attestation-sig", "notchecked")})
    BY <1>1 DEF Start, Add, ShapeInv
  <2>2. \A c \in core : c.name # "replay"
    BY LocalRunAssumption
  <2> QED BY <2>1, <2>2 DEF Check
<1>2. CASE ReplayCheck(r)
  BY <1>2 DEF ReplayCheck, Add, Goto, ShapeInv, Check
<1>3. CASE Recorded(r) \/ Metadata(r) \/ Transport(r) \/ Integrity(r) \/ QueryMatch(r)
  BY <1>3 DEF Recorded, Metadata, Transport, Integrity, QueryMatch, Add, ShapeInv, Check
<1>4. CASE Attest(r) \/ Require(r)
  BY <1>4 DEF Attest, Require, RequireAttestationCheck, Add, ShapeInv, Check
<1>5. CASE BadInput(r) \/ BadManifest(r) \/ BadTransportKey(r) \/ WritePiece(r) \/ StoreError(r)
           \/ BadConfig(r) \/ PrintReport(r) \/ Crash(r)
  BY <1>5 DEF BadInput, BadManifest, BadTransportKey, WritePiece, StoreError, BadConfig,
              PrintReport, Crash, Error
<1> QED BY <1>1, <1>2, <1>3, <1>4, <1>5 DEF Step

\* The line a run still has to write changes only in replay_check and by writing.
LEMMA PendingOnlyIn ==
  ASSUME ShapeInv, NEW r \in Runs, Step(r)
  PROVE  \/ pending' = pending /\ file' = file
         \/ /\ pc[r] = "store" /\ pc'[r] = "write" /\ file' = file
            /\ input[r].args.store /\ ~Seen(r)
            /\ pending' = [pending EXCEPT ![r] = <<input[r].nullifier, Newline>>]
         \/ /\ pc[r] = "write" /\ pc'[r] = "write" /\ pending[r] # <<>>
            /\ file' = AppendPiece(file, Head(pending[r]))
            /\ pending' = [pending EXCEPT ![r] = Tail(@)]
BY DEF Step, Start, BadInput, Metadata, BadManifest, Transport,
       BadTransportKey, ReplayCheck, WritePiece, Recorded, StoreError, Attest, BadConfig,
       Integrity, Require, QueryMatch, PrintReport, Crash, Error, Goto, ShapeInv

LEMMA CauseStep ==
  ASSUME ShapeInv, ShapeInv', CauseInv, NEW r \in Runs, Step(r)
  PROVE  CauseInv'
<1>1. Brought \subseteq Brought'
  BY CameStays DEF Brought
<1>2. file \in Files(Brought')
  BY <1>1, MoreWords DEF CauseInv
<1>3. file' \in Files(Brought')
  <2>1. CASE file' = file
    BY <1>2, <2>1
  <2>2. CASE pending[r] # <<>> /\ file' = AppendPiece(file, Head(pending[r]))
    <3>1. Came(r, input[r].nullifier) /\ Head(pending[r]) \in {Newline, input[r].nullifier}
      BY <2>2 DEF CauseInv
    <3>2. input[r].nullifier \in Brought
      BY <3>1 DEF Brought, Came, ShapeInv, Input
    <3>3. Head(pending[r]) \in Brought' \cup {Space, Newline}
      BY <1>1, <3>1, <3>2
    <3> QED BY <1>2, <2>2, <3>3, AppendKeepsFiles
  <2> QED BY <2>1, <2>2, PendingOnlyIn
<1>4. ASSUME NEW s \in Runs
      PROVE  /\ pending'[s] # <<>> => Came(s, input[s].nullifier)'
             /\ pending'[s] \in {<<>>, <<Newline>>, <<input'[s].nullifier, Newline>>}
  <2>1. CASE pending'[s] = pending[s]
    <3>1. pending[s] # <<>> => input'[s] = input[s]
      BY Own, Others DEF CauseInv, Came, PastStore
    <3>2. pending[s] # <<>> => Came(s, input[s].nullifier)'
      BY <3>1, PastStays DEF CauseInv, Came
    <3>3. CASE pending[s] # <<>>
      BY <2>1, <3>1, <3>2, <3>3 DEF CauseInv
    <3>4. CASE pending[s] = <<>>
      BY <2>1, <3>4
    <3> QED BY <3>3, <3>4
  <2>2. CASE s = r /\ pc[r] = "store" /\ pc'[r] = "write" /\ input[r].args.store
             /\ pending'[r] = <<input[r].nullifier, Newline>>
    <3>1. input'[r] = input[r] /\ input[r] \in Input
      BY <2>2, Own DEF ShapeInv
    <3> QED BY <2>2, <3>1, LocalRunAssumption DEF Came, PastStore, Input
  <2>3. CASE s = r /\ pc[r] = "write" /\ pending[r] # <<>> /\ pending'[r] = Tail(pending[r])
    <3>1. input'[r] = input[r]
      BY <2>3, Own
    <3>2. Came(r, input[r].nullifier)'
      BY <2>3, <3>1, PastStays DEF CauseInv, Came
    <3>3. pending[r] \in {<<Newline>>, <<input[r].nullifier, Newline>>}
      BY <2>3 DEF CauseInv
    <3>4. Tail(<<Newline>>) = <<>> /\ Tail(<<input[r].nullifier, Newline>>) = <<Newline>>
      OBVIOUS
    <3> QED BY <2>3, <3>1, <3>2, <3>3, <3>4
  <2> QED BY <2>1, <2>2, <2>3, PendingOnlyIn DEF ShapeInv
<1>5. ASSUME NEW s \in Runs, Check("replay", "fail") \in checks'[s]
      PROVE  \E t \in Runs \ {s} : Came(t, input[s].nullifier)'
  <2>1. CASE Check("replay", "fail") \in checks[s]
    <3>1. PICK t \in Runs \ {s} : Came(t, input[s].nullifier)
      BY <2>1 DEF CauseInv
    <3>2. pc[s] # "ready"
      BY <2>1 DEF ShapeInv
    <3>3. input'[s] = input[s]
      BY <3>2, Own, Others
    <3> QED BY <3>1, <3>3, CameStays
  <2>2. CASE Check("replay", "fail") \notin checks[s]
    <3>1. s = r
      BY <1>5, <2>2, Others
    <3>2. pc[r] = "store" /\ Seen(r) /\ input'[r] = input[r]
      BY <1>5, <2>2, <3>1, FailOnlyIn, Own
    <3>3. input[r].nullifier \in Brought
      BY <3>2, SeenWasBrought DEF CauseInv
    <3>4. PICK t \in Runs : Came(t, input[r].nullifier)
      BY <3>3 DEF Brought
    <3>5. t # r
      BY <3>2, <3>4 DEF Came, PastStore
    <3> QED BY <3>1, <3>2, <3>4, <3>5, CameStays
  <2> QED BY <2>1, <2>2
<1> QED BY <1>3, <1>4, <1>5 DEF CauseInv

\* A nullifier is called a replay only when another run with the same one got as
\* far as the store: torn and merged lines accuse nobody (replay_check).
THEOREM ReplayHasACauseTheorem == Spec => []ReplayHasACause
<1>1. Init => CauseInv
  <2> SUFFICES ASSUME Init PROVE CauseInv
    OBVIOUS
  <2>1. EmptyFile \in Files(Brought)
    BY DEF EmptyFile, Files, Lines
  <2> QED BY <2>1 DEF Init, CauseInv
<1>2. ShapeInv /\ ShapeInv' /\ CauseInv /\ [Next]_vars => CauseInv'
  <2>1. ASSUME CauseInv, UNCHANGED vars PROVE CauseInv'
    BY <2>1 DEF CauseInv, vars, Brought, Came, PastStore
  <2> QED BY <2>1, CauseStep DEF Next, Step
<1>3. CauseInv => ReplayHasACause
  BY DEF CauseInv, ReplayHasACause, Came, PastStore
<1> QED BY <1>1, <1>2, <1>3, ShapeInvariant, PTL DEF Spec

---------------------------------------------------------------------------
(* Undisturbed runs *)

Undisturbed == \A r \in Runs : ~Disturbed(r)

Passed(r)  == Check("replay", "pass") \in checks[r]
Writing(r) == pc[r] = "write"
Half(r)    == pending[r] = <<Newline>>     \* the word is written, its newline is not

\* Line l is finished and holds the nullifier of run r.
Holds(l, r) == l \in 1 .. Len(file) - 1 /\ file[l] = << <<input[r].nullifier>> >>

\* What the log says is what its runs ended with, each of them once.
LogInv ==
  /\ log \in Seq({log[i] : i \in DOMAIN log})
  /\ \A i \in DOMAIN log :
       /\ log[i].run \in Runs /\ pc[log[i].run] = "done" /\ input[log[i].run] # None
       /\ log[i].nullifier = input[log[i].run].nullifier
       /\ log[i].checks = checks[log[i].run]
  /\ \A i, j \in DOMAIN log : log[i].run = log[j].run => i = j

PendingInv == \A r \in Runs : pending[r] # <<>> => pc[r] \in {"write", "done"}

\* Without disturbance one run is at work at a time, the last line is empty or the
\* writer's word, every run that passed has its line, and the run at work passes
\* with the nullifier of another one that did only when it could not read.
CaughtInv == Undisturbed =>
  /\ \A r, s \in Runs : Running(r) /\ Running(s) => r = s
  /\ \A r \in Runs : Half(r) => file[Len(file)] = << <<input[r].nullifier>> >>
  /\ (\A r \in Runs : ~Half(r)) => file[Len(file)] = << <<>> >>
  /\ \A r \in Runs : Passed(r) \/ (Writing(r) /\ pending[r] = <<>>) => \E l \in 1 .. Len(file) : Holds(l, r)
  /\ \A r, s \in Runs : /\ Passed(r) \/ Writing(r)
                        /\ Running(r)
                        /\ Passed(s)
                        /\ input[r].nullifier = input[s].nullifier
                        => r = s \/ ~input[r].reads

\* Among the reports, in their order.
OrderInv == Undisturbed => \A i, j \in DOMAIN log :
  /\ i < j
  /\ log[i].nullifier = log[j].nullifier
  /\ Check("replay", "pass") \in log[i].checks \cap log[j].checks
  => ~input[log[j].run].reads

\* What was disturbed stays disturbed.
LEMMA UndisturbedBefore ==
  ASSUME ShapeInv, NEW r \in Runs, Step(r), Undisturbed'
  PROVE  Undisturbed
<1> SUFFICES ASSUME NEW s \in Runs, Disturbed(s) PROVE FALSE
  BY DEF Undisturbed
<1>1. Disturbed(s)'
  <2>1. CASE s # r
    BY <2>1, Others DEF Disturbed
  <2>2. CASE s = r
    <3>1. pc[r] # "ready" /\ pc[r] # "done"
      BY <2>2, Own DEF Disturbed, ShapeInv
    <3> QED BY <2>2, <3>1, Own DEF Disturbed
  <2> QED BY <2>1, <2>2
<1> QED BY <1>1 DEF Undisturbed

\* Under no disturbance a run that starts is the only one, and so is the one at
\* work.
LEMMA OneAtWork ==
  ASSUME ShapeInv, NEW r \in Runs, Step(r), Undisturbed',
         \A s, t \in Runs : Running(s) /\ Running(t) => s = t,
         NEW s \in Runs, s # r
  PROVE  (Running(r) \/ Running(r)') => ~Running(s) /\ ~Running(s)'
<1>1. Running(s)' <=> Running(s)
  BY Others DEF Running
<1>2. CASE pc[r] = "ready"
  <2>1. Running(r)' => Start(r)
    BY <1>2, Own DEF Running, Step, BadInput, Metadata, BadManifest, Transport,
         BadTransportKey, ReplayCheck, WritePiece, Recorded, StoreError, Attest, BadConfig,
         Integrity, Require, QueryMatch, PrintReport, Crash, Error, Finish, ShapeInv
  <2>2. ASSUME Start(r) PROVE ~Running(s)
    <3>1. input'[r].alone = (\A t \in Runs : ~Running(t)) /\ input'[r] \in Input
      BY <1>2, <2>2, Own DEF Start, ShapeInv, Goto, Input
    <3>2. input'[r].alone
      BY <3>1, LocalRunAssumption DEF Undisturbed, Disturbed, Input
    <3> QED BY <3>1, <3>2
  <2>3. ~Running(r)
    BY <1>2 DEF Running
  <2> QED BY <1>1, <2>1, <2>2, <2>3
<1>3. CASE pc[r] # "ready"
  <2>1. Running(r)
    BY <1>3, Own DEF Running
  <2> QED BY <1>1, <2>1
<1> QED BY <1>2, <1>3

\* Only a run whose line is written says that its nullifier was not seen before.
LEMMA PassOnlyIn ==
  ASSUME ShapeInv, NEW r \in Runs, Step(r), Check("replay", "pass") \in checks'[r],
         Check("replay", "pass") \notin checks[r]
  PROVE  pc[r] = "write" /\ pending[r] = <<>> /\ pending' = pending /\ file' = file
         /\ pc'[r] = "attest"
<1>1. CASE Start(r)
  <2>1. PICK core \in Cores :
          checks'[r] = checks[r] \cup (core \cup IF AttestationBuild THEN {}
                           ELSE {Check("attestation-root", "notchecked"),
                                 Check("device-attestation-sig", "notchecked")})
    BY <1>1 DEF Start, Add, ShapeInv
  <2>2. \A c \in core : c.name # "replay"
    BY LocalRunAssumption
  <2> QED BY <2>1, <2>2 DEF Check
<1>2. CASE Recorded(r)
  BY <1>2 DEF Recorded, Goto, ShapeInv
<1>3. CASE ReplayCheck(r) \/ Metadata(r) \/ Transport(r) \/ Integrity(r) \/ QueryMatch(r)
  BY <1>3 DEF ReplayCheck, Metadata, Transport, Integrity, QueryMatch, Add, ShapeInv, Check
<1>4. CASE Attest(r) \/ Require(r)
  BY <1>4 DEF Attest, Require, RequireAttestationCheck, Add, ShapeInv, Check
<1>5. CASE BadInput(r) \/ BadManifest(r) \/ BadTransportKey(r) \/ WritePiece(r) \/ StoreError(r)
           \/ BadConfig(r) \/ PrintReport(r) \/ Crash(r)
  BY <1>5 DEF BadInput, BadManifest, BadTransportKey, WritePiece, StoreError, BadConfig,
              PrintReport, Crash, Error
<1> QED BY <1>1, <1>2, <1>3, <1>4, <1>5 DEF Step

LEMMA WritingOnlyIn ==
  ASSUME ShapeInv, NEW r \in Runs, Step(r), pc'[r] = "write"
  PROVE  ReplayCheck(r) \/ WritePiece(r)
BY DEF Step, Start, BadInput, Metadata, BadManifest, Transport, BadTransportKey, Recorded,
       StoreError, Attest, BadConfig, Integrity, Require, QueryMatch, PrintReport, Crash, Error,
       Finish, Goto, ShapeInv

LEMMA AppendNewline ==
  ASSUME NEW W, NEW f \in Files(W)
  PROVE  LET g == AppendPiece(f, Newline) IN
           /\ Len(f) \in Nat /\ Len(f) > 0
           /\ Len(g) = Len(f) + 1
           /\ \A l \in 1 .. Len(f) : g[l] = f[l]
           /\ g[Len(g)] = << <<>> >>
<1>1. << <<>> >> \in Lines(W) /\ f \in Seq(Lines(W)) /\ Len(f) > 0
  BY DEF Lines, Files
<1>2. AppendPiece(f, Newline) = Append(f, << <<>> >>)
  BY DEF AppendPiece, Newline, Space
<1> QED BY <1>1, <1>2, AppendProperties, LenProperties

LEMMA AppendWord ==
  ASSUME NEW W, NEW f \in Files(W), NEW word, word \notin {Space, Newline},
         f[Len(f)] = << <<>> >>
  PROVE  LET g == AppendPiece(f, word) IN
           /\ Len(f) \in Nat /\ Len(f) > 0
           /\ Len(g) = Len(f)
           /\ \A l \in 1 .. Len(f) - 1 : g[l] = f[l]
           /\ g[Len(g)] = << <<word>> >>
<1>1. f \in Seq(Lines(W)) /\ Len(f) \in Nat /\ Len(f) > 0 /\ DOMAIN f = 1 .. Len(f)
  BY LenProperties DEF Files
<1>2. AppendPiece(f, word) = [f EXCEPT ![Len(f)] = [<< <<>> >> EXCEPT ![1] = Append(<<>>, word)]]
  BY DEF AppendPiece, Newline, Space
<1>3. [<< <<>> >> EXCEPT ![1] = Append(<<>>, word)] = << <<word>> >>
  OBVIOUS
<1>4. AppendPiece(f, word) = [f EXCEPT ![Len(f)] = << <<word>> >>]
  BY <1>2, <1>3
<1> DEFINE line == << <<word>> >>
<1> HIDE DEF line
<1>5. AppendPiece(f, word) = [f EXCEPT ![Len(f)] = line]
  BY <1>4 DEF line
<1>6. line \in Lines(W \cup {word}) /\ f \in Seq(Lines(W \cup {word}))
  BY MoreWords DEF Lines, Files, line
<1>7. /\ Len([f EXCEPT ![Len(f)] = line]) = Len(f)
      /\ \A l \in 1 .. Len(f) :
           [f EXCEPT ![Len(f)] = line][l] = IF l = Len(f) THEN line ELSE f[l]
  <2>1. Len(f) \in 1 .. Len(f)
    BY <1>1
  <2> QED BY <1>6, <2>1, ExceptSeq
<1> DEFINE g == [f EXCEPT ![Len(f)] = line]
<1>8. /\ Len(g) = Len(f)
      /\ \A l \in 1 .. Len(f) : g[l] = IF l = Len(f) THEN line ELSE f[l]
  BY <1>7
<1>9. AppendPiece(f, word) = g
  BY <1>5
<1> HIDE DEF g
<1>10. (\A l \in 1 .. Len(f) - 1 : g[l] = f[l]) /\ g[Len(g)] = line
  <2>1. Len(f) \in Nat /\ Len(f) > 0
    BY <1>1
  <2>2. \A l \in 1 .. Len(f) - 1 : l \in 1 .. Len(f) /\ l # Len(f)
    BY <2>1
  <2>3. Len(f) \in 1 .. Len(f)
    BY <2>1
  <2> QED BY <1>8, <2>2, <2>3
<1> QED BY <1>1, <1>8, <1>9, <1>10 DEF line

LEMMA PendingStep ==
  ASSUME ShapeInv, PendingInv, NEW r \in Runs, Step(r)
  PROVE  PendingInv'
<1>1. ASSUME NEW s \in Runs, s # r PROVE pending'[s] # <<>> => pc'[s] \in {"write", "done"}
  BY <1>1, Others DEF PendingInv
<1>2. ASSUME pending'[r] # <<>> PROVE pc'[r] \in {"write", "done"}
  <2>1. CASE pending' = pending
    <3>1. pc[r] = "write"
      BY <1>2, <2>1, Own DEF PendingInv
    <3> QED BY <1>2, <2>1, <3>1 DEF Step, Start, BadInput, Metadata, BadManifest, Transport,
         BadTransportKey, ReplayCheck, WritePiece, Recorded, StoreError, Attest, BadConfig,
         Integrity, Require, QueryMatch, PrintReport, Crash, Error, Finish, Goto, ShapeInv
  <2> QED BY <2>1, PendingOnlyIn
<1> QED BY <1>1, <1>2 DEF PendingInv

\* Under no disturbance only the run at work can be inside its line.
LEMMA HalfIsAtWork ==
  ASSUME CauseInv, PendingInv, Undisturbed, NEW s \in Runs, Half(s)
  PROVE  Writing(s) /\ Running(s)
<1>1. pending[s] # <<>> /\ Len(pending[s]) = 1
  BY DEF Half
<1>2. input[s] # None => pc[s] # "done"
  BY <1>1 DEF Undisturbed, Disturbed
<1>3. input[s] # None
  BY <1>1 DEF CauseInv, Came
<1> QED BY <1>1, <1>2, <1>3 DEF PendingInv, Writing, Running

\* What a step keeps of the runs that passed, are writing or are inside their line.
LEMMA InputStays ==
  ASSUME ShapeInv, PendingInv, NEW r \in Runs, Step(r), NEW s \in Runs,
         Passed(s) \/ Writing(s) \/ Half(s)
  PROVE  input'[s] = input[s] /\ (Passed(s) => Passed(s)')
<1>1. pc[s] # "ready"
  BY DEF Passed, Writing, Half, ShapeInv, PendingInv
<1>2. CASE s = r
  BY <1>1, <1>2, Own DEF Passed
<1>3. CASE s # r
  BY <1>3, Others DEF Passed
<1> QED BY <1>2, <1>3

LEMMA HoldsStays ==
  ASSUME NEW r \in Runs, NEW l, Holds(l, r), input'[r] = input[r],
         Len(file) \in Nat, Len(file') \in Nat, Len(file') >= Len(file),
         \A k \in 1 .. Len(file) - 1 : file'[k] = file[k]
  PROVE  l \in 1 .. Len(file') /\ Holds(l, r)'
BY DEF Holds

\* The cases of a step that keeps the file and the lines to write.
LEMMA CaughtStill ==
  ASSUME ShapeInv, ShapeInv', CauseInv, PendingInv, CaughtInv, NEW r \in Runs, Step(r),
         Undisturbed, pending' = pending, file' = file
  PROVE  /\ \A s \in Runs : Half(s)' => file'[Len(file')] = << <<input'[s].nullifier>> >>
         /\ (\A s \in Runs : ~Half(s)') => file'[Len(file')] = << <<>> >>
         /\ \A s \in Runs : Passed(s)' \/ (Writing(s)' /\ pending'[s] = <<>>) =>
              \E l \in 1 .. Len(file') : Holds(l, s)'
         /\ \A s \in Runs : Passed(s)' /\ ~Passed(s) => s = r /\ Writing(r) /\ Running(r)
         /\ \A s \in Runs : Writing(s)' => Writing(s)
<1>1. \A s \in Runs : Half(s)' <=> Half(s)
  BY DEF Half
<1>2. \A s \in Runs : Half(s) => input'[s] = input[s]
  BY InputStays
<1>3. \A s \in Runs : Passed(s)' /\ ~Passed(s) => s = r /\ Writing(r) /\ Running(r) /\ pending[s] = <<>>
  BY Others, PassOnlyIn DEF Passed, Writing, Running
<1>4. \A s \in Runs : Writing(s)' => Writing(s)
  <2> SUFFICES ASSUME Writing(r)' PROVE Writing(r)
    BY Others DEF Writing
  <2>1. ~ReplayCheck(r)
    <3> SUFFICES ASSUME ReplayCheck(r) PROVE FALSE
      OBVIOUS
    <3>1. pc[r] = "store" /\ pending'[r] = <<input[r].nullifier, Newline>>
      BY DEF ReplayCheck, Goto, Writing, ShapeInv
    <3>2. pending[r] # <<>>
      BY <3>1
    <3> QED BY <3>1, <3>2 DEF PendingInv
  <2>2. WritePiece(r)
    BY <2>1, WritingOnlyIn DEF Writing
  <2> QED BY <2>2 DEF WritePiece, Writing
<1>5. ASSUME NEW s \in Runs, Passed(s)' \/ (Writing(s)' /\ pending'[s] = <<>>)
      PROVE  \E l \in 1 .. Len(file') : Holds(l, s)'
  <2>1. Passed(s) \/ (Writing(s) /\ pending[s] = <<>>)
    BY <1>3, <1>4, <1>5
  <2>2. PICK l \in 1 .. Len(file) : Holds(l, s)
    BY <2>1 DEF CaughtInv
  <2>3. input'[s] = input[s]
    BY <2>1, InputStays
  <2> QED BY <2>2, <2>3 DEF Holds
<1>6. \A s \in Runs : Half(s)' => file'[Len(file')] = << <<input'[s].nullifier>> >>
  BY <1>1, <1>2 DEF CaughtInv
<1>7. (\A s \in Runs : ~Half(s)') => file'[Len(file')] = << <<>> >>
  BY <1>1 DEF CaughtInv
<1> QED BY <1>3, <1>4, <1>5, <1>6, <1>7

\* A run that starts to write did not find its nullifier, so no run passed with it,
\* or the run could not read.
LEMMA CaughtMint ==
  ASSUME ShapeInv, ShapeInv', CauseInv, PendingInv, CaughtInv, NEW r \in Runs, Step(r),
         Undisturbed, pc[r] = "store", pc'[r] = "write", file' = file,
         ~Seen(r),
         pending' = [pending EXCEPT ![r] = <<input[r].nullifier, Newline>>]
  PROVE  /\ \A s \in Runs : Half(s)' => file'[Len(file')] = << <<input'[s].nullifier>> >>
         /\ (\A s \in Runs : ~Half(s)') => file'[Len(file')] = << <<>> >>
         /\ \A s \in Runs : Passed(s)' \/ (Writing(s)' /\ pending'[s] = <<>>) =>
              \E l \in 1 .. Len(file') : Holds(l, s)'
         /\ \A s \in Runs : Passed(s)' => Passed(s)
         /\ \A s \in Runs : Writing(s)' /\ ~Writing(s) => s = r
         /\ \A s \in Runs : Passed(s) /\ input[r].reads => input[s].nullifier # input[r].nullifier
<1>1. pending'[r] = <<input[r].nullifier, Newline>>
      /\ \A s \in Runs : s # r => pending'[s] = pending[s]
  BY DEF ShapeInv
<1>2. \A s \in Runs : Half(s)' <=> Half(s)
  <2>1. ~Half(r)'
    BY <1>1 DEF Half
  <2>2. ~Half(r)
    <3>1. pending[r] = <<>>
      BY DEF PendingInv
    <3> QED BY <3>1 DEF Half
  <2> QED BY <1>1, <2>1, <2>2 DEF Half
<1>3. \A s \in Runs : Half(s) => input'[s] = input[s]
  BY InputStays
<1>4. \A s \in Runs : Passed(s)' => Passed(s)
  BY Others, PassOnlyIn DEF Passed
<1>5. \A s \in Runs : Writing(s)' /\ ~Writing(s) => s = r
  BY Others DEF Writing
<1>6. ASSUME NEW s \in Runs, Passed(s)' \/ (Writing(s)' /\ pending'[s] = <<>>)
      PROVE  \E l \in 1 .. Len(file') : Holds(l, s)'
  <2>1. Passed(s) \/ (Writing(s) /\ pending[s] = <<>>)
    <3>1. pending'[r] # <<>>
      BY <1>1
    <3> QED BY <1>1, <1>4, <1>5, <1>6, <3>1
  <2>2. PICK l \in 1 .. Len(file) : Holds(l, s)
    BY <2>1 DEF CaughtInv
  <2>3. input'[s] = input[s]
    BY <2>1, InputStays
  <2> QED BY <2>2, <2>3 DEF Holds
<1>7. ASSUME NEW s \in Runs, Passed(s), input[r].reads,
             input[s].nullifier = input[r].nullifier
      PROVE  FALSE
  <2>1. PICK l \in 1 .. Len(file) : Holds(l, s)
    BY <1>7 DEF CaughtInv
  <2>2. l \in DOMAIN file /\ file[l] = << <<input[r].nullifier>> >>
    BY <1>7, <2>1, LenProperties DEF Holds, CauseInv, Files
  <2>3. IsLone(file[l], <<input[r].nullifier>>)
    BY <2>2 DEF IsLone
  <2> QED BY <1>7, <2>2, <2>3 DEF Seen
<1>8. \A s \in Runs : Half(s)' => file'[Len(file')] = << <<input'[s].nullifier>> >>
  BY <1>2, <1>3 DEF CaughtInv
<1>9. (\A s \in Runs : ~Half(s)') => file'[Len(file')] = << <<>> >>
  BY <1>2 DEF CaughtInv
<1> QED BY <1>4, <1>5, <1>6, <1>7, <1>8, <1>9

\* A piece that is written keeps the finished lines, and the newline finishes one
\* with the writer's nullifier alone.
LEMMA CaughtWrite ==
  ASSUME ShapeInv, ShapeInv', CauseInv, PendingInv, CaughtInv, NEW r \in Runs, Step(r),
         Undisturbed, pc[r] = "write", pc'[r] = "write", pending[r] # <<>>,
         file' = AppendPiece(file, Head(pending[r])),
         pending' = [pending EXCEPT ![r] = Tail(@)]
  PROVE  /\ \A s \in Runs : Half(s)' => file'[Len(file')] = << <<input'[s].nullifier>> >>
         /\ (\A s \in Runs : ~Half(s)') => file'[Len(file')] = << <<>> >>
         /\ \A s \in Runs : Passed(s)' \/ (Writing(s)' /\ pending'[s] = <<>>) =>
              \E l \in 1 .. Len(file') : Holds(l, s)'
         /\ \A s \in Runs : Passed(s)' => Passed(s)
         /\ \A s \in Runs : Writing(s)' => Writing(s)
<1> DEFINE n == input[r].nullifier
<1>1. input'[r] = input[r] /\ Writing(r) /\ Running(r)
  BY Own DEF Writing, Running
<1>2. pending'[r] = Tail(pending[r]) /\ \A s \in Runs : s # r => pending'[s] = pending[s]
  BY DEF ShapeInv
<1>3. \A s \in Runs : Passed(s)' => Passed(s)
  BY Others, PassOnlyIn DEF Passed
<1>4. \A s \in Runs : Writing(s)' => Writing(s)
  BY <1>1, Others DEF Writing
<1>5. \A s \in Runs : s # r => ~Half(s) /\ ~Half(s)'
  BY <1>1, <1>2, HalfIsAtWork DEF CaughtInv, Half
<1>6. file \in Files(Brought)
  BY DEF CauseInv
<1>7. n \notin {Space, Newline}
  BY LocalRunAssumption DEF ShapeInv, Input
<1>8. CASE pending[r] = <<n, Newline>>
  <2>1. Head(pending[r]) = n /\ pending'[r] = <<Newline>> /\ ~Half(r) /\ Half(r)'
    BY <1>2, <1>8 DEF Half
  <2>2. file[Len(file)] = << <<>> >>
    BY <1>5, <2>1 DEF CaughtInv
  <2>3. /\ Len(file) \in Nat /\ Len(file') = Len(file) /\ file'[Len(file')] = << <<n>> >>
        /\ \A l \in 1 .. Len(file) - 1 : file'[l] = file[l]
    BY <1>6, <1>7, <2>1, <2>2, AppendWord
  <2>4. ASSUME NEW s \in Runs, Passed(s)' \/ (Writing(s)' /\ pending'[s] = <<>>)
        PROVE  \E l \in 1 .. Len(file') : Holds(l, s)'
    <3>1. pending'[r] # <<>>
      BY <2>1
    <3>2. Passed(s) \/ (Writing(s) /\ pending[s] = <<>>)
      BY <1>2, <1>3, <1>4, <2>4, <3>1
    <3>3. PICK l \in 1 .. Len(file) : Holds(l, s)
      BY <3>2 DEF CaughtInv
    <3>4. input'[s] = input[s]
      BY <3>2, InputStays
    <3> QED BY <2>3, <3>3, <3>4, HoldsStays
  <2>5. \A s \in Runs : Half(s)' => file'[Len(file')] = << <<input'[s].nullifier>> >>
    BY <1>1, <1>5, <2>3
  <2> QED BY <1>3, <1>4, <2>1, <2>4, <2>5
<1>9. CASE pending[r] = <<Newline>>
  <2>1. Head(pending[r]) = Newline /\ pending'[r] = <<>> /\ Half(r) /\ ~Half(r)'
    BY <1>2, <1>9 DEF Half
  <2>2. file[Len(file)] = << <<n>> >>
    BY <2>1 DEF CaughtInv
  <2>3. /\ Len(file) \in Nat /\ Len(file) > 0 /\ Len(file') = Len(file) + 1
        /\ file'[Len(file')] = << <<>> >>
        /\ \A l \in 1 .. Len(file) : file'[l] = file[l]
    BY <1>6, <2>1, AppendNewline
  <2>4. ASSUME NEW s \in Runs, Passed(s)' \/ (Writing(s)' /\ pending'[s] = <<>>)
        PROVE  \E l \in 1 .. Len(file') : Holds(l, s)'
    <3>1. CASE s = r
      <4>1. file'[Len(file)] = << <<input'[r].nullifier>> >>
        BY <1>1, <2>2, <2>3
      <4>2. Len(file) \in 1 .. Len(file') /\ Len(file) \in 1 .. Len(file') - 1
        BY <2>3
      <4> QED BY <3>1, <4>1, <4>2 DEF Holds
    <3>2. CASE s # r
      <4>1. Passed(s) \/ (Writing(s) /\ pending[s] = <<>>)
        BY <1>2, <1>3, <1>4, <2>4, <3>2
      <4>2. PICK l \in 1 .. Len(file) : Holds(l, s)
        BY <4>1 DEF CaughtInv
      <4>3. input'[s] = input[s]
        BY <4>1, InputStays
      <4> QED BY <2>3, <4>2, <4>3, HoldsStays
    <3> QED BY <3>1, <3>2
  <2>5. \A s \in Runs : ~Half(s)'
    BY <1>5, <2>1
  <2> QED BY <1>3, <1>4, <2>3, <2>4, <2>5
<1> QED BY <1>8, <1>9 DEF CauseInv

LEMMA CaughtStep ==
  ASSUME ShapeInv, ShapeInv', CauseInv, PendingInv, CaughtInv, NEW r \in Runs, Step(r)
  PROVE  CaughtInv'
<1> SUFFICES ASSUME Undisturbed'
             PROVE  /\ \A s, t \in Runs : Running(s)' /\ Running(t)' => s = t
                    /\ \A s \in Runs : Half(s)' => file'[Len(file')] = << <<input'[s].nullifier>> >>
                    /\ (\A s \in Runs : ~Half(s)') => file'[Len(file')] = << <<>> >>
                    /\ \A s \in Runs : Passed(s)' \/ (Writing(s)' /\ pending'[s] = <<>>) =>
                         \E l \in 1 .. Len(file') : Holds(l, s)'
                    /\ \A s, t \in Runs : /\ Passed(s)' \/ Writing(s)'
                                          /\ Running(s)'
                                          /\ Passed(t)'
                                          /\ input'[s].nullifier = input'[t].nullifier
                                          => s = t \/ ~input'[s].reads
  BY DEF CaughtInv
<1>1. Undisturbed
  BY UndisturbedBefore
<1>2. \A s, t \in Runs : Running(s) /\ Running(t) => s = t
  BY <1>1 DEF CaughtInv
<1>3. \A s, t \in Runs : Running(s)' /\ Running(t)' => s = t
  <2>1. \A s \in Runs : s # r => (Running(s)' <=> Running(s))
    BY Others DEF Running
  <2>2. \A s \in Runs : s # r /\ Running(r)' => ~Running(s)'
    BY <1>2, OneAtWork
  <2> QED BY <1>2, <2>1, <2>2
<1>4. ASSUME NEW s \in Runs, NEW t \in Runs, Passed(s) \/ Writing(s), Running(s)', Passed(t),
             input'[s].nullifier = input'[t].nullifier
      PROVE  s = t \/ ~input'[s].reads
  <2>1. input'[s] = input[s] /\ input'[t] = input[t]
    BY <1>4, InputStays
  <2>2. input[s].nullifier = input[t].nullifier
    BY <1>4, <2>1
  <2>3. Running(s)
    <3>1. pc[s] # "ready"
      BY <1>4 DEF Passed, Writing, ShapeInv
    <3>2. CASE s = r
      BY <3>1, <3>2, Own DEF Running
    <3>3. CASE s # r
      BY <1>4, <3>3, Others DEF Running
    <3> QED BY <3>2, <3>3
  <2> QED BY <1>1, <1>4, <2>1, <2>2, <2>3 DEF CaughtInv
<1>5. CASE pending' = pending /\ file' = file
  <2>1. \A s \in Runs : Passed(s)' /\ ~Passed(s) => s = r /\ Writing(r) /\ Running(r)
    BY <1>1, <1>5, CaughtStill
  <2>2. \A s \in Runs : Writing(s)' => Writing(s)
    BY <1>1, <1>5, CaughtStill
  <2>3. ASSUME NEW s \in Runs, NEW t \in Runs, Passed(s)' \/ Writing(s)', Running(s)', Passed(t)',
               input'[s].nullifier = input'[t].nullifier
        PROVE  s = t \/ ~input'[s].reads
    <3>1. Passed(s) \/ Writing(s)
      BY <2>1, <2>2, <2>3
    <3>2. CASE Passed(t)
      BY <1>4, <2>3, <3>1, <3>2
    <3>3. CASE ~Passed(t)
      <4>1. t = r /\ Running(r)
        BY <2>1, <2>3, <3>3
      <4>2. s # r => ~Running(s)'
        BY <1>2, <4>1, OneAtWork
      <4> QED BY <2>3, <4>1, <4>2
    <3> QED BY <3>2, <3>3
  <2> QED BY <1>1, <1>3, <1>5, <2>3, CaughtStill
<1>6. CASE /\ pc[r] = "store" /\ pc'[r] = "write" /\ file' = file
           /\ ~Seen(r)
           /\ pending' = [pending EXCEPT ![r] = <<input[r].nullifier, Newline>>]
  <2>1. \A s \in Runs : Passed(s)' => Passed(s)
    BY <1>1, <1>6, CaughtMint
  <2>2. \A s \in Runs : Writing(s)' /\ ~Writing(s) => s = r
    BY <1>1, <1>6, CaughtMint
  <2>3. \A s \in Runs : Passed(s) /\ input[r].reads => input[s].nullifier # input[r].nullifier
    BY <1>1, <1>6, CaughtMint
  <2>4. ASSUME NEW s \in Runs, NEW t \in Runs, Passed(s)' \/ Writing(s)', Running(s)', Passed(t)',
               input'[s].nullifier = input'[t].nullifier
        PROVE  s = t \/ ~input'[s].reads
    <3>1. CASE Passed(s) \/ Writing(s)
      BY <1>4, <2>1, <2>4, <3>1
    <3>2. CASE ~Passed(s) /\ ~Writing(s)
      <4>1. s = r /\ Passed(t)
        BY <2>1, <2>2, <2>4, <3>2
      <4>2. input'[r] = input[r] /\ input'[t] = input[t]
        BY <1>6, <4>1, Own, InputStays
      <4> QED BY <2>3, <2>4, <4>1, <4>2
    <3> QED BY <3>1, <3>2
  <2> QED BY <1>1, <1>3, <1>6, <2>4, CaughtMint
<1>7. CASE /\ pc[r] = "write" /\ pc'[r] = "write" /\ pending[r] # <<>>
           /\ file' = AppendPiece(file, Head(pending[r]))
           /\ pending' = [pending EXCEPT ![r] = Tail(@)]
  <2>1. \A s \in Runs : Passed(s)' => Passed(s)
    BY <1>1, <1>7, CaughtWrite
  <2>2. \A s \in Runs : Writing(s)' => Writing(s)
    BY <1>1, <1>7, CaughtWrite
  <2>3. ASSUME NEW s \in Runs, NEW t \in Runs, Passed(s)' \/ Writing(s)', Running(s)', Passed(t)',
               input'[s].nullifier = input'[t].nullifier
        PROVE  s = t \/ ~input'[s].reads
    BY <1>4, <2>1, <2>2, <2>3
  <2> QED BY <1>1, <1>3, <1>7, <2>3, CaughtWrite
<1> QED BY <1>5, <1>6, <1>7, PendingOnlyIn

\* The log grows only by the report of a run that ends with it.
LEMMA LogStep ==
  ASSUME ShapeInv, LogInv, NEW r \in Runs, Step(r)
  PROVE  LogInv'
<1>1. ASSUME NEW s \in Runs, pc[s] = "done"
      PROVE  pc'[s] = "done" /\ input'[s] = input[s] /\ checks'[s] = checks[s] /\ s # r
  BY <1>1, Own, Others
<1>2. CASE log' = log
  <2>1. log' \in Seq({log'[i] : i \in DOMAIN log'})
    BY <1>2 DEF LogInv
  <2> QED BY <1>1, <1>2, <2>1 DEF LogInv
<1>3. CASE PrintReport(r)
  <2> DEFINE e == [run |-> r, nullifier |-> input[r].nullifier,
                   args |-> input[r].args, checks |-> checks[r]]
             S == {log[i] : i \in DOMAIN log}
  <2>1. /\ log' = Append(log, e) /\ pc'[r] = "done" /\ input'[r] = input[r]
        /\ checks'[r] = checks[r] /\ input[r] # None
    BY <1>3, LocalRunAssumption DEF PrintReport, Finish, ShapeInv, Input
  <2>2. /\ log \in Seq(S \cup {e}) /\ Len(log) \in Nat /\ DOMAIN log = 1 .. Len(log)
    BY SeqMonotonic, LenProperties DEF LogInv
  <2>3. /\ log' \in Seq(S \cup {e}) /\ DOMAIN log' = 1 .. Len(log) + 1
        /\ \A i \in 1 .. Len(log) : log'[i] = log[i]
        /\ log'[Len(log) + 1] = e
    BY <2>1, <2>2, AppendProperties, LenProperties
  <2>4. \A i \in DOMAIN log' : i \in DOMAIN log \/ i = Len(log) + 1
    BY <2>2, <2>3
  <2>5. log' \in Seq({log'[i] : i \in DOMAIN log'})
    <3>1. \A i \in 1 .. Len(log') : log'[i] \in {log'[j] : j \in DOMAIN log'}
      BY <2>3, LenProperties
    <3> QED BY <2>3, <3>1, IsASeq
  <2>6. e.run = r /\ e.nullifier = input[r].nullifier /\ e.checks = checks[r]
    OBVIOUS
  <2> HIDE DEF e, S
  <2>7. ASSUME NEW i \in DOMAIN log'
        PROVE  /\ log'[i].run \in Runs /\ pc'[log'[i].run] = "done" /\ input'[log'[i].run] # None
               /\ log'[i].nullifier = input'[log'[i].run].nullifier
               /\ log'[i].checks = checks'[log'[i].run]
    <3>1. CASE i \in DOMAIN log
      BY <1>1, <2>2, <2>3, <3>1 DEF LogInv
    <3>2. CASE i = Len(log) + 1
      BY <2>1, <2>3, <2>6, <3>2
    <3> QED BY <2>4, <3>1, <3>2
  <2>8. ASSUME NEW i \in DOMAIN log', NEW j \in DOMAIN log', log'[i].run = log'[j].run
        PROVE  i = j
    <3>1. \A k \in DOMAIN log : log'[k].run # r /\ log'[k] = log[k]
      BY <1>1, <2>2, <2>3 DEF LogInv
    <3>2. log'[Len(log) + 1].run = r
      BY <2>3, <2>6
    <3> QED BY <2>4, <2>8, <3>1, <3>2 DEF LogInv
  <2> QED BY <2>5, <2>7, <2>8 DEF LogInv
<1>4. log' = log \/ PrintReport(r)
  BY DEF Step, Start, BadInput, Metadata, BadManifest, Transport, BadTransportKey,
       ReplayCheck, WritePiece, Recorded, StoreError, Attest, BadConfig, Integrity, Require,
       QueryMatch, Crash, Error
<1> QED BY <1>2, <1>3, <1>4

LEMMA OrderStep ==
  ASSUME ShapeInv, ShapeInv', PendingInv, CaughtInv, LogInv, OrderInv, NEW r \in Runs, Step(r)
  PROVE  OrderInv'
<1> SUFFICES ASSUME Undisturbed', NEW i \in DOMAIN log', NEW j \in DOMAIN log', i < j,
                    log'[i].nullifier = log'[j].nullifier,
                    Check("replay", "pass") \in log'[i].checks \cap log'[j].checks
             PROVE  ~input'[log'[j].run].reads
  BY DEF OrderInv
<1>1. Undisturbed
  BY UndisturbedBefore
<1>2. \A k \in DOMAIN log : log[k].run # r /\ input'[log[k].run] = input[log[k].run]
  BY Own, Others DEF LogInv
<1>3. CASE log' = log
  BY <1>1, <1>2, <1>3 DEF OrderInv
<1>4. CASE PrintReport(r)
  <2> DEFINE e == [run |-> r, nullifier |-> input[r].nullifier,
                   args |-> input[r].args, checks |-> checks[r]]
  <2>1. log' = Append(log, e) /\ pc[r] = "print" /\ input'[r] = input[r]
    BY <1>4 DEF PrintReport
  <2>2. /\ Len(log) \in Nat /\ DOMAIN log = 1 .. Len(log) /\ DOMAIN log' = 1 .. Len(log) + 1
        /\ \A k \in 1 .. Len(log) : log'[k] = log[k]
        /\ log'[Len(log) + 1] = e
    <3> DEFINE S == {log[k] : k \in DOMAIN log}
    <3>1. log \in Seq(S \cup {e}) /\ e \in S \cup {e}
      BY SeqMonotonic DEF LogInv
    <3> HIDE DEF S, e
    <3> QED BY <2>1, <3>1, AppendProperties, LenProperties
  <2>3. e.run = r /\ e.nullifier = input[r].nullifier /\ e.checks = checks[r]
    OBVIOUS
  <2> HIDE DEF e
  <2>4. i \in DOMAIN log /\ log'[i] = log[i]
    BY <2>2
  <2>5. CASE j \in DOMAIN log
    <3>1. log'[j] = log[j]
      BY <2>2, <2>5
    <3> QED BY <1>1, <1>2, <2>4, <2>5, <3>1 DEF OrderInv
  <2>6. CASE j = Len(log) + 1
    <3>1. log'[j] = e
      BY <2>2, <2>6
    <3>2. Passed(r) /\ Running(r)
      BY <2>1, <2>3, <3>1 DEF Passed, Running
    <3>3. Passed(log[i].run) /\ input[log[i].run].nullifier = input[r].nullifier
      BY <2>3, <2>4, <3>1 DEF Passed, LogInv
    <3>4. log[i].run \in Runs /\ log[i].run # r
      BY <1>2, <2>4 DEF LogInv
    <3>5. ~input[r].reads
      BY <1>1, <3>2, <3>3, <3>4 DEF CaughtInv
    <3> QED BY <2>1, <2>3, <3>1, <3>5
  <2> QED BY <2>2, <2>5, <2>6
<1>5. log' = log \/ PrintReport(r)
  BY DEF Step, Start, BadInput, Metadata, BadManifest, Transport, BadTransportKey,
       ReplayCheck, WritePiece, Recorded, StoreError, Attest, BadConfig, Integrity, Require,
       QueryMatch, Crash, Error
<1> QED BY <1>3, <1>4, <1>5

\* Of two reports that say of one nullifier that it was not seen before, the later is
\* of a run that could not read the store, when no two runs overlapped and none was
\* stopped inside its line: what a run appended is found by every later one that
\* reads (replay_check).
THEOREM ReplayIsCaughtTheorem == Spec => []ReplayIsCaught
<1>1. Init => CauseInv /\ PendingInv /\ CaughtInv /\ LogInv /\ OrderInv
  <2> SUFFICES ASSUME Init PROVE CauseInv /\ PendingInv /\ CaughtInv /\ LogInv /\ OrderInv
    OBVIOUS
  <2>1. EmptyFile \in Files(Brought) /\ Len(EmptyFile) = 1 /\ EmptyFile[1] = << <<>> >>
    BY DEF EmptyFile, Files, Lines
  <2>2. CauseInv /\ PendingInv
    BY <2>1 DEF Init, CauseInv, PendingInv
  <2>3. CaughtInv
    BY <2>1 DEF Init, CaughtInv, Running, Half, Passed, Writing
  <2>4. LogInv
    BY DEF Init, LogInv
  <2>5. OrderInv
    BY DEF Init, OrderInv
  <2> QED BY <2>2, <2>3, <2>4, <2>5
<1>2. ShapeInv /\ ShapeInv' /\ CauseInv /\ PendingInv /\ CaughtInv /\ LogInv /\ OrderInv /\ [Next]_vars
      => CauseInv' /\ PendingInv' /\ CaughtInv' /\ LogInv' /\ OrderInv'
  <2>1. ASSUME CauseInv, PendingInv, CaughtInv, LogInv, OrderInv, UNCHANGED vars
        PROVE  CauseInv' /\ PendingInv' /\ CaughtInv' /\ LogInv' /\ OrderInv'
    <3>1. CauseInv' /\ PendingInv'
      BY <2>1 DEF CauseInv, PendingInv, vars, Brought, Came, PastStore
    <3>2. CaughtInv'
      BY <2>1 DEF CaughtInv, vars, Undisturbed, Disturbed, Running, Half, Passed, Writing, Holds
    <3>3. LogInv'
      BY <2>1 DEF LogInv, vars
    <3>4. OrderInv'
      BY <2>1 DEF OrderInv, vars, Undisturbed, Disturbed
    <3> QED BY <3>1, <3>2, <3>3, <3>4
  <2> QED BY <2>1, OrderStep, CauseStep, PendingStep, CaughtStep, LogStep DEF Next, Step
<1>3. OrderInv => ReplayIsCaught
  BY DEF OrderInv, ReplayIsCaught, Undisturbed
<1> QED BY <1>1, <1>2, <1>3, ShapeInvariant, PTL DEF Spec
=============================================================================
