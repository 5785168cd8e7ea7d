--------------------------- MODULE BrowserSession ---------------------------
(***************************************************************************)
(* Runs of `octet-verify browser-verdict` over the two files they share:   *)
(* --manifest-seq-store and --revision-store (browser_cli of               *)
(* src/bin/octet-verify.rs).  A run reads the seq store, then the revision *)
(* store, verifies one token (module BrowserVerdict), writes back the      *)
(* whole revision map, then the seq, and prints its report.  A write       *)
(* (std::fs::write) truncates the file and then fills it; a file caught in *)
(* between is Torn and does not parse.                                     *)
(***************************************************************************)
EXTENDS BrowserVerdict, Sequences

CONSTANTS
  Torn,                     \* a file caught between truncation and filling
  Runs,
  Offers,                   \* what the runs of one history may be given: records
                            \* [runs, tokens, manifests, challenges, edges] of sets
  Keys, ChallengeKeys,      \* the verdict JWKS and the challenge JWKS
  Serial,                   \* runs follow each other, or may overlap
  MayCrash,                 \* a run may be killed, and a write may fail
  AcceptProvisional,        \* the runs with --accept-provisional
  Now                       \* the verification time

\* Times, seqs and revisions are integers, and None is no value of the program.
ASSUME SessionAssumption ==
  /\ AcceptProvisional \subseteq Runs /\ Now \in Int /\ SkewS \in Int
  /\ \A o \in Offers :
       /\ o.runs \subseteq Runs
       /\ \A t \in o.tokens : /\ {t.version, t.iat, t.exp} \subseteq Int
                              /\ t.revision \in Int \cup {None}
       /\ \A m \in o.manifests \ {None} : m.seq \in Int
       /\ \A c \in o.challenges \ {None} : {c.iat, c.exp} \subseteq Int
  /\ ChallengeKeys # None
  /\ None \notin Int \cup [highest : Int, final : Int \cup {None}]

VARIABLES
  offer,      \* the one of Offers this history draws on, never changed
  seqStore,   \* the stored seq, None for a missing file, or Torn
  revStore,   \* sessionRef to revisions, the empty map for a missing file, or Torn
  pc,         \* where each run is
  job,        \* what each run was given, the seq it read, and how many reports were
              \* printed before it started
  found,      \* the map each run read, its report and the revisions to keep
  exit,       \* exit codes
  log         \* every report printed, by all runs

vars == <<offer, seqStore, revStore, pc, job, found, exit, log>>

Running(r) == pc[r] \notin {"ready", "done"}

Finish(r, code) ==
  /\ pc' = [pc EXCEPT ![r] = "done"]
  /\ exit' = [exit EXCEPT ![r] = code]

\* Mutant of Start: a seq store that does not parse counts as missing.
StartLenient(r) ==
  /\ pc[r] = "ready"
  /\ Serial => \A s \in Runs : ~Running(s)
  /\ \E t \in offer.tokens, m \in offer.manifests, c \in offer.challenges, e \in offer.edges :
       job' = [job EXCEPT ![r] = [token |-> t, manifest |-> m, challenge |-> c, edge |-> e,
                                  stored |-> IF seqStore = Torn THEN None ELSE seqStore,
                                  after |-> Len(log)]]
  /\ pc' = [pc EXCEPT ![r] = "read"]
  /\ UNCHANGED <<offer, seqStore, revStore, found, exit, log>>

\* Arguments, keys and manifest are loaded and the seq store is read; a torn one
\* is an error.
Start(r) ==
  /\ pc[r] = "ready"
  /\ Serial => \A s \in Runs : ~Running(s)
  /\ \E t \in offer.tokens, m \in offer.manifests, c \in offer.challenges, e \in offer.edges :
       job' = [job EXCEPT ![r] = [token |-> t, manifest |-> m, challenge |-> c, edge |-> e,
                                  stored |-> seqStore, after |-> Len(log)]]
  /\ IF seqStore = Torn THEN Finish(r, 2)
     ELSE pc' = [pc EXCEPT ![r] = "read"] /\ UNCHANGED exit
  /\ UNCHANGED <<offer, seqStore, revStore, found, log>>

Prior(map, t) == IF t.sessionRef \in DOMAIN map THEN map[t.sessionRef] ELSE None

\* The revision store is read whole and the token is verified against its entry.
Verify(r) ==
  /\ pc[r] = "read"
  /\ IF revStore = Torn
     THEN Finish(r, 2) /\ UNCHANGED found
     ELSE LET t     == job[r].token
              prior == Prior(revStore, t)
              report == VerifyBrowser(
                [token |-> t, jwks |-> Keys, manifest |-> job[r].manifest,
                 min |-> job[r].stored, challenge |-> job[r].challenge,
                 challengeKeys |-> IF job[r].challenge = None THEN None ELSE ChallengeKeys,
                 edge |-> job[r].edge, now |-> Now, prior |-> prior])
          IN /\ found' = [found EXCEPT ![r] = [map |-> revStore, report |-> report,
                                               next |-> NextRevisions(report, prior)]]
             /\ pc' = [pc EXCEPT ![r] = "revisions"]
             /\ UNCHANGED exit
  /\ UNCHANGED <<offer, seqStore, revStore, job, log>>

\* The map this run read, with its own session's entry replaced.
Updated(r) ==
  LET ref == job[r].token.sessionRef IN
    [s \in DOMAIN found[r].map \cup {ref} |->
       IF s = ref THEN found[r].next ELSE found[r].map[s]]

KeepsRevisions(r) == found[r].next # None

TruncateRevisions(r) ==
  /\ pc[r] = "revisions"
  /\ KeepsRevisions(r)
  /\ revStore' = Torn
  /\ pc' = [pc EXCEPT ![r] = "fill revisions"]
  /\ UNCHANGED <<offer, seqStore, job, found, exit, log>>

FillRevisions(r) ==
  /\ pc[r] = "fill revisions"
  /\ revStore' = Updated(r)
  /\ pc' = [pc EXCEPT ![r] = "seq"]
  /\ UNCHANGED <<offer, seqStore, job, found, exit, log>>

NoRevisions(r) ==
  /\ pc[r] = "revisions"
  /\ ~KeepsRevisions(r)
  /\ pc' = [pc EXCEPT ![r] = "seq"]
  /\ UNCHANGED <<offer, seqStore, revStore, job, found, exit, log>>

\* The seq is written when it is higher than the stored one this run read.
KeepsSeq(r) ==
  /\ found[r].report.seq # None
  /\ job[r].stored # None => found[r].report.seq > job[r].stored

TruncateSeq(r) ==
  /\ pc[r] = "seq"
  /\ KeepsSeq(r)
  /\ seqStore' = Torn
  /\ pc' = [pc EXCEPT ![r] = "fill seq"]
  /\ UNCHANGED <<offer, revStore, job, found, exit, log>>

FillSeq(r) ==
  /\ pc[r] = "fill seq"
  /\ seqStore' = found[r].report.seq
  /\ pc' = [pc EXCEPT ![r] = "print"]
  /\ UNCHANGED <<offer, revStore, job, found, exit, log>>

NoSeq(r) ==
  /\ pc[r] = "seq"
  /\ ~KeepsSeq(r)
  /\ pc' = [pc EXCEPT ![r] = "print"]
  /\ UNCHANGED <<offer, seqStore, revStore, job, found, exit, log>>

\* The report is printed and the run exits.
PrintReport(r) ==
  /\ pc[r] = "print"
  /\ LET report == found[r].report IN
       /\ log' = Append(log, [run |-> r, token |-> job[r].token, manifest |-> job[r].manifest,
                              report |-> report, after |-> job[r].after])
       /\ Finish(r, CASE ~Valid(report) -> 1
                      [] Valid(report) /\ PassesGate(report, r \in AcceptProvisional) -> 0
                      [] OTHER -> 3)
  /\ UNCHANGED <<offer, seqStore, revStore, job, found>>

\* A failing write is an error; the file stays as the write left it.
WriteFails(r) ==
  /\ MayCrash
  /\ pc[r] \in {"fill revisions", "fill seq"}
  /\ Finish(r, 2)
  /\ UNCHANGED <<offer, seqStore, revStore, job, found, log>>

Crash(r) ==
  /\ MayCrash
  /\ Running(r)
  /\ Finish(r, None)
  /\ UNCHANGED <<offer, seqStore, revStore, job, found, log>>

Init ==
  /\ offer \in Offers
  /\ seqStore = None
  /\ revStore = <<>>
  /\ pc = [r \in Runs |-> "ready"]
  /\ job = [r \in Runs |-> None]
  /\ found = [r \in Runs |-> None]
  /\ exit = [r \in Runs |-> None]
  /\ log = <<>>

Next == \E r \in offer.runs :
  \/ Start(r) \/ Verify(r) \/ TruncateRevisions(r) \/ FillRevisions(r) \/ NoRevisions(r)
  \/ TruncateSeq(r) \/ FillSeq(r) \/ NoSeq(r) \/ PrintReport(r) \/ WriteFails(r) \/ Crash(r)

Spec == Init /\ [][Next]_vars

---------------------------------------------------------------------------
(* Properties *)

\* The reports of accepted version 4 tokens.
AcceptedV4 == {i \in DOMAIN log : Valid(log[i].report) /\ log[i].token.version = 4}

\* "a lower revision, or a second final, FAILS" (--revision-store in the help
\* text, verdict_stage): a run started after a token was accepted accepts none of
\* the same session that goes back, and after a final only that revision, as a
\* final.
RevisionsNeverGoBack == \A i, j \in AcceptedV4 :
  i <= log[j].after /\ log[i].token.sessionRef = log[j].token.sessionRef =>
    /\ log[i].token.revision <= log[j].token.revision
    /\ log[i].token.stage = "final" =>
         log[j].token.stage = "final" /\ log[j].token.revision = log[i].token.revision

\* A manifest that a run trusted is never older than one trusted before it started
\* ("a lower one is a rollback and FAILS", --manifest-seq-store, check_manifest).
ManifestNeverRollsBack == \A i, j \in DOMAIN log :
  LET Trusted(k) == \E s \in {"verified", "warning"} :
                      Line("root-manifest", s) \in log[k].report.lines
  IN i <= log[j].after /\ Trusted(i) /\ Trusted(j) => log[i].manifest.seq <= log[j].manifest.seq

\* A gated action passes only on a complete final verdict whose key, when a
\* trusted manifest was at hand, that manifest lists unrevoked with the same
\* material (passes_gate, manifest-verdict-key, key-validity).
GateIsVouched == \A r \in Runs : exit[r] = 0 /\ r \notin AcceptProvisional =>
  LET t == job[r].token
      m == job[r].manifest
  IN /\ t.genuine
     /\ t.version = 4 => t.stage = "final" /\ ~t.incomplete
     /\ m # None => \E k \in m.verdictKeys :
          /\ k.kid = t.kid
          /\ \E j \in Keys : j.kid = k.kid /\ j.material = k.material
          /\ k.revoked # None => t.iat < k.revoked

\* With the challenge of the session at hand, a token that passes belongs to it:
\* the chain names it, it is of the same session and was alive when the verdict
\* was issued, and a trusted manifest lists the key that signed it
\* (session-link, manifest-challenge-key).  The edge log line must match too.
GateIsOfThisSession == \A r \in Runs : exit[r] = 0 /\ job[r].token.version >= 3 =>
  LET t == job[r].token
      c == job[r].challenge
      m == job[r].manifest
  IN /\ c # None =>
          /\ c.id = t.chain.s0 /\ c.genuine /\ c.sessionRef = t.sessionRef
          /\ t.iat >= c.iat /\ t.iat - SkewS <= c.exp
          /\ m # None => \E k \in m.challengeKeys, j \in ChallengeKeys :
               k.kid = c.kid /\ j.kid = c.kid /\ j.material = k.material
     /\ job[r].edge # None => job[r].edge \in t.chain.edges
=============================================================================
