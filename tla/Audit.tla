------------------------------- MODULE Audit -------------------------------
(***************************************************************************)
(* The backend subcommands of src/bin/octet-verify.rs: runs of `fetch`,    *)
(* `range` and `watch` that verify what an untrusted backend serves and    *)
(* share one --seen-store file.  A run is a process: it loads the store,   *)
(* fetches, judges each envelope, records the hash of a new id in memory   *)
(* and then, piece by piece, in the file, prints the report and exits.     *)
(* The verdict of the verification recipe is a field of the body: bodies   *)
(* are what the backend can serve, with the hash of their canonical form   *)
(* and the exit code the recipe gives them (2: the body cannot be          *)
(* decoded).  Two bodies may share a hash: the canonical form forgets the  *)
(* S parity of every signature, which chain-assembly does not.  Ids are    *)
(* words without blanks.                                                   *)
(***************************************************************************)
EXTENDS LineFile, Report, FiniteSets

CONSTANTS
  None,
  Runs,           \* the invocations of the program
  Sub,            \* the subcommand of each run
  Stored,         \* the runs that were given --seen-store
  Ids, Bodies,
  Serial,         \* runs follow each other, or may overlap
  MayCrash,       \* a run may be killed between two steps
  StoreMayFail,   \* opening, reading or writing the store may fail
  MaxPage,        \* bound: envelopes of one page
  MaxFetches      \* bound: pages or polls of one run

ASSUME AuditAssumption ==
  /\ Sub \in [Runs -> {"fetch", "range", "watch"}]
  /\ Stored \subseteq Runs
  /\ \A b \in Bodies : b.code \in {ExitSuccess, ExitInvalid, ExitError, ExitInconclusive}
  /\ MaxPage \in Nat /\ MaxFetches \in Nat

\* No id and no hash reads as a blank or the end of a line.
ASSUME WordsAssumption ==
  /\ Space \notin Ids /\ Newline \notin Ids
  /\ \A b \in Bodies : b.hash \notin {Space, Newline}

VARIABLES
  file,     \* the seen-store file
  pc,       \* where each run is
  seen,     \* SeenStore.seen of each run: id to hash
  fetches,  \* requests each run has made, for the bound
  queue,    \* envelopes fetched and not judged yet
  current,  \* the envelope just recorded, with its classification
  pending,  \* the pieces of its line not written yet
  last,     \* last_exit of a watch
  codes,    \* the codes a range has counted
  stop,     \* the Ctrl-C flag of a watch
  exit,     \* the exit code, None while running and of a killed run
  log,      \* every report printed, by all runs
  served    \* every envelope the backend gave each run, in order

vars == <<file, pc, seen, fetches, queue, current, pending, last, codes, stop, exit, log, served>>

Envelopes == [id : Ids, body : Bodies]

Pages == UNION {[1 .. n -> Envelopes] : n \in 0 .. MaxPage}

\* Mutant of Classify: a known id is the same proof.
ClassifyById(store, env) == IF <<env.id>> \in DOMAIN store THEN "same" ELSE "new"

\* SeenStore::peek and the classification of SeenStore::record.
Classify(store, env) ==
  IF <<env.id>> \notin DOMAIN store THEN "new"
  ELSE IF store[<<env.id>>] = <<env.body.hash>> THEN "same"
  ELSE "conflict"

\* The exit code of the report with its refetch-consistency check.
CodeOf(env, class) == IF class = "conflict" THEN ExitInvalid ELSE env.body.code

\* Mutant of LinePieces: the words are swapped.
LinePiecesSwapped(env) == <<env.body.hash, Space, env.id, Newline>>

\* The write calls of writeln!(f, "{proof_id} {hash}").
LinePieces(env) == <<env.id, Space, env.body.hash, Newline>>

Finish(r, code) ==
  /\ pc' = [pc EXCEPT ![r] = "done"]
  /\ exit' = [exit EXCEPT ![r] = code]

Running(r) == pc[r] \notin {"ready", "done"}

---------------------------------------------------------------------------
(* Starting: run() and SeenStore::load.  A store that cannot be read, or is  *)
(* not UTF-8, is taken for an empty one.                                    *)

Load(r) ==
  /\ pc[r] = "ready"
  /\ Serial => \A s \in Runs : ~Running(s)
  /\ \E readable \in {TRUE, ~StoreMayFail} :
       seen' = [seen EXCEPT ![r] = IF r \in Stored /\ readable THEN Loaded(file) ELSE <<>>]
  /\ pc' = [pc EXCEPT ![r] = "fetch"]
  /\ UNCHANGED <<file, fetches, queue, current, pending, last, codes, stop, exit, log, served>>

---------------------------------------------------------------------------
(* Fetching *)

Request(r) ==
  /\ pc[r] = "fetch"
  /\ fetches[r] < MaxFetches
  /\ fetches' = [fetches EXCEPT ![r] = @ + 1]

\* fetch_one: the envelope the backend answers with.
FetchOne(r) ==
  /\ Sub[r] = "fetch"
  /\ Request(r)
  /\ \E env \in Envelopes :
       /\ queue' = [queue EXCEPT ![r] = <<env>>]
       /\ served' = [served EXCEPT ![r] = <<env>>]
  /\ pc' = [pc EXCEPT ![r] = "judge"]
  /\ UNCHANGED <<file, seen, current, pending, last, codes, stop, exit, log>>

\* fetch_range: a page, and another request when it has a cursor.  Nothing is
\* judged before the last page.
FetchPage(r) ==
  /\ Sub[r] = "range"
  /\ Request(r)
  /\ \E page \in Pages :
       /\ queue' = [queue EXCEPT ![r] = @ \o page]
       /\ served' = [served EXCEPT ![r] = @ \o page]
  /\ \E cursor \in BOOLEAN :
       pc' = [pc EXCEPT ![r] = IF cursor THEN "fetch" ELSE "judge"]
  /\ UNCHANGED <<file, seen, current, pending, last, codes, stop, exit, log>>

\* One turn of the watch loop: a latest proof that is Same is not verified.
FetchLatest(r) ==
  /\ Sub[r] = "watch"
  /\ ~stop[r]
  /\ Request(r)
  /\ \/ /\ pc' = [pc EXCEPT ![r] = "sleep"]          \* 404: no proofs yet
        /\ UNCHANGED <<queue, served>>
     \/ \E env \in Envelopes :
          /\ served' = [served EXCEPT ![r] = Append(@, env)]
          /\ IF Classify(seen[r], env) = "same"
             THEN /\ pc' = [pc EXCEPT ![r] = "sleep"]
                  /\ UNCHANGED queue
             ELSE /\ pc' = [pc EXCEPT ![r] = "judge"]
                  /\ queue' = [queue EXCEPT ![r] = <<env>>]
  /\ UNCHANGED <<file, seen, current, pending, last, codes, stop, exit, log>>

\* A transport, status, size or decode error ends any subcommand.
FetchError(r) ==
  /\ pc[r] = "fetch"
  /\ Sub[r] = "watch" => ~stop[r]
  /\ Finish(r, ExitError)
  /\ UNCHANGED <<file, seen, fetches, queue, current, pending, last, codes, stop, log, served>>

---------------------------------------------------------------------------
(* Judging, recording and printing one envelope: verify_envelope and emit *)

\* A body that cannot be decoded ends the run before anything is recorded.
Undecodable(r) ==
  /\ pc[r] = "judge"
  /\ queue[r] # <<>>
  /\ Head(queue[r]).body.code = ExitError
  /\ Finish(r, ExitError)
  /\ UNCHANGED <<file, seen, fetches, queue, current, pending, last, codes, stop, log, served>>

\* SeenStore::record: a new id enters the map at once and its line is queued for
\* the file; a known id changes neither.
Judge(r) ==
  /\ pc[r] = "judge"
  /\ queue[r] # <<>>
  /\ LET env   == Head(queue[r])
         class == Classify(seen[r], env)
     IN /\ env.body.code # ExitError
        /\ current' = [current EXCEPT ![r] = [env |-> env, class |-> class]]
        /\ IF class = "new"
           THEN /\ seen' = [seen EXCEPT ![r] =
                              [id \in DOMAIN @ \cup {<<env.id>>} |->
                                 IF id = <<env.id>> THEN <<env.body.hash>> ELSE @[id]]]
                /\ pending' = [pending EXCEPT ![r] =
                                 IF r \in Stored THEN LinePieces(env) ELSE <<>>]
           ELSE UNCHANGED <<seen, pending>>
  /\ queue' = [queue EXCEPT ![r] = Tail(@)]
  /\ pc' = [pc EXCEPT ![r] = "write"]
  /\ UNCHANGED <<file, fetches, last, codes, stop, exit, log, served>>

WritePiece(r) ==
  /\ pc[r] = "write"
  /\ pending[r] # <<>>
  /\ file' = AppendPiece(file, Head(pending[r]))
  /\ pending' = [pending EXCEPT ![r] = Tail(@)]
  /\ UNCHANGED <<pc, seen, fetches, queue, current, last, codes, stop, exit, log, served>>

\* The file cannot be opened, or a write fails: the rest of the line is dropped
\* and nobody is told.
WriteFails(r) ==
  /\ StoreMayFail
  /\ pc[r] = "write"
  /\ pending[r] # <<>>
  /\ pending' = [pending EXCEPT ![r] = <<>>]
  /\ UNCHANGED <<file, pc, seen, fetches, queue, current, last, codes, stop, exit, log, served>>

\* emit, and what each subcommand keeps of the verdict.
Emit(r) ==
  /\ pc[r] = "write"
  /\ pending[r] = <<>>
  /\ LET env  == current[r].env
         code == CodeOf(env, current[r].class)
     IN /\ log' = Append(log, [run |-> r, env |-> env, class |-> current[r].class, code |-> code])
        /\ \/ /\ Sub[r] = "fetch"
              /\ Finish(r, code)
              /\ UNCHANGED <<last, codes>>
           \/ /\ Sub[r] = "range"
              /\ codes' = [codes EXCEPT ![r] = @ \cup {code}]
              /\ pc' = [pc EXCEPT ![r] = "judge"]
              /\ UNCHANGED <<last, exit>>
           \/ /\ Sub[r] = "watch"
              /\ last' = [last EXCEPT ![r] = code]
              /\ pc' = [pc EXCEPT ![r] = "sleep"]
              /\ UNCHANGED <<codes, exit>>
  /\ current' = [current EXCEPT ![r] = None]
  /\ UNCHANGED <<file, seen, fetches, queue, pending, stop, served>>

---------------------------------------------------------------------------
(* Ending *)

\* Mutant of EndRange: one authentic proof makes the range a success.
EndRangeBest(r) ==
  /\ Sub[r] = "range"
  /\ pc[r] = "judge"
  /\ queue[r] = <<>>
  /\ Finish(r, IF ExitSuccess \in codes[r] THEN ExitSuccess ELSE WorstExit(codes[r]))
  /\ UNCHANGED <<file, seen, fetches, queue, current, pending, last, codes, stop, log, served>>

\* The worst-state aggregate of run_range.
EndRange(r) ==
  /\ Sub[r] = "range"
  /\ pc[r] = "judge"
  /\ queue[r] = <<>>
  /\ Finish(r, WorstExit(codes[r]))
  /\ UNCHANGED <<file, seen, fetches, queue, current, pending, last, codes, stop, log, served>>

\* Mutant of Wake: the sleep does not end once the flag is set.
WakeUnlessStopped(r) ==
  /\ pc[r] = "sleep"
  /\ ~stop[r]
  /\ pc' = [pc EXCEPT ![r] = "fetch"]
  /\ UNCHANGED <<file, seen, fetches, queue, current, pending, last, codes, stop, exit, log, served>>

\* sleep_interruptible returns, early when the flag is set.
Wake(r) ==
  /\ pc[r] = "sleep"
  /\ pc' = [pc EXCEPT ![r] = "fetch"]
  /\ UNCHANGED <<file, seen, fetches, queue, current, pending, last, codes, stop, exit, log, served>>

\* The loop condition sees the flag.
EndWatch(r) ==
  /\ Sub[r] = "watch"
  /\ pc[r] = "fetch"
  /\ stop[r]
  /\ Finish(r, last[r])
  /\ UNCHANGED <<file, seen, fetches, queue, current, pending, last, codes, stop, log, served>>

\* Ctrl-C while the handler is installed.
Interrupt(r) ==
  /\ Sub[r] = "watch"
  /\ Running(r)
  /\ ~stop[r]
  /\ stop' = [stop EXCEPT ![r] = TRUE]
  /\ UNCHANGED <<file, pc, seen, fetches, queue, current, pending, last, codes, exit, log, served>>

\* Killed, or Ctrl-C in a run that installs no handler.
Crash(r) ==
  /\ MayCrash
  /\ Running(r)
  /\ pc' = [pc EXCEPT ![r] = "done"]
  /\ pending' = [pending EXCEPT ![r] = <<>>]
  /\ current' = [current EXCEPT ![r] = None]
  /\ UNCHANGED <<file, seen, fetches, queue, last, codes, stop, exit, log, served>>

---------------------------------------------------------------------------
Init ==
  /\ file = EmptyFile
  /\ pc = [r \in Runs |-> "ready"]
  /\ seen = [r \in Runs |-> <<>>]
  /\ fetches = [r \in Runs |-> 0]
  /\ queue = [r \in Runs |-> <<>>]
  /\ current = [r \in Runs |-> None]
  /\ pending = [r \in Runs |-> <<>>]
  /\ last = [r \in Runs |-> ExitSuccess]
  /\ codes = [r \in Runs |-> {}]
  /\ stop = [r \in Runs |-> FALSE]
  /\ exit = [r \in Runs |-> None]
  /\ log = <<>>
  /\ served = [r \in Runs |-> <<>>]

\* What the program does by itself, its requests being bounded by a timeout.
Step(r) ==
  \/ FetchOne(r) \/ FetchPage(r) \/ FetchLatest(r) \/ FetchError(r)
  \/ Undecodable(r) \/ Judge(r) \/ WritePiece(r) \/ WriteFails(r) \/ Emit(r)
  \/ EndRange(r) \/ Wake(r) \/ EndWatch(r)

Next == \E r \in Runs : Load(r) \/ Step(r) \/ Interrupt(r) \/ Crash(r)

Spec == Init /\ [][Next]_vars
FairSpec == Spec /\ \A r \in Runs : WF_vars(Step(r))

---------------------------------------------------------------------------
(* Properties *)

\* The reports of some of the runs, in order: report k is the one with k of them
\* not after it.
PrintedBy(runs) ==
  LET theirs == {j \in DOMAIN log : log[j].run \in runs}
  IN [k \in 1 .. Cardinality(theirs) |->
        log[CHOOSE j \in theirs : Cardinality({i \in theirs : i <= j}) = k]]

\* Two runs that remember each other's sightings.
Share(r, s) == r = s \/ {r, s} \subseteq Stored

\* The first report printed, by this run or one it shares the store with, about
\* the id of report j.
FirstSighting(j) ==
  LET about == {i \in 1 .. j : log[i].env.id = log[j].env.id /\ Share(log[i].run, log[j].run)}
  IN log[CHOOSE i \in about : \A k \in about : i <= k]

\* "Within a run, and across runs when --seen-store is given, a proof_id that
\* returns different bytes than first seen is a hard FAIL"
\* (VERIFICATION-SPEC.md 4.4, SeenStore::record).
SubstitutionFails == \A j \in DOMAIN log :
  log[j].env.body.hash # FirstSighting(j).env.body.hash => log[j].code = ExitInvalid

\* A fetch or a range that ends with a verdict printed a report for every
\* envelope it was served, in order, and its exit code is the worst of them:
\* an early error or a proof left out never ends in 0, 1 or 3 (run_range).
ExitCoversAll == \A r \in Runs : exit[r] \notin {None, ExitError} /\ Sub[r] # "watch" =>
  LET mine == PrintedBy({r}) IN
    /\ Len(mine) = Len(served[r])
    /\ \A k \in DOMAIN mine : mine[k].env = served[r][k]
    /\ exit[r] = WorstExit({mine[k].code : k \in DOMAIN mine})

\* A watch leaves out only what was already printed: each latest proof it was
\* served is, once the turn is over, in a report of this run or of one sharing
\* its store, with the same hash (run_watch, SeenStore::peek).
SkippedOnlyIfPrinted == \A r \in Runs : pc[r] = "sleep" /\ Sub[r] = "watch" =>
  \A k \in DOMAIN served[r] : \E j \in DOMAIN log :
    /\ Share(log[j].run, r)
    /\ log[j].env.id = served[r][k].id
    /\ log[j].env.body.hash = served[r][k].body.hash

\* "first sighting of this proof_id; byte-hash recorded" (consistency_check): once
\* a run said so, a later sighting of the id with another hash fails, whatever
\* went wrong in between.
RecordedIsRemembered == \A j \in DOMAIN log : \A i \in 1 .. j - 1 :
  /\ Share(log[i].run, log[j].run)
  /\ log[i].class = "new"
  /\ log[i].env.id = log[j].env.id
  /\ log[i].env.body.hash # log[j].env.body.hash
  => log[j].code = ExitInvalid

\* Ctrl-C ends a watch: whatever it was doing, it finishes the turn and exits
\* (run_watch, sleep_interruptible).
StopEnds == \A r \in Runs : stop[r] ~> pc[r] = "done"

\* "For range / watch, the code reflects the worst proof observed"
\* (VERIFICATION-SPEC.md, exit codes), for a watch ended by Ctrl-C.
WatchExitIsWorst == \A r \in Runs : Sub[r] = "watch" /\ exit[r] \notin {None, ExitError} =>
  exit[r] = WorstExit({log[j].code : j \in {i \in DOMAIN log : log[i].run = r}})

---------------------------------------------------------------------------
(* The promise kept across serial runs without faults: module FirstSeen *)

\* What every stored run knows now: the map of the running one, else what the
\* next one will load.
Known ==
  IF \E r \in Stored : Running(r) THEN seen[CHOOSE r \in Stored : Running(r)] ELSE Loaded(file)

\* The answers of stored runs, the one not printed yet included.
Answers ==
  LET printed == PrintedBy(Stored)
      Answer(env, class) == [id |-> <<env.id>>, hash |-> <<env.body.hash>>,
                             ok |-> class # "conflict"]
      now == IF \E r \in Stored : pc[r] = "write"
             THEN LET r == CHOOSE r \in Stored : pc[r] = "write"
                  IN <<Answer(current[r].env, current[r].class)>>
             ELSE <<>>
  IN [k \in DOMAIN printed |-> Answer(printed[k].env, printed[k].class)] \o now

First == INSTANCE FirstSeen WITH first <- Known, answers <- Answers,
           Ids <- {<<i>> : i \in Ids}, Hashes <- {<<b.hash>> : b \in Bodies}

\* Runs that follow each other and are not disturbed answer like one map that
\* remembers the first hash of every id for ever, through load, record and
\* every partly written line.
RefinesFirstSeen == First!Spec
=============================================================================
