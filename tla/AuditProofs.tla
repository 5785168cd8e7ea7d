----------------------------- MODULE AuditProofs -----------------------------
(***************************************************************************)
(* What the audit commands promise for any number of runs, ids, bodies and *)
(* requests.  Reports are numbered (OrderInv), so that "in order" can be   *)
(* argued; what a run was served is printed, at hand or queued (CoverInv). *)
(* A run's map holds the first report about each id (MemoryInv), and the   *)
(* file spells that map but for the line being written (StoreInv): both    *)
(* hold for runs that are not disturbed (Undisturbed).                     *)
(***************************************************************************)
EXTENDS Audit, SequenceTheorems, FiniteSetTheorems, TLAPS

---------------------------------------------------------------------------
(* The reports of some of the runs *)

Classes == {"new", "same", "conflict"}

Reports == [run : Runs, env : Envelopes, class : Classes,
            code : {ExitSuccess, ExitInvalid, ExitInconclusive}]

Theirs(runs) == {j \in DOMAIN log : log[j].run \in runs}

\* Number k of the set.
Numbered(set, k, j) == j \in set /\ Cardinality({i \in set : i <= j}) = k

Ordered(set) == \A k \in 1 .. Cardinality(set) : \E j \in set : Numbered(set, k, j)

\* Every report of some runs has its number.
OrderInv == log \in Seq(Reports) /\ \A runs \in SUBSET Runs : Ordered(Theirs(runs))

LEMMA TheirsIsFinite ==
  ASSUME log \in Seq(Reports), NEW runs
  PROVE  /\ Theirs(runs) \subseteq 1 .. Len(log) /\ Len(log) \in Nat
         /\ IsFiniteSet(Theirs(runs)) /\ Cardinality(Theirs(runs)) \in Nat
         /\ \A j : IsFiniteSet({i \in Theirs(runs) : i <= j})
<1>1. DOMAIN log = 1 .. Len(log) /\ Len(log) \in Nat
  BY LenProperties
<1>2. IsFiniteSet(1 .. Len(log))
  BY <1>1, FS_Interval
<1>3. Theirs(runs) \subseteq 1 .. Len(log)
  BY <1>1 DEF Theirs
<1>4. IsFiniteSet(Theirs(runs))
  BY <1>2, <1>3, FS_Subset
<1>5. \A j : {i \in Theirs(runs) : i <= j} \in SUBSET Theirs(runs)
  OBVIOUS
<1> QED BY <1>1, <1>3, <1>4, <1>5, FS_Subset, FS_CardinalityType

\* A number belongs to one report.
LEMMA NumberIsUnique ==
  ASSUME NEW set \in SUBSET Nat, IsFiniteSet(set), NEW k, NEW i, NEW j,
         Numbered(set, k, i), Numbered(set, k, j)
  PROVE  i = j
<1> SUFFICES ASSUME NEW a \in set, NEW b \in set, a < b,
                    Cardinality({c \in set : c <= a}) = Cardinality({c \in set : c <= b})
             PROVE  FALSE
  <2>1. i \in Nat /\ j \in Nat
    BY DEF Numbered
  <2>2. i < j \/ j < i \/ i = j
    BY <2>1
  <2> QED BY <2>2 DEF Numbered
<1> DEFINE upto(n) == {c \in set : c <= n}
<1>1. upto(a) \in SUBSET upto(b)
  <2>1. \A c \in set : c \in Nat /\ a \in Nat /\ b \in Nat
    OBVIOUS
  <2>2. \A c \in set : c <= a => c <= b
    BY <2>1
  <2> QED BY <2>2
<1>2. IsFiniteSet(upto(b))
  BY FS_Subset
<1>3. upto(a) = upto(b)
  BY <1>1, <1>2, FS_Subset
<1>4. b \in upto(b) /\ b \notin upto(a)
  OBVIOUS
<1> QED BY <1>3, <1>4

\* The set of the numbers does not change below a new largest member.
LEMMA NumberedBelow ==
  ASSUME NEW set \in SUBSET Nat, NEW n \in Nat, \A i \in set : i < n, NEW j \in set
  PROVE  {i \in set \cup {n} : i <= j} = {i \in set : i <= j}
OBVIOUS

LEMMA NumberedTop ==
  ASSUME NEW set \in SUBSET Nat, NEW n \in Nat, \A i \in set : i < n
  PROVE  {i \in set \cup {n} : i <= n} = set \cup {n}
<1>1. \A i \in set \cup {n} : i <= n
  OBVIOUS
<1> QED BY <1>1

LEMMA PrintedIsSeq ==
  ASSUME OrderInv, NEW runs \in SUBSET Runs
  PROVE  /\ PrintedBy(runs) \in Seq(Reports)
         /\ Len(PrintedBy(runs)) = Cardinality(Theirs(runs))
         /\ Len(PrintedBy(runs)) \in Nat
         /\ DOMAIN PrintedBy(runs) = 1 .. Len(PrintedBy(runs))
<1> DEFINE set == Theirs(runs)
           m == Cardinality(set)
           nth(k) == CHOOSE j \in set : Cardinality({i \in set : i <= j}) = k
<1>1. m \in Nat /\ log \in Seq(Reports)
  BY TheirsIsFinite DEF OrderInv
<1>2. PrintedBy(runs) = [k \in 1 .. m |-> log[nth(k)]]
  BY DEF PrintedBy, Theirs
<1>3. \A k \in 1 .. m : nth(k) \in set
  BY DEF OrderInv, Ordered, Numbered
<1>4. \A k \in 1 .. m : log[nth(k)] \in Reports
  BY <1>1, <1>3, ElementOfSeq, LenProperties DEF Theirs
<1> HIDE DEF set, m, nth
<1>5. PrintedBy(runs) \in Seq(Reports) /\ Len(PrintedBy(runs)) = m
  BY <1>1, <1>2, <1>4
<1> QED BY <1>1, <1>5, LenProperties DEF m, set

\* Printing one more report of these runs, or of another, appends it, or nothing.
LEMMA PrintedGrows ==
  ASSUME OrderInv, NEW e \in Reports, log' = Append(log, e), NEW runs \in SUBSET Runs
  PROVE  /\ PrintedBy(runs)' = IF e.run \in runs THEN Append(PrintedBy(runs), e)
                                                 ELSE PrintedBy(runs)
         /\ Ordered(Theirs(runs))'
<1> DEFINE set == Theirs(runs)
           n == Len(log) + 1
           m == Cardinality(set)
<1>1. /\ log \in Seq(Reports) /\ Len(log) \in Nat /\ DOMAIN log = 1 .. Len(log)
      /\ log' \in Seq(Reports) /\ DOMAIN log' = 1 .. n
      /\ \A j \in 1 .. Len(log) : log'[j] = log[j]
      /\ log'[n] = e
  BY AppendProperties, LenProperties DEF OrderInv
<1>2. set \in SUBSET Nat /\ IsFiniteSet(set) /\ m \in Nat /\ n \in Nat /\ \A i \in set : i < n
  BY <1>1, TheirsIsFinite
<1>3. set' = IF e.run \in runs THEN set \cup {n} ELSE set
  BY <1>1 DEF Theirs
<1>4. Ordered(set)
  BY DEF OrderInv
<1> DEFINE nth(s, k) == CHOOSE j \in s : Cardinality({i \in s : i <= j}) = k
<1>5. PrintedBy(runs) = [k \in 1 .. m |-> log[nth(set, k)]]
  BY DEF PrintedBy, Theirs
<1>6. PrintedBy(runs)' = [k \in 1 .. Cardinality(set') |-> log'[nth(set', k)]]
  BY DEF PrintedBy, Theirs
<1>7. \A s \in SUBSET Nat : \A k, j : IsFiniteSet(s) /\ Numbered(s, k, j) => nth(s, k) = j
  <2> TAKE s \in SUBSET Nat
  <2> TAKE k, j
  <2> HAVE IsFiniteSet(s) /\ Numbered(s, k, j)
  <2>1. Numbered(s, k, nth(s, k))
    BY DEF Numbered
  <2> QED BY <2>1, NumberIsUnique
<1>8. \A k \in 1 .. m : nth(set, k) \in set /\ Numbered(set, k, nth(set, k))
  BY <1>2, <1>4, <1>7 DEF Ordered
<1>9. CASE e.run \notin runs
  <2>1. set' = set
    BY <1>3, <1>9
  <2>2. \A k \in 1 .. m : log'[nth(set, k)] = log[nth(set, k)]
    BY <1>1, <1>8 DEF Theirs
  <2>3. PrintedBy(runs)' = PrintedBy(runs)
    <3> HIDE DEF set, m, nth
    <3> QED BY <1>5, <1>6, <2>1, <2>2 DEF m
  <2> QED BY <1>4, <1>9, <2>1, <2>3
<1>10. CASE e.run \in runs
  <2>1. set' = set \cup {n} /\ n \notin set
    BY <1>2, <1>3, <1>10
  <2>2. IsFiniteSet(set') /\ Cardinality(set') = m + 1 /\ set' \in SUBSET Nat
    BY <1>2, <2>1, FS_AddElement
  <2>3. \A k \in 1 .. m : Numbered(set', k, nth(set, k))
    <3> TAKE k \in 1 .. m
    <3>1. nth(set, k) \in set /\ Cardinality({i \in set : i <= nth(set, k)}) = k
      BY <1>8 DEF Numbered
    <3>2. {i \in set \cup {n} : i <= nth(set, k)} = {i \in set : i <= nth(set, k)}
      BY <1>2, <3>1, NumberedBelow
    <3> HIDE DEF nth, set, n, m
    <3> QED BY <2>1, <3>1, <3>2 DEF Numbered
  <2>4. Numbered(set', m + 1, n)
    BY <1>2, <2>1, <2>2, NumberedTop DEF Numbered
  <2>5. \A k \in 1 .. m : nth(set', k) = nth(set, k)
    BY <1>7, <2>2, <2>3
  <2>6. nth(set', m + 1) = n
    BY <1>7, <2>2, <2>4
  <2>7. \A k \in 1 .. m : log'[nth(set', k)] = log[nth(set, k)]
    BY <1>1, <1>8, <2>5 DEF Theirs
  <2>8. PrintedBy(runs) \in Seq(Reports) /\ Len(PrintedBy(runs)) = m
    BY PrintedIsSeq
  <2>9. PrintedBy(runs)' = Append(PrintedBy(runs), e)
    <3> DEFINE p == PrintedBy(runs)
               q == Append(p, e)
    <3>0. p \in Seq(Reports) /\ Len(p) = m /\ e \in Reports
      BY <2>8
    <3>1. /\ DOMAIN q = 1 .. m + 1 /\ \A k \in 1 .. m : q[k] = p[k]
          /\ q[m + 1] = e /\ q = [k \in DOMAIN q |-> q[k]]
      <4> HIDE DEF p, m
      <4>1. q \in Seq(Reports) /\ Len(q) = m + 1 /\ q[m + 1] = e /\ \A k \in 1 .. m : q[k] = p[k]
        BY <3>0, AppendProperties
      <4> HIDE DEF q
      <4>2. DOMAIN q = 1 .. m + 1 /\ q \in [1 .. Len(q) -> Reports]
        BY <4>1, LenProperties
      <4>3. q = [k \in 1 .. Len(q) |-> q[k]]
        BY <4>2
      <4> QED BY <4>1, <4>2, <4>3
    <3> HIDE DEF p, q, set, m, nth
    <3>2. \A k \in 1 .. m : q[k] = log[nth(set, k)]
      BY <1>5, <3>1 DEF p
    <3>3. \A k \in 1 .. m + 1 : k \in 1 .. m \/ k = m + 1
      BY <1>2
    <3>4. \A k \in 1 .. m + 1 : log'[nth(set', k)] = q[k]
      BY <1>1, <2>6, <2>7, <3>1, <3>2, <3>3
    <3> QED BY <1>6, <2>2, <3>1, <3>4 DEF q, p
  <2>10. Ordered(set')
    <3>1. \A k \in 1 .. m + 1 : k \in 1 .. m \/ k = m + 1
      BY <1>2
    <3>2. \A k \in 1 .. m : Numbered(set', k, nth(set, k)) /\ nth(set, k) \in set'
      BY <2>3 DEF Numbered
    <3>3. n \in set'
      BY <2>1
    <3> HIDE DEF nth, set, n, m
    <3> QED BY <2>2, <2>4, <3>1, <3>2, <3>3 DEF Ordered
  <2> QED BY <1>10, <2>9, <2>10
<1> QED BY <1>9, <1>10

---------------------------------------------------------------------------
(* Shapes *)

Act(r) == Load(r) \/ Step(r) \/ Interrupt(r) \/ Crash(r)

Judged == {env \in Envelopes : env.body.code # ExitError}

RunShape(r) ==
  /\ queue[r] \in Seq(Envelopes) /\ served[r] \in Seq(Envelopes)
  /\ pc[r] = "write" => current[r] \in [env : Judged, class : Classes]
  /\ pending[r] # <<>> => pc[r] = "write"
  /\ pc[r] # "done" => exit[r] = None

Domains ==
  /\ DOMAIN pc = Runs /\ DOMAIN seen = Runs /\ DOMAIN queue = Runs /\ DOMAIN current = Runs
  /\ DOMAIN pending = Runs /\ DOMAIN codes = Runs /\ DOMAIN exit = Runs /\ DOMAIN served = Runs

ShapeInv == Domains /\ \A r \in Runs : RunShape(r)

LEMMA Others ==
  ASSUME Domains, NEW r \in Runs, Act(r), NEW s \in Runs, s # r
  PROVE  /\ pc'[s] = pc[s] /\ seen'[s] = seen[s] /\ queue'[s] = queue[s]
         /\ current'[s] = current[s] /\ pending'[s] = pending[s] /\ codes'[s] = codes[s]
         /\ exit'[s] = exit[s] /\ served'[s] = served[s]
<1>1. CASE Load(r) \/ Interrupt(r) \/ Crash(r)
  BY <1>1 DEF Domains, Load, Interrupt, Crash
<1>2. CASE FetchOne(r) \/ FetchPage(r) \/ FetchLatest(r) \/ FetchError(r)
  BY <1>2 DEF Domains, FetchOne, FetchPage, FetchLatest, FetchError, Request, Finish
<1>3. CASE Undecodable(r) \/ Judge(r) \/ WritePiece(r) \/ WriteFails(r)
  BY <1>3 DEF Domains, Undecodable, Judge, WritePiece, WriteFails, Finish
<1>4. CASE Emit(r)
  BY <1>4 DEF Domains, Emit, Finish
<1>5. CASE EndRange(r) \/ Wake(r) \/ EndWatch(r)
  BY <1>5 DEF Domains, EndRange, Wake, EndWatch, Finish
<1> QED BY <1>1, <1>2, <1>3, <1>4, <1>5 DEF Act, Step

LEMMA DomainsStay ==
  ASSUME Domains, NEW r \in Runs, Act(r)
  PROVE  Domains'
<1>1. CASE Load(r) \/ Interrupt(r) \/ Crash(r)
  BY <1>1 DEF Domains, Load, Interrupt, Crash
<1>2. CASE FetchOne(r) \/ FetchPage(r) \/ FetchLatest(r) \/ FetchError(r)
  BY <1>2 DEF Domains, FetchOne, FetchPage, FetchLatest, FetchError, Request, Finish
<1>3. CASE Undecodable(r) \/ Judge(r) \/ WritePiece(r) \/ WriteFails(r)
  BY <1>3 DEF Domains, Undecodable, Judge, WritePiece, WriteFails, Finish
<1>4. CASE Emit(r)
  BY <1>4 DEF Domains, Emit, Finish
<1>5. CASE EndRange(r) \/ Wake(r) \/ EndWatch(r)
  BY <1>5 DEF Domains, EndRange, Wake, EndWatch, Finish
<1> QED BY <1>1, <1>2, <1>3, <1>4, <1>5 DEF Act, Step

\* What each step does to its own run.
LEMMA LoadOwn ==
  ASSUME Domains, NEW r \in Runs, Load(r)
  PROVE  /\ pc[r] = "ready" /\ pc'[r] = "fetch" /\ log' = log /\ file' = file
         /\ queue'[r] = queue[r] /\ current'[r] = current[r] /\ pending'[r] = pending[r]
         /\ codes'[r] = codes[r] /\ exit'[r] = exit[r] /\ served'[r] = served[r]
BY DEF Domains, Load

LEMMA FetchOwn ==
  ASSUME Domains, NEW r \in Runs, FetchOne(r) \/ FetchPage(r) \/ FetchLatest(r)
  PROVE  /\ pc[r] = "fetch" /\ pc'[r] \in {"fetch", "judge", "sleep"}
         /\ seen'[r] = seen[r] /\ current'[r] = current[r] /\ pending'[r] = pending[r]
         /\ codes'[r] = codes[r] /\ exit'[r] = exit[r] /\ log' = log /\ file' = file
BY DEF Domains, FetchOne, FetchPage, FetchLatest, Request

LEMMA EndOwn ==
  ASSUME Domains, NEW r \in Runs,
         FetchError(r) \/ Undecodable(r) \/ EndRange(r) \/ EndWatch(r)
  PROVE  /\ pc[r] \in {"fetch", "judge"} /\ pc'[r] = "done"
         /\ seen'[r] = seen[r] /\ queue'[r] = queue[r] /\ current'[r] = current[r]
         /\ pending'[r] = pending[r] /\ codes'[r] = codes[r]
         /\ served'[r] = served[r] /\ log' = log /\ file' = file
BY DEF Domains, FetchError, Undecodable, EndRange, EndWatch, Finish

LEMMA QuietOwn ==
  ASSUME Domains, NEW r \in Runs, Wake(r) \/ Interrupt(r)
  PROVE  /\ \/ pc[r] = "sleep" /\ pc'[r] = "fetch"
            \/ pc'[r] = pc[r] /\ Running(r)
         /\ seen'[r] = seen[r] /\ queue'[r] = queue[r] /\ current'[r] = current[r]
         /\ pending'[r] = pending[r] /\ codes'[r] = codes[r] /\ exit'[r] = exit[r]
         /\ served'[r] = served[r] /\ log' = log /\ file' = file
BY DEF Domains, Wake, Interrupt

LEMMA WriteOwn ==
  ASSUME Domains, NEW r \in Runs, WritePiece(r) \/ WriteFails(r)
  PROVE  /\ pc[r] = "write" /\ pc'[r] = "write" /\ pending[r] # <<>>
         /\ seen'[r] = seen[r] /\ queue'[r] = queue[r] /\ current'[r] = current[r]
         /\ codes'[r] = codes[r] /\ exit'[r] = exit[r]
         /\ served'[r] = served[r] /\ log' = log
BY DEF Domains, WritePiece, WriteFails

LEMMA CrashOwn ==
  ASSUME Domains, NEW r \in Runs, Crash(r)
  PROVE  /\ Running(r) /\ MayCrash /\ pc'[r] = "done" /\ pending'[r] = <<>>
         /\ seen'[r] = seen[r] /\ queue'[r] = queue[r] /\ codes'[r] = codes[r]
         /\ exit'[r] = exit[r] /\ served'[r] = served[r] /\ log' = log /\ file' = file
BY DEF Domains, Crash

LEMMA JudgeOwn ==
  ASSUME ShapeInv, NEW r \in Runs, Judge(r)
  PROVE  /\ pc[r] = "judge" /\ pc'[r] = "write" /\ log' = log /\ file' = file
         /\ queue[r] # <<>> /\ Head(queue[r]) \in Judged
         /\ current'[r] = [env |-> Head(queue[r]), class |-> Classify(seen[r], Head(queue[r]))]
         /\ queue'[r] = Tail(queue[r]) /\ codes'[r] = codes[r] /\ exit'[r] = exit[r]
         /\ served'[r] = served[r]
<1>1. queue[r] \in Seq(Envelopes) /\ queue[r] # <<>>
  BY DEF ShapeInv, RunShape, Judge
<1>2. Head(queue[r]) \in Envelopes
  BY <1>1, HeadTailProperties
<1> QED BY <1>1, <1>2 DEF ShapeInv, Domains, Judge, Judged

LEMMA EmitOwn ==
  ASSUME Domains, NEW r \in Runs, Emit(r)
  PROVE  LET env == current[r].env
             code == CodeOf(env, current[r].class)
         IN /\ pc[r] = "write" /\ pending[r] = <<>>
            /\ log' = Append(log, [run |-> r, env |-> env, class |-> current[r].class,
                                   code |-> code])
            /\ seen'[r] = seen[r] /\ queue'[r] = queue[r] /\ pending'[r] = pending[r]
            /\ served'[r] = served[r] /\ file' = file
            /\ \/ /\ Sub[r] = "fetch" /\ pc'[r] = "done" /\ exit'[r] = code
                  /\ codes'[r] = codes[r]
               \/ /\ Sub[r] = "range" /\ pc'[r] = "judge" /\ exit'[r] = exit[r]
                  /\ codes'[r] = codes[r] \cup {code}
               \/ /\ Sub[r] = "watch" /\ pc'[r] = "sleep" /\ exit'[r] = exit[r]
                  /\ codes'[r] = codes[r]
BY DEF Domains, Emit, Finish

LEMMA ClassifyIsClass ==
  ASSUME NEW m, NEW env
  PROVE  Classify(m, env) \in Classes
BY DEF Classify, Classes

\* Fetching leaves sequences of envelopes.
LEMMA FetchShape ==
  ASSUME ShapeInv, NEW r \in Runs, FetchOne(r) \/ FetchPage(r) \/ FetchLatest(r)
  PROVE  queue'[r] \in Seq(Envelopes) /\ served'[r] \in Seq(Envelopes)
<1>1. queue[r] \in Seq(Envelopes) /\ served[r] \in Seq(Envelopes) /\ Domains
  BY DEF ShapeInv, RunShape
<1>2. CASE FetchOne(r)
  <2>1. PICK env \in Envelopes : queue'[r] = <<env>> /\ served'[r] = <<env>>
    BY <1>1, <1>2 DEF FetchOne, Domains
  <2> QED BY <2>1
<1>3. CASE FetchPage(r)
  <2>1. PICK page \in Pages : queue'[r] = queue[r] \o page /\ served'[r] = served[r] \o page
    BY <1>1, <1>3 DEF FetchPage, Domains
  <2>2. page \in Seq(Envelopes)
    <3>1. PICK n \in 0 .. MaxPage : page \in [1 .. n -> Envelopes]
      BY <2>1 DEF Pages
    <3>2. n \in Nat
      BY AuditAssumption
    <3> QED BY <3>1, <3>2
  <2> QED BY <1>1, <2>1, <2>2, ConcatProperties
<1>4. CASE FetchLatest(r)
  <2>1. \/ queue'[r] = queue[r] /\ served'[r] = served[r]
        \/ \E env \in Envelopes : /\ queue'[r] \in {queue[r], <<env>>}
                                  /\ served'[r] = Append(served[r], env)
    BY <1>1, <1>4 DEF FetchLatest, Domains
  <2>2. CASE \E env \in Envelopes : /\ queue'[r] \in {queue[r], <<env>>}
                                    /\ served'[r] = Append(served[r], env)
    <3>1. PICK env \in Envelopes : /\ queue'[r] \in {queue[r], <<env>>}
                                    /\ served'[r] = Append(served[r], env)
      BY <2>2
    <3>2. <<env>> \in Seq(Envelopes)
      OBVIOUS
    <3> QED BY <1>1, <3>1, <3>2, AppendProperties
  <2> QED BY <1>1, <2>1, <2>2
<1> QED BY <1>2, <1>3, <1>4

LEMMA ShapeStep ==
  ASSUME ShapeInv, NEW r \in Runs, Act(r)
  PROVE  ShapeInv'
<1>1. Domains /\ Domains' /\ RunShape(r)
  BY DomainsStay DEF ShapeInv
<1>2. ASSUME NEW s \in Runs, s # r PROVE RunShape(s)'
  BY <1>1, <1>2, Others DEF ShapeInv, RunShape
<1>3. RunShape(r)'
  <2>1. CASE Load(r)
    BY <1>1, <2>1, LoadOwn DEF RunShape
  <2>2. CASE FetchOne(r) \/ FetchPage(r) \/ FetchLatest(r)
    BY <1>1, <2>2, FetchOwn, FetchShape DEF RunShape
  <2>3. CASE FetchError(r) \/ Undecodable(r) \/ EndRange(r) \/ EndWatch(r)
    BY <1>1, <2>3, EndOwn DEF RunShape
  <2>4. CASE Wake(r) \/ Interrupt(r)
    BY <1>1, <2>4, QuietOwn DEF RunShape, Running
  <2>5. CASE WritePiece(r) \/ WriteFails(r)
    BY <1>1, <2>5, WriteOwn DEF RunShape
  <2>6. CASE Crash(r)
    BY <1>1, <2>6, CrashOwn DEF RunShape
  <2>7. CASE Judge(r)
    <3>0. Classify(seen[r], Head(queue[r])) \in Classes
      BY ClassifyIsClass
    <3>1. current'[r] \in [env : Judged, class : Classes]
      <4> DEFINE env == Head(queue[r])
                 class == Classify(seen[r], env)
      <4>1. env \in Judged /\ current'[r] = [env |-> env, class |-> class]
        BY <2>7, JudgeOwn
      <4>2. class \in Classes
        BY <3>0
      <4> HIDE DEF env, class
      <4> QED BY <4>1, <4>2
    <3>2. Tail(queue[r]) \in Seq(Envelopes)
      BY <1>1, <2>7, JudgeOwn, HeadTailProperties DEF RunShape
    <3> QED BY <1>1, <2>7, <3>1, <3>2, JudgeOwn DEF RunShape
  <2>8. CASE Emit(r)
    BY <1>1, <2>8, EmitOwn DEF RunShape
  <2> QED BY <2>1, <2>2, <2>3, <2>4, <2>5, <2>6, <2>7, <2>8 DEF Act, Step
<1> QED BY <1>1, <1>2, <1>3 DEF ShapeInv

LEMMA ShapeInvariant == Spec => []ShapeInv
<1>1. Init => ShapeInv
  BY DEF Init, ShapeInv, Domains, RunShape
<1>2. ShapeInv /\ [Next]_vars => ShapeInv'
  <2>1. ASSUME ShapeInv, UNCHANGED vars PROVE ShapeInv'
    BY <2>1 DEF ShapeInv, Domains, RunShape, vars
  <2> QED BY <2>1, ShapeStep DEF Next, Act
<1> QED BY <1>1, <1>2, PTL DEF Spec

\* What a run prints is a report, and reports stay in order.
LEMMA EmitsAReport ==
  ASSUME ShapeInv, NEW r \in Runs, Emit(r)
  PROVE  [run |-> r, env |-> current[r].env, class |-> current[r].class,
          code |-> CodeOf(current[r].env, current[r].class)] \in Reports
<1>1. current[r] \in [env : Judged, class : Classes]
  BY EmitOwn DEF ShapeInv, RunShape
<1>2. current[r].env \in Envelopes /\ current[r].env.body.code # ExitError
  BY <1>1 DEF Judged
<1>3. current[r].env.body \in Bodies
  BY <1>2 DEF Envelopes
<1>4. CodeOf(current[r].env, current[r].class) \in {ExitSuccess, ExitInvalid, ExitInconclusive}
  BY <1>2, <1>3, AuditAssumption DEF CodeOf
<1> QED BY <1>1, <1>2, <1>4 DEF Reports

\* Every other step prints nothing.
LEMMA PrintsNothing ==
  ASSUME NEW r \in Runs, Act(r), ~Emit(r)
  PROVE  log' = log
BY DEF Act, Step, Load, Interrupt, Crash, FetchOne, FetchPage, FetchLatest, FetchError,
       Undecodable, Judge, WritePiece, WriteFails, EndRange, Wake, EndWatch

LEMMA InitOrder ==
  ASSUME log = <<>>
  PROVE  OrderInv
<1>1. log \in Seq(Reports) /\ \A runs : Theirs(runs) = {}
  BY DEF Theirs
<1>2. 1 .. Cardinality({}) = {}
  BY FS_EmptySet
<1>3. Ordered({})
  BY <1>2 DEF Ordered
<1> QED BY <1>1, <1>3 DEF OrderInv

LEMMA OrderInvariant == Spec => []OrderInv
<1>1. Init => OrderInv
  BY InitOrder DEF Init
<1>2. ShapeInv /\ OrderInv /\ [Next]_vars => OrderInv'
  <2>1. ASSUME OrderInv, log' = log PROVE OrderInv'
    <3>1. \A runs : Theirs(runs)' = Theirs(runs)
      BY <2>1 DEF Theirs
    <3> QED BY <2>1, <3>1 DEF OrderInv
  <2>2. ASSUME ShapeInv, OrderInv, NEW r \in Runs, Emit(r) PROVE OrderInv'
    <3> DEFINE e == [run |-> r, env |-> current[r].env, class |-> current[r].class,
                     code |-> CodeOf(current[r].env, current[r].class)]
    <3>1. e \in Reports /\ log' = Append(log, e)
      BY <2>2, EmitsAReport, EmitOwn DEF ShapeInv
    <3> HIDE DEF e
    <3>2. log' \in Seq(Reports)
      BY <2>2, <3>1, AppendProperties DEF OrderInv
    <3>3. \A runs \in SUBSET Runs : Ordered(Theirs(runs))'
      BY <2>2, <3>1, PrintedGrows
    <3> QED BY <3>2, <3>3 DEF OrderInv
  <2>3. ASSUME UNCHANGED vars PROVE log' = log
    BY <2>3 DEF vars
  <2> QED BY <2>1, <2>2, <2>3, PrintsNothing DEF Next, Act
<1> QED BY <1>1, <1>2, ShapeInvariant, PTL DEF Spec

---------------------------------------------------------------------------
(* The exit code of a fetch and of a range *)

Printed(r) == PrintedBy({r})

\* The envelope at hand.
Held(r) == IF pc[r] = "write" THEN 1 ELSE 0

\* Of what a run was served, the first part is printed, the next one may be at hand,
\* and the rest is queued.
Handled(r) ==
  /\ Len(served[r]) = Len(Printed(r)) + Held(r) + Len(queue[r])
  /\ \A k \in 1 .. Len(Printed(r)) : Printed(r)[k].env = served[r][k]
  /\ pc[r] = "write" => current[r].env = served[r][Len(Printed(r)) + 1]
  /\ \A k \in 1 .. Len(queue[r]) : queue[r][k] = served[r][Len(Printed(r)) + Held(r) + k]

PrintedCodes(r) == {Printed(r)[k].code : k \in 1 .. Len(Printed(r))}

Covered(r) ==
  /\ Len(Printed(r)) = Len(served[r])
  /\ \A k \in 1 .. Len(Printed(r)) : Printed(r)[k].env = served[r][k]
  /\ exit[r] = WorstExit(PrintedCodes(r))

RunCovers(r) == Sub[r] # "watch" =>
  /\ pc[r] # "sleep"
  /\ pc[r] # "done" => Handled(r)
  /\ pc[r] # "done" /\ Sub[r] = "range" => codes[r] = PrintedCodes(r)
  /\ Sub[r] = "fetch" /\ pc[r] # "done" =>
       Len(served[r]) = IF pc[r] \in {"ready", "fetch"} THEN 0 ELSE 1
  /\ exit[r] \notin {None, ExitError} => Covered(r)

CoverInv == \A r \in Runs : RunCovers(r)

LEMMA PrintedStays ==
  ASSUME ShapeInv, OrderInv, NEW r \in Runs, Act(r), NEW s \in Runs, s # r \/ ~Emit(r)
  PROVE  Printed(s)' = Printed(s)
<1>1. CASE log' = log
  BY <1>1 DEF Printed, PrintedBy
<1>2. CASE Emit(r)
  <2> DEFINE e == [run |-> r, env |-> current[r].env, class |-> current[r].class,
                   code |-> CodeOf(current[r].env, current[r].class)]
  <2>1. e \in Reports /\ log' = Append(log, e) /\ e.run = r
    BY <1>2, EmitsAReport, EmitOwn DEF ShapeInv
  <2> HIDE DEF e
  <2> QED BY <1>2, <2>1, PrintedGrows DEF Printed
<1> QED BY <1>1, <1>2, PrintsNothing

LEMMA PrintedSeq ==
  ASSUME OrderInv, NEW r \in Runs
  PROVE  /\ Printed(r) \in Seq(Reports) /\ Len(Printed(r)) \in Nat
         /\ DOMAIN Printed(r) = 1 .. Len(Printed(r))
BY PrintedIsSeq DEF Printed

\* Nothing of what a run handled changes.
LEMMA HandledStays ==
  ASSUME NEW r \in Runs, Handled(r), Printed(r)' = Printed(r), served'[r] = served[r],
         queue'[r] = queue[r], pc[r] # "write", pc'[r] # "write"
  PROVE  Handled(r)'
BY DEF Handled, Held

LEMMA FetchHandles ==
  ASSUME ShapeInv, OrderInv, NEW r \in Runs, RunCovers(r), Sub[r] # "watch",
         FetchOne(r) \/ FetchPage(r), Printed(r)' = Printed(r)
  PROVE  Handled(r)' /\ (Sub[r] = "fetch" => Len(served'[r]) = 1 /\ pc'[r] = "judge")
<1> DEFINE m == Len(Printed(r))
           q == queue[r]
           v == served[r]
<1>1. m \in Nat /\ q \in Seq(Envelopes) /\ v \in Seq(Envelopes) /\ Domains
      /\ Len(q) \in Nat /\ Len(v) \in Nat
  BY PrintedSeq, LenProperties DEF ShapeInv, RunShape
<1>2. pc[r] = "fetch" /\ pc'[r] # "write" /\ Held(r) = 0 /\ Held(r)' = 0
  BY <1>1, FetchOwn DEF Held
<1>3. /\ Len(v) = m + Len(q)
      /\ \A k \in 1 .. m : Printed(r)[k].env = v[k]
      /\ \A k \in 1 .. Len(q) : q[k] = v[m + k]
  BY <1>1, <1>2 DEF RunCovers, Handled
<1>4. SUFFICES ASSUME NEW q2, NEW v2, q2 = queue'[r], v2 = served'[r]
               PROVE  /\ Len(v2) = m + Len(q2)
                      /\ \A k \in 1 .. m : Printed(r)[k].env = v2[k]
                      /\ \A k \in 1 .. Len(q2) : q2[k] = v2[m + k]
                      /\ Sub[r] = "fetch" => Len(v2) = 1 /\ pc'[r] = "judge"
  <2>1. m + 0 = m
    BY <1>1
  <2>2. /\ Len(Printed(r)') = m /\ Printed(r)' = Printed(r)
    OBVIOUS
  <2> HIDE DEF m
  <2> QED BY <1>2, <2>1, <2>2 DEF Handled
<1>5. CASE FetchOne(r)
  <2>1. PICK env \in Envelopes : q2 = <<env>> /\ v2 = <<env>>
    BY <1>1, <1>4, <1>5 DEF FetchOne, Domains
  <2>2. Len(v) = 0 /\ pc'[r] = "judge"
    BY <1>1, <1>2, <1>5 DEF RunCovers, FetchOne, Domains
  <2>3. m = 0
    BY <1>1, <1>3, <2>2
  <2> HIDE DEF m, q, v
  <2> QED BY <2>1, <2>2, <2>3
<1>6. CASE FetchPage(r)
  <2>1. PICK page \in Pages : q2 = q \o page /\ v2 = v \o page
    BY <1>1, <1>4, <1>6 DEF FetchPage, Domains
  <2>2. page \in Seq(Envelopes)
    <3>1. PICK n \in 0 .. MaxPage : page \in [1 .. n -> Envelopes]
      BY <2>1 DEF Pages
    <3>2. n \in Nat
      BY AuditAssumption
    <3> QED BY <3>1, <3>2
  <2> HIDE DEF q, v, m
  <2>3. /\ Len(page) \in Nat /\ Len(q2) = Len(q) + Len(page) /\ Len(v2) = Len(v) + Len(page)
        /\ \A k \in 1 .. Len(q) : q2[k] = q[k]
        /\ \A k \in 1 .. Len(page) : q2[Len(q) + k] = page[k]
        /\ \A k \in 1 .. Len(v) : v2[k] = v[k]
        /\ \A k \in 1 .. Len(page) : v2[Len(v) + k] = page[k]
    BY <1>1, <2>1, <2>2, ConcatProperties, LenProperties
  <2>4. Len(v2) = m + Len(q2)
    BY <1>1, <1>3, <2>3
  <2>5. \A k \in 1 .. m : Printed(r)[k].env = v2[k]
    BY <1>1, <1>3, <2>3
  <2>6. ASSUME NEW k \in 1 .. Len(q2) PROVE q2[k] = v2[m + k]
    <3>1. CASE k \in 1 .. Len(q)
      <4>1. m + k \in 1 .. Len(v)
        BY <1>1, <1>3, <3>1
      <4> QED BY <1>3, <2>3, <3>1, <4>1
    <3>2. CASE k \notin 1 .. Len(q)
      <4>1. k - Len(q) \in 1 .. Len(page) /\ Len(q) + (k - Len(q)) = k
            /\ Len(v) + (k - Len(q)) = m + k
        BY <1>1, <1>3, <2>3, <3>2
      <4> QED BY <2>3, <4>1
    <3> QED BY <3>1, <3>2
  <2>7. Sub[r] # "fetch"
    BY <1>6 DEF FetchPage
  <2> QED BY <2>4, <2>5, <2>6, <2>7
<1> QED BY <1>5, <1>6, FetchOwn DEF FetchOne, FetchPage

LEMMA JudgeHandles ==
  ASSUME ShapeInv, OrderInv, NEW r \in Runs, Handled(r), Judge(r), Printed(r)' = Printed(r)
  PROVE  Handled(r)'
<1> DEFINE m == Len(Printed(r))
           q == queue[r]
           v == served[r]
<1>1. m \in Nat /\ q \in Seq(Envelopes) /\ v \in Seq(Envelopes) /\ Len(q) \in Nat /\ q # <<>>
  BY PrintedSeq, LenProperties, JudgeOwn DEF ShapeInv, RunShape
<1>2. /\ pc[r] = "judge" /\ pc'[r] = "write" /\ Held(r) = 0 /\ Held(r)' = 1
      /\ queue'[r] = Tail(q) /\ served'[r] = v /\ current'[r].env = Head(q)
  <2>1. current'[r] = [env |-> Head(q), class |-> Classify(seen[r], Head(q))]
    BY JudgeOwn
  <2>2. current'[r].env = Head(q)
    BY <2>1
  <2>3. /\ pc[r] = "judge" /\ pc'[r] = "write" /\ queue'[r] = Tail(q) /\ served'[r] = v
    BY JudgeOwn
  <2> QED BY <2>2, <2>3 DEF Held
<1>3. /\ Len(v) = m + Len(q)
      /\ \A k \in 1 .. m : Printed(r)[k].env = v[k]
      /\ \A k \in 1 .. Len(q) : q[k] = v[m + k]
  BY <1>1, <1>2 DEF Handled
<1>4. /\ Len(Tail(q)) = Len(q) - 1 /\ Len(q) > 0 /\ Head(q) = q[1]
      /\ \A k \in 1 .. Len(q) - 1 : Tail(q)[k] = q[k + 1]
  BY <1>1, HeadTailProperties, EmptySeq, LenProperties
<1>5. Len(v) = m + 1 + Len(Tail(q)) /\ Head(q) = v[m + 1]
  <2> HIDE DEF m, q, v
  <2>1. Len(q) \in Nat /\ Len(q) > 0 /\ m \in Nat
    BY <1>1, <1>4
  <2>2. 1 \in 1 .. Len(q) /\ m + 1 + (Len(q) - 1) = m + Len(q)
    BY <2>1
  <2> QED BY <1>3, <1>4, <2>2
<1>6. ASSUME NEW k \in 1 .. Len(Tail(q)) PROVE Tail(q)[k] = v[m + 1 + k]
  <2>1. k + 1 \in 1 .. Len(q) /\ m + (k + 1) = m + 1 + k /\ k \in 1 .. Len(q) - 1
    BY <1>1, <1>4
  <2> QED BY <1>3, <1>4, <2>1
<1> HIDE DEF q, v
<1> QED BY <1>2, <1>3, <1>5, <1>6 DEF Handled

\* Printing moves the envelope at hand to the printed ones.
LEMMA EmitHandles ==
  ASSUME ShapeInv, OrderInv, NEW r \in Runs, Handled(r), Emit(r), pc'[r] # "write"
  PROVE  LET code == CodeOf(current[r].env, current[r].class) IN
           /\ Handled(r)' /\ Len(Printed(r)') = Len(Printed(r)) + 1
           /\ code \in {ExitSuccess, ExitInvalid, ExitInconclusive}
           /\ PrintedCodes(r)' = PrintedCodes(r) \cup {code}
<1> DEFINE e == [run |-> r, env |-> current[r].env, class |-> current[r].class,
                 code |-> CodeOf(current[r].env, current[r].class)]
           p == Printed(r)
           m == Len(p)
           q == queue[r]
           v == served[r]
<1>1. e \in Reports /\ log' = Append(log, e) /\ e.run = r /\ Domains
  BY EmitsAReport, EmitOwn DEF ShapeInv
<1>2. Printed(r)' = Append(p, e)
  <2> HIDE DEF e
  <2> QED BY <1>1, PrintedGrows DEF Printed
<1>3. p \in Seq(Reports) /\ m \in Nat /\ q \in Seq(Envelopes) /\ Len(q) \in Nat
  BY PrintedSeq, LenProperties DEF ShapeInv, RunShape
<1>4. /\ Append(p, e) \in Seq(Reports) /\ Len(Append(p, e)) = m + 1 /\ Append(p, e)[m + 1] = e
      /\ \A k \in 1 .. m : Append(p, e)[k] = p[k]
  <2> HIDE DEF e, p
  <2> QED BY <1>1, <1>3, AppendProperties
<1>5. /\ pc[r] = "write" /\ Held(r) = 1 /\ Held(r)' = 0
      /\ queue'[r] = q /\ served'[r] = v /\ e.env = current[r].env
  BY <1>1, EmitOwn DEF Held
<1>6. /\ Len(v) = m + 1 + Len(q) /\ e.env = v[m + 1]
      /\ \A k \in 1 .. m : p[k].env = v[k]
      /\ \A k \in 1 .. Len(q) : q[k] = v[m + 1 + k]
  BY <1>5 DEF Handled
<1>7. e.code = CodeOf(current[r].env, current[r].class)
      /\ e.code \in {ExitSuccess, ExitInvalid, ExitInconclusive}
  BY <1>1 DEF Reports
<1> DEFINE p2 == Append(p, e)
<1>8. \A k \in 1 .. m + 1 : k \in 1 .. m \/ k = m + 1
  BY <1>3
<1>9. {p2[k].code : k \in 1 .. m + 1} = {p[k].code : k \in 1 .. m} \cup {e.code}
  <2> HIDE DEF e, p
  <2>1. 1 .. m \subseteq 1 .. m + 1 /\ m + 1 \in 1 .. m + 1
    BY <1>3
  <2> HIDE DEF m, p2
  <2> QED BY <1>4, <1>8, <2>1 DEF p2
<1>10. Handled(r)'
  <2>1. \A k \in 1 .. m + 1 : p2[k].env = v[k]
    <3> HIDE DEF e, p, m, v
    <3> QED BY <1>4, <1>6, <1>8
  <2>2. m + 1 + 0 = m + 1
    BY <1>3
  <2>3. Printed(r)' = p2 /\ Len(p2) = m + 1
    BY <1>2, <1>4
  <2> HIDE DEF e, p, m, v, q, p2
  <2> QED BY <1>5, <1>6, <2>1, <2>2, <2>3 DEF Handled, v, q
<1>11. PrintedCodes(r)' = {p2[k].code : k \in 1 .. m + 1} /\ Len(Printed(r)') = m + 1
  <2>1. Printed(r)' = p2 /\ Len(p2) = m + 1
    BY <1>2, <1>4
  <2> HIDE DEF p2, m
  <2> QED BY <2>1 DEF PrintedCodes
<1> QED BY <1>7, <1>9, <1>10, <1>11 DEF PrintedCodes

\* The worst of one code is that code.
LEMMA WorstOfOne ==
  ASSUME NEW c \in {ExitSuccess, ExitInvalid, ExitInconclusive}
  PROVE  WorstExit({c}) = c
BY DEF WorstExit, ExitSuccess, ExitInvalid, ExitInconclusive

LEMMA CoverStep ==
  ASSUME ShapeInv, OrderInv, NEW r \in Runs, RunCovers(r), Act(r)
  PROVE  RunCovers(r)'
<1> SUFFICES ASSUME Sub[r] # "watch" PROVE RunCovers(r)'
  BY DEF RunCovers
<1>1. Domains /\ RunShape(r) /\ Sub[r] \in {"fetch", "range"}
  BY AuditAssumption DEF ShapeInv
<1>2. CASE Load(r) \/ Wake(r) \/ Interrupt(r)
  <2>1. Printed(r)' = Printed(r)
    BY <1>2, PrintedStays DEF Load, Wake, Interrupt, Emit
  <2>2. /\ served'[r] = served[r] /\ queue'[r] = queue[r] /\ codes'[r] = codes[r]
        /\ exit'[r] = exit[r] /\ current'[r] = current[r] /\ pc'[r] # "done" /\ pc[r] # "done"
    BY <1>1, <1>2, LoadOwn, QuietOwn DEF Running
  <2>3. pc[r] = "ready" /\ pc'[r] = "fetch"
    BY <1>1, <1>2, LoadOwn DEF Wake, Interrupt, RunCovers
  <2>4. exit'[r] = None
    BY <1>1, <2>2 DEF RunShape
  <2>5. Handled(r)'
    BY <2>1, <2>2, <2>3, HandledStays DEF RunCovers
  <2> QED BY <2>1, <2>2, <2>3, <2>4, <2>5 DEF RunCovers, PrintedCodes
<1>3. CASE FetchOne(r) \/ FetchPage(r)
  <2>1. Printed(r)' = Printed(r)
    BY <1>3, PrintedStays DEF FetchOne, FetchPage, Request, Emit
  <2>2. /\ codes'[r] = codes[r] /\ exit'[r] = None
        /\ pc'[r] \in {"fetch", "judge"} /\ pc[r] = "fetch"
    BY <1>1, <1>3, FetchOwn DEF RunShape, FetchOne, FetchPage, Domains
  <2>3. Handled(r)' /\ (Sub[r] = "fetch" => Len(served'[r]) = 1 /\ pc'[r] = "judge")
    BY <1>3, <2>1, FetchHandles
  <2> QED BY <2>1, <2>2, <2>3 DEF RunCovers, PrintedCodes
<1>4. CASE FetchLatest(r) \/ EndWatch(r)
  BY <1>4 DEF FetchLatest, EndWatch
<1>5. CASE FetchError(r) \/ Undecodable(r) \/ Crash(r)
  <2>1. pc'[r] = "done" /\ exit'[r] \in {None, ExitError}
    BY <1>1, <1>5 DEF FetchError, Undecodable, Crash, Finish, Domains, Running, RunShape
  <2> QED BY <2>1 DEF RunCovers
<1>6. CASE EndRange(r)
  <2>1. Printed(r)' = Printed(r)
    BY <1>6, PrintedStays DEF EndRange, Emit
  <2>2. /\ pc'[r] = "done" /\ served'[r] = served[r] /\ pc[r] = "judge" /\ queue[r] = <<>>
        /\ exit'[r] = WorstExit(codes[r]) /\ Sub[r] = "range"
    BY <1>1, <1>6 DEF EndRange, Finish, Domains
  <2>3. Handled(r) /\ codes[r] = PrintedCodes(r) /\ Held(r) = 0
    BY <2>2 DEF RunCovers, Held
  <2>4. Len(Printed(r)) \in Nat
    BY PrintedSeq
  <2>5. Len(served[r]) = Len(Printed(r)) /\ \A k \in 1 .. Len(Printed(r)) : Printed(r)[k].env = served[r][k]
    BY <2>2, <2>3, <2>4 DEF Handled
  <2>6. Covered(r)'
    BY <2>1, <2>2, <2>3, <2>5 DEF Covered, PrintedCodes
  <2> QED BY <2>2, <2>6 DEF RunCovers
<1>7. CASE Judge(r)
  <2>1. Printed(r)' = Printed(r)
    BY <1>7, PrintedStays DEF Judge, Emit
  <2>2. /\ pc[r] = "judge" /\ pc'[r] = "write" /\ codes'[r] = codes[r] /\ exit'[r] = None
        /\ served'[r] = served[r]
    BY <1>1, <1>7, JudgeOwn DEF RunShape
  <2>3. Handled(r)'
    BY <1>7, <2>1, <2>2, JudgeHandles DEF RunCovers
  <2> QED BY <2>1, <2>2, <2>3 DEF RunCovers, PrintedCodes
<1>8. CASE WritePiece(r) \/ WriteFails(r)
  <2>1. Printed(r)' = Printed(r)
    BY <1>8, PrintedStays DEF WritePiece, WriteFails, Emit
  <2>2. /\ pc[r] = "write" /\ pc'[r] = "write" /\ codes'[r] = codes[r] /\ exit'[r] = None
        /\ served'[r] = served[r] /\ queue'[r] = queue[r] /\ current'[r] = current[r]
    BY <1>1, <1>8, WriteOwn DEF RunShape
  <2>3. Handled(r)'
    BY <2>1, <2>2 DEF RunCovers, Handled, Held
  <2> QED BY <2>1, <2>2, <2>3 DEF RunCovers, PrintedCodes
<1>9. CASE Emit(r)
  <2> DEFINE code == CodeOf(current[r].env, current[r].class)
  <2>1. /\ pc[r] = "write" /\ served'[r] = served[r]
        /\ \/ /\ Sub[r] = "fetch" /\ pc'[r] = "done" /\ exit'[r] = code
           \/ /\ Sub[r] = "range" /\ pc'[r] = "judge" /\ exit'[r] = None
              /\ codes'[r] = codes[r] \cup {code}
    BY <1>1, <1>9, EmitOwn DEF RunShape
  <2>2. Handled(r) /\ pc'[r] # "write"
    BY <2>1 DEF RunCovers
  <2>3. /\ Handled(r)' /\ Len(Printed(r)') = Len(Printed(r)) + 1
        /\ code \in {ExitSuccess, ExitInvalid, ExitInconclusive}
        /\ PrintedCodes(r)' = PrintedCodes(r) \cup {code}
    BY <1>9, <2>2, EmitHandles
  <2> HIDE DEF code
  <2>4. CASE Sub[r] = "range"
    <3>1. codes[r] = PrintedCodes(r)
      BY <2>1, <2>4 DEF RunCovers
    <3> QED BY <2>1, <2>3, <2>4, <3>1 DEF RunCovers
  <2>5. CASE Sub[r] = "fetch"
    <3>1. Len(served[r]) = 1 /\ Len(Printed(r)) \in Nat /\ Len(queue[r]) \in Nat /\ Held(r) = 1
      BY <1>1, <2>1, <2>5, PrintedSeq, LenProperties DEF RunCovers, RunShape, Held
    <3>2. Len(Printed(r)) = 0 /\ Len(queue[r]) = 0
      <4>1. 1 = Len(Printed(r)) + 1 + Len(queue[r])
        BY <2>2, <3>1 DEF Handled
      <4>2. ASSUME NEW a \in Nat, NEW b \in Nat, 1 = a + 1 + b PROVE a = 0 /\ b = 0
        BY <4>2
      <4> QED BY <3>1, <4>1, <4>2
    <3>3. PrintedCodes(r) = {}
      BY <3>2 DEF PrintedCodes
    <3>4. exit'[r] = WorstExit(PrintedCodes(r)')
      BY <2>1, <2>3, <2>5, <3>3, WorstOfOne
    <3>5. Len(Printed(r)') = 1 /\ Len(served'[r]) = 1
      BY <2>1, <2>3, <3>1, <3>2
    <3>6. Covered(r)'
      BY <2>3, <3>4, <3>5 DEF Covered, Handled
    <3> QED BY <2>1, <2>5, <3>6 DEF RunCovers
  <2> QED BY <1>1, <2>4, <2>5
<1> QED BY <1>2, <1>3, <1>4, <1>5, <1>6, <1>7, <1>8, <1>9 DEF Act, Step

\* A run's own part does not change when another one acts.
LEMMA CoverOthers ==
  ASSUME ShapeInv, OrderInv, NEW r \in Runs, Act(r), NEW s \in Runs, s # r, RunCovers(s)
  PROVE  RunCovers(s)'
<1>1. Printed(s)' = Printed(s)
  BY PrintedStays
<1>2. /\ pc'[s] = pc[s] /\ queue'[s] = queue[s] /\ current'[s] = current[s]
      /\ codes'[s] = codes[s] /\ exit'[s] = exit[s] /\ served'[s] = served[s]
  BY Others DEF ShapeInv
<1>3. Held(s)' = Held(s) /\ PrintedCodes(s)' = PrintedCodes(s)
  BY <1>1, <1>2 DEF Held, PrintedCodes
<1>4. Handled(s) => Handled(s)'
  BY <1>1, <1>2, <1>3 DEF Handled
<1>5. Covered(s) => Covered(s)'
  BY <1>1, <1>2, <1>3 DEF Covered
<1> QED BY <1>2, <1>3, <1>4, <1>5 DEF RunCovers

\* A fetch or a range that ends with a verdict printed a report for every envelope
\* it was served, in order, and its exit code is the worst of them: neither an
\* early end, nor a failing store, nor a run at the same time lets it end well
\* with less (run_range, emit).
THEOREM ExitCoversAllTheorem == Spec => []ExitCoversAll
<1>1. Init => CoverInv
  <2> SUFFICES ASSUME Init, NEW r \in Runs PROVE RunCovers(r)
    BY DEF CoverInv
  <2>1. log = <<>>
    BY DEF Init
  <2>2. {j \in DOMAIN log : log[j].run \in {r}} = {}
    BY <2>1
  <2>4. Printed(r) = <<>>
    <3>1. OrderInv
      BY <2>1, InitOrder
    <3>2. Printed(r) \in Seq(Reports) /\ Len(Printed(r)) = 0
      BY <2>2, <3>1, PrintedIsSeq, FS_EmptySet DEF Printed, Theirs
    <3> QED BY <3>2, EmptySeq
  <2>5. /\ pc[r] = "ready" /\ served[r] = <<>> /\ queue[r] = <<>> /\ codes[r] = {}
        /\ exit[r] = None
    BY DEF Init
  <2> QED BY <2>4, <2>5 DEF RunCovers, Handled, Held, PrintedCodes
<1>2. ShapeInv /\ OrderInv /\ CoverInv /\ [Next]_vars => CoverInv'
  <2>1. ASSUME ShapeInv, OrderInv, CoverInv, NEW r \in Runs, Act(r), NEW s \in Runs
        PROVE  RunCovers(s)'
    BY <2>1, CoverStep, CoverOthers DEF CoverInv
  <2>2. ASSUME CoverInv, UNCHANGED vars PROVE CoverInv'
    <3> SUFFICES ASSUME NEW r \in Runs PROVE RunCovers(r)'
      BY DEF CoverInv
    <3>1. Printed(r)' = Printed(r)
      BY <2>2 DEF Printed, PrintedBy, vars
    <3>2. /\ pc'[r] = pc[r] /\ queue'[r] = queue[r] /\ current'[r] = current[r]
          /\ codes'[r] = codes[r] /\ exit'[r] = exit[r] /\ served'[r] = served[r]
      BY <2>2 DEF vars
    <3>3. Held(r)' = Held(r) /\ PrintedCodes(r)' = PrintedCodes(r)
      BY <3>1, <3>2 DEF Held, PrintedCodes
    <3>4. RunCovers(r)
      BY <2>2 DEF CoverInv
    <3>5. Handled(r) => Handled(r)'
      BY <3>1, <3>2, <3>3 DEF Handled
    <3>6. Covered(r) => Covered(r)'
      BY <3>1, <3>2, <3>3 DEF Covered
    <3> QED BY <3>2, <3>3, <3>4, <3>5, <3>6 DEF RunCovers
  <2> QED BY <2>1, <2>2 DEF CoverInv, Next, Act
<1>3. OrderInv /\ CoverInv => ExitCoversAll
  <2> SUFFICES ASSUME OrderInv, CoverInv, NEW r \in Runs, exit[r] \notin {None, ExitError},
                      Sub[r] # "watch"
               PROVE  LET mine == PrintedBy({r}) IN
                        /\ Len(mine) = Len(served[r])
                        /\ \A k \in DOMAIN mine : mine[k].env = served[r][k]
                        /\ exit[r] = WorstExit({mine[k].code : k \in DOMAIN mine})
    BY DEF ExitCoversAll
  <2>1. Covered(r) /\ DOMAIN Printed(r) = 1 .. Len(Printed(r))
    BY PrintedSeq DEF CoverInv, RunCovers
  <2> QED BY <2>1 DEF Covered, PrintedCodes, Printed
<1> QED BY <1>1, <1>2, <1>3, ShapeInvariant, OrderInvariant, PTL DEF Spec

---------------------------------------------------------------------------
(* What runs that are not disturbed remember *)

\* Runs without a store may overlap and be killed; runs with one follow each other
\* and can read and write it.
Undisturbed == Stored = {} \/ (Serial /\ ~MayCrash /\ ~StoreMayFail)

IdWords   == {<<i>> : i \in Ids}
HashWords == {<<b.hash>> : b \in Bodies}
Lines     == Seq(Seq(Ids \cup {b.hash : b \in Bodies}))

\* The reports a run has to remember, and the first of them about an id.
Shared(L, r) == {j \in DOMAIN L : Share(L[j].run, r)}

IsFirst(L, r, j) ==
  j \in Shared(L, r) /\ \A i \in Shared(L, r) : L[i].env.id = L[j].env.id => j <= i

\* The map holds the hash of the first report about each id, and besides the
\* reported ids only new ones.
Remembers(L, m, r, new) ==
  /\ DOMAIN m \subseteq IdWords /\ m \in [DOMAIN m -> HashWords]
  /\ \A j \in Shared(L, r) :
       /\ <<L[j].env.id>> \in DOMAIN m
       /\ \E i \in Shared(L, r) :
            /\ IsFirst(L, r, i) /\ L[i].env.id = L[j].env.id
            /\ m[<<L[i].env.id>>] = <<L[i].env.body.hash>>
  /\ \A id \in Ids : <<id>> \in DOMAIN m =>
       id \in new \/ \E j \in Shared(L, r) : L[j].env.id = id
  /\ \A id \in new : <<id>> \in DOMAIN m /\ \A j \in Shared(L, r) : L[j].env.id # id

\* The id recorded and not reported yet.
New(r) == IF pc[r] = "write" /\ current[r].class = "new" THEN {current[r].env.id} ELSE {}

\* The envelope at hand is in the map, and conflicts with it or not.
AtHand(r) == pc[r] = "write" =>
  /\ <<current[r].env.id>> \in DOMAIN seen[r]
  /\ current[r].class = "conflict" <=>
       seen[r][<<current[r].env.id>>] # <<current[r].env.body.hash>>

MemoryInv == \A r \in Runs : Running(r) => Remembers(log, seen[r], r, New(r)) /\ AtHand(r)

\* Each full line of the file is an entry of the map, and none is there twice.
FullLines(f, m) ==
  /\ f \in Seq(Lines) /\ Len(f) > 0
  /\ \A l \in 1 .. Len(f) - 1 : \E k \in DOMAIN m : f[l] = <<k, m[k]>>
  /\ \A l, o \in 1 .. Len(f) - 1 : f[l] = f[o] => l = o

Lists(f, m, k) == \E l \in 1 .. Len(f) - 1 : f[l] = <<k, m[k]>>

\* The file is the map, line by line.
Spells(f, m) ==
  /\ FullLines(f, m)
  /\ \A k \in DOMAIN m : Lists(f, m, k)
  /\ f[Len(f)] = << <<>> >>

\* All but the last line is the map without the new entry, whose pieces go to the
\* last line one by one.
PartlySpells(f, m, env, left) ==
  LET id   == env.id
      hash == env.body.hash
      line == f[Len(f)]
  IN /\ FullLines(f, m)
     /\ <<id>> \in DOMAIN m /\ m[<<id>>] = <<hash>> /\ ~Lists(f, m, <<id>>)
     /\ \A k \in DOMAIN m \ {<<id>>} : Lists(f, m, k)
     /\ \/ left = <<id, Space, hash, Newline>> /\ line = << <<>> >>
        \/ left = <<Space, hash, Newline>>     /\ line = << <<id>> >>
        \/ left = <<hash, Newline>>            /\ line = << <<id>>, <<>> >>
        \/ left = <<Newline>>                  /\ line = << <<id>>, <<hash>> >>

FileFollows(r) ==
  IF pending[r] = <<>> THEN Spells(file, seen[r])
  ELSE PartlySpells(file, seen[r], current[r].env, pending[r])

\* The file is what the run at work has recorded so far, and between runs all that
\* was reported.
StoreInv == \A r \in Stored :
  /\ Running(r) => FileFollows(r)
  /\ (\A s \in Stored : ~Running(s)) =>
       Spells(file, Loaded(file)) /\ Remembers(log, Loaded(file), r, {})

\* At most one run is at work, only runs with a store write one, and only runs that
\* started have reports.
SerialInv ==
  /\ Stored # {} => \A r, s \in Runs : Running(r) /\ Running(s) => r = s
  /\ \A r \in Runs : pending[r] # <<>> => r \in Stored
  /\ \A j \in DOMAIN log : pc[log[j].run] # "ready"

\* What a watch was served is reported, or is the one at hand.
Reported(L, r, env) == \E j \in DOMAIN L :
  Share(L[j].run, r) /\ L[j].env.id = env.id /\ L[j].env.body.hash = env.body.hash

WatchInv == \A r \in Runs : Sub[r] = "watch" /\ pc[r] # "done" =>
  \A k \in DOMAIN served[r] :
    \/ Reported(log, r, served[r][k])
    \/ pc[r] = "judge" /\ queue[r] = <<served[r][k]>>
    \/ pc[r] = "write" /\ current[r].env = served[r][k]

---------------------------------------------------------------------------
(* Remembering *)

LEMMA SharedGrows ==
  ASSUME NEW L \in Seq(Reports), NEW e \in Reports, NEW r
  PROVE  LET n == Len(L) + 1
             M == Append(L, e)
         IN /\ n \in Nat /\ n \notin Shared(L, r) /\ M[n] = e
            /\ Shared(L, r) \subseteq 1 .. Len(L)
            /\ Shared(M, r) = IF Share(e.run, r) THEN Shared(L, r) \cup {n} ELSE Shared(L, r)
            /\ \A j \in 1 .. Len(L) : M[j] = L[j]
            /\ \A j \in Shared(L, r) : M[j] = L[j] /\ j < n
<1> DEFINE n == Len(L) + 1
           M == Append(L, e)
<1>1. /\ Len(L) \in Nat /\ DOMAIN L = 1 .. Len(L) /\ DOMAIN M = 1 .. n
      /\ \A j \in 1 .. Len(L) : M[j] = L[j]
      /\ M[n] = e
  BY AppendProperties, LenProperties
<1> HIDE DEF M
<1>2. n \in Nat /\ n \notin 1 .. Len(L) /\ 1 .. n = (1 .. Len(L)) \cup {n}
  BY <1>1
<1>3. \A j \in 1 .. Len(L) : j < n
  BY <1>1
<1> HIDE DEF n
<1>4. Shared(L, r) \subseteq 1 .. Len(L)
  BY <1>1 DEF Shared
<1>5. Shared(M, r) = {j \in 1 .. Len(L) : Share(L[j].run, r)} \cup {j \in {n} : Share(e.run, r)}
  BY <1>1, <1>2 DEF Shared
<1>6. Shared(M, r) = IF Share(e.run, r) THEN Shared(L, r) \cup {n} ELSE Shared(L, r)
  BY <1>1, <1>5 DEF Shared
<1> QED BY <1>1, <1>2, <1>3, <1>4, <1>6 DEF n, M

\* A report of a run that shares nothing changes nothing.
LEMMA RemembersOther ==
  ASSUME NEW L \in Seq(Reports), NEW e \in Reports, NEW r, ~Share(e.run, r), NEW m, NEW new,
         Remembers(L, m, r, new)
  PROVE  Remembers(Append(L, e), m, r, new)
<1> DEFINE M == Append(L, e)
<1>1. Shared(M, r) = Shared(L, r) /\ \A j \in Shared(L, r) : M[j] = L[j]
  BY SharedGrows
<1> HIDE DEF M
<1>2. \A j \in Shared(L, r) : IsFirst(L, r, j) => IsFirst(M, r, j)
  BY <1>1 DEF IsFirst
<1>3. ASSUME NEW j \in Shared(M, r)
      PROVE  /\ <<M[j].env.id>> \in DOMAIN m
             /\ \E i \in Shared(M, r) :
                  /\ IsFirst(M, r, i) /\ M[i].env.id = M[j].env.id
                  /\ m[<<M[i].env.id>>] = <<M[i].env.body.hash>>
  <2>1. <<L[j].env.id>> \in DOMAIN m /\ j \in Shared(L, r) /\ M[j] = L[j]
    BY <1>1 DEF Remembers
  <2>2. PICK i \in Shared(L, r) :
          /\ IsFirst(L, r, i) /\ L[i].env.id = L[j].env.id
          /\ m[<<L[i].env.id>>] = <<L[i].env.body.hash>>
    BY <2>1 DEF Remembers
  <2> QED BY <1>1, <1>2, <2>1, <2>2
<1>4. /\ DOMAIN m \subseteq IdWords /\ m \in [DOMAIN m -> HashWords]
      /\ \A id \in Ids : <<id>> \in DOMAIN m =>
           id \in new \/ \E j \in Shared(M, r) : M[j].env.id = id
      /\ \A id \in new : <<id>> \in DOMAIN m /\ \A j \in Shared(M, r) : M[j].env.id # id
  <2>1. \A id : (\E j \in Shared(M, r) : M[j].env.id = id)
                  <=> (\E j \in Shared(L, r) : L[j].env.id = id)
    BY <1>1
  <2> QED BY <1>1, <2>1 DEF Remembers
<1>5. Remembers(M, m, r, new)
  BY <1>3, <1>4 DEF Remembers
<1> QED BY <1>5 DEF M

Extended(m, k, v) == [id \in DOMAIN m \cup {k} |-> IF id = k THEN v ELSE m[id]]

LEMMA ExtendedMap ==
  ASSUME NEW m, NEW k, NEW v, k \notin DOMAIN m
  PROVE  /\ DOMAIN Extended(m, k, v) = DOMAIN m \cup {k}
         /\ Extended(m, k, v)[k] = v
         /\ \A i \in DOMAIN m : Extended(m, k, v)[i] = m[i]
BY DEF Extended

LEMMA RemembersNew ==
  ASSUME NEW L, NEW m, NEW r, Remembers(L, m, r, {}),
         NEW env \in Envelopes, <<env.id>> \notin DOMAIN m
  PROVE  Remembers(L, Extended(m, <<env.id>>, <<env.body.hash>>), r, {env.id})
<1> DEFINE k == <<env.id>>
           v == <<env.body.hash>>
           x == Extended(m, k, v)
<1>1. env.id \in Ids /\ env.body \in Bodies /\ k \in IdWords /\ v \in HashWords
  BY DEF Envelopes, IdWords, HashWords
<1>2. DOMAIN x = DOMAIN m \cup {k} /\ x[k] = v /\ \A i \in DOMAIN m : x[i] = m[i]
  <2>1. k \notin DOMAIN m
    OBVIOUS
  <2> HIDE DEF k, v
  <2> QED BY <2>1 DEF Extended
<1>3. x = [i \in DOMAIN x |-> x[i]]
  BY DEF Extended
<1>4. \A id \in Ids : <<id>> = k => id = env.id
  OBVIOUS
<1> HIDE DEF x
<1>5. DOMAIN x \subseteq IdWords /\ x \in [DOMAIN x -> HashWords]
  <2>1. \A i \in DOMAIN x : x[i] \in HashWords
    BY <1>1, <1>2 DEF Remembers
  <2> QED BY <1>1, <1>2, <1>3, <2>1 DEF Remembers
<1>6. \A j \in Shared(L, r) : L[j].env.id # env.id
  BY DEF Remembers
<1> HIDE DEF k, v
<1>7. ASSUME NEW j \in Shared(L, r)
      PROVE  /\ <<L[j].env.id>> \in DOMAIN x
             /\ \E i \in Shared(L, r) :
                  /\ IsFirst(L, r, i) /\ L[i].env.id = L[j].env.id
                  /\ x[<<L[i].env.id>>] = <<L[i].env.body.hash>>
  <2>1. PICK i \in Shared(L, r) :
          /\ IsFirst(L, r, i) /\ L[i].env.id = L[j].env.id
          /\ m[<<L[i].env.id>>] = <<L[i].env.body.hash>>
    BY DEF Remembers
  <2>2. <<L[j].env.id>> \in DOMAIN m
    BY DEF Remembers
  <2> QED BY <1>2, <2>1, <2>2
<1>8. \A id \in Ids : <<id>> \in DOMAIN x =>
        id \in {env.id} \/ \E j \in Shared(L, r) : L[j].env.id = id
  BY <1>2, <1>4 DEF Remembers
<1>9. Remembers(L, x, r, {env.id})
  BY <1>2, <1>5, <1>6, <1>7, <1>8 DEF Remembers, k
<1> QED BY <1>9 DEF x, k, v

\* The report of the envelope at hand is then remembered like the others.
LEMMA RemembersPrint ==
  ASSUME NEW L \in Seq(Reports), NEW e \in Reports, NEW m, NEW new,
         Remembers(L, m, e.run, new),
         <<e.env.id>> \in DOMAIN m, new \subseteq {e.env.id},
         new # {} => m[<<e.env.id>>] = <<e.env.body.hash>>
  PROVE  Remembers(Append(L, e), m, e.run, {})
<1> DEFINE M == Append(L, e)
           n == Len(L) + 1
           r == e.run
<1>1. /\ Shared(M, r) = Shared(L, r) \cup {n} /\ n \notin Shared(L, r) /\ M[n] = e
      /\ \A j \in Shared(L, r) : M[j] = L[j] /\ j < n
      /\ n \in Nat /\ Shared(L, r) \subseteq 1 .. Len(L)
  BY SharedGrows DEF Share
<1>2. e.env.id \in Ids
  BY DEF Reports, Envelopes
<1> HIDE DEF M, n, r
<1>3. \A j \in Shared(L, r) : IsFirst(L, r, j) => IsFirst(M, r, j)
  <2> SUFFICES ASSUME NEW j \in Shared(L, r), IsFirst(L, r, j),
                      NEW i \in Shared(M, r), M[i].env.id = M[j].env.id
               PROVE  j <= i
    BY <1>1 DEF IsFirst
  <2>1. CASE i = n
    <3>1. j \in Nat /\ j < n
      BY <1>1
    <3> QED BY <1>1, <2>1, <3>1
  <2>2. CASE i # n
    BY <1>1, <2>2 DEF IsFirst
  <2> QED BY <2>1, <2>2
<1>4. ASSUME NEW j \in Shared(L, r)
      PROVE  \E i \in Shared(M, r) :
               /\ IsFirst(M, r, i) /\ M[i].env.id = L[j].env.id
               /\ m[<<M[i].env.id>>] = <<M[i].env.body.hash>>
  <2>1. PICK i \in Shared(L, r) :
          /\ IsFirst(L, r, i) /\ L[i].env.id = L[j].env.id
          /\ m[<<L[i].env.id>>] = <<L[i].env.body.hash>>
    BY DEF Remembers, r
  <2> QED BY <1>1, <1>3, <2>1
<1>5. \E i \in Shared(M, r) :
        /\ IsFirst(M, r, i) /\ M[i].env.id = e.env.id
        /\ m[<<M[i].env.id>>] = <<M[i].env.body.hash>>
  <2>1. CASE e.env.id \in new
    <3>1. \A j \in Shared(L, r) : L[j].env.id # e.env.id
      BY <2>1 DEF Remembers, r
    <3>2. IsFirst(M, r, n)
      BY <1>1, <3>1 DEF IsFirst
    <3> QED BY <1>1, <2>1, <3>2
  <2>2. CASE e.env.id \notin new
    <3>1. PICK j \in Shared(L, r) : L[j].env.id = e.env.id
      BY <1>2, <2>2 DEF Remembers, r
    <3> QED BY <1>4, <3>1
  <2> QED BY <2>1, <2>2
<1>6. ASSUME NEW j \in Shared(M, r)
      PROVE  /\ <<M[j].env.id>> \in DOMAIN m
             /\ \E i \in Shared(M, r) :
                  /\ IsFirst(M, r, i) /\ M[i].env.id = M[j].env.id
                  /\ m[<<M[i].env.id>>] = <<M[i].env.body.hash>>
  <2>1. CASE j = n
    BY <1>1, <1>5, <2>1
  <2>2. CASE j # n
    <3>1. j \in Shared(L, r) /\ M[j] = L[j]
      BY <1>1, <2>2
    <3>2. <<M[j].env.id>> \in DOMAIN m
      BY <3>1 DEF Remembers, r
    <3> QED BY <1>4, <3>1, <3>2
  <2> QED BY <2>1, <2>2
<1>7. \A id \in Ids : <<id>> \in DOMAIN m => \E j \in Shared(M, r) : M[j].env.id = id
  <2> SUFFICES ASSUME NEW id \in Ids, <<id>> \in DOMAIN m
               PROVE  \E j \in Shared(M, r) : M[j].env.id = id
    OBVIOUS
  <2>1. CASE id = e.env.id
    BY <1>1, <2>1
  <2>2. CASE id # e.env.id
    <3>1. PICK j \in Shared(L, r) : L[j].env.id = id
      BY <2>2 DEF Remembers, r
    <3> QED BY <1>1, <3>1
  <2> QED BY <2>1, <2>2
<1>8. DOMAIN m \subseteq IdWords /\ m \in [DOMAIN m -> HashWords]
  BY DEF Remembers
<1>9. Remembers(M, m, r, {})
  BY <1>6, <1>7, <1>8 DEF Remembers
<1> QED BY <1>9 DEF M, r

---------------------------------------------------------------------------
(* Reading and writing the store *)

\* A file that spells a map is read back as that map.
LEMMA LoadedSpelled ==
  ASSUME NEW f, NEW m, Spells(f, m), m \in [DOMAIN m -> HashWords], DOMAIN m \subseteq IdWords
  PROVE  Loaded(f) = m
<1> DEFINE n == Len(f) - 1
           key(l) == CHOOSE k \in DOMAIN m : f[l] = <<k, m[k]>>
           entry(l) == <<l, key(l), m[key(l)]>>
<1>1. /\ Len(f) \in Nat /\ n \in Nat /\ Len(f) = n + 1
      /\ DOMAIN f = 1 .. n + 1 /\ n + 1 \notin 1 .. n
      /\ \A l \in DOMAIN f : l \in 1 .. n \/ l = n + 1
      /\ 1 .. n \subseteq DOMAIN f
  <2>1. Len(f) \in Nat /\ Len(f) > 0 /\ DOMAIN f = 1 .. Len(f)
    BY LenProperties DEF Spells, FullLines
  <2> QED BY <2>1
<1>2. /\ \A l \in 1 .. n : \E k \in DOMAIN m : f[l] = <<k, m[k]>>
      /\ \A l, o \in 1 .. n : f[l] = f[o] => l = o
      /\ \A k \in DOMAIN m : \E l \in 1 .. n : f[l] = <<k, m[k]>>
      /\ f[n + 1] = << <<>> >>
  BY <1>1 DEF Spells, FullLines, Lists
<1> HIDE DEF n
<1>3. \A l \in 1 .. n : key(l) \in DOMAIN m /\ f[l] = <<key(l), m[key(l)]>>
  BY <1>2
<1> HIDE DEF key
<1>4. \A k \in DOMAIN m : k # <<>> /\ m[k] # <<>>
  BY DEF IdWords, HashWords
<1>5. ASSUME NEW l \in 1 .. n, NEW id, NEW hash
      PROVE  IsEntry(f[l], id, hash) <=> id = key(l) /\ hash = m[key(l)]
  <2>1. f[l] = <<key(l), m[key(l)]>> /\ key(l) # <<>> /\ m[key(l)] # <<>>
    BY <1>3, <1>4
  <2> DEFINE a == key(l)
             b == m[key(l)]
  <2> HIDE DEF a, b
  <2>2. IsEntry(<<a, b>>, id, hash) <=> id = a /\ hash = b
    <3>1. a # <<>> /\ b # <<>>
      BY <2>1 DEF a, b
    <3>2. DOMAIN <<a, b>> = {1, 2} /\ <<a, b>>[1] = a /\ <<a, b>>[2] = b
      OBVIOUS
    <3>3. 1 .. 1 - 1 = {} /\ 1 .. 2 - 1 = {1}
      OBVIOUS
    <3>4. ASSUME IsEntry(<<a, b>>, id, hash) PROVE id = a /\ hash = b
      <4>1. PICK i, j \in {1, 2} :
              /\ i < j /\ <<a, b>>[i] = id /\ <<a, b>>[j] = hash
        BY <3>2, <3>4 DEF IsEntry
      <4>2. i = 1 /\ j = 2
        BY <4>1
      <4> QED BY <3>2, <4>1, <4>2
    <3>5. ASSUME id = a, hash = b PROVE IsEntry(<<a, b>>, id, hash)
      <4>1. 1 \in DOMAIN <<a, b>> /\ 2 \in DOMAIN <<a, b>> /\ 1 < 2
        BY <3>2
      <4>2. \A k \in 1 .. 2 - 1 : k # 1 => <<a, b>>[k] = <<>>
        BY <3>3
      <4> QED BY <3>1, <3>2, <3>5, <4>1, <4>2 DEF IsEntry
    <3> QED BY <3>4, <3>5
  <2> QED BY <2>1, <2>2 DEF a, b
<1>6. \A id, hash : ~IsEntry(f[n + 1], id, hash)
  <2>1. DOMAIN << <<>> >> = {1}
    OBVIOUS
  <2>2. \A i, j \in {1} : ~(i < j)
    OBVIOUS
  <2> QED BY <1>2, <2>1, <2>2 DEF IsEntry
<1>7. Entries(f) = {entry(l) : l \in 1 .. n}
  <2>1. ASSUME NEW e \in Entries(f) PROVE e \in {entry(l) : l \in 1 .. n}
    <3>1. PICK l \in DOMAIN f :
            e \in {l} \X {f[l][i] : i \in DOMAIN f[l]} \X {f[l][i] : i \in DOMAIN f[l]}
      BY <2>1 DEF Entries
    <3>2. PICK id, hash : e = <<l, id, hash>>
      BY <3>1
    <3>3. IsEntry(f[l], id, hash)
      <4>1. IsEntry(f[e[1]], e[2], e[3])
        BY <2>1 DEF Entries
      <4>2. e[1] = l /\ e[2] = id /\ e[3] = hash
        BY <3>2
      <4> QED BY <4>1, <4>2
    <3>4. l \in 1 .. n
      BY <1>1, <1>6, <3>3
    <3>5. id = key(l) /\ hash = m[key(l)]
      BY <1>5, <3>3, <3>4
    <3> QED BY <3>2, <3>4, <3>5
  <2>2. ASSUME NEW l \in 1 .. n PROVE entry(l) \in Entries(f)
    <3>1. IsEntry(f[l], key(l), m[key(l)])
      BY <1>5
    <3>2. /\ key(l) \in {f[l][i] : i \in DOMAIN f[l]}
          /\ m[key(l)] \in {f[l][i] : i \in DOMAIN f[l]}
      BY <3>1 DEF IsEntry
    <3>3. l \in DOMAIN f
      BY <1>1
    <3> QED BY <3>1, <3>2, <3>3 DEF Entries
  <2> QED BY <2>1, <2>2
<1>8. {e[2] : e \in Entries(f)} = DOMAIN m
  <2>1. \A l \in 1 .. n : entry(l)[2] = key(l)
    OBVIOUS
  <2>2. \A k \in DOMAIN m : \E l \in 1 .. n : key(l) = k
    <3> TAKE k \in DOMAIN m
    <3>1. PICK l \in 1 .. n : f[l] = <<k, m[k]>>
      BY <1>2
    <3>2. f[l] = <<key(l), m[key(l)]>>
      BY <1>3
    <3> QED BY <3>1, <3>2
  <2> HIDE DEF entry
  <2>3. \A e \in Entries(f) : e[2] \in DOMAIN m
    BY <1>3, <1>7, <2>1
  <2>4. \A k \in DOMAIN m : \E e \in Entries(f) : e[2] = k
    BY <1>7, <2>1, <2>2
  <2> QED BY <2>3, <2>4
<1>9. ASSUME NEW k \in DOMAIN m
      PROVE  (CHOOSE e \in Entries(f) :
                e[2] = k /\ \A g \in Entries(f) : g[2] = k => g[1] <= e[1])[3] = m[k]
  <2> DEFINE best(e) == e[2] = k /\ \A g \in Entries(f) : g[2] = k => g[1] <= e[1]
             it == CHOOSE e \in Entries(f) : best(e)
  <2>1. PICK l \in 1 .. n : f[l] = <<k, m[k]>>
    BY <1>2
  <2>2. key(l) = k
    BY <1>3, <2>1
  <2>3. \A o \in 1 .. n : key(o) = k => o = l
    BY <1>2, <1>3, <2>1
  <2>4. /\ \A o \in 1 .. n : entry(o)[1] = o /\ entry(o)[2] = key(o) /\ entry(o)[3] = m[key(o)]
        /\ l <= l
    BY <1>1
  <2> HIDE DEF entry
  <2>5. best(entry(l)) /\ entry(l) \in Entries(f)
    BY <1>7, <2>2, <2>3, <2>4
  <2>6. it \in Entries(f) /\ it[2] = k
    BY <2>5
  <2> HIDE DEF best, it
  <2>7. it[3] = m[k]
    BY <1>7, <2>4, <2>6
  <2> QED BY <2>7 DEF it, best
<1>10. Loaded(f) = [k \in DOMAIN m |-> m[k]]
  BY <1>8, <1>9 DEF Loaded
<1> QED BY <1>10

\* A new entry is queued for a file that spells the map before it.
LEMMA LineStarts ==
  ASSUME NEW f, NEW m, Spells(f, m), NEW env, <<env.id>> \notin DOMAIN m
  PROVE  PartlySpells(f, Extended(m, <<env.id>>, <<env.body.hash>>), env, LinePieces(env))
<1> DEFINE k == <<env.id>>
           v == <<env.body.hash>>
           x == Extended(m, k, v)
<1>1. DOMAIN x = DOMAIN m \cup {k} /\ x[k] = v /\ \A i \in DOMAIN m : x[i] = m[i]
  <2>1. k \notin DOMAIN m
    OBVIOUS
  <2> HIDE DEF k, v
  <2> QED BY <2>1 DEF Extended
<1>2. k \notin DOMAIN m
  OBVIOUS
<1>3. LinePieces(env) = <<env.id, Space, env.body.hash, Newline>>
  BY DEF LinePieces
<1> HIDE DEF k, v, x
<1>4. FullLines(f, x)
  BY <1>1 DEF Spells, FullLines
<1>5. ~Lists(f, x, k)
  <2> SUFFICES ASSUME NEW l \in 1 .. Len(f) - 1, f[l] = <<k, v>> PROVE FALSE
    BY <1>1 DEF Lists
  <2>1. PICK i \in DOMAIN m : f[l] = <<i, m[i]>>
    BY DEF Spells, FullLines
  <2>2. i = k
    BY <2>1
  <2> QED BY <1>2, <2>2
<1>6. \A i \in DOMAIN x \ {k} : Lists(f, x, i)
  BY <1>1 DEF Spells, Lists
<1>7. k = <<env.id>> /\ v = <<env.body.hash>>
  BY DEF k, v
<1>8. f[Len(f)] = << <<>> >>
  BY DEF Spells
<1>9. PartlySpells(f, x, env, LinePieces(env))
  BY <1>1, <1>3, <1>4, <1>5, <1>6, <1>7, <1>8 DEF PartlySpells
<1> QED BY <1>9 DEF x, k, v

LEMMA AppendToOne ==
  ASSUME NEW a, NEW b
  PROVE  Append(<<a>>, b) = <<a, b>>
<1> DEFINE s == Append(<<a>>, b)
           t == <<a, b>>
<1>1. <<a>> \in Seq({a, b}) /\ Len(<<a>>) = 1 /\ <<a>>[1] = a /\ b \in {a, b}
  OBVIOUS
<1>2. s \in Seq({a, b}) /\ Len(s) = 2 /\ s[1] = a /\ s[2] = b
  BY <1>1, AppendProperties
<1>3. t \in Seq({a, b}) /\ Len(t) = 2 /\ t[1] = a /\ t[2] = b
  OBVIOUS
<1> HIDE DEF s, t
<1>4. \A i \in 1 .. Len(s) : s[i] = t[i]
  <2>1. \A i \in 1 .. Len(s) : i = 1 \/ i = 2
    BY <1>2
  <2> QED BY <1>2, <1>3, <2>1
<1>5. s = t
  BY <1>2, <1>3, <1>4, SeqEqual
<1> QED BY <1>5 DEF s, t

LEMMA LastLineChanges ==
  ASSUME NEW f, NEW m, FullLines(f, m), NEW g \in Lines
  PROVE  LET h == [f EXCEPT ![Len(f)] = g] IN
           /\ FullLines(h, m) /\ Len(h) = Len(f) /\ h[Len(h)] = g
           /\ \A k : Lists(h, m, k) <=> Lists(f, m, k)
<1> DEFINE h == [f EXCEPT ![Len(f)] = g]
<1>1. f \in Seq(Lines) /\ Len(f) \in Nat /\ Len(f) > 0 /\ Len(f) \in 1 .. Len(f)
  <2>1. f \in Seq(Lines) /\ Len(f) \in Nat /\ Len(f) > 0
    BY LenProperties DEF FullLines
  <2> QED BY <2>1
<1>2. /\ h \in Seq(Lines) /\ Len(h) = Len(f)
      /\ \A l \in 1 .. Len(f) : h[l] = IF l = Len(f) THEN g ELSE f[l]
  BY <1>1, ExceptSeq
<1>3. \A l \in 1 .. Len(f) - 1 : l \in 1 .. Len(f) /\ l # Len(f)
  BY <1>1
<1> HIDE DEF h
<1>4. \A l \in 1 .. Len(h) - 1 : h[l] = f[l]
  BY <1>2, <1>3
<1>5. FullLines(h, m)
  BY <1>1, <1>2, <1>4 DEF FullLines
<1>6. \A k : Lists(h, m, k) <=> Lists(f, m, k)
  BY <1>2, <1>4 DEF Lists
<1>7. h[Len(h)] = g
  BY <1>1, <1>2
<1> QED BY <1>2, <1>5, <1>6, <1>7 DEF h

\* Ending the line makes it a full one.
LEMMA LineEnds ==
  ASSUME NEW f, NEW m, FullLines(f, m), NEW k \in DOMAIN m, f[Len(f)] = <<k, m[k]>>,
         ~Lists(f, m, k), \A i \in DOMAIN m \ {k} : Lists(f, m, i)
  PROVE  Spells(Append(f, << <<>> >>), m)
<1> DEFINE h == Append(f, << <<>> >>)
           n == Len(f)
<1>1. f \in Seq(Lines) /\ n \in Nat /\ n > 0
  BY LenProperties DEF FullLines
<1>2. << <<>> >> \in Lines
  BY DEF Lines
<1>3. /\ h \in Seq(Lines) /\ Len(h) = n + 1 /\ h[n + 1] = << <<>> >>
      /\ \A l \in 1 .. n : h[l] = f[l]
  BY <1>1, <1>2, AppendProperties
<1>4. Len(h) - 1 = n /\ \A l \in 1 .. n : l \in 1 .. n - 1 \/ l = n
  <2> HIDE DEF n, h
  <2> QED BY <1>1, <1>3
<1>5. n \in 1 .. n /\ \A l \in 1 .. n - 1 : l \in 1 .. n
  <2> HIDE DEF n
  <2> QED BY <1>1
<1>6. /\ \A l \in 1 .. n - 1 : \E i \in DOMAIN m : f[l] = <<i, m[i]>>
      /\ \A l, o \in 1 .. n - 1 : f[l] = f[o] => l = o
      /\ \A l \in 1 .. n - 1 : f[l] # <<k, m[k]>>
      /\ \A i \in DOMAIN m : i # k => \E l \in 1 .. n - 1 : f[l] = <<i, m[i]>>
      /\ f[n] = <<k, m[k]>>
  BY DEF FullLines, Lists
<1> HIDE DEF h, n
<1>7. \A l \in 1 .. n : \E i \in DOMAIN m : h[l] = <<i, m[i]>>
  BY <1>3, <1>4, <1>6
<1>8. ASSUME NEW l \in 1 .. n, NEW o \in 1 .. n, h[l] = h[o] PROVE l = o
  BY <1>3, <1>4, <1>6, <1>8
<1>9. ASSUME NEW i \in DOMAIN m PROVE \E l \in 1 .. n : h[l] = <<i, m[i]>>
  <2>1. CASE i = k
    BY <1>3, <1>5, <1>6, <2>1
  <2>2. CASE i # k
    <3>1. PICK l \in 1 .. n - 1 : f[l] = <<i, m[i]>>
      BY <1>6, <2>2
    <3> QED BY <1>3, <1>5, <3>1
  <2> QED BY <2>1, <2>2
<1>10. FullLines(h, m)
  <2>1. Len(h) > 0
    BY <1>1, <1>3
  <2> QED BY <1>3, <1>4, <1>7, <1>8, <2>1 DEF FullLines
<1>11. \A i \in DOMAIN m : Lists(h, m, i)
  BY <1>4, <1>9 DEF Lists
<1>12. h[Len(h)] = << <<>> >>
  BY <1>3
<1> QED BY <1>10, <1>11, <1>12 DEF Spells, h

\* Each piece of the line takes the file a step further.
LEMMA PieceGoes ==
  ASSUME NEW f, NEW m, NEW env \in Envelopes, NEW left, PartlySpells(f, m, env, left)
  PROVE  LET h == AppendPiece(f, Head(left)) IN
           \/ Tail(left) = <<>> /\ Spells(h, m)
           \/ Tail(left) # <<>> /\ PartlySpells(h, m, env, Tail(left))
<1> DEFINE id == env.id
           hash == env.body.hash
           line == f[Len(f)]
<1> SUFFICES ASSUME NEW h, h = AppendPiece(f, Head(left))
             PROVE  \/ Tail(left) = <<>> /\ Spells(h, m)
                    \/ Tail(left) # <<>> /\ PartlySpells(h, m, env, Tail(left))
  OBVIOUS
<1>1. id \in Ids /\ hash \in {b.hash : b \in Bodies}
  BY DEF Envelopes
<1>2. id \notin {Space, Newline} /\ hash \notin {Space, Newline} /\ Space # Newline
  BY <1>1, WordsAssumption DEF Space, Newline
<1>3. /\ FullLines(f, m)
      /\ <<id>> \in DOMAIN m /\ m[<<id>>] = <<hash>> /\ ~Lists(f, m, <<id>>)
      /\ \A k \in DOMAIN m \ {<<id>>} : Lists(f, m, k)
      /\ \/ left = <<id, Space, hash, Newline>> /\ line = << <<>> >>
         \/ left = <<Space, hash, Newline>>     /\ line = << <<id>> >>
         \/ left = <<hash, Newline>>            /\ line = << <<id>>, <<>> >>
         \/ left = <<Newline>>                  /\ line = << <<id>>, <<hash>> >>
  BY DEF PartlySpells
<1>4. << <<id>> >> \in Lines /\ << <<id>>, <<>> >> \in Lines /\ << <<id>>, <<hash>> >> \in Lines
  BY <1>1 DEF Lines
<1>5. ASSUME NEW g \in Lines, h = [f EXCEPT ![Len(f)] = g], NEW rest,
             \/ rest = <<Space, hash, Newline>> /\ g = << <<id>> >>
             \/ rest = <<hash, Newline>>        /\ g = << <<id>>, <<>> >>
             \/ rest = <<Newline>>              /\ g = << <<id>>, <<hash>> >>
      PROVE  PartlySpells(h, m, env, rest)
  <2>1. /\ FullLines(h, m) /\ h[Len(h)] = g
        /\ \A k : Lists(h, m, k) <=> Lists(f, m, k)
    BY <1>3, <1>5, LastLineChanges
  <2> QED BY <1>3, <1>5, <2>1 DEF PartlySpells
<1>6. CASE left = <<id, Space, hash, Newline>> /\ line = << <<>> >>
  <2>1. Head(left) = id /\ Tail(left) = <<Space, hash, Newline>>
    BY <1>6
  <2>2. h = [f EXCEPT ![Len(f)] = [line EXCEPT ![Len(line)] = Append(line[Len(line)], id)]]
    BY <1>2, <2>1 DEF AppendPiece
  <2>3. [line EXCEPT ![Len(line)] = Append(line[Len(line)], id)] = << <<id>> >>
    BY <1>6
  <2>4. Tail(left) # <<>>
    BY <2>1
  <2> HIDE DEF line, id, hash
  <2> QED BY <1>4, <1>5, <2>1, <2>2, <2>3, <2>4
<1>7. CASE left = <<Space, hash, Newline>> /\ line = << <<id>> >>
  <2>1. Head(left) = Space /\ Tail(left) = <<hash, Newline>>
    BY <1>7
  <2>2. h = [f EXCEPT ![Len(f)] = Append(line, <<>>)]
    BY <1>2, <2>1 DEF AppendPiece
  <2>3. Append(line, <<>>) = << <<id>>, <<>> >>
    BY <1>7, AppendToOne
  <2>4. Tail(left) # <<>>
    BY <2>1
  <2> HIDE DEF line, id, hash
  <2> QED BY <1>4, <1>5, <2>1, <2>2, <2>3, <2>4
<1>8. CASE left = <<hash, Newline>> /\ line = << <<id>>, <<>> >>
  <2>1. Head(left) = hash /\ Tail(left) = <<Newline>>
    BY <1>8
  <2>2. h = [f EXCEPT ![Len(f)] = [line EXCEPT ![Len(line)] = Append(line[Len(line)], hash)]]
    BY <1>2, <2>1 DEF AppendPiece
  <2>3. [line EXCEPT ![Len(line)] = Append(line[Len(line)], hash)] = << <<id>>, <<hash>> >>
    BY <1>8
  <2>4. Tail(left) # <<>>
    BY <2>1
  <2> HIDE DEF line, id, hash
  <2> QED BY <1>4, <1>5, <2>1, <2>2, <2>3, <2>4
<1>9. CASE left = <<Newline>> /\ line = << <<id>>, <<hash>> >>
  <2>1. Head(left) = Newline /\ Tail(left) = <<>>
    BY <1>9
  <2>2. h = Append(f, << <<>> >>)
    BY <1>2, <2>1 DEF AppendPiece
  <2>3. line = << <<id>>, m[<<id>>] >>
    BY <1>3, <1>9
  <2> QED BY <1>3, <2>1, <2>2, <2>3, LineEnds
<1> QED BY <1>3, <1>6, <1>7, <1>8, <1>9

---------------------------------------------------------------------------
(* Who is at work *)

LEMMA ActRuns ==
  ASSUME Domains, NEW r \in Runs, Act(r)
  PROVE  /\ \/ Load(r) /\ pc[r] = "ready"
            \/ Running(r) /\ ~Load(r)
         /\ pc'[r] # "ready"
         /\ \A s \in Runs : s # r => pc'[s] = pc[s] /\ (Running(s)' <=> Running(s))
<1>1. \A s \in Runs : s # r => pc'[s] = pc[s]
  BY Others
<1>2. \A s \in Runs : s # r => (Running(s)' <=> Running(s))
  BY <1>1 DEF Running
<1>3. CASE Load(r)
  BY <1>1, <1>2, <1>3, LoadOwn DEF Running
<1>4. CASE FetchOne(r) \/ FetchPage(r) \/ FetchLatest(r)
  BY <1>1, <1>2, <1>4, FetchOwn DEF Running, Load
<1>5. CASE FetchError(r) \/ Undecodable(r) \/ EndRange(r) \/ EndWatch(r)
  BY <1>1, <1>2, <1>5, EndOwn DEF Running, Load
<1>6. CASE Wake(r) \/ Interrupt(r)
  BY <1>1, <1>2, <1>6, QuietOwn DEF Running, Load
<1>7. CASE WritePiece(r) \/ WriteFails(r)
  BY <1>1, <1>2, <1>7, WriteOwn DEF Running, Load
<1>8. CASE Crash(r)
  BY <1>1, <1>2, <1>8, CrashOwn DEF Running, Load
<1>9. CASE Emit(r)
  BY <1>1, <1>2, <1>9, EmitOwn DEF Running, Load
<1>10. CASE Judge(r)
  <2>1. pc[r] = "judge" /\ pc'[r] = "write"
    BY <1>10 DEF Judge, Domains
  <2> QED BY <1>1, <1>2, <2>1 DEF Running, Load
<1> QED BY <1>3, <1>4, <1>5, <1>6, <1>7, <1>8, <1>9, <1>10 DEF Act, Step

\* What a classification says.
LEMMA ClassifySays ==
  ASSUME NEW m, NEW env
  PROVE  /\ Classify(m, env) = "new" => <<env.id>> \notin DOMAIN m
         /\ Classify(m, env) # "new" =>
              /\ <<env.id>> \in DOMAIN m
              /\ (Classify(m, env) = "conflict") <=> (m[<<env.id>>] # <<env.body.hash>>)
         /\ Classify(m, env) = "same" => m[<<env.id>>] = <<env.body.hash>>
BY DEF Classify

\* What judging does to the map and the line.
LEMMA JudgeRecords ==
  ASSUME ShapeInv, NEW r \in Runs, Judge(r)
  PROVE  LET env   == Head(queue[r])
             class == Classify(seen[r], env)
         IN /\ class = "new" =>
                 /\ seen'[r] = Extended(seen[r], <<env.id>>, <<env.body.hash>>)
                 /\ pending'[r] = IF r \in Stored THEN LinePieces(env) ELSE <<>>
            /\ class # "new" => seen'[r] = seen[r] /\ pending'[r] = pending[r]
            /\ file' = file /\ log' = log
BY DEF ShapeInv, Domains, Judge, Extended

LEMMA SerialStep ==
  ASSUME Undisturbed, ShapeInv, OrderInv, SerialInv, NEW r \in Runs, Act(r)
  PROVE  SerialInv'
<1>0. Domains
  BY DEF ShapeInv
<1>1. ASSUME Stored # {}, NEW s \in Runs, NEW t \in Runs, Running(s)', Running(t)' PROVE s = t
  <2>1. CASE Load(r)
    <3>1. \A q \in Runs : ~Running(q)
      BY <1>1, <2>1 DEF Undisturbed, Load
    <3>2. s = r /\ t = r
      BY <1>0, <1>1, <3>1, ActRuns
    <3> QED BY <3>2
  <2>2. CASE Running(r)
    BY <1>0, <1>1, <2>2, ActRuns DEF SerialInv
  <2> QED BY <1>0, <2>1, <2>2, ActRuns
<1>2. ASSUME NEW s \in Runs, pending'[s] # <<>> PROVE s \in Stored
  <2>1. CASE s # r
    BY <1>0, <1>2, <2>1, Others DEF SerialInv
  <2>2. CASE s = r /\ Judge(r)
    <3>1. Classify(seen[r], Head(queue[r])) = "new" \/ pending[r] # <<>>
      BY <1>2, <2>2, JudgeRecords
    <3>2. pending[r] = <<>>
      BY <2>2, JudgeOwn DEF ShapeInv, RunShape
    <3> QED BY <1>2, <2>2, <3>1, <3>2, JudgeRecords
  <2>3. CASE s = r /\ ~Judge(r)
    <3>1. pending[r] # <<>> \/ pending'[r] = <<>>
      BY <1>0, <2>3, LoadOwn, FetchOwn, EndOwn, QuietOwn, WriteOwn, CrashOwn, EmitOwn DEF Act, Step
    <3> QED BY <1>2, <2>3, <3>1 DEF SerialInv
  <2> QED BY <2>1, <2>2, <2>3
<1>3. ASSUME NEW j \in DOMAIN log' PROVE pc'[log'[j].run] # "ready"
  <2>1. log \in Seq(Reports) /\ DOMAIN log = 1 .. Len(log)
    BY LenProperties DEF OrderInv
  <2>2. \A i \in DOMAIN log : log[i].run \in Runs
    <3>1. \A i \in DOMAIN log : log[i] \in Reports
      BY <2>1, ElementOfSeq
    <3> QED BY <3>1 DEF Reports
  <2>3. \A s \in Runs : pc[s] # "ready" => pc'[s] # "ready"
    BY <1>0, ActRuns
  <2>4. CASE log' = log
    BY <1>3, <2>2, <2>3, <2>4 DEF SerialInv
  <2>5. CASE Emit(r)
    <3> DEFINE e == [run |-> r, env |-> current[r].env, class |-> current[r].class,
                     code |-> CodeOf(current[r].env, current[r].class)]
    <3>1. e \in Reports /\ log' = Append(log, e) /\ e.run = r
      BY <1>0, <2>5, EmitsAReport, EmitOwn
    <3> HIDE DEF e
    <3>2. /\ DOMAIN log' = 1 .. Len(log) + 1 /\ log'[Len(log) + 1] = e /\ Len(log) \in Nat
          /\ \A i \in 1 .. Len(log) : log'[i] = log[i]
      BY <2>1, <3>1, AppendProperties, LenProperties
    <3>3. \A i \in 1 .. Len(log) + 1 : i \in 1 .. Len(log) \/ i = Len(log) + 1
      BY <3>2
    <3>4. pc'[r] # "ready"
      BY <1>0, ActRuns
    <3> QED BY <1>3, <2>1, <2>2, <2>3, <3>1, <3>2, <3>3, <3>4 DEF SerialInv
  <2> QED BY <2>4, <2>5, PrintsNothing
<1> QED BY <1>1, <1>2, <1>3 DEF SerialInv

---------------------------------------------------------------------------
(* The memory of a run *)

\* A run at work that is not killed keeps in mind what it has to.
LEMMA OwnMemory ==
  ASSUME ShapeInv, OrderInv, NEW r \in Runs, Running(r), Act(r), ~Crash(r),
         Remembers(log, seen[r], r, New(r)), AtHand(r)
  PROVE  Remembers(log', seen'[r], r, New(r)') /\ AtHand(r)'
<1>0. Domains /\ ~Load(r)
  BY ActRuns DEF ShapeInv, Running
<1>1. CASE Judge(r)
  <2> DEFINE env == Head(queue[r])
             class == Classify(seen[r], env)
             m == seen[r]
  <2>1. /\ env \in Envelopes /\ pc'[r] = "write" /\ log' = log /\ New(r) = {}
        /\ current'[r] = [env |-> env, class |-> class]
    BY <1>1, JudgeOwn DEF Judged, New
  <2>2. current'[r].env = env /\ current'[r].class = class
    BY <2>1
  <2>3. New(r)' = IF class = "new" THEN {env.id} ELSE {}
    <3> HIDE DEF env, class
    <3> QED BY <2>1, <2>2 DEF New
  <2>4. CASE class = "new"
    <3>1. <<env.id>> \notin DOMAIN m
      BY <2>4 DEF Classify
    <3>2. seen'[r] = Extended(m, <<env.id>>, <<env.body.hash>>)
      BY <1>1, <2>4, JudgeRecords
    <3> HIDE DEF env, m
    <3>3. Remembers(log, seen'[r], r, {env.id})
      BY <2>1, <3>1, <3>2, RemembersNew DEF m
    <3>4. <<env.id>> \in DOMAIN seen'[r] /\ seen'[r][<<env.id>>] = <<env.body.hash>>
      BY <3>2 DEF Extended
    <3> HIDE DEF class
    <3>5. AtHand(r)'
      BY <2>2, <2>4, <3>4 DEF AtHand
    <3> QED BY <2>1, <2>3, <2>4, <3>3, <3>5
  <2>5. CASE class # "new"
    <3>1. seen'[r] = m
      BY <1>1, <2>5, JudgeRecords
    <3>2. /\ <<env.id>> \in DOMAIN m
          /\ (class = "conflict") <=> (m[<<env.id>>] # <<env.body.hash>>)
      BY <2>5, ClassifySays
    <3> HIDE DEF env, m, class
    <3>3. AtHand(r)'
      BY <2>2, <3>1, <3>2 DEF AtHand
    <3>4. Remembers(log', seen'[r], r, New(r)')
      BY <2>1, <2>3, <2>5, <3>1 DEF m
    <3> QED BY <3>3, <3>4
  <2> QED BY <2>4, <2>5
<1>2. CASE Emit(r)
  <2> DEFINE e == [run |-> r, env |-> current[r].env, class |-> current[r].class,
                   code |-> CodeOf(current[r].env, current[r].class)]
  <2>1. e \in Reports /\ log' = Append(log, e) /\ e.run = r /\ e.env = current[r].env
    BY <1>0, <1>2, EmitsAReport, EmitOwn
  <2>2. pc[r] = "write" /\ pc'[r] # "write" /\ seen'[r] = seen[r]
    BY <1>0, <1>2, EmitOwn
  <2> HIDE DEF e
  <2>3. <<e.env.id>> \in DOMAIN seen[r] /\ New(r) \subseteq {e.env.id}
    BY <2>1, <2>2 DEF AtHand, New
  <2>4. New(r) # {} => seen[r][<<e.env.id>>] = <<e.env.body.hash>>
    BY <2>1, <2>2 DEF AtHand, New
  <2>5. log \in Seq(Reports)
    BY DEF OrderInv
  <2>6. Remembers(Append(log, e), seen[r], r, {})
    BY <2>1, <2>3, <2>4, <2>5, RemembersPrint
  <2> QED BY <2>1, <2>2, <2>6 DEF New, AtHand
<1>3. CASE ~Judge(r) /\ ~Emit(r)
  <2>1. log' = log /\ seen'[r] = seen[r]
    BY <1>0, <1>3, PrintsNothing, FetchOwn, EndOwn, QuietOwn, WriteOwn DEF Act, Step
  <2>2. \/ pc[r] # "write" /\ pc'[r] # "write"
        \/ pc'[r] = pc[r] /\ current'[r] = current[r]
    BY <1>0, <1>3, FetchOwn, EndOwn, QuietOwn, WriteOwn DEF Act, Step
  <2> QED BY <2>1, <2>2 DEF New, AtHand
<1> QED BY <1>1, <1>2, <1>3

\* The other runs at work share nothing with it.
LEMMA OthersMemory ==
  ASSUME ShapeInv, OrderInv, NEW r \in Runs, Act(r), NEW s \in Runs, s # r, ~Share(r, s),
         NEW m, NEW new, Remembers(log, m, s, new)
  PROVE  Remembers(log', m, s, new)
<1>1. CASE Emit(r)
  <2> DEFINE e == [run |-> r, env |-> current[r].env, class |-> current[r].class,
                   code |-> CodeOf(current[r].env, current[r].class)]
  <2>1. e \in Reports /\ log' = Append(log, e) /\ e.run = r
    BY <1>1, EmitsAReport, EmitOwn DEF ShapeInv
  <2> HIDE DEF e
  <2> QED BY <2>1, RemembersOther DEF OrderInv
<1> QED BY <1>1, PrintsNothing

\* A run without a store starts with nothing.
LEMMA StartsEmpty ==
  ASSUME SerialInv, NEW r \in Runs, r \notin Stored, pc[r] = "ready"
  PROVE  Remembers(log, <<>>, r, {})
<1>1. Shared(log, r) = {}
  BY DEF Shared, Share, SerialInv
<1>2. DOMAIN <<>> = {} /\ <<>> \in [{} -> HashWords]
  OBVIOUS
<1> QED BY <1>1, <1>2 DEF Remembers

LEMMA MemoryStep ==
  ASSUME Undisturbed, ShapeInv, OrderInv, SerialInv, MemoryInv, StoreInv, NEW r \in Runs, Act(r)
  PROVE  MemoryInv'
<1>0. Domains
  BY DEF ShapeInv
<1>1. ASSUME NEW s \in Runs, s # r, Running(s)'
      PROVE  Remembers(log', seen'[s], s, New(s)') /\ AtHand(s)'
  <2>1. Running(s) /\ pc'[s] = pc[s] /\ seen'[s] = seen[s] /\ current'[s] = current[s]
    BY <1>0, <1>1, ActRuns, Others
  <2>2. New(s)' = New(s) /\ (AtHand(s) => AtHand(s)')
    BY <2>1 DEF New, AtHand
  <2>3. Remembers(log, seen[s], s, New(s)) /\ AtHand(s)
    BY <2>1 DEF MemoryInv
  <2>4. CASE Share(r, s)
    <3>1. Stored # {} /\ ~Running(r)
      BY <1>1, <2>1, <2>4 DEF Share, SerialInv
    <3>2. Load(r)
      BY <1>0, <3>1, ActRuns
    <3>3. ~Running(s)
      BY <3>1, <3>2 DEF Load, Undisturbed
    <3> QED BY <2>1, <3>3
  <2>5. CASE ~Share(r, s)
    BY <1>1, <2>1, <2>2, <2>3, <2>5, OthersMemory
  <2> QED BY <2>4, <2>5
<1>2. ASSUME Running(r)' PROVE Remembers(log', seen'[r], r, New(r)') /\ AtHand(r)'
  <2>1. CASE Load(r)
    <3>1. pc[r] = "ready" /\ pc'[r] = "fetch" /\ log' = log
      BY <1>0, <2>1, LoadOwn
    <3>2. New(r)' = {} /\ AtHand(r)'
      BY <3>1 DEF New, AtHand
    <3>3. CASE r \in Stored
      <4>1. seen'[r] = Loaded(file) /\ \A s \in Stored : ~Running(s)
        <5>1. Serial /\ ~StoreMayFail /\ Stored \subseteq Runs
          BY <3>3, AuditAssumption DEF Undisturbed
        <5> QED BY <1>0, <2>1, <3>3, <5>1 DEF Load, Domains
      <4> QED BY <3>1, <3>2, <3>3, <4>1 DEF StoreInv
    <3>4. CASE r \notin Stored
      <4>1. seen'[r] = <<>>
        BY <1>0, <2>1, <3>4 DEF Load, Domains
      <4> QED BY <3>1, <3>2, <3>4, <4>1, StartsEmpty
    <3> QED BY <3>3, <3>4
  <2>2. CASE ~Load(r)
    <3>1. Running(r) /\ ~Crash(r)
      BY <1>0, <1>2, <2>2, ActRuns, CrashOwn DEF Running
    <3> QED BY <3>1, OwnMemory DEF MemoryInv
  <2> QED BY <2>1, <2>2
<1> QED BY <1>1, <1>2 DEF MemoryInv

---------------------------------------------------------------------------
(* The store *)

LEMMA SharersRemember ==
  ASSUME NEW r \in Stored, NEW s \in Stored, NEW L, NEW m, Remembers(L, m, r, {})
  PROVE  Remembers(L, m, s, {})
<1>1. \A q : Share(q, r) <=> Share(q, s)
  BY DEF Share
<1>2. Shared(L, r) = Shared(L, s)
  BY <1>1 DEF Shared
<1>3. \A j : IsFirst(L, r, j) => IsFirst(L, s, j)
  BY <1>2 DEF IsFirst
<1> DEFINE A == Shared(L, r)
<1>4. /\ DOMAIN m \subseteq IdWords /\ m \in [DOMAIN m -> HashWords]
      /\ \A j \in A : /\ <<L[j].env.id>> \in DOMAIN m
                      /\ \E i \in A : /\ IsFirst(L, r, i) /\ L[i].env.id = L[j].env.id
                                      /\ m[<<L[i].env.id>>] = <<L[i].env.body.hash>>
      /\ \A id \in Ids : <<id>> \in DOMAIN m => \E j \in A : L[j].env.id = id
  BY DEF Remembers
<1>5. A = Shared(L, s)
  BY <1>2
<1> HIDE DEF A
<1>6. /\ \A j \in A : /\ <<L[j].env.id>> \in DOMAIN m
                      /\ \E i \in A : /\ IsFirst(L, s, i) /\ L[i].env.id = L[j].env.id
                                      /\ m[<<L[i].env.id>>] = <<L[i].env.body.hash>>
  BY <1>3, <1>4
<1> QED BY <1>4, <1>5, <1>6 DEF Remembers

\* A run at work that has a store keeps the file in step with its map.
LEMMA OwnFile ==
  ASSUME ~StoreMayFail, ~MayCrash, ShapeInv, NEW r \in Stored, r \in Runs, Running(r), Act(r),
         FileFollows(r)
  PROVE  FileFollows(r)'
<1>0. Domains /\ ~Load(r) /\ ~Crash(r)
  BY ActRuns, CrashOwn DEF ShapeInv, Running
<1>1. CASE Judge(r)
  <2> DEFINE env == Head(queue[r])
             class == Classify(seen[r], env)
             m == seen[r]
  <2>1. /\ pending[r] = <<>> /\ file' = file
        /\ current'[r] = [env |-> env, class |-> class]
    BY <1>1, JudgeOwn DEF ShapeInv, RunShape
  <2>2. current'[r].env = env
    BY <2>1
  <2>3. Spells(file, m)
    BY <2>1 DEF FileFollows
  <2>4. CASE class = "new"
    <3>1. <<env.id>> \notin DOMAIN m
      BY <2>4, ClassifySays
    <3>2. /\ seen'[r] = Extended(m, <<env.id>>, <<env.body.hash>>)
          /\ pending'[r] = LinePieces(env)
      BY <1>1, <2>4, JudgeRecords
    <3> HIDE DEF env, m, class
    <3>3. PartlySpells(file, seen'[r], env, LinePieces(env))
      BY <2>3, <3>1, <3>2, LineStarts
    <3>4. LinePieces(env) # <<>>
      BY DEF LinePieces
    <3> QED BY <2>1, <2>2, <3>2, <3>3, <3>4 DEF FileFollows
  <2>5. CASE class # "new"
    <3>1. seen'[r] = m /\ pending'[r] = pending[r]
      BY <1>1, <2>5, JudgeRecords
    <3> HIDE DEF m
    <3> QED BY <2>1, <2>3, <3>1 DEF FileFollows
  <2> QED BY <2>4, <2>5
<1>2. CASE WritePiece(r)
  <2>1. /\ pending[r] # <<>> /\ pc[r] = "write" /\ seen'[r] = seen[r]
        /\ current'[r] = current[r]
    BY <1>0, <1>2, WriteOwn
  <2>2. file' = AppendPiece(file, Head(pending[r])) /\ pending'[r] = Tail(pending[r])
    BY <1>0, <1>2 DEF WritePiece, Domains
  <2>3. current[r].env \in Envelopes
    BY <2>1 DEF ShapeInv, RunShape, Judged
  <2>4. PartlySpells(file, seen[r], current[r].env, pending[r])
    BY <2>1 DEF FileFollows
  <2>5. \/ pending'[r] = <<>> /\ Spells(file', seen[r])
        \/ pending'[r] # <<>> /\ PartlySpells(file', seen[r], current[r].env, pending'[r])
    BY <2>2, <2>3, <2>4, PieceGoes
  <2> QED BY <2>1, <2>5 DEF FileFollows
<1>3. CASE Emit(r)
  <2>1. pending[r] = <<>> /\ pending'[r] = pending[r] /\ seen'[r] = seen[r] /\ file' = file
    BY <1>0, <1>3, EmitOwn
  <2> QED BY <2>1 DEF FileFollows
<1>4. CASE ~Judge(r) /\ ~WritePiece(r) /\ ~Emit(r)
  <2>1. /\ pending'[r] = pending[r] /\ seen'[r] = seen[r] /\ file' = file
        /\ current'[r] = current[r]
    BY <1>0, <1>4, FetchOwn, EndOwn, QuietOwn DEF Act, Step, WriteFails
  <2> QED BY <2>1 DEF FileFollows
<1> QED BY <1>1, <1>2, <1>3, <1>4

LEMMA StoreStep ==
  ASSUME Undisturbed, ShapeInv, ShapeInv', OrderInv, SerialInv, SerialInv', MemoryInv, StoreInv,
         NEW r \in Runs, Act(r)
  PROVE  StoreInv'
<1> SUFFICES ASSUME NEW s \in Stored
             PROVE  /\ Running(s)' => FileFollows(s)'
                    /\ (\A t \in Stored : ~Running(t)') =>
                         Spells(file', Loaded(file')) /\ Remembers(log', Loaded(file'), s, {})
  BY DEF StoreInv
<1>0. Domains /\ Serial /\ ~MayCrash /\ ~StoreMayFail /\ Stored \subseteq Runs /\ s \in Runs
  BY AuditAssumption DEF ShapeInv, Undisturbed
<1>1. CASE r \notin Stored
  <2>1. s # r /\ ~Share(r, s)
    BY <1>1 DEF Share
  <2>2. /\ pc'[s] = pc[s] /\ seen'[s] = seen[s] /\ pending'[s] = pending[s]
        /\ current'[s] = current[s] /\ (Running(s)' <=> Running(s))
    BY <1>0, <2>1, Others, ActRuns
  <2>3. file' = file
    <3>1. ~WritePiece(r)
      BY <1>1 DEF WritePiece, SerialInv
    <3> QED BY <1>0, <3>1, LoadOwn, FetchOwn, EndOwn, QuietOwn, CrashOwn, JudgeOwn, EmitOwn
            DEF Act, Step, WriteFails
  <2>4. (\A t \in Stored : ~Running(t)') => \A t \in Stored : ~Running(t)
    BY <1>0, <1>1, ActRuns
  <2>5. Remembers(log, Loaded(file), s, {}) => Remembers(log', Loaded(file), s, {})
    BY <1>0, <2>1, OthersMemory
  <2> QED BY <2>2, <2>3, <2>4, <2>5 DEF StoreInv, FileFollows
<1>2. CASE Load(r) /\ r \in Stored
  <2>1. /\ \A q \in Runs : ~Running(q)
        /\ pc[r] = "ready" /\ pc'[r] = "fetch" /\ file' = file /\ pending'[r] = pending[r]
        /\ seen'[r] = Loaded(file)
    BY <1>0, <1>2, LoadOwn DEF Load, Domains
  <2>2. pending[r] = <<>>
    BY <2>1 DEF ShapeInv, RunShape
  <2>3. Running(r)' /\ (Running(s)' => s = r)
    BY <1>0, <2>1, ActRuns DEF Running
  <2>4. Spells(file, Loaded(file))
    BY <1>0, <2>1 DEF StoreInv
  <2> QED BY <1>2, <2>1, <2>2, <2>3, <2>4 DEF FileFollows
<1>3. CASE ~Load(r) /\ r \in Stored
  <2>1. Running(r)
    BY <1>0, <1>3, ActRuns
  <2>2. FileFollows(r) /\ FileFollows(r)'
    BY <1>0, <1>3, <2>1, OwnFile DEF StoreInv
  <2>3. Running(s)' => s = r
    BY <1>0, <2>1, ActRuns DEF SerialInv
  <2>4. ASSUME ~Running(r)'
        PROVE  Spells(file', Loaded(file')) /\ Remembers(log', Loaded(file'), s, {})
    <3>1. pc'[r] # "write"
      BY <2>4 DEF Running
    <3>2. pending'[r] = <<>>
      BY <3>1 DEF ShapeInv, RunShape
    <3>3. Spells(file', seen'[r])
      BY <2>2, <3>2 DEF FileFollows
    <3>4. Remembers(log', seen'[r], r, {})
      <4>1. Remembers(log', seen'[r], r, New(r)')
        BY <1>0, <2>1, OwnMemory, CrashOwn DEF MemoryInv
      <4> QED BY <3>1, <4>1 DEF New
    <3>5. Loaded(file') = seen'[r]
      BY <3>3, <3>4, LoadedSpelled DEF Remembers
    <3> QED BY <1>3, <3>3, <3>4, <3>5, SharersRemember
  <2> QED BY <1>3, <2>2, <2>3, <2>4
<1> QED BY <1>1, <1>2, <1>3

LEMMA UndisturbedInvariant ==
  ASSUME Undisturbed
  PROVE  Spec => [](SerialInv /\ MemoryInv /\ StoreInv)
<1>1. Init => SerialInv /\ MemoryInv /\ StoreInv
  <2> SUFFICES ASSUME Init PROVE SerialInv /\ MemoryInv /\ StoreInv
    OBVIOUS
  <2>1. /\ \A r \in Runs : pc[r] = "ready" /\ pending[r] = <<>> /\ ~Running(r)
        /\ log = <<>> /\ file = EmptyFile
    BY DEF Init, Running
  <2>2. SerialInv
    BY <2>1 DEF SerialInv
  <2>3. MemoryInv
    BY <2>1 DEF MemoryInv
  <2>4. Spells(file, <<>>)
    <3>1. EmptyFile \in Seq(Lines) /\ Len(EmptyFile) = 1 /\ EmptyFile[1] = << <<>> >>
      BY DEF EmptyFile, Lines
    <3>2. 1 .. 1 - 1 = {} /\ DOMAIN <<>> = {}
      OBVIOUS
    <3> QED BY <2>1, <3>1, <3>2 DEF Spells, FullLines
  <2>5. Loaded(file) = <<>>
    <3>1. DOMAIN <<>> = {} /\ <<>> \in [{} -> HashWords]
      OBVIOUS
    <3> QED BY <2>4, <3>1, LoadedSpelled
  <2>6. \A r \in Stored : Remembers(log, <<>>, r, {})
    <3>1. DOMAIN <<>> = {} /\ <<>> \in [{} -> HashWords]
      OBVIOUS
    <3>2. \A r : Shared(log, r) = {}
      BY <2>1 DEF Shared
    <3> QED BY <3>1, <3>2 DEF Remembers
  <2>7. \A r \in Stored : ~Running(r)
    BY <2>1, AuditAssumption
  <2> QED BY <2>2, <2>3, <2>4, <2>5, <2>6, <2>7 DEF StoreInv
<1>2. ShapeInv /\ ShapeInv' /\ OrderInv /\ SerialInv /\ MemoryInv /\ StoreInv /\ [Next]_vars
        => (SerialInv /\ MemoryInv /\ StoreInv)'
  <2>1. ASSUME SerialInv, MemoryInv, StoreInv, UNCHANGED vars
        PROVE  (SerialInv /\ MemoryInv /\ StoreInv)'
    <3>1. SerialInv'
      BY <2>1 DEF SerialInv, Running, vars
    <3>2. MemoryInv'
      BY <2>1 DEF MemoryInv, AtHand, New, Running, vars
    <3>3. StoreInv'
      BY <2>1 DEF StoreInv, FileFollows, Running, vars
    <3> QED BY <3>1, <3>2, <3>3
  <2> QED BY <2>1, SerialStep, MemoryStep, StoreStep DEF Next, Act
<1> QED BY <1>1, <1>2, ShapeInvariant, OrderInvariant, PTL DEF Spec

---------------------------------------------------------------------------
(* Substitution *)

\* The report about to be printed fails if it does not fit the first one.
LEMMA NextReportFits ==
  ASSUME NEW L \in Seq(Reports), NEW e \in Reports, NEW m, NEW new,
         Remembers(L, m, e.run, new),
         m[<<e.env.id>>] # <<e.env.body.hash>> => e.code = ExitInvalid,
         NEW i \in Shared(L, e.run), L[i].env.id = e.env.id, IsFirst(L, e.run, i)
  PROVE  L[i].env.body.hash # e.env.body.hash => e.code = ExitInvalid
<1>1. PICK o \in Shared(L, e.run) :
        /\ IsFirst(L, e.run, o) /\ L[o].env.id = L[i].env.id
        /\ m[<<L[o].env.id>>] = <<L[o].env.body.hash>>
  BY DEF Remembers
<1>2. Shared(L, e.run) \subseteq Nat
  BY LenProperties DEF Shared
<1>3. o <= i /\ i <= o /\ i \in Nat /\ o \in Nat
  BY <1>1, <1>2 DEF IsFirst
<1>4. o = i
  BY <1>3
<1>5. <<L[i].env.body.hash>> = m[<<e.env.id>>]
  BY <1>1, <1>4
<1> QED BY <1>5

FirstAbout(L, j) ==
  LET about == {i \in 1 .. j : L[i].env.id = L[j].env.id /\ Share(L[i].run, L[j].run)}
  IN CHOOSE i \in about : \A k \in about : i <= k

\* The first report about an id is there, and is the first one to remember.
LEMMA FirstIsFirst ==
  ASSUME NEW L \in Seq(Reports), NEW e \in Reports, NEW m, NEW new,
         Remembers(L, m, e.run, new)
  PROVE  LET M == Append(L, e)
             n == Len(L) + 1
             i == FirstAbout(M, n)
         IN \/ i = n
            \/ i \in Shared(L, e.run) /\ L[i].env.id = e.env.id /\ IsFirst(L, e.run, i)
<1> DEFINE M == Append(L, e)
           n == Len(L) + 1
           r == e.run
           about == {i \in 1 .. n : M[i].env.id = M[n].env.id /\ Share(M[i].run, M[n].run)}
           A == {i \in Shared(L, r) : L[i].env.id = e.env.id}
<1>1. /\ n \in Nat /\ n \notin Shared(L, r) /\ M[n] = e /\ Shared(L, r) \subseteq 1 .. Len(L)
      /\ \A j \in 1 .. Len(L) : M[j] = L[j]
      /\ \A j \in Shared(L, r) : j < n
      /\ Len(L) \in Nat /\ DOMAIN L = 1 .. Len(L)
  BY SharedGrows, LenProperties
<1>2. FirstAbout(M, n) = CHOOSE i \in about : \A k \in about : i <= k
  BY DEF FirstAbout
<1>3. 1 .. n = 1 .. Len(L) \cup {n} /\ n \notin 1 .. Len(L)
  BY <1>1
<1>4. about = A \cup {n}
  <2> HIDE DEF M, n
  <2>1. \A i \in 1 .. Len(L) : i \in about <=> i \in A
    BY <1>1, <1>3 DEF Shared
  <2>2. n \in about
    BY <1>1, <1>3 DEF Share
  <2>3. about \subseteq 1 .. n /\ A \subseteq 1 .. Len(L)
    BY <1>1
  <2> HIDE DEF about, A
  <2> QED BY <1>3, <2>1, <2>2, <2>3
<1>5. \E i \in about : \A k \in about : i <= k
  <2>1. CASE A = {}
    BY <1>1, <1>4, <2>1
  <2>2. CASE A # {}
    <3>1. PICK j \in A : TRUE
      BY <2>2
    <3>2. PICK i \in Shared(L, r) : IsFirst(L, r, i) /\ L[i].env.id = L[j].env.id
      BY <3>1 DEF Remembers
    <3>3. i \in A /\ \A k \in A : i <= k
      BY <3>1, <3>2 DEF IsFirst
    <3>4. i <= n
      <4>1. i \in Nat /\ i < n
        BY <1>1
      <4> QED BY <1>1, <4>1
    <3> HIDE DEF A, about, n
    <3> QED BY <1>4, <3>3, <3>4
  <2> QED BY <2>1, <2>2
<1>6. FirstAbout(M, n) \in about /\ \A k \in about : FirstAbout(M, n) <= k
  <2> HIDE DEF about, M, n
  <2> QED BY <1>2, <1>5
<1> DEFINE f == FirstAbout(M, n)
<1>7. ASSUME f # n
      PROVE  f \in Shared(L, r) /\ L[f].env.id = e.env.id /\ IsFirst(L, r, f)
  <2>1. f \in about /\ \A k \in about : f <= k
    BY <1>6
  <2> HIDE DEF f, about, M, n
  <2>2. f \in A /\ \A k \in A : f <= k
    BY <1>4, <1>7, <2>1
  <2> QED BY <2>2 DEF IsFirst
<1> QED BY <1>7

\* The first report is one of the log's.
SubstitutionInv == \A j \in DOMAIN log :
  /\ FirstAbout(log, j) \in DOMAIN log
  /\ log[j].env.body.hash # log[FirstAbout(log, j)].env.body.hash => log[j].code = ExitInvalid

\* A later report changes nothing about the first one.
LEMMA FirstStays ==
  ASSUME NEW L \in Seq(Reports), NEW e \in Reports, NEW j \in 1 .. Len(L)
  PROVE  FirstAbout(Append(L, e), j) = FirstAbout(L, j)
<1>1. Len(L) \in Nat /\ \A i \in 1 .. Len(L) : Append(L, e)[i] = L[i]
  BY AppendProperties, LenProperties
<1>2. \A i \in 1 .. j : i \in 1 .. Len(L)
  BY <1>1
<1> DEFINE M == Append(L, e)
<1>3. \A i \in 1 .. j : M[i] = L[i]
  BY <1>1, <1>2
<1>4. M[j] = L[j]
  BY <1>1
<1> HIDE DEF M
<1>5. {i \in 1 .. j : M[i].env.id = M[j].env.id /\ Share(M[i].run, M[j].run)}
        = {i \in 1 .. j : L[i].env.id = L[j].env.id /\ Share(L[i].run, L[j].run)}
  BY <1>3, <1>4
<1>6. FirstAbout(M, j) = FirstAbout(L, j)
  BY <1>5 DEF FirstAbout
<1> QED BY <1>6 DEF M

LEMMA SubstitutionStep ==
  ASSUME ShapeInv, OrderInv, MemoryInv, SubstitutionInv, NEW r \in Runs, Emit(r)
  PROVE  SubstitutionInv'
<1> DEFINE e == [run |-> r, env |-> current[r].env, class |-> current[r].class,
                 code |-> CodeOf(current[r].env, current[r].class)]
<1>1. e \in Reports /\ log' = Append(log, e) /\ e.run = r /\ log \in Seq(Reports)
  BY EmitsAReport, EmitOwn DEF ShapeInv, OrderInv
<1>2. /\ e.env = current[r].env /\ e.code = CodeOf(current[r].env, current[r].class)
      /\ e.class = current[r].class /\ pc[r] = "write" /\ Running(r)
  BY EmitOwn DEF ShapeInv, Running
<1> HIDE DEF e
<1>3. Remembers(log, seen[r], r, New(r)) /\ AtHand(r)
  BY <1>2 DEF MemoryInv
<1>4. seen[r][<<e.env.id>>] # <<e.env.body.hash>> => e.code = ExitInvalid
  BY <1>2, <1>3 DEF AtHand, CodeOf
<1> DEFINE n == Len(log) + 1
<1>5. /\ DOMAIN log = 1 .. Len(log) /\ DOMAIN log' = 1 .. n /\ log'[n] = e /\ n \in Nat
      /\ \A j \in 1 .. Len(log) : log'[j] = log[j]
      /\ \A j \in 1 .. n : j \in 1 .. Len(log) \/ j = n
      /\ \A j \in 1 .. Len(log) : j \in 1 .. n
      /\ n \in 1 .. n
  <2>1. /\ Len(log) \in Nat /\ DOMAIN log = 1 .. Len(log) /\ DOMAIN log' = 1 .. n /\ log'[n] = e
        /\ \A j \in 1 .. Len(log) : log'[j] = log[j]
    BY <1>1, AppendProperties, LenProperties
  <2> QED BY <2>1
<1>6. ASSUME NEW j \in 1 .. Len(log)
      PROVE  /\ FirstAbout(log', j) \in DOMAIN log'
             /\ log'[j].env.body.hash # log'[FirstAbout(log', j)].env.body.hash
                  => log'[j].code = ExitInvalid
  <2>1. FirstAbout(log', j) = FirstAbout(log, j)
    BY <1>1, FirstStays
  <2>2. /\ FirstAbout(log, j) \in 1 .. Len(log)
        /\ log[j].env.body.hash # log[FirstAbout(log, j)].env.body.hash
             => log[j].code = ExitInvalid
    BY <1>5 DEF SubstitutionInv
  <2> HIDE DEF n
  <2> QED BY <1>5, <2>1, <2>2
<1>7. /\ FirstAbout(log', n) \in DOMAIN log'
      /\ e.env.body.hash # log'[FirstAbout(log', n)].env.body.hash => e.code = ExitInvalid
  <2> DEFINE f == FirstAbout(log', n)
  <2>1. \/ f = n
        \/ f \in Shared(log, r) /\ log[f].env.id = e.env.id /\ IsFirst(log, r, f)
    BY <1>1, <1>3, FirstIsFirst
  <2> HIDE DEF f, n
  <2>2. CASE f = n
    BY <1>5, <2>2 DEF f
  <2>3. CASE f \in Shared(log, r) /\ log[f].env.id = e.env.id /\ IsFirst(log, r, f)
    <3>1. log[f].env.body.hash # e.env.body.hash => e.code = ExitInvalid
      BY <1>1, <1>3, <1>4, <2>3, NextReportFits
    <3>2. f \in 1 .. Len(log)
      BY <1>5, <2>3 DEF Shared
    <3> QED BY <1>5, <3>1, <3>2 DEF f
  <2> QED BY <2>1, <2>2, <2>3
<1> HIDE DEF n
<1> QED BY <1>5, <1>6, <1>7 DEF SubstitutionInv

\* A proof id that comes back with other bytes than first seen fails, for ever: in a
\* run without a store whatever other runs do, and in runs with one that follow
\* each other and are not disturbed (SeenStore::record, load).
THEOREM SubstitutionFailsTheorem ==
  ASSUME Undisturbed
  PROVE  Spec => []SubstitutionFails
<1>1. Init => SubstitutionInv
  BY DEF Init, SubstitutionInv
<1>2. ShapeInv /\ OrderInv /\ MemoryInv /\ SubstitutionInv /\ [Next]_vars => SubstitutionInv'
  <2>1. ASSUME SubstitutionInv, log' = log PROVE SubstitutionInv'
    BY <2>1 DEF SubstitutionInv
  <2>2. UNCHANGED vars => log' = log
    BY DEF vars
  <2> QED BY <2>1, <2>2, SubstitutionStep, PrintsNothing DEF Next, Act
<1>3. SubstitutionInv => SubstitutionFails
  <2> SUFFICES ASSUME SubstitutionInv, NEW j \in DOMAIN log,
                      log[j].env.body.hash # FirstSighting(j).env.body.hash
               PROVE  log[j].code = ExitInvalid
    BY DEF SubstitutionFails
  <2>1. FirstSighting(j) = log[FirstAbout(log, j)]
    BY DEF FirstSighting, FirstAbout
  <2> QED BY <2>1 DEF SubstitutionInv
<1>4. Spec => [](SerialInv /\ MemoryInv /\ StoreInv)
  BY UndisturbedInvariant
<1> QED BY <1>1, <1>2, <1>3, <1>4, ShapeInvariant, OrderInvariant, PTL DEF Spec

---------------------------------------------------------------------------
(* Skipping *)

LEMMA ReportedStays ==
  ASSUME ShapeInv, OrderInv, NEW r \in Runs, Act(r), NEW s \in Runs, NEW env,
         Reported(log, s, env)
  PROVE  Reported(log', s, env)
<1>1. CASE Emit(r)
  <2> DEFINE e == [run |-> r, env |-> current[r].env, class |-> current[r].class,
                   code |-> CodeOf(current[r].env, current[r].class)]
  <2>1. e \in Reports /\ log' = Append(log, e) /\ log \in Seq(Reports)
    BY <1>1, EmitsAReport, EmitOwn DEF ShapeInv, OrderInv
  <2> HIDE DEF e
  <2>2. DOMAIN log \subseteq DOMAIN log' /\ \A j \in DOMAIN log : log'[j] = log[j]
    <3>1. /\ Len(log) \in Nat /\ DOMAIN log = 1 .. Len(log) /\ DOMAIN log' = 1 .. Len(log) + 1
          /\ \A j \in 1 .. Len(log) : log'[j] = log[j]
      BY <2>1, AppendProperties, LenProperties
    <3> QED BY <3>1
  <2> QED BY <2>2 DEF Reported
<1> QED BY <1>1, PrintsNothing

\* Where an envelope is the same as one in the map, a report said so.
LEMMA SameWasReported ==
  ASSUME NEW L, NEW r, NEW m, Remembers(L, m, r, {}), NEW env \in Envelopes,
         Classify(m, env) = "same"
  PROVE  Reported(L, r, env)
<1>1. <<env.id>> \in DOMAIN m /\ m[<<env.id>>] = <<env.body.hash>> /\ env.id \in Ids
  BY ClassifySays DEF Envelopes
<1>2. PICK j \in Shared(L, r) : L[j].env.id = env.id
  BY <1>1 DEF Remembers
<1>3. PICK i \in Shared(L, r) : L[i].env.id = L[j].env.id
                                /\ m[<<L[i].env.id>>] = <<L[i].env.body.hash>>
  BY DEF Remembers
<1>4. L[i].env.id = env.id /\ <<L[i].env.body.hash>> = <<env.body.hash>>
  BY <1>1, <1>2, <1>3
<1>5. L[i].env.body.hash = env.body.hash
  BY <1>4
<1>6. i \in DOMAIN L /\ Share(L[i].run, r)
  BY DEF Shared
<1> QED BY <1>4, <1>5, <1>6 DEF Reported

\* The last thing in the log is reported.
LEMMA LastIsReported ==
  ASSUME NEW L \in Seq(Reports), NEW e \in Reports
  PROVE  Reported(Append(L, e), e.run, e.env)
<1> DEFINE n == Len(L) + 1
           M == Append(L, e)
<1>1. Len(L) \in Nat /\ DOMAIN M = 1 .. n /\ M[n] = e
  BY AppendProperties, LenProperties
<1>2. n \in DOMAIN M
  BY <1>1
<1> HIDE DEF n, M
<1> QED BY <1>1, <1>2 DEF Share, Reported, M

\* A poll that is not the same as before is judged.
LEMMA PollIsAccountedFor ==
  ASSUME ShapeInv, MemoryInv, NEW r \in Runs, FetchLatest(r), NEW k \in DOMAIN served'[r],
         \A i \in DOMAIN served[r] : Reported(log, r, served[r][i])
  PROVE  \/ Reported(log, r, served'[r][k])
         \/ pc'[r] = "judge" /\ queue'[r] = <<served'[r][k]>>
<1> DEFINE n == Len(served[r]) + 1
           v == served[r]
           v2 == served'[r]
<1>0. Domains /\ v \in Seq(Envelopes) /\ pc[r] = "fetch"
  BY FetchOwn DEF ShapeInv, RunShape
<1>1. CASE served'[r] = v
  BY <1>1
<1>2. ASSUME NEW env \in Envelopes, v2 = Append(v, env),
             \/ Classify(seen[r], env) = "same"
             \/ pc'[r] = "judge" /\ queue'[r] = <<env>>
      PROVE  \/ Reported(log, r, v2[k])
             \/ pc'[r] = "judge" /\ queue'[r] = <<v2[k]>>
  <2>1. /\ Len(v) \in Nat /\ DOMAIN v = 1 .. Len(v) /\ DOMAIN v2 = 1 .. n
        /\ \A i \in 1 .. Len(v) : v2[i] = v[i]
        /\ v2[n] = env
    BY <1>0, <1>2, AppendProperties, LenProperties
  <2>2. k \in DOMAIN v \/ k = n
    BY <2>1
  <2>3. k \in DOMAIN v => Reported(log, r, v2[k])
    BY <2>1
  <2>4. Remembers(log, seen[r], r, {})
    BY <1>0 DEF MemoryInv, New, Running
  <2>5. Classify(seen[r], env) = "same" => Reported(log, r, env)
    BY <2>4, SameWasReported
  <2> HIDE DEF n, v, v2
  <2> QED BY <1>2, <2>1, <2>2, <2>3, <2>5
<1>3. \/ v2 = v
      \/ \E env \in Envelopes :
           /\ v2 = Append(v, env)
           /\ \/ Classify(seen[r], env) = "same"
              \/ pc'[r] = "judge" /\ queue'[r] = <<env>>
  BY <1>0 DEF FetchLatest, Domains
<1> QED BY <1>1, <1>2, <1>3

\* Each envelope a watch was served is accounted for.
Accounted(r, env) ==
  \/ Reported(log, r, env)
  \/ pc[r] = "judge" /\ queue[r] = <<env>>
  \/ pc[r] = "write" /\ current[r].env = env

LEMMA WatchOwn ==
  ASSUME ShapeInv, OrderInv, MemoryInv, WatchInv, NEW r \in Runs, Act(r),
         Sub[r] = "watch", pc'[r] # "done", NEW k \in DOMAIN served'[r],
         NEW env, env = served'[r][k]
  PROVE  Accounted(r, env)'
<1>0. Domains /\ pc[r] # "done"
  BY ActRuns DEF ShapeInv, Running
<1>1. CASE FetchLatest(r)
  <2>1. pc[r] = "fetch" /\ log' = log
    BY <1>0, <1>1, FetchOwn
  <2>2. \A i \in DOMAIN served[r] : Reported(log, r, served[r][i])
    BY <1>0, <2>1 DEF WatchInv
  <2> QED BY <1>1, <2>1, <2>2, PollIsAccountedFor DEF Accounted
<1>2. ASSUME served'[r] = served[r] PROVE Accounted(r, env)
  BY <1>0, <1>2 DEF WatchInv, Accounted
<1>3. Reported(log, r, env) => Reported(log', r, env)
  BY ReportedStays
<1>4. CASE Judge(r)
  <2>1. /\ served'[r] = served[r] /\ pc[r] = "judge" /\ pc'[r] = "write"
        /\ current'[r] = [env |-> Head(queue[r]), class |-> Classify(seen[r], Head(queue[r]))]
    BY <1>4, JudgeOwn
  <2>2. current'[r].env = Head(queue[r])
    BY <2>1
  <2> QED BY <1>2, <1>3, <2>1, <2>2 DEF Accounted
<1>5. CASE Emit(r)
  <2> DEFINE e == [run |-> r, env |-> current[r].env, class |-> current[r].class,
                   code |-> CodeOf(current[r].env, current[r].class)]
  <2>1. /\ e \in Reports /\ log' = Append(log, e) /\ log \in Seq(Reports)
        /\ e.run = r /\ e.env = current[r].env
    BY <1>0, <1>5, EmitsAReport, EmitOwn DEF OrderInv
  <2>2. pc[r] = "write" /\ served'[r] = served[r]
    BY <1>0, <1>5, EmitOwn
  <2> HIDE DEF e
  <2>3. Reported(log', r, current[r].env)
    BY <2>1, LastIsReported
  <2> QED BY <1>2, <1>3, <2>2, <2>3 DEF Accounted
<1>6. CASE Load(r) \/ Wake(r) \/ Interrupt(r)
  <2>1. /\ served'[r] = served[r] /\ queue'[r] = queue[r] /\ current'[r] = current[r]
        /\ pc'[r] = pc[r] \/ pc[r] \in {"ready", "sleep"}
    BY <1>0, <1>6, LoadOwn, QuietOwn
  <2> QED BY <1>2, <1>3, <2>1 DEF Accounted
<1>7. CASE WritePiece(r) \/ WriteFails(r)
  <2>1. /\ served'[r] = served[r] /\ queue'[r] = queue[r] /\ current'[r] = current[r]
        /\ pc'[r] = pc[r]
    BY <1>0, <1>7, WriteOwn
  <2> QED BY <1>2, <1>3, <2>1 DEF Accounted
<1>8. CASE FetchOne(r) \/ FetchPage(r)
  BY <1>8 DEF FetchOne, FetchPage
<1>9. CASE FetchError(r) \/ Undecodable(r) \/ EndRange(r) \/ EndWatch(r) \/ Crash(r)
  BY <1>0, <1>9, EndOwn, CrashOwn
<1> QED BY <1>1, <1>4, <1>5, <1>6, <1>7, <1>8, <1>9 DEF Act, Step

LEMMA WatchStep ==
  ASSUME ShapeInv, OrderInv, MemoryInv, WatchInv, NEW r \in Runs, Act(r)
  PROVE  WatchInv'
<1> SUFFICES ASSUME NEW s \in Runs, Sub[s] = "watch", pc'[s] # "done",
                    NEW k \in DOMAIN served'[s], NEW env, env = served'[s][k]
             PROVE  Accounted(s, env)'
  BY DEF WatchInv, Accounted
<1>1. CASE s = r
  BY <1>1, WatchOwn
<1>2. CASE s # r
  <2>1. /\ pc'[s] = pc[s] /\ queue'[s] = queue[s] /\ current'[s] = current[s]
        /\ served'[s] = served[s]
    BY <1>2, Others DEF ShapeInv
  <2>2. Accounted(s, env)
    BY <2>1 DEF WatchInv, Accounted
  <2>3. Reported(log, s, env) => Reported(log', s, env)
    BY ReportedStays
  <2> QED BY <2>1, <2>2, <2>3 DEF Accounted
<1> QED BY <1>1, <1>2

\* What a watch leaves out was printed before, with the same bytes, by this run or
\* an earlier one on its store: in a run without a store whatever other runs do, and
\* in runs with one that follow each other and are not disturbed (run_watch, peek).
THEOREM SkippedOnlyIfPrintedTheorem ==
  ASSUME Undisturbed
  PROVE  Spec => []SkippedOnlyIfPrinted
<1>1. Init => WatchInv
  BY DEF Init, WatchInv
<1>2. ShapeInv /\ OrderInv /\ MemoryInv /\ WatchInv /\ [Next]_vars => WatchInv'
  <2>1. ASSUME WatchInv, UNCHANGED vars PROVE WatchInv'
    BY <2>1 DEF WatchInv, vars
  <2> QED BY <2>1, WatchStep DEF Next, Act
<1>3. WatchInv => SkippedOnlyIfPrinted
  BY DEF WatchInv, SkippedOnlyIfPrinted, Reported
<1>4. Spec => [](SerialInv /\ MemoryInv /\ StoreInv)
  BY UndisturbedInvariant
<1> QED BY <1>1, <1>2, <1>3, <1>4, ShapeInvariant, OrderInvariant, PTL DEF Spec

---------------------------------------------------------------------------
(* Runs with a store are one map of first sightings *)

AnswerOf(env, class) ==
  [id |-> <<env.id>>, hash |-> <<env.body.hash>>, ok |-> class # "conflict"]

AnswerSet == {AnswerOf(env, class) : env \in Envelopes, class \in Classes}

Told(p) == [k \in DOMAIN p |-> AnswerOf(p[k].env, p[k].class)]

LEMMA ToldIsSeq ==
  ASSUME NEW s \in Seq(Reports)
  PROVE  /\ Told(s) \in Seq(AnswerSet) /\ Len(Told(s)) = Len(s)
         /\ \A k \in 1 .. Len(s) : Told(s)[k] = AnswerOf(s[k].env, s[k].class)
<1>1. \A o \in Reports : AnswerOf(o.env, o.class) \in AnswerSet
  BY DEF Reports, AnswerSet
<1>2. DOMAIN s = 1 .. Len(s) /\ Len(s) \in Nat /\ \A k \in 1 .. Len(s) : s[k] \in Reports
  BY LenProperties, ElementOfSeq
<1>3. Told(s) = [k \in 1 .. Len(s) |-> AnswerOf(s[k].env, s[k].class)]
  BY <1>2 DEF Told
<1>4. \A k \in 1 .. Len(s) : AnswerOf(s[k].env, s[k].class) \in AnswerSet
  BY <1>1, <1>2
<1> QED BY <1>2, <1>3, <1>4

LEMMA ToldGrows ==
  ASSUME NEW p \in Seq(Reports), NEW e \in Reports
  PROVE  /\ Told(p) \in Seq(AnswerSet)
         /\ Told(Append(p, e)) = Append(Told(p), AnswerOf(e.env, e.class))
<1>1. \A o \in Reports : AnswerOf(o.env, o.class) \in AnswerSet
  BY DEF Reports, AnswerSet
<1>2. \A s \in Seq(Reports) : /\ Told(s) \in Seq(AnswerSet) /\ Len(Told(s)) = Len(s)
                              /\ \A k \in 1 .. Len(s) : Told(s)[k] = AnswerOf(s[k].env, s[k].class)
  BY ToldIsSeq
<1> DEFINE q == Append(p, e)
           a == AnswerOf(e.env, e.class)
           t == Told(p)
           n == Len(p)
<1>3. /\ q \in Seq(Reports) /\ Len(q) = n + 1 /\ n \in Nat
      /\ q[n + 1] = e /\ \A k \in 1 .. n : q[k] = p[k]
  BY AppendProperties, LenProperties
<1>4. t \in Seq(AnswerSet) /\ Len(t) = n /\ \A k \in 1 .. n : t[k] = AnswerOf(p[k].env, p[k].class)
  BY <1>2
<1>5. /\ Told(q) \in Seq(AnswerSet) /\ Len(Told(q)) = n + 1
      /\ \A k \in 1 .. n + 1 : Told(q)[k] = AnswerOf(q[k].env, q[k].class)
  BY <1>2, <1>3
<1>6. a \in AnswerSet
  BY <1>1
<1> HIDE DEF q, a, t, n
<1>7. /\ Append(t, a) \in Seq(AnswerSet) /\ Len(Append(t, a)) = n + 1
      /\ Append(t, a)[n + 1] = a /\ \A k \in 1 .. n : Append(t, a)[k] = t[k]
  BY <1>4, <1>6, AppendProperties
<1>8. \A k \in 1 .. n + 1 : Told(q)[k] = Append(t, a)[k]
  <2> TAKE k \in 1 .. n + 1
  <2>1. CASE k \in 1 .. n
    BY <1>3, <1>4, <1>5, <1>7, <2>1
  <2>2. CASE k = n + 1
    BY <1>3, <1>5, <1>7, <2>2 DEF a
  <2>3. k \in 1 .. n \/ k = n + 1
    BY <1>3
  <2> QED BY <2>1, <2>2, <2>3
<1>9. Told(q) = Append(t, a)
  BY <1>5, <1>7, <1>8, SeqEqual
<1> QED BY <1>4, <1>9 DEF q, a, t

\* The abstract map and answers, in terms of the run at work.
LEMMA KnownAtWork ==
  ASSUME NEW r \in Stored, \A s \in Stored : Running(s) <=> s = r
  PROVE  Known = seen[r]
<1>1. (CHOOSE s \in Stored : Running(s)) = r
  OBVIOUS
<1> QED BY <1>1 DEF Known

LEMMA KnownAtWorkNext ==
  ASSUME NEW r \in Stored, \A s \in Stored : Running(s)' <=> s = r
  PROVE  Known' = seen'[r]
<1>1. (CHOOSE s \in Stored : Running(s)') = r
  OBVIOUS
<1> QED BY <1>1 DEF Known

LEMMA AnswersAtWork ==
  ASSUME NEW r \in Stored, \A s \in Stored : pc[s] = "write" <=> s = r
  PROVE  Answers = Told(PrintedBy(Stored)) \o <<AnswerOf(current[r].env, current[r].class)>>
<1>1. (CHOOSE s \in Stored : pc[s] = "write") = r
  OBVIOUS
<1> QED BY <1>1 DEF Answers, Told, AnswerOf

LEMMA AnswersAtWorkNext ==
  ASSUME NEW r \in Stored, \A s \in Stored : pc'[s] = "write" <=> s = r
  PROVE  Answers' = Told(PrintedBy(Stored)')
                      \o <<AnswerOf(current'[r].env, current'[r].class)>>
<1>1. (CHOOSE s \in Stored : pc'[s] = "write") = r
  OBVIOUS
<1> QED BY <1>1 DEF Answers, Told, AnswerOf

LEMMA AnswersIdle ==
  ASSUME \A s \in Stored : pc[s] # "write"
  PROVE  Answers = Told(PrintedBy(Stored)) \o <<>>
BY DEF Answers, Told, AnswerOf

LEMMA AnswersIdleNext ==
  ASSUME \A s \in Stored : pc'[s] # "write"
  PROVE  Answers' = Told(PrintedBy(Stored)') \o <<>>
BY DEF Answers, Told, AnswerOf

\* Between runs it is what the next one will load.
LEMMA KnownIdle ==
  ASSUME \A s \in Stored : ~Running(s)
  PROVE  Known = Loaded(file)
BY DEF Known

LEMMA KnownIdleNext ==
  ASSUME \A s \in Stored : ~Running(s)'
  PROVE  Known' = Loaded(file')
BY DEF Known

\* Of the runs with a store at most one is at work, and only that one can write.
LEMMA OneAtWork ==
  ASSUME SerialInv, NEW r \in Stored, Running(r)
  PROVE  /\ \A s \in Stored : Running(s) <=> s = r
         /\ \A s \in Stored : pc[s] = "write" => s = r
<1>1. r \in Runs /\ Stored \subseteq Runs /\ Stored # {}
  BY AuditAssumption
<1>2. \A s \in Stored : Running(s) => s = r
  BY <1>1 DEF SerialInv
<1>3. \A s \in Stored : pc[s] = "write" => Running(s)
  BY DEF Running
<1> QED BY <1>2, <1>3

LEMMA OneAtWorkNext ==
  ASSUME SerialInv', NEW r \in Stored, Running(r)'
  PROVE  /\ \A s \in Stored : Running(s)' <=> s = r
         /\ \A s \in Stored : pc'[s] = "write" => s = r
<1>1. r \in Runs /\ Stored \subseteq Runs /\ Stored # {}
  BY AuditAssumption
<1>2. \A s \in Stored : Running(s)' => s = r
  BY <1>1 DEF SerialInv
<1>3. \A s \in Stored : pc'[s] = "write" => Running(s)'
  BY DEF Running
<1> QED BY <1>2, <1>3

\* A run without a store changes neither.
LEMMA ForeignStep ==
  ASSUME ShapeInv, OrderInv, SerialInv, SerialInv', NEW r \in Runs, r \notin Stored, Act(r)
  PROVE  Known' = Known /\ Answers' = Answers
<1>0. Domains /\ Stored \subseteq Runs
  BY AuditAssumption DEF ShapeInv
<1>1. \A s \in Stored : /\ pc'[s] = pc[s] /\ seen'[s] = seen[s] /\ current'[s] = current[s]
                        /\ (Running(s)' <=> Running(s))
  BY <1>0, Others, ActRuns
<1>2. file' = file
  <2>1. ~WritePiece(r)
    BY DEF WritePiece, SerialInv
  <2> QED BY <1>0, <2>1, LoadOwn, FetchOwn, EndOwn, QuietOwn, CrashOwn, JudgeOwn, EmitOwn
          DEF Act, Step, WriteFails
<1>3. PrintedBy(Stored)' = PrintedBy(Stored)
  <2>1. CASE log' = log
    BY <2>1 DEF PrintedBy
  <2>2. CASE Emit(r)
    <3> DEFINE e == [run |-> r, env |-> current[r].env, class |-> current[r].class,
                     code |-> CodeOf(current[r].env, current[r].class)]
    <3>1. e \in Reports /\ log' = Append(log, e) /\ e.run = r
      BY <1>0, <2>2, EmitsAReport, EmitOwn
    <3> HIDE DEF e
    <3> QED BY <1>0, <3>1, PrintedGrows
  <2> QED BY <2>1, <2>2, PrintsNothing
<1>4. Known' = Known
  <2>1. ASSUME NEW w \in Stored, Running(w) PROVE Known' = Known
    <3>1. /\ \A s \in Stored : Running(s) <=> s = w
          /\ \A s \in Stored : Running(s)' <=> s = w
      BY <1>1, <2>1, OneAtWork
    <3>2. Known = seen[w]
      BY <3>1, KnownAtWork
    <3>3. Known' = seen'[w]
      BY <3>1, KnownAtWorkNext
    <3> QED BY <1>1, <3>2, <3>3
  <2>2. ASSUME \A s \in Stored : ~Running(s) PROVE Known' = Known
    <3>1. \A s \in Stored : ~Running(s)'
      BY <1>1, <2>2
    <3> QED BY <1>2, <2>2, <3>1, KnownIdle, KnownIdleNext
  <2> QED BY <2>1, <2>2
<1>5. Answers' = Answers
  <2>1. ASSUME NEW w \in Stored, pc[w] = "write" PROVE Answers' = Answers
    <3>1. Running(w)
      BY <2>1 DEF Running
    <3>2. /\ \A s \in Stored : pc[s] = "write" <=> s = w
          /\ \A s \in Stored : pc'[s] = "write" <=> s = w
      BY <1>1, <2>1, <3>1, OneAtWork
    <3>3. Answers = Told(PrintedBy(Stored)) \o <<AnswerOf(current[w].env, current[w].class)>>
      BY <3>2, AnswersAtWork
    <3>4. Answers' = Told(PrintedBy(Stored)')
                       \o <<AnswerOf(current'[w].env, current'[w].class)>>
      BY <3>2, AnswersAtWorkNext
    <3> QED BY <1>1, <1>3, <3>3, <3>4
  <2>2. ASSUME \A s \in Stored : pc[s] # "write" PROVE Answers' = Answers
    <3>1. \A s \in Stored : pc'[s] # "write"
      BY <1>1, <2>2
    <3> QED BY <1>3, <2>2, <3>1, AnswersIdle, AnswersIdleNext
  <2> QED BY <2>1, <2>2
<1> QED BY <1>4, <1>5

\* A run at work that has a store: what is known is its map, and when it ends what
\* the next one loads is that map.
LEMMA KnownFollows ==
  ASSUME ~StoreMayFail, ~MayCrash, ShapeInv, ShapeInv', OrderInv, SerialInv, SerialInv',
         MemoryInv, StoreInv,
         NEW r \in Stored, Running(r), Act(r)
  PROVE  Known = seen[r] /\ Known' = seen'[r]
<1>0. Domains /\ r \in Runs /\ ~Crash(r) /\ ~Load(r)
  BY AuditAssumption, ActRuns DEF ShapeInv, Crash, Running
<1>1. Known = seen[r]
  BY OneAtWork, KnownAtWork
<1>2. CASE Running(r)'
  BY <1>1, <1>2, OneAtWorkNext, KnownAtWorkNext
<1>3. CASE ~Running(r)'
  <2>1. \A s \in Stored : ~Running(s)'
    <3> SUFFICES ASSUME NEW s \in Stored, s # r PROVE ~Running(s)'
      BY <1>3
    <3>1. ~Running(s)
      BY OneAtWork
    <3> QED BY <1>0, <3>1, ActRuns, AuditAssumption
  <2>2. FileFollows(r)'
    BY <1>0, OwnFile DEF StoreInv
  <2>3. pc'[r] # "write"
    BY <1>3 DEF Running
  <2>4. pending'[r] = <<>>
    BY <1>0, <2>3 DEF ShapeInv, RunShape
  <2>5. Spells(file', seen'[r])
    BY <2>2, <2>4 DEF FileFollows
  <2>6. Remembers(log', seen'[r], r, New(r)')
    BY <1>0, OwnMemory DEF MemoryInv
  <2>7. Loaded(file') = seen'[r]
    BY <2>5, <2>6, LoadedSpelled DEF Remembers
  <2> QED BY <1>1, <2>1, <2>7, KnownIdleNext
<1> QED BY <1>1, <1>2, <1>3

\* Judging is a sighting; the answer is told with the next step of the run.
LEMMA JudgeIsSighting ==
  ASSUME ~StoreMayFail, ~MayCrash, ShapeInv, ShapeInv', OrderInv, SerialInv, SerialInv',
         MemoryInv, StoreInv,
         NEW r \in Stored, Running(r), Judge(r)
  PROVE  First!Next
<1> DEFINE env == Head(queue[r])
           class == Classify(seen[r], env)
           m == seen[r]
           k == <<env.id>>
           v == <<env.body.hash>>
           told == Told(PrintedBy(Stored))
           a == AnswerOf(env, class)
<1>0. r \in Runs /\ Act(r)
  BY AuditAssumption DEF Act, Step
<1>1. /\ pc[r] = "judge" /\ pc'[r] = "write" /\ log' = log /\ env \in Envelopes
      /\ current'[r] = [env |-> env, class |-> class]
  BY <1>0, JudgeOwn DEF Judged
<1>2. current'[r].env = env /\ current'[r].class = class
  BY <1>1
<1>3. k \in IdWords /\ v \in HashWords
  BY <1>1 DEF Envelopes, IdWords, HashWords
<1>4. Known = m /\ Known' = seen'[r]
  BY <1>0, KnownFollows
<1>5. Known' = IF k \in DOMAIN m THEN m ELSE Extended(m, k, v)
  <2>1. class = "new" => k \notin DOMAIN m
    BY ClassifySays
  <2>2. class # "new" => k \in DOMAIN m
    BY ClassifySays
  <2>3. class = "new" => seen'[r] = Extended(m, k, v)
    BY <1>0, JudgeRecords
  <2>4. class # "new" => seen'[r] = m
    BY <1>0, JudgeRecords
  <2> HIDE DEF class, m, k, v
  <2> QED BY <1>4, <2>1, <2>2, <2>3, <2>4
<1>6. a = [id |-> k, hash |-> v, ok |-> k \in DOMAIN m => m[k] = v]
  <2>1. (class # "conflict") <=> (k \in DOMAIN m => m[k] = v)
    BY DEF Classify
  <2>2. (class # "conflict") = (k \in DOMAIN m => m[k] = v)
    BY <2>1
  <2> HIDE DEF class, m
  <2> QED BY <2>2 DEF AnswerOf
<1>7. Answers = told \o <<>> /\ Answers' = told \o <<a>>
  <2>1. /\ \A s \in Stored : pc[s] = "write" => s = r
        /\ Running(r)'
    BY <1>1, OneAtWork DEF Running
  <2>2. \A s \in Stored : pc[s] # "write"
    BY <1>1, <2>1
  <2>3. \A s \in Stored : pc'[s] = "write" <=> s = r
    BY <1>1, <2>1, OneAtWorkNext
  <2>4. PrintedBy(Stored)' = PrintedBy(Stored)
    BY <1>1 DEF PrintedBy
  <2>5. Answers = told \o <<>>
    BY <2>2, AnswersIdle
  <2>6. Answers' = Told(PrintedBy(Stored)')
                     \o <<AnswerOf(current'[r].env, current'[r].class)>>
    BY <2>3, AnswersAtWorkNext
  <2> HIDE DEF env, class
  <2> QED BY <1>2, <2>4, <2>5, <2>6
<1>8. told \in Seq(AnswerSet) /\ a \in AnswerSet
  <2>1. PrintedBy(Stored) \in Seq(Reports)
    BY PrintedIsSeq, AuditAssumption
  <2>2. told \in Seq(AnswerSet)
    BY <2>1, ToldIsSeq
  <2>3. class \in Classes
    BY DEF Classify, Classes
  <2> HIDE DEF env, class
  <2> QED BY <1>1, <2>2, <2>3 DEF AnswerSet
<1> HIDE DEF told, a
<1>9. Answers' = Append(Answers, a)
  <2>1. told \o <<>> = told /\ Append(told, a) = told \o <<a>>
    BY <1>8, ConcatEmptySeq, AppendIsConcat
  <2> QED BY <1>7, <2>1
<1> HIDE DEF m, k, v
<1>10. First!Sighting(k, v)
  BY <1>4, <1>5, <1>6, <1>9 DEF First!Sighting, First!Known, Extended
<1> QED BY <1>3, <1>10 DEF First!Next, IdWords, HashWords

\* Every other step of a run at work leaves the map and the answers alone.
LEMMA OtherStepsTell ==
  ASSUME ~StoreMayFail, ~MayCrash, ShapeInv, ShapeInv', OrderInv, SerialInv, SerialInv',
         MemoryInv, StoreInv,
         NEW r \in Stored, Running(r), Act(r), ~Judge(r)
  PROVE  Known' = Known /\ Answers' = Answers
<1>0. Domains /\ r \in Runs /\ Stored \subseteq Runs /\ ~Crash(r) /\ ~Load(r)
  BY AuditAssumption, ActRuns DEF ShapeInv, Crash, Running
<1>1. seen'[r] = seen[r]
  BY <1>0, FetchOwn, EndOwn, QuietOwn, WriteOwn, EmitOwn DEF Act, Step
<1>2. Known' = Known
  BY <1>1, KnownFollows
<1>3. \A s \in Stored : s # r => pc[s] # "write" /\ pc'[s] # "write"
  <2>1. \A s \in Stored : s # r => pc[s] # "write"
    BY OneAtWork
  <2> QED BY <1>0, <2>1, Others
<1>4. CASE Emit(r)
  <2> DEFINE e == [run |-> r, env |-> current[r].env, class |-> current[r].class,
                   code |-> CodeOf(current[r].env, current[r].class)]
             p == PrintedBy(Stored)
  <2>1. e \in Reports /\ log' = Append(log, e) /\ e.run = r
    BY <1>0, <1>4, EmitsAReport, EmitOwn
  <2>2. e.env = current[r].env /\ e.class = current[r].class
    OBVIOUS
  <2>3. pc[r] = "write" /\ pc'[r] # "write"
    BY <1>0, <1>4, EmitOwn
  <2>4. p \in Seq(Reports)
    BY <1>0, PrintedIsSeq
  <2> HIDE DEF e
  <2>5. PrintedBy(Stored)' = Append(p, e)
    BY <1>0, <2>1, PrintedGrows
  <2>6. Answers = Told(p) \o <<AnswerOf(e.env, e.class)>>
    BY <1>3, <2>2, <2>3, AnswersAtWork
  <2>7. Answers' = Told(Append(p, e)) \o <<>>
    BY <1>3, <2>3, <2>5, AnswersIdleNext
  <2> HIDE DEF p
  <2>8. /\ Told(p) \in Seq(AnswerSet)
        /\ Told(Append(p, e)) = Append(Told(p), AnswerOf(e.env, e.class))
    BY <2>1, <2>4, ToldGrows
  <2>9. AnswerOf(e.env, e.class) \in AnswerSet
    BY <2>1 DEF AnswerSet, Reports
  <2> DEFINE t == Told(p)
             a == AnswerOf(e.env, e.class)
  <2> HIDE DEF t, a
  <2>10. /\ Append(t, a) = t \o <<a>> /\ Append(t, a) \in Seq(AnswerSet)
         /\ Append(t, a) \o <<>> = Append(t, a)
    BY <2>8, <2>9, AppendIsConcat, AppendProperties, ConcatEmptySeq DEF t, a
  <2> QED BY <1>2, <2>6, <2>7, <2>8, <2>10 DEF t, a
<1>5. CASE ~Emit(r)
  <2>1. log' = log
    BY <1>0, <1>5, PrintsNothing
  <2>2. PrintedBy(Stored)' = PrintedBy(Stored)
    BY <2>1 DEF PrintedBy
  <2>3. \/ pc[r] # "write" /\ pc'[r] # "write"
        \/ pc[r] = "write" /\ pc'[r] = "write" /\ current'[r] = current[r]
    BY <1>0, <1>5, FetchOwn, EndOwn, QuietOwn, WriteOwn DEF Act, Step
  <2>4. CASE pc[r] # "write" /\ pc'[r] # "write"
    BY <1>2, <1>3, <2>2, <2>4, AnswersIdle, AnswersIdleNext
  <2>5. CASE pc[r] = "write" /\ pc'[r] = "write" /\ current'[r] = current[r]
    BY <1>2, <1>3, <2>2, <2>5, AnswersAtWork, AnswersAtWorkNext
  <2> QED BY <2>3, <2>4, <2>5
<1> QED BY <1>4, <1>5

\* A run starts with what was known.
LEMMA LoadKnows ==
  ASSUME Undisturbed, ShapeInv, SerialInv', NEW r \in Stored, Load(r)
  PROVE  Known' = Known /\ Answers' = Answers
<1>0. Domains /\ Stored \subseteq Runs /\ r \in Runs /\ Act(r) /\ Serial /\ ~StoreMayFail
  BY AuditAssumption DEF ShapeInv, Undisturbed, Act
<1>1. /\ \A s \in Runs : ~Running(s)
      /\ seen'[r] = Loaded(file) /\ pc'[r] = "fetch" /\ log' = log
  BY <1>0 DEF Load, Domains
<1>2. Running(r)'
  BY <1>1 DEF Running
<1>3. Known = Loaded(file)
  BY <1>0, <1>1, KnownIdle
<1>4. Known' = seen'[r]
  BY <1>1, <1>2, OneAtWorkNext, KnownAtWorkNext
<1>5. \A s \in Stored : pc[s] # "write" /\ pc'[s] # "write"
  BY <1>0, <1>1, <1>2, OneAtWorkNext DEF Running
<1>6. PrintedBy(Stored)' = PrintedBy(Stored)
  BY <1>1 DEF PrintedBy
<1>7. Answers' = Answers
  BY <1>5, <1>6, AnswersIdle, AnswersIdleNext
<1> QED BY <1>1, <1>3, <1>4, <1>7

\* Runs that are not disturbed answer like one map that keeps the first hash of
\* every id for ever: each judged envelope is a sighting, and no load, no piece of
\* a line, no report and no end of a run changes the map or an answer
\* (SeenStore::load, record).
THEOREM RefinesFirstSeenTheorem ==
  ASSUME Undisturbed
  PROVE  Spec => RefinesFirstSeen
<1>1. Init => First!Init
  <2> SUFFICES ASSUME Init PROVE First!Init
    OBVIOUS
  <2>1. \A r \in Stored : pc[r] = "ready" /\ ~Running(r)
    BY AuditAssumption DEF Init, Running
  <2>2. log = <<>> /\ file = EmptyFile
    BY DEF Init
  <2>3. Known = <<>>
    <3>1. Spells(EmptyFile, <<>>)
      <4>1. EmptyFile \in Seq(Lines) /\ Len(EmptyFile) = 1 /\ EmptyFile[1] = << <<>> >>
        BY DEF EmptyFile, Lines
      <4>2. 1 .. 1 - 1 = {} /\ DOMAIN <<>> = {}
        OBVIOUS
      <4> QED BY <4>1, <4>2 DEF Spells, FullLines
    <3>2. DOMAIN <<>> = {} /\ <<>> \in [{} -> HashWords]
      OBVIOUS
    <3>3. Loaded(EmptyFile) = <<>>
      BY <3>1, <3>2, LoadedSpelled
    <3> QED BY <2>1, <2>2, <3>3, KnownIdle
  <2>4. PrintedBy(Stored) = <<>>
    <3>1. OrderInv
      BY <2>2, InitOrder
    <3>2. Theirs(Stored) = {}
      BY <2>2 DEF Theirs
    <3>3. PrintedBy(Stored) \in Seq(Reports) /\ Len(PrintedBy(Stored)) = 0
      BY <3>1, <3>2, PrintedIsSeq, FS_EmptySet, AuditAssumption
    <3> QED BY <3>3, EmptySeq
  <2>5. Answers = <<>>
    <3>1. Told(<<>>) = <<>>
      BY DEF Told
    <3>2. Answers = Told(PrintedBy(Stored)) \o <<>>
      BY <2>1, AnswersIdle
    <3> QED BY <2>4, <3>1, <3>2
  <2> QED BY <2>3, <2>5 DEF First!Init
<1>2. /\ ShapeInv /\ OrderInv /\ SerialInv /\ MemoryInv /\ StoreInv
      /\ ShapeInv' /\ SerialInv' /\ [Next]_vars
      => First!Next \/ (Known' = Known /\ Answers' = Answers)
  <2> SUFFICES ASSUME ShapeInv, OrderInv, SerialInv, MemoryInv, StoreInv, ShapeInv', SerialInv',
                      [Next]_vars
               PROVE  First!Next \/ (Known' = Known /\ Answers' = Answers)
    OBVIOUS
  <2>1. CASE UNCHANGED vars
    BY <2>1 DEF vars, Known, Answers, PrintedBy, Running
  <2>2. ASSUME NEW r \in Runs, Act(r), r \in Stored
        PROVE  First!Next \/ (Known' = Known /\ Answers' = Answers)
    <3>1. ~StoreMayFail /\ ~MayCrash /\ Domains
      BY <2>2 DEF Undisturbed, ShapeInv
    <3>2. CASE Load(r)
      BY <2>2, <3>2, LoadKnows
    <3>3. CASE Judge(r)
      <4>1. Running(r)
        BY <3>3 DEF Judge, Running
      <4> QED BY <2>2, <3>1, <3>3, <4>1, JudgeIsSighting
    <3>4. CASE ~Load(r) /\ ~Judge(r)
      <4>1. Running(r)
        BY <2>2, <3>1, <3>4, ActRuns
      <4> QED BY <2>2, <3>1, <3>4, <4>1, OtherStepsTell
    <3> QED BY <3>2, <3>3, <3>4
  <2>3. ASSUME NEW r \in Runs, Act(r) PROVE First!Next \/ (Known' = Known /\ Answers' = Answers)
    BY <2>2, <2>3, ForeignStep
  <2> QED BY <2>1, <2>3 DEF Next, Act
<1>3. Spec => [](SerialInv /\ MemoryInv /\ StoreInv)
  BY UndisturbedInvariant
<1>4. (First!Next \/ (Known' = Known /\ Answers' = Answers))
        <=> [First!Next]_<<Known, Answers>>
  OBVIOUS
<1> QED BY <1>1, <1>2, <1>3, <1>4, ShapeInvariant, OrderInvariant, PTL
        DEF Spec, RefinesFirstSeen, First!Spec

=============================================================================
