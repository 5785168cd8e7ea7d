--------------------------- MODULE BackendClient ---------------------------
(***************************************************************************)
(* The backend client of src/backend.rs: minting and refreshing the upload *)
(* token, one authenticated GET retried once on 401, and the requests made *)
(* of such GETs (fetch_one, fetch_latest and the pages of fetch_range).    *)
(* The server keeps a token for TokenLife ticks unless it revokes it, and  *)
(* may fail any call.  The proofs of a range are Items, newest first, the  *)
(* same while it is fetched.  The server keeps nothing about a range: a    *)
(* page starts where the cursor the client sent says.                      *)
(***************************************************************************)
EXTENDS Integers, Sequences, FiniteSets

CONSTANTS
  None,
  Items,         \* the sequence of proofs of the window
  RefreshAfter,  \* TOKEN_REFRESH_AFTER, in clock ticks
  TokenLife,     \* how long the server honours a token, in clock ticks
  PageLimit,     \* RANGE_PAGE_LIMIT: the most proofs of a page
  MaxEmpty,      \* bound: empty pages with a cursor, in one range
  MayRevoke,     \* the server may revoke tokens
  MaxClock,      \* bound: the last instant
  MaxRequests    \* bound: requests

ASSUME ClientAssumption ==
  /\ Items \in Seq(Nat)
  /\ RefreshAfter \in Nat /\ TokenLife \in Nat /\ RefreshAfter < TokenLife
  /\ PageLimit \in Nat

\* None is the absence of a number, a cursor, a token or an answer.
ASSUME NoneAssumption == None \notin Nat /\ None \notin [at : Nat, empty : Nat]

VARIABLES
  clock,
  token,     \* the held token: [minted, id], or None
  honoured,  \* the tokens the server still honours
  minted,    \* how many tokens were minted
  pc,        \* "idle", "ensure", "get", "remint" or "retry"
  request,   \* "one", "latest" or "range"
  out,       \* the items received by this request
  cursor,    \* the cursor the next page is asked with, or None
  refused,   \* history: what `minted` was at the first 401 of this GET, or None
  result,    \* the answer of the last request, None before
  requests

vars == <<clock, token, honoured, minted, pc, request, out, cursor, refused, result, requests>>

Answer(kind, items) == [kind |-> kind, items |-> items]

End(answer) == pc' = "idle" /\ result' = answer

\* A call of fetch_one, fetch_latest or fetch_range.
Ask ==
  /\ pc = "idle"
  /\ requests < MaxRequests
  /\ request' \in {"one", "latest", "range"}
  /\ requests' = requests + 1
  /\ out' = <<>>
  /\ cursor' = None
  /\ refused' = None
  /\ pc' = "ensure"
  /\ UNCHANGED <<clock, token, honoured, minted, result>>

Mint(next) ==
  \/ /\ token' = [minted |-> clock, id |-> minted + 1]
     /\ minted' = minted + 1
     /\ honoured' = honoured \cup {minted + 1}
     /\ pc' = next
     /\ UNCHANGED result
  \/ /\ End(Answer("error", <<>>))
     /\ UNCHANGED <<token, minted, honoured>>

\* ensure_token: mint when there is none or it is old.
Ensure ==
  /\ pc = "ensure"
  /\ IF token = None \/ clock - token.minted >= RefreshAfter
     THEN Mint("get")
     ELSE pc' = "get" /\ UNCHANGED <<token, minted, honoured, result>>
  /\ UNCHANGED <<clock, request, out, cursor, refused, requests>>

\* force_refresh after a 401.
Remint ==
  /\ pc = "remint"
  /\ Mint("retry")
  /\ UNCHANGED <<clock, request, out, cursor, refused, requests>>

\* Where a cursor points: the proofs before it and the empty pages so far.
Place == IF cursor = None THEN [at |-> 0, empty |-> 0] ELSE cursor

\* The page of n proofs from there, and the cursor behind it.
Page(n) == SubSeq(Items, Place.at + 1, Place.at + n)
NextCursor(n) == [at |-> Place.at + n, empty |-> Place.empty + (IF n = 0 THEN 1 ELSE 0)]

\* The list after a page of n.
Received(n) == out \o Page(n)

\* Mutant of Follow: the first cursor is kept.
FollowFirst(next) == IF cursor = None THEN next ELSE cursor

\* The cursor the client goes on with.
Follow(next) == next

Honoured == token.id \in honoured /\ clock - token.minted < TokenLife

\* A GET the server answers with 2xx.  A range ends with the first page that has
\* no next_cursor (or an empty one), which the server gives only at the end.
GetOk ==
  /\ pc \in {"get", "retry"}
  /\ Honoured
  /\ \/ /\ request = "range"
        /\ \E n \in 0 .. PageLimit :
             /\ Place.at + n <= Len(Items)
             /\ out' = Received(n)
             /\ \/ /\ NextCursor(n).empty <= MaxEmpty
                   /\ cursor' = Follow(NextCursor(n))
                   /\ refused' = None
                   /\ pc' = "ensure"
                   /\ UNCHANGED result
                \/ /\ Place.at + n = Len(Items)
                   /\ End(Answer("items", Received(n)))
                   /\ UNCHANGED <<cursor, refused>>
     \/ /\ request # "range"
        /\ Items # <<>>
        /\ out' = <<Items[1]>>
        /\ End(Answer("items", <<Items[1]>>))
        /\ UNCHANGED <<cursor, refused>>
  /\ UNCHANGED <<clock, token, honoured, minted, request, requests>>

\* 404: no proof.  /latest says so, a single proof is an error.
GetNothing ==
  /\ pc \in {"get", "retry"}
  /\ Honoured
  /\ request # "range"
  /\ End(IF request = "latest" THEN Answer("items", <<>>) ELSE Answer("error", <<>>))
  /\ UNCHANGED <<clock, token, honoured, minted, request, out, cursor, refused, requests>>

\* Mutants of GetUnauthorized: the retry goes through ensure_token, or is left out.
GetUnauthorizedEnsures ==
  /\ pc \in {"get", "retry"}
  /\ ~Honoured
  /\ pc' = "ensure"
  /\ UNCHANGED <<clock, token, honoured, minted, request, out, cursor, refused, result, requests>>

GetUnauthorizedOnce ==
  /\ pc \in {"get", "retry"}
  /\ ~Honoured
  /\ End(Answer("unauthorized", <<>>))
  /\ UNCHANGED <<clock, token, honoured, minted, request, out, cursor, refused, requests>>

\* 401: re-mint and retry, once.
GetUnauthorized ==
  /\ pc \in {"get", "retry"}
  /\ ~Honoured
  /\ IF pc = "get" THEN pc' = "remint" /\ refused' = minted /\ UNCHANGED result
     ELSE End(Answer("unauthorized", <<>>)) /\ UNCHANGED refused
  /\ UNCHANGED <<clock, token, honoured, minted, request, out, cursor, requests>>

\* A transport error, another status, a body too large or not decodable.
GetFails ==
  /\ pc \in {"get", "retry"}
  /\ End(Answer("error", <<>>))
  /\ UNCHANGED <<clock, token, honoured, minted, request, out, cursor, refused, requests>>

Tick ==
  /\ clock < MaxClock
  /\ clock' = clock + 1
  /\ UNCHANGED <<token, honoured, minted, pc, request, out, cursor, refused, result, requests>>

Revoke ==
  /\ MayRevoke
  /\ honoured # {}
  /\ honoured' = {}
  /\ UNCHANGED <<clock, token, minted, pc, request, out, cursor, refused, result, requests>>

Init ==
  /\ clock = 0
  /\ token = None
  /\ honoured = {}
  /\ minted = 0
  /\ pc = "idle"
  /\ request = "one"
  /\ out = <<>>
  /\ cursor = None
  /\ refused = None
  /\ result = None
  /\ requests = 0

ClientStep == Ensure \/ Remint \/ GetOk \/ GetNothing \/ GetUnauthorized \/ GetFails
Next == Ask \/ ClientStep \/ Tick \/ Revoke

Spec == Init /\ [][Next]_vars
FairSpec == Spec /\ WF_vars(ClientStep)

---------------------------------------------------------------------------
(* Properties *)

\* A range is returned whole or not at all: every proof of the window once and
\* in order, whatever pages the server cuts it into, empty ones included, and even
\* when tokens expire or are revoked between and during pages: the retry asks for
\* the page of the same cursor (fetch_range, get).
RangeIsComplete ==
  pc = "idle" /\ request = "range" /\ result # None /\ result.kind = "items"
    => result.items = Items

\* A request ends with the server's refusal only after a second 401, about a token
\* minted after the first 401 of the same GET: a held token that expired, early or
\* not, is always replaced first (get, force_refresh).
RefusalIsOfAFreshToken ==
  [][pc # "idle" /\ pc' = "idle" /\ result'.kind = "unauthorized"
       => refused # None /\ token.id > refused]_vars

\* Every request is answered: no retry or pagination goes on for ever when the
\* server's window is finite and its empty pages are.
RequestsEnd == pc # "idle" ~> pc = "idle"
=============================================================================
