------------------------ MODULE BackendClientProofs ------------------------
(***************************************************************************)
(* For every window of proofs and every way the server cuts it into pages, *)
(* every lifetime of tokens and every number of requests, a range is whole *)
(* and a refusal is of a token minted after the first.                     *)
(***************************************************************************)
EXTENDS BackendClient, SequenceTheorems, TLAPS

---------------------------------------------------------------------------
(* Ranges *)

\* What a range has received is what lies before the cursor it will send, and
\* what a range answered is all of the window.
RangeInv ==
  /\ pc # "idle" /\ request = "range" =>
       /\ Place.at \in 0 .. Len(Items)
       /\ cursor # None => cursor \in [at : Nat, empty : Nat]
       /\ out = SubSeq(Items, 1, Place.at)
  /\ RangeIsComplete

LEMMA PrefixGrows ==
  ASSUME NEW n \in Nat, Place.at \in 0 .. Len(Items), Place.at + n <= Len(Items),
         out = SubSeq(Items, 1, Place.at)
  PROVE  Received(n) = SubSeq(Items, 1, Place.at + n)
<1> DEFINE at == Place.at
<1>1. Items \in Seq(Nat) /\ Len(Items) \in Nat
  BY ClientAssumption, LenProperties
<1>2. at \in 0 .. Len(Items) /\ at + n <= Len(Items) /\ out = SubSeq(Items, 1, at)
  OBVIOUS
<1>3. Received(n) = out \o SubSeq(Items, at + 1, at + n)
  BY DEF Received, Page
<1> HIDE DEF at
<1>4. CASE Len(Items) = 0
  <2>1. at = 0 /\ n = 0
    BY <1>1, <1>2, <1>4
  <2> QED BY <1>1, <1>2, <1>3, <2>1, SubSeqEmpty, EmptySeq, ConcatEmptySeq
<1>5. CASE Len(Items) > 0
  <2>1. ASSUME NEW k \in 1 - 1 .. Len(Items), NEW m \in k .. Len(Items)
        PROVE  SubSeq(Items, 1, k) \o SubSeq(Items, k + 1, m) = SubSeq(Items, 1, m)
    BY <1>1, <1>5, ConcatAdjacentSubSeq
  <2>2. at \in 1 - 1 .. Len(Items) /\ at + n \in at .. Len(Items)
    BY <1>1, <1>2
  <2> QED BY <1>2, <1>3, <2>1, <2>2
<1> QED BY <1>1, <1>4, <1>5

\* A range is returned whole or not at all, whatever the window, the pages it is cut
\* into, the lifetime of tokens and the failures (fetch_range, get).
THEOREM RangeIsCompleteTheorem == Spec => []RangeIsComplete
<1>1. Init => RangeInv
  BY DEF Init, RangeInv, RangeIsComplete
<1>2. RangeInv /\ [Next]_vars => RangeInv'
  <2> SUFFICES ASSUME RangeInv, [Next]_vars PROVE RangeInv'
    OBVIOUS
  <2>0. Items \in Seq(Nat) /\ Len(Items) \in Nat
    BY ClientAssumption, LenProperties
  <2>1. CASE Ask
    <3>1. out' = <<>> /\ cursor' = None /\ pc' = "ensure" /\ Place'.at = 0
      BY <2>1 DEF Ask, Place
    <3>2. SubSeq(Items, 1, 0) = <<>>
      BY <2>0, SubSeqEmpty
    <3> QED BY <2>0, <3>1, <3>2 DEF RangeInv, RangeIsComplete
  <2>2. CASE Ensure
    BY <2>2 DEF Ensure, Mint, End, Answer, RangeInv, RangeIsComplete, Place
  <2>3. CASE Remint
    BY <2>3 DEF Remint, Mint, End, Answer, RangeInv, RangeIsComplete, Place
  <2>4. CASE GetOk
    <3>1. CASE request = "range"
      <4>1. PICK n \in 0 .. PageLimit :
              /\ Place.at + n <= Len(Items)
              /\ out' = Received(n)
              /\ \/ cursor' = NextCursor(n) /\ pc' = "ensure"
                 \/ Place.at + n = Len(Items) /\ End(Answer("items", Received(n)))
        BY <2>4, <3>1 DEF GetOk, Follow
      <4>2. n \in Nat
        BY ClientAssumption
      <4>3. Place.at \in 0 .. Len(Items)
        BY <2>4, <3>1 DEF GetOk, RangeInv
      <4>4. Received(n) = SubSeq(Items, 1, Place.at + n)
        BY <2>4, <3>1, <4>1, <4>2, <4>3, PrefixGrows DEF GetOk, RangeInv
      <4>5. CASE cursor' = NextCursor(n) /\ pc' = "ensure"
        <5>1. Place \in [at : Nat, empty : Nat]
          BY <2>4, <3>1 DEF GetOk, RangeInv, Place
        <5>2. NextCursor(n) \in [at : Nat, empty : Nat] /\ NextCursor(n).at = Place.at + n
          BY <4>2, <5>1 DEF NextCursor
        <5>3. Place' = NextCursor(n) /\ cursor' \in [at : Nat, empty : Nat]
          BY <4>5, <5>2, NoneAssumption DEF Place
        <5> QED BY <2>0, <4>1, <4>2, <4>3, <4>4, <4>5, <5>2, <5>3 DEF RangeInv, RangeIsComplete
      <4>6. CASE Place.at + n = Len(Items) /\ End(Answer("items", Received(n)))
        <5>1. Received(n) = Items
          BY <2>0, <4>4, <4>6, SubSeqFull
        <5> QED BY <4>6, <5>1 DEF RangeInv, RangeIsComplete, End, Answer
      <4> QED BY <4>1, <4>5, <4>6
    <3>2. CASE request # "range"
      BY <2>4, <3>2 DEF GetOk, RangeInv, RangeIsComplete
    <3> QED BY <3>1, <3>2
  <2>5. CASE GetNothing
    BY <2>5 DEF GetNothing, End, RangeInv, RangeIsComplete, Place
  <2>6. CASE GetUnauthorized
    BY <2>6 DEF GetUnauthorized, End, Answer, RangeInv, RangeIsComplete, Place
  <2>7. CASE GetFails
    BY <2>7 DEF GetFails, End, Answer, RangeInv, RangeIsComplete, Place
  <2>8. CASE Tick \/ Revoke \/ UNCHANGED vars
    BY <2>8 DEF Tick, Revoke, vars, RangeInv, RangeIsComplete, Place
  <2> QED BY <2>1, <2>2, <2>3, <2>4, <2>5, <2>6, <2>7, <2>8 DEF Next, ClientStep
<1>3. RangeInv => RangeIsComplete
  BY DEF RangeInv
<1> QED BY <1>1, <1>2, <1>3, PTL DEF Spec

---------------------------------------------------------------------------
(* Refusals *)

\* A GET that re-mints or retries was refused, and its retry has a token minted
\* since.
MintInv ==
  /\ minted \in Nat
  /\ refused # None => refused \in Nat /\ refused <= minted
  /\ pc \in {"remint", "retry"} => refused # None
  /\ pc = "retry" => token.id > refused

LEMMA MintInvariant == Spec => []MintInv
<1>1. Init => MintInv
  BY DEF Init, MintInv
<1>2. MintInv /\ [Next]_vars => MintInv'
  <2> SUFFICES ASSUME MintInv, [Next]_vars PROVE MintInv'
    OBVIOUS
  <2>1. CASE Ask
    BY <2>1 DEF Ask, MintInv
  <2>2. CASE Ensure
    BY <2>2 DEF Ensure, Mint, End, MintInv
  <2>3. CASE Remint
    BY <2>3 DEF Remint, Mint, End, MintInv
  <2>4. CASE GetOk
    BY <2>4 DEF GetOk, End, MintInv
  <2>5. CASE GetUnauthorized
    BY <2>5, NoneAssumption DEF GetUnauthorized, End, MintInv
  <2>6. CASE GetNothing \/ GetFails
    BY <2>6 DEF GetNothing, GetFails, End, MintInv
  <2>7. CASE Tick \/ Revoke \/ UNCHANGED vars
    BY <2>7 DEF Tick, Revoke, vars, MintInv
  <2> QED BY <2>1, <2>2, <2>3, <2>4, <2>5, <2>6, <2>7 DEF Next, ClientStep
<1> QED BY <1>1, <1>2, PTL DEF Spec

\* A request ends with the server's refusal only after a second 401, about a token
\* minted after the first 401 of the same GET (get, force_refresh).
THEOREM RefusalIsOfAFreshTokenTheorem == Spec => RefusalIsOfAFreshToken
<1>1. MintInv /\ [Next]_vars
        => [pc # "idle" /\ pc' = "idle" /\ result'.kind = "unauthorized"
              => refused # None /\ token.id > refused]_vars
  <2> SUFFICES ASSUME MintInv, Next, pc # "idle", pc' = "idle", result'.kind = "unauthorized"
               PROVE  refused # None /\ token.id > refused
    BY DEF vars
  <2>1. GetUnauthorized
    BY DEF Next, ClientStep, Ask, Ensure, Remint, Mint, GetOk, GetNothing, GetFails, Tick,
           Revoke, End, Answer
  <2>2. pc = "retry"
    BY <2>1 DEF GetUnauthorized
  <2> QED BY <2>2 DEF MintInv
<1> QED BY <1>1, MintInvariant, PTL DEF Spec, RefusalIsOfAFreshToken
=============================================================================
