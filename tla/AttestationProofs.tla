------------------------- MODULE AttestationProofs -------------------------
(***************************************************************************)
(* What the hardware attestation layer promises for any devices, relays,   *)
(* expectations and histories: the key cache holds keys of genuine devices *)
(* only, with counters that cover every assertion spent, and a report that *)
(* is valid and attested names a proof signed by a genuine device.  And    *)
(* evidence belongs to its proof: where field 2 passes on a device's own   *)
(* proof, the assertion that passed and the Play Integrity token that      *)
(* passes were made for it.  A PASS over a window covers every instant of  *)
(* it, and an outage of the service is never a verdict on a proof.         *)
(*                                                                         *)
(* The argument: every part of what the relay delivers comes from a device *)
(* or carries a key of the relay's own (KnownEvidence).  An App Attest     *)
(* outcome other than failure takes an assertion under a key that either   *)
(* an object or the cache vouches for, hence an assertion of a device      *)
(* (AppAttestOutcome, AssertionOfDevice), and one that passes is bound to  *)
(* the signing key of that device.                                         *)
(*                                                                         *)
(* Field 2 signs the commitment, which only one proof of one device has,   *)
(* together with the nonce; so the nonce is that of the proof              *)
(* (SignatureTies).  A bound assertion of a device and a token carry the   *)
(* nonce they were made over (AssertionTies, TokenTies), and nonces of     *)
(* different proofs differ.  Both ends of a window are rounded away from   *)
(* it, which is arithmetic on \div, and what a device issues is in time    *)
(* (MadeInTime).                                                           *)
(***************************************************************************)
EXTENDS Attestation, TLAPS

\* The parts the relay can have.
KnownAssertion(a) ==
  \/ a \in {None, Garbage}
  \/ \E d \in IosDevices : \E n \in 1 .. made[d] : a = AssertionOf(d, n)
  \/ \E d \in IosDevices : made[d] > 0 /\ a = EnrolmentAssertion(d)
  \/ \E x \in Outsiders : a.key = AppAttestKey(x)

KnownObject(o) ==
  \/ o \in {None, Garbage}
  \/ \E d \in IosDevices : o = ObjectOf(d)

KnownChain(c) ==
  \/ c \in {None, Garbage}
  \/ c.kind = "raw"
  \/ \E d \in AndroidDevices : c = ChainOf(d)

KnownEvidence(da) ==
  KnownAssertion(da.assertion) /\ KnownObject(da.object) /\ KnownChain(da.chain)

\* The App Attest key of a genuine device of the expected app, with a counter that
\* is not ahead of the device.
Vouched(key) ==
  \E d \in IosDevices :
    /\ AppOf[d] = Expect.app
    /\ key.key = AppAttestKey(d) /\ key.counter \in 0 .. made[d]

\* Where a key that the layer returns comes from: the device whose assertion it
\* accepted, under an object or under a cached key that was behind.
Accounted(da, key, cached) ==
  \E d \in IosDevices :
    /\ AppOf[d] = Expect.app /\ da.keyId = KeyId(AppAttestKey(d))
    /\ key = AttestedKey(AppAttestKey(d), da.assertion.counter)
    /\ da.assertion.key = AppAttestKey(d) /\ da.assertion.counter \in 1 .. made[d]
    /\ da.object = None => /\ cached # None /\ cached.key = AppAttestKey(d)
                           /\ da.assertion.counter > cached.counter

\* The assertion is bound to the signing key of a genuine device.
BoundToDevice(signingKey) ==
  \E d \in IosDevices : AppOf[d] = Expect.app /\ signingKey = SigningKey(d)

---------------------------------------------------------------------------
(* What is delivered is known *)

LEMMA IssuedEvidenceKnown ==
  ASSUME NEW d \in Devices, NEW n \in 1 .. made[d]
  PROVE  KnownEvidence(EvidenceOf(d, n))
<1>1. CASE d \in IosDevices
  BY <1>1 DEF KnownEvidence, KnownAssertion, KnownObject, KnownChain, EvidenceOf, ChainOf
<1>2. CASE d \in AndroidDevices
  BY <1>2, DevicesAssumption
     DEF KnownEvidence, KnownAssertion, KnownObject, KnownChain, EvidenceOf
<1> QED BY <1>1, <1>2 DEF Devices

LEMMA EnrolmentKnown ==
  ASSUME NEW d \in IosDevices, made[d] > 0
  PROVE  KnownEvidence(EnrolmentOf(d))
BY DEF EnrolmentOf, KnownEvidence, KnownAssertion, KnownObject, KnownChain

LEMMA ForgedKnown ==
  ASSUME NEW x \in Outsiders, NEW nonce
  PROVE  KnownEvidence(ForgedEvidence(x, nonce))
BY DEF ForgedEvidence, ForgedAssertion, KnownEvidence, KnownAssertion, KnownObject, KnownChain

LEMMA AllOfKnown == KnownEvidence(AllOf(None)) /\ KnownEvidence(AllOf(Garbage))
BY DEF AllOf, EvidenceFields, KnownEvidence, KnownAssertion, KnownObject, KnownChain

\* Exchanging fields brings nothing new.
LEMMA MixedKnown ==
  ASSUME NEW da, NEW other, NEW fields, KnownEvidence(da), KnownEvidence(other)
  PROVE  KnownEvidence(Mixed(da, other, fields))
<1>1. \A f \in EvidenceFields : Mixed(da, other, fields)[f] \in {da[f], other[f]}
  BY DEF Mixed
<1>2. {"assertion", "object", "chain"} \subseteq EvidenceFields
  BY DEF EvidenceFields
<1>3. /\ Mixed(da, other, fields).assertion \in {da.assertion, other.assertion}
      /\ Mixed(da, other, fields).object \in {da.object, other.object}
      /\ Mixed(da, other, fields).chain \in {da.chain, other.chain}
  BY <1>1, <1>2
<1>4. KnownAssertion(Mixed(da, other, fields).assertion)
  BY <1>3 DEF KnownEvidence
<1>5. KnownObject(Mixed(da, other, fields).object)
  BY <1>3 DEF KnownEvidence
<1>6. KnownChain(Mixed(da, other, fields).chain)
  BY <1>3 DEF KnownEvidence
<1> QED BY <1>4, <1>5, <1>6 DEF KnownEvidence

LEMMA DeliveredKnown ==
  ASSUME NEW p \in Delivered
  PROVE  KnownEvidence(p.da)
<1>1. PICK b \in Issued \cup Forged, fields \in Exchanges,
           e \in {q.da : q \in Issued} \cup Enrolments \cup {AllOf(None), AllOf(Garbage)} :
           p.da = Mixed(b.da, e, fields)
  BY DEF Delivered, WithEvidence
<1>2. \A q \in Issued : KnownEvidence(q.da)
  <2> TAKE q \in Issued
  <2>1. PICK d \in Devices : \E n \in 1 .. made[d] : q = ProofOf(d, n)
    BY DEF Issued
  <2>2. PICK n \in 1 .. made[d] : q = ProofOf(d, n)
    BY <2>1
  <2>3. q.da = EvidenceOf(d, n)
    BY <2>2 DEF ProofOf
  <2> QED BY <2>3, IssuedEvidenceKnown
<1>3. KnownEvidence(b.da)
  <2>1. CASE b \in Issued
    BY <2>1, <1>2
  <2>2. CASE b \in Forged
    <3>1. PICK x \in Outsiders, q \in Issued : b.da = ForgedEvidence(x, q.da.nonce)
      BY <2>2 DEF Forged
    <3> QED BY <3>1, ForgedKnown
  <2> QED BY <2>1, <2>2
<1>4. KnownEvidence(e)
  <2>1. \A en \in Enrolments : KnownEvidence(en)
    BY EnrolmentKnown DEF Enrolments
  <2> QED BY <2>1, <1>2, AllOfKnown
<1> QED BY <1>1, <1>3, <1>4, MixedKnown

LEMMA BundlesKnown ==
  ASSUME NEW b \in Bundles
  PROVE  KnownEvidence(b.da)
<1>1. PICK da \in Enrolments, e \in Enrolments \cup {AllOf(None), AllOf(Garbage)},
           fields \in SUBSET {"assertion", "keyId"} : b.da = Mixed(da, e, fields)
  BY DEF Bundles
<1>2. \A en \in Enrolments : KnownEvidence(en)
  BY EnrolmentKnown DEF Enrolments
<1>3. KnownEvidence(da) /\ KnownEvidence(e)
  BY <1>2, AllOfKnown
<1> QED BY <1>1, <1>3, MixedKnown

---------------------------------------------------------------------------
(* App Attest outcomes *)

LEMMA OneIsCounted == \A m \in Nat : m > 0 => 1 \in 1 .. m
OBVIOUS

LEMMA ZeroIsCounted == \A m \in Nat : 0 \in 0 .. m
OBVIOUS

\* A known assertion under the App Attest key of a device was made by it.
LEMMA AssertionOfDevice ==
  ASSUME made \in [Devices -> Nat],
         NEW a, KnownAssertion(a), a \notin {None, Garbage},
         NEW d \in IosDevices, a.key = AppAttestKey(d)
  PROVE  /\ a.counter \in 1 .. made[d]
         /\ a.bound = SigningKey(d) \/ a.bound = None
<1> USE DEF AppAttestKey
<1>1. CASE \E c \in IosDevices : \E n \in 1 .. made[c] : a = AssertionOf(c, n)
  <2>1. PICK c \in IosDevices : \E n \in 1 .. made[c] : a = AssertionOf(c, n)
    BY <1>1
  <2>2. PICK n \in 1 .. made[c] : a = AssertionOf(c, n)
    BY <2>1
  <2>3. c = d
    BY <2>2 DEF AssertionOf
  <2> QED BY <2>2, <2>3 DEF AssertionOf
<1>2. CASE \E c \in IosDevices : made[c] > 0 /\ a = EnrolmentAssertion(c)
  <2>1. PICK c \in IosDevices : made[c] > 0 /\ a = EnrolmentAssertion(c)
    BY <1>2
  <2>2. c = d /\ a.counter = 1 /\ a.bound = None
    BY <2>1 DEF EnrolmentAssertion
  <2>3. made[d] > 0 /\ made[d] \in Nat
    BY <2>1, <2>2 DEF Devices
  <2> QED BY <2>2, <2>3, OneIsCounted
<1>3. CASE \E x \in Outsiders : a.key = AppAttestKey(x)
  <2>1. PICK x \in Outsiders : a.key = AppAttestKey(x)
    BY <1>3
  <2>2. <<"app attest", x>> = <<"app attest", d>>
    BY <2>1
  <2>3. x = d
    BY <2>2
  <2> QED BY <2>3, DevicesAssumption DEF Devices
<1> QED BY <1>1, <1>2, <1>3 DEF KnownAssertion

LEMMA ObjectVouches ==
  ASSUME NEW obj, KnownObject(obj), obj # None, NEW nonce, NEW keyId,
         ObjectOk(obj, nonce, keyId, Expect)
  PROVE  \E d \in IosDevices :
           AppOf[d] = Expect.app /\ obj.key = AppAttestKey(d) /\ keyId = KeyId(AppAttestKey(d))
<1>1. PICK d \in IosDevices : obj = ObjectOf(d)
  BY DEF KnownObject, ObjectOk
<1>2. obj.key = AppAttestKey(d) /\ obj.app = AppOf[d]
  BY <1>1 DEF ObjectOf
<1> QED BY <1>2 DEF ObjectOk

LEMMA BindingIsOfDevice ==
  ASSUME made \in [Devices -> Nat],
         NEW a, KnownAssertion(a), a # None, NEW nonce, NEW STATE key, NEW mode,
         NEW d \in IosDevices, key.key = AppAttestKey(d),
         Binding(a, nonce, Expect, key, mode) # "bad"
  PROVE  /\ a.key = AppAttestKey(d) /\ a.counter \in 1 .. made[d] /\ a.counter > key.counter
         /\ Binding(a, nonce, Expect, key, mode) = "bound" /\ ~mode.enrolment =>
              mode.signingKey = SigningKey(d)
<1>1. \E bound : AssertionOk(a, nonce, Expect, key, bound)
  BY DEF Binding
<1>2. a # Garbage /\ a.key = AppAttestKey(d) /\ a.counter > key.counter
  BY <1>1 DEF AssertionOk
<1>3. a.counter \in 1 .. made[d] /\ (a.bound = SigningKey(d) \/ a.bound = None)
  BY <1>2, AssertionOfDevice
<1>4. ASSUME Binding(a, nonce, Expect, key, mode) = "bound", ~mode.enrolment
      PROVE  mode.signingKey = SigningKey(d)
  <2>1. mode.signingKey # None /\ AssertionOk(a, nonce, Expect, key, mode.signingKey)
    BY <1>4 DEF Binding
  <2> QED BY <2>1, <1>3 DEF AssertionOk
<1> QED BY <1>2, <1>3, <1>4

\* appattest_check_da, for evidence the relay can have and a cached key that is
\* None or vouched for.
LEMMA AppAttestOutcome ==
  ASSUME made \in [Devices -> Nat],
         NEW da, KnownEvidence(da), NEW STATE cached, cached # None => Vouched(cached), NEW mode
  PROVE  /\ AppAttest(da, Expect, cached, mode).key # None =>
              Accounted(da, AppAttest(da, Expect, cached, mode).key, cached)
         /\ AppAttest(da, Expect, cached, mode).status = "pass" /\ ~mode.enrolment =>
              BoundToDevice(mode.signingKey)
<1> DEFINE r == AppAttest(da, Expect, cached, mode)
           Refused == r.key = None /\ r.status # "pass"
           Goal == /\ r.key # None => Accounted(da, r.key, cached)
                   /\ r.status = "pass" /\ ~mode.enrolment => BoundToDevice(mode.signingKey)
\* Against a key of a device, whether it came from the object or the cache.
<1>1. ASSUME NEW STATE key, NEW d \in IosDevices, AppOf[d] = Expect.app, key.key = AppAttestKey(d),
             da.keyId = KeyId(AppAttestKey(d)), da.assertion # None,
             da.object = None => key = cached /\ cached # None,
             r = AgainstKey(da, Expect, key, mode)
      PROVE  Goal
  <2> DEFINE binding == Binding(da.assertion, da.nonce, Expect, key, mode)
  <2>1. CASE binding = "bad"
    BY <1>1, <2>1 DEF AgainstKey, Outcome, StatusOf
  <2>2. CASE binding # "bad"
    <3>1. /\ da.assertion.key = AppAttestKey(d) /\ da.assertion.counter \in 1 .. made[d]
          /\ da.assertion.counter > key.counter
          /\ binding = "bound" /\ ~mode.enrolment => mode.signingKey = SigningKey(d)
      BY <1>1, <2>2, BindingIsOfDevice DEF KnownEvidence
    <3>2. r.key = AttestedKey(AppAttestKey(d), da.assertion.counter)
      BY <1>1, <2>2 DEF AgainstKey, Outcome
    <3>3. r.status = "pass" => binding = "bound"
      BY <1>1, <2>2 DEF AgainstKey, Outcome, StatusOf
    <3>4. Accounted(da, r.key, cached)
      BY <1>1, <3>1, <3>2 DEF Accounted
    <3>5. r.status = "pass" /\ ~mode.enrolment => BoundToDevice(mode.signingKey)
      BY <1>1, <3>1, <3>3 DEF BoundToDevice
    <3> QED BY <3>4, <3>5
  <2> QED BY <2>1, <2>2
<1>2. CASE Refused
  BY <1>2
<1>3. CASE ~Refused
  <2>1. HasEvidence(da) /\ da.keyId # Garbage
    BY <1>3 DEF AppAttest, Outcome
  <2>2. da.assertion # None
    BY <2>1 DEF HasEvidence
  <2>3. CASE da.object # None
    <3>1. /\ ObjectOk(da.object, da.nonce, da.keyId, Expect)
          /\ r = AgainstKey(da, Expect, AttestedKey(da.object.key, 0), mode)
      BY <1>3, <2>1, <2>3 DEF AppAttest, Outcome
    <3>2. PICK d \in IosDevices : /\ AppOf[d] = Expect.app /\ da.object.key = AppAttestKey(d)
                                  /\ da.keyId = KeyId(AppAttestKey(d))
      BY <3>1, <2>3, ObjectVouches DEF KnownEvidence
    <3>3. AttestedKey(da.object.key, 0).key = AppAttestKey(d)
      BY <3>2 DEF AttestedKey
    <3> QED BY <3>1, <3>2, <3>3, <2>2, <2>3, <1>1
  <2>4. CASE da.object = None
    <3>1. /\ cached # None /\ da.keyId = KeyId(cached.key)
          /\ r = AgainstKey(da, Expect, cached, mode)
      BY <1>3, <2>1, <2>4 DEF AppAttest, Outcome
    <3>2. PICK d \in IosDevices : AppOf[d] = Expect.app /\ cached.key = AppAttestKey(d)
      BY <3>1 DEF Vouched
    <3> QED BY <3>1, <3>2, <2>2, <1>1
  <2> QED BY <2>3, <2>4
<1> QED BY <1>2, <1>3

\* appattest_enroll: the key an enrolment stores, and the key a bundle lends.
LEMMA EnrolledOutcome ==
  ASSUME made \in [Devices -> Nat],
         NEW bundle, KnownEvidence(bundle.da), Enrolled(bundle, Expect) # None
  PROVE  \E d \in IosDevices :
           /\ AppOf[d] = Expect.app /\ bundle.da.keyId = KeyId(AppAttestKey(d))
           /\ Enrolled(bundle, Expect).key = AppAttestKey(d)
           /\ Enrolled(bundle, Expect).counter \in 0 .. made[d]
<1> DEFINE da == bundle.da
           key == Enrolled(bundle, Expect)
<1>1. CASE da.assertion = None
  <2>1. /\ da.object # None /\ ObjectOk(da.object, da.nonce, da.keyId, Expect)
        /\ key = AttestedKey(da.object.key, 0)
    BY <1>1 DEF Enrolled
  <2>2. PICK d \in IosDevices :
          /\ AppOf[d] = Expect.app /\ da.object.key = AppAttestKey(d)
          /\ da.keyId = KeyId(AppAttestKey(d))
    BY <2>1, ObjectVouches DEF KnownEvidence
  <2>3. key.key = AppAttestKey(d) /\ key.counter = 0
    BY <2>1, <2>2 DEF AttestedKey
  <2>4. made[d] \in Nat
    BY DEF Devices
  <2>5. 0 \in 0 .. made[d]
    BY <2>4, ZeroIsCounted
  <2> QED BY <2>2, <2>3, <2>5
<1>2. CASE da.assertion # None
  <2>1. key = AppAttest(da, Expect, None, Enrolment).key
    BY <1>2 DEF Enrolled
  <2>2. Accounted(da, key, None)
    BY <2>1, AppAttestOutcome
  <2>3. PICK d \in IosDevices :
          /\ AppOf[d] = Expect.app /\ da.keyId = KeyId(AppAttestKey(d))
          /\ key = AttestedKey(AppAttestKey(d), da.assertion.counter)
          /\ da.assertion.counter \in 1 .. made[d]
    BY <2>2 DEF Accounted
  <2>4. key.key = AppAttestKey(d) /\ key.counter \in 1 .. made[d]
    BY <2>3 DEF AttestedKey
  <2>5. made[d] \in Nat
    BY DEF Devices
  <2>6. key.counter \in 0 .. made[d]
    BY <2>4, <2>5
  <2> QED BY <2>3, <2>4, <2>6
<1> QED BY <1>1, <1>2

---------------------------------------------------------------------------
(* The key cache *)

LEMMA KeyIdIsOneKey ==
  ASSUME NEW c, NEW d, KeyId(AppAttestKey(c)) = KeyId(AppAttestKey(d))
  PROVE  c = d
<1>1. <<"id", <<"app attest", c>>>> = <<"id", <<"app attest", d>>>>
  BY DEF KeyId, AppAttestKey
<1>2. <<"app attest", c>> = <<"app attest", d>>
  BY <1>1
<1> QED BY <1>2

LEMMA CachedIsVouched ==
  ASSUME KeyCacheInv, NEW da, CachedFor(da) # None
  PROVE  Vouched(CachedFor(da))
BY DEF KeyCacheInv, CachedFor, Vouched

\* Storing a key of a device that covers what was spent on it keeps the invariant.
LEMMA StoreKeepsInv ==
  ASSUME KeyCacheInv, NEW d \in IosDevices, AppOf[d] = Expect.app,
         NEW key, key # None, key.key = AppAttestKey(d), key.counter \in 0 .. made[d],
         cache' = [cache EXCEPT ![KeyId(AppAttestKey(d))] = key], UNCHANGED made,
         \A a \in spent' : \/ a \in spent /\ a.key # AppAttestKey(d)
                           \/ a.key = AppAttestKey(d) /\ a.counter \in 1 .. key.counter
  PROVE  KeyCacheInv'
<1> DEFINE id == KeyId(AppAttestKey(d))
<1>1. id \in KeyIds
  BY DEF KeyIds
<1>2. DOMAIN cache' = KeyIds /\ cache'[id] = key
  BY <1>1 DEF KeyCacheInv
<1>3. \A k \in KeyIds : k # id => cache'[k] = cache[k]
  BY <1>1 DEF KeyCacheInv
<1>4. ASSUME NEW k \in KeyIds, cache'[k] # None
      PROVE  \E c \in IosDevices :
               /\ k = KeyId(AppAttestKey(c)) /\ AppOf[c] = Expect.app
               /\ cache'[k].key = AppAttestKey(c)
               /\ cache'[k].counter \in 0 .. made'[c]
  <2>1. CASE k = id
    BY <2>1, <1>2
  <2>2. CASE k # id
    BY <2>2, <1>3, <1>4 DEF KeyCacheInv
  <2> QED BY <2>1, <2>2
<1>5. ASSUME NEW a \in spent'
      PROVE  \E c \in IosDevices :
               /\ a.key = AppAttestKey(c)
               /\ cache'[KeyId(a.key)] # None
               /\ a.counter \in 1 .. cache'[KeyId(a.key)].counter
  <2>1. CASE a \in spent /\ a.key # AppAttestKey(d)
    <3>1. PICK c \in IosDevices :
            /\ a.key = AppAttestKey(c) /\ cache[KeyId(a.key)] # None
            /\ a.counter \in 1 .. cache[KeyId(a.key)].counter
      BY <2>1 DEF KeyCacheInv
    <3>2. KeyId(a.key) # id /\ KeyId(a.key) \in KeyIds
      BY <2>1, <3>1, KeyIdIsOneKey DEF KeyIds
    <3> QED BY <3>1, <3>2, <1>3
  <2>2. CASE a.key = AppAttestKey(d) /\ a.counter \in 1 .. key.counter
    BY <2>2, <1>2
  <2> QED BY <2>1, <2>2
<1>6. made' \in [Devices -> Nat]
  BY DEF KeyCacheInv
<1> QED BY <1>2, <1>4, <1>5, <1>6 DEF KeyCacheInv

LEMMA InitKeyCache == Init => KeyCacheInv
<1> SUFFICES ASSUME Init PROVE KeyCacheInv
  OBVIOUS
<1>1. made \in [Devices -> Nat]
  BY DEF Init
<1> QED BY <1>1 DEF Init, KeyCacheInv

LEMMA IssueKeyCache ==
  ASSUME KeyCacheInv, NEW d \in Devices, Issue(d)
  PROVE  KeyCacheInv'
<1>1. made' \in [Devices -> Nat]
  BY DEF Issue, KeyCacheInv
<1>2. \A c \in Devices : 0 .. made[c] \subseteq 0 .. made'[c]
  BY DEF Issue, KeyCacheInv
<1>3. \A k \in KeyIds : cache'[k] # None =>
        \E c \in IosDevices :
          /\ k = KeyId(AppAttestKey(c)) /\ AppOf[c] = Expect.app
          /\ cache'[k].key = AppAttestKey(c)
          /\ cache'[k].counter \in 0 .. made'[c]
  BY <1>2 DEF Issue, KeyCacheInv, Devices
<1> QED BY <1>1, <1>3 DEF Issue, KeyCacheInv

LEMMA DeliverKeyCache ==
  ASSUME KeyCacheInv, NEW p \in Delivered, NEW opts \in Options(p), Deliver(p, opts)
  PROVE  KeyCacheInv'
<1> DEFINE da     == p.da
           cached == CachedFor(da)
           mode   == Live(opts.key, AllowsUnbound(opts))
           key    == AppAttest(da, Expect, cached, mode).key
<1>1. /\ key # None /\ cache' = [cache EXCEPT ![da.keyId] = key]
      /\ spent' = Spend(da) /\ UNCHANGED made
  BY DEF Deliver, VerifyAttestedCached
<1>2. made \in [Devices -> Nat]
  BY DEF KeyCacheInv
<1>3. cached # None => Vouched(cached)
  BY CachedIsVouched
<1>4. KnownEvidence(da)
  BY DeliveredKnown
<1>5. Accounted(da, key, cached)
  BY <1>1, <1>2, <1>3, <1>4, AppAttestOutcome
<1>6. PICK d \in IosDevices :
        /\ AppOf[d] = Expect.app /\ da.keyId = KeyId(AppAttestKey(d))
        /\ key = AttestedKey(AppAttestKey(d), da.assertion.counter)
        /\ da.assertion.key = AppAttestKey(d) /\ da.assertion.counter \in 1 .. made[d]
        /\ da.object = None => /\ cached # None /\ cached.key = AppAttestKey(d)
                               /\ da.assertion.counter > cached.counter
  BY <1>5 DEF Accounted
<1>7. key.key = AppAttestKey(d) /\ key.counter = da.assertion.counter
  BY <1>6 DEF AttestedKey
<1>8. made[d] \in Nat
  BY <1>2 DEF Devices
<1>9. key.counter \in 1 .. made[d] /\ key.counter \in 0 .. made[d]
  BY <1>6, <1>7, <1>8
<1>10. ASSUME NEW a \in spent'
       PROVE  \/ a \in spent /\ a.key # AppAttestKey(d)
              \/ a.key = AppAttestKey(d) /\ a.counter \in 1 .. key.counter
  <2>1. CASE a = da.assertion
    BY <2>1, <1>6, <1>7, <1>8
  <2>2. CASE a # da.assertion
    <3>1. a \in spent /\ (da.object = None \/ a.key # AppAttestKey(d))
      BY <2>2, <1>1, <1>6 DEF Spend
    <3>2. ASSUME a.key = AppAttestKey(d)
          PROVE  a.counter \in 1 .. key.counter
      <4>1. cached = cache[KeyId(a.key)]
        BY <3>1, <3>2, <1>6 DEF CachedFor, KeyIds
      <4>2. a.counter \in 1 .. cached.counter
        BY <3>1, <4>1 DEF KeyCacheInv
      <4>3. cached # None /\ da.assertion.counter > cached.counter
        BY <3>1, <3>2, <1>6
      <4>4. cached.counter \in Int
        BY <4>3, <1>3 DEF Vouched
      <4> QED BY <4>2, <4>3, <4>4, <1>7, <1>9
    <3> QED BY <3>1, <3>2
  <2> QED BY <2>1, <2>2
<1> QED BY <1>1, <1>6, <1>7, <1>9, <1>10, StoreKeepsInv

LEMMA EnrolKeyCache ==
  ASSUME KeyCacheInv, NEW bundle \in Bundles, Enrol(bundle)
  PROVE  KeyCacheInv'
<1> DEFINE key == Enrolled(bundle, Expect)
<1>1. /\ key # None /\ cache' = [cache EXCEPT ![bundle.da.keyId] = key]
      /\ spent' = {a \in spent : a.key # key.key} /\ UNCHANGED made
  BY DEF Enrol
<1>2. made \in [Devices -> Nat]
  BY DEF KeyCacheInv
<1>3. PICK d \in IosDevices :
        /\ AppOf[d] = Expect.app /\ bundle.da.keyId = KeyId(AppAttestKey(d))
        /\ key.key = AppAttestKey(d) /\ key.counter \in 0 .. made[d]
  BY <1>1, <1>2, BundlesKnown, EnrolledOutcome
<1> QED BY <1>1, <1>3, StoreKeepsInv

LEMMA NextKeyCache == KeyCacheInv /\ [Next]_vars => KeyCacheInv'
<1> SUFFICES ASSUME KeyCacheInv, [Next]_vars PROVE KeyCacheInv'
  OBVIOUS
<1>1. CASE \E d \in Devices : Issue(d)
  BY <1>1, IssueKeyCache
<1>2. CASE \E p \in Delivered : \E opts \in Options(p) : Deliver(p, opts)
  BY <1>2, DeliverKeyCache
<1>3. CASE \E bundle \in Bundles : Enrol(bundle)
  BY <1>3, EnrolKeyCache
<1>4. CASE UNCHANGED vars
  BY <1>4 DEF vars, KeyCacheInv
<1> QED BY <1>1, <1>2, <1>3, <1>4 DEF Next

\* The key cache of a consumer that re-stores what verify_attested_cached and
\* appattest_enroll return: under every key id a key of a genuine device of the
\* expected app, with a counter that covers each assertion spent on it.
THEOREM KeyCacheInvariant == Spec => []KeyCacheInv
<1>1. Init => KeyCacheInv
  BY InitKeyCache
<1>2. KeyCacheInv /\ [Next]_vars => KeyCacheInv'
  BY NextKeyCache
<1> QED BY <1>1, <1>2, PTL DEF Spec

---------------------------------------------------------------------------
(* What an attested report names *)

LEMMA ChecksDiffer ==
  ASSUME NEW n, NEW m, NEW s, NEW t, Check(n, s) = Check(m, t)
  PROVE  n = m /\ s = t
BY DEF Check

LEMMA SigningKeyIsKey == \A d \in Devices : SigningKey(d) # None
BY DevicesAssumption

\* A chain that the root check passes is of an Android device, whose key it holds.
LEMMA RootOutcome ==
  ASSUME NEW da, KnownEvidence(da), NEW opts, NEW key,
         RootCheck(da, opts, Expect.apps, key) = Check("attestation-root", "pass")
  PROVE  \E d \in AndroidDevices : Genuine(d) /\ key = SigningKey(d)
<1> DEFINE at == IF opts.window = None THEN {SecondsDown(opts.now)} ELSE WindowEnds(opts.window)
           found == {RootStatus(da, s, Expect.apps, key) : s \in at}
           verdict == CASE "fail" \in found -> "fail" [] found = {"pass"} -> "pass"
                        [] OTHER -> "notchecked"
<1>1. Check("attestation-root", verdict) = Check("attestation-root", "pass")
  BY DEF RootCheck
<1>2. found = {"pass"}
  <2> HIDE DEF found
  <2>1. verdict = "pass"
    BY <1>1, ChecksDiffer
  <2> QED BY <2>1
<1>3. PICK s \in at : RootStatus(da, s, Expect.apps, key) = "pass"
  BY <1>2
<1>4. /\ da.chain \notin {None, Garbage} /\ da.chain.kind # "raw"
      /\ ChainOk(da.chain, s, Expect.apps) /\ key # None /\ da.chain.key = key
  BY <1>3 DEF RootStatus, ChainOk
<1>5. PICK d \in AndroidDevices : da.chain = ChainOf(d)
  BY <1>4 DEF KnownEvidence, KnownChain
<1>6. d \notin IosDevices
  BY DevicesAssumption
<1>7. da.chain.key = SigningKey(d) /\ da.chain.app = AppOf[d]
  BY <1>5, <1>6 DEF ChainOf
<1> QED BY <1>4, <1>6, <1>7 DEF ChainOk, Genuine

\* A valid report that has the check of the signatures and whose attestation is of
\* the given key names a proof signed with it.
LEMMA AttestedNames ==
  ASSUME NEW p, NEW key, NEW checks, StageSignatures(p, key) \in checks, Attests(checks),
         Check("app-attest", "pass") \in checks => BoundToDevice(key),
         Check("attestation-root", "pass") \in checks =>
           \E d \in AndroidDevices : Genuine(d) /\ key = SigningKey(d)
  PROVE  \E d \in Devices : Genuine(d) /\ p.signer = SigningKey(d)
<1>1. PICK d \in Devices : Genuine(d) /\ key = SigningKey(d)
  BY DEF Attests, IsAttested, HasStatus, BoundToDevice, Genuine, Devices
<1>2. key # None
  BY <1>1, SigningKeyIsKey
<1>3. StageSignatures(p, key).status # "fail"
  BY DEF Attests, IsValid, Failed
<1>4. key = p.signer
  BY <1>2, <1>3 DEF StageSignatures, Check
<1> QED BY <1>1, <1>4

LEMMA AppPassIsBound ==
  ASSUME made \in [Devices -> Nat], NEW da, KnownEvidence(da), NEW STATE cached,
         cached # None => Vouched(cached), NEW key, NEW allowUnbound,
         AppAttest(da, Expect, cached, Live(key, allowUnbound)).status = "pass"
  PROVE  BoundToDevice(key)
<1>1. ~Live(key, allowUnbound).enrolment /\ Live(key, allowUnbound).signingKey = key
  BY DEF Live
<1> QED BY <1>1, AppAttestOutcome

\* verify_attested_cached
LEMMA CachedReportNames ==
  ASSUME KeyCacheInv, NEW p \in Delivered, NEW opts \in Options(p),
         Attests(VerifyAttestedCached(p, opts, Expect, CachedFor(p.da)).checks)
  PROVE  \E d \in Devices : Genuine(d) /\ p.signer = SigningKey(d)
<1> DEFINE app == AppAttest(p.da, Expect, CachedFor(p.da), Live(opts.key, AllowsUnbound(opts)))
           root == RootCheck(p.da, opts, Expect.apps, opts.key)
           own == {StageSignatures(p, opts.key), Check("app-attest", app.status), root,
                   DeviceSignature(p, opts.key)}
           checks == VerifyAttestedCached(p, opts, Expect, CachedFor(p.da)).checks
<1>1. /\ own \subseteq checks
      /\ \A c \in checks : \/ c \in own \/ c = ValidityNotChecked
                           \/ \E some : c = RequireAttestationCheck(some)
  BY DEF VerifyAttestedCached
<1>2. KnownEvidence(p.da) /\ made \in [Devices -> Nat]
  BY DeliveredKnown DEF KeyCacheInv
<1>3. Check("app-attest", "pass") \in checks => app.status = "pass"
  BY <1>1 DEF Check, StageSignatures, RootCheck, DeviceSignature, ValidityNotChecked,
              RequireAttestationCheck
<1>4. Check("attestation-root", "pass") \in checks => root = Check("attestation-root", "pass")
  BY <1>1 DEF Check, StageSignatures, DeviceSignature, ValidityNotChecked,
              RequireAttestationCheck
<1>5. app.status = "pass" => BoundToDevice(opts.key)
  BY <1>2, CachedIsVouched, AppPassIsBound
<1>6. Check("attestation-root", "pass") \in checks =>
        \E d \in AndroidDevices : Genuine(d) /\ opts.key = SigningKey(d)
  BY <1>2, <1>4, RootOutcome
<1> HIDE DEF checks
<1>7. StageSignatures(p, opts.key) \in checks
  BY <1>1
<1> QED BY <1>3, <1>5, <1>6, <1>7, AttestedNames DEF checks

\* run in the command line, with a bundle or none
LEMMA LocalReportNames ==
  ASSUME KeyCacheInv, NEW p \in Delivered, NEW opts \in Options(p),
         NEW bundle \in Bundles \cup {None}, Attests(LocalChecks(p, opts, Expect, bundle))
  PROVE  \E d \in Devices : Genuine(d) /\ p.signer = SigningKey(d)
<1> DEFINE cached == IF bundle = None THEN None ELSE BundleKey(bundle, Expect)
           app == AppAttest(p.da, Expect, cached, Live(opts.key, AllowsUnbound(opts)))
           root == RootCheck(p.da, opts, Expect.apps, opts.key)
           own == {StageSignatures(p, opts.key), root, DeviceSignature(p, opts.key)}
           checks == LocalChecks(p, opts, Expect, bundle)
<1>1. /\ own \subseteq checks
      /\ \A c \in checks : \/ c \in own \/ c \in FromConfig(p, opts, Expect, bundle)
                           \/ \E some : c = RequireAttestationCheck(some)
  BY DEF LocalChecks
<1>2. \A c \in FromConfig(p, opts, Expect, bundle) :
        c.name = "app-attest-validity" \/ c = Check("app-attest", app.status)
  BY DEF FromConfig, ValidityNotChecked, ValidityCheck, Check
<1>3. KnownEvidence(p.da) /\ made \in [Devices -> Nat]
  BY DeliveredKnown DEF KeyCacheInv
<1>4. cached # None => Vouched(cached)
  <2>1. CASE bundle = None
    BY <2>1
  <2>2. CASE bundle # None
    <3>1. SUFFICES ASSUME Enrolled(bundle, Expect) # None PROVE Vouched(cached)
      BY <2>2 DEF BundleKey
    <3>2. PICK d \in IosDevices : /\ AppOf[d] = Expect.app
                                  /\ Enrolled(bundle, Expect).key = AppAttestKey(d)
      BY <2>2, <3>1, <1>3, BundlesKnown, EnrolledOutcome
    <3>3. cached.key = AppAttestKey(d) /\ cached.counter = 0
      BY <2>2, <3>1, <3>2 DEF BundleKey, AttestedKey
    <3>4. made[d] \in Nat
      BY <1>3 DEF Devices
    <3>5. 0 \in 0 .. made[d]
      BY <3>4, ZeroIsCounted
    <3> QED BY <3>2, <3>3, <3>5 DEF Vouched
  <2> QED BY <2>1, <2>2
<1>5. Check("app-attest", "pass") \in checks => app.status = "pass"
  BY <1>1, <1>2 DEF Check, StageSignatures, RootCheck, DeviceSignature, RequireAttestationCheck
<1>6. Check("attestation-root", "pass") \in checks => root = Check("attestation-root", "pass")
  BY <1>1, <1>2 DEF Check, StageSignatures, DeviceSignature, RequireAttestationCheck
<1>7. app.status = "pass" => BoundToDevice(opts.key)
  BY <1>3, <1>4, AppPassIsBound
<1>8. Check("attestation-root", "pass") \in checks =>
        \E d \in AndroidDevices : Genuine(d) /\ opts.key = SigningKey(d)
  BY <1>3, <1>6, RootOutcome
<1> HIDE DEF checks
<1>9. StageSignatures(p, opts.key) \in checks
  BY <1>1
<1> QED BY <1>5, <1>7, <1>8, <1>9, AttestedNames DEF checks

\* Whatever evidence was borrowed, stripped, enrolled or cached: a report that is
\* valid and attested names a proof signed by the key that a genuine device of an
\* expected app holds (verify_attested_cached; run in the command line).
THEOREM AttestedIsBoundTheorem == Spec => []AttestedIsBound
<1>1. KeyCacheInv => AttestedIsBound
  BY CachedReportNames, LocalReportNames DEF AttestedIsBound
<1> QED BY <1>1, KeyCacheInvariant, PTL

\* Without an object, an assertion is taken only under the cached key, and only
\* when it is ahead of it.
LEMMA TakenIsAhead ==
  ASSUME NEW da, NEW STATE cached, NEW mode, da.object = None,
         AppAttest(da, Expect, cached, mode).status \in {"pass", "warn"}
  PROVE  /\ cached # None /\ da.keyId = KeyId(cached.key)
         /\ da.assertion.key = cached.key /\ da.assertion.counter > cached.counter
<1>1. /\ cached # None /\ da.keyId = KeyId(cached.key)
      /\ AppAttest(da, Expect, cached, mode) = AgainstKey(da, Expect, cached, mode)
  BY DEF AppAttest, Outcome
<1>2. Binding(da.assertion, da.nonce, Expect, cached, mode) # "bad"
  BY <1>1 DEF AgainstKey, Outcome, StatusOf
<1>3. \E bound : AssertionOk(da.assertion, da.nonce, Expect, cached, bound)
  BY <1>2 DEF Binding
<1> QED BY <1>1, <1>3 DEF AssertionOk

\* Re-storing the key after each proof spends an assertion without an object: it is
\* not accepted again while the consumer keeps that key (check_assertion, the
\* counter of verify_attested_cached).
THEOREM AssertionIsSpentOnceTheorem == Spec => []AssertionIsSpentOnce
<1>1. ASSUME KeyCacheInv, NEW p \in Delivered, p.da.object = None, p.da.assertion \in spent,
             NEW opts \in Options(p)
      PROVE  VerifyAttestedCached(p, opts, Expect, CachedFor(p.da)).status \notin {"pass", "warn"}
  <2> DEFINE cached == CachedFor(p.da)
             mode == Live(opts.key, AllowsUnbound(opts))
             a == p.da.assertion
  <2> SUFFICES ASSUME AppAttest(p.da, Expect, cached, mode).status \in {"pass", "warn"}
               PROVE  FALSE
    BY DEF VerifyAttestedCached
  <2>1. /\ cached # None /\ p.da.keyId = KeyId(cached.key)
        /\ a.key = cached.key /\ a.counter > cached.counter
    BY <1>1, TakenIsAhead
  <2>2. p.da.keyId \in KeyIds /\ cached = cache[KeyId(a.key)]
    BY <2>1 DEF CachedFor
  <2>3. PICK d \in IosDevices : a.counter \in 1 .. cache[KeyId(a.key)].counter
    BY <1>1 DEF KeyCacheInv
  <2>4. PICK e \in IosDevices : cached.counter \in 0 .. made[e] /\ made[e] \in Nat
    BY <1>1, <2>1, <2>2 DEF KeyCacheInv, Devices
  <2> HIDE DEF cached, a
  <2>5. a.counter <= cached.counter /\ a.counter > cached.counter
        /\ a.counter \in Int /\ cached.counter \in Int
    BY <2>1, <2>2, <2>3, <2>4
  <2> QED BY <2>5
<1>2. KeyCacheInv => AssertionIsSpentOnce
  BY <1>1 DEF AssertionIsSpentOnce
<1> QED BY <1>2, KeyCacheInvariant, PTL

---------------------------------------------------------------------------
(* Whose evidence it is *)

\* The field-2 signatures and the tokens the relay can have.
KnownSig(s) ==
  \/ s \in {None, Garbage}
  \/ \E d \in Devices : \E n \in 1 .. made[d] :
       s = SigOver(SigningKey(d), Commitment(d, n), n, Nonce(d, n))
  \/ \E x \in Outsiders : s.key = SigningKey(x)

KnownToken(t) ==
  t = None \/ \E d \in AndroidDevices : \E n \in 1 .. made[d] : t = TokenOf(d, n)

KnownExtras(da) == KnownSig(da.sig) /\ KnownToken(da.token)

---------------------------------------------------------------------------
(* What is delivered *)

LEMMA IssuedExtras ==
  ASSUME NEW d \in Devices, NEW n \in 1 .. made[d]
  PROVE  KnownExtras(EvidenceOf(d, n))
<1>1. KnownSig(EvidenceOf(d, n).sig)
  BY DEF EvidenceOf, KnownSig
<1>2. KnownToken(EvidenceOf(d, n).token)
  BY DEF EvidenceOf, KnownToken
<1> QED BY <1>1, <1>2 DEF KnownExtras

LEMMA ForgedExtras ==
  ASSUME NEW x \in Outsiders, NEW nonce
  PROVE  KnownExtras(ForgedEvidence(x, nonce))
BY DEF ForgedEvidence, KnownExtras, KnownSig, KnownToken, SigOver

LEMMA MixedExtras ==
  ASSUME NEW da, NEW other, NEW fields, KnownExtras(da), KnownExtras(other)
  PROVE  KnownExtras(Mixed(da, other, fields))
<1>1. /\ Mixed(da, other, fields).sig \in {da.sig, other.sig}
      /\ Mixed(da, other, fields).token \in {da.token, other.token}
  BY DEF Mixed, EvidenceFields
<1>2. KnownSig(Mixed(da, other, fields).sig)
  BY <1>1 DEF KnownExtras
<1>3. KnownToken(Mixed(da, other, fields).token)
  BY <1>1 DEF KnownExtras
<1> QED BY <1>2, <1>3 DEF KnownExtras

LEMMA DeliveredExtras ==
  ASSUME NEW p \in Delivered
  PROVE  KnownExtras(p.da)
<1>1. PICK b \in Issued \cup Forged, fields \in Exchanges,
           e \in {q.da : q \in Issued} \cup Enrolments \cup {AllOf(None), AllOf(Garbage)} :
           p.da = Mixed(b.da, e, fields)
  BY DEF Delivered, WithEvidence
<1>2. \A q \in Issued : KnownExtras(q.da)
  <2> TAKE q \in Issued
  <2>1. PICK d \in Devices : \E n \in 1 .. made[d] : q = ProofOf(d, n)
    BY DEF Issued
  <2>2. PICK n \in 1 .. made[d] : q = ProofOf(d, n)
    BY <2>1
  <2>3. q.da = EvidenceOf(d, n)
    BY <2>2 DEF ProofOf
  <2> QED BY <2>3, IssuedExtras
<1>3. KnownExtras(b.da)
  <2>1. CASE b \in Issued
    BY <2>1, <1>2
  <2>2. CASE b \in Forged
    <3>1. PICK x \in Outsiders, q \in Issued : b.da = ForgedEvidence(x, q.da.nonce)
      BY <2>2 DEF Forged
    <3> QED BY <3>1, ForgedExtras
  <2> QED BY <2>1, <2>2
<1>4. KnownExtras(e)
  <2>1. \A en \in Enrolments : KnownExtras(en)
    BY DEF Enrolments, EnrolmentOf, KnownExtras, KnownSig, KnownToken
  <2>2. KnownExtras(AllOf(None)) /\ KnownExtras(AllOf(Garbage))
    BY DEF AllOf, EvidenceFields, KnownExtras, KnownSig, KnownToken
  <2> QED BY <2>1, <2>2, <1>2
<1> QED BY <1>1, <1>3, <1>4, MixedExtras

\* A delivered proof under a device's signing key is one that device issued, with
\* other evidence at most.
LEMMA DeviceProofIsIssued ==
  ASSUME NEW p \in Delivered, p.signer \in {SigningKey(d) : d \in Devices}
  PROVE  \E d \in Devices : \E n \in 1 .. made[d] :
           p.signer = SigningKey(d) /\ p.commitment = Commitment(d, n)
<1>1. PICK b \in Issued \cup Forged : p.signer = b.signer /\ p.commitment = b.commitment
  BY DEF Delivered, WithEvidence
<1>2. b \notin Forged
  <2>1. SUFFICES ASSUME b \in Forged PROVE FALSE
    OBVIOUS
  <2>2. PICK x \in Outsiders : b.signer = SigningKey(x)
    BY <2>1 DEF Forged
  <2>3. PICK d \in Devices : p.signer = SigningKey(d)
    OBVIOUS
  <2>4. x = d
    BY <1>1, <2>2, <2>3 DEF SigningKey
  <2> QED BY <2>4, DevicesAssumption
<1>3. PICK d \in Devices : \E n \in 1 .. made[d] : b = ProofOf(d, n)
  BY <1>2 DEF Issued
<1>4. PICK n \in 1 .. made[d] : b = ProofOf(d, n)
  BY <1>3
<1> QED BY <1>1, <1>4 DEF ProofOf

---------------------------------------------------------------------------
(* What ties evidence to a proof *)

\* Field 2 on a device's proof is the one over it, and with it the nonce.
LEMMA SignatureTies ==
  ASSUME NEW p \in Delivered, NEW d \in Devices, NEW n, p.commitment = Commitment(d, n),
         KnownSig(p.da.sig), p.da.sig # None,
         DeviceSigOk(p.da.sig, p, p.da.nonce, SigningKey(d))
  PROVE  p.da.nonce = Nonce(d, n)
<1> DEFINE s == p.da.sig
<1>1. s # Garbage /\ s.key = SigningKey(d) /\ s.commitment = Commitment(d, n) /\ s.nonce = p.da.nonce
  BY DEF DeviceSigOk
<1>2. ASSUME NEW x \in Outsiders, s.key = SigningKey(x)
      PROVE  FALSE
  <2>1. x = d
    BY <1>1, <1>2 DEF SigningKey
  <2> QED BY <2>1, DevicesAssumption
<1>3. PICK c \in Devices : \E m \in 1 .. made[c] :
             s = SigOver(SigningKey(c), Commitment(c, m), m, Nonce(c, m))
  BY <1>1, <1>2 DEF KnownSig
<1>4. PICK m \in 1 .. made[c] : s = SigOver(SigningKey(c), Commitment(c, m), m, Nonce(c, m))
  BY <1>3
<1>5. s.commitment = Commitment(c, m) /\ s.nonce = Nonce(c, m)
  BY <1>4 DEF SigOver
<1>6. c = d /\ m = n
  BY <1>1, <1>5 DEF Commitment
<1> QED BY <1>1, <1>5, <1>6

\* An assertion that passes for a live proof is bound to the signing key, over the
\* nonce of the evidence, under the App Attest key of a device.
LEMMA PassIsBinding ==
  ASSUME NEW da, KnownEvidence(da), NEW STATE cached, cached # None => Vouched(cached),
         NEW key, NEW allowUnbound,
         AppAttest(da, Expect, cached, Live(key, allowUnbound)).status = "pass"
  PROVE  /\ da.assertion \notin {None, Garbage} /\ key # None
         /\ da.assertion.nonce = da.nonce /\ da.assertion.bound = key
         /\ \E d \in IosDevices : da.assertion.key = AppAttestKey(d)
<1> DEFINE mode == Live(key, allowUnbound)
           a == da.assertion
<1>1. ~mode.enrolment /\ mode.signingKey = key
  BY DEF Live
<1>2. HasEvidence(da) /\ da.keyId # Garbage
  BY DEF AppAttest, Outcome
<1>3. ASSUME NEW STATE held, AppAttest(da, Expect, cached, mode) = AgainstKey(da, Expect, held, mode)
      PROVE  a # Garbage /\ key # None /\ a.key = held.key /\ a.nonce = da.nonce /\ a.bound = key
  <2>1. Binding(a, da.nonce, Expect, held, mode) = "bound"
    BY <1>3 DEF AgainstKey, Outcome, StatusOf
  <2>2. key # None /\ AssertionOk(a, da.nonce, Expect, held, key)
    BY <2>1, <1>1 DEF Binding
  <2> QED BY <2>2 DEF AssertionOk
<1>4. CASE da.object # None
  <2>1. /\ ObjectOk(da.object, da.nonce, da.keyId, Expect)
        /\ AppAttest(da, Expect, cached, mode) =
             AgainstKey(da, Expect, AttestedKey(da.object.key, 0), mode)
    BY <1>2, <1>4 DEF AppAttest, Outcome
  <2>2. PICK d \in IosDevices : da.object.key = AppAttestKey(d)
    BY <2>1, <1>4, ObjectVouches DEF KnownEvidence
  <2>3. AttestedKey(da.object.key, 0).key = AppAttestKey(d)
    BY <2>2 DEF AttestedKey
  <2> QED BY <1>2, <1>3, <2>1, <2>3 DEF HasEvidence
<1>5. CASE da.object = None
  <2>1. cached # None /\ AppAttest(da, Expect, cached, mode) = AgainstKey(da, Expect, cached, mode)
    BY <1>2, <1>5 DEF AppAttest, Outcome
  <2> QED BY <1>2, <1>3, <2>1 DEF HasEvidence, Vouched
<1> QED BY <1>4, <1>5

LEMMA AssertionTies ==
  ASSUME NEW a, KnownAssertion(a), a \notin {None, Garbage}, a.bound # None,
         NEW c \in IosDevices, a.key = AppAttestKey(c),
         NEW d \in Devices, NEW n, a.nonce = Nonce(d, n)
  PROVE  a = AssertionOf(d, n)
<1>1. ASSUME NEW x \in Outsiders, a.key = AppAttestKey(x)
      PROVE  FALSE
  <2>1. <<"app attest", x>> = <<"app attest", c>>
    BY <1>1 DEF AppAttestKey
  <2>2. x = c
    BY <2>1
  <2> QED BY <2>2, DevicesAssumption DEF Devices
<1>2. ASSUME NEW e \in IosDevices, a = EnrolmentAssertion(e)
      PROVE  FALSE
  BY <1>2 DEF EnrolmentAssertion
<1>3. PICK e \in IosDevices : \E m \in 1 .. made[e] : a = AssertionOf(e, m)
  BY <1>1, <1>2 DEF KnownAssertion
<1>4. PICK m \in 1 .. made[e] : a = AssertionOf(e, m)
  BY <1>3
<1>5. e = d /\ m = n
  BY <1>4 DEF AssertionOf, Nonce
<1> QED BY <1>4, <1>5

\* A token passes only over its own nonce.
LEMMA TokenTies ==
  ASSUME NEW da, KnownToken(da.token), NEW d \in Devices, NEW n, da.nonce = Nonce(d, n),
         PlayStatus(da, PlaySettings, Answer(da.token)) = "pass"
  PROVE  da.token = TokenOf(d, n)
<1> DEFINE reply == Answer(da.token)
<1>1. \E cfg : Play!PlayIntegrity(da, cfg, Now, reply) = "pass"
  BY DEF PlayStatus, Play!PlayIntegrityFromCfg
<1>2. PICK cfg : Play!PlayIntegrity(da, cfg, Now, reply) = "pass"
  BY <1>1
<1>3. da.token # None /\ Play!MapOutcome(Play!Classify(reply), reply, da.nonce, cfg, Now) = "pass"
  BY <1>2 DEF Play!PlayIntegrity
<1>4. Play!Classify(reply) = "ok" /\ Play!VerdictOk(reply.body, da.nonce, cfg, Now)
  <2>1. CASE da.token \in {q.da.token : q \in Issued}
    <3>1. reply.code = 200
      BY <2>1 DEF Answer, Reply
    <3>2. Play!Classify(reply) # "panic"
      BY <3>1 DEF Play!Classify
    <3> HIDE DEF reply
    <3> QED BY <1>3, <3>2 DEF Play!MapOutcome
  <2>2. CASE da.token \notin {q.da.token : q \in Issued}
    <3>1. reply.code = 422 /\ reply.body = "short"
      BY <2>2 DEF Answer, Reply
    <3>2. Play!Classify(reply) # "panic"
      BY <3>1 DEF Play!Classify, Play!Snippet
    <3> HIDE DEF reply
    <3> QED BY <1>3, <3>2 DEF Play!MapOutcome
  <2> QED BY <2>1, <2>2
<1>5. reply.code = 200
  BY <1>4 DEF Play!Classify, Play!Snippet
<1>6. reply.body = da.token
  BY <1>5 DEF Answer, Reply
<1>7. da.token.nonce = Nonce(d, n)
  BY <1>4, <1>6 DEF Play!VerdictOk
<1>8. PICK c \in AndroidDevices : \E m \in 1 .. made[c] : da.token = TokenOf(c, m)
  BY <1>3 DEF KnownToken
<1>9. PICK m \in 1 .. made[c] : da.token = TokenOf(c, m)
  BY <1>8
<1>10. c = d /\ m = n
  BY <1>7, <1>9 DEF TokenOf, Nonce
<1> QED BY <1>9, <1>10

---------------------------------------------------------------------------
(* The theorem *)

LEMMA FieldTwoPasses ==
  ASSUME NEW p \in Delivered, NEW opts,
         NEW STATE cached,
         NEW result, result = VerifyAttestedCached(p, opts, Expect, cached),
         IsValid(result.checks), HasStatus(result.checks, "device-attestation-sig", "pass")
  PROVE  /\ opts.key # None /\ opts.key = p.signer
         /\ p.da.sig # None /\ DeviceSigOk(p.da.sig, p, p.da.nonce, opts.key)
<1> DEFINE app == AppAttest(p.da, Expect, cached, Live(opts.key, AllowsUnbound(opts)))
           field2 == DeviceSignature(p, opts.key)
           own == {StageSignatures(p, opts.key), Check("app-attest", app.status),
                   RootCheck(p.da, opts, Expect.apps, opts.key), field2}
           checks == result.checks
<1>1. /\ own \subseteq checks
      /\ \A c \in checks : \/ c \in own \/ c = ValidityNotChecked
                           \/ \E some : c = RequireAttestationCheck(some)
  BY DEF VerifyAttestedCached
<1>2. Check("device-attestation-sig", "pass") = field2
  BY <1>1 DEF HasStatus, Check, StageSignatures, RootCheck, ValidityNotChecked,
              RequireAttestationCheck
<1>3. /\ opts.key # None /\ p.da.sig # None
      /\ DeviceSigOk(p.da.sig, p, p.da.nonce, opts.key)
  BY <1>2 DEF DeviceSignature, Check
<1>4. StageSignatures(p, opts.key).status # "fail"
  BY <1>1 DEF IsValid, Failed
<1>5. opts.key = p.signer
  BY <1>3, <1>4 DEF StageSignatures, Check
<1> QED BY <1>3, <1>5

\* Where field 2 passes on a device's own proof, whatever evidence was exchanged,
\* the assertion that passed and the token that passes were made for this very
\* proof (device_signature_check, check_assertion, play_integrity_check).
THEOREM EvidenceIsOfThisProofTheorem == Spec => []EvidenceIsOfThisProof
<1>1. ASSUME KeyCacheInv, NEW p \in Delivered, NEW opts \in Options(p),
             NEW STATE result,
             result = VerifyAttestedCached(p, opts, Expect, CachedFor(p.da)),
             IsValid(result.checks),
             HasStatus(result.checks, "device-attestation-sig", "pass"),
             p.signer \in {SigningKey(d) : d \in Devices}
      PROVE  \E d \in Devices : \E n \in 1 .. made[d] :
               /\ p.commitment = Commitment(d, n) /\ p.signer = SigningKey(d)
               /\ result.status = "pass" => p.da.assertion = AssertionOf(d, n)
               /\ PlayStatus(p.da, PlaySettings, Answer(p.da.token)) = "pass" =>
                    p.da.token = TokenOf(d, n)
  <2>1. PICK d \in Devices : \E n \in 1 .. made[d] :
               p.signer = SigningKey(d) /\ p.commitment = Commitment(d, n)
    BY <1>1, DeviceProofIsIssued
  <2>2. PICK n \in 1 .. made[d] : p.signer = SigningKey(d) /\ p.commitment = Commitment(d, n)
    BY <2>1
  <2>3. KnownEvidence(p.da) /\ KnownExtras(p.da) /\ made \in [Devices -> Nat]
    BY <1>1, DeliveredKnown, DeliveredExtras DEF KeyCacheInv
  <2>4. /\ opts.key # None /\ opts.key = SigningKey(d)
        /\ p.da.sig # None /\ DeviceSigOk(p.da.sig, p, p.da.nonce, opts.key)
    BY <1>1, <2>2, FieldTwoPasses
  <2>5. p.da.nonce = Nonce(d, n)
    BY <2>2, <2>3, <2>4, SignatureTies DEF KnownExtras
  <2>6. ASSUME result.status = "pass"
        PROVE  p.da.assertion = AssertionOf(d, n)
    <3>1. AppAttest(p.da, Expect, CachedFor(p.da),
                    Live(opts.key, AllowsUnbound(opts))).status = "pass"
      BY <1>1, <2>6 DEF VerifyAttestedCached
    <3>2. CachedFor(p.da) # None => Vouched(CachedFor(p.da))
      BY <1>1, CachedIsVouched
    <3>3. /\ p.da.assertion \notin {None, Garbage}
          /\ p.da.assertion.nonce = p.da.nonce /\ p.da.assertion.bound = opts.key
          /\ \E c \in IosDevices : p.da.assertion.key = AppAttestKey(c)
      BY <3>1, <3>2, <2>3, PassIsBinding
    <3> QED BY <3>3, <2>3, <2>4, <2>5, AssertionTies DEF KnownEvidence
  <2>7. ASSUME PlayStatus(p.da, PlaySettings, Answer(p.da.token)) = "pass"
        PROVE  p.da.token = TokenOf(d, n)
    BY <2>3, <2>5, <2>7, TokenTies DEF KnownExtras
  <2> QED BY <2>2, <2>6, <2>7
<1>2. KeyCacheInv => EvidenceIsOfThisProof
  BY <1>1 DEF EvidenceIsOfThisProof
<1> QED BY <1>2, KeyCacheInvariant, PTL

---------------------------------------------------------------------------
(* Dates and outages.  Both properties are about the proofs as their devices *)
(* issued them.                                                              *)

\* No device issues more proofs than the bound, so none after the clock.
MadeInTime == \A d \in Devices : made[d] \in 0 .. MaxProofs[d]

THEOREM MadeInTimeInvariant == Spec => []MadeInTime
<1>1. Init => MadeInTime
  BY DevicesAssumption DEF Init, MadeInTime
<1>2. ASSUME MadeInTime, KeyCacheInv, [Next]_vars PROVE MadeInTime'
  <2>1. CASE UNCHANGED made
    BY <1>2, <2>1 DEF MadeInTime
  <2>2. ASSUME NEW d \in Devices, Issue(d) PROVE MadeInTime'
    <3>1. made \in [Devices -> Nat] /\ made' = [made EXCEPT ![d] = @ + 1] /\ made[d] < MaxProofs[d]
      BY <1>2, <2>2 DEF Issue, KeyCacheInv
    <3>2. MaxProofs \in [Devices -> Nat]
      BY DevicesAssumption
    <3> SUFFICES ASSUME NEW e \in Devices PROVE made'[e] \in 0 .. MaxProofs[e]
      BY DEF MadeInTime
    <3>3. made[e] \in 0 .. MaxProofs[e] /\ MaxProofs[e] \in Nat /\ made[e] \in Nat
      BY <1>2, <3>1, <3>2 DEF MadeInTime
    <3>4. made'[e] = IF e = d THEN made[e] + 1 ELSE made[e]
      BY <3>1
    <3> QED BY <3>1, <3>3, <3>4
  <2>3. ASSUME NEW p \in Delivered, NEW opts \in Options(p), Deliver(p, opts) PROVE MadeInTime'
    BY <2>1, <2>3 DEF Deliver
  <2>4. ASSUME NEW bundle \in Bundles, Enrol(bundle) PROVE MadeInTime'
    BY <2>1, <2>4 DEF Enrol
  <2>5. CASE UNCHANGED vars
    BY <2>1, <2>5 DEF vars
  <2>6. CASE Next
    BY <2>2, <2>3, <2>4, <2>6 DEF Next
  <2> QED BY <1>2, <2>5, <2>6
<1> QED BY <1>1, <1>2, KeyCacheInvariant, PTL DEF Spec

LEMMA IssuedIsOfADevice ==
  ASSUME NEW p \in Issued
  PROVE  \E d \in Devices : \E n \in 1 .. made[d] : p = ProofOf(d, n)
BY DEF Issued

\* Rounding to seconds, times before 1970 counting as 1970, brings a time after
\* 1970 no later and an end of a window no earlier.
LEMMA DownIsNotLater ==
  ASSUME NEW ms \in Int, NEW s \in Nat \ {0}, s <= SecondsDown(ms)
  PROVE  s * MsPerS <= ms
<1> DEFINE k == MsPerS
           q == ms \div k
<1>1. k \in Nat /\ k > 0
  BY AttestationAssumption
<1>2. q \in Int /\ k * q <= ms
  BY <1>1
<1>3. s <= q
  BY <1>2 DEF SecondsDown, AtLeast0
<1> HIDE DEF q, k
<1>4. s * k <= k * q
  BY <1>1, <1>2, <1>3
<1>5. s * k <= ms
  BY <1>1, <1>2, <1>4
<1> QED BY <1>5 DEF k

LEMMA UpIsNotEarlier ==
  ASSUME NEW ms \in Int, NEW s \in Int, SecondsUp(ms) <= s
  PROVE  ms <= s * MsPerS
<1> DEFINE k == MsPerS
           q == (ms + (k - 1)) \div k
<1>1. k \in Nat /\ k > 0
  BY AttestationAssumption
<1>2. q \in Int /\ ms + (k - 1) < k * q + k
  BY <1>1
<1>3. q <= s
  BY <1>2 DEF SecondsUp, AtLeast0
<1> HIDE DEF q, k
<1>4. k * q <= s * k
  BY <1>1, <1>2, <1>3
<1>5. ms <= s * k
  BY <1>1, <1>2, <1>4
<1> QED BY <1>5 DEF k

\* A window whose ends are dated is dated throughout.
LEMMA DatedThroughout ==
  ASSUME NEW w, w.to \in Int, SecondsUp(w.to) <= Dates.to,
         w.from = None \/ (w.from \in Int /\ Dates.from <= SecondsDown(w.from)),
         NEW ms \in (IF w.from = None THEN Dates.from * MsPerS ELSE w.from) .. w.to
  PROVE  ValidAt(ms)
<1>1. MsPerS \in Nat /\ Dates.from \in Nat \ {0} /\ Dates.to \in Int
  BY AttestationAssumption, DatesAssumption
<1>2. w.to <= Dates.to * MsPerS
  BY <1>1, UpIsNotEarlier
<1> DEFINE a == Dates.from * MsPerS
           b == Dates.to * MsPerS
<1>3. a \in Int /\ b \in Int
  BY <1>1
<1>4. CASE w.from = None
  BY <1>2, <1>3, <1>4 DEF ValidAt
<1>5. CASE w.from # None
  <2>1. a <= w.from
    BY <1>1, <1>5, DownIsNotLater
  <2> QED BY <1>2, <1>3, <1>5, <2>1 DEF ValidAt
<1> QED BY <1>4, <1>5


\* What a pass of the two dated checks takes, for the proof as its device issued it.
LEMMA DatedCheckPasses ==
  ASSUME NEW p \in Issued, NEW at, NEW c \in LocalChecks(p, at, Expect, None),
         c \in {Check("app-attest-validity", "pass"), Check("attestation-root", "pass")}
  PROVE  \/ /\ c = Check("attestation-root", "pass")
            /\ c = RootCheck(p.da, at, Expect.apps, at.key)
         \/ /\ c = Check("app-attest-validity", "pass")
            /\ at.appWindow # None /\ p.da.object # None
            /\ c = ValidityCheck(p.da.object, at.appWindow)
<1>1. /\ c # StageSignatures(p, at.key) /\ c # DeviceSignature(p, at.key)
      /\ \A cs : c # RequireAttestationCheck(cs)
      /\ \A st : c # Check("app-attest", st)
      /\ c # ValidityNotChecked
  BY DEF StageSignatures, DeviceSignature, RequireAttestationCheck, Check, ValidityNotChecked
<1>2. c = RootCheck(p.da, at, Expect.apps, at.key) \/ c \in FromConfig(p, at, Expect, None)
  BY <1>1 DEF LocalChecks
<1>3. RootCheck(p.da, at, Expect.apps, at.key).name = "attestation-root"
  BY DEF RootCheck, Check
<1>4. CASE c = RootCheck(p.da, at, Expect.apps, at.key)
  BY <1>3, <1>4 DEF Check
<1>5. CASE c \in FromConfig(p, at, Expect, None)
  <2> DEFINE app == AppAttest(p.da, Expect, None, Live(at.key, AllowsUnbound(at)))
             object == IF p.da.object # None THEN p.da.object ELSE None.da.object
  <2>1. app.status = "pass" /\ at.appWindow # None /\ c = ValidityCheck(object, at.appWindow)
    BY <1>1, <1>5 DEF FromConfig
  <2>2. p.da.object # None
    BY <2>1 DEF AppAttest, Outcome
  <2>3. c.name = "app-attest-validity"
    BY <2>1 DEF ValidityCheck, Check
  <2> QED BY <2>1, <2>2, <2>3 DEF Check
<1> QED BY <1>2, <1>4, <1>5

LEMMA RootPassesEverywhere ==
  ASSUME NEW da, NEW at, NEW apps, NEW key, at.window # None,
         RootCheck(da, at, apps, key) = Check("attestation-root", "pass"),
         NEW s \in {SecondsDown(at.window.from), SecondsUp(at.window.to)}
  PROVE  RootStatus(da, s, apps, key) = "pass"
<1> DEFINE found == {RootStatus(da, t, apps, key) : t \in WindowEnds(at.window)}
<1>1. s \in WindowEnds(at.window)
  BY DEF WindowEnds
<1>2. RootStatus(da, s, apps, key) \in found
  BY <1>1
<1>3. RootCheck(da, at, apps, key) =
        Check("attestation-root",
              CASE "fail" \in found -> "fail" [] found = {"pass"} -> "pass" [] OTHER -> "notchecked")
  BY DEF RootCheck
<1> HIDE DEF found
<1>4. found = {"pass"}
  BY <1>3 DEF Check
<1> QED BY <1>2, <1>4

LEMMA RootPassIsDated ==
  ASSUME NEW d \in Devices, NEW n \in 1 .. made[d], NEW s, NEW apps, NEW key,
         RootStatus(ProofOf(d, n).da, s, apps, key) = "pass"
  PROVE  Dates.from <= s /\ s <= Dates.to
<1> DEFINE chain == ProofOf(d, n).da.chain
<1>1. chain = ChainOf(d)
  BY DEF ProofOf, EvidenceOf
<1>2. chain = Garbage \/ chain.kind # "raw"
  BY DEF RootStatus
<1>3. ChainOk(chain, s, apps)
  BY DEF RootStatus
<1>4. chain.from <= s /\ s <= chain.to /\ chain # Garbage
  BY <1>3 DEF ChainOk
<1>5. d \notin IosDevices
  BY <1>1, <1>2, <1>4 DEF ChainOf
<1> QED BY <1>1, <1>4, <1>5 DEF ChainOf

\* A PASS over a window dates the certificates at every millisecond of it
\* (appattest_validity_check, attestation_root_check_window).
THEOREM DatedMeansValidThroughoutTheorem == Spec => []DatedMeansValidThroughout
<1>1. ASSUME NEW p \in Issued, NEW opts \in Options(p), NEW w \in Windows,
             NEW STATE at,
             at = [opts EXCEPT !.appWindow = w, !.window = IF w.from = None THEN None ELSE w],
             NEW c \in LocalChecks(p, at, Expect, None),
             \/ c = Check("app-attest-validity", "pass")
             \/ w.from # None /\ c = Check("attestation-root", "pass"),
             NEW ms \in (IF w.from = None THEN Dates.from * MsPerS ELSE w.from) .. w.to
      PROVE  ValidAt(ms)
  <2>1. PICK d \in Devices : \E n \in 1 .. made[d] : p = ProofOf(d, n)
    BY <1>1, IssuedIsOfADevice
  <2>2. PICK n \in 1 .. made[d] : p = ProofOf(d, n)
    BY <2>1
  <2>3. at.appWindow = w /\ at.window = (IF w.from = None THEN None ELSE w)
    BY <1>1 DEF Options
  <2>4. w.to \in Int /\ (w.from = None \/ w.from \in Int)
    BY <1>1, DatesAssumption
  <2>5. CASE c = RootCheck(p.da, at, Expect.apps, at.key) /\ c = Check("attestation-root", "pass")
    <3>1. w.from # None /\ at.window = w /\ w # None
      BY <1>1, <2>3, <2>5, DatesAssumption DEF Check
    <3>2. \A s \in {SecondsDown(w.from), SecondsUp(w.to)} :
            RootStatus(p.da, s, Expect.apps, at.key) = "pass"
      BY <2>5, <3>1, RootPassesEverywhere
    <3>3. \A s \in {SecondsDown(w.from), SecondsUp(w.to)} : Dates.from <= s /\ s <= Dates.to
      BY <2>2, <3>2, RootPassIsDated
    <3> QED BY <1>1, <2>4, <3>1, <3>3, DatedThroughout
  <2>6. CASE /\ c = Check("app-attest-validity", "pass") /\ p.da.object # None
             /\ c = ValidityCheck(p.da.object, w)
    <3>1. p.da.object = ObjectOf(d) /\ ObjectOf(d).from = Dates.from /\ ObjectOf(d).to = Dates.to
      BY <2>2, <2>6 DEF ProofOf, EvidenceOf, ObjectOf
    <3>2. /\ SecondsUp(w.to) <= Dates.to
          /\ w.from # None => Dates.from <= SecondsDown(w.from)
      BY <2>6, <3>1 DEF ValidityCheck, Check
    <3> QED BY <1>1, <2>4, <3>2, DatedThroughout
  <2> QED BY <1>1, <2>3, <2>5, <2>6, DatedCheckPasses
<1>2. DatedMeansValidThroughout
  BY <1>1 DEF DatedMeansValidThroughout
<1> QED BY <1>2, PTL

\* With all settings the check judges the token of a device; with one missing it
\* judges nothing.
LEMMA PlayOfADevice ==
  ASSUME NEW d \in AndroidDevices, NEW n \in 1 .. MaxProofs[d], NEW reply
  PROVE  PlayStatus(EvidenceOf(d, n), PlaySettings, reply) =
           Play!MapOutcome(Play!Classify(reply), reply, Nonce(d, n),
                           [url |-> "https", package |-> Expect.app, maxAge |-> Now * MsPerS], Now)
<1> DEFINE da == EvidenceOf(d, n)
           cfg == [url |-> "https", package |-> Expect.app, maxAge |-> Now * MsPerS]
<1>1. d \in Devices /\ d \notin IosDevices
  BY DevicesAssumption DEF Devices
<1>2. da.token = TokenOf(d, n) /\ da.nonce = Nonce(d, n) /\ ~TokenOf(d, n).big
  BY <1>1 DEF EvidenceOf, TokenOf
<1>3. da # None /\ da.token # None /\ da.nonce # None
  BY <1>1, <1>2, IssueAssumption
<1>4. Play!UrlAllowed(cfg.url)
  BY DEF Play!UrlAllowed
<1>5. Play!PlayIntegrity(da, cfg, Now, reply) =
        Play!MapOutcome(Play!Classify(reply), reply, Nonce(d, n), cfg, Now)
  <2> HIDE DEF da, cfg
  <2> QED BY <1>2, <1>3, <1>4 DEF Play!PlayIntegrity
<1>6. {s \in {"url", "service", "package"} : PlaySettings[s] # None} = {"url", "service", "package"}
  BY PlayAssumption DEF PlaySettings
<1>7. PlayStatus(da, PlaySettings, reply) = Play!PlayIntegrity(da, cfg, Now, reply)
  BY <1>6 DEF PlayStatus, Play!PlayIntegrityFromCfg, PlaySettings
<1> QED BY <1>5, <1>7

LEMMA MissingSetting ==
  ASSUME NEW da, NEW reply, NEW s \in {"url", "service", "package"}
  PROVE  PlayStatus(da, [PlaySettings EXCEPT ![s] = None], reply) = "notchecked"
<1> DEFINE settings == [PlaySettings EXCEPT ![s] = None]
           given == {t \in {"url", "service", "package"} : settings[t] # None}
<1>1. \A t \in {"url", "service", "package"} : settings[t] # None <=> t # s
  BY PlayAssumption DEF PlaySettings
<1>2. given # {} /\ given # {"url", "service", "package"}
  <2> HIDE DEF settings
  <2>1. s \notin given
    BY <1>1
  <2>2. "url" \in given \/ "service" \in given
    BY <1>1
  <2> QED BY <2>1, <2>2
<1>3. PlayStatus(da, settings, reply) =
        CASE given = {} -> "absent"
          [] given = {"url", "service", "package"} ->
               Play!PlayIntegrity(da, [url |-> settings.url, package |-> settings.package,
                 maxAge |-> (IF settings.maxAgeS = None THEN Now ELSE settings.maxAgeS) * MsPerS],
                 Now, reply)
          [] OTHER -> "notchecked"
  BY DEF PlayStatus, Play!PlayIntegrityFromCfg
<1> HIDE DEF given
<1> QED BY <1>2, <1>3

\* What the check makes of a reply that says nothing of the token.
LEMMA CutFails ==
  ASSUME NEW d \in AndroidDevices, NEW n \in 1 .. MaxProofs[d]
  PROVE  PlayStatus(EvidenceOf(d, n), PlaySettings, CutReply) = "fail"
<1>1. CutReply.code = 200 /\ CutReply.body = CutBody /\ CutReply # NoReply
  BY PlayAssumption DEF CutReply, Reply
<1>2. Play!Classify(CutReply) = "ok"
  BY <1>1 DEF Play!Classify
<1>3. \A cfg : ~Play!VerdictOk(CutReply.body, Nonce(d, n), cfg, Now)
  BY <1>1 DEF Play!VerdictOk
<1>4. \A cfg : Play!MapOutcome("ok", CutReply, Nonce(d, n), cfg, Now) = "fail"
  BY <1>3 DEF Play!MapOutcome
<1> QED BY <1>2, <1>4, PlayOfADevice

LEMMA UnquotableHasNoReport ==
  ASSUME NEW d \in AndroidDevices, NEW n \in 1 .. MaxProofs[d], NEW reply \in Unquotable
  PROVE  PlayStatus(EvidenceOf(d, n), PlaySettings, reply) = None
<1>1. /\ reply.code = 204 \/ (reply.code = 422 /\ reply.detail = "array")
      /\ reply.body = "split" /\ reply # NoReply
  BY PlayAssumption DEF Unquotable, Reply
<1>2. Play!Classify(reply) = "panic"
  BY <1>1 DEF Play!Classify, Play!Snippet, Play!IsError
<1>3. \A cfg : Play!MapOutcome("panic", reply, Nonce(d, n), cfg, Now) = None
  BY DEF Play!MapOutcome
<1> QED BY <1>2, <1>3, PlayOfADevice

\* Any other outage is none of the answers about a token, and is reported.
LEMMA OutageOutcome ==
  ASSUME NEW reply \in Outages \ ({CutReply} \cup Unquotable)
  PROVE  Play!Classify(reply) \notin {"ok", "token invalid", "package not allowed", "panic"}
<1>1. CASE reply = NoReply
  BY <1>1 DEF Play!Classify
<1>2. CASE reply # NoReply
  <2>1. PICK code \in {204, 401, 403, 422, 429, 500, 503},
             detail \in {None, "array", "forbidden"}, body \in {"short", "split"} :
               /\ reply = Reply(code, detail, body)
               /\ detail = "forbidden" => code = 403
    <3>1. CASE reply \in {Reply(403, "forbidden", "short"), Reply(403, "forbidden", "split")}
      BY <3>1
    <3>2. CASE reply \in {Reply(code, detail, body) :
                            code \in {204, 401, 403, 422, 429, 500, 503},
                            detail \in {None, "array"}, body \in {"short", "split"}}
      <4>1. PICK code \in {204, 401, 403, 422, 429, 500, 503}, detail \in {None, "array"},
                 body \in {"short", "split"} : reply = Reply(code, detail, body)
        BY <3>2
      <4>2. detail # "forbidden"
        BY <4>1, PlayAssumption
      <4> QED BY <4>1, <4>2
    <3> QED BY <1>2, <3>1, <3>2 DEF Outages
  <2>2. reply.code = code /\ reply.detail = detail /\ reply.body = body
    BY <2>1 DEF Reply
  <2>3. /\ reply.code # 200
        /\ ~(reply.code = 403 /\ reply.detail = "package_not_allowed")
        /\ ~(reply.code = 422 /\ reply.detail = "integrity_token_invalid")
    BY <2>2, PlayAssumption
  <2>4. reply.body = "split" =>
          (reply.code # 204 /\ ~(reply.code = 422 /\ reply.detail = "array"))
    <3> SUFFICES ASSUME reply.body = "split",
                        reply.code = 204 \/ (reply.code = 422 /\ reply.detail = "array")
                 PROVE  FALSE
      OBVIOUS
    <3>1. /\ body = "split"
          /\ \/ code = 204 /\ detail \in {None, "array"}
             \/ code = 422 /\ detail = "array"
      BY <2>1, <2>2
    <3>2. reply \in Unquotable
      BY <2>1, <3>1 DEF Unquotable
    <3> QED BY <3>2
  <2>5. reply.code < 400 => reply.code = 204
    BY <2>2
  <2> QED BY <1>2, <2>2, <2>3, <2>4, <2>5 DEF Play!Classify, Play!Snippet, Play!IsError
<1> QED BY <1>1, <1>2

LEMMA OutageIsNotChecked ==
  ASSUME NEW d \in AndroidDevices, NEW n \in 1 .. MaxProofs[d],
         NEW reply \in Outages \ ({CutReply} \cup Unquotable)
  PROVE  PlayStatus(EvidenceOf(d, n), PlaySettings, reply) = "notchecked"
<1> DEFINE outcome == Play!Classify(reply)
<1>1. outcome \notin {"ok", "token invalid", "package not allowed", "panic"}
  BY OutageOutcome
<1> HIDE DEF outcome
<1>2. \A cfg : Play!MapOutcome(outcome, reply, Nonce(d, n), cfg, Now) = "notchecked"
  BY <1>1 DEF Play!MapOutcome
<1> QED BY <1>2, PlayOfADevice DEF outcome

\* The token of a device passes when the service answers.
LEMMA FreshTokenPasses ==
  ASSUME NEW d \in AndroidDevices, NEW n \in 1 .. MaxProofs[d], AppOf[d] = Expect.app,
         TokenOf(d, n) \in {p.da.token : p \in Issued}
  PROVE  PlayStatus(EvidenceOf(d, n), PlaySettings, Answer(TokenOf(d, n))) = "pass"
<1> DEFINE token == TokenOf(d, n)
           reply == Answer(token)
           cfg == [url |-> "https", package |-> Expect.app, maxAge |-> Now * MsPerS]
<1>1. reply = Reply(200, None, token)
  BY DEF Answer
<1>2. reply.code = 200 /\ reply.body = token
  BY <1>1 DEF Reply
<1>3. d \in Devices
  BY DEF Devices
<1>4. reply # NoReply
  BY <1>1, <1>3, PlayAssumption
<1>5. Play!Classify(reply) = "ok"
  BY <1>2, <1>4 DEF Play!Classify
<1>6. /\ n <= Now /\ n \in Nat /\ 1 <= n /\ Now \in Nat
      /\ MsPerS \in Nat /\ 1 <= MsPerS /\ token # CutBody
  <2>1. MaxProofs[d] \in Nat
    BY <1>3, DevicesAssumption
  <2> QED BY <1>3, <2>1, IssueAssumption, AttestationAssumption
<1>7. Now - Now * MsPerS <= n
  <2>1. Now * MsPerS \in Nat
    BY <1>6
  <2>2. Now <= Now * MsPerS
    BY <1>6
  <2> QED BY <1>6, <2>1, <2>2
<1>8. /\ token.nonce = Nonce(d, n) /\ token.package = Expect.app /\ token.ts = n
      /\ token.level = "device"
  BY DEF TokenOf
<1>9. Play!VerdictOk(reply.body, Nonce(d, n), cfg, Now)
  <2> HIDE DEF token, reply
  <2> QED BY <1>2, <1>6, <1>7, <1>8 DEF Play!VerdictOk
<1>10. Play!MapOutcome("ok", reply, Nonce(d, n), cfg, Now) = "pass"
  BY <1>9 DEF Play!MapOutcome
<1> QED BY <1>5, <1>10, PlayOfADevice

\* While the service is out of order or refuses the verifier a good token is
\* NOT-CHECKED, except for a verdict cut in the middle, which fails, and an error
\* text that cannot be quoted, which ends the run; and it passes as soon as the
\* service answers (classify, snippet, map_outcome).
THEOREM OutageIsNoVerdictTheorem == Spec => []OutageIsNoVerdict
<1>1. MadeInTime => OutageIsNoVerdict
  <2> SUFFICES ASSUME MadeInTime, NEW p \in Issued, p.da.token # None,
                      p.da.token.package = Expect.app
               PROVE  /\ PlayStatus(p.da, PlaySettings, Answer(p.da.token)) = "pass"
                      /\ PlayStatus(p.da, PlaySettings, CutReply) = "fail"
                      /\ \A reply \in Unquotable :
                           PlayStatus(p.da, PlaySettings, reply) = None
                      /\ \A reply \in Outages \ ({CutReply} \cup Unquotable) :
                           PlayStatus(p.da, PlaySettings, reply) = "notchecked"
                      /\ \A s \in {"url", "service", "package"} :
                         \A reply \in Outages \cup {Answer(p.da.token)} :
                           PlayStatus(p.da, [PlaySettings EXCEPT ![s] = None], reply) = "notchecked"
    BY DEF OutageIsNoVerdict
  <2>1. PICK d \in Devices : \E n \in 1 .. made[d] : p = ProofOf(d, n)
    BY IssuedIsOfADevice
  <2>2. PICK n \in 1 .. made[d] : p = ProofOf(d, n)
    BY <2>1
  <2>3. p.da = EvidenceOf(d, n)
    BY <2>2 DEF ProofOf
  <2>4. d \in AndroidDevices /\ p.da.token = TokenOf(d, n) /\ AppOf[d] = Expect.app
    BY <2>3 DEF EvidenceOf, TokenOf
  <2>5. n \in 1 .. MaxProofs[d]
    <3>1. made[d] \in 0 .. MaxProofs[d] /\ MaxProofs[d] \in Nat
      BY DevicesAssumption DEF MadeInTime
    <3> QED BY <3>1
  <2>6. TokenOf(d, n) \in {q.da.token : q \in Issued}
    BY <2>4
  <2>7. PlayStatus(p.da, PlaySettings, Answer(p.da.token)) = "pass"
    BY <2>3, <2>4, <2>5, <2>6, FreshTokenPasses
  <2>8. /\ PlayStatus(p.da, PlaySettings, CutReply) = "fail"
        /\ \A reply \in Unquotable : PlayStatus(p.da, PlaySettings, reply) = None
    BY <2>3, <2>4, <2>5, CutFails, UnquotableHasNoReport
  <2>9. \A reply \in Outages \ ({CutReply} \cup Unquotable) :
          PlayStatus(p.da, PlaySettings, reply) = "notchecked"
    BY <2>3, <2>4, <2>5, OutageIsNotChecked
  <2> QED BY <2>7, <2>8, <2>9, MissingSetting
<1> QED BY <1>1, MadeInTimeInvariant, PTL
=============================================================================
