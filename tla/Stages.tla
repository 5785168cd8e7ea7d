------------------------------- MODULE Stages -------------------------------
(***************************************************************************)
(* Symbolic bytes, hashes and signatures, and the stages made of them      *)
(* (src/crypto.rs, stage_message and stage_by_name of src/verify.rs).      *)
(*                                                                         *)
(* A byte string is a tuple whose first element says what it encodes, Hash *)
(* is injective, and a signature is the triple of the key, the message and *)
(* the parity of its S value, so verifying one is comparing two of its     *)
(* fields.  Stage messages are taken as unambiguous (the name is UTF-8 and *)
(* everything after it has a fixed length).                                *)
(***************************************************************************)
EXTENDS Report, Sequences, FiniteSets

CONSTANTS
  None,   \* an absent optional field
  Empty   \* a present but empty byte string or name

---------------------------------------------------------------------------
(* Bytes, hashes and signatures *)

Hash(bytes)     == <<"sha256", bytes>>
FieldBytes(v)   == <<"bytes", v>>
SessionBytes(n) == <<"session", n>>

\* An absent previous_hash and a present but empty one are two values on the
\* wire that add the same nothing to the message.
Absent     == <<"absent">>
EmptyBytes == <<"empty">>
PrevBytes(prev) == IF prev = Absent THEN EmptyBytes ELSE prev

\* stage_message: what a stage signs.
StageMessage(st) == <<st.stage, st.data, st.ts, PrevBytes(st.prev)>>

Signature(key, message, s) == [key |-> key, msg |-> message, s |-> s]

\* Bytes that are no signature of anything: empty or malformed.
NoSignature == Signature(None, <<>>, "low")

\* canonical_sig: the same signature with its S in the low half.
CanonicalSig(sig) == [sig EXCEPT !.s = "low"]

\* p256_verify normalises S first, so either parity verifies.
P256Verify(key, message, sig) == sig.key = key /\ sig.msg = message

KnownPlatforms == {"ios", "android"}

---------------------------------------------------------------------------
(* Looking stages up by name *)

StagesNamed(stages, name) == {i \in DOMAIN stages : stages[i].stage = name}

\* Whether stage_by_name finds anything.
HasStage(stages, name) == StagesNamed(stages, name) # {}

\* stage_by_name returns the first match; asked for only where there is one.
StageByName(stages, name) ==
  LET found == StagesNamed(stages, name) IN
    stages[CHOOSE i \in found : \A j \in found : i <= j]
=============================================================================
