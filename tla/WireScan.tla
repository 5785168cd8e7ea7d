------------------------------ MODULE WireScan ------------------------------
(***************************************************************************)
(* The guard against duplicated fields (src/wire.rs), beside the decoder   *)
(* it guards, which is the prost library and modelled from what wire.rs    *)
(* says of it.  A message is a sequence of elements [field, type, body]:   *)
(*                                                                         *)
(*   type   "varint", "fixed", "len", "group", "endgroup", "invalid", or   *)
(*          "cut" for a tag that cannot be read                            *)
(*   body   a value, or Cut for a payload that is truncated or too long    *)
(*                                                                         *)
(* Field is zero for the invalid field number.                             *)
(***************************************************************************)
EXTENDS Integers, Sequences, FiniteSets, Report

CONSTANT Cut

ElementTypes == {"varint", "fixed", "len", "group", "endgroup", "invalid", "cut"}

\* SINGULAR_FIELDS
SingularFields == {1, 2, 3, 4, 5, 6, 7, 8, 11, 12, 13, 16, 17, 18, 19}

\* The schema, proto/octet/proof/proof.proto: the fields of a LocationProof and
\* the wire type each has.  Only field 10 is repeated.
MessageFields == {2, 4, 8, 10, 18, 19, 20}
SchemaFields  == (1 .. 20) \ {9, 14, 15}
SchemaType(f) == IF f \in {3, 7, 11, 17} THEN "varint" ELSE "len"
OneValued     == SchemaFields \ {10}

---------------------------------------------------------------------------
(* The scan *)

\* skip_payload
Skippable(e) == e.type \in {"varint", "fixed", "len"} /\ e.body # Cut

\* A tag is counted when it can be read and its field number is not zero.
Countable(e) == e.type # "cut" /\ e.field # 0

\* The elements the scan gets to: all before it has to skip those before them.
Reached(msg, n) == \A k \in 1 .. n - 1 : Countable(msg[k]) /\ Skippable(msg[k])

\* Mutant of Count: message fields are not counted, since their copies are merged.
CountScalars(msg, f) ==
  Cardinality({n \in DOMAIN msg : Reached(msg, n) /\ Countable(msg[n]) /\ msg[n].field = f
                                  /\ f \notin MessageFields})

Count(msg, f) ==
  Cardinality({n \in DOMAIN msg : Reached(msg, n) /\ Countable(msg[n]) /\ msg[n].field = f})

DuplicateSingularFields(msg) == {f \in SingularFields : Count(msg, f) > 1}

\* wire_check
WireCheck(msg) ==
  Check("wire-format", IF DuplicateSingularFields(msg) = {} THEN "pass" ELSE "fail")

---------------------------------------------------------------------------
(* The decoder *)

\* Groups open after the first n elements, negative if one was closed too often.
Depth(msg, n) ==
  LET Of(type) == Cardinality({k \in 1 .. n : msg[k].type = type})
  IN Of("group") - Of("endgroup")

\* The elements outside groups; what a group holds is skipped with it.
TopLevel(msg) ==
  {n \in DOMAIN msg : Depth(msg, n - 1) = 0 /\ msg[n].type # "group"}

\* LocationProof::decode succeeds: every element is well formed, groups nest, and
\* a field of the schema has its type.
Decodes(msg) ==
  /\ \A n \in DOMAIN msg :
       /\ Countable(msg[n]) /\ msg[n].body # Cut /\ msg[n].type # "invalid"
       /\ Depth(msg, n) >= 0
       /\ Depth(msg, n - 1) = 0 /\ msg[n].field \in SchemaFields =>
            msg[n].type = SchemaType(msg[n].field)
  /\ Depth(msg, Len(msg)) = 0

\* What the copies of a field hold, in order; the value decoded from them, and the
\* value a reader of the first copy sees.  A message's copies are merged, for the
\* other fields the last one is kept.
Copies(msg, f) ==
  LET at == {n \in TopLevel(msg) : msg[n].field = f}
      Nth(k) == CHOOSE n \in at : Cardinality({m \in at : m <= n}) = k
  IN [k \in 1 .. Cardinality(at) |-> msg[Nth(k)].body]
Decoded(msg, f) ==
  LET all == Copies(msg, f) IN
    IF f \in MessageFields \/ all = <<>> THEN all ELSE <<all[Len(all)]>>
ReadFirst(msg, f) ==
  LET all == Copies(msg, f) IN IF all = <<>> THEN all ELSE <<all[1]>>

HasGroup(msg) == \E n \in DOMAIN msg : msg[n].type = "group"
=============================================================================
