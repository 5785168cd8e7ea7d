------------------------------ MODULE Encodings ------------------------------
(***************************************************************************)
(* What a sender may write, and what the verifier makes of it: the         *)
(* top-level fields of a proof (WireScan), a cell or voxel set (CellSet,   *)
(* VoxelSet) and a claimed region against an expectation (Region).  The    *)
(* sender writes one field or entry at a time, in any order, valid or not; *)
(* the verifier only checks, so everything it computes is an operator on   *)
(* what has been written.                                                  *)
(***************************************************************************)
EXTENDS Region, WireScan

CONSTANTS
  Elements,     \* the wire elements a sender may write
  MaxElements,
  Openings,     \* lists of entries a sender may begin with
  Entries,      \* the entries it may add
  MaxAdded,
  Claims,       \* claimed regions with an identifier, or without one
  Wants, Types, \* regions and region types an operator may expect
  Directions,   \* points to place on the curve
  Asked         \* points an operator asks about, NoPoint among them

\* The entries a sender can write: their numbers may be of any size.
Voxels == [cell : Nat, zoom : Nat, min : Int, max : Int]

\* Wire elements have one of the wire types, and a direction is not zero.
ASSUME EncodingsAssumption ==
  /\ \A e \in Elements : e.type \in ElementTypes
  /\ Entries \subseteq Voxels /\ \A vs \in Openings : vs \in Seq(Voxels)
  /\ \A p \in Directions \cup (Asked \ {NoPoint}) : p \in Int \X Int \X Int /\ p # <<0, 0, 0>>
  /\ None \notin Asked

VARIABLE input

Cells(vs) == [k \in DOMAIN vs |-> vs[k].cell]

\* A message without fields, a list to add to, a claimed region or a point.
Init ==
  \/ input = [kind |-> "message", wire |-> <<>>]
  \/ \E vs \in Openings : input = [kind |-> "entries", list |-> vs, added |-> 0]
  \/ \E r \in Claims : input = [kind |-> "claim", region |-> r]
  \/ \E d \in Directions : input = [kind |-> "point", direction |-> d]

WriteField ==
  /\ input.kind = "message" /\ Len(input.wire) < MaxElements
  /\ \E e \in Elements : input' = [input EXCEPT !.wire = Append(@, e)]

WriteEntry ==
  /\ input.kind = "entries" /\ input.added < MaxAdded
  /\ \E v \in Entries :
       input' = [input EXCEPT !.list = Append(@, v), !.added = @ + 1]

Next == WriteField \/ WriteEntry
Spec == Init /\ [][Next]_input

---------------------------------------------------------------------------
(* What the entries cover *)

LeavesOf(c) == {l \in RangeMin(c) .. RangeMax(c) : l % 2 = 1}
Covered(ids) == UNION {LeavesOf(ids[k]) : k \in DOMAIN ids}

Bins == -BinSize(0) .. BinSize(0) - 1
BinsOf(vs, ks) == {h \in Bins : \E k \in ks : VoxelLo(vs[k]) <= h /\ h < VoxelHi(vs[k])}
BinsAt(vs, leaf) == BinsOf(vs, {k \in DOMAIN vs : leaf \in LeavesOf(vs[k].cell)})

---------------------------------------------------------------------------
(* Properties *)

\* Heights in and just beside the range.
SomeHeights == (-BinSize(0) - 1 .. BinSize(0)) \cup {NoHeight}

\* An operator who expects a point in a claimed cell or voxel set is satisfied
\* exactly if the set is canonical and the point, with its height, is in one of
\* the cells listed: the search over leaf ranges misses none and finds none by
\* chance, and what is not known of the point is never assumed
\* (src/verify.rs region_contains, region_asserted).
Asserted(r, expect) == RegionAsserted(RegionChecks(r, expect), expect)
Within(p, h) == [region |-> None, type |-> None, point |-> p, height |-> h]
ContainmentIsMembership ==
  input.kind = "entries" /\ input.list # <<>> =>
    LET vs == input.list IN \A p \in Asked :
      LET Inside(cells) == p # NoPoint /\ LeafOf(p) \in cells IN
        /\ Asserted([type |-> "cellset", area |-> Cells(vs)], Within(p, NoHeight)) <=>
             CheckCanonical(Cells(vs)) /\ Inside(Covered(Cells(vs)))
        /\ \A h \in SomeHeights :
             Asserted([type |-> "voxelset", area |-> vs], Within(p, h)) <=>
               /\ CheckVoxelCanonical(vs) /\ Inside(Covered(Cells(vs)))
               /\ h \in Bins \cap BinsAt(vs, LeafOf(p))

\* The curve keeps points together: two directions on one face are in one cell of
\* a level exactly if their columns and rows agree in as many high bits, leaves
\* that follow each other share an edge, whichever way the curve is turned there,
\* and columns and rows are in the order of u and v (src/s2.rs leaf_from_xyz,
\* face_ij_to_leaf).
Column(p) == LET u == Positive(FaceUV(p[1], p[2], p[3]).u) IN GridIndex(u[1], u[2])
Row(p)    == LET v == Positive(FaceUV(p[1], p[2], p[3]).v) IN GridIndex(v[1], v[2])
Less(q, r) == Positive(q)[1] * Positive(r)[2] < Positive(r)[1] * Positive(q)[2]
CurveKeepsPlaces ==
  input.kind = "point" => \A e \in Directions :
    LET d == input.direction IN
      FaceOf(d[1], d[2], d[3]) = FaceOf(e[1], e[2], e[3]) =>
        /\ Less(FaceUV(d[1], d[2], d[3]).u, FaceUV(e[1], e[2], e[3]).u) => Column(d) <= Column(e)
        /\ Less(FaceUV(d[1], d[2], d[3]).v, FaceUV(e[1], e[2], e[3]).v) => Row(d) <= Row(e)
        /\ LeafOf(e) = LeafOf(d) + 2 =>
             Magnitude(Column(d) - Column(e)) + Magnitude(Row(d) - Row(e)) = 1
        /\ \A l \in 0 .. MaxLevel :
             LET side == 2 ^ (MaxLevel - l) IN
               Parent(LeafOf(d), l) = Parent(LeafOf(e), l) <=>
                 Column(d) \div side = Column(e) \div side /\ Row(d) \div side = Row(e) \div side

\* No two different claims satisfy one expectation: one that accepts a claim
\* accepts no claim with another identifier, none that is a city when the first is
\* not, and none of another type than it names, however it is spelled; and without
\* an expectation nothing is ever asserted (src/verify.rs match_expected_region,
\* region_asserted).
Expectations == [region : Wants \cup {None}, type : Types \cup {None}, point : {None},
                 height : {NoHeight}]
ExpectationIsOneRegion ==
  input.kind = "claim" => \A e \in Expectations : Asserted(input.region, e) =>
    /\ e.type # None => Lower[e.type] = input.region.type
    /\ e.type = None => e.region # None
    /\ e.region # None => \A other \in Claims : Asserted(other, e) =>
         /\ EqIgnoreCase(other.id, input.region.id)
         /\ other.type = "city" <=> input.region.type = "city"

\* "We refuse any proof that carries a duplicate of a field the schema declares
\* non-repeated" (src/wire.rs): a proof that decodes and passes the guard shows a
\* reader of the first copy of any field what the decoder kept.
OneReading(wire, fields) == \A f \in fields : ReadFirst(wire, f) = Decoded(wire, f)
Accepted(wire) == Decodes(wire) /\ WireCheck(wire).status = "pass"
AcceptedWireHasOneReading ==
  input.kind = "message" /\ Accepted(input.wire) => OneReading(input.wire, OneValued)

\* The same for the fields the guard lists, in a message without groups: there
\* the scan gets to the end of whatever the decoder accepts (src/wire.rs
\* duplicate_singular_fields).
ListedFieldsHaveOneReading ==
  input.kind = "message" /\ Accepted(input.wire) /\ ~HasGroup(input.wire) =>
    OneReading(input.wire, SingularFields)
=============================================================================
