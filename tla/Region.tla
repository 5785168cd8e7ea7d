------------------------------- MODULE Region -------------------------------
(***************************************************************************)
(* What verify() says of the claimed region (src/verify.rs): its shape,    *)
(* and what an operator may expect of it with --expect-region,             *)
(* --expect-region-type and --expect-region-contains.                      *)
(*                                                                         *)
(*   region   [type, id, area], or NoRegion                                *)
(*   id       an identifier, as its parts between colons                   *)
(*   area     of a city, an ellipse, a box or an H3 set the set of points  *)
(*            in it, of a cell or voxel set its entries; Unevaluable for a *)
(*            degenerate ellipse, or for an H3 set no build can read       *)
(*   point    a direction <<x, y, z>> in place of latitude and longitude,  *)
(*            NoPoint for one that is not finite                           *)
(*                                                                         *)
(*   expect   [region, type, point, height], each None when not asked for  *)
(*                                                                         *)
(* Lower is to_ascii_lowercase on the parts of identifiers.                *)
(***************************************************************************)
EXTENDS VoxelSet, Report

CONSTANTS None, NoPoint, Unevaluable, Lower

ASSUME RegionAssumption ==
  /\ \A w \in DOMAIN Lower : Lower[w] \in DOMAIN Lower
  /\ NoPoint # None

\* A proof without a region.
NoRegion == [type |-> "none"]

EqIgnoreCase(a, b) == [i \in DOMAIN a |-> Lower[a[i]]] = [i \in DOMAIN b |-> Lower[b[i]]]

\* The region types that have an identifier to match.
IdentifiedTypes == {"country", "subdivision", "city"}

\* split_region_expectation: a known type before the first colon is a prefix.
TypePrefix(want) ==
  IF Len(want) > 1 THEN {t \in IdentifiedTypes : Lower[want[1]] = t} ELSE {}
WantedId(want) == IF TypePrefix(want) = {} THEN want ELSE Tail(want)

\* Mutant of WantedTypes: an expectation without a prefix may name anything.
WantedTypesAny(want) == IF TypePrefix(want) = {} THEN IdentifiedTypes ELSE TypePrefix(want)

\* An expectation without a prefix never names a city.
WantedTypes(want) == IF TypePrefix(want) = {} THEN {"country", "subdivision"} ELSE TypePrefix(want)

\* match_expected_region, the status of region-claim under an expectation.
MatchExpectedRegion(r, want) ==
  IF /\ r # NoRegion /\ r.type \in IdentifiedTypes
     /\ WantedId(want) # <<"">>
     /\ r.type \in WantedTypes(want)
     /\ EqIgnoreCase(r.id, WantedId(want))
  THEN "pass" ELSE "fail"

\* The region-claim check, which passes with a label when nothing is expected.
RegionClaim(r, want) == IF want = None THEN "pass" ELSE MatchExpectedRegion(r, want)

\* The region-type check, on region_type_tag.
RegionType(r, wantType) ==
  IF r # NoRegion /\ r.type = Lower[wantType] THEN "pass" ELSE "fail"

---------------------------------------------------------------------------
(* Containment *)

LeafOf(point) == LeafFromXYZ(point[1], point[2], point[3])

\* cell_set_contains
InCellSet(ids, point) ==
  /\ CheckCanonical(ids)
  /\ point # NoPoint
  /\ CellSetContainsLeaf(ids, LeafOf(point))

\* voxel_set_contains
InVoxelSet(vs, point, h) ==
  /\ CheckVoxelCanonical(vs)
  /\ h # NoHeight
  /\ point # NoPoint
  /\ VoxelSetContains(vs, LeafOf(point), h)

\* region_contains: what cannot be evaluated fails.
RegionContains(r, point, h) ==
  IF /\ r # NoRegion
     /\ CASE r.type = "earth" -> TRUE
          [] r.type \in {"city", "ellipse", "bbox", "h3"} ->
               r.area # Unevaluable /\ point \in r.area
          [] r.type = "cellset"  -> InCellSet(r.area, point)
          [] r.type = "voxelset" -> InVoxelSet(r.area, point, h)
          [] OTHER -> FALSE
  THEN "pass" ELSE "fail"

---------------------------------------------------------------------------
(* In the report *)

\* add_cell_set_shape
CellSetShape(r) ==
  CASE r # NoRegion /\ r.type = "cellset" ->
         {Check("cell-set", IF CheckCanonical(r.area) THEN "pass" ELSE "fail")}
    [] r # NoRegion /\ r.type = "voxelset" ->
         {Check("voxel-set", IF CheckVoxelCanonical(r.area) THEN "pass" ELSE "fail")}
    [] OTHER -> {}

\* The checks verify() makes of the region.
RegionChecks(r, expect) ==
  {Check("region-claim", RegionClaim(r, expect.region))}
    \cup {Check("region-type", RegionType(r, t)) : t \in {expect.type} \ {None}}
    \cup {Check("region-contains", RegionContains(r, p, expect.height)) :
            p \in {expect.point} \ {None}}
    \cup CellSetShape(r)

\* Report::region_asserted: something was expected and every expectation held.
RegionAsserted(checks, expect) ==
  /\ \E f \in {"region", "type", "point"} : expect[f] # None
  /\ HasStatus(checks, "region-claim", "pass")
  /\ \A c \in checks : c.name \in {"region-type", "region-contains"} => c.status = "pass"
=============================================================================
