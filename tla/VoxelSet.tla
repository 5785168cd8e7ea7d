------------------------------ MODULE VoxelSet ------------------------------
(***************************************************************************)
(* Voxel sets, translated from the second half of src/s2.rs: a cell with   *)
(* an interval of height bins [cell, zoom, min, max].  Bins of zoom        *)
(* MaxFZoom (32 in the code) are the finest, so a height is the number of  *)
(* its finest bin, and 2^25 metres are 2^MaxFZoom of them.  The lowest bin *)
(* stands for the heights above its lower end, which is out of range.      *)
(***************************************************************************)
EXTENDS CellSet

CONSTANTS MaxFZoom,   \* MAX_F_ZOOM
          NoHeight    \* f_index of a height out of range

ASSUME VoxelAssumption == MaxFZoom \in Nat /\ NoHeight \notin Int

\* Finest bins in one bin of a zoom.
BinSize(zoom) == 2 ^ (MaxFZoom - zoom)

VoxelLo(v) == v.min * BinSize(v.zoom)
VoxelHi(v) == (v.max + 1) * BinSize(v.zoom)

VoxelBoundsOk(v) ==
  v.zoom <= MaxFZoom /\ -(2 ^ v.zoom) <= v.min /\ v.min <= v.max /\ v.max < 2 ^ v.zoom

IsFullHeight(v) == VoxelLo(v) = -BinSize(0) /\ VoxelHi(v) = BinSize(0)

Heights(v) == <<v.zoom, v.min, v.max>>

\* The bin of a height at a zoom.
FIndex(h, zoom) ==
  IF h < -BinSize(0) \/ h >= BinSize(0) THEN NoHeight ELSE h \div BinSize(zoom)

\* slice::chunk_by of the standard library, by cell: runs of equal cells.
AddToChunks(out, v) ==
  IF out # <<>> /\ Last(Last(out)).cell = v.cell
  THEN Append(Front(out), Append(Last(out), v))
  ELSE Append(out, <<v>>)
ChunkByCell(vs) ==
  LET chunks[n \in 0 .. Len(vs)] ==
        IF n = 0 THEN <<>> ELSE AddToChunks(chunks[n - 1], vs[n])
  IN chunks[Len(vs)]

---------------------------------------------------------------------------
(* check_voxel_canonical *)

\* Mutant of Separate: intervals of one cell may touch.
SeparateOrTouching(prev, v) ==
  IF prev.cell = v.cell THEN VoxelLo(v) >= VoxelHi(prev)
  ELSE RangeMax(prev.cell) < RangeMin(v.cell)

\* Neighbouring entries: intervals of one cell in order with a gap between them,
\* distinct cells in order and disjoint.
Separate(prev, v) ==
  IF prev.cell = v.cell THEN VoxelLo(v) > VoxelHi(prev)
  ELSE RangeMax(prev.cell) < RangeMin(v.cell)

\* An entry with even ends at a zoom other than the first can be written coarser.
IsCoarsest(v) == ~(v.zoom > 0 /\ v.min % 2 = 0 /\ v.max % 2 = 1)

CheckVoxelCanonical(vs) ==
  /\ Len(vs) \in 1 .. MaxCellSetEntries
  /\ \A k \in DOMAIN vs :
       /\ IsCellId(vs[k].cell) /\ VoxelBoundsOk(vs[k]) /\ IsCoarsest(vs[k])
       /\ k > 1 => Separate(vs[k - 1], vs[k])
  /\ LET groups == ChunkByCell(vs)
         HeightsOf(k) == [i \in DOMAIN groups[k] |-> Heights(groups[k][i])]
     IN \A k \in 1 .. Len(groups) - 3 :
          ~ /\ \A n \in k + 1 .. k + 3 : HeightsOf(n) = HeightsOf(k)
            /\ AreSiblings([n \in 1 .. 4 |-> groups[k + n - 1][1].cell])
  /\ \E k \in DOMAIN vs : ~IsFullHeight(vs[k])

---------------------------------------------------------------------------
\* voxel_set_contains: the cell that holds the leaf, then the height's bin at the
\* zoom of each of its entries.  None of it for a height out of range.
VoxelSetContains(vs, leaf, h) ==
  LET k == PartitionPoint(vs, {n \in DOMAIN vs : RangeMax(vs[n].cell) < leaf}) IN
    /\ FIndex(h, 0) # NoHeight
    /\ k < Len(vs) /\ RangeMin(vs[k + 1].cell) <= leaf
    /\ \E n \in k + 1 .. Len(vs) :
         /\ vs[n].cell = vs[k + 1].cell
         /\ vs[n].min <= FIndex(h, vs[n].zoom) /\ FIndex(h, vs[n].zoom) <= vs[n].max
=============================================================================
