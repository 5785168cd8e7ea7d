---------------------------- MODULE Normalization ----------------------------
(***************************************************************************)
(* How a list of cells or voxels is brought into its normal form, the      *)
(* parts of src/s2.rs a sender runs: the verifier only checks that what it *)
(* is given is normal (CellSet, VoxelSet).                                 *)
(***************************************************************************)
EXTENDS VoxelSet

\* normalize: one pass over the sorted ids, on a stack of disjoint cells.
RECURSIVE DropInside(_, _)
DropInside(out, id) ==
  IF out # <<>> /\ CellContains(id, Last(out)) THEN DropInside(Front(out), id) ELSE out

RECURSIVE PushMerged(_, _)
PushMerged(out, id) ==
  LET n == Len(out) IN
    IF n >= 3 /\ AreSiblings(SubSeq(out, n - 2, n) \o <<id>>)
    THEN PushMerged(SubSeq(out, 1, n - 3), Parent(id, Level(id) - 1))
    ELSE Append(out, id)

Normalize(ids) ==
  LET Place(out, id) ==
        IF out # <<>> /\ CellContains(Last(out), id) THEN out
        ELSE PushMerged(DropInside(out, id), id)
  IN FoldLeft(Place, <<>>, SortSeq(ids, <))

---------------------------------------------------------------------------
(* normalize_voxels *)

\* Sorted intervals <<lo, hi>>, overlapping and touching ones joined.
MergeIntervals(ivs) ==
  LET Before(a, b) == a[1] < b[1] \/ (a[1] = b[1] /\ a[2] < b[2])
      Join(out, iv) ==
        IF out # <<>> /\ iv[1] <= Last(out)[2]
        THEN Append(Front(out),
                    <<Last(out)[1], IF iv[2] > Last(out)[2] THEN iv[2] ELSE Last(out)[2]>>)
        ELSE Append(out, iv)
  IN FoldLeft(Join, <<>>, SortSeq(ivs, Before))

\* An interval as one entry at the coarsest zoom that writes it: the first one
\* whose halving does not.
VoxelFromInterval(cell, iv) ==
  LET Halves(z) == iv[1] % BinSize(z - 1) = 0 /\ iv[2] % BinSize(z - 1) = 0
      zoom == CHOOSE z \in 0 .. MaxFZoom :
                /\ \A y \in z + 1 .. MaxFZoom : Halves(y)
                /\ z > 0 => ~Halves(z)
  IN [cell |-> cell, zoom |-> zoom,
      min |-> iv[1] \div BinSize(zoom), max |-> (iv[2] \div BinSize(zoom)) - 1]

\* The heights of a listed cell inside another listed one.
Inherited(heights, own) == MergeIntervals(heights \o own)

\* refine: split a cell around the listed cells strictly inside it.  `inner` is a
\* sequence of [cell, ivs], and so is the result.
RECURSIVE Refine(_, _, _)
Refine(cell, heights, inner) ==
  LET Part(child) ==
        LET sub == SelectSeq(inner, LAMBDA d : CellContains(child, RangeMin(d.cell)))
        IN CASE sub = <<>> -> <<[cell |-> child, ivs |-> heights]>>
             [] sub # <<>> /\ sub[1].cell = child ->
                  Refine(child, Inherited(heights, sub[1].ivs), Tail(sub))
             [] OTHER -> Refine(child, heights, sub)
      kids == Children(cell)
  IN IF inner = <<>> THEN <<[cell |-> cell, ivs |-> heights]>>
     ELSE Part(kids[1]) \o Part(kids[2]) \o Part(kids[3]) \o Part(kids[4])

\* The listed cells, ancestors before their descendants, each with its intervals.
ListedCells(vs) ==
  LET Before(a, b) ==
        \/ RangeMin(a.cell) < RangeMin(b.cell)
        \/ RangeMin(a.cell) = RangeMin(b.cell) /\ RangeMax(a.cell) > RangeMax(b.cell)
      groups == ChunkByCell(SortSeq(vs, Before))
  IN [k \in DOMAIN groups |->
        [cell |-> groups[k][1].cell,
         ivs  |-> MergeIntervals([i \in DOMAIN groups[k] |->
                    <<VoxelLo(groups[k][i]), VoxelHi(groups[k][i])>>])]]

\* The disjoint cells the listed ones are split into.
RECURSIVE Parts(_)
Parts(cells) ==
  IF cells = <<>> THEN <<>>
  ELSE LET top   == cells[1]
           Inside(d) == RangeMin(d.cell) <= RangeMax(top.cell)
       IN Refine(top.cell, top.ivs, SelectSeq(Tail(cells), Inside))
          \o Parts(SelectSeq(Tail(cells), LAMBDA d : ~Inside(d)))

\* Mutant of PushPart: siblings are merged whatever their heights.
RECURSIVE PushPartAnyHeights(_, _, _)
PushPartAnyHeights(out, cell, ivs) ==
  LET n == Len(out) IN
    IF /\ n >= 3
       /\ AreSiblings([k \in 1 .. 4 |-> IF k < 4 THEN out[n - 3 + k].cell ELSE cell])
    THEN PushPartAnyHeights(SubSeq(out, 1, n - 3), Parent(cell, Level(cell) - 1), ivs)
    ELSE Append(out, [cell |-> cell, ivs |-> ivs])

RECURSIVE PushPart(_, _, _)
PushPart(out, cell, ivs) ==
  LET n == Len(out) IN
    IF /\ n >= 3
       /\ AreSiblings([k \in 1 .. 4 |-> IF k < 4 THEN out[n - 3 + k].cell ELSE cell])
       /\ \A k \in n - 2 .. n : out[k].ivs = ivs
    THEN PushPart(SubSeq(out, 1, n - 3), Parent(cell, Level(cell) - 1), ivs)
    ELSE Append(out, [cell |-> cell, ivs |-> ivs])

NormalizeVoxels(vs) ==
  LET merged == FoldLeft(LAMBDA out, p : PushPart(out, p.cell, p.ivs), <<>>,
                         Parts(ListedCells(vs)))
      Spelled(out, p) == out \o [k \in DOMAIN p.ivs |-> VoxelFromInterval(p.cell, p.ivs[k])]
  IN FoldLeft(Spelled, <<>>, merged)
=============================================================================
