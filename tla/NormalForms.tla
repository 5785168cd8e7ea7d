----------------------------- MODULE NormalForms -----------------------------
(***************************************************************************)
(* Whether what the verifier accepts of a list of cells or voxels is what  *)
(* a sender who normalises writes: Normalization beside the checks of      *)
(* Encodings, and both beside the sets of leaves and bins they stand for.  *)
(***************************************************************************)
EXTENDS Encodings, Normalization

CONSTANT Faces        \* the faces the entries are on

\* The cells of those faces, their leaves, and the cells that lie wholly in a set of
\* leaves and in no larger such cell.
AllCells == {id \in 1 .. 6 * 2 ^ PosBits - 1 : IsCellId(id) /\ id \div 2 ^ PosBits \in Faces}
LeavesIn == [c \in AllCells |-> LeavesOf(c)]
MaximalIn(leaves) ==
  {c \in AllCells : /\ LeavesIn[c] \subseteq leaves
                    /\ Level(c) = 0 \/ ~(LeavesIn[Parent(c, Level(c) - 1)] \subseteq leaves)}

\* The cells on which the heights are constant and not nothing, and that lie in
\* no larger such cell.
Constant(hs, c) == hs[RangeMin(c)] # {} /\ \A l \in LeavesIn[c] : hs[l] = hs[RangeMin(c)]
MaximalConstant(hs) ==
  {c \in AllCells : Constant(hs, c) /\ (Level(c) = 0 \/ ~Constant(hs, Parent(c, Level(c) - 1)))}

\* All entries with the heights [lo, hi), and the one with the lowest zoom.
EntriesOf(c, lo, hi) ==
  {v \in [cell : {c}, zoom : 0 .. MaxFZoom, min : Bins, max : Bins] :
     VoxelBoundsOk(v) /\ VoxelLo(v) = lo /\ VoxelHi(v) = hi}
Coarsest(c, lo, hi) ==
  CHOOSE v \in EntriesOf(c, lo, hi) : \A w \in EntriesOf(c, lo, hi) : v.zoom <= w.zoom

\* The maximal intervals of a set of bins.
Intervals(bins) ==
  {iv \in bins \X {h + 1 : h \in bins} :
     /\ iv[1] < iv[2] /\ iv[1] .. iv[2] - 1 \subseteq bins
     /\ iv[1] - 1 \notin bins /\ iv[2] \notin bins}

AllLeaves == UNION {LeavesIn[c] : c \in AllCells}
VoxelsCovering(vs) ==
  LET hs == [l \in AllLeaves |-> BinsOf(vs, {k \in DOMAIN vs : l \in LeavesIn[vs[k].cell]})]
  IN UNION {{Coarsest(c, iv[1], iv[2]) : iv \in Intervals(hs[RangeMin(c)])} :
              c \in MaximalConstant(hs)}

Valid(vs) ==
  vs # <<>> /\ \A k \in DOMAIN vs : IsCellId(vs[k].cell) /\ VoxelBoundsOk(vs[k])

---------------------------------------------------------------------------
(* Properties *)

\* A region has one normal form, whichever cells or voxels it is written with
\* and in which order: the maximal cells in it, and over heights the maximal
\* cells of constant height with their maximal intervals, each at the coarsest
\* zoom (src/s2.rs normalize, normalize_voxels).
OneNormalForm ==
  input.kind = "entries" /\ Valid(input.list) =>
    LET cells  == Normalize(Cells(input.list))
        voxels == NormalizeVoxels(input.list)
    IN /\ \A k \in 2 .. Len(cells) : cells[k - 1] < cells[k]
       /\ ToSet(cells) = MaximalIn(Covered(Cells(input.list)))
       /\ \A k \in 2 .. Len(voxels) :
            \/ voxels[k - 1].cell < voxels[k].cell
            \/ voxels[k - 1].cell = voxels[k].cell /\ VoxelLo(voxels[k - 1]) < VoxelLo(voxels[k])
       /\ ToSet(voxels) = VoxelsCovering(input.list)

\* The verifier never normalises, but what it lets through is exactly what is
\* normal, so one region has one digest: its checks look at neighbours only, and
\* reject whatever a normalisation would change (src/s2.rs check_canonical,
\* check_voxel_canonical, src/verify.rs add_cell_set_shape).
CanonicalIsNormal ==
  input.kind = "entries" =>
    LET vs  == input.list
        ids == Cells(vs)
        Listable == Len(vs) \in 1 .. MaxCellSetEntries
    IN /\ IsValid(CellSetShape([type |-> "cellset", area |-> ids])) <=>
            Listable /\ (\A k \in DOMAIN ids : IsCellId(ids[k])) /\ Normalize(ids) = ids
       /\ IsValid(CellSetShape([type |-> "voxelset", area |-> vs])) <=>
            /\ Listable /\ Valid(vs) /\ NormalizeVoxels(vs) = vs
            /\ \E k \in DOMAIN vs : ~IsFullHeight(vs[k])
=============================================================================
