------------------------------- MODULE CellSet -------------------------------
(***************************************************************************)
(* S2 cell ids, the Hilbert curve and canonical cell sets, translated from *)
(* the first half of src/s2.rs.  A cell id is the number it is on the      *)
(* wire; the shifts and masks of the code are written as arithmetic, and   *)
(* MaxLevel, LookupBits and Lookups (30, 4 and 8 in the code) give the     *)
(* width.  A direction has integer components, on which the quadratic      *)
(* projection is exact: x <= sqrt(y) is x^2 <= y, and floor is the largest *)
(* number below.                                                           *)
(***************************************************************************)
EXTENDS Integers, SequencesExt

CONSTANTS MaxLevel,           \* deepest level
          LookupBits,         \* bits of i and of j one table lookup consumes
          Lookups,            \* lookups of face_ij_to_leaf
          MaxCellSetEntries   \* MAX_CELL_SET_ENTRIES

\* The first lookup starts with bits i and j do not have.  They must be an even
\* number, since each swaps the axes (32 and 30 in the code).
ASSUME CellAssumption ==
  /\ MaxLevel \in Nat /\ LookupBits \in Nat \ {0} /\ Lookups \in Nat
  /\ LookupBits * Lookups >= MaxLevel
  /\ (LookupBits * Lookups - MaxLevel) % 2 = 0
  /\ MaxCellSetEntries \in Nat

PosBits == 2 * MaxLevel + 1

---------------------------------------------------------------------------
(* Ids and their hierarchy *)

\* The lowest set bit, 0 for 0.
Lsb(id) ==
  IF id = 0 THEN 0
  ELSE CHOOSE b \in {2 ^ k : k \in 0 .. PosBits + 2} : id % b = 0 /\ id % (2 * b) # 0

\* is_valid: a face 0 to 5, and the lowest bit at an even position.
IsCellId(id) ==
  /\ id \div 2 ^ PosBits < 6
  /\ Lsb(id) \in {2 ^ (2 * k) : k \in 0 .. MaxLevel}

Level(id) == MaxLevel - (CHOOSE k \in 0 .. MaxLevel : 2 ^ (2 * k) = Lsb(id))

RangeMin(id) == id - (Lsb(id) - 1)
RangeMax(id) == id + (Lsb(id) - 1)

CellContains(a, b) == RangeMin(a) <= b /\ b <= RangeMax(a)

\* (id & -l) | l: the bits below l are dropped and l itself is set.
Parent(id, lev) ==
  LET l == 2 ^ (2 * (MaxLevel - lev)) IN ((id \div (2 * l)) * 2 * l) + l

Children(id) ==
  LET l     == Lsb(id)
      first == (id - l) + (l \div 4)
  IN [k \in 1 .. 4 |-> first + ((k - 1) * (l \div 2))]

---------------------------------------------------------------------------
(* Points *)

\* The four quadrants in curve order, as 2i + j, under each orientation (1 swaps
\* the axes, 2 inverts them), and how the orientation changes in each.
PosToIJ == << <<0, 1, 3, 2>>, <<0, 2, 3, 1>>, <<3, 2, 0, 1>>, <<3, 1, 0, 2>> >>
PosToOrientation == <<1, 0, 0, 3>>

\* Exclusive or of two 2-bit numbers.
Xor2(a, b) == ((a + b) % 2) + 2 * (((a \div 2) + (b \div 2)) % 2)

\* One step of lookup_pos's fill: what a bit of i and one of j make of the curve
\* position and the orientation.
FillStep(t, i, j) ==
  LET k == CHOOSE n \in 1 .. 4 : PosToIJ[t.orient + 1][n] = 2 * i + j
  IN [pos |-> 4 * t.pos + (k - 1), orient |-> Xor2(t.orient, PosToOrientation[k])]

\* lookup_pos: the table entry of LookupBits bits of i and j, the high ones first,
\* and an orientation: the curve position and the orientation it leaves.
Fill(i, j, orient) ==
  LET Bit(n, level) == (n \div 2 ^ (LookupBits - level)) % 2
      fill[level \in 0 .. LookupBits] ==
        IF level = 0 THEN [pos |-> 0, orient |-> orient]
        ELSE FillStep(fill[level - 1], Bit(i, level), Bit(j, level))
  IN fill[LookupBits]

LookupBlock == 0 .. 2 ^ LookupBits - 1
LookupPos == [key \in LookupBlock \X LookupBlock \X (0 .. 3) |-> Fill(key[1], key[2], key[3])]

\* Mutant of CurveStep: every lookup starts in the same orientation.
CurveStepUnturned(acc, t) ==
  [n |-> (acc.n * 2 ^ (2 * LookupBits)) + t.pos, orient |-> acc.orient]

\* One lookup's part of the curve position, and the orientation it hands on.
CurveStep(acc, t) ==
  [n |-> (acc.n * 2 ^ (2 * LookupBits)) + t.pos, orient |-> t.orient]

\* face_ij_to_leaf: the lookups from the high bits of i and j down.
CurveWalk(face, i, j) ==
  LET Bits(n, k) == (n \div 2 ^ (LookupBits * (Lookups - k))) % 2 ^ LookupBits
      Look(acc, k) == CurveStep(acc, LookupPos[<<Bits(i, k), Bits(j, k), acc.orient>>])
      walk[k \in 0 .. Lookups] ==
        IF k = 0 THEN [n |-> 0, orient |-> face % 2] ELSE Look(walk[k - 1], k)
  IN walk[Lookups].n
FaceIJToLeaf(face, i, j) == (((face * 2 ^ (PosBits - 1)) + CurveWalk(face, i, j)) * 2) + 1

\* leaf_from_xyz's face of a direction and (u, v) on it, each as a numerator and
\* a denominator.
Magnitude(a) == IF a < 0 THEN -a ELSE a
FaceOf(x, y, z) ==
  LET ax == Magnitude(x)
      ay == Magnitude(y)
      az == Magnitude(z)
      axis == CASE ax > ay /\ ax > az -> 0 [] ~(ax > ay) /\ ay > az -> 1 [] OTHER -> 2
  IN IF (<<x, y, z>>)[axis + 1] < 0 THEN axis + 3 ELSE axis
FaceUV(x, y, z) ==
  LET face == FaceOf(x, y, z)
  IN CASE face = 0 -> [u |-> <<y, x>>,  v |-> <<z, x>>]
       [] face = 1 -> [u |-> <<-x, y>>, v |-> <<z, y>>]
       [] face = 2 -> [u |-> <<-x, z>>, v |-> <<-y, z>>]
       [] face = 3 -> [u |-> <<z, x>>,  v |-> <<y, x>>]
       [] face = 4 -> [u |-> <<z, y>>,  v |-> <<-x, y>>]
       [] face = 5 -> [u |-> <<-y, z>>, v |-> <<-x, z>>]

\* st_to_ij of uv_to_st: the column of u = n / d (with d > 0) among 2^MaxLevel.
GridIndex(n, d) ==
  LET size == 2 ^ MaxLevel
      Below(m) ==   \* m / size <= uv_to_st(n / d)
        IF n >= 0 THEN 4 * m * m * d <= size * size * (d + 3 * n)
        ELSE 4 * (size - m) * (size - m) * d >= size * size * (d - 3 * n)
  IN CHOOSE m \in 0 .. size - 1 : Below(m) /\ (m < size - 1 => ~Below(m + 1))

\* leaf_from_xyz, for a direction that is not zero.
Positive(q) == IF q[2] < 0 THEN <<-q[1], -q[2]>> ELSE q
LeafFromXYZ(x, y, z) ==
  LET u == Positive(FaceUV(x, y, z).u)
      v == Positive(FaceUV(x, y, z).v)
  IN FaceIJToLeaf(FaceOf(x, y, z), GridIndex(u[1], u[2]), GridIndex(v[1], v[2]))

---------------------------------------------------------------------------
(* Cell sets *)

\* are_siblings: four sorted disjoint cells that are all the children of one.
AreSiblings(four) ==
  LET l == Level(four[1]) IN
    /\ l > 0
    /\ \A k \in 1 .. 4 :
         Level(four[k]) = l /\ Parent(four[k], l - 1) = Parent(four[1], l - 1)

CheckCanonical(ids) ==
  /\ Len(ids) \in 1 .. MaxCellSetEntries
  /\ \A k \in DOMAIN ids :
       /\ IsCellId(ids[k])
       /\ k > 1 => RangeMax(ids[k - 1]) < RangeMin(ids[k])
       /\ k > 3 => ~AreSiblings(SubSeq(ids, k - 3, k))

\* slice::partition_point of the standard library, given the positions at which the
\* predicate holds, which all come first.
PartitionPoint(s, holds) == CHOOSE n \in 0 .. Len(s) : holds = 1 .. n

\* Mutant of CellSetContainsLeaf: the search ends on the cell before the leaf.
CellSetContainsLeafAtId(ids, leaf) ==
  LET k == PartitionPoint(ids, {n \in DOMAIN ids : ids[n] < leaf})
  IN k < Len(ids) /\ RangeMin(ids[k + 1]) <= leaf

CellSetContainsLeaf(ids, leaf) ==
  LET k == PartitionPoint(ids, {n \in DOMAIN ids : RangeMax(ids[n]) < leaf})
  IN k < Len(ids) /\ RangeMin(ids[k + 1]) <= leaf
=============================================================================
