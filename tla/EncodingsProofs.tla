--------------------------- MODULE EncodingsProofs ---------------------------
(***************************************************************************)
(* What the checks on a sender's encodings promise for any messages,       *)
(* entries, claims, expectations and points, and for any depth of the cell *)
(* hierarchy and of the height grid.                                       *)
(*                                                                         *)
(* The argument, property by property.  Without groups the scan skips      *)
(* whatever the decoder takes, so it counts every copy of a listed field   *)
(* (ScanReachesAll), and of at most one copy the first is the last.  The   *)
(* checks of a report have different names, so an assertion is what each   *)
(* of them says (AssertedChecks), and two regions that match one           *)
(* expectation have its identifier and a type of the few it leaves         *)
(* (MatchedRegion, OneCity).  Cells whose neighbours share no leaf are     *)
(* apart pairwise (PairwiseApart), so what ends before a leaf comes first, *)
(* the binary search has one answer (PartitionFound), and only the cell    *)
(* after it can hold the leaf (SearchFinds), which is a number of the      *)
(* right form (LeafOfDirection).                                           *)
(*                                                                         *)
(* The curve is followed bit by bit: a lookup's table entry is a descent   *)
(* over its bits (FillDescends, BlockOfDescent), so the walk over the      *)
(* lookups ends where a descent over all bits does (WalkDescends).  Two    *)
(* descents are compared step by step (DescentsAlike): they are at one     *)
(* position exactly while their bits are the same, and where their         *)
(* positions follow each other the curve leaves one cell at the side at    *)
(* which it enters the other (Touch), which is the part that makes the     *)
(* claim about edges inductive (StepsTouch).  What a descent has after s   *)
(* steps fewer is the position divided by 4^s (PositionsOfAncestors), and  *)
(* so a parent is a square of columns and rows.  That columns and rows are *)
(* in the order of the coordinates is arithmetic on the fractions          *)
(* (GridIndexOrder).                                                       *)
(*                                                                         *)
(* A region is spelled in one way only (OneSpelling, OneVoxelSpelling).    *)
(* A cell is a size and a place, and each has a label: the same for all    *)
(* in a cell set, the heights of its entries in a voxel set.  Suppose a    *)
(* cell of one list held smaller cells of another with the same label at   *)
(* every leaf: of the smallest of them the three siblings would be listed  *)
(* with that label too, as neighbours, for nothing fits between them       *)
(* (NothingBetween), and four such neighbours are refused                  *)
(* (SiblingsMissing, NoSplit).  So each list has the cells of the other    *)
(* (ListedToo), and lists in order with the same members are the same      *)
(* (SameList).  The entries of one voxel cell are a row of intervals with  *)
(* gaps, which its heights determine (OneRow), and an interval is written  *)
(* at its coarsest zoom in one way (OneZoom).                              *)
(*                                                                         *)
(* A recursive function equals its definition once a function that obeys   *)
(* it exists: RecursionExists gives one, from the least number that would  *)
(* have none.                                                              *)
(***************************************************************************)
EXTENDS Encodings, FiniteSetTheorems, SequenceTheorems, WellFoundedInduction, TLAPS

---------------------------------------------------------------------------
(* Numbers *)

\* Every set of numbers that has a member has a least one.
LEMMA LeastNumber ==
  ASSUME NEW T, T \subseteq Nat, T # {}
  PROVE  \E m \in T : \A j \in T : m <= j
<1>1. PICK less : IsWellFoundedOn(less, Nat) /\ \A i, j \in Nat : i < j => <<i, j>> \in less
  <2> DEFINE less == OpToRel(<, Nat)
  <2>1. /\ IsWellFoundedOn(less, Nat)
        /\ \A i, j \in Nat : i < j => <<i, j>> \in less
    BY NatLessThanWellFounded DEF OpToRel
  <2> QED BY <2>1
<1>2. PICK m \in T : \A j \in T : ~(<<j, m>> \in less)
  <2>1. IsWellFoundedOn(less, Nat)
    BY <1>1
  <2> QED BY <2>1, WFMin, Zenon
<1>3. \A j \in T : m <= j
  <2> SUFFICES ASSUME NEW j \in T PROVE m <= j
    OBVIOUS
  <2>1. ~(j < m)
    BY <1>1, <1>2
  <2> QED BY <2>1
<1> QED BY <1>3

\* What holds at the start and after every step holds all the way.
LEMMA UpTo ==
  ASSUME NEW n \in Nat, NEW S, 0 \in S, \A k \in 1 .. n : k - 1 \in S => k \in S
  PROVE  0 .. n \subseteq S
<1> DEFINE out == {k \in 0 .. n : k \notin S}
<1>1. SUFFICES ASSUME out # {} PROVE FALSE
  OBVIOUS
<1>2. PICK m \in out : \A k \in out : m <= k
  <2>1. out \subseteq Nat
    OBVIOUS
  <2> HIDE DEF out
  <2> QED BY <2>1, <1>1, LeastNumber
<1>3. m \in 1 .. n
  OBVIOUS
<1>4. m - 1 \in 0 .. n /\ m - 1 \notin out
  BY <1>2, <1>3
<1> QED BY <1>3, <1>4

\* A power of two is positive: it is the number of subsets of an interval.
LEMMA PowerOfTwo ==
  ASSUME NEW k \in Nat
  PROVE  2 ^ k \in Nat \ {0}
<1>1. IsFiniteSet(1 .. k) /\ Cardinality(1 .. k) = k
  <2>1. 1 \in Int /\ k \in Int
    OBVIOUS
  <2>2. IsFiniteSet(1 .. k) /\ Cardinality(1 .. k) = IF 1 > k THEN 0 ELSE k - 1 + 1
    BY <2>1, FS_Interval
  <2> QED BY <2>2
<1>2. IsFiniteSet(SUBSET (1 .. k)) /\ Cardinality(SUBSET (1 .. k)) = 2 ^ k
  BY <1>1, FS_SUBSET
<1>3. {} \in SUBSET (1 .. k)
  OBVIOUS
<1>4. Cardinality(SUBSET (1 .. k)) \in Nat /\ Cardinality(SUBSET (1 .. k)) # 0
  BY <1>2, <1>3, FS_CardinalityType, FS_EmptySet
<1> QED BY <1>2, <1>4

\* A set of a + b numbers has a subset for every two subsets of its parts.
LEMMA PowerOfSum ==
  ASSUME NEW a \in Nat, NEW b \in Nat
  PROVE  2 ^ (a + b) = 2 ^ a * 2 ^ b
<1> DEFINE A == 1 .. a
           B == a + 1 .. a + b
           C == 1 .. a + b
           f == [s \in SUBSET C |-> <<s \cap A, s \cap B>>]
<1>1. IsFiniteSet(A) /\ Cardinality(A) = a
  <2>1. 1 \in Int /\ a \in Int
    OBVIOUS
  <2>2. IsFiniteSet(1 .. a) /\ Cardinality(1 .. a) = IF 1 > a THEN 0 ELSE a - 1 + 1
    BY <2>1, FS_Interval
  <2> QED BY <2>2
<1>2. IsFiniteSet(B) /\ Cardinality(B) = b
  <2>1. a + 1 \in Int /\ a + b \in Int
    OBVIOUS
  <2>2. IsFiniteSet(B) /\ Cardinality(B) = IF a + 1 > a + b THEN 0 ELSE (a + b) - (a + 1) + 1
    BY <2>1, FS_Interval
  <2> HIDE DEF B
  <2> QED BY <2>2
<1>3. IsFiniteSet(C) /\ Cardinality(C) = a + b
  <2>1. 1 \in Int /\ a + b \in Int
    OBVIOUS
  <2>2. IsFiniteSet(C) /\ Cardinality(C) = IF 1 > a + b THEN 0 ELSE (a + b) - 1 + 1
    BY <2>1, FS_Interval
  <2> HIDE DEF C
  <2> QED BY <2>2
<1>4. A \cup B = C /\ A \cap B = {}
  OBVIOUS
<1> HIDE DEF A, B, C
<1>5. f \in [SUBSET C -> (SUBSET A) \X (SUBSET B)]
  OBVIOUS
<1>6. ASSUME NEW s \in SUBSET C, NEW t \in SUBSET C, f[s] = f[t] PROVE s = t
  <2>1. s \cap A = t \cap A /\ s \cap B = t \cap B
    BY <1>6
  <2> QED BY <2>1, <1>4
<1>7. ASSUME NEW p \in (SUBSET A) \X (SUBSET B) PROVE \E s \in SUBSET C : f[s] = p
  <2>1. PICK s \in SUBSET A, t \in SUBSET B : p = <<s, t>>
    OBVIOUS
  <2>2. s \cup t \in SUBSET C
    BY <1>4
  <2>3. (s \cup t) \cap A = s /\ (s \cup t) \cap B = t
    BY <1>4
  <2>4. f[s \cup t] = p
    BY <2>1, <2>2, <2>3
  <2> QED BY <2>2, <2>4
<1> DEFINE PA == SUBSET A
           PB == SUBSET B
           PC == SUBSET C
           PAB == PA \X PB
<1>8. ExistsBijection(PC, PAB)
  <2>1. /\ f \in [PC -> PAB]
        /\ \A s \in PC : \A t \in PC : f[s] = f[t] => s = t
        /\ \A p \in PAB : \E s \in PC : f[s] = p
    BY <1>5, <1>6, <1>7
  <2> HIDE DEF f, PA, PB, PC, PAB
  <2>2. f \in Bijection(PC, PAB)
    <3>1. IsInjective(f)
      BY <2>1 DEF IsInjective
    <3> QED BY <2>1, <3>1 DEF Bijection, Injection, Surjection
  <2> QED BY <2>2 DEF ExistsBijection
<1>9. /\ IsFiniteSet(PA) /\ Cardinality(PA) = 2 ^ a
      /\ IsFiniteSet(PB) /\ Cardinality(PB) = 2 ^ b
      /\ IsFiniteSet(PC) /\ Cardinality(PC) = 2 ^ (a + b)
  BY <1>1, <1>2, <1>3, FS_SUBSET
<1> HIDE DEF PA, PB, PC
<1>10. Cardinality(PAB) = 2 ^ (a + b)
  <2> HIDE DEF PAB
  <2> QED BY <1>8, <1>9, FS_Bijection
<1>11. Cardinality(PAB) = Cardinality(PA) * Cardinality(PB)
  BY <1>9, FS_Product
<1> QED BY <1>9, <1>10, <1>11

\* The powers of two that the steps of the curve use.
LEMMA SmallPowers == 2 ^ 0 = 1 /\ 2 ^ 1 = 2 /\ 2 ^ 2 = 4
OBVIOUS

\* What \div leaves over is less than the divisor.
LEMMA DivisionBounds ==
  ASSUME NEW a \in Int, NEW b \in Nat \ {0}
  PROVE  /\ a \div b \in Int /\ a % b \in 0 .. b - 1
         /\ (a \div b) * b <= a /\ a < ((a \div b) + 1) * b
<1>1. a = (a \div b) * b + (a % b) /\ a % b \in 0 .. b - 1 /\ a \div b \in Int
  OBVIOUS
<1>2. ((a \div b) + 1) * b = (a \div b) * b + b
  BY <1>1
<1> QED BY <1>1, <1>2

\* A quotient is the only number whose multiple leaves less than the divisor.
LEMMA QuotientIs ==
  ASSUME NEW a \in Int, NEW b \in Nat \ {0}, NEW q \in Int, NEW r \in 0 .. b - 1, a = q * b + r
  PROVE  a \div b = q
<1> DEFINE p == a \div b
<1>1. p \in Int /\ p * b <= a /\ a < (p + 1) * b
  BY DivisionBounds
<1>2. q * b <= a /\ a < (q + 1) * b
  <2>1. (q + 1) * b = q * b + b
    OBVIOUS
  <2> QED BY <2>1
<1> HIDE DEF p
<1>3. ASSUME NEW m \in Int, NEW n \in Int, m < n PROVE (m + 1) * b <= n * b
  <2>1. m + 1 <= n
    BY <1>3
  <2> QED BY <2>1
<1>4. ~(p < q)
  <2> SUFFICES ASSUME p < q PROVE FALSE
    OBVIOUS
  <2>1. (p + 1) * b <= q * b
    BY <1>1, <1>3
  <2>2. (p + 1) * b \in Int /\ q * b \in Int
    BY <1>1
  <2> QED BY <2>1, <2>2, <1>1, <1>2
<1>5. ~(q < p)
  <2> SUFFICES ASSUME q < p PROVE FALSE
    OBVIOUS
  <2>1. (q + 1) * b <= p * b
    BY <1>1, <1>3
  <2>2. (q + 1) * b \in Int /\ p * b \in Int
    BY <1>1
  <2> QED BY <2>1, <2>2, <1>1, <1>2
<1> QED BY <1>1, <1>4, <1>5 DEF p

\* Dividing twice is dividing by the product.
LEMMA DivideTwice ==
  ASSUME NEW x \in Int, NEW a \in Nat \ {0}, NEW b \in Nat \ {0}
  PROVE  (x \div a) \div b = x \div (a * b)
<1> DEFINE q == x \div a
           r == x % a
           p == q \div b
           s == q % b
<1>1. q \in Int /\ r \in 0 .. a - 1 /\ x = q * a + r
  OBVIOUS
<1> HIDE DEF q, r
<1>2. p \in Int /\ s \in 0 .. b - 1 /\ q = p * b + s
  BY <1>1
<1> HIDE DEF p, s
<1>3. x = p * (a * b) + (s * a + r)
  BY <1>1, <1>2
<1>4. s * a + r \in 0 .. a * b - 1 /\ a * b \in Nat \ {0}
  <2>1. s * a <= (b - 1) * a /\ 0 <= s * a /\ s * a \in Int
    BY <1>2
  <2>2. (b - 1) * a = a * b - a /\ a * b \in Nat
    OBVIOUS
  <2>3. a * b > 0
    OBVIOUS
  <2> QED BY <2>1, <2>2, <2>3, <1>1
<1>5. x \div (a * b) = p
  <2> DEFINE m == a * b
             u == s * a + r
  <2>1. m \in Nat \ {0} /\ u \in 0 .. m - 1 /\ x = p * m + u
    BY <1>3, <1>4
  <2> HIDE DEF m, u
  <2>2. x \div m = p
    BY <2>1, <1>2, QuotientIs
  <2> QED BY <2>2 DEF m
<1> QED BY <1>5 DEF p, q

\* A bit of a block of bits is that bit of the number.
LEMMA BitOfBlock ==
  ASSUME NEW y \in Int, NEW c \in Nat \ {0}, NEW d \in Nat \ {0}
  PROVE  ((y % (c * (2 * d))) \div c) % 2 = (y \div c) % 2
<1> DEFINE b == c * (2 * d)
           q == y \div b
           r == y % b
           s == r \div c
           u == r % c
<1>1. b \in Nat \ {0}
  <2>1. 2 * d \in Nat \ {0}
    OBVIOUS
  <2> QED BY <2>1
<1>2. b = c * (2 * d)
  OBVIOUS
<1> HIDE DEF b
<1>3. q \in Int /\ r \in 0 .. b - 1 /\ y = q * b + r
  BY <1>1
<1> HIDE DEF q, r
<1>4. s \in Int /\ u \in 0 .. c - 1 /\ r = s * c + u
  BY <1>3
<1> HIDE DEF s, u
<1>5. y = (2 * (q * d) + s) * c + u
  BY <1>2, <1>3, <1>4
<1>6. y \div c = 2 * (q * d) + s
  <2> DEFINE w == 2 * (q * d) + s
  <2>1. w \in Int /\ y = w * c + u
    BY <1>3, <1>4, <1>5
  <2> HIDE DEF w
  <2>2. y \div c = w
    BY <2>1, <1>4, QuotientIs
  <2> QED BY <2>2 DEF w
<1>7. (2 * (q * d) + s) % 2 = s % 2
  <2> DEFINE w == q * d
  <2>1. w \in Int
    BY <1>3
  <2> HIDE DEF w
  <2>2. (2 * w + s) % 2 = s % 2
    BY <2>1, <1>4
  <2> QED BY <2>2 DEF w
<1> QED BY <1>6, <1>7 DEF s, r, b

\* A function on 0 .. n that starts at `base` and takes every value to the next by a
\* given step exists: with the least n that had none, the one before would do.
Recursion(n, S, base, step) ==
  \E f \in [0 .. n -> S] : f[0] = base /\ \A k \in 1 .. n : f[k] = step[<<k, f[k - 1]>>]

LEMMA RecursionExists ==
  ASSUME NEW n \in Nat, NEW S, NEW base \in S, NEW step \in [(1 .. n) \X S -> S]
  PROVE  Recursion(n, S, base, step)
<1> DEFINE Walks(m, f) ==
      f \in [0 .. m -> S] /\ f[0] = base /\ \A k \in 1 .. m : f[k] = step[<<k, f[k - 1]>>]
           Stuck == {m \in 0 .. n : ~ \E f : Walks(m, f)}
<1>1. Stuck = {}
  <2> SUFFICES ASSUME Stuck # {} PROVE FALSE
    OBVIOUS
  <2>1. PICK m \in Stuck : \A j \in Stuck : m <= j
    <3>1. Stuck \subseteq Nat
      OBVIOUS
    <3> HIDE DEF Stuck
    <3> QED BY <3>1, LeastNumber
  <2>2. m # 0
    <3>1. Walks(0, [k \in 0 .. 0 |-> base])
      OBVIOUS
    <3> QED BY <2>1, <3>1
  <2>3. PICK f : Walks(m - 1, f)
    BY <2>1, <2>2
  <2> DEFINE g == [k \in 0 .. m |-> IF k < m THEN f[k] ELSE step[<<m, f[m - 1]>>]]
  <2>4. f[m - 1] \in S /\ m \in 1 .. n
    BY <2>1, <2>2, <2>3
  <2>5. g \in [0 .. m -> S]
    BY <2>3, <2>4
  <2>6. g[0] = base
    BY <2>2, <2>3, <2>1
  <2>7. ASSUME NEW k \in 1 .. m PROVE g[k] = step[<<k, g[k - 1]>>]
    <3>1. g[k - 1] = f[k - 1] /\ k - 1 \in 0 .. m - 1
      BY <2>1
    <3>2. CASE k = m
      <4>1. g[m] = step[<<m, f[m - 1]>>]
        BY <2>1
      <4> HIDE DEF g
      <4> QED BY <4>1, <3>1, <3>2
    <3>3. CASE k # m
      <4>1. g[k] = f[k] /\ k \in 1 .. m - 1
        BY <3>3, <2>1
      <4> QED BY <4>1, <3>1, <2>3
    <3> QED BY <3>2, <3>3
  <2>8. Walks(m, g)
    BY <2>5, <2>6, <2>7
  <2> QED BY <2>1, <2>8
<1>2. n \in 0 .. n
  OBVIOUS
<1>3. \E f : Walks(n, f)
  BY <1>1, <1>2
<1> QED BY <1>3 DEF Recursion

---------------------------------------------------------------------------
(* The wire scan *)

\* Without groups the decoder is never inside one, and takes no end of one.
LEMMA NoDepth ==
  ASSUME NEW wire \in Seq(Elements), ~HasGroup(wire), Decodes(wire)
  PROVE  /\ \A n \in DOMAIN wire : wire[n].type # "endgroup"
         /\ \A n \in 0 .. Len(wire) : Depth(wire, n) = 0
<1> DEFINE Of(n, type) == {k \in 1 .. n : wire[k].type = type}
<1>1. \A n \in Nat : \A t : IsFiniteSet(Of(n, t))
  <2> SUFFICES ASSUME NEW n \in Nat, NEW t PROVE IsFiniteSet(Of(n, t))
    OBVIOUS
  <2>1. IsFiniteSet(1 .. n)
    BY FS_Interval
  <2> QED BY <2>1, FS_Subset
<1>2. \A n \in Nat : Depth(wire, n) = Cardinality(Of(n, "group")) - Cardinality(Of(n, "endgroup"))
  BY DEF Depth
<1>3. \A n \in 0 .. Len(wire) : Cardinality(Of(n, "group")) = 0
  <2> SUFFICES ASSUME NEW n \in 0 .. Len(wire) PROVE Cardinality(Of(n, "group")) = 0
    OBVIOUS
  <2>1. Of(n, "group") = {}
    BY DEF HasGroup
  <2> QED BY <2>1, FS_EmptySet
<1>4. ASSUME NEW n \in DOMAIN wire PROVE wire[n].type # "endgroup"
  <2> SUFFICES ASSUME wire[n].type = "endgroup" PROVE FALSE
    OBVIOUS
  <2>1. n \in Of(n, "endgroup") /\ n \in Nat /\ n \in 0 .. Len(wire)
    OBVIOUS
  <2>2. Cardinality(Of(n, "endgroup")) \in Nat /\ Cardinality(Of(n, "endgroup")) # 0
    <3> HIDE DEF Of
    <3> QED BY <2>1, <1>1, FS_CardinalityType, FS_EmptySet
  <2>3. Depth(wire, n) >= 0
    BY DEF Decodes
  <2>4. Cardinality(Of(n, "group")) = 0
    BY <2>1, <1>3
  <2>5. Depth(wire, n) = 0 - Cardinality(Of(n, "endgroup"))
    BY <2>1, <2>4, <1>2
  <2> HIDE DEF Of
  <2> QED BY <2>2, <2>3, <2>5
<1>5. ASSUME NEW n \in 0 .. Len(wire) PROVE Depth(wire, n) = 0
  <2>1. Of(n, "endgroup") = {}
    BY <1>4
  <2>2. Cardinality(Of(n, "endgroup")) = 0 /\ Cardinality(Of(n, "group")) = 0
    BY <2>1, <1>3, FS_EmptySet
  <2>3. Depth(wire, n) = Cardinality(Of(n, "group")) - Cardinality(Of(n, "endgroup"))
    BY <1>2
  <2> HIDE DEF Of
  <2> QED BY <2>2, <2>3
<1> QED BY <1>4, <1>5

\* So the scan gets to the end of what it accepts, and every element is a copy.
LEMMA ScanReachesAll ==
  ASSUME NEW wire \in Seq(Elements), ~HasGroup(wire), Decodes(wire)
  PROVE  /\ TopLevel(wire) = DOMAIN wire
         /\ \A n \in DOMAIN wire : Reached(wire, n) /\ Countable(wire[n])
<1>1. ASSUME NEW n \in DOMAIN wire PROVE Countable(wire[n]) /\ Skippable(wire[n])
  <2>1. wire[n].type \in ElementTypes
    BY EncodingsAssumption
  <2>2. Countable(wire[n]) /\ wire[n].body # Cut /\ wire[n].type # "invalid"
    BY DEF Decodes
  <2>3. wire[n].type \notin {"group", "endgroup", "cut"}
    BY <2>2, NoDepth DEF HasGroup, Countable
  <2> QED BY <2>1, <2>2, <2>3 DEF ElementTypes, Skippable
<1>2. ASSUME NEW n \in DOMAIN wire PROVE Reached(wire, n)
  BY <1>1 DEF Reached
<1>3. ASSUME NEW n \in DOMAIN wire PROVE n \in TopLevel(wire)
  <2>1. Depth(wire, n - 1) = 0
    BY NoDepth
  <2> QED BY <2>1 DEF TopLevel, HasGroup
<1>4. TopLevel(wire) \subseteq DOMAIN wire
  BY DEF TopLevel
<1> QED BY <1>1, <1>2, <1>3, <1>4

\* A reader of the first copy of a listed field sees what the decoder kept.
LEMMA OneCopyOneReading ==
  ASSUME NEW wire \in Seq(Elements), ~HasGroup(wire), Accepted(wire), NEW f \in SingularFields
  PROVE  ReadFirst(wire, f) = Decoded(wire, f)
<1> DEFINE at == {n \in DOMAIN wire : wire[n].field = f}
           all == Copies(wire, f)
<1>1. Decodes(wire) /\ DuplicateSingularFields(wire) = {}
  BY DEF Accepted, WireCheck, Check
<1>2. at = {n \in TopLevel(wire) : wire[n].field = f}
  BY <1>1, ScanReachesAll
<1>3. Count(wire, f) = Cardinality(at)
  <2>1. at = {n \in DOMAIN wire : Reached(wire, n) /\ Countable(wire[n]) /\ wire[n].field = f}
    BY <1>1, ScanReachesAll
  <2> QED BY <2>1 DEF Count
<1>4. Cardinality(at) \in {0, 1}
  <2>1. ~(Count(wire, f) > 1)
    BY <1>1 DEF DuplicateSingularFields
  <2>2. IsFiniteSet(at)
    <3>1. IsFiniteSet(1 .. Len(wire)) /\ at \subseteq 1 .. Len(wire)
      BY FS_Interval
    <3> QED BY <3>1, FS_Subset
  <2>3. Cardinality(at) \in Nat
    BY <2>2, FS_CardinalityType
  <2> HIDE DEF at
  <2> QED BY <2>1, <2>3, <1>3
<1>5. PICK g : all = [k \in 1 .. Cardinality(at) |-> g[k]]
  <2> DEFINE top == {n \in TopLevel(wire) : wire[n].field = f}
             Nth(k) == CHOOSE n \in top : Cardinality({m \in top : m <= n}) = k
             g == [k \in 1 .. Cardinality(top) |-> wire[Nth(k)].body]
  <2>1. all = g
    BY DEF Copies
  <2>2. g = [k \in 1 .. Cardinality(top) |-> g[k]]
    OBVIOUS
  <2> HIDE DEF g, top, all
  <2>3. top = at
    BY <1>2 DEF top
  <2> QED BY <2>1, <2>2, <2>3
<1> HIDE DEF at, all
<1>6. CASE Cardinality(at) = 0
  <2>1. all = <<>>
    BY <1>5, <1>6
  <2> QED BY <2>1 DEF Decoded, ReadFirst, all
<1>7. CASE Cardinality(at) = 1
  <2>1. all = [k \in 1 .. 1 |-> g[k]]
    BY <1>5, <1>7
  <2>2. all = <<all[1]>> /\ all # <<>> /\ Len(all) = 1
    BY <2>1
  <2> QED BY <2>2 DEF Decoded, ReadFirst, all
<1> QED BY <1>4, <1>6, <1>7

---------------------------------------------------------------------------
(* Expectations *)

\* What is asserted of a region is what its checks of the report say.
LEMMA AssertedChecks ==
  ASSUME NEW r, NEW e
  PROVE  Asserted(r, e) <=>
           /\ e["region"] # None \/ e["type"] # None \/ e["point"] # None
           /\ RegionClaim(r, e.region) = "pass"
           /\ e.type # None => RegionType(r, e.type) = "pass"
           /\ e.point # None => RegionContains(r, e.point, e.height) = "pass"
<1> DEFINE checks == RegionChecks(r, e)
           Claim == Check("region-claim", RegionClaim(r, e.region))
           Typed == {Check("region-type", RegionType(r, t)) : t \in {e.type} \ {None}}
           Inside == {Check("region-contains", RegionContains(r, p, e.height)) :
                        p \in {e.point} \ {None}}
<1>1. checks = {Claim} \cup Typed \cup Inside \cup CellSetShape(r)
  BY DEF RegionChecks
<1>2. \A c \in CellSetShape(r) : c.name \in {"cell-set", "voxel-set"}
  BY DEF CellSetShape, Check
<1>3. Claim.name = "region-claim" /\ Claim.status = RegionClaim(r, e.region)
  BY DEF Check
<1>4. \A c \in Typed : c.name = "region-type" /\ c.status = RegionType(r, e.type) /\ e.type # None
  BY DEF Check
<1>5. \A c \in Inside : /\ c.name = "region-contains" /\ e.point # None
                        /\ c.status = RegionContains(r, e.point, e.height)
  BY DEF Check
<1>6. e.type # None => \E c \in Typed : TRUE
  OBVIOUS
<1>7. e.point # None => \E c \in Inside : TRUE
  OBVIOUS
<1>8. HasStatus(checks, "region-claim", "pass") <=> RegionClaim(r, e.region) = "pass"
  <2>1. HasStatus(checks, "region-claim", "pass") => RegionClaim(r, e.region) = "pass"
    <3> SUFFICES ASSUME Check("region-claim", "pass") \in checks
                 PROVE  RegionClaim(r, e.region) = "pass"
      BY DEF HasStatus
    <3> DEFINE c == Check("region-claim", "pass")
    <3>1. c.name = "region-claim" /\ c.status = "pass"
      BY DEF Check
    <3> HIDE DEF c, Claim, Typed, Inside, checks
    <3>2. c = Claim
      BY <3>1, <1>1, <1>2, <1>4, <1>5 DEF c
    <3> QED BY <3>1, <3>2, <1>3
  <2>2. RegionClaim(r, e.region) = "pass" => HasStatus(checks, "region-claim", "pass")
    BY <1>1 DEF HasStatus
  <2> QED BY <2>1, <2>2
<1>9. (\A c \in checks : c.name \in {"region-type", "region-contains"} => c.status = "pass") <=>
        /\ e.type # None => RegionType(r, e.type) = "pass"
        /\ e.point # None => RegionContains(r, e.point, e.height) = "pass"
  <2> HIDE DEF Claim, Typed, Inside, checks
  <2> QED BY <1>1, <1>2, <1>3, <1>4, <1>5, <1>6, <1>7
<1>10. (\E f \in {"region", "type", "point"} : e[f] # None) <=>
         e["region"] # None \/ e["type"] # None \/ e["point"] # None
  OBVIOUS
<1> QED BY <1>8, <1>9, <1>10 DEF Asserted, RegionAsserted

\* A region that an expectation accepts has the identifier it names and a type it
\* leaves room for, and a prefix leaves room for one.
LEMMA MatchedRegion ==
  ASSUME NEW r, NEW want, MatchExpectedRegion(r, want) = "pass"
  PROVE  r.type \in WantedTypes(want) /\ EqIgnoreCase(r.id, WantedId(want))
BY DEF MatchExpectedRegion

\* What an expectation leaves room for is cities only, or no city.
LEMMA OneCity ==
  ASSUME NEW want, NEW a \in WantedTypes(want), NEW b \in WantedTypes(want)
  PROVE  a = "city" <=> b = "city"
BY DEF WantedTypes, TypePrefix

\* What an expectation accepts, with nothing asked about a point.
LEMMA ExpectationOfOne ==
  ASSUME NEW r, NEW e \in Expectations, Asserted(r, e)
  PROVE  /\ e.type # None => Lower[e.type] = r.type
         /\ e.type = None => e.region # None
         /\ e.region # None => \A other \in Claims : Asserted(other, e) =>
              /\ EqIgnoreCase(other.id, r.id)
              /\ other.type = "city" <=> r.type = "city"
<1>1. e.point = None
  BY DEF Expectations
<1>2. e.type # None => Lower[e.type] = r.type
  BY AssertedChecks DEF RegionType
<1>3. e.type = None => e.region # None
  BY AssertedChecks, <1>1
<1>4. ASSUME e.region # None, NEW other \in Claims, Asserted(other, e)
      PROVE  /\ EqIgnoreCase(other.id, r.id)
             /\ other.type = "city" <=> r.type = "city"
  <2>1. MatchExpectedRegion(r, e.region) = "pass" /\ MatchExpectedRegion(other, e.region) = "pass"
    BY <1>4, AssertedChecks DEF RegionClaim
  <2>2. /\ r.type \in WantedTypes(e.region) /\ EqIgnoreCase(r.id, WantedId(e.region))
        /\ other.type \in WantedTypes(e.region) /\ EqIgnoreCase(other.id, WantedId(e.region))
    BY <2>1, MatchedRegion
  <2>3. EqIgnoreCase(other.id, r.id)
    BY <2>2 DEF EqIgnoreCase
  <2> QED BY <2>2, <2>3, OneCity
<1> QED BY <1>2, <1>3, <1>4

---------------------------------------------------------------------------
(* The search over leaf ranges *)

\* A cell has a range of leaves with the cell in it.
LEMMA CellRange ==
  ASSUME NEW c \in Nat, IsCellId(c)
  PROVE  RangeMin(c) \in Int /\ RangeMax(c) \in Int /\ RangeMin(c) <= c /\ c <= RangeMax(c)
<1>1. PICK k \in 0 .. MaxLevel : Lsb(c) = 2 ^ (2 * k)
  BY DEF IsCellId
<1>2. 2 * k \in Nat
  BY CellAssumption
<1>3. Lsb(c) \in Nat \ {0}
  BY <1>1, <1>2, PowerOfTwo
<1> QED BY <1>3 DEF RangeMin, RangeMax

\* What neighbours are to each other, any two entries are: cells are the same or
\* follow each other without sharing a leaf.
LEMMA PairwiseApart ==
  ASSUME NEW n \in Nat, NEW c \in [1 .. n -> Nat],
         \A k \in 1 .. n : IsCellId(c[k]),
         \A k \in 2 .. n : c[k - 1] = c[k] \/ RangeMax(c[k - 1]) < RangeMin(c[k]),
         NEW i \in 1 .. n, NEW j \in i + 1 .. n
  PROVE  c[i] = c[j] \/ RangeMax(c[i]) < RangeMin(c[j])
<1> DEFINE Apart(m) == c[i] = c[m] \/ RangeMax(c[i]) < RangeMin(c[m])
           bad == {m \in i + 1 .. n : ~Apart(m)}
<1>1. SUFFICES ASSUME bad # {} PROVE FALSE
  OBVIOUS
<1>2. PICK m \in bad : \A l \in bad : m <= l
  <2>1. bad \subseteq Nat
    OBVIOUS
  <2> HIDE DEF bad
  <2> QED BY <2>1, <1>1, LeastNumber
<1>3. m \in 2 .. n /\ ~Apart(m)
  OBVIOUS
<1>4. c[m - 1] = c[m] \/ RangeMax(c[m - 1]) < RangeMin(c[m])
  BY <1>3
<1>5. CASE m - 1 = i
  BY <1>3, <1>4, <1>5
<1>6. CASE m - 1 # i
  <2>1. m - 1 \in i + 1 .. n /\ m - 1 \notin bad
    BY <1>2, <1>6
  <2>2. Apart(m - 1)
    BY <2>1
  <2>3. /\ RangeMax(c[i]) \in Int /\ RangeMin(c[m - 1]) \in Int /\ RangeMax(c[m - 1]) \in Int
        /\ RangeMin(c[m]) \in Int /\ RangeMin(c[m - 1]) <= RangeMax(c[m - 1])
    <3>1. c[i] \in Nat /\ c[m - 1] \in Nat /\ c[m] \in Nat
      BY <1>3, <2>1
    <3>2. IsCellId(c[i]) /\ IsCellId(c[m - 1]) /\ IsCellId(c[m])
      BY <1>3, <2>1
    <3>3. c[m - 1] \in Int
      BY <3>1
    <3>4. RangeMin(c[m - 1]) <= c[m - 1] /\ c[m - 1] <= RangeMax(c[m - 1])
      BY <3>1, <3>2, CellRange
    <3>5. /\ RangeMax(c[i]) \in Int /\ RangeMin(c[m - 1]) \in Int /\ RangeMax(c[m - 1]) \in Int
          /\ RangeMin(c[m]) \in Int
      BY <3>1, <3>2, CellRange
    <3> QED BY <3>3, <3>4, <3>5
  <2> QED BY <1>3, <1>4, <2>2, <2>3
<1> QED BY <1>5, <1>6

\* A partition point is one: where the positions at which the predicate holds come first.
LEMMA PartitionFound ==
  ASSUME NEW s, Len(s) \in Nat, NEW holds, holds \subseteq 1 .. Len(s),
         \A i \in holds : \A j \in 1 .. i : j \in holds
  PROVE  PartitionPoint(s, holds) \in 0 .. Len(s) /\ holds = 1 .. PartitionPoint(s, holds)
<1> DEFINE free == {n \in 1 .. Len(s) + 1 : n \notin holds}
<1>1. Len(s) + 1 \in free
  OBVIOUS
<1>2. PICK m \in free : \A n \in free : m <= n
  <2>1. free \subseteq Nat
    OBVIOUS
  <2> HIDE DEF free
  <2> QED BY <1>1, <2>1, LeastNumber
<1>3. m - 1 \in 0 .. Len(s)
  OBVIOUS
<1>4. holds = 1 .. m - 1
  <2>1. ASSUME NEW i \in holds PROVE i \in 1 .. m - 1
    <3>1. ~(m <= i)
      OBVIOUS
    <3> QED BY <3>1
  <2>2. ASSUME NEW i \in 1 .. m - 1 PROVE i \in holds
    <3>1. i \notin free /\ i \in 1 .. Len(s) + 1
      BY <1>2
    <3> QED BY <3>1
  <2> QED BY <2>1, <2>2
<1> HIDE DEF free
<1>5. \E n \in 0 .. Len(s) : holds = 1 .. n
  BY <1>3, <1>4
<1> QED BY <1>5 DEF PartitionPoint

\* The first cell whose range does not end before the leaf is the only one that can
\* hold it, with the entries of the same cell that follow.
Found(n, c, leaf, p) ==
  /\ p \in 0 .. n
  /\ p < n /\ RangeMin(c[p + 1]) <= leaf => CellContains(c[p + 1], leaf)
  /\ \A k \in 1 .. n : CellContains(c[k], leaf) =>
       /\ p < n /\ RangeMin(c[p + 1]) <= leaf
       /\ k \in p + 1 .. n /\ c[k] = c[p + 1]

\* Cells as a canonical set lists them.
Ordered(n, c) ==
  /\ \A k \in 1 .. n : IsCellId(c[k])
  /\ \A k \in 2 .. n : c[k - 1] = c[k] \/ RangeMax(c[k - 1]) < RangeMin(c[k])

\* The search over the ranges of such cells finds the one that holds the leaf.
LEMMA SearchFinds ==
  ASSUME NEW s, Len(s) \in Nat, NEW c \in [1 .. Len(s) -> Nat], Ordered(Len(s), c),
         NEW leaf \in Int, NEW holds, holds = {n \in 1 .. Len(s) : RangeMax(c[n]) < leaf},
         NEW p, p = PartitionPoint(s, holds)
  PROVE  Found(Len(s), c, leaf, p)
<1>1. \A k \in 1 .. Len(s) : /\ RangeMin(c[k]) \in Int /\ RangeMax(c[k]) \in Int
                            /\ RangeMin(c[k]) <= RangeMax(c[k])
  <2> SUFFICES ASSUME NEW k \in 1 .. Len(s)
               PROVE  /\ RangeMin(c[k]) \in Int /\ RangeMax(c[k]) \in Int
                      /\ RangeMin(c[k]) <= RangeMax(c[k])
    OBVIOUS
  <2>1. c[k] \in Nat /\ IsCellId(c[k]) /\ c[k] \in Int
    BY DEF Ordered
  <2> QED BY <2>1, CellRange
<1>2. \A i \in 1 .. Len(s) : \A j \in i + 1 .. Len(s) :
        c[i] = c[j] \/ RangeMax(c[i]) < RangeMin(c[j])
  BY PairwiseApart DEF Ordered
<1>3. p \in 0 .. Len(s) /\ holds = 1 .. p
  <2>1. holds \subseteq 1 .. Len(s)
    OBVIOUS
  <2>2. ASSUME NEW i \in holds, NEW j \in 1 .. i PROVE j \in holds
    <3>1. i \in 1 .. Len(s) /\ j \in 1 .. Len(s) /\ RangeMax(c[i]) < leaf
      OBVIOUS
    <3>2. CASE j = i
      BY <3>2
    <3>3. CASE j # i
      <4>1. i \in j + 1 .. Len(s)
        BY <3>1, <3>3
      <4>2. c[j] = c[i] \/ RangeMax(c[j]) < RangeMin(c[i])
        BY <4>1, <3>1, <1>2
      <4>3. RangeMax(c[j]) < leaf
        BY <4>2, <3>1, <1>1
      <4> QED BY <3>1, <4>3
    <3> QED BY <3>2, <3>3
  <2> QED BY <2>1, <2>2, PartitionFound
<1>4. ASSUME p < Len(s), RangeMin(c[p + 1]) <= leaf PROVE CellContains(c[p + 1], leaf)
  <2>1. p + 1 \in 1 .. Len(s) /\ p + 1 \notin holds
    <3>1. p \in Nat /\ p + 1 \in 1 .. Len(s) /\ p + 1 \notin 1 .. p
      BY <1>3, <1>4
    <3> QED BY <3>1, <1>3
  <2>2. ~(RangeMax(c[p + 1]) < leaf)
    BY <2>1
  <2> QED BY <1>4, <2>1, <2>2, <1>1 DEF CellContains
<1>5. ASSUME NEW n \in 1 .. Len(s), CellContains(c[n], leaf)
      PROVE  /\ p < Len(s) /\ RangeMin(c[p + 1]) <= leaf
             /\ n \in p + 1 .. Len(s) /\ c[n] = c[p + 1]
  <2>1. RangeMin(c[n]) <= leaf /\ leaf <= RangeMax(c[n])
    BY <1>5 DEF CellContains
  <2>2. n \notin holds
    BY <2>1, <1>1
  <2>3. n \in p + 1 .. Len(s) /\ p < Len(s) /\ p + 1 \in 1 .. Len(s) /\ p + 1 \notin holds
    <3>1. p \in Nat /\ p <= Len(s) /\ n \notin 1 .. p
      BY <2>2, <1>3
    <3>2. n \in p + 1 .. Len(s) /\ p < Len(s)
      BY <3>1
    <3>3. p + 1 \in 1 .. Len(s) /\ p + 1 \notin 1 .. p
      BY <3>1, <3>2
    <3> QED BY <3>2, <3>3, <1>3
  <2>4. ~(RangeMax(c[p + 1]) < leaf)
    BY <2>3
  <2>5. c[n] = c[p + 1]
    <3>1. CASE n = p + 1
      BY <3>1
    <3>2. CASE n # p + 1
      <4>1. n \in (p + 1) + 1 .. Len(s)
        BY <2>3, <3>2
      <4>2. c[p + 1] = c[n] \/ RangeMax(c[p + 1]) < RangeMin(c[n])
        BY <4>1, <2>3, <1>2
      <4> QED BY <4>2, <2>1, <2>3, <2>4, <1>1
    <3> QED BY <3>1, <3>2
  <2> QED BY <2>1, <2>3, <2>5
<1> QED BY <1>3, <1>4, <1>5 DEF Found

\* A height in range is in the bins of an entry exactly if its bin at the entry's zoom
\* is one of them.
LEMMA BinOfHeight ==
  ASSUME NEW v \in Voxels, VoxelBoundsOk(v), NEW h \in Bins
  PROVE  v.min <= FIndex(h, v.zoom) /\ FIndex(h, v.zoom) <= v.max <=>
           VoxelLo(v) <= h /\ h < VoxelHi(v)
<1> DEFINE b == BinSize(v.zoom)
           q == FIndex(h, v.zoom)
<1>1. v.zoom \in Nat /\ v.zoom <= MaxFZoom /\ v.min \in Int /\ v.max \in Int
  BY DEF Voxels, VoxelBoundsOk
<1>2. b \in Nat \ {0}
  <2>1. MaxFZoom - v.zoom \in Nat
    BY <1>1, VoxelAssumption
  <2> QED BY <2>1, PowerOfTwo DEF BinSize
<1>3. BinSize(0) \in Nat \ {0}
  BY VoxelAssumption, PowerOfTwo DEF BinSize
<1>4. h \in Int /\ q = h \div b
  BY <1>3 DEF Bins, FIndex
<1>5. q \in Int /\ q * b <= h /\ h < (q + 1) * b
  <2> HIDE DEF b, q
  <2> QED BY <1>2, <1>4, DivisionBounds
<1>6. VoxelLo(v) = v.min * b /\ VoxelHi(v) = (v.max + 1) * b
  BY DEF VoxelLo, VoxelHi
<1> HIDE DEF b, q
<1>7. ASSUME NEW m \in Int PROVE m <= q <=> m * b <= h
  <2>1. ASSUME m <= q PROVE m * b <= h
    <3>1. m * b <= q * b
      BY <2>1, <1>2, <1>5
    <3> QED BY <3>1, <1>2, <1>4, <1>5
  <2>2. ASSUME q < m PROVE h < m * b
    <3>1. (q + 1) * b <= m * b
      BY <2>2, <1>2, <1>5
    <3> QED BY <3>1, <1>2, <1>4, <1>5
  <2> QED BY <2>1, <2>2, <1>2, <1>4, <1>5
<1>8. v.min <= q <=> VoxelLo(v) <= h
  BY <1>1, <1>6, <1>7
<1>9. q <= v.max <=> h < VoxelHi(v)
  <2>1. v.max + 1 <= q <=> VoxelHi(v) <= h
    BY <1>1, <1>6, <1>7
  <2>2. VoxelHi(v) \in Int
    BY <1>1, <1>2, <1>6
  <2> QED BY <2>1, <2>2, <1>1, <1>4, <1>5
<1> QED BY <1>8, <1>9 DEF q

---------------------------------------------------------------------------
(* Bits *)

\* Of a number of n bits, the k highest and the last of those.
HighBits(x, n, k) == x \div 2 ^ (n - k)
BitOf(x, n, k) == HighBits(x, n, k) % 2

\* The k highest bits are the k - 1 highest with one more bit after them.
LEMMA NextBit ==
  ASSUME NEW x \in Int, NEW n \in Nat, NEW k \in 1 .. n
  PROVE  /\ HighBits(x, n, k) \in Int /\ HighBits(x, n, k - 1) \in Int
         /\ BitOf(x, n, k) \in 0 .. 1
         /\ HighBits(x, n, k) = 2 * HighBits(x, n, k - 1) + BitOf(x, n, k)
<1> DEFINE c == 2 ^ (n - k)
           y == x \div c
<1>1. n - k \in Nat /\ 1 \in Nat /\ (n - k) + 1 = n - (k - 1)
  OBVIOUS
<1>2. c \in Nat \ {0}
  BY <1>1, PowerOfTwo
<1>3. 2 ^ (n - (k - 1)) = c * 2
  <2>1. 2 ^ ((n - k) + 1) = 2 ^ (n - k) * 2 ^ 1
    BY <1>1, PowerOfSum
  <2> QED BY <2>1, <1>1, SmallPowers
<1>4. HighBits(x, n, k) = y /\ HighBits(x, n, k - 1) = x \div (c * 2) /\ BitOf(x, n, k) = y % 2
  BY <1>3 DEF HighBits, BitOf
<1> HIDE DEF c
<1>5. y \in Int
  BY <1>2, DivisionBounds
<1>6. x \div (c * 2) = y \div 2
  <2>1. 2 \in Nat \ {0}
    OBVIOUS
  <2>2. (x \div c) \div 2 = x \div (c * 2)
    BY <1>2, <2>1, DivideTwice, Zenon
  <2> QED BY <2>2
<1> HIDE DEF y
<1>7. y \div 2 \in Int /\ y % 2 \in 0 .. 1 /\ y = 2 * (y \div 2) + (y % 2)
  BY <1>5
<1> QED BY <1>4, <1>5, <1>6, <1>7

---------------------------------------------------------------------------
(* The curve, bit by bit *)

\* What a descent along the curve carries: a position and an orientation.
Turns == [pos : Int, orient : 0 .. 3]

\* The place of a quadrant on the curve, under an orientation.
QuadrantOf(orient, b, c) == CHOOSE n \in 1 .. 4 : PosToIJ[orient + 1][n] = 2 * b + c

\* Every pair of bits is a quadrant of every orientation.
LEMMA QuadrantFound ==
  ASSUME NEW orient \in 0 .. 3, NEW b \in 0 .. 1, NEW c \in 0 .. 1
  PROVE  /\ QuadrantOf(orient, b, c) \in 1 .. 4
         /\ PosToIJ[orient + 1][QuadrantOf(orient, b, c)] = 2 * b + c
<1>1. \E n \in 1 .. 4 : PosToIJ[orient + 1][n] = 2 * b + c
  <2> DEFINE q == 2 * b + c
  <2>1. q \in {0, 1, 2, 3} /\ orient \in {0, 1, 2, 3}
    OBVIOUS
  <2> HIDE DEF q
  <2>2. CASE orient = 0
    <3>1. PosToIJ[orient + 1] = <<0, 1, 3, 2>>
      BY <2>2 DEF PosToIJ
    <3> QED BY <3>1, <2>1 DEF q
  <2>3. CASE orient = 1
    <3>1. PosToIJ[orient + 1] = <<0, 2, 3, 1>>
      BY <2>3 DEF PosToIJ
    <3> QED BY <3>1, <2>1 DEF q
  <2>4. CASE orient = 2
    <3>1. PosToIJ[orient + 1] = <<3, 2, 0, 1>>
      BY <2>4 DEF PosToIJ
    <3> QED BY <3>1, <2>1 DEF q
  <2>5. CASE orient = 3
    <3>1. PosToIJ[orient + 1] = <<3, 1, 0, 2>>
      BY <2>5 DEF PosToIJ
    <3> QED BY <3>1, <2>1 DEF q
  <2> QED BY <2>1, <2>2, <2>3, <2>4, <2>5
<1> QED BY <1>1 DEF QuadrantOf

\* A step of the fill leaves a position and an orientation.
LEMMA FillStepType ==
  ASSUME NEW t \in Turns, NEW i \in 0 .. 1, NEW j \in 0 .. 1
  PROVE  FillStep(t, i, j) \in Turns
<1> DEFINE k == QuadrantOf(t.orient, i, j)
<1>1. t.pos \in Int /\ t.orient \in {0, 1, 2, 3}
  BY DEF Turns
<1>2. FillStep(t, i, j) = [pos |-> 4 * t.pos + (k - 1), orient |-> Xor2(t.orient, PosToOrientation[k])]
  BY DEF FillStep, QuadrantOf
<1>3. k \in 1 .. 4
  BY <1>1, QuadrantFound
<1> HIDE DEF k
<1>4. PosToOrientation[k] \in {0, 1, 3}
  BY <1>3 DEF PosToOrientation
<1>5. Xor2(t.orient, PosToOrientation[k]) \in 0 .. 3
  BY <1>1, <1>4 DEF Xor2
<1>6. 4 * t.pos + (k - 1) \in Int
  BY <1>1, <1>3
<1> QED BY <1>2, <1>5, <1>6 DEF Turns

\* A step appends a quadrant's place to the position and turns the curve as there.
LEMMA FillStepIs ==
  ASSUME NEW t \in Turns, NEW b \in 0 .. 1, NEW c \in 0 .. 1,
         NEW k, k = QuadrantOf(t.orient, b, c)
  PROVE  /\ k \in 1 .. 4 /\ t.pos \in Int /\ t.orient \in 0 .. 3
         /\ PosToIJ[t.orient + 1][k] = 2 * b + c
         /\ FillStep(t, b, c).pos = 4 * t.pos + (k - 1)
         /\ FillStep(t, b, c).orient = Xor2(t.orient, PosToOrientation[k])
<1>1. t.pos \in Int /\ t.orient \in 0 .. 3
  BY DEF Turns
<1>2. FillStep(t, b, c) = [pos |-> 4 * t.pos + (k - 1), orient |-> Xor2(t.orient, PosToOrientation[k])]
  BY DEF FillStep, QuadrantOf
<1> QED BY <1>1, <1>2, QuadrantFound

\* What the bits of i and j make of a start, quadrant after quadrant.
Descent(f, n, i, j, start) ==
  /\ f \in [0 .. n -> Turns] /\ f[0] = start
  /\ \A k \in 1 .. n : f[k] = FillStep(f[k - 1], BitOf(i, n, k), BitOf(j, n, k))

\* There is a descent along any bits, from any start.
LEMMA DescentExists ==
  ASSUME NEW n \in Nat, NEW i \in Int, NEW j \in Int, NEW start \in Turns
  PROVE  \E f : Descent(f, n, i, j, start)
<1> DEFINE step == [kt \in (1 .. n) \X Turns |->
                      FillStep(kt[2], BitOf(i, n, kt[1]), BitOf(j, n, kt[1]))]
<1>1. step \in [(1 .. n) \X Turns -> Turns]
  BY NextBit, FillStepType
<1>2. PICK f \in [0 .. n -> Turns] : f[0] = start /\ \A k \in 1 .. n : f[k] = step[<<k, f[k - 1]>>]
  <2> HIDE DEF step
  <2>1. Recursion(n, Turns, start, step)
    BY <1>1, RecursionExists
  <2> QED BY <2>1 DEF Recursion
<1>3. ASSUME NEW k \in 1 .. n
      PROVE  f[k] = FillStep(f[k - 1], BitOf(i, n, k), BitOf(j, n, k))
  <2>1. <<k, f[k - 1]>> \in (1 .. n) \X Turns
    OBVIOUS
  <2> QED BY <2>1, <1>2
<1> QED BY <1>2, <1>3 DEF Descent

\* The entry of a lookup table is the end of a descent.
LEMMA FillDescends ==
  ASSUME NEW i \in Int, NEW j \in Int, NEW orient \in 0 .. 3
  PROVE  \E f : /\ Descent(f, LookupBits, i, j, [pos |-> 0, orient |-> orient])
                /\ Fill(i, j, orient) = f[LookupBits]
<1> DEFINE start == [pos |-> 0, orient |-> orient]
           Fills(f) == f = [level \in 0 .. LookupBits |->
                              IF level = 0 THEN start
                              ELSE FillStep(f[level - 1], BitOf(i, LookupBits, level),
                                                          BitOf(j, LookupBits, level))]
           fill == CHOOSE f : Fills(f)
<1>1. LookupBits \in Nat /\ start \in Turns
  BY CellAssumption DEF Turns
<1>2. Fill(i, j, orient) = fill[LookupBits]
  BY DEF Fill, BitOf, HighBits
<1> HIDE DEF start
<1>3. ASSUME NEW f, Descent(f, LookupBits, i, j, start) PROVE Fills(f)
  BY <1>1, <1>3 DEF Descent
<1>4. \E f : Fills(f)
  <2> HIDE DEF Fills
  <2> QED BY <1>1, <1>3, DescentExists
<1>5. Fills(fill)
  <2> HIDE DEF Fills
  <2> QED BY <1>4
<1> HIDE DEF fill
<1>6. DOMAIN fill = 0 .. LookupBits /\ fill[0] = start
  BY <1>1, <1>5
<1>7. \A k \in 1 .. LookupBits :
        fill[k] = FillStep(fill[k - 1], BitOf(i, LookupBits, k), BitOf(j, LookupBits, k))
  BY <1>1, <1>5
<1>8. \A k \in 0 .. LookupBits : fill[k] \in Turns
  <2> DEFINE Good == {k \in 0 .. LookupBits : fill[k] \in Turns}
  <2>1. 0 \in Good
    BY <1>1, <1>6
  <2>2. ASSUME NEW k \in 1 .. LookupBits, k - 1 \in Good PROVE k \in Good
    <3>1. fill[k - 1] \in Turns
      BY <2>2
    <3>2. BitOf(i, LookupBits, k) \in 0 .. 1 /\ BitOf(j, LookupBits, k) \in 0 .. 1
      BY <1>1, NextBit
    <3>3. fill[k] \in Turns
      BY <3>1, <3>2, <1>7, FillStepType
    <3> QED BY <1>1, <3>3
  <2>3. 0 .. LookupBits \subseteq Good
    <3> HIDE DEF Good
    <3> QED BY <1>1, <2>1, <2>2, UpTo
  <2> QED BY <2>3
<1>9. fill \in [0 .. LookupBits -> Turns]
  <2>1. fill = [k \in 0 .. LookupBits |-> fill[k]]
    BY <1>5
  <2> HIDE DEF Fills
  <2> QED BY <2>1, <1>8
<1>10. Descent(fill, LookupBits, i, j, start)
  <2> HIDE DEF Fills
  <2> QED BY <1>6, <1>7, <1>9 DEF Descent
<1> QED BY <1>2, <1>10 DEF start

\* Where a step starts on the curve only adds to where it ends.
LEMMA FillStepMoved ==
  ASSUME NEW s \in Turns, NEW t \in Turns, s.orient = t.orient,
         NEW p \in Int, s.pos = p + t.pos, NEW b \in 0 .. 1, NEW c \in 0 .. 1
  PROVE  /\ FillStep(s, b, c).pos = 4 * p + FillStep(t, b, c).pos
         /\ FillStep(s, b, c).orient = FillStep(t, b, c).orient
<1> DEFINE k == QuadrantOf(t.orient, b, c)
<1>1. /\ k \in 1 .. 4 /\ t.pos \in Int /\ s.pos \in Int
      /\ FillStep(s, b, c).pos = 4 * s.pos + (k - 1)
      /\ FillStep(t, b, c).pos = 4 * t.pos + (k - 1)
      /\ FillStep(s, b, c).orient = FillStep(t, b, c).orient
  BY FillStepIs
<1> HIDE DEF k
<1> QED BY <1>1

\* A bit of a lookup's block is a bit of the number the block is cut from.
LEMMA BitInBlock ==
  ASSUME NEW x \in Int, NEW n \in Nat, NEW a \in Nat, NEW m \in Nat, a + m <= n, NEW t \in 1 .. m
  PROVE  BitOf(HighBits(x, n, a + m) % 2 ^ m, m, t) = BitOf(x, n, a + t)
<1> DEFINE e == 2 ^ (n - (a + m))
           c == 2 ^ (m - t)
           d == 2 ^ (t - 1)
           y == x \div e
<1>1. n - (a + m) \in Nat /\ m - t \in Nat /\ t - 1 \in Nat /\ 1 \in Nat /\ t \in Nat
  OBVIOUS
<1>2. e \in Nat \ {0} /\ c \in Nat \ {0} /\ d \in Nat \ {0}
  BY <1>1, PowerOfTwo
<1>3. 2 ^ m = c * (2 * d)
  <2>1. 2 ^ ((m - t) + t) = 2 ^ (m - t) * 2 ^ t
    BY <1>1, PowerOfSum
  <2>2. 2 ^ (1 + (t - 1)) = 2 ^ 1 * 2 ^ (t - 1)
    BY <1>1, PowerOfSum
  <2>3. (m - t) + t = m /\ 1 + (t - 1) = t
    BY <1>1
  <2> QED BY <2>1, <2>2, <2>3, SmallPowers
<1>4. 2 ^ (n - (a + t)) = e * c
  <2>1. 2 ^ ((n - (a + m)) + (m - t)) = 2 ^ (n - (a + m)) * 2 ^ (m - t)
    BY <1>1, PowerOfSum
  <2>2. (n - (a + m)) + (m - t) = n - (a + t)
    OBVIOUS
  <2> QED BY <2>1, <2>2
<1>5. /\ HighBits(x, n, a + m) = y
      /\ BitOf(x, n, a + t) = (x \div (e * c)) % 2
  BY <1>4 DEF HighBits, BitOf
<1>6. BitOf(y % 2 ^ m, m, t) = ((y % (c * (2 * d))) \div c) % 2
  BY <1>3 DEF HighBits, BitOf
<1> HIDE DEF e, c, d
<1>7. y \in Int
  BY <1>2, DivisionBounds
<1>8. y \div c = x \div (e * c)
  BY <1>2, DivideTwice, Zenon
<1> HIDE DEF y
<1>9. ((y % (c * (2 * d))) \div c) % 2 = (y \div c) % 2
  BY <1>2, <1>7, BitOfBlock
<1> QED BY <1>5, <1>6, <1>8, <1>9

\* A lookup's bits, filled in from the orientation the walk has, are its next steps.
LEMMA BlockOfDescent ==
  ASSUME NEW n \in Nat, NEW a \in Nat, NEW m \in Nat, a + m <= n,
         NEW i \in Int, NEW j \in Int, NEW start, NEW f, Descent(f, n, i, j, start),
         NEW g, Descent(g, m, HighBits(i, n, a + m) % 2 ^ m, HighBits(j, n, a + m) % 2 ^ m,
                        [pos |-> 0, orient |-> f[a].orient])
  PROVE  /\ f[a + m].pos = (f[a].pos * 2 ^ (2 * m)) + g[m].pos
         /\ f[a + m].orient = g[m].orient
<1> DEFINE bi == HighBits(i, n, a + m) % 2 ^ m
           bj == HighBits(j, n, a + m) % 2 ^ m
           Good == {t \in 0 .. m : /\ f[a + t].pos = (f[a].pos * 2 ^ (2 * t)) + g[t].pos
                                   /\ f[a + t].orient = g[t].orient}
<1>1. \A t \in 0 .. m : f[a + t] \in Turns /\ g[t] \in Turns /\ a + t \in 0 .. n
  BY DEF Descent
<1>2. a + 0 = a /\ f[a].pos \in Int /\ g[0] = [pos |-> 0, orient |-> f[a].orient]
  BY <1>1 DEF Turns, Descent
<1>3. 0 \in Good
  <2>1. 2 ^ (2 * 0) = 1 /\ 0 \in 0 .. m
    BY SmallPowers
  <2>2. f[a].pos = f[a].pos * 1 + 0
    BY <1>2
  <2> QED BY <1>2, <2>1, <2>2
<1>4. ASSUME NEW t \in 1 .. m, t - 1 \in Good PROVE t \in Good
  <2> DEFINE p == f[a].pos * 2 ^ (2 * (t - 1))
             b == BitOf(i, n, a + t)
             c == BitOf(j, n, a + t)
  <2>1. /\ t - 1 \in 0 .. m /\ t \in 0 .. m /\ a + t \in 1 .. n /\ (a + t) - 1 = a + (t - 1)
        /\ 2 * (t - 1) \in Nat /\ 2 \in Nat /\ 2 * (t - 1) + 2 = 2 * t
    OBVIOUS
  <2>2. f[a + t] = FillStep(f[a + (t - 1)], b, c)
    BY <2>1 DEF Descent
  <2>3. g[t] = FillStep(g[t - 1], b, c)
    <3>1. BitOf(bi, m, t) = b /\ BitOf(bj, m, t) = c
      BY BitInBlock
    <3>2. g[t] = FillStep(g[t - 1], BitOf(bi, m, t), BitOf(bj, m, t))
      BY DEF Descent
    <3> QED BY <3>1, <3>2
  <2>4. b \in 0 .. 1 /\ c \in 0 .. 1
    BY <2>1, NextBit
  <2>5. p \in Int
    <3>1. 2 ^ (2 * (t - 1)) \in Nat
      BY <2>1, PowerOfTwo
    <3> QED BY <3>1, <1>2
  <2>6. f[a + (t - 1)] \in Turns /\ g[t - 1] \in Turns
    BY <1>1, <2>1
  <2>7. f[a + (t - 1)].pos = p + g[t - 1].pos /\ f[a + (t - 1)].orient = g[t - 1].orient
    BY <1>4
  <2> HIDE DEF p, b, c, Good
  <2>8. /\ FillStep(f[a + (t - 1)], b, c).pos = 4 * p + FillStep(g[t - 1], b, c).pos
        /\ FillStep(f[a + (t - 1)], b, c).orient = FillStep(g[t - 1], b, c).orient
    BY <2>4, <2>5, <2>6, <2>7, FillStepMoved
  <2>9. 4 * p = f[a].pos * 2 ^ (2 * t)
    <3>1. 2 ^ (2 * (t - 1) + 2) = 2 ^ (2 * (t - 1)) * 2 ^ 2
      BY <2>1, PowerOfSum
    <3>2. 2 ^ (2 * (t - 1)) \in Nat
      BY <2>1, PowerOfTwo
    <3> DEFINE w == 2 ^ (2 * (t - 1))
    <3>3. 2 ^ (2 * t) = w * 4
      BY <3>1, <2>1, SmallPowers
    <3>4. w \in Nat /\ p = f[a].pos * w
      BY <3>2 DEF p
    <3> HIDE DEF w
    <3>5. 4 * p = f[a].pos * (w * 4)
      BY <3>4, <1>2
    <3> QED BY <3>3, <3>5
  <2> QED BY <2>1, <2>2, <2>3, <2>8, <2>9 DEF Good
<1>5. 0 .. m \subseteq Good
  <2> HIDE DEF Good
  <2> QED BY <1>3, <1>4, UpTo
<1> QED BY <1>5

\* The walk over the lookups ends where the descent over all bits does.
LEMMA WalkDescends ==
  ASSUME NEW face \in 0 .. 5, NEW i \in Nat, NEW j \in Nat,
         NEW f, Descent(f, LookupBits * Lookups, i, j, [pos |-> 0, orient |-> face % 2])
  PROVE  CurveWalk(face, i, j) = f[LookupBits * Lookups].pos
<1> DEFINE w == LookupBits * Lookups
           Bits(x, k) == (x \div 2 ^ (LookupBits * (Lookups - k))) % 2 ^ LookupBits
           Look(acc, k) == CurveStep(acc, LookupPos[<<Bits(i, k), Bits(j, k), acc.orient>>])
           base == [n |-> 0, orient |-> face % 2]
           Goes(h) == h = [k \in 0 .. Lookups |-> IF k = 0 THEN base ELSE Look(h[k - 1], k)]
           walk == CHOOSE h : Goes(h)
           Part(k) == [n |-> f[LookupBits * k].pos, orient |-> f[LookupBits * k].orient]
           parts == [k \in 0 .. Lookups |-> Part(k)]
<1>1. LookupBits \in Nat /\ Lookups \in Nat /\ w \in Nat
  BY CellAssumption
<1>2. CurveWalk(face, i, j) = walk[Lookups].n
  BY DEF CurveWalk
<1>3. ASSUME NEW k \in 1 .. Lookups PROVE Look(Part(k - 1), k) = Part(k)
  <2> DEFINE a == LookupBits * (k - 1)
             bi == HighBits(i, w, a + LookupBits) % 2 ^ LookupBits
             bj == HighBits(j, w, a + LookupBits) % 2 ^ LookupBits
             o == f[a].orient
  <2>1. a \in Nat /\ a + LookupBits = LookupBits * k /\ w - LookupBits * k = LookupBits * (Lookups - k)
    BY <1>1
  <2>2. a + LookupBits <= w /\ a + LookupBits \in 0 .. w /\ a \in 0 .. w
    <3>1. LookupBits * (Lookups - k) \in Nat
      BY <1>1
    <3> HIDE DEF a, w
    <3> QED BY <3>1, <2>1, <1>1
  <2>3. Bits(i, k) = bi /\ Bits(j, k) = bj
    BY <2>1 DEF HighBits
  <2>4. bi \in 0 .. 2 ^ LookupBits - 1 /\ bj \in 0 .. 2 ^ LookupBits - 1
    <3> DEFINE e == 2 ^ (w - (a + LookupBits))
               m == 2 ^ LookupBits
    <3>1. e \in Nat \ {0} /\ m \in Nat \ {0}
      <4>1. w - (a + LookupBits) \in Nat
        <5> HIDE DEF a, w
        <5> QED BY <2>1, <2>2, <1>1
      <4> QED BY <4>1, <1>1, PowerOfTwo
    <3>2. bi = (i \div e) % m /\ bj = (j \div e) % m
      BY DEF HighBits
    <3> HIDE DEF e, m, bi, bj
    <3>3. i \div e \in Int /\ j \div e \in Int
      BY <3>1, DivisionBounds
    <3>4. (i \div e) % m \in 0 .. m - 1 /\ (j \div e) % m \in 0 .. m - 1
      BY <3>1, <3>3, DivisionBounds
    <3> QED BY <3>2, <3>4 DEF m
  <2>5. f[a] \in Turns
    <3> HIDE DEF a
    <3> QED BY <2>2 DEF Descent
  <2>6. o \in 0 .. 3
    BY <2>5 DEF Turns
  <2> HIDE DEF bi, bj, Bits
  <2>7. LookupPos[<<bi, bj, o>>] = Fill(bi, bj, o)
    <3> DEFINE key == <<bi, bj, o>>
    <3>1. key \in LookupBlock \X LookupBlock \X (0 .. 3)
      BY <2>4, <2>6 DEF LookupBlock
    <3>2. LookupPos[key] = Fill(key[1], key[2], key[3])
      <4> HIDE DEF key
      <4> QED BY <3>1 DEF LookupPos
    <3> HIDE DEF o
    <3> QED BY <3>2
  <2>8. PICK g : /\ Descent(g, LookupBits, bi, bj, [pos |-> 0, orient |-> o])
                 /\ Fill(bi, bj, o) = g[LookupBits]
    <3>1. bi \in Int /\ bj \in Int
      BY <2>4
    <3> HIDE DEF o
    <3> QED BY <3>1, <2>6, FillDescends
  <2>9. /\ f[a + LookupBits].pos = (f[a].pos * 2 ^ (2 * LookupBits)) + g[LookupBits].pos
        /\ f[a + LookupBits].orient = g[LookupBits].orient
    <3>1. Descent(f, w, i, j, [pos |-> 0, orient |-> face % 2])
      OBVIOUS
    <3>2. Descent(g, LookupBits, HighBits(i, w, a + LookupBits) % 2 ^ LookupBits,
                  HighBits(j, w, a + LookupBits) % 2 ^ LookupBits, [pos |-> 0, orient |-> f[a].orient])
      BY <2>8 DEF bi, bj
    <3>3. i \in Int /\ j \in Int
      OBVIOUS
    <3> HIDE DEF a, w, o
    <3> QED BY <3>1, <3>2, <3>3, <2>1, <2>2, <1>1, BlockOfDescent
  <2>10. Look(Part(k - 1), k) = CurveStep(Part(k - 1), LookupPos[<<bi, bj, o>>])
    <3>1. Part(k - 1).orient = o
      OBVIOUS
    <3> HIDE DEF Part, o
    <3> QED BY <3>1, <2>3
  <2>11. Part(k - 1).n = f[a].pos
    OBVIOUS
  <2>12. Part(k) = [n |-> f[a + LookupBits].pos, orient |-> f[a + LookupBits].orient]
    BY <2>1
  <2> HIDE DEF Part, a, o, Look
  <2> QED BY <2>7, <2>8, <2>9, <2>10, <2>11, <2>12 DEF CurveStep
<1>4. Part(0) = base
  <2>1. LookupBits * 0 = 0
    BY <1>1
  <2>2. f[0] = [pos |-> 0, orient |-> face % 2]
    BY DEF Descent
  <2> QED BY <2>1, <2>2
<1> HIDE DEF Look, Part, base
<1>5. Goes(parts)
  <2>1. \A k \in 1 .. Lookups : k - 1 \in 0 .. Lookups
    BY <1>1
  <2> QED BY <2>1, <1>3, <1>4
<1>6. Goes(walk)
  <2> HIDE DEF Goes, parts
  <2> QED BY <1>5
<1> HIDE DEF walk
<1>7. walk[0] = base /\ \A k \in 1 .. Lookups : walk[k] = Look(walk[k - 1], k)
  BY <1>1, <1>6
<1>8. 0 .. Lookups \subseteq {k \in 0 .. Lookups : walk[k] = Part(k)}
  <2> DEFINE Good == {k \in 0 .. Lookups : walk[k] = Part(k)}
  <2>1. 0 \in Good
    BY <1>1, <1>4, <1>7
  <2>2. ASSUME NEW k \in 1 .. Lookups, k - 1 \in Good PROVE k \in Good
    BY <1>1, <2>2, <1>3, <1>7
  <2> HIDE DEF Good
  <2>3. 0 .. Lookups \subseteq Good
    BY <1>1, <2>1, <2>2, UpTo
  <2> QED BY <2>3 DEF Good
<1>9. walk[Lookups] = Part(Lookups)
  BY <1>1, <1>8
<1> QED BY <1>2, <1>9 DEF Part

\* Orientation, place on the curve, bit of i, bit of j, orientation there.
QuadrantTable ==
  {<<0, 1, 0, 0, 1>>, <<0, 2, 0, 1, 0>>, <<0, 3, 1, 1, 0>>, <<0, 4, 1, 0, 3>>,
   <<1, 1, 0, 0, 0>>, <<1, 2, 1, 0, 1>>, <<1, 3, 1, 1, 1>>, <<1, 4, 0, 1, 2>>,
   <<2, 1, 1, 1, 3>>, <<2, 2, 1, 0, 2>>, <<2, 3, 0, 0, 2>>, <<2, 4, 0, 1, 1>>,
   <<3, 1, 1, 1, 2>>, <<3, 2, 0, 1, 3>>, <<3, 3, 0, 0, 3>>, <<3, 4, 1, 0, 0>>}

\* The table says what the code's two tables and the exclusive or say together.
LEMMA QuadrantIsListed ==
  ASSUME NEW orient \in 0 .. 3, NEW k \in 1 .. 4, NEW b \in 0 .. 1, NEW c \in 0 .. 1,
         PosToIJ[orient + 1][k] = 2 * b + c
  PROVE  <<orient, k, b, c, Xor2(orient, PosToOrientation[k])>> \in QuadrantTable
<1> DEFINE r == Xor2(orient, PosToOrientation[k])
<1>1. orient \in {0, 1, 2, 3} /\ k \in {1, 2, 3, 4} /\ b \in {0, 1} /\ c \in {0, 1}
  OBVIOUS
<1>2. CASE orient = 0
  <2>1. PosToIJ[orient + 1] = <<0, 1, 3, 2>>
    BY <1>2 DEF PosToIJ
  <2>2. k = 1 => b = 0 /\ c = 0 /\ r = 1
    BY <1>1, <1>2, <2>1 DEF PosToOrientation, Xor2
  <2>3. k = 2 => b = 0 /\ c = 1 /\ r = 0
    BY <1>1, <1>2, <2>1 DEF PosToOrientation, Xor2
  <2>4. k = 3 => b = 1 /\ c = 1 /\ r = 0
    BY <1>1, <1>2, <2>1 DEF PosToOrientation, Xor2
  <2>5. k = 4 => b = 1 /\ c = 0 /\ r = 3
    BY <1>1, <1>2, <2>1 DEF PosToOrientation, Xor2
  <2> HIDE DEF r
  <2>6. <<orient, k, b, c, r>> \in QuadrantTable
    BY <1>1, <1>2, <2>2, <2>3, <2>4, <2>5 DEF QuadrantTable
  <2> QED BY <2>6 DEF r
<1>3. CASE orient = 1
  <2>1. PosToIJ[orient + 1] = <<0, 2, 3, 1>>
    BY <1>3 DEF PosToIJ
  <2>2. k = 1 => b = 0 /\ c = 0 /\ r = 0
    BY <1>1, <1>3, <2>1 DEF PosToOrientation, Xor2
  <2>3. k = 2 => b = 1 /\ c = 0 /\ r = 1
    BY <1>1, <1>3, <2>1 DEF PosToOrientation, Xor2
  <2>4. k = 3 => b = 1 /\ c = 1 /\ r = 1
    BY <1>1, <1>3, <2>1 DEF PosToOrientation, Xor2
  <2>5. k = 4 => b = 0 /\ c = 1 /\ r = 2
    BY <1>1, <1>3, <2>1 DEF PosToOrientation, Xor2
  <2> HIDE DEF r
  <2>6. <<orient, k, b, c, r>> \in QuadrantTable
    BY <1>1, <1>3, <2>2, <2>3, <2>4, <2>5 DEF QuadrantTable
  <2> QED BY <2>6 DEF r
<1>4. CASE orient = 2
  <2>1. PosToIJ[orient + 1] = <<3, 2, 0, 1>>
    BY <1>4 DEF PosToIJ
  <2>2. k = 1 => b = 1 /\ c = 1 /\ r = 3
    BY <1>1, <1>4, <2>1 DEF PosToOrientation, Xor2
  <2>3. k = 2 => b = 1 /\ c = 0 /\ r = 2
    BY <1>1, <1>4, <2>1 DEF PosToOrientation, Xor2
  <2>4. k = 3 => b = 0 /\ c = 0 /\ r = 2
    BY <1>1, <1>4, <2>1 DEF PosToOrientation, Xor2
  <2>5. k = 4 => b = 0 /\ c = 1 /\ r = 1
    BY <1>1, <1>4, <2>1 DEF PosToOrientation, Xor2
  <2> HIDE DEF r
  <2>6. <<orient, k, b, c, r>> \in QuadrantTable
    BY <1>1, <1>4, <2>2, <2>3, <2>4, <2>5 DEF QuadrantTable
  <2> QED BY <2>6 DEF r
<1>5. CASE orient = 3
  <2>1. PosToIJ[orient + 1] = <<3, 1, 0, 2>>
    BY <1>5 DEF PosToIJ
  <2>2. k = 1 => b = 1 /\ c = 1 /\ r = 2
    BY <1>1, <1>5, <2>1 DEF PosToOrientation, Xor2
  <2>3. k = 2 => b = 0 /\ c = 1 /\ r = 3
    BY <1>1, <1>5, <2>1 DEF PosToOrientation, Xor2
  <2>4. k = 3 => b = 0 /\ c = 0 /\ r = 3
    BY <1>1, <1>5, <2>1 DEF PosToOrientation, Xor2
  <2>5. k = 4 => b = 1 /\ c = 0 /\ r = 0
    BY <1>1, <1>5, <2>1 DEF PosToOrientation, Xor2
  <2> HIDE DEF r
  <2>6. <<orient, k, b, c, r>> \in QuadrantTable
    BY <1>1, <1>5, <2>2, <2>3, <2>4, <2>5 DEF QuadrantTable
  <2> QED BY <2>6 DEF r
<1> QED BY <1>1, <1>2, <1>3, <1>4, <1>5

\* Steps from turns that agree end at one position only if their bits are the same.
LEMMA StepsAgree ==
  ASSUME NEW s \in Turns, NEW t \in Turns, s.pos = t.pos => s.orient = t.orient,
         NEW b \in 0 .. 1, NEW c \in 0 .. 1, NEW b2 \in 0 .. 1, NEW c2 \in 0 .. 1
  PROVE  /\ FillStep(s, b, c).pos = FillStep(t, b2, c2).pos <=> s.pos = t.pos /\ b = b2 /\ c = c2
         /\ FillStep(s, b, c).pos = FillStep(t, b2, c2).pos =>
              FillStep(s, b, c).orient = FillStep(t, b2, c2).orient
<1> DEFINE k == QuadrantOf(s.orient, b, c)
           l == QuadrantOf(t.orient, b2, c2)
<1>1. /\ k \in 1 .. 4 /\ s.pos \in Int /\ s.orient \in 0 .. 3
      /\ PosToIJ[s.orient + 1][k] = 2 * b + c
      /\ FillStep(s, b, c).pos = 4 * s.pos + (k - 1)
      /\ FillStep(s, b, c).orient = Xor2(s.orient, PosToOrientation[k])
  BY FillStepIs
<1>2. /\ l \in 1 .. 4 /\ t.pos \in Int /\ t.orient \in 0 .. 3
      /\ PosToIJ[t.orient + 1][l] = 2 * b2 + c2
      /\ FillStep(t, b2, c2).pos = 4 * t.pos + (l - 1)
      /\ FillStep(t, b2, c2).orient = Xor2(t.orient, PosToOrientation[l])
  BY FillStepIs
<1>3. s.pos = t.pos /\ b = b2 /\ c = c2 => k = l
  OBVIOUS
<1>4. s.pos = t.pos /\ k = l => b = b2 /\ c = c2
  BY <1>1, <1>2
<1> HIDE DEF k, l
<1>5. FillStep(s, b, c).pos = FillStep(t, b2, c2).pos <=> s.pos = t.pos /\ k = l
  BY <1>1, <1>2
<1> QED BY <1>1, <1>2, <1>3, <1>4, <1>5

\* Where the curve enters and leaves a cell: both halves of i and j together, and one of
\* them without the other.
Entry(orient) == IF orient \in {2, 3} THEN 1 ELSE 0
Exit(orient)  == IF orient \in {0, 3} THEN 1 ELSE 0

\* The curve leaves one cell at the side at which it enters the other.
Touch(x, y, o, x2, y2, o2) ==
  /\ Magnitude(x2 - x) + Magnitude(y2 - y) = 1
  /\ x2 - x = Exit(o) - Entry(o2)
  /\ y2 - y = (1 - Exit(o)) - Entry(o2)

\* Steps from one cell, or from two that follow each other, end in cells that touch if
\* their positions follow each other.
LEMMA StepsTouch ==
  ASSUME NEW s \in Turns, NEW t \in Turns,
         NEW x \in Int, NEW y \in Int, NEW x2 \in Int, NEW y2 \in Int,
         s.pos = t.pos => s.orient = t.orient /\ x = x2 /\ y = y2,
         t.pos = s.pos + 1 => Touch(x, y, s.orient, x2, y2, t.orient),
         NEW b \in 0 .. 1, NEW c \in 0 .. 1, NEW b2 \in 0 .. 1, NEW c2 \in 0 .. 1,
         FillStep(t, b2, c2).pos = FillStep(s, b, c).pos + 1
  PROVE  Touch(2 * x + b, 2 * y + c, FillStep(s, b, c).orient,
               2 * x2 + b2, 2 * y2 + c2, FillStep(t, b2, c2).orient)
<1> DEFINE k == QuadrantOf(s.orient, b, c)
           l == QuadrantOf(t.orient, b2, c2)
           o == s.orient
           o2 == t.orient
           r == FillStep(s, b, c).orient
           r2 == FillStep(t, b2, c2).orient
<1>1. /\ k \in 1 .. 4 /\ s.pos \in Int /\ s.orient \in 0 .. 3
      /\ PosToIJ[s.orient + 1][k] = 2 * b + c
      /\ FillStep(s, b, c).pos = 4 * s.pos + (k - 1)
      /\ FillStep(s, b, c).orient = Xor2(s.orient, PosToOrientation[k])
  BY FillStepIs
<1>2. /\ l \in 1 .. 4 /\ t.pos \in Int /\ t.orient \in 0 .. 3
      /\ PosToIJ[t.orient + 1][l] = 2 * b2 + c2
      /\ FillStep(t, b2, c2).pos = 4 * t.pos + (l - 1)
      /\ FillStep(t, b2, c2).orient = Xor2(t.orient, PosToOrientation[l])
  BY FillStepIs
<1> HIDE DEF k, l
<1>3. <<o, k, b, c, r>> \in QuadrantTable /\ <<o2, l, b2, c2, r2>> \in QuadrantTable
  BY <1>1, <1>2, QuadrantIsListed
<1>4. \/ s.pos = t.pos /\ l = k + 1
      \/ t.pos = s.pos + 1 /\ k = 4 /\ l = 1
  <2> DEFINE p == s.pos
             q == t.pos
  <2>1. 4 * q + (l - 1) = 4 * p + (k - 1) + 1
    BY <1>1, <1>2
  <2>2. p \in Int /\ q \in Int /\ k \in {1, 2, 3, 4} /\ l \in {1, 2, 3, 4}
    BY <1>1, <1>2
  <2> HIDE DEF p, q
  <2>3. 4 * (q - p) = k - l + 1
    BY <2>1, <2>2
  <2>4. q - p \in {0, 1} /\ (q - p = 0 => l = k + 1) /\ (q - p = 1 => k = 4 /\ l = 1)
    BY <2>2, <2>3
  <2> QED BY <2>2, <2>4 DEF p, q
<1> HIDE DEF o, o2, r, r2
<1>5. CASE s.pos = t.pos /\ l = k + 1
  <2>1. o = o2 /\ x = x2 /\ y = y2
    BY <1>5 DEF o, o2
  <2>2. /\ Magnitude(b2 - b) + Magnitude(c2 - c) = 1
        /\ b2 - b = Exit(r) - Entry(r2) /\ c2 - c = (1 - Exit(r)) - Entry(r2)
    BY <2>1, <1>3, <1>5 DEF QuadrantTable, Magnitude, Exit, Entry
  <2>3. /\ (2 * x2 + b2) - (2 * x + b) = b2 - b /\ (2 * y2 + c2) - (2 * y + c) = c2 - c
    BY <2>1
  <2> QED BY <2>2, <2>3 DEF Touch, r, r2
<1>6. CASE t.pos = s.pos + 1 /\ k = 4 /\ l = 1
  <2>1. Touch(x, y, o, x2, y2, o2)
    BY <1>6 DEF o, o2
  <2>2. b = Exit(o) /\ c = 1 - Exit(o) /\ Exit(r) = Exit(o)
    BY <1>3, <1>6 DEF QuadrantTable, Exit
  <2>3. b2 = Entry(o2) /\ c2 = Entry(o2) /\ Entry(r2) = Entry(o2)
    BY <1>3, <1>6 DEF QuadrantTable, Entry
  <2>4. (2 * x2 + b2) - (2 * x + b) = x2 - x /\ (2 * y2 + c2) - (2 * y + c) = y2 - y
    <3>1. x2 - x = b - b2 /\ y2 - y = c - c2
      BY <2>1, <2>2, <2>3 DEF Touch
    <3> QED BY <3>1
  <2> QED BY <2>1, <2>2, <2>3, <2>4 DEF Touch, r, r2
<1> QED BY <1>4, <1>5, <1>6

\* Two descents from one start: they are in one cell exactly if the bits so far agree,
\* are turned alike there, and touch where one is next after the other.
Alike(f, g, n, i, j, i2, j2, t) ==
  /\ f[t].pos = g[t].pos <=>
       HighBits(i, n, t) = HighBits(i2, n, t) /\ HighBits(j, n, t) = HighBits(j2, n, t)
  /\ f[t].pos = g[t].pos => f[t].orient = g[t].orient
  /\ g[t].pos = f[t].pos + 1 =>
       Touch(HighBits(i, n, t), HighBits(j, n, t), f[t].orient,
             HighBits(i2, n, t), HighBits(j2, n, t), g[t].orient)

\* Two descents from one start are alike at every step.
LEMMA DescentsAlike ==
  ASSUME NEW n \in Nat, NEW i \in Int, NEW j \in Int, NEW i2 \in Int, NEW j2 \in Int,
         HighBits(i, n, 0) = HighBits(i2, n, 0), HighBits(j, n, 0) = HighBits(j2, n, 0),
         NEW start, NEW f, Descent(f, n, i, j, start), NEW g, Descent(g, n, i2, j2, start),
         NEW t \in 0 .. n
  PROVE  Alike(f, g, n, i, j, i2, j2, t)
<1> DEFINE Good == {k \in 0 .. n : Alike(f, g, n, i, j, i2, j2, k)}
<1>1. 0 \in Good
  <2>1. f[0] = g[0] /\ f[0] \in Turns
    BY DEF Descent
  <2>2. f[0].pos \in Int
    BY <2>1 DEF Turns
  <2>3. Alike(f, g, n, i, j, i2, j2, 0)
    BY <2>1, <2>2 DEF Alike
  <2> QED BY <2>3
<1>2. ASSUME NEW k \in 1 .. n, k - 1 \in Good PROVE k \in Good
  <2> DEFINE s == f[k - 1]
             u == g[k - 1]
             x == HighBits(i, n, k - 1)
             y == HighBits(j, n, k - 1)
             x2 == HighBits(i2, n, k - 1)
             y2 == HighBits(j2, n, k - 1)
             b == BitOf(i, n, k)
             c == BitOf(j, n, k)
             b2 == BitOf(i2, n, k)
             c2 == BitOf(j2, n, k)
  <2>1. /\ s \in Turns /\ u \in Turns
        /\ f[k] = FillStep(s, b, c) /\ g[k] = FillStep(u, b2, c2)
    BY DEF Descent
  <2>2. /\ x \in Int /\ b \in 0 .. 1 /\ HighBits(i, n, k) = 2 * x + b
        /\ y \in Int /\ c \in 0 .. 1 /\ HighBits(j, n, k) = 2 * y + c
        /\ x2 \in Int /\ b2 \in 0 .. 1 /\ HighBits(i2, n, k) = 2 * x2 + b2
        /\ y2 \in Int /\ c2 \in 0 .. 1 /\ HighBits(j2, n, k) = 2 * y2 + c2
    BY NextBit
  <2>3. /\ s.pos = u.pos <=> x = x2 /\ y = y2
        /\ s.pos = u.pos => s.orient = u.orient
        /\ u.pos = s.pos + 1 => Touch(x, y, s.orient, x2, y2, u.orient)
    BY <1>2 DEF Alike
  <2> HIDE DEF s, u, x, y, x2, y2, b, c, b2, c2
  <2>4. /\ FillStep(s, b, c).pos = FillStep(u, b2, c2).pos <=> s.pos = u.pos /\ b = b2 /\ c = c2
        /\ FillStep(s, b, c).pos = FillStep(u, b2, c2).pos =>
             FillStep(s, b, c).orient = FillStep(u, b2, c2).orient
    BY <2>1, <2>2, <2>3, StepsAgree
  <2>5. FillStep(u, b2, c2).pos = FillStep(s, b, c).pos + 1 =>
          Touch(2 * x + b, 2 * y + c, FillStep(s, b, c).orient,
                2 * x2 + b2, 2 * y2 + c2, FillStep(u, b2, c2).orient)
    BY <2>1, <2>2, <2>3, StepsTouch
  <2>6. s.pos = u.pos /\ b = b2 /\ c = c2 <=>
          2 * x + b = 2 * x2 + b2 /\ 2 * y + c = 2 * y2 + c2
    BY <2>2, <2>3
  <2>7. Alike(f, g, n, i, j, i2, j2, k)
    BY <2>1, <2>2, <2>4, <2>5, <2>6 DEF Alike
  <2> QED BY <2>7
<1>3. 0 .. n \subseteq Good
  <2> HIDE DEF Good
  <2> QED BY <1>1, <1>2, UpTo
<1> QED BY <1>3

\* The position of a cell is what is left of the position of any leaf in it.
LEMMA PositionsOfAncestors ==
  ASSUME NEW n \in Nat, NEW i \in Int, NEW j \in Int, NEW start, NEW f, Descent(f, n, i, j, start),
         NEW s \in 0 .. n
  PROVE  f[n].pos \div 2 ^ (2 * s) = f[n - s].pos
<1> DEFINE Good == {m \in 0 .. n : f[n].pos \div 2 ^ (2 * m) = f[n - m].pos}
           p == f[n].pos
<1>1. \A m \in 0 .. n : f[m] \in Turns /\ f[m].pos \in Int
  BY DEF Descent, Turns
<1>2. p \in Int
  BY <1>1
<1>3. 0 \in Good
  <2>1. 2 ^ (2 * 0) = 1 /\ n - 0 = n /\ 0 \in 0 .. n
    BY SmallPowers
  <2>2. p \div 1 = p
    BY <1>2
  <2> QED BY <2>1, <2>2
<1>4. ASSUME NEW m \in 1 .. n, m - 1 \in Good PROVE m \in Good
  <2> DEFINE e == 2 ^ (2 * (m - 1))
             q == f[n - m].pos
             k == QuadrantOf(f[n - m].orient, BitOf(i, n, n - m + 1), BitOf(j, n, n - m + 1))
  <2>1. /\ 2 * (m - 1) \in Nat /\ 2 \in Nat /\ 2 * (m - 1) + 2 = 2 * m
        /\ n - m \in 0 .. n /\ n - m + 1 \in 1 .. n /\ (n - m + 1) - 1 = n - m
        /\ n - (m - 1) = n - m + 1
    OBVIOUS
  <2>2. e \in Nat \ {0} /\ 2 ^ (2 * m) = e * 4
    <3>1. 2 ^ (2 * (m - 1) + 2) = 2 ^ (2 * (m - 1)) * 2 ^ 2
      BY <2>1, PowerOfSum
    <3> QED BY <3>1, <2>1, SmallPowers, PowerOfTwo
  <2>3. p \div e = f[n - m + 1].pos
    BY <1>4, <2>1
  <2>4. f[n - m + 1].pos = 4 * q + (k - 1) /\ k \in 1 .. 4 /\ q \in Int
    <3>1. f[n - m + 1] = FillStep(f[n - m], BitOf(i, n, n - m + 1), BitOf(j, n, n - m + 1))
      BY <2>1 DEF Descent
    <3>2. BitOf(i, n, n - m + 1) \in 0 .. 1 /\ BitOf(j, n, n - m + 1) \in 0 .. 1
      BY <2>1, NextBit
    <3>3. f[n - m] \in Turns
      BY <1>1, <2>1
    <3> QED BY <3>1, <3>2, <3>3, FillStepIs
  <2> HIDE DEF e, p, q, k
  <2>5. (p \div e) \div 4 = p \div (e * 4)
    <3>1. 4 \in Nat \ {0}
      OBVIOUS
    <3> QED BY <1>2, <2>2, <3>1, DivideTwice, Zenon
  <2>6. (4 * q + (k - 1)) \div 4 = q
    BY <2>4
  <2> QED BY <2>2, <2>3, <2>4, <2>5, <2>6 DEF p, q
<1>5. 0 .. n \subseteq Good
  <2> HIDE DEF Good
  <2> QED BY <1>3, <1>4, UpTo
<1> QED BY <1>5

\* Two leaves of a face have one parent exactly if their positions do.
LEMMA ParentOfPosition ==
  ASSUME NEW face \in Int, NEW p \in Int, NEW q \in Int, NEW lev \in 0 .. MaxLevel
  PROVE  LET Leaf(n) == ((face * 2 ^ (PosBits - 1) + n) * 2) + 1
             l == 2 ^ (2 * (MaxLevel - lev))
         IN  Parent(Leaf(p), lev) = Parent(Leaf(q), lev) <=> p \div l = q \div l
<1> DEFINE l == 2 ^ (2 * (MaxLevel - lev))
           m == 2 ^ (2 * lev)
           Leaf(n) == ((face * 2 ^ (PosBits - 1) + n) * 2) + 1
<1>1. /\ 2 * (MaxLevel - lev) \in Nat /\ 2 * lev \in Nat
      /\ 2 * (MaxLevel - lev) + 2 * lev = PosBits - 1
  BY CellAssumption DEF PosBits
<1>2. l \in Nat \ {0} /\ m \in Nat \ {0} /\ 2 ^ (PosBits - 1) = l * m
  <2>1. 2 ^ (2 * (MaxLevel - lev) + 2 * lev) = 2 ^ (2 * (MaxLevel - lev)) * 2 ^ (2 * lev)
    BY <1>1, PowerOfSum
  <2> HIDE DEF PosBits
  <2> QED BY <1>1, <2>1, PowerOfTwo
<1>3. \A n : Parent(Leaf(n), lev) = ((Leaf(n) \div (2 * l)) * 2 * l) + l
  BY DEF Parent
<1>4. \A n \in Int : Leaf(n) = ((face * (l * m) + n) * 2) + 1
  BY <1>2
<1> HIDE DEF l, m, Leaf
<1>5. ASSUME NEW n \in Int
      PROVE  Leaf(n) \div (2 * l) = face * m + (n \div l) /\ n \div l \in Int
  <2> DEFINE u == face * (l * m) + n
             d == n \div l
             r == n % l
  <2>1. u \in Int /\ d \in Int /\ r \in 0 .. l - 1 /\ n = d * l + r
    BY <1>2
  <2>2. Leaf(n) = u * 2 + 1
    BY <1>4
  <2>3. u = (face * m + d) * l + r
    <3>1. (face * m + d) * l = face * (l * m) + d * l
      BY <2>1, <1>2
    <3>2. face * (l * m) \in Int /\ d * l \in Int
      BY <2>1, <1>2
    <3>3. u = face * (l * m) + (d * l + r)
      BY <2>1
    <3> HIDE DEF u, d, r
    <3> QED BY <3>1, <3>2, <3>3, <2>1
  <2>4. face * m + d \in Int
    BY <2>1, <1>2
  <2> HIDE DEF u, d, r
  <2>5. u \div l = face * m + d
    <3> DEFINE v == face * m + d
    <3>1. v \in Int /\ u = v * l + r
      BY <2>3, <2>4
    <3> HIDE DEF v
    <3>2. u \div l = v
      BY <3>1, <2>1, <1>2, QuotientIs
    <3> QED BY <3>2 DEF v
  <2>6. (u * 2 + 1) \div 2 = u
    BY <2>1
  <2>7. ((u * 2 + 1) \div 2) \div l = (u * 2 + 1) \div (2 * l)
    <3>1. u * 2 + 1 \in Int /\ 2 \in Nat \ {0}
      BY <2>1
    <3> QED BY <3>1, <1>2, DivideTwice, Zenon
  <2>8. Leaf(n) \div (2 * l) = face * m + d /\ d \in Int
    BY <2>1, <2>2, <2>5, <2>6, <2>7
  <2> QED BY <2>8 DEF d
<1>6. ASSUME NEW u \in Int, NEW v \in Int, (u * 2 * l) + l = (v * 2 * l) + l PROVE u = v
  <2> DEFINE h == 2 * l
  <2>1. h \in Nat \ {0} /\ u * 2 * l = u * h /\ v * 2 * l = v * h
    BY <1>2
  <2>2. u * h = v * h
    <3>1. u * 2 * l \in Int /\ v * 2 * l \in Int
      BY <1>2
    <3> QED BY <3>1, <2>1, <1>2, <1>6
  <2> HIDE DEF h
  <2>3. ~(u < v)
    <3>1. u < v => u * h < v * h
      BY <2>1
    <3>2. u * h \in Int
      BY <2>1
    <3> QED BY <3>1, <3>2, <2>2
  <2>4. ~(v < u)
    <3>1. v < u => v * h < u * h
      BY <2>1
    <3>2. u * h \in Int
      BY <2>1
    <3> QED BY <3>1, <3>2, <2>2
  <2> QED BY <2>3, <2>4
<1>7. Parent(Leaf(p), lev) = Parent(Leaf(q), lev) <=> p \div l = q \div l
  <2> DEFINE u == Leaf(p) \div (2 * l)
             v == Leaf(q) \div (2 * l)
             a == p \div l
             b == q \div l
  <2>1. u = face * m + a /\ a \in Int /\ v = face * m + b /\ b \in Int
    BY <1>5
  <2>2. Parent(Leaf(p), lev) = (u * 2 * l) + l /\ Parent(Leaf(q), lev) = (v * 2 * l) + l
    BY <1>3
  <2> HIDE DEF u, v, a, b
  <2>3. face * m \in Int
    BY <1>2
  <2>4. u \in Int /\ v \in Int /\ (u = v <=> a = b)
    BY <2>1, <2>3
  <2>5. Parent(Leaf(p), lev) = Parent(Leaf(q), lev) <=> a = b
    BY <2>2, <2>4, <1>6
  <2> QED BY <2>5 DEF a, b
<1> QED BY <1>7 DEF l, Leaf

---------------------------------------------------------------------------
(* Columns and rows *)

\* A column starts at or below u = n / d.
StartsBelow(m, n, d) ==
  LET size == 2 ^ MaxLevel IN
    IF n >= 0 THEN 4 * m * m * d <= size * size * (d + 3 * n)
    ELSE 4 * (size - m) * (size - m) * d >= size * size * (d - 3 * n)

\* A coordinate on a face falls in a column: the first one that starts at or below it
\* and is not followed by another that does.
LEMMA GridIndexFound ==
  ASSUME NEW n \in Int, NEW d \in Nat \ {0}, -d <= n, n <= d
  PROVE  LET m == GridIndex(n, d) IN
           /\ m \in 0 .. 2 ^ MaxLevel - 1 /\ StartsBelow(m, n, d)
           /\ m < 2 ^ MaxLevel - 1 => ~StartsBelow(m + 1, n, d)
<1> DEFINE size == 2 ^ MaxLevel
           Below(m) == StartsBelow(m, n, d)
           Fits(m) == Below(m) /\ (m < size - 1 => ~Below(m + 1))
           ends == {m \in 0 .. size - 1 : m < size - 1 => ~Below(m + 1)}
<1>1. size \in Nat \ {0}
  BY CellAssumption, PowerOfTwo
<1>8. GridIndex(n, d) = CHOOSE k \in 0 .. size - 1 : Fits(k)
  BY DEF GridIndex, StartsBelow
<1>2. Below(0)
  <2> DEFINE s2 == size * size
  <2>0. Below(0) <=> IF n >= 0 THEN 4 * 0 * 0 * d <= s2 * (d + 3 * n)
                     ELSE 4 * (size - 0) * (size - 0) * d >= s2 * (d - 3 * n)
    BY DEF StartsBelow
  <2> HIDE DEF size, Below
  <2>1. s2 \in Nat
    BY <1>1
  <2>2. size * size = s2
    OBVIOUS
  <2> HIDE DEF s2
  <2>3. CASE n >= 0
    <3>1. d + 3 * n \in Nat
      BY <2>3
    <3>2. 0 <= s2 * (d + 3 * n)
      BY <3>1, <2>1
    <3>3. 4 * 0 * 0 * d = 0
      OBVIOUS
    <3> QED BY <2>0, <2>3, <3>2, <3>3
  <2>4. CASE n < 0
    <3>1. d - 3 * n <= 4 * d /\ d - 3 * n \in Int /\ 4 * d \in Int
      OBVIOUS
    <3>2. s2 * (d - 3 * n) <= s2 * (4 * d)
      BY <3>1, <2>1
    <3>3. 4 * (size - 0) * (size - 0) * d = s2 * (4 * d)
      BY <1>1, <2>2
    <3> QED BY <2>0, <2>4, <3>2, <3>3
  <2> QED BY <2>3, <2>4
<1> HIDE DEF size, Below
<1>3. size - 1 \in ends
  BY <1>1
<1>4. PICK m \in ends : \A k \in ends : m <= k
  <2>1. ends \subseteq Nat
    BY <1>1
  <2> HIDE DEF ends
  <2> QED BY <1>3, <2>1, LeastNumber
<1>5. m \in 0 .. size - 1 /\ (m < size - 1 => ~Below(m + 1))
  OBVIOUS
<1>6. Below(m)
  <2>1. CASE m = 0
    BY <2>1, <1>2
  <2>2. CASE m # 0
    <3>1. m - 1 \in 0 .. size - 1 /\ m - 1 \notin ends /\ m - 1 < size - 1 /\ (m - 1) + 1 = m
      BY <2>2, <1>1, <1>4, <1>5
    <3> QED BY <3>1
  <2> QED BY <2>1, <2>2
<1>7. \E k \in 0 .. size - 1 : Fits(k)
  BY <1>5, <1>6
<1>9. GridIndex(n, d) \in 0 .. size - 1 /\ Fits(GridIndex(n, d))
  <2> HIDE DEF Fits
  <2> QED BY <1>7, <1>8
<1> QED BY <1>9 DEF size, Below

\* Fractions compare as their products do.
LEMMA Across ==
  ASSUME NEW m \in Int, NEW s \in Nat, NEW d \in Nat \ {0}, NEW e \in Nat \ {0},
         NEW a \in Int, NEW b \in Int
  PROVE  /\ m * d <= s * a /\ a * e <= b * d => m * e <= s * b
         /\ m * d >= s * a /\ a * e >= b * d => m * e >= s * b
<1>1. (m * d) * e = (m * e) * d /\ (s * a) * e = s * (a * e) /\ (s * b) * d = s * (b * d)
  OBVIOUS
<1>2. m * d \in Int /\ s * a \in Int /\ a * e \in Int /\ b * d \in Int /\ m * e \in Int /\ s * b \in Int
  OBVIOUS
<1>3. ASSUME NEW x \in Int, NEW y \in Int, NEW k \in Nat, x <= y
      PROVE  x * k <= y * k /\ k * x <= k * y /\ x * k \in Int /\ y * k \in Int
  BY <1>3
<1>4. ASSUME NEW x \in Int, NEW y \in Int, x * d <= y * d PROVE x <= y
  <2>1. y < x => y * d < x * d
    OBVIOUS
  <2>2. x * d \in Int /\ y * d \in Int
    OBVIOUS
  <2> QED BY <2>1, <2>2, <1>4
<1>5. ASSUME m * d <= s * a, a * e <= b * d PROVE m * e <= s * b
  <2>1. (m * d) * e <= (s * a) * e
    BY <1>2, <1>3, <1>5
  <2>2. s * (a * e) <= s * (b * d)
    BY <1>2, <1>3, <1>5
  <2>3. (m * e) * d \in Int /\ s * (a * e) \in Int /\ (s * b) * d \in Int
    BY <1>2
  <2>4. (m * e) * d <= (s * b) * d
    BY <1>1, <2>1, <2>2, <2>3
  <2> QED BY <2>4, <1>2, <1>4
<1>6. ASSUME m * d >= s * a, a * e >= b * d PROVE m * e >= s * b
  <2>1. (s * a) * e <= (m * d) * e
    BY <1>2, <1>3, <1>6
  <2>2. s * (b * d) <= s * (a * e)
    BY <1>2, <1>3, <1>6
  <2>3. (m * e) * d \in Int /\ s * (a * e) \in Int /\ (s * b) * d \in Int
    BY <1>2
  <2>4. (s * b) * d <= (m * e) * d
    BY <1>1, <2>1, <2>2, <2>3
  <2>5. s * b <= m * e
    BY <2>4, <1>2, <1>4
  <2> QED BY <2>5, <1>2
<1> QED BY <1>5, <1>6

\* Squares compare as the numbers do.
LEMMA Squares ==
  ASSUME NEW x \in Nat, NEW y \in Nat
  PROVE  x <= y <=> x * x <= y * y
<1>1. ASSUME x <= y PROVE x * x <= y * y
  <2>1. x * x <= y * x
    BY <1>1
  <2>2. y * x <= y * y
    BY <1>1
  <2>3. x * x \in Int /\ y * x \in Int /\ y * y \in Int
    OBVIOUS
  <2> QED BY <2>1, <2>2, <2>3
<1>2. ASSUME y < x PROVE y * y < x * x
  <2>1. y * y <= y * x
    BY <1>2
  <2>2. y * x < x * x
    BY <1>2
  <2>3. x * x \in Int /\ y * x \in Int /\ y * y \in Int
    OBVIOUS
  <2> QED BY <2>1, <2>2, <2>3
<1> QED BY <1>1, <1>2

\* A column that starts below a fraction starts below a larger one, and those before it do.
LEMMA StartsBelowLarger ==
  ASSUME NEW n \in Int, NEW d \in Nat \ {0}, NEW n2 \in Int, NEW d2 \in Nat \ {0},
         n * d2 < n2 * d,
         NEW m \in 0 .. 2 ^ MaxLevel - 1, StartsBelow(m, n, d)
  PROVE  StartsBelow(m, n2, d2)
<1> DEFINE size == 2 ^ MaxLevel
           s == size * size
           lo == 4 * m * m
           hi == 4 * (size - m) * (size - m)
<1>1. size \in Nat \ {0}
  BY CellAssumption, PowerOfTwo
<1>2. /\ StartsBelow(m, n, d) <=> IF n >= 0 THEN lo * d <= s * (d + 3 * n) ELSE hi * d >= s * (d - 3 * n)
      /\ StartsBelow(m, n2, d2) <=>
           IF n2 >= 0 THEN lo * d2 <= s * (d2 + 3 * n2) ELSE hi * d2 >= s * (d2 - 3 * n2)
  BY DEF StartsBelow
<1> HIDE DEF size
<1>3. m \in Nat /\ size - m \in Nat
  BY <1>1 DEF size
<1>4. s \in Nat /\ lo \in Nat /\ hi \in Nat
  BY <1>1, <1>3
<1>5. /\ (d + 3 * n) * d2 <= (d2 + 3 * n2) * d
      /\ (d - 3 * n) * d2 >= (d2 - 3 * n2) * d
  <2>1. /\ (d + 3 * n) * d2 = d * d2 + 3 * (n * d2) /\ (d2 + 3 * n2) * d = d * d2 + 3 * (n2 * d)
        /\ (d - 3 * n) * d2 = d * d2 - 3 * (n * d2) /\ (d2 - 3 * n2) * d = d * d2 - 3 * (n2 * d)
    OBVIOUS
  <2>2. n * d2 \in Int /\ n2 * d \in Int /\ d * d2 \in Int
    OBVIOUS
  <2> QED BY <2>1, <2>2
<1>6. d + 3 * n \in Int /\ d2 + 3 * n2 \in Int /\ d - 3 * n \in Int /\ d2 - 3 * n2 \in Int
  OBVIOUS
<1>7. n >= 0 => n2 >= 0
  <2>1. n >= 0 => n * d2 >= 0
    OBVIOUS
  <2>2. n2 < 0 => n2 * d < 0
    OBVIOUS
  <2>3. n * d2 \in Int /\ n2 * d \in Int
    OBVIOUS
  <2> QED BY <2>1, <2>2, <2>3
<1>8. CASE n >= 0
  <2>1. lo * d <= s * (d + 3 * n)
    BY <1>2, <1>8
  <2>2. lo * d2 <= s * (d2 + 3 * n2)
    <3> HIDE DEF lo, s
    <3> QED BY <2>1, <1>4, <1>5, <1>6, Across
  <2> QED BY <2>2, <1>2, <1>7, <1>8
<1>9. CASE n < 0 /\ n2 < 0
  <2>1. hi * d >= s * (d - 3 * n)
    BY <1>2, <1>9
  <2>2. hi * d2 >= s * (d2 - 3 * n2)
    <3> HIDE DEF hi, s
    <3> QED BY <2>1, <1>4, <1>5, <1>6, Across
  <2> QED BY <2>2, <1>2, <1>9
<1>10. CASE n < 0 /\ n2 >= 0
  <2>1. hi * d >= s * (d - 3 * n)
    BY <1>2, <1>10
  <2>2. hi >= s
    <3> HIDE DEF hi, s
    <3>1. (d - 3 * n) * 1 >= 1 * d /\ 1 \in Nat \ {0} /\ 1 \in Int
      BY <1>10
    <3>2. hi * 1 >= s * 1
      BY <2>1, <3>1, <1>4, <1>6, Across
    <3> QED BY <3>2, <1>4
  <2>3. 2 * (size - m) >= size
    <3> DEFINE r == 2 * (size - m)
    <3>1. r \in Nat /\ r * r = hi
      BY <1>3
    <3> HIDE DEF r, hi
    <3>2. size <= r
      BY <1>1, <2>2, <3>1, Squares DEF s
    <3> QED BY <3>2, <3>1, <1>1 DEF r
  <2>4. lo <= s
    <3> DEFINE r == 2 * m
    <3>1. r \in Nat /\ r * r = lo /\ r <= size
      BY <1>1, <1>3, <2>3
    <3> HIDE DEF r, lo
    <3> QED BY <1>1, <3>1, Squares DEF s
  <2>5. lo * d2 <= s * (d2 + 3 * n2)
    <3> HIDE DEF lo, s
    <3>1. lo * 1 <= s * 1 /\ 1 * d2 <= (d2 + 3 * n2) * 1 /\ 1 \in Nat \ {0} /\ 1 \in Int
      BY <1>4, <1>10, <2>4
    <3> QED BY <3>1, <1>4, <1>6, Across
  <2> QED BY <2>5, <1>2, <1>10
<1> QED BY <1>7, <1>8, <1>9, <1>10

\* The columns before one that starts below a fraction start below it too.
LEMMA StartsBelowBefore ==
  ASSUME NEW n \in Int, NEW d \in Nat \ {0},
         NEW m \in 0 .. 2 ^ MaxLevel - 1, NEW k \in 0 .. m, StartsBelow(m, n, d)
  PROVE  StartsBelow(k, n, d)
<1> DEFINE size == 2 ^ MaxLevel
           s == size * size
           Lo(x) == 4 * x * x
           Hi(x) == 4 * (size - x) * (size - x)
<1>1. size \in Nat \ {0}
  BY CellAssumption, PowerOfTwo
<1>2. \A x \in {m, k} : StartsBelow(x, n, d) <=>
        IF n >= 0 THEN Lo(x) * d <= s * (d + 3 * n) ELSE Hi(x) * d >= s * (d - 3 * n)
  BY DEF StartsBelow
<1> HIDE DEF size
<1>3. m \in Nat /\ k \in Nat /\ k <= m /\ size - m \in Nat /\ size - k \in Nat
  BY <1>1 DEF size
<1>4. s * (d + 3 * n) \in Int /\ s * (d - 3 * n) \in Int
  <2>1. s \in Int
    BY <1>1
  <2> HIDE DEF s
  <2> QED BY <2>1
<1>5. Lo(k) * d <= Lo(m) * d /\ Lo(k) * d \in Int /\ Lo(m) * d \in Int
  <2>1. k * k <= m * m /\ k * k \in Nat /\ m * m \in Nat
    BY <1>3, Squares
  <2>2. Lo(k) = 4 * (k * k) /\ Lo(m) = 4 * (m * m)
    BY <1>3
  <2>3. Lo(k) <= Lo(m) /\ Lo(k) \in Nat /\ Lo(m) \in Nat
    <3> DEFINE a == k * k
               b == m * m
    <3> HIDE DEF a, b, Lo
    <3> QED BY <2>1, <2>2 DEF a, b
  <2> HIDE DEF Lo
  <2> QED BY <2>3
<1>6. Hi(m) * d <= Hi(k) * d /\ Hi(k) * d \in Int /\ Hi(m) * d \in Int
  <2> DEFINE x == size - m
             y == size - k
  <2>1. x \in Nat /\ y \in Nat /\ x <= y
    BY <1>1, <1>3
  <2>2. Hi(m) = 4 * x * x /\ Hi(k) = 4 * y * y
    OBVIOUS
  <2> HIDE DEF x, y
  <2>3. x * x <= y * y /\ x * x \in Nat /\ y * y \in Nat
    BY <2>1, Squares
  <2>4. Hi(m) = 4 * (x * x) /\ Hi(k) = 4 * (y * y)
    BY <2>1, <2>2
  <2>5. Hi(m) <= Hi(k) /\ Hi(k) \in Nat /\ Hi(m) \in Nat
    <3> DEFINE a == x * x
               b == y * y
    <3> HIDE DEF a, b, Hi
    <3> QED BY <2>3, <2>4 DEF a, b
  <2> HIDE DEF Hi
  <2> QED BY <2>5
<1> HIDE DEF Lo, Hi, s
<1>7. CASE n >= 0
  <2>1. Lo(m) * d <= s * (d + 3 * n)
    BY <1>2, <1>7
  <2>2. Lo(k) * d <= s * (d + 3 * n)
    BY <2>1, <1>4, <1>5
  <2> QED BY <2>2, <1>2, <1>7
<1>8. CASE ~(n >= 0)
  <2>1. Hi(m) * d >= s * (d - 3 * n)
    BY <1>2, <1>8
  <2>2. Hi(k) * d >= s * (d - 3 * n)
    BY <2>1, <1>4, <1>6
  <2> QED BY <2>2, <1>2, <1>8
<1> QED BY <1>7, <1>8

\* Columns are in the order of the coordinates.
LEMMA GridIndexOrder ==
  ASSUME NEW n \in Int, NEW d \in Nat \ {0}, -d <= n, n <= d,
         NEW n2 \in Int, NEW d2 \in Nat \ {0}, -d2 <= n2, n2 <= d2,
         n * d2 < n2 * d
  PROVE  GridIndex(n, d) <= GridIndex(n2, d2)
<1> DEFINE m == GridIndex(n, d)
           m2 == GridIndex(n2, d2)
           size == 2 ^ MaxLevel
<1>1. size \in Nat \ {0}
  BY CellAssumption, PowerOfTwo
<1>2. m \in 0 .. size - 1 /\ StartsBelow(m, n, d)
  BY GridIndexFound
<1>3. m2 \in 0 .. size - 1 /\ (m2 < size - 1 => ~StartsBelow(m2 + 1, n2, d2))
  BY GridIndexFound
<1>4. StartsBelow(m, n2, d2)
  BY <1>2, StartsBelowLarger
<1>5. m2 + 1 \in 0 .. m => StartsBelow(m2 + 1, n2, d2)
  BY <1>2, <1>4, StartsBelowBefore
<1> HIDE DEF m, m2, size
<1>6. m <= m2
  BY <1>1, <1>2, <1>3, <1>5
<1> QED BY <1>6 DEF m, m2

---------------------------------------------------------------------------
(* The leaf of a direction *)

\* The largest component of a direction is not zero and divides the others to at most one.
LEMMA FaceCoordinates ==
  ASSUME NEW x \in Int, NEW y \in Int, NEW z \in Int, <<x, y, z>> # <<0, 0, 0>>,
         NEW q \in {FaceUV(x, y, z).u, FaceUV(x, y, z).v}
  PROVE  /\ FaceOf(x, y, z) \in 0 .. 5
         /\ Positive(q)[1] \in Int /\ Positive(q)[2] \in Nat \ {0}
         /\ -Positive(q)[2] <= Positive(q)[1] /\ Positive(q)[1] <= Positive(q)[2]
<1> DEFINE ax == Magnitude(x)
           ay == Magnitude(y)
           az == Magnitude(z)
           axis == CASE ax > ay /\ ax > az -> 0 [] ~(ax > ay) /\ ay > az -> 1 [] OTHER -> 2
           face == FaceOf(x, y, z)
           Unit(n, d) == q = <<n, d>> /\ d # 0 /\ Magnitude(n) <= Magnitude(d)
<1>1. ~(x = 0 /\ y = 0 /\ z = 0)
  OBVIOUS
<1>2. /\ ax \in Nat /\ ay \in Nat /\ az \in Nat
      /\ (ax = 0 <=> x = 0) /\ (ay = 0 <=> y = 0) /\ (az = 0 <=> z = 0)
      /\ Magnitude(-x) = ax /\ Magnitude(-y) = ay
  BY DEF Magnitude
<1>3. face = IF (<<x, y, z>>)[axis + 1] < 0 THEN axis + 3 ELSE axis
  BY DEF FaceOf
<1>4. \/ axis = 0 /\ x # 0 /\ ay <= ax /\ az <= ax
      \/ axis = 1 /\ y # 0 /\ ax <= ay /\ az <= ay
      \/ axis = 2 /\ z # 0 /\ ax <= az /\ ay <= az
  <2> HIDE DEF ax, ay, az
  <2>1. CASE ax > ay /\ ax > az
    <3>1. axis = 0
      BY <2>1, <1>2
    <3> QED BY <3>1, <2>1, <1>2
  <2>2. CASE ~(ax > ay) /\ ay > az
    <3>1. axis = 1
      BY <2>2, <1>2
    <3> QED BY <3>1, <2>2, <1>2
  <2>3. CASE ~(ax > ay /\ ax > az) /\ ~(~(ax > ay) /\ ay > az)
    <3>1. axis = 2
      BY <2>3, <1>2
    <3> QED BY <3>1, <2>3, <1>2, <1>1
  <2> QED BY <2>1, <2>2, <2>3
<1> HIDE DEF axis, ax, ay, az
<1>5. \/ face \in {0, 3} /\ x # 0 /\ ay <= ax /\ az <= ax
      \/ face \in {1, 4} /\ y # 0 /\ ax <= ay /\ az <= ay
      \/ face \in {2, 5} /\ z # 0 /\ ax <= az /\ ay <= az
  BY <1>3, <1>4
<1> HIDE DEF face
<1>6. \E n, d \in Int : Unit(n, d)
  <2>1. CASE face = 0
    <3>1. q = <<y, x>> \/ q = <<z, x>>
      BY <2>1 DEF FaceUV, face
    <3> QED BY <3>1, <2>1, <1>5, <1>2 DEF ax, ay, az
  <2>2. CASE face = 1
    <3>1. q = <<-x, y>> \/ q = <<z, y>>
      BY <2>2 DEF FaceUV, face
    <3>2. -x \in Int
      OBVIOUS
    <3> QED BY <3>1, <3>2, <2>2, <1>5, <1>2 DEF ax, ay, az
  <2>3. CASE face = 2
    <3>1. q = <<-x, z>> \/ q = <<-y, z>>
      BY <2>3 DEF FaceUV, face
    <3>2. -x \in Int /\ -y \in Int
      OBVIOUS
    <3> QED BY <3>1, <3>2, <2>3, <1>5, <1>2 DEF ax, ay, az
  <2>4. CASE face = 3
    <3>1. q = <<z, x>> \/ q = <<y, x>>
      BY <2>4 DEF FaceUV, face
    <3> QED BY <3>1, <2>4, <1>5, <1>2 DEF ax, ay, az
  <2>5. CASE face = 4
    <3>1. q = <<z, y>> \/ q = <<-x, y>>
      BY <2>5 DEF FaceUV, face
    <3>2. -x \in Int
      OBVIOUS
    <3> QED BY <3>1, <3>2, <2>5, <1>5, <1>2 DEF ax, ay, az
  <2>6. CASE face = 5
    <3>1. q = <<-y, z>> \/ q = <<-x, z>>
      BY <2>6 DEF FaceUV, face
    <3>2. -x \in Int /\ -y \in Int
      OBVIOUS
    <3> QED BY <3>1, <3>2, <2>6, <1>5, <1>2 DEF ax, ay, az
  <2> QED BY <1>5, <2>1, <2>2, <2>3, <2>4, <2>5, <2>6
<1>7. PICK n \in Int, d \in Int : Unit(n, d)
  BY <1>6
<1>8. Positive(q) = IF d < 0 THEN <<-n, -d>> ELSE <<n, d>>
  BY <1>7 DEF Positive
<1>9. /\ Positive(q)[1] \in Int /\ Positive(q)[2] \in Nat \ {0}
      /\ -Positive(q)[2] <= Positive(q)[1] /\ Positive(q)[1] <= Positive(q)[2]
  BY <1>7, <1>8 DEF Magnitude
<1> QED BY <1>5, <1>9 DEF face

\* A leaf of a direction is the curve's position at its column and row.
LEMMA PlaceOfDirection ==
  ASSUME NEW p \in Int \X Int \X Int, p # <<0, 0, 0>>
  PROVE  LET face == FaceOf(p[1], p[2], p[3]) IN
           /\ face \in 0 .. 5
           /\ Column(p) \in 0 .. 2 ^ MaxLevel - 1 /\ Row(p) \in 0 .. 2 ^ MaxLevel - 1
           /\ LeafOf(p) = ((face * 2 ^ (PosBits - 1) + CurveWalk(face, Column(p), Row(p))) * 2) + 1
<1> DEFINE u == Positive(FaceUV(p[1], p[2], p[3]).u)
           v == Positive(FaceUV(p[1], p[2], p[3]).v)
           face == FaceOf(p[1], p[2], p[3])
<1>1. p[1] \in Int /\ p[2] \in Int /\ p[3] \in Int /\ <<p[1], p[2], p[3]>> # <<0, 0, 0>>
  OBVIOUS
<1>2. /\ face \in 0 .. 5
      /\ u[1] \in Int /\ u[2] \in Nat \ {0} /\ -u[2] <= u[1] /\ u[1] <= u[2]
  BY <1>1, FaceCoordinates
<1>3. v[1] \in Int /\ v[2] \in Nat \ {0} /\ -v[2] <= v[1] /\ v[1] <= v[2]
  BY <1>1, FaceCoordinates
<1>4. Column(p) = GridIndex(u[1], u[2]) /\ Row(p) = GridIndex(v[1], v[2])
  BY DEF Column, Row
<1>5. LeafOf(p) = ((face * 2 ^ (PosBits - 1) + CurveWalk(face, Column(p), Row(p))) * 2) + 1
  BY <1>4 DEF LeafOf, LeafFromXYZ, FaceIJToLeaf
<1> HIDE DEF u, v, face
<1>6. Column(p) \in 0 .. 2 ^ MaxLevel - 1 /\ Row(p) \in 0 .. 2 ^ MaxLevel - 1
  BY <1>2, <1>3, <1>4, GridIndexFound
<1> QED BY <1>2, <1>5, <1>6 DEF face

\* Two directions on one face, by their columns and rows.
InOrder(p, q) ==
  /\ Less(FaceUV(p[1], p[2], p[3]).u, FaceUV(q[1], q[2], q[3]).u) => Column(p) <= Column(q)
  /\ Less(FaceUV(p[1], p[2], p[3]).v, FaceUV(q[1], q[2], q[3]).v) => Row(p) <= Row(q)

\* On one face and on any two, columns and rows are in the order of u and of v.
LEMMA PlacesInOrder ==
  ASSUME NEW p \in Int \X Int \X Int, p # <<0, 0, 0>>,
         NEW q \in Int \X Int \X Int, q # <<0, 0, 0>>
  PROVE  InOrder(p, q)
<1>1. /\ p[1] \in Int /\ p[2] \in Int /\ p[3] \in Int /\ <<p[1], p[2], p[3]>> # <<0, 0, 0>>
      /\ q[1] \in Int /\ q[2] \in Int /\ q[3] \in Int /\ <<q[1], q[2], q[3]>> # <<0, 0, 0>>
  OBVIOUS
<1>2. ASSUME NEW a \in {FaceUV(p[1], p[2], p[3]).u, FaceUV(p[1], p[2], p[3]).v},
             NEW b \in {FaceUV(q[1], q[2], q[3]).u, FaceUV(q[1], q[2], q[3]).v}, Less(a, b)
      PROVE  GridIndex(Positive(a)[1], Positive(a)[2]) <= GridIndex(Positive(b)[1], Positive(b)[2])
  <2>1. /\ Positive(a)[1] \in Int /\ Positive(a)[2] \in Nat \ {0}
        /\ -Positive(a)[2] <= Positive(a)[1] /\ Positive(a)[1] <= Positive(a)[2]
    <3>1. CASE a = FaceUV(p[1], p[2], p[3]).u
      BY <3>1, <1>1, FaceCoordinates
    <3>2. CASE a = FaceUV(p[1], p[2], p[3]).v
      BY <3>2, <1>1, FaceCoordinates
    <3> QED BY <3>1, <3>2
  <2>2. /\ Positive(b)[1] \in Int /\ Positive(b)[2] \in Nat \ {0}
        /\ -Positive(b)[2] <= Positive(b)[1] /\ Positive(b)[1] <= Positive(b)[2]
    <3>1. CASE b = FaceUV(q[1], q[2], q[3]).u
      BY <3>1, <1>1, FaceCoordinates
    <3>2. CASE b = FaceUV(q[1], q[2], q[3]).v
      BY <3>2, <1>1, FaceCoordinates
    <3> QED BY <3>1, <3>2
  <2>3. Positive(a)[1] * Positive(b)[2] < Positive(b)[1] * Positive(a)[2]
    BY <1>2 DEF Less
  <2> QED BY <2>1, <2>2, <2>3, GridIndexOrder
<1> QED BY <1>2 DEF InOrder, Column, Row

\* The curve's positions of two columns and rows.
SideBySide(face, i, j, i2, j2) ==
  LET n  == CurveWalk(face, i, j)
      n2 == CurveWalk(face, i2, j2)
  IN /\ n \in Int /\ n2 \in Int
     /\ n2 = n + 1 => Magnitude(i - i2) + Magnitude(j - j2) = 1
     /\ \A s \in 0 .. MaxLevel :
          n \div 2 ^ (2 * s) = n2 \div 2 ^ (2 * s) <=>
            i \div 2 ^ s = i2 \div 2 ^ s /\ j \div 2 ^ s = j2 \div 2 ^ s

\* Positions that follow each other are of squares with a common edge, and positions
\* have a parent in common exactly if the squares have.
LEMMA WalksSideBySide ==
  ASSUME NEW face \in 0 .. 5,
         NEW i \in 0 .. 2 ^ MaxLevel - 1, NEW j \in 0 .. 2 ^ MaxLevel - 1,
         NEW i2 \in 0 .. 2 ^ MaxLevel - 1, NEW j2 \in 0 .. 2 ^ MaxLevel - 1
  PROVE  SideBySide(face, i, j, i2, j2)
<1> DEFINE w == LookupBits * Lookups
           start == [pos |-> 0, orient |-> face % 2]
           n == CurveWalk(face, i, j)
           n2 == CurveWalk(face, i2, j2)
<1>1. w \in Nat /\ MaxLevel \in Nat /\ MaxLevel <= w
  BY CellAssumption
<1>2. start \in Turns
  BY DEF Turns
<1>3. 2 ^ MaxLevel \in Nat \ {0}
  BY <1>1, PowerOfTwo
<1>4. i \in Nat /\ j \in Nat /\ i2 \in Nat /\ j2 \in Nat
  BY <1>3
<1>5. PICK f : Descent(f, w, i, j, start)
  <2> HIDE DEF w, start
  <2> QED BY <1>1, <1>2, <1>4, DescentExists
<1>6. PICK g : Descent(g, w, i2, j2, start)
  <2> HIDE DEF w, start
  <2> QED BY <1>1, <1>2, <1>4, DescentExists
<1>7. n = f[w].pos /\ n2 = g[w].pos
  BY <1>4, <1>5, <1>6, WalkDescends
<1> HIDE DEF w, start, n, n2
<1>8. ASSUME NEW x \in 0 .. 2 ^ MaxLevel - 1 PROVE HighBits(x, w, 0) = 0
  <2> DEFINE a == 2 ^ MaxLevel
             b == 2 ^ (w - MaxLevel)
             c == 2 ^ w
  <2>1. w - MaxLevel \in Nat /\ MaxLevel + (w - MaxLevel) = w
    BY <1>1
  <2>2. 2 ^ (MaxLevel + (w - MaxLevel)) = a * b
    BY <1>1, <2>1, PowerOfSum
  <2>3. c = a * b
    BY <2>1, <2>2
  <2>4. a \in Nat \ {0} /\ b \in Nat \ {0} /\ c \in Nat \ {0}
    BY <1>1, <2>1, PowerOfTwo
  <2>5. HighBits(x, w, 0) = x \div c
    <3>1. w - 0 = w
      BY <1>1
    <3> QED BY <3>1 DEF HighBits
  <2>6. x \in 0 .. a - 1
    OBVIOUS
  <2> HIDE DEF a, b, c
  <2>7. a <= a * b
    BY <2>4
  <2>8. x \in 0 .. c - 1
    BY <2>3, <2>4, <2>6, <2>7
  <2>9. x \div c = 0
    <3>1. x \in Int /\ 0 \in Int /\ x = 0 * c + x
      BY <2>4, <2>6
    <3> QED BY <3>1, <2>4, <2>8, QuotientIs
  <2> QED BY <2>5, <2>9
<1>9. ASSUME NEW x \in Nat PROVE HighBits(x, w, w) = x
  <2>1. w - w = 0 /\ 2 ^ 0 = 1 /\ x \div 1 = x
    BY <1>1, SmallPowers
  <2> QED BY <2>1 DEF HighBits
<1>10. ASSUME NEW s \in 0 .. MaxLevel, NEW x PROVE HighBits(x, w, w - s) = x \div 2 ^ s
  <2>1. w - (w - s) = s
    BY <1>1
  <2> QED BY <2>1 DEF HighBits
<1>11. ASSUME NEW t \in 0 .. w PROVE Alike(f, g, w, i, j, i2, j2, t)
  <2>1. HighBits(i, w, 0) = HighBits(i2, w, 0) /\ HighBits(j, w, 0) = HighBits(j2, w, 0)
    BY <1>8
  <2>2. i \in Int /\ j \in Int /\ i2 \in Int /\ j2 \in Int
    BY <1>4
  <2> QED BY <1>1, <1>5, <1>6, <2>1, <2>2, DescentsAlike
<1>12. n \in Int /\ n2 \in Int
  <2>1. f[w] \in Turns /\ g[w] \in Turns
    BY <1>1, <1>5, <1>6 DEF Descent
  <2> QED BY <2>1, <1>7 DEF Turns
<1>13. ASSUME n2 = n + 1 PROVE Magnitude(i - i2) + Magnitude(j - j2) = 1
  <2>1. Alike(f, g, w, i, j, i2, j2, w)
    BY <1>1, <1>11
  <2>2. Touch(i, j, f[w].orient, i2, j2, g[w].orient)
    BY <2>1, <1>4, <1>7, <1>9, <1>13 DEF Alike
  <2>3. Magnitude(i2 - i) + Magnitude(j2 - j) = 1
    BY <2>2 DEF Touch
  <2> QED BY <2>3, <1>4 DEF Magnitude
<1>14. ASSUME NEW s \in 0 .. MaxLevel
       PROVE  n \div 2 ^ (2 * s) = n2 \div 2 ^ (2 * s) <=>
                i \div 2 ^ s = i2 \div 2 ^ s /\ j \div 2 ^ s = j2 \div 2 ^ s
  <2>1. s \in 0 .. w /\ w - s \in 0 .. w
    BY <1>1
  <2>2. n \div 2 ^ (2 * s) = f[w - s].pos /\ n2 \div 2 ^ (2 * s) = g[w - s].pos
    <3>1. f[w].pos \div 2 ^ (2 * s) = f[w - s].pos
      BY <1>1, <1>4, <1>5, <2>1, PositionsOfAncestors
    <3>2. g[w].pos \div 2 ^ (2 * s) = g[w - s].pos
      BY <1>1, <1>4, <1>6, <2>1, PositionsOfAncestors
    <3> QED BY <3>1, <3>2, <1>7
  <2>3. f[w - s].pos = g[w - s].pos <=>
          /\ HighBits(i, w, w - s) = HighBits(i2, w, w - s)
          /\ HighBits(j, w, w - s) = HighBits(j2, w, w - s)
    BY <2>1, <1>11 DEF Alike
  <2> QED BY <2>2, <2>3, <1>10
<1> QED BY <1>12, <1>13, <1>14 DEF SideBySide, n, n2

\* What is true of positions is true of the leaves of two directions on one face.
LEMMA PlacesKept ==
  ASSUME NEW d \in Directions, NEW e \in Directions,
         FaceOf(d[1], d[2], d[3]) = FaceOf(e[1], e[2], e[3])
  PROVE  /\ Less(FaceUV(d[1], d[2], d[3]).u, FaceUV(e[1], e[2], e[3]).u) => Column(d) <= Column(e)
         /\ Less(FaceUV(d[1], d[2], d[3]).v, FaceUV(e[1], e[2], e[3]).v) => Row(d) <= Row(e)
         /\ LeafOf(e) = LeafOf(d) + 2 =>
              Magnitude(Column(d) - Column(e)) + Magnitude(Row(d) - Row(e)) = 1
         /\ \A l \in 0 .. MaxLevel :
              LET side == 2 ^ (MaxLevel - l) IN
                Parent(LeafOf(d), l) = Parent(LeafOf(e), l) <=>
                  Column(d) \div side = Column(e) \div side /\ Row(d) \div side = Row(e) \div side
<1> DEFINE face == FaceOf(d[1], d[2], d[3])
           i == Column(d)
           j == Row(d)
           i2 == Column(e)
           j2 == Row(e)
           n == CurveWalk(face, i, j)
           n2 == CurveWalk(face, i2, j2)
           base == face * 2 ^ (PosBits - 1)
<1>1. /\ d \in Int \X Int \X Int /\ d # <<0, 0, 0>>
      /\ e \in Int \X Int \X Int /\ e # <<0, 0, 0>>
  BY EncodingsAssumption
<1>2. InOrder(d, e)
  BY <1>1, PlacesInOrder
<1>3. /\ face \in 0 .. 5
      /\ i \in 0 .. 2 ^ MaxLevel - 1 /\ j \in 0 .. 2 ^ MaxLevel - 1
      /\ LeafOf(d) = ((base + n) * 2) + 1
  BY <1>1, PlaceOfDirection
<1>4. /\ i2 \in 0 .. 2 ^ MaxLevel - 1 /\ j2 \in 0 .. 2 ^ MaxLevel - 1
      /\ LeafOf(e) = ((base + n2) * 2) + 1
  BY <1>1, PlaceOfDirection
<1> HIDE DEF i, j, i2, j2, face
<1>5. SideBySide(face, i, j, i2, j2)
  BY <1>3, <1>4, WalksSideBySide
<1>6. /\ n \in Int /\ n2 \in Int
      /\ n2 = n + 1 => Magnitude(i - i2) + Magnitude(j - j2) = 1
      /\ \A s \in 0 .. MaxLevel :
           n \div 2 ^ (2 * s) = n2 \div 2 ^ (2 * s) <=>
             i \div 2 ^ s = i2 \div 2 ^ s /\ j \div 2 ^ s = j2 \div 2 ^ s
  BY <1>5 DEF SideBySide
<1> HIDE DEF n, n2
<1>7. LeafOf(e) = LeafOf(d) + 2 => Magnitude(i - i2) + Magnitude(j - j2) = 1
  <2>1. base \in Int
    <3>1. PosBits - 1 \in Nat
      BY CellAssumption DEF PosBits
    <3>2. 2 ^ (PosBits - 1) \in Nat
      BY <3>1, PowerOfTwo
    <3> HIDE DEF PosBits
    <3> QED BY <3>2, <1>3
  <2> HIDE DEF base
  <2>2. LeafOf(e) = LeafOf(d) + 2 => n2 = n + 1
    BY <2>1, <1>3, <1>4, <1>6
  <2> QED BY <2>2, <1>6
<1>8. ASSUME NEW l \in 0 .. MaxLevel
      PROVE  Parent(LeafOf(d), l) = Parent(LeafOf(e), l) <=>
               /\ i \div 2 ^ (MaxLevel - l) = i2 \div 2 ^ (MaxLevel - l)
               /\ j \div 2 ^ (MaxLevel - l) = j2 \div 2 ^ (MaxLevel - l)
  <2>1. MaxLevel - l \in 0 .. MaxLevel
    BY CellAssumption
  <2>2. Parent(LeafOf(d), l) = Parent(LeafOf(e), l) <=>
          n \div 2 ^ (2 * (MaxLevel - l)) = n2 \div 2 ^ (2 * (MaxLevel - l))
    BY <1>3, <1>4, <1>6, ParentOfPosition
  <2> QED BY <2>1, <2>2, <1>6
<1> QED BY <1>2, <1>7, <1>8 DEF InOrder, i, j, i2, j2

\* So the search for a point starts from a leaf.
LEMMA LeafOfDirection ==
  ASSUME NEW p \in Int \X Int \X Int, p # <<0, 0, 0>>
  PROVE  LeafOf(p) \in Int /\ LeafOf(p) % 2 = 1
<1> DEFINE face == FaceOf(p[1], p[2], p[3])
           n == CurveWalk(face, Column(p), Row(p))
           base == face * 2 ^ (PosBits - 1)
<1>1. /\ face \in 0 .. 5
      /\ Column(p) \in 0 .. 2 ^ MaxLevel - 1 /\ Row(p) \in 0 .. 2 ^ MaxLevel - 1
      /\ LeafOf(p) = ((base + n) * 2) + 1
  BY PlaceOfDirection
<1> HIDE DEF face
<1>2. n \in Int
  BY <1>1, WalksSideBySide DEF SideBySide
<1>3. base \in Int
  <2>1. PosBits - 1 \in Nat
    BY CellAssumption DEF PosBits
  <2>2. 2 ^ (PosBits - 1) \in Nat
    BY <2>1, PowerOfTwo
  <2> HIDE DEF PosBits
  <2> QED BY <2>2, <1>1
<1> HIDE DEF n, base
<1> QED BY <1>1, <1>2, <1>3

---------------------------------------------------------------------------
(* Containment *)

\* A leaf is one of a cell's exactly if it is in the cell's range.
LEMMA LeafInRange ==
  ASSUME NEW c, RangeMin(c) \in Int, RangeMax(c) \in Int, NEW leaf \in Int, leaf % 2 = 1
  PROVE  leaf \in LeavesOf(c) <=> CellContains(c, leaf)
BY DEF LeavesOf, CellContains

\* A point is in a canonical cell set exactly if it is in one of the cells listed.
LEMMA CellMembership ==
  ASSUME NEW ids \in Seq(Nat), CheckCanonical(ids), NEW leaf \in Int, leaf % 2 = 1
  PROVE  CellSetContainsLeaf(ids, leaf) <=> leaf \in Covered(ids)
<1> DEFINE holds == {n \in 1 .. Len(ids) : RangeMax(ids[n]) < leaf}
           p == PartitionPoint(ids, holds)
<1>1. /\ Len(ids) \in Nat /\ ids \in [1 .. Len(ids) -> Nat] /\ DOMAIN ids = 1 .. Len(ids)
  OBVIOUS
<1>2. \A k \in 1 .. Len(ids) : IsCellId(ids[k])
  BY <1>1 DEF CheckCanonical
<1>3. \A k \in 2 .. Len(ids) : RangeMax(ids[k - 1]) < RangeMin(ids[k])
  BY <1>1 DEF CheckCanonical
<1>4. CellSetContainsLeaf(ids, leaf) <=> p < Len(ids) /\ RangeMin(ids[p + 1]) <= leaf
  BY <1>1 DEF CellSetContainsLeaf
<1>5. \A k \in 1 .. Len(ids) : leaf \in LeavesOf(ids[k]) <=> CellContains(ids[k], leaf)
  <2> SUFFICES ASSUME NEW k \in 1 .. Len(ids)
               PROVE  leaf \in LeavesOf(ids[k]) <=> CellContains(ids[k], leaf)
    OBVIOUS
  <2>1. ids[k] \in Nat /\ IsCellId(ids[k])
    BY <1>1, <1>2
  <2>2. RangeMin(ids[k]) \in Int /\ RangeMax(ids[k]) \in Int
    BY <2>1, CellRange
  <2> QED BY <2>2, LeafInRange
<1>6. leaf \in Covered(ids) <=> \E k \in 1 .. Len(ids) : CellContains(ids[k], leaf)
  BY <1>1, <1>5 DEF Covered
<1> HIDE DEF holds, p
<1>7. /\ p \in 0 .. Len(ids)
      /\ p < Len(ids) /\ RangeMin(ids[p + 1]) <= leaf => CellContains(ids[p + 1], leaf)
      /\ \A n \in 1 .. Len(ids) : CellContains(ids[n], leaf) =>
           /\ p < Len(ids) /\ RangeMin(ids[p + 1]) <= leaf
           /\ n \in p + 1 .. Len(ids) /\ ids[n] = ids[p + 1]
  <2>1. Ordered(Len(ids), ids)
    BY <1>2, <1>3 DEF Ordered
  <2>2. Found(Len(ids), ids, leaf, p)
    BY <1>1, <2>1, SearchFinds DEF holds, p
  <2> QED BY <2>2 DEF Found
<1>8. p < Len(ids) => p + 1 \in 1 .. Len(ids)
  BY <1>7, <1>1
<1> QED BY <1>4, <1>6, <1>7, <1>8

\* A point at a height is in a canonical voxel set exactly if the height is in the bins
\* the entries list there.
LEMMA VoxelMembership ==
  ASSUME NEW vs \in Seq(Voxels), CheckVoxelCanonical(vs), NEW leaf \in Int, leaf % 2 = 1,
         NEW h \in Int \cup {NoHeight}, h # NoHeight
  PROVE  VoxelSetContains(vs, leaf, h) <=> h \in Bins \cap BinsAt(vs, leaf)
<1> DEFINE c == [k \in 1 .. Len(vs) |-> vs[k].cell]
           holds == {n \in 1 .. Len(vs) : RangeMax(vs[n].cell) < leaf}
           p == PartitionPoint(vs, holds)
           InBins(v) == v.min <= FIndex(h, v.zoom) /\ FIndex(h, v.zoom) <= v.max
<1>1. /\ Len(vs) \in Nat /\ DOMAIN vs = 1 .. Len(vs) /\ h \in Int
      /\ \A k \in 1 .. Len(vs) : vs[k] \in Voxels
  OBVIOUS
<1>2. c \in [1 .. Len(vs) -> Nat]
  BY <1>1 DEF Voxels
<1>3. \A k \in 1 .. Len(vs) : IsCellId(c[k]) /\ VoxelBoundsOk(vs[k])
  BY <1>1 DEF CheckVoxelCanonical
<1>4. \A k \in 2 .. Len(vs) : c[k - 1] = c[k] \/ RangeMax(c[k - 1]) < RangeMin(c[k])
  <2> SUFFICES ASSUME NEW k \in 2 .. Len(vs)
               PROVE  c[k - 1] = c[k] \/ RangeMax(c[k - 1]) < RangeMin(c[k])
    OBVIOUS
  <2>1. k \in DOMAIN vs /\ k > 1 /\ k - 1 \in 1 .. Len(vs) /\ k \in 1 .. Len(vs)
    BY <1>1
  <2>2. Separate(vs[k - 1], vs[k])
    BY <2>1 DEF CheckVoxelCanonical
  <2> QED BY <2>1, <2>2 DEF Separate
<1>5. BinSize(0) \in Nat \ {0}
  BY VoxelAssumption, PowerOfTwo DEF BinSize
<1>6. FIndex(h, 0) # NoHeight <=> h \in Bins
  <2>1. CASE h \in Bins
    <3>1. FIndex(h, 0) = h \div BinSize(0)
      BY <2>1, <1>5 DEF FIndex, Bins
    <3>2. h \div BinSize(0) \in Int
      BY <1>1, <1>5, DivisionBounds
    <3> QED BY <2>1, <3>1, <3>2, VoxelAssumption
  <2>2. CASE h \notin Bins
    BY <2>2, <1>1, <1>5 DEF FIndex, Bins
  <2> QED BY <2>1, <2>2
<1>7. VoxelSetContains(vs, leaf, h) <=>
        /\ h \in Bins
        /\ p < Len(vs) /\ RangeMin(vs[p + 1].cell) <= leaf
        /\ \E n \in p + 1 .. Len(vs) : vs[n].cell = vs[p + 1].cell /\ InBins(vs[n])
  BY <1>1, <1>6 DEF VoxelSetContains
<1>8. \A k \in 1 .. Len(vs) : leaf \in LeavesOf(vs[k].cell) <=> CellContains(c[k], leaf)
  <2> SUFFICES ASSUME NEW k \in 1 .. Len(vs)
               PROVE  leaf \in LeavesOf(vs[k].cell) <=> CellContains(c[k], leaf)
    OBVIOUS
  <2>1. c[k] \in Nat /\ IsCellId(c[k]) /\ c[k] = vs[k].cell
    BY <1>2, <1>3
  <2>2. RangeMin(c[k]) \in Int /\ RangeMax(c[k]) \in Int
    BY <2>1, CellRange
  <2> HIDE DEF c
  <2> QED BY <2>1, <2>2, LeafInRange
<1>9. h \in Bins => \A k \in 1 .. Len(vs) :
        InBins(vs[k]) <=> VoxelLo(vs[k]) <= h /\ h < VoxelHi(vs[k])
  BY <1>1, <1>3, BinOfHeight
<1>10. h \in BinsAt(vs, leaf) <=>
         h \in Bins /\ \E k \in 1 .. Len(vs) : CellContains(c[k], leaf) /\ InBins(vs[k])
  <2> HIDE DEF c, InBins
  <2> QED BY <1>1, <1>8, <1>9 DEF BinsAt, BinsOf
<1>11. \A k \in 1 .. Len(vs) : c[k] = vs[k].cell
  OBVIOUS
<1>12. holds = {n \in 1 .. Len(vs) : RangeMax(c[n]) < leaf}
  OBVIOUS
<1> HIDE DEF holds, p, c, InBins
<1>13. /\ p \in 0 .. Len(vs)
       /\ p < Len(vs) /\ RangeMin(c[p + 1]) <= leaf => CellContains(c[p + 1], leaf)
       /\ \A n \in 1 .. Len(vs) : CellContains(c[n], leaf) =>
            /\ p < Len(vs) /\ RangeMin(c[p + 1]) <= leaf
            /\ n \in p + 1 .. Len(vs) /\ c[n] = c[p + 1]
  <2>1. Ordered(Len(vs), c)
    BY <1>3, <1>4 DEF Ordered
  <2>2. Found(Len(vs), c, leaf, p)
    BY <1>1, <1>2, <1>12, <2>1, SearchFinds DEF p
  <2> QED BY <2>2 DEF Found
<1>14. p < Len(vs) => p + 1 \in 1 .. Len(vs) /\ \A n \in p + 1 .. Len(vs) : n \in 1 .. Len(vs)
  BY <1>13, <1>1
<1>15. ASSUME h \in Bins, p < Len(vs), RangeMin(vs[p + 1].cell) <= leaf,
              NEW n \in p + 1 .. Len(vs), vs[n].cell = vs[p + 1].cell, InBins(vs[n])
       PROVE  h \in BinsAt(vs, leaf)
  <2>1. n \in 1 .. Len(vs) /\ p + 1 \in 1 .. Len(vs)
    BY <1>14, <1>15
  <2>2. c[n] = c[p + 1] /\ c[p + 1] = vs[p + 1].cell
    BY <2>1, <1>11, <1>15
  <2>3. CellContains(c[n], leaf)
    BY <2>2, <1>13, <1>15
  <2> QED BY <2>1, <2>3, <1>10, <1>15
<1>16. ASSUME h \in Bins, NEW k \in 1 .. Len(vs), CellContains(c[k], leaf), InBins(vs[k])
       PROVE  VoxelSetContains(vs, leaf, h)
  <2>1. p < Len(vs) /\ RangeMin(c[p + 1]) <= leaf /\ k \in p + 1 .. Len(vs) /\ c[k] = c[p + 1]
    BY <1>13, <1>16
  <2>2. c[k] = vs[k].cell /\ c[p + 1] = vs[p + 1].cell
    BY <2>1, <1>11, <1>14
  <2> QED BY <2>1, <2>2, <1>7, <1>16
<1> QED BY <1>7, <1>10, <1>15, <1>16

\* Without an expected region or type, what is asserted is the containment.
LEMMA AssertedContainment ==
  ASSUME NEW r, NEW p \in Asked, NEW h
  PROVE  Asserted(r, Within(p, h)) <=> RegionContains(r, p, h) = "pass"
<1> DEFINE e == Within(p, h)
<1>1. /\ e.region = None /\ e.type = None /\ e.point = p /\ e.height = h
      /\ e["region"] = None /\ e["type"] = None /\ e["point"] = p
  BY DEF Within
<1>2. p # None
  BY EncodingsAssumption
<1>3. RegionClaim(r, e.region) = "pass"
  BY <1>1 DEF RegionClaim
<1> HIDE DEF e
<1>4. Asserted(r, e) <=>
        /\ e["region"] # None \/ e["type"] # None \/ e["point"] # None
        /\ RegionClaim(r, e.region) = "pass"
        /\ e.type # None => RegionType(r, e.type) = "pass"
        /\ e.point # None => RegionContains(r, e.point, e.height) = "pass"
  BY AssertedChecks
<1>5. Asserted(r, e) <=> RegionContains(r, p, h) = "pass"
  BY <1>1, <1>2, <1>3, <1>4
<1> QED BY <1>5 DEF e

\* What is asserted of a point and a set of cells or voxels.
LEMMA Containment ==
  ASSUME NEW vs \in Seq(Voxels), NEW p \in Asked
  PROVE  LET Inside(cells) == p # NoPoint /\ LeafOf(p) \in cells IN
           /\ Asserted([type |-> "cellset", area |-> Cells(vs)], Within(p, NoHeight)) <=>
                CheckCanonical(Cells(vs)) /\ Inside(Covered(Cells(vs)))
           /\ \A h \in SomeHeights :
                Asserted([type |-> "voxelset", area |-> vs], Within(p, h)) <=>
                  /\ CheckVoxelCanonical(vs) /\ Inside(Covered(Cells(vs)))
                  /\ h \in Bins \cap BinsAt(vs, LeafOf(p))
<1> DEFINE ids == Cells(vs)
           leaf == LeafOf(p)
           cellset == [type |-> "cellset", area |-> ids]
           voxelset == [type |-> "voxelset", area |-> vs]
<1>1. p # NoPoint => leaf \in Int /\ leaf % 2 = 1
  BY EncodingsAssumption, LeafOfDirection
<1>2. cellset # NoRegion /\ voxelset # NoRegion
  <2>1. cellset.type = "cellset" /\ voxelset.type = "voxelset" /\ NoRegion.type = "none"
    BY DEF NoRegion
  <2> QED BY <2>1
<1>3. Asserted(cellset, Within(p, NoHeight)) <=> InCellSet(ids, p)
  <2>1. cellset.type = "cellset" /\ cellset.area = ids
    OBVIOUS
  <2> HIDE DEF cellset, ids
  <2> QED BY <2>1, <1>2, AssertedContainment DEF RegionContains
<1>4. ASSUME NEW h \in SomeHeights
      PROVE  Asserted(voxelset, Within(p, h)) <=> InVoxelSet(vs, p, h)
  <2>1. voxelset.type = "voxelset" /\ voxelset.area = vs
    OBVIOUS
  <2> HIDE DEF voxelset, ids
  <2> QED BY <2>1, <1>2, AssertedContainment DEF RegionContains
<1>5. ids \in Seq(Nat)
  <2>1. ids = [k \in 1 .. Len(vs) |-> vs[k].cell] /\ Len(vs) \in Nat
    BY DEF Cells
  <2>2. \A k \in 1 .. Len(vs) : vs[k].cell \in Nat
    <3>1. \A k \in 1 .. Len(vs) : vs[k] \in Voxels
      OBVIOUS
    <3> QED BY <3>1 DEF Voxels
  <2> HIDE DEF ids
  <2> QED BY <2>1, <2>2
<1> HIDE DEF cellset, voxelset, ids, leaf
<1>6. InCellSet(ids, p) <=> CheckCanonical(ids) /\ p # NoPoint /\ leaf \in Covered(ids)
  BY <1>1, <1>5, CellMembership DEF InCellSet, leaf
<1>7. ASSUME NEW h \in SomeHeights
      PROVE  InVoxelSet(vs, p, h) <=>
               /\ CheckVoxelCanonical(vs) /\ p # NoPoint /\ leaf \in Covered(ids)
               /\ h \in Bins \cap BinsAt(vs, leaf)
  <2>1. h \in Int \cup {NoHeight}
    BY VoxelAssumption, PowerOfTwo DEF SomeHeights, BinSize
  <2>2. NoHeight \notin Bins
    BY VoxelAssumption, PowerOfTwo DEF Bins, BinSize
  <2>3. h \in BinsAt(vs, leaf) => leaf \in Covered(ids)
    BY DEF BinsAt, BinsOf, Covered, ids, Cells
  <2>4. InVoxelSet(vs, p, h) <=>
          CheckVoxelCanonical(vs) /\ h # NoHeight /\ p # NoPoint /\ VoxelSetContains(vs, leaf, h)
    BY DEF InVoxelSet, leaf
  <2>5. CheckVoxelCanonical(vs) /\ h # NoHeight /\ p # NoPoint =>
          (VoxelSetContains(vs, leaf, h) <=> h \in Bins \cap BinsAt(vs, leaf))
    BY <1>1, <2>1, VoxelMembership
  <2> QED BY <2>2, <2>3, <2>4, <2>5
<1> QED BY <1>3, <1>4, <1>6, <1>7 DEF cellset, voxelset, ids, leaf

---------------------------------------------------------------------------
(* One spelling *)

\* A cell as the numbers it stands for: how many times it was merged from leaves, and
\* its place among the cells of that size.  A leaf 2y + 1 is in it if y is.
Size(c)  == CHOOSE k \in 0 .. MaxLevel : 2 ^ (2 * k) = Lsb(c)
Place(c) == c \div (2 * Lsb(c))
Holds(c, y) == y \div 2 ^ (2 * Size(c)) = Place(c)

\* A cell id other than 0 has a lowest bit.
LEMMA LowestBit ==
  ASSUME NEW c \in Nat \ {0}, c \div 2 ^ PosBits < 6
  PROVE  Lsb(c) \in Nat \ {0} /\ c % Lsb(c) = 0 /\ c % (2 * Lsb(c)) # 0
<1>1. PosBits \in Nat
  BY CellAssumption DEF PosBits
<1> HIDE DEF PosBits
<1> DEFINE odd == {n \in Nat : c % 2 ^ n # 0}
<1>2. PosBits + 3 \in odd
  <2> DEFINE b == 2 ^ PosBits
  <2>1. b \in Nat \ {0}
    BY <1>1, PowerOfTwo
  <2>2. 2 ^ (PosBits + 3) = b * 8
    <3>1. 2 ^ 3 = 8
      OBVIOUS
    <3>2. 3 \in Nat
      OBVIOUS
    <3>3. 2 ^ (PosBits + 3) = 2 ^ PosBits * 2 ^ 3
      BY <1>1, <3>2, PowerOfSum
    <3> QED BY <3>1, <3>3
  <2> HIDE DEF b
  <2>3. c \div b \in Int /\ c < (c \div b + 1) * b
    BY <2>1, DivisionBounds
  <2>4. c < b * 8
    <3> DEFINE q == c \div b
    <3>1. q \in Int /\ q + 1 <= 6 /\ c < (q + 1) * b
      BY <2>3 DEF b
    <3> HIDE DEF q
    <3>2. (q + 1) * b <= 6 * b
      BY <3>1, <2>1
    <3>3. (q + 1) * b \in Int
      BY <3>1, <2>1
    <3> QED BY <3>1, <3>2, <3>3, <2>1
  <2>5. c % (b * 8) = c
    <3> DEFINE m == b * 8
    <3>1. m \in Nat \ {0} /\ c < m
      BY <2>1, <2>4
    <3> HIDE DEF m
    <3>2. c % m = c
      BY <3>1
    <3> QED BY <3>2 DEF m
  <2> QED BY <1>1, <2>2, <2>5
<1>3. PICK n \in odd : \A j \in odd : n <= j
  <2>1. odd \subseteq Nat
    OBVIOUS
  <2> HIDE DEF odd
  <2> QED BY <1>2, <2>1, LeastNumber
<1>4. n # 0
  <2>1. c % 2 ^ 0 = 0
    BY SmallPowers
  <2> QED BY <2>1, <1>3
<1>5. n - 1 \in 0 .. PosBits + 2 /\ n - 1 \in Nat
  BY <1>1, <1>2, <1>3, <1>4
<1>6. c % 2 ^ (n - 1) = 0
  <2>1. n - 1 \notin odd
    BY <1>3, <1>5
  <2> QED BY <2>1, <1>5
<1>7. c % (2 * 2 ^ (n - 1)) # 0
  <2>1. 2 ^ (1 + (n - 1)) = 2 ^ 1 * 2 ^ (n - 1)
    BY <1>5, PowerOfSum
  <2>2. 1 + (n - 1) = n
    BY <1>3
  <2>3. 2 ^ n = 2 * 2 ^ (n - 1)
    BY <2>1, <2>2, SmallPowers
  <2> QED BY <2>3, <1>3
<1> DEFINE bits == {2 ^ k : k \in 0 .. PosBits + 2}
<1>8. \E b \in bits : c % b = 0 /\ c % (2 * b) # 0
  BY <1>5, <1>6, <1>7
<1>9. Lsb(c) = CHOOSE b \in bits : c % b = 0 /\ c % (2 * b) # 0
  BY DEF Lsb
<1>10. bits \subseteq Nat \ {0}
  BY <1>1, PowerOfTwo
<1> HIDE DEF bits
<1> QED BY <1>8, <1>9, <1>10

\* A cell id is the middle of its range: an odd multiple of a power of four.
LEMMA CellForm ==
  ASSUME NEW c \in Nat, IsCellId(c)
  PROVE  /\ Size(c) \in 0 .. MaxLevel /\ Lsb(c) = 2 ^ (2 * Size(c)) /\ Lsb(c) \in Nat \ {0}
         /\ Place(c) \in Nat /\ c = (2 * Place(c) + 1) * Lsb(c)
         /\ Level(c) = MaxLevel - Size(c)
         /\ RangeMin(c) = 2 * (Place(c) * Lsb(c)) + 1
         /\ RangeMax(c) = 2 * (Place(c) * Lsb(c)) + (2 * Lsb(c) - 1)
<1>1. Size(c) \in 0 .. MaxLevel /\ Lsb(c) = 2 ^ (2 * Size(c))
  <2>1. \E k \in 0 .. MaxLevel : 2 ^ (2 * k) = Lsb(c)
    BY DEF IsCellId
  <2> QED BY <2>1 DEF Size
<1>2. Lsb(c) \in Nat \ {0}
  <2>1. 2 * Size(c) \in Nat
    BY <1>1, CellAssumption
  <2> QED BY <2>1, <1>1, PowerOfTwo
<1>3. c # 0
  BY <1>2 DEF Lsb
<1>4. c % Lsb(c) = 0 /\ c % (2 * Lsb(c)) # 0
  BY <1>3, LowestBit DEF IsCellId
<1> DEFINE l == Lsb(c)
           m == c \div l
           p == Place(c)
<1>5. l \in Nat \ {0} /\ m \in Int /\ c = m * l
  BY <1>2, <1>4
<1>6. p = m \div 2
  <2>1. (c \div l) \div 2 = c \div (l * 2)
    <3>1. 2 \in Nat \ {0} /\ c \in Int
      OBVIOUS
    <3> QED BY <3>1, <1>2, DivideTwice, Zenon
  <2>2. l * 2 = 2 * l
    BY <1>2
  <2> QED BY <2>1, <2>2 DEF Place
<1> HIDE DEF m
<1>7. p \in Int /\ (m = 2 * p \/ m = 2 * p + 1)
  BY <1>5, <1>6
<1>8. c % (2 * l) # 0
  BY <1>4
<1> HIDE DEF l, p
<1>9. m # 2 * p
  <2> SUFFICES ASSUME m = 2 * p PROVE FALSE
    OBVIOUS
  <2> DEFINE h == 2 * l
  <2>1. h \in Nat \ {0} /\ c = p * h
    BY <1>5, <1>7
  <2>2. c % h # 0
    BY <1>8
  <2> HIDE DEF h
  <2>3. 0 \in 0 .. h - 1 /\ c = p * h + 0
    BY <2>1, <1>7
  <2>4. c \div h = p
    BY <2>1, <2>3, <1>7, QuotientIs
  <2>5. c = (c \div h) * h + (c % h)
    <3>1. c \in Int
      OBVIOUS
    <3> HIDE <2>4
    <3> QED BY <3>1, <2>1
  <2> QED BY <2>1, <2>2, <2>4, <2>5, <1>7
<1>10. c = (2 * p + 1) * l
  BY <1>5, <1>7, <1>9
<1>11. p \in Nat
  <2> SUFFICES ASSUME p < 0 PROVE FALSE
    BY <1>7
  <2>1. 2 * p + 1 < 0 /\ 2 * p + 1 \in Int
    BY <1>7
  <2>2. (2 * p + 1) * l < 0
    BY <2>1, <1>5
  <2> QED BY <2>2, <1>10
<1>12. (2 * p + 1) * l = 2 * (p * l) + l /\ p * l \in Int
  BY <1>5, <1>7
<1>13. RangeMin(c) = c - (l - 1) /\ RangeMax(c) = c + (l - 1)
  BY DEF RangeMin, RangeMax, l
<1>14. RangeMin(c) = 2 * (p * l) + 1 /\ RangeMax(c) = 2 * (p * l) + (2 * l - 1)
  BY <1>5, <1>10, <1>12, <1>13
<1>15. Level(c) = MaxLevel - Size(c)
  BY DEF Level, Size
<1> QED BY <1>1, <1>2, <1>10, <1>11, <1>14, <1>15 DEF l, p

\* The leaves of a cell are those with its place when cut to its size.
LEMMA LeafHeld ==
  ASSUME NEW c \in Nat, IsCellId(c), NEW y \in Int
  PROVE  2 * y + 1 \in LeavesOf(c) <=> Holds(c, y)
<1> DEFINE l == Lsb(c)
           p == Place(c)
<1>1. /\ l \in Nat \ {0} /\ p \in Nat /\ l = 2 ^ (2 * Size(c))
      /\ RangeMin(c) = 2 * (p * l) + 1 /\ RangeMax(c) = 2 * (p * l) + (2 * l - 1)
  BY CellForm
<1>2. Holds(c, y) <=> y \div l = p
  BY <1>1 DEF Holds
<1> HIDE DEF l, p
<1>3. p * l \in Int
  BY <1>1
<1>4. (2 * y + 1) % 2 = 1
  OBVIOUS
<1>5. 2 * y + 1 \in LeavesOf(c) <=> RangeMin(c) <= 2 * y + 1 /\ 2 * y + 1 <= RangeMax(c)
  <2>1. RangeMin(c) \in Int /\ RangeMax(c) \in Int
    BY <1>1, <1>3
  <2> QED BY <2>1, <1>4 DEF LeavesOf
<1>6. 2 * y + 1 \in LeavesOf(c) <=> p * l <= y /\ y <= p * l + (l - 1)
  <2> DEFINE m == p * l
  <2>1. m \in Int /\ RangeMin(c) = 2 * m + 1 /\ RangeMax(c) = 2 * m + (2 * l - 1)
    BY <1>1, <1>3
  <2> HIDE DEF m
  <2>2. (RangeMin(c) <= 2 * y + 1 /\ 2 * y + 1 <= RangeMax(c)) <=> m <= y /\ y <= m + (l - 1)
    BY <2>1, <1>1
  <2> QED BY <2>2, <1>5 DEF m
<1>7. p * l <= y /\ y <= p * l + (l - 1) => y \div l = p
  <2> SUFFICES ASSUME p * l <= y, y <= p * l + (l - 1) PROVE y \div l = p
    OBVIOUS
  <2> DEFINE r == y - p * l
  <2>1. r \in 0 .. l - 1 /\ y = p * l + r
    BY <1>1, <1>3
  <2> HIDE DEF r
  <2> QED BY <2>1, <1>1, QuotientIs
<1>8. y \div l = p => p * l <= y /\ y <= p * l + (l - 1)
  <2>1. (y \div l) * l <= y /\ y < ((y \div l) + 1) * l
    BY <1>1, DivisionBounds
  <2>2. (p + 1) * l = p * l + l
    BY <1>1
  <2> QED BY <2>1, <2>2, <1>1, <1>3
<1> QED BY <1>2, <1>6, <1>7, <1>8

\* What is in a cell is in one of another size with the place its place is cut to.
Inside(c, e) ==
  Size(c) < Size(e) /\ Place(c) \div 2 ^ (2 * (Size(e) - Size(c))) = Place(e)

\* Cutting to one size and then to a larger one is cutting to the larger one.
LEMMA CutTwice ==
  ASSUME NEW y \in Int, NEW j \in Nat, NEW k \in Nat, j <= k
  PROVE  (y \div 2 ^ (2 * j)) \div 2 ^ (2 * (k - j)) = y \div 2 ^ (2 * k)
<1> DEFINE a == 2 ^ (2 * j)
           b == 2 ^ (2 * (k - j))
<1>1. 2 * j \in Nat /\ 2 * (k - j) \in Nat /\ 2 * j + 2 * (k - j) = 2 * k
  OBVIOUS
<1>2. a \in Nat \ {0} /\ b \in Nat \ {0}
  BY <1>1, PowerOfTwo
<1>3. 2 ^ (2 * k) = a * b
  <2>1. 2 ^ (2 * j + 2 * (k - j)) = 2 ^ (2 * j) * 2 ^ (2 * (k - j))
    BY <1>1, PowerOfSum
  <2> QED BY <2>1, <1>1
<1> HIDE DEF a, b
<1>4. (y \div a) \div b = y \div (a * b)
  BY <1>2, DivideTwice
<1> QED BY <1>3, <1>4 DEF a, b

\* Two cells with a leaf in common are the same, or one is inside the other.
LEMMA Nested ==
  ASSUME NEW c \in Nat, IsCellId(c), NEW e \in Nat, IsCellId(e), NEW y \in Int, Holds(c, y)
  PROVE  /\ Holds(e, y) /\ Size(c) < Size(e) => Inside(c, e)
         /\ Holds(e, y) /\ Size(c) = Size(e) => c = e
         /\ Inside(c, e) => Holds(e, y)
<1>1. /\ Size(c) \in Nat /\ Size(e) \in Nat
      /\ Lsb(c) = 2 ^ (2 * Size(c)) /\ Lsb(e) = 2 ^ (2 * Size(e))
      /\ c = (2 * Place(c) + 1) * Lsb(c) /\ e = (2 * Place(e) + 1) * Lsb(e)
  BY CellForm
<1>2. y \div 2 ^ (2 * Size(c)) = Place(c)
  BY DEF Holds
<1>3. Holds(e, y) <=> y \div 2 ^ (2 * Size(e)) = Place(e)
  BY DEF Holds
<1>4. Size(c) < Size(e) =>
        Place(c) \div 2 ^ (2 * (Size(e) - Size(c))) = y \div 2 ^ (2 * Size(e))
  <2> SUFFICES ASSUME Size(c) < Size(e)
               PROVE  Place(c) \div 2 ^ (2 * (Size(e) - Size(c))) = y \div 2 ^ (2 * Size(e))
    OBVIOUS
  <2> DEFINE j == Size(c)
             k == Size(e)
  <2>1. j \in Nat /\ k \in Nat /\ j <= k
    BY <1>1
  <2>2. y \div 2 ^ (2 * j) = Place(c)
    BY <1>2
  <2> HIDE DEF j, k
  <2>3. (y \div 2 ^ (2 * j)) \div 2 ^ (2 * (k - j)) = y \div 2 ^ (2 * k)
    BY <2>1, CutTwice
  <2> QED BY <2>2, <2>3 DEF j, k
<1> QED BY <1>1, <1>2, <1>3, <1>4 DEF Inside

\* A cell has a leaf, at its place.
LEMMA FirstLeaf ==
  ASSUME NEW k \in Nat, NEW p \in Int
  PROVE  p * 2 ^ (2 * k) \in Int /\ (p * 2 ^ (2 * k)) \div 2 ^ (2 * k) = p
<1> DEFINE l == 2 ^ (2 * k)
<1>1. l \in Nat \ {0}
  <2>1. 2 * k \in Nat
    OBVIOUS
  <2> QED BY <2>1, PowerOfTwo
<1> HIDE DEF l
<1>2. 0 \in 0 .. l - 1 /\ p * l \in Int /\ p * l = p * l + 0
  BY <1>1
<1>3. (p * l) \div l = p
  BY <1>1, <1>2, QuotientIs
<1> QED BY <1>2, <1>3 DEF l

\* Cells in order, without a leaf in common, and none with four neighbours that are all
\* the children of one cell and labelled the same.
Disjoint(ids) ==
  \A k \in 1 .. Len(ids) :
    IsCellId(ids[k]) /\ (k > 1 => RangeMax(ids[k - 1]) < RangeMin(ids[k]))
Unmerged(ids, label) ==
  /\ Disjoint(ids)
  /\ \A k \in 1 .. Len(ids) - 3 :
       ~ /\ \A n \in k + 1 .. k + 3 : label[n] = label[k]
         /\ AreSiblings([n \in 1 .. 4 |-> ids[k + n - 1]])

\* Any two of them are in order without a leaf in common.
LEMMA DisjointCells ==
  ASSUME NEW ids \in Seq(Nat), Disjoint(ids), NEW i \in 1 .. Len(ids), NEW j \in 1 .. Len(ids)
  PROVE  /\ ids[i] \in Nat /\ IsCellId(ids[i])
         /\ i < j => RangeMax(ids[i]) < RangeMin(ids[j])
         /\ i < j => ids[i] < ids[j]
<1>1. Len(ids) \in Nat /\ ids \in [1 .. Len(ids) -> Nat] /\ DOMAIN ids = 1 .. Len(ids)
  OBVIOUS
<1>2. \A k \in 1 .. Len(ids) : ids[k] \in Nat /\ IsCellId(ids[k])
  BY <1>1 DEF Disjoint
<1>3. \A k \in 1 .. Len(ids) : /\ RangeMin(ids[k]) \in Int /\ RangeMax(ids[k]) \in Int
                              /\ RangeMin(ids[k]) <= ids[k] /\ ids[k] <= RangeMax(ids[k])
  BY <1>2, CellRange
<1>4. \A k \in 2 .. Len(ids) : RangeMax(ids[k - 1]) < RangeMin(ids[k])
  <2>1. \A k \in 1 .. Len(ids) : k > 1 => RangeMax(ids[k - 1]) < RangeMin(ids[k])
    BY DEF Disjoint
  <2> SUFFICES ASSUME NEW k \in 2 .. Len(ids) PROVE RangeMax(ids[k - 1]) < RangeMin(ids[k])
    OBVIOUS
  <2>2. k \in 1 .. Len(ids) /\ k > 1
    BY <1>1
  <2> QED BY <2>1, <2>2
<1>5. i < j => RangeMax(ids[i]) < RangeMin(ids[j])
  <2> SUFFICES ASSUME i < j PROVE RangeMax(ids[i]) < RangeMin(ids[j])
    OBVIOUS
  <2>1. i + 1 \in 2 .. Len(ids) /\ i \in 1 .. Len(ids) /\ (i + 1) - 1 = i /\ j \in i + 1 .. Len(ids)
    BY <1>1
  <2>2. RangeMax(ids[i]) < RangeMin(ids[i + 1])
    BY <1>4, <2>1
  <2>3. CASE j = i + 1
    BY <2>2, <2>3
  <2>4. CASE j # i + 1
    <3>1. j \in (i + 1) + 1 .. Len(ids) /\ i + 1 \in 1 .. Len(ids)
      BY <2>1, <2>4
    <3>2. ids[i + 1] = ids[j] \/ RangeMax(ids[i + 1]) < RangeMin(ids[j])
      BY <1>1, <1>2, <1>4, <3>1, PairwiseApart
    <3>3. /\ ids[i] \in Int /\ ids[i + 1] \in Int /\ ids[j] \in Int
      BY <1>2, <3>1
    <3>4. /\ RangeMin(ids[i + 1]) <= RangeMax(ids[i + 1])
      <4>1. /\ RangeMin(ids[i + 1]) <= ids[i + 1] /\ ids[i + 1] <= RangeMax(ids[i + 1])
            /\ RangeMin(ids[i + 1]) \in Int /\ RangeMax(ids[i + 1]) \in Int
        BY <1>3, <3>1
      <4> QED BY <4>1, <3>3
    <3>5. /\ RangeMax(ids[i]) \in Int /\ RangeMin(ids[i + 1]) \in Int
          /\ RangeMax(ids[i + 1]) \in Int /\ RangeMin(ids[j]) \in Int
      BY <1>3, <3>1
    <3> QED BY <2>2, <3>2, <3>4, <3>5
  <2> QED BY <2>3, <2>4
<1>6. i < j => ids[i] < ids[j]
  <2>1. /\ RangeMax(ids[i]) \in Int /\ ids[i] <= RangeMax(ids[i])
        /\ RangeMin(ids[j]) \in Int /\ RangeMin(ids[j]) <= ids[j]
        /\ ids[i] \in Int /\ ids[j] \in Int
    BY <1>2, <1>3
  <2> QED BY <2>1, <1>5
<1> QED BY <1>2, <1>5, <1>6

\* So a leaf is in at most one of them.
LEMMA OneHolder ==
  ASSUME NEW ids \in Seq(Nat), Disjoint(ids), NEW i \in 1 .. Len(ids), NEW j \in 1 .. Len(ids),
         NEW y \in Int, Holds(ids[i], y), Holds(ids[j], y)
  PROVE  i = j
<1>1. \A k \in {i, j} : 2 * y + 1 \in LeavesOf(ids[k])
  BY LeafHeld, DisjointCells
<1>2. \A k \in {i, j} : /\ RangeMin(ids[k]) \in Int /\ RangeMax(ids[k]) \in Int
                        /\ RangeMin(ids[k]) <= 2 * y + 1 /\ 2 * y + 1 <= RangeMax(ids[k])
  <2>1. \A k \in {i, j} : RangeMin(ids[k]) \in Int /\ RangeMax(ids[k]) \in Int
    BY DisjointCells, CellRange
  <2> QED BY <1>1, <2>1 DEF LeavesOf
<1>3. ~(i < j)
  <2>1. i < j => RangeMax(ids[i]) < RangeMin(ids[j])
    BY DisjointCells
  <2> QED BY <2>1, <1>2
<1>4. ~(j < i)
  <2>1. j < i => RangeMax(ids[j]) < RangeMin(ids[i])
    BY DisjointCells
  <2> QED BY <2>1, <1>2
<1> QED BY <1>3, <1>4

\* The labels of the cells that hold a leaf: one or none.
LabelsAt(ids, label, y) == {label[m] : m \in {m \in 1 .. Len(ids) : Holds(ids[m], y)}}

LEMMA OneLabel ==
  ASSUME NEW ids \in Seq(Nat), Disjoint(ids), NEW label, NEW i \in 1 .. Len(ids),
         NEW y \in Int, Holds(ids[i], y)
  PROVE  LabelsAt(ids, label, y) = {label[i]}
<1>1. \A m \in 1 .. Len(ids) : Holds(ids[m], y) => m = i
  BY OneHolder
<1> QED BY <1>1 DEF LabelsAt

\* Cells of one size and with places that follow each other are listed one after the
\* other: nothing fits between them.
LEMMA NothingBetween ==
  ASSUME NEW ids \in Seq(Nat), Disjoint(ids), NEW i \in 1 .. Len(ids), NEW j \in 1 .. Len(ids),
         Size(ids[i]) = Size(ids[j]), Place(ids[j]) = Place(ids[i]) + 1
  PROVE  j = i + 1
<1> DEFINE l == Lsb(ids[i])
           p == Place(ids[i])
           m == p * l
<1>1. /\ l \in Nat \ {0} /\ p \in Nat /\ Lsb(ids[j]) = l
      /\ RangeMax(ids[i]) = 2 * m + (2 * l - 1) /\ RangeMin(ids[i]) = 2 * m + 1
      /\ RangeMin(ids[j]) = 2 * ((p + 1) * l) + 1
      /\ RangeMax(ids[j]) = 2 * ((p + 1) * l) + (2 * l - 1)
  <2>1. ids[i] \in Nat /\ IsCellId(ids[i]) /\ ids[j] \in Nat /\ IsCellId(ids[j])
    BY DisjointCells
  <2>2. /\ l \in Nat \ {0} /\ p \in Nat /\ l = 2 ^ (2 * Size(ids[i]))
        /\ RangeMin(ids[i]) = 2 * m + 1 /\ RangeMax(ids[i]) = 2 * m + (2 * l - 1)
    BY <2>1, CellForm
  <2>3. /\ Lsb(ids[j]) = 2 ^ (2 * Size(ids[j]))
        /\ RangeMin(ids[j]) = 2 * (Place(ids[j]) * Lsb(ids[j])) + 1
        /\ RangeMax(ids[j]) = 2 * (Place(ids[j]) * Lsb(ids[j])) + (2 * Lsb(ids[j]) - 1)
    BY <2>1, CellForm
  <2>4. Lsb(ids[j]) = l /\ Place(ids[j]) = p + 1
    BY <2>2, <2>3
  <2> HIDE DEF l, p
  <2> QED BY <2>2, <2>3, <2>4
<1>2. (p + 1) * l = m + l /\ m \in Int
  <2> HIDE DEF l, p
  <2> QED BY <1>1
<1> HIDE DEF l, p, m
<1>3. ~(j < i)
  <2>1. j < i => RangeMax(ids[j]) < RangeMin(ids[i])
    BY DisjointCells
  <2> QED BY <2>1, <1>1, <1>2
<1>4. j # i
  BY <1>1, <1>2
<1>5. ~(i + 1 < j)
  <2> SUFFICES ASSUME i + 1 < j PROVE FALSE
    OBVIOUS
  <2>1. i + 1 \in 1 .. Len(ids)
    OBVIOUS
  <2>2. RangeMax(ids[i]) < RangeMin(ids[i + 1]) /\ RangeMax(ids[i + 1]) < RangeMin(ids[j])
    BY <2>1, DisjointCells
  <2> DEFINE c == ids[i + 1]
             n == Place(c) * Lsb(c)
  <2>3. c \in Nat /\ IsCellId(c)
    BY <2>1, DisjointCells
  <2>4. RangeMin(c) = 2 * n + 1 /\ RangeMax(c) = 2 * n + (2 * Lsb(c) - 1) /\ n \in Int /\ Lsb(c) \in Nat \ {0}
    BY <2>3, CellForm
  <2> HIDE DEF n
  <2>5. 2 * m + (2 * l - 1) < 2 * n + 1 /\ 2 * n + (2 * Lsb(c) - 1) < 2 * (m + l) + 1
    BY <2>2, <2>4, <1>1, <1>2
  <2> DEFINE b == Lsb(c)
  <2>6. b \in Nat \ {0} /\ n \in Int /\ l \in Int /\ m \in Int
    BY <2>4, <1>1, <1>2
  <2>7. 2 * m + (2 * l - 1) < 2 * n + 1 /\ 2 * n + (2 * b - 1) < 2 * (m + l) + 1
    BY <2>5
  <2> HIDE DEF b, c
  <2>8. m + l <= n
    BY <2>6, <2>7
  <2>9. n < m + l
    BY <2>6, <2>7
  <2> QED BY <2>6, <2>8, <2>9
<1> QED BY <1>3, <1>4, <1>5

\* Of four cells that fill the next larger one, one is not listed with the label t.
SiblingMissing(ids, label, t, k, base) ==
  \E r \in 0 .. 3 : \A m \in 1 .. Len(ids) :
    ~(Size(ids[m]) = k /\ Place(ids[m]) = 4 * base + r /\ label[m] = t)

\* With all four they would be neighbours in the list and would have been merged.
LEMMA SiblingsMissing ==
  ASSUME NEW ids \in Seq(Nat), NEW label, Unmerged(ids, label), NEW t,
         NEW k \in 0 .. MaxLevel - 1, NEW base \in Nat
  PROVE  SiblingMissing(ids, label, t, k, base)
<1>1. SUFFICES ASSUME \A r \in 0 .. 3 : \E m \in 1 .. Len(ids) :
                        Size(ids[m]) = k /\ Place(ids[m]) = 4 * base + r /\ label[m] = t
               PROVE  FALSE
  BY DEF SiblingMissing
<1> DEFINE Is(m, r) ==
      m \in 1 .. Len(ids) /\ Size(ids[m]) = k /\ Place(ids[m]) = 4 * base + r /\ label[m] = t
<1>2. \A r \in 0 .. 3 : \E m : Is(m, r)
  BY <1>1
<1> HIDE DEF Is
<1>3. PICK a : Is(a, 0)
  BY <1>2
<1>4. PICK b : Is(b, 1)
  BY <1>2
<1>5. PICK c : Is(c, 2)
  BY <1>2
<1>6. PICK d : Is(d, 3)
  BY <1>2
<1> USE DEF Is
<1>7. b = a + 1 /\ c = b + 1 /\ d = c + 1
  <2>1. Place(ids[b]) = Place(ids[a]) + 1 /\ Place(ids[c]) = Place(ids[b]) + 1
        /\ Place(ids[d]) = Place(ids[c]) + 1
    BY <1>3, <1>4, <1>5, <1>6
  <2>2. b = a + 1
    BY <1>3, <1>4, <2>1, NothingBetween DEF Unmerged
  <2>3. c = b + 1
    BY <1>4, <1>5, <2>1, NothingBetween DEF Unmerged
  <2>4. d = c + 1
    BY <1>5, <1>6, <2>1, NothingBetween DEF Unmerged
  <2> QED BY <2>2, <2>3, <2>4
<1>8. a \in 1 .. Len(ids) /\ a + 3 \in 1 .. Len(ids) /\ Len(ids) \in Nat
  BY <1>3, <1>6, <1>7
<1> DEFINE four == [n \in 1 .. 4 |-> ids[a + n - 1]]
<1>9. \A n \in 1 .. 4 : Is(a + (n - 1), n - 1) /\ four[n] = ids[a + (n - 1)]
  <2>1. ASSUME NEW n \in 1 .. 4 PROVE Is(a + (n - 1), n - 1)
    <3>1. n = 1 \/ n = 2 \/ n = 3 \/ n = 4
      OBVIOUS
    <3>2. b = a + 1 /\ c = a + 2 /\ d = a + 3
      BY <1>7, <1>8
    <3> HIDE DEF Is
    <3>3. a + 0 = a /\ a \in Int
      BY <1>8
    <3> QED BY <3>1, <3>2, <3>3, <1>3, <1>4, <1>5, <1>6
  <2>2. ASSUME NEW n \in 1 .. 4 PROVE four[n] = ids[a + (n - 1)]
    <3>1. a + n - 1 = a + (n - 1)
      BY <1>8
    <3> QED BY <3>1
  <2> QED BY <2>1, <2>2
<1> HIDE DEF four
<1> DEFINE lev == MaxLevel - k
           l == 2 ^ (2 * k)
<1>10. lev \in Nat \ {0} /\ k \in Nat
  BY CellAssumption
<1>11. ASSUME NEW n \in 1 .. 4
       PROVE  Level(four[n]) = lev /\ Parent(four[n], lev - 1) = base * (8 * l) + 4 * l
  <2> DEFINE m == a + (n - 1)
             p == 4 * base + (n - 1)
  <2>1. m \in 1 .. Len(ids) /\ Size(ids[m]) = k /\ Place(ids[m]) = p /\ four[n] = ids[m]
    BY <1>9
  <2> HIDE DEF m
  <2>2. ids[m] \in Nat /\ IsCellId(ids[m])
    BY <2>1, DisjointCells DEF Unmerged
  <2>3. /\ Lsb(ids[m]) = 2 ^ (2 * k) /\ Level(ids[m]) = MaxLevel - k
        /\ ids[m] = (2 * Place(ids[m]) + 1) * Lsb(ids[m])
    BY <2>1, <2>2, CellForm
  <2>4. ids[m] = (2 * p + 1) * l
    BY <2>1, <2>3
  <2>5. l \in Nat \ {0} /\ 2 ^ (2 * (MaxLevel - (lev - 1))) = 4 * l
    <3>1. 2 * k \in Nat /\ 2 \in Nat /\ 2 * (MaxLevel - (lev - 1)) = 2 + 2 * k
      BY CellAssumption
    <3>2. 2 ^ (2 + 2 * k) = 2 ^ 2 * 2 ^ (2 * k)
      BY <3>1, PowerOfSum
    <3> QED BY <3>1, <3>2, PowerOfTwo, SmallPowers
  <2> DEFINE x == (2 * p + 1) * l
             q == x \div (2 * (4 * l))
  <2>6. Parent(ids[m], lev - 1) = (q * 2 * (4 * l)) + 4 * l
    BY <2>4, <2>5 DEF Parent
  <2>7. q = base
    <3>1. 2 * p + 1 = 8 * base + (2 * (n - 1) + 1) /\ 2 * (n - 1) + 1 \in 0 .. 7
      OBVIOUS
    <3> DEFINE u == (2 * (n - 1) + 1) * l
               v == 8 * l
    <3>2. v \in Nat \ {0} /\ 2 * (4 * l) = v
      BY <2>5
    <3>3. u \in 0 .. v - 1
      <4> DEFINE w == 2 * (n - 1) + 1
      <4>1. w \in 0 .. 7
        BY <3>1
      <4> HIDE DEF w, l
      <4>2. 0 <= w * l /\ w * l <= 7 * l /\ w * l \in Int
        BY <4>1, <2>5
      <4>3. 7 * l <= 8 * l - 1 /\ 7 * l \in Int /\ 8 * l \in Int
        BY <2>5
      <4> QED BY <4>2, <4>3 DEF w
    <3>4. x = base * v + u
      <4> DEFINE w == 2 * (n - 1) + 1
      <4>1. w \in Int /\ x = (8 * base + w) * l
        BY <3>1
      <4> HIDE DEF w, l
      <4>2. (8 * base + w) * l = base * (8 * l) + w * l
        BY <4>1, <2>5
      <4> QED BY <4>1, <4>2 DEF w
    <3>5. x \in Int /\ base \in Int
      <4> HIDE DEF p, l
      <4>1. p \in Int
        BY DEF p
      <4> QED BY <4>1, <2>5
    <3>6. v \in Nat \ {0}
      BY <3>2
    <3> HIDE DEF x, u, v
    <3>7. x \div v = base
      BY <3>3, <3>4, <3>5, <3>6, QuotientIs
    <3> QED BY <3>2, <3>7
  <2> HIDE DEF q, l, x, p
  <2>8. (q * 2 * (4 * l)) + 4 * l = base * (8 * l) + 4 * l
    BY <2>5, <2>7
  <2> QED BY <2>1, <2>3, <2>6, <2>8
<1>12. AreSiblings(four)
  <2> DEFINE top == base * (8 * l) + 4 * l
  <2>1. \A n \in 1 .. 4 : Level(four[n]) = lev /\ Parent(four[n], lev - 1) = top
    BY <1>11
  <2>2. 1 \in 1 .. 4
    OBVIOUS
  <2>3. lev > 0
    BY <1>10
  <2> HIDE DEF top, lev
  <2> QED BY <2>1, <2>2, <2>3 DEF AreSiblings
<1>13. ~AreSiblings(four)
  <2>1. a \in 1 .. Len(ids) - 3
    BY <1>8
  <2>2. ASSUME NEW n \in a + 1 .. a + 3 PROVE label[n] = label[a]
    <3> DEFINE i == n - a + 1
    <3>1. i \in 1 .. 4 /\ a + (i - 1) = n /\ 1 \in 1 .. 4 /\ a + (1 - 1) = a
      BY <1>8
    <3>2. \A x \in 1 .. 4 : label[a + (x - 1)] = t
      BY <1>9
    <3> HIDE DEF i
    <3> QED BY <3>1, <3>2
  <2> QED BY <2>1, <2>2 DEF Unmerged, four
<1> QED BY <1>12, <1>13

\* Such a list does not split a cell whose leaves all have one label: of the smallest
\* cells in it, a sibling would be missing.
LEMMA NoSplit ==
  ASSUME NEW ids \in Seq(Nat), NEW label, Unmerged(ids, label), NEW e \in Nat, IsCellId(e),
         NEW t, \A y \in Int : Holds(e, y) => LabelsAt(ids, label, y) = {t},
         NEW i \in 1 .. Len(ids)
  PROVE  ~Inside(ids[i], e)
<1> SUFFICES ASSUME Inside(ids[i], e) PROVE FALSE
  OBVIOUS
<1> DEFINE sizes == {Size(ids[m]) : m \in {m \in 1 .. Len(ids) : Inside(ids[m], e)}}
<1>1. \A m \in 1 .. Len(ids) : ids[m] \in Nat /\ IsCellId(ids[m]) /\ Size(ids[m]) \in 0 .. MaxLevel
                               /\ Place(ids[m]) \in Nat
  BY DisjointCells, CellForm DEF Unmerged
<1>2. MaxLevel \in Nat /\ Size(e) \in 0 .. MaxLevel
  BY CellAssumption, CellForm
<1>3. PICK k \in sizes : \A j \in sizes : k <= j
  <2>1. sizes \subseteq Nat /\ sizes # {}
    BY <1>1
  <2> HIDE DEF sizes
  <2> QED BY <2>1, LeastNumber
<1>4. PICK n \in 1 .. Len(ids) : Inside(ids[n], e) /\ Size(ids[n]) = k
  BY <1>3
<1> DEFINE p == Place(ids[n])
           base == p \div 4
<1>5. k \in Nat /\ k < Size(e) /\ k \in 0 .. MaxLevel - 1
  BY <1>1, <1>2, <1>4 DEF Inside
<1>6. p \in Nat /\ base \in Nat /\ p = 4 * base + (p % 4) /\ p % 4 \in 0 .. 3
  <2>1. p \in Nat
    BY <1>1
  <2> HIDE DEF p
  <2> QED BY <2>1
<1> HIDE DEF p, base
<1>7. PICK r \in 0 .. 3 : \A m \in 1 .. Len(ids) :
        ~(Size(ids[m]) = k /\ Place(ids[m]) = 4 * base + r /\ label[m] = t)
  <2>1. SiblingMissing(ids, label, t, k, base)
    BY <1>5, <1>6, SiblingsMissing
  <2> QED BY <2>1 DEF SiblingMissing
<1> DEFINE Leaf(s) == (4 * base + s) * 2 ^ (2 * k)
<1>8. ASSUME NEW s \in 0 .. 3
      PROVE  /\ Leaf(s) \in Int /\ Leaf(s) \div 2 ^ (2 * k) = 4 * base + s
             /\ \A j \in Nat : k < j =>
                  Leaf(s) \div 2 ^ (2 * j) = base \div 2 ^ (2 * (j - (k + 1)))
  <2> DEFINE q == 4 * base + s
             y == q * 2 ^ (2 * k)
  <2>1. q \in Int /\ q \div 4 = base
    BY <1>6
  <2> HIDE DEF q
  <2>2. y \in Int /\ y \div 2 ^ (2 * k) = q
    BY <1>5, <2>1, FirstLeaf
  <2> HIDE DEF y
  <2>3. y \div 2 ^ (2 * (k + 1)) = base
    <3>1. k + 1 \in Nat /\ k <= k + 1 /\ (k + 1) - k = 1 /\ 2 * 1 = 2
      BY <1>5
    <3>2. (y \div 2 ^ (2 * k)) \div 2 ^ (2 * ((k + 1) - k)) = y \div 2 ^ (2 * (k + 1))
      BY <3>1, <1>5, <2>2, CutTwice
    <3> QED BY <3>1, <3>2, <2>1, <2>2, SmallPowers
  <2>4. ASSUME NEW j \in Nat, k < j
        PROVE  y \div 2 ^ (2 * j) = base \div 2 ^ (2 * (j - (k + 1)))
    <3>1. k + 1 \in Nat /\ k + 1 <= j
      BY <1>5, <2>4
    <3>2. (y \div 2 ^ (2 * (k + 1))) \div 2 ^ (2 * (j - (k + 1))) = y \div 2 ^ (2 * j)
      BY <3>1, <2>2, CutTwice
    <3> QED BY <3>2, <2>3
  <2> QED BY <2>2, <2>4 DEF y, q
<1> HIDE DEF Leaf
<1>9. Leaf(p % 4) \in Int /\ Holds(ids[n], Leaf(p % 4))
  <2>1. Leaf(p % 4) \in Int /\ Leaf(p % 4) \div 2 ^ (2 * k) = p
    BY <1>6, <1>8
  <2> QED BY <2>1, <1>4 DEF Holds, p
<1>10. \A j \in Nat : k < j => Leaf(r) \div 2 ^ (2 * j) = Leaf(p % 4) \div 2 ^ (2 * j)
  BY <1>6, <1>8
<1>11. Holds(e, Leaf(r))
  <2>1. Holds(e, Leaf(p % 4))
    BY <1>1, <1>4, <1>9, Nested
  <2>2. Leaf(r) \div 2 ^ (2 * Size(e)) = Leaf(p % 4) \div 2 ^ (2 * Size(e))
    <3>1. Size(e) \in Nat
      BY <1>2
    <3> QED BY <3>1, <1>5, <1>10
  <2> QED BY <2>1, <2>2 DEF Holds
<1>12. PICK m \in 1 .. Len(ids) : Holds(ids[m], Leaf(r)) /\ label[m] = t
  <2>1. LabelsAt(ids, label, Leaf(r)) = {t}
    BY <1>8, <1>11
  <2> QED BY <2>1 DEF LabelsAt
<1>13. ~(k < Size(ids[m]))
  <2> SUFFICES ASSUME k < Size(ids[m]) PROVE FALSE
    OBVIOUS
  <2>1. Leaf(r) \div 2 ^ (2 * Size(ids[m])) = Leaf(p % 4) \div 2 ^ (2 * Size(ids[m]))
    <3>1. Size(ids[m]) \in Nat
      BY <1>1
    <3> QED BY <3>1, <1>10
  <2>2. Holds(ids[m], Leaf(p % 4))
    BY <2>1, <1>12 DEF Holds
  <2>3. m = n
    BY <2>2, <1>9, OneHolder DEF Unmerged
  <2> QED BY <2>3, <1>4, <1>5
<1>14. Inside(ids[m], e)
  <2>1. Size(ids[m]) < Size(e)
    <3>1. Size(ids[m]) \in Int /\ Size(e) \in Int
      BY <1>1, <1>2
    <3> QED BY <3>1, <1>5, <1>13
  <2>2. Leaf(r) \in Int
    BY <1>8
  <2> QED BY <2>1, <2>2, <1>1, <1>11, <1>12, Nested
<1>15. Size(ids[m]) = k
  <2>1. Size(ids[m]) \in sizes
    BY <1>14
  <2>2. k <= Size(ids[m])
    BY <2>1, <1>3
  <2> HIDE DEF sizes
  <2> QED BY <2>2, <1>1, <1>5, <1>13
<1>16. Place(ids[m]) = 4 * base + r
  BY <1>8, <1>12, <1>15 DEF Holds
<1> QED BY <1>7, <1>12, <1>15, <1>16

\* So what one list has, another with the same label for every leaf has too.
SameLabels(a, la, b, lb) == \A y \in Int : LabelsAt(a, la, y) = LabelsAt(b, lb, y)

LEMMA ListedToo ==
  ASSUME NEW a \in Seq(Nat), NEW la, Unmerged(a, la), NEW b \in Seq(Nat), NEW lb, Unmerged(b, lb),
         SameLabels(a, la, b, lb), NEW i \in 1 .. Len(a)
  PROVE  \E j \in 1 .. Len(b) : b[j] = a[i] /\ lb[j] = la[i]
<1> DEFINE e == a[i]
<1>1. e \in Nat /\ IsCellId(e)
  BY DisjointCells DEF Unmerged
<1>2. Size(e) \in Nat /\ Place(e) \in Int
  <2>1. Size(e) \in 0 .. MaxLevel /\ Place(e) \in Nat
    BY <1>1, CellForm
  <2> QED BY <2>1, CellAssumption
<1>3. \A y \in Int : Holds(e, y) => LabelsAt(a, la, y) = {la[i]} /\ LabelsAt(b, lb, y) = {la[i]}
  BY OneLabel DEF Unmerged, SameLabels
<1> HIDE DEF e
<1> DEFINE y == Place(e) * 2 ^ (2 * Size(e))
<1>4. y \in Int /\ Holds(e, y)
  BY <1>2, FirstLeaf DEF Holds
<1> HIDE DEF y
<1>5. PICK j \in 1 .. Len(b) : Holds(b[j], y) /\ lb[j] = la[i]
  <2>1. LabelsAt(b, lb, y) = {la[i]}
    BY <1>3, <1>4
  <2> QED BY <2>1 DEF LabelsAt
<1>6. b[j] \in Nat /\ IsCellId(b[j]) /\ Size(b[j]) \in Nat
  <2>1. b[j] \in Nat /\ IsCellId(b[j])
    BY DisjointCells DEF Unmerged
  <2>2. Size(b[j]) \in 0 .. MaxLevel
    BY <2>1, CellForm
  <2> QED BY <2>1, <2>2, CellAssumption
<1>7. \A x \in Int : Holds(b[j], x) => LabelsAt(a, la, x) = {la[i]}
  BY <1>5, OneLabel DEF Unmerged, SameLabels
<1>8. ~(Size(b[j]) < Size(e))
  <2>1. Size(b[j]) < Size(e) => Inside(b[j], e)
    BY <1>1, <1>4, <1>5, <1>6, Nested
  <2>2. ~Inside(b[j], e)
    BY <1>1, <1>3, NoSplit
  <2> QED BY <2>1, <2>2
<1>9. ~(Size(e) < Size(b[j]))
  <2>1. Size(e) < Size(b[j]) => Inside(e, b[j])
    BY <1>1, <1>4, <1>5, <1>6, Nested
  <2>2. ~Inside(a[i], b[j])
    BY <1>6, <1>7, NoSplit
  <2> QED BY <2>1, <2>2 DEF e
<1>10. Size(b[j]) = Size(e)
  BY <1>2, <1>6, <1>8, <1>9
<1>11. b[j] = e
  BY <1>1, <1>4, <1>5, <1>6, <1>10, Nested
<1> QED BY <1>5, <1>11 DEF e

\* Lists in order with the same members are the same.
Rises(s) == \A i, j \in 1 .. Len(s) : i < j => s[i] < s[j]
ListsAll(s, t) == \A i \in 1 .. Len(t) : \E j \in 1 .. Len(s) : s[j] = t[i]

LEMMA SameList ==
  ASSUME NEW a \in Seq(Nat), NEW b \in Seq(Nat),
         Rises(a), Rises(b), ListsAll(a, b), ListsAll(b, a)
  PROVE  a = b
<1>1. /\ Len(a) \in Nat /\ a \in [1 .. Len(a) -> Nat]
      /\ Len(b) \in Nat /\ b \in [1 .. Len(b) -> Nat]
  OBVIOUS
<1> DEFINE other == {i \in Nat : /\ i \in 1 .. Len(a) \/ i \in 1 .. Len(b)
                                 /\ ~(i \in 1 .. Len(a) /\ i \in 1 .. Len(b) /\ a[i] = b[i])}
<1>2. other = {}
  <2> SUFFICES ASSUME other # {} PROVE FALSE
    OBVIOUS
  <2>1. PICK i \in other : \A j \in other : i <= j
    <3>1. other \subseteq Nat
      OBVIOUS
    <3> HIDE DEF other
    <3> QED BY <3>1, LeastNumber
  <2>2. \A j \in 1 .. i - 1 : j \in 1 .. Len(a) /\ j \in 1 .. Len(b) /\ a[j] = b[j]
    <3> SUFFICES ASSUME NEW j \in 1 .. i - 1
                 PROVE  j \in 1 .. Len(a) /\ j \in 1 .. Len(b) /\ a[j] = b[j]
      OBVIOUS
    <3>1. i \in Nat /\ j \in Nat /\ j \notin other
      BY <2>1
    <3>2. j \in 1 .. Len(a) \/ j \in 1 .. Len(b)
      BY <2>1, <1>1
    <3> QED BY <3>1, <3>2
  <2>3. i \in 1 .. Len(a) => \E j \in 1 .. Len(b) : b[j] = a[i] /\ j >= i
    <3> SUFFICES ASSUME i \in 1 .. Len(a) PROVE \E j \in 1 .. Len(b) : b[j] = a[i] /\ j >= i
      OBVIOUS
    <3>1. PICK j \in 1 .. Len(b) : b[j] = a[i]
      BY DEF ListsAll
    <3>2. ~(j < i)
      <4> SUFFICES ASSUME j < i PROVE FALSE
        OBVIOUS
      <4>1. j \in 1 .. i - 1
        OBVIOUS
      <4>2. j \in 1 .. Len(a) /\ a[j] = a[i]
        BY <4>1, <2>2, <3>1
      <4>3. a[j] < a[i] /\ a[i] \in Nat
        BY <4>2, <1>1 DEF Rises
      <4> QED BY <4>2, <4>3
    <3> QED BY <3>1, <3>2
  <2>4. i \in 1 .. Len(b) => \E j \in 1 .. Len(a) : a[j] = b[i] /\ j >= i
    <3> SUFFICES ASSUME i \in 1 .. Len(b) PROVE \E j \in 1 .. Len(a) : a[j] = b[i] /\ j >= i
      OBVIOUS
    <3>1. PICK j \in 1 .. Len(a) : a[j] = b[i]
      BY DEF ListsAll
    <3>2. ~(j < i)
      <4> SUFFICES ASSUME j < i PROVE FALSE
        OBVIOUS
      <4>1. j \in 1 .. i - 1
        OBVIOUS
      <4>2. j \in 1 .. Len(b) /\ b[j] = b[i]
        BY <4>1, <2>2, <3>1
      <4>3. b[j] < b[i] /\ b[i] \in Nat
        BY <4>2, <1>1 DEF Rises
      <4> QED BY <4>2, <4>3
    <3> QED BY <3>1, <3>2
  <2>5. i \in 1 .. Len(a) /\ i \in 1 .. Len(b)
    BY <2>1, <2>3, <2>4, <1>1
  <2>6. PICK j \in 1 .. Len(b) : b[j] = a[i] /\ j >= i
    BY <2>3, <2>5
  <2>7. PICK n \in 1 .. Len(a) : a[n] = b[i] /\ n >= i
    BY <2>4, <2>5
  <2>8. a[i] # b[i]
    BY <2>1, <2>5
  <2>9. a[i] \in Nat /\ b[i] \in Nat
    BY <2>5, <1>1
  <2>10. i < j /\ i < n
    BY <2>1, <2>6, <2>7, <2>8
  <2>11. b[i] < a[i]
    BY <2>5, <2>6, <2>10 DEF Rises
  <2>12. a[i] < b[i]
    BY <2>5, <2>7, <2>10 DEF Rises
  <2> QED BY <2>9, <2>11, <2>12
<1>3. \A i \in Nat : i \in 1 .. Len(a) \/ i \in 1 .. Len(b) =>
        i \in 1 .. Len(a) /\ i \in 1 .. Len(b) /\ a[i] = b[i]
  BY <1>2
<1>4. Len(a) = Len(b)
  <2>1. Len(a) > 0 => Len(a) \in 1 .. Len(b)
    BY <1>1, <1>3
  <2>2. Len(b) > 0 => Len(b) \in 1 .. Len(a)
    BY <1>1, <1>3
  <2> DEFINE m == Len(a)
             n == Len(b)
  <2>3. m \in Nat /\ n \in Nat /\ (m > 0 => m \in 1 .. n) /\ (n > 0 => n \in 1 .. m)
    BY <1>1, <2>1, <2>2
  <2> HIDE DEF m, n
  <2>4. m = n
    BY <2>3
  <2> QED BY <2>4 DEF m, n
<1> QED BY <1>1, <1>3, <1>4

\* Two lists with the same label for every leaf are the same, label for label.
LEMMA OneList ==
  ASSUME NEW a \in Seq(Nat), NEW la, Unmerged(a, la), NEW b \in Seq(Nat), NEW lb, Unmerged(b, lb),
         SameLabels(a, la, b, lb)
  PROVE  a = b /\ \A i \in 1 .. Len(a) : la[i] = lb[i]
<1>1. Rises(a) /\ Rises(b)
  BY DisjointCells DEF Rises, Unmerged
<1>2. ListsAll(b, a)
  BY ListedToo DEF ListsAll
<1>3. ListsAll(a, b)
  <2>1. SameLabels(b, lb, a, la)
    BY DEF SameLabels
  <2> QED BY <2>1, ListedToo DEF ListsAll
<1>4. a = b
  BY <1>1, <1>2, <1>3, SameList
<1>5. ASSUME NEW i \in 1 .. Len(a) PROVE la[i] = lb[i]
  <2>1. PICK j \in 1 .. Len(b) : b[j] = a[i] /\ lb[j] = la[i]
    BY ListedToo
  <2>2. i \in 1 .. Len(b) /\ b[i] = b[j]
    BY <1>4, <2>1
  <2>3. b[i] \in Nat /\ ~(b[i] < b[i])
    BY <2>2
  <2>4. i = j
    BY <2>2, <2>3, <1>1 DEF Rises
  <2> QED BY <2>1, <2>4
<1> QED BY <1>4, <1>5

\* A canonical cell set is such a list, with a label for all cells alike.
Plain(ids) == [k \in 1 .. Len(ids) |-> 0]

LEMMA CanonicalCells ==
  ASSUME NEW ids \in Seq(Nat), CheckCanonical(ids)
  PROVE  Unmerged(ids, Plain(ids))
<1>1. Len(ids) \in Nat /\ DOMAIN ids = 1 .. Len(ids)
  OBVIOUS
<1>2. Disjoint(ids)
  BY <1>1 DEF CheckCanonical, Disjoint
<1>3. ASSUME NEW k \in 1 .. Len(ids) - 3 PROVE ~AreSiblings([n \in 1 .. 4 |-> ids[k + n - 1]])
  <2> DEFINE window == SubSeq(ids, (k + 3) - 3, k + 3)
             four == [n \in 1 .. 4 |-> ids[k + n - 1]]
  <2>1. k + 3 \in DOMAIN ids /\ k + 3 > 3 /\ (k + 3) - 3 = k
    BY <1>1
  <2>2. ~AreSiblings(window)
    BY <2>1 DEF CheckCanonical
  <2>3. \A n \in 1 .. 4 : window[n] = four[n]
    <3>1. \A i \in k .. k + 3 : ids[i] \in Nat
      BY <1>1
    <3>2. k \in Int /\ k + 3 \in Int /\ (k + 3) - k + 1 = 4
      OBVIOUS
    <3>3. \A n \in 1 .. (k + 3) - k + 1 : SubSeq(ids, k, k + 3)[n] = ids[k + n - 1]
      BY <3>1, <3>2, SubSeqProperties
    <3> QED BY <3>2, <3>3, <2>1
  <2> HIDE DEF window, four
  <2>4. AreSiblings(four) => AreSiblings(window)
    BY <2>3 DEF AreSiblings
  <2> QED BY <2>2, <2>4 DEF four
<1> QED BY <1>2, <1>3 DEF Unmerged

---------------------------------------------------------------------------
(* Intervals of heights *)

\* Intervals in order, with a gap between any two that follow each other.
Gapped(n, lo, hi) ==
  /\ lo \in [1 .. n -> Int] /\ hi \in [1 .. n -> Int]
  /\ \A k \in 1 .. n : lo[k] < hi[k] /\ (k > 1 => hi[k - 1] < lo[k])

\* The numbers in them.
InIntervals(n, lo, hi) == {x \in Int : \E k \in 1 .. n : lo[k] <= x /\ x < hi[k]}

LEMMA GapsKept ==
  ASSUME NEW n \in Nat, NEW lo, NEW hi, Gapped(n, lo, hi), NEW i \in 1 .. n, NEW j \in i + 1 .. n
  PROVE  hi[i] < lo[j]
<1> DEFINE bad == {m \in i + 1 .. n : ~(hi[i] < lo[m])}
<1>1. SUFFICES ASSUME bad # {} PROVE FALSE
  OBVIOUS
<1>2. PICK m \in bad : \A l \in bad : m <= l
  <2>1. bad \subseteq Nat
    OBVIOUS
  <2> HIDE DEF bad
  <2> QED BY <2>1, <1>1, LeastNumber
<1>3. m \in i + 1 .. n /\ m \in 1 .. n /\ m > 1 /\ ~(hi[i] < lo[m])
  OBVIOUS
<1>4. hi[m - 1] < lo[m]
  BY <1>3 DEF Gapped
<1>5. m - 1 # i
  BY <1>3, <1>4
<1>6. m - 1 \in i + 1 .. n /\ m - 1 \notin bad
  BY <1>2, <1>3, <1>5
<1>7. hi[i] < lo[m - 1]
  BY <1>6
<1>8. m - 1 \in 1 .. n
  BY <1>6
<1>9. lo[m - 1] < hi[m - 1] /\ hi[i] \in Int /\ lo[m - 1] \in Int /\ hi[m - 1] \in Int /\ lo[m] \in Int
  BY <1>3, <1>8 DEF Gapped
<1> QED BY <1>3, <1>4, <1>7, <1>9

\* Two such rows of intervals with the same numbers: where they agree so far, the next
\* of one is begun by the other too, and not later.
LEMMA BegunToo ==
  ASSUME NEW n \in Nat, NEW lo, NEW hi, Gapped(n, lo, hi),
         NEW m \in Nat, NEW lo2, NEW hi2, Gapped(m, lo2, hi2),
         InIntervals(n, lo, hi) = InIntervals(m, lo2, hi2), NEW i \in 1 .. n,
         \A j \in 1 .. i - 1 : j \in 1 .. m /\ hi[j] = hi2[j]
  PROVE  i \in 1 .. m /\ lo2[i] <= lo[i]
<1>1. lo[i] \in Int /\ hi[i] \in Int /\ lo[i] < hi[i]
  BY DEF Gapped
<1>2. lo[i] \in InIntervals(m, lo2, hi2)
  <2>1. lo[i] \in InIntervals(n, lo, hi)
    BY <1>1 DEF InIntervals
  <2> QED BY <2>1
<1>3. PICK k \in 1 .. m : lo2[k] <= lo[i] /\ lo[i] < hi2[k]
  BY <1>2 DEF InIntervals
<1>4. lo2[k] \in Int /\ hi2[k] \in Int
  BY DEF Gapped
<1>5. ~(k < i)
  <2> SUFFICES ASSUME k < i PROVE FALSE
    OBVIOUS
  <2>1. k \in 1 .. i - 1 /\ k \in 1 .. n /\ i \in k + 1 .. n
    OBVIOUS
  <2>2. hi[k] < lo[i]
    BY <2>1, GapsKept
  <2>3. hi[k] = hi2[k]
    BY <2>1
  <2> QED BY <2>2, <2>3, <1>1, <1>3, <1>4
<1>6. i \in 1 .. m
  BY <1>5
<1>7. CASE k = i
  BY <1>3, <1>6, <1>7
<1>8. CASE k # i
  <2>1. k \in i + 1 .. m
    BY <1>5, <1>8
  <2>2. hi2[i] < lo2[k]
    BY <1>6, <2>1, GapsKept
  <2>3. lo2[i] < hi2[i] /\ lo2[i] \in Int /\ hi2[i] \in Int
    BY <1>6 DEF Gapped
  <2> QED BY <2>2, <2>3, <1>1, <1>3, <1>4, <1>6
<1> QED BY <1>7, <1>8

\* And where they begin at one number, the other does not end later.
LEMMA EndedToo ==
  ASSUME NEW n \in Nat, NEW lo, NEW hi, Gapped(n, lo, hi),
         NEW m \in Nat, NEW lo2, NEW hi2, Gapped(m, lo2, hi2),
         InIntervals(n, lo, hi) = InIntervals(m, lo2, hi2), NEW i \in 1 .. n, i \in 1 .. m,
         lo[i] = lo2[i]
  PROVE  hi2[i] <= hi[i]
<1> SUFFICES ASSUME ~(hi2[i] <= hi[i]) PROVE FALSE
  OBVIOUS
<1>1. /\ lo[i] \in Int /\ hi[i] \in Int /\ lo[i] < hi[i]
      /\ hi2[i] \in Int
  BY DEF Gapped
<1>2. hi[i] < hi2[i] /\ lo2[i] <= hi[i]
  BY <1>1
<1>3. hi[i] \in InIntervals(n, lo, hi)
  <2>1. hi[i] \in InIntervals(m, lo2, hi2)
    BY <1>1, <1>2 DEF InIntervals
  <2> QED BY <2>1
<1>4. PICK k \in 1 .. n : lo[k] <= hi[i] /\ hi[i] < hi[k]
  BY <1>3 DEF InIntervals
<1>5. lo[k] \in Int /\ hi[k] \in Int
  BY DEF Gapped
<1>6. k # i
  BY <1>1, <1>4
<1>7. ~(i < k)
  <2>1. i < k => hi[i] < lo[k]
    <3>1. i < k => k \in i + 1 .. n
      OBVIOUS
    <3> QED BY <3>1, GapsKept
  <2> QED BY <2>1, <1>1, <1>4, <1>5
<1>8. ~(k < i)
  <2>1. k < i => hi[k] < lo[i]
    <3>1. k < i => i \in k + 1 .. n
      OBVIOUS
    <3> QED BY <3>1, GapsKept
  <2> QED BY <2>1, <1>1, <1>4, <1>5
<1> QED BY <1>6, <1>7, <1>8

\* So they are the same.
LEMMA OneRow ==
  ASSUME NEW n \in Nat, NEW lo, NEW hi, Gapped(n, lo, hi),
         NEW m \in Nat, NEW lo2, NEW hi2, Gapped(m, lo2, hi2),
         InIntervals(n, lo, hi) = InIntervals(m, lo2, hi2)
  PROVE  n = m /\ \A i \in 1 .. n : lo[i] = lo2[i] /\ hi[i] = hi2[i]
<1> DEFINE Same(i) == i \in 1 .. n /\ i \in 1 .. m /\ lo[i] = lo2[i] /\ hi[i] = hi2[i]
           other == {i \in Nat : (i \in 1 .. n \/ i \in 1 .. m) /\ ~Same(i)}
<1>1. other = {}
  <2> SUFFICES ASSUME other # {} PROVE FALSE
    OBVIOUS
  <2>1. PICK i \in other : \A j \in other : i <= j
    <3>1. other \subseteq Nat
      OBVIOUS
    <3> HIDE DEF other
    <3> QED BY <3>1, LeastNumber
  <2>2. \A j \in 1 .. i - 1 : Same(j)
    <3> SUFFICES ASSUME NEW j \in 1 .. i - 1 PROVE Same(j)
      OBVIOUS
    <3>1. i \in Nat /\ (i \in 1 .. n \/ i \in 1 .. m)
      OBVIOUS
    <3>2. j \in Nat /\ j < i /\ (j \in 1 .. n \/ j \in 1 .. m)
      BY <3>1
    <3>3. j \notin other
      BY <2>1, <3>1, <3>2
    <3> HIDE DEF Same
    <3> QED BY <3>2, <3>3
  <2>3. i \in 1 .. n => i \in 1 .. m /\ lo2[i] <= lo[i]
    <3>1. \A j \in 1 .. i - 1 : j \in 1 .. m /\ hi[j] = hi2[j]
      BY <2>2
    <3> QED BY <3>1, BegunToo
  <2>4. i \in 1 .. m => i \in 1 .. n /\ lo[i] <= lo2[i]
    <3>1. \A j \in 1 .. i - 1 : j \in 1 .. n /\ hi2[j] = hi[j]
      BY <2>2
    <3> QED BY <3>1, BegunToo
  <2>5. i \in 1 .. n /\ i \in 1 .. m
    BY <2>1, <2>3, <2>4
  <2>6. lo[i] \in Int /\ lo2[i] \in Int /\ hi[i] \in Int /\ hi2[i] \in Int
    BY <2>5 DEF Gapped
  <2>7. lo[i] = lo2[i]
    BY <2>3, <2>4, <2>5, <2>6
  <2>8. hi2[i] <= hi[i]
    BY <2>5, <2>7, EndedToo
  <2>9. hi[i] <= hi2[i]
    BY <2>5, <2>7, EndedToo
  <2>10. Same(i)
    BY <2>5, <2>6, <2>7, <2>8, <2>9
  <2> HIDE DEF Same
  <2> QED BY <2>1, <2>10
<1>2. \A i \in Nat : i \in 1 .. n \/ i \in 1 .. m => Same(i)
  BY <1>1
<1>3. n = m
  <2>1. n > 0 => n \in 1 .. m
    BY <1>2
  <2>2. m > 0 => m \in 1 .. n
    BY <1>2
  <2> QED BY <2>1, <2>2
<1>4. \A i \in 1 .. n : Same(i)
  BY <1>2
<1> QED BY <1>3, <1>4

\* An entry at the coarsest zoom is the only way to write its interval so.
LEMMA OneZoom ==
  ASSUME NEW v \in Voxels, VoxelBoundsOk(v), IsCoarsest(v),
         NEW w \in Voxels, VoxelBoundsOk(w), IsCoarsest(w),
         VoxelLo(v) = VoxelLo(w), VoxelHi(v) = VoxelHi(w)
  PROVE  Heights(v) = Heights(w)
<1>1. \A x \in {v, w} : /\ x.zoom \in Nat /\ x.min \in Int /\ x.max \in Int
                        /\ x.zoom <= MaxFZoom
  BY DEF Voxels, VoxelBoundsOk
<1>2. ASSUME NEW x \in {v, w}, NEW z \in {v, w}, x.zoom < z.zoom PROVE FALSE
  <2> DEFINE b == BinSize(z.zoom)
             d == z.zoom - x.zoom
             c == 2 ^ (d - 1)
  <2>1. /\ MaxFZoom - z.zoom \in Nat /\ d - 1 \in Nat
        /\ (MaxFZoom - z.zoom) + (1 + (d - 1)) = MaxFZoom - x.zoom /\ 1 + (d - 1) \in Nat
    BY <1>1, <1>2, VoxelAssumption
  <2>2. b \in Nat \ {0} /\ c \in Nat \ {0}
    BY <2>1, PowerOfTwo DEF BinSize
  <2>3. BinSize(x.zoom) = b * (2 * c)
    <3>1. 2 ^ ((MaxFZoom - z.zoom) + (1 + (d - 1))) = 2 ^ (MaxFZoom - z.zoom) * 2 ^ (1 + (d - 1))
      BY <2>1, PowerOfSum
    <3>2. 2 ^ (1 + (d - 1)) = 2 ^ 1 * 2 ^ (d - 1)
      BY <2>1, PowerOfSum
    <3> QED BY <2>1, <3>1, <3>2, SmallPowers DEF BinSize
  <2> HIDE DEF b, c, d
  <2>4. z.min * b = x.min * (b * (2 * c)) /\ (z.max + 1) * b = (x.max + 1) * (b * (2 * c))
    BY <2>3 DEF VoxelLo, VoxelHi, b
  <2>5. ASSUME NEW m \in Int, NEW n \in Int, m * b = n * (b * (2 * c)) PROVE m = 2 * (n * c)
    <3> DEFINE q == 2 * (n * c)
    <3>1. q \in Int /\ n * (b * (2 * c)) = q * b
      BY <2>2
    <3> HIDE DEF q
    <3>2. m * b = q * b
      BY <2>5, <3>1
    <3>3. 0 \in 0 .. b - 1 /\ m * b \in Int /\ m * b = m * b + 0 /\ m * b = q * b + 0
      BY <2>2, <3>1, <3>2
    <3>4. (m * b) \div b = m
      BY <2>2, <3>3, QuotientIs
    <3>5. (m * b) \div b = q
      BY <2>2, <3>1, <3>3, QuotientIs
    <3> QED BY <3>4, <3>5 DEF q
  <2>6. z.min \in Int /\ z.max + 1 \in Int /\ x.min \in Int /\ x.max + 1 \in Int /\ z.max \in Int
    BY <1>1
  <2>7. z.min = 2 * (x.min * c) /\ z.max + 1 = 2 * ((x.max + 1) * c)
    BY <2>4, <2>5, <2>6
  <2>8. x.min * c \in Int /\ (x.max + 1) * c \in Int
    BY <2>2, <2>6
  <2>9. z.min % 2 = 0 /\ z.max % 2 = 1
    <3> DEFINE s == x.min * c
               t == (x.max + 1) * c
    <3>1. s \in Int /\ t \in Int /\ z.min = 2 * s /\ z.max = 2 * t - 1
      BY <2>6, <2>7, <2>8
    <3> HIDE DEF s, t
    <3> QED BY <3>1
  <2>10. z.zoom > 0
    BY <1>1, <1>2
  <2> QED BY <2>9, <2>10 DEF IsCoarsest
<1>3. v.zoom = w.zoom
  BY <1>1, <1>2
<1> DEFINE b == BinSize(v.zoom)
<1>4. b \in Nat \ {0}
  <2>1. MaxFZoom - v.zoom \in Nat
    BY <1>1, VoxelAssumption
  <2> QED BY <2>1, PowerOfTwo DEF BinSize
<1>5. v.min * b = w.min * b /\ (v.max + 1) * b = (w.max + 1) * b
  BY <1>3 DEF VoxelLo, VoxelHi
<1> HIDE DEF b
<1>6. ASSUME NEW m \in Int, NEW n \in Int, m * b = n * b PROVE m = n
  <2>1. 0 \in 0 .. b - 1 /\ m * b \in Int /\ m * b = m * b + 0 /\ m * b = n * b + 0
    BY <1>4, <1>6
  <2>2. (m * b) \div b = m
    BY <1>4, <2>1, QuotientIs
  <2>3. (m * b) \div b = n
    BY <1>4, <2>1, QuotientIs
  <2> QED BY <2>2, <2>3
<1>7. v.min = w.min /\ v.max = w.max
  <2>1. v.min \in Int /\ w.min \in Int /\ v.max \in Int /\ w.max \in Int
    BY <1>1
  <2>2. v.max + 1 = w.max + 1
    BY <2>1, <1>5, <1>6
  <2> QED BY <2>1, <2>2, <1>5, <1>6
<1> QED BY <1>3, <1>7 DEF Heights

---------------------------------------------------------------------------
(* The entries of one cell *)

\* The first n entries cut into runs: run k is those from start[k] on, it has one cell,
\* and the next run has another.
CutInto(g, start, vs, n) ==
  /\ g \in Seq(Seq(Voxels)) /\ start \in [1 .. Len(g) + 1 -> 1 .. n + 1]
  /\ start[1] = 1 /\ start[Len(g) + 1] = n + 1
  /\ \A k \in 1 .. Len(g) :
       /\ Len(g[k]) > 0 /\ start[k + 1] = start[k] + Len(g[k])
       /\ \A i \in 1 .. Len(g[k]) : g[k][i] = vs[start[k] + i - 1] /\ g[k][i].cell = g[k][1].cell
       /\ k > 1 => g[k - 1][1].cell # g[k][1].cell

\* The next entry goes to the last run, or begins one.
LEMMA CutGrows ==
  ASSUME NEW vs \in Seq(Voxels), NEW n \in Nat, n + 1 <= Len(vs),
         NEW g, NEW start, CutInto(g, start, vs, n)
  PROVE  \E s : CutInto(AddToChunks(g, vs[n + 1]), s, vs, n + 1)
<1> DEFINE v == vs[n + 1]
           m == Len(g)
           h == AddToChunks(g, v)
<1>1. /\ v \in Voxels /\ m \in Nat /\ g \in [1 .. m -> Seq(Voxels)]
      /\ start \in [1 .. m + 1 -> 1 .. n + 1]
  BY DEF CutInto
<1>2. \A k \in 1 .. m : g[k] \in Seq(Voxels) /\ Len(g[k]) \in Nat
  BY <1>1
<1>3. /\ g \in Seq(Seq(Voxels)) /\ start \in [1 .. m + 1 -> 1 .. n + 1]
      /\ start[1] = 1 /\ start[m + 1] = n + 1
      /\ \A k \in 1 .. m :
           /\ Len(g[k]) > 0 /\ start[k + 1] = start[k] + Len(g[k])
           /\ \A i \in 1 .. Len(g[k]) :
                g[k][i] = vs[start[k] + i - 1] /\ g[k][i].cell = g[k][1].cell
           /\ k > 1 => g[k - 1][1].cell # g[k][1].cell
  BY DEF CutInto
<1>4. CASE g # <<>> /\ Last(Last(g)).cell = v.cell
  <2>1. m \in 1 .. m /\ m > 0
    BY <1>4, <1>3
  <2> DEFINE last == g[m]
             t == Append(last, v)
             front == SubSeq(g, 1, m - 1)
             s == [start EXCEPT ![m + 1] = n + 2]
  <2>2. last \in Seq(Voxels) /\ Len(last) \in Nat /\ Len(last) > 0 /\ last[Len(last)].cell = v.cell
    BY <1>2, <1>3, <1>4, <2>1 DEF Last
  <2>3. h = Append(front, t)
    BY <1>4 DEF AddToChunks, Last, Front
  <2>4. t \in Seq(Voxels) /\ Len(t) = Len(last) + 1 /\ t[Len(last) + 1] = v
        /\ \A i \in 1 .. Len(last) : t[i] = last[i]
    BY <1>1, <2>2
  <2>5. front \in Seq(Seq(Voxels)) /\ Len(front) = m - 1 /\ \A k \in 1 .. m - 1 : front[k] = g[k]
    <3>1. \A k \in 1 .. m - 1 : g[k] \in Seq(Voxels)
      BY <1>2
    <3>2. 1 \in Int /\ m - 1 \in Int /\ (m - 1) - 1 + 1 = m - 1 /\ \A k \in 1 .. m - 1 : 1 + k - 1 = k
      BY <2>1
    <3>3. /\ SubSeq(g, 1, m - 1) \in Seq(Seq(Voxels))
          /\ Len(SubSeq(g, 1, m - 1)) = IF 1 <= m - 1 THEN (m - 1) - 1 + 1 ELSE 0
          /\ \A k \in 1 .. (m - 1) - 1 + 1 : SubSeq(g, 1, m - 1)[k] = g[1 + k - 1]
      BY <3>1, <3>2, SubSeqProperties
    <3> QED BY <3>2, <3>3, <2>1
  <2> HIDE DEF t, front, last
  <2>6. /\ h \in Seq(Seq(Voxels)) /\ Len(h) = m /\ h[m] = t
        /\ \A k \in 1 .. m - 1 : h[k] = g[k]
    <3>1. Append(front, t) \in Seq(Seq(Voxels)) /\ Len(Append(front, t)) = Len(front) + 1
          /\ Append(front, t)[Len(front) + 1] = t
          /\ \A k \in 1 .. Len(front) : Append(front, t)[k] = front[k]
      BY <2>4, <2>5
    <3>2. Len(front) + 1 = m
      BY <2>1, <2>5
    <3> QED BY <3>1, <3>2, <2>3, <2>5
  <2> HIDE DEF h
  <2>7. s \in [1 .. m + 1 -> 1 .. n + 2] /\ s[m + 1] = n + 2 /\ \A k \in 1 .. m : s[k] = start[k]
    <3>1. \A k \in 1 .. m + 1 : start[k] \in 1 .. n + 2
      BY <1>1
    <3> QED BY <3>1, <1>3, <2>1
  <2> HIDE DEF s
  <2>8. start[m] + Len(last) = n + 1 /\ start[m] \in Nat
    <3>1. start[m + 1] = start[m] + Len(g[m]) /\ start[m + 1] = n + 1
      BY <1>3, <2>1
    <3>2. start[m] \in 1 .. n + 1
      BY <1>1, <2>1
    <3> QED BY <3>1, <3>2 DEF last
  <2>9. ASSUME NEW k \in 1 .. m
        PROVE  /\ Len(h[k]) > 0 /\ s[k + 1] = s[k] + Len(h[k])
               /\ \A i \in 1 .. Len(h[k]) :
                    h[k][i] = vs[s[k] + i - 1] /\ h[k][i].cell = h[k][1].cell
               /\ k > 1 => h[k - 1][1].cell # h[k][1].cell
    <3>1. \A j \in 1 .. m : h[j][1] = g[j][1]
      <4> SUFFICES ASSUME NEW j \in 1 .. m PROVE h[j][1] = g[j][1]
        OBVIOUS
      <4>1. CASE j = m
        <5>1. t[1] = last[1]
          <6>1. 1 \in 1 .. Len(last)
            BY <2>2
          <6> QED BY <6>1, <2>4
        <5>2. h[j] = t
          BY <4>1, <2>6
        <5>3. g[j] = last
          BY <4>1 DEF last
        <5> QED BY <5>1, <5>2, <5>3
      <4>2. CASE j # m
        <5>1. m \in Nat
          BY <1>1
        <5> HIDE DEF m
        <5>2. j \in 1 .. m - 1
          BY <4>2, <5>1
        <5> QED BY <5>2, <2>6
      <4> QED BY <4>1, <4>2
    <3>2. k > 1 => h[k - 1][1].cell # h[k][1].cell
      <4>1. k > 1 => k - 1 \in 1 .. m
        OBVIOUS
      <4> QED BY <4>1, <3>1, <1>3
    <3>3. CASE k = m
      <4>1. h[k] = t /\ s[k] = start[m] /\ s[k + 1] = n + 2
        BY <3>3, <2>6, <2>7
      <4>2. Len(h[k]) > 0 /\ s[k + 1] = s[k] + Len(h[k])
        <5>1. Len(h[k]) = Len(last) + 1 /\ Len(last) \in Nat
          BY <4>1, <2>2, <2>4
        <5>2. start[m] + (Len(last) + 1) = n + 2
          BY <5>1, <2>8
        <5> QED BY <4>1, <5>1, <5>2
      <4>3. ASSUME NEW i \in 1 .. Len(h[k])
            PROVE  h[k][i] = vs[s[k] + i - 1] /\ h[k][i].cell = h[k][1].cell
        <5>1. CASE i = Len(last) + 1
          <6>1. h[k][i] = v /\ s[k] + i - 1 = n + 1
            BY <5>1, <4>1, <2>2, <2>4, <2>8
          <6>2. v.cell = h[k][1].cell
            <7>1. last[Len(last)].cell = last[1].cell
              <8>1. Len(last) \in 1 .. Len(last)
                BY <2>2
              <8> QED BY <8>1, <1>3, <2>1 DEF last
            <7> QED BY <7>1, <3>1, <3>3, <2>2 DEF last
          <6> QED BY <6>1, <6>2
        <5>2. CASE i # Len(last) + 1
          <6>1. i \in 1 .. Len(last)
            BY <5>2, <4>1, <2>2, <2>4
          <6>2. h[k][i] = last[i] /\ h[k][1] = last[1]
            BY <6>1, <4>1, <2>4, <3>1, <3>3 DEF last
          <6>3. last[i] = vs[start[m] + i - 1] /\ last[i].cell = last[1].cell
            BY <6>1, <1>3, <2>1 DEF last
          <6> QED BY <6>2, <6>3, <4>1
        <5> QED BY <5>1, <5>2
      <4> QED BY <4>2, <4>3, <3>2
    <3>4. CASE k # m
      <4>1. k \in 1 .. m - 1 /\ k + 1 \in 1 .. m
        BY <3>4, <2>1
      <4>2. h[k] = g[k] /\ s[k] = start[k] /\ s[k + 1] = start[k + 1]
        BY <4>1, <2>6, <2>7
      <4> QED BY <4>2, <1>3, <3>2
    <3> QED BY <3>3, <3>4
  <2>10. s[1] = 1
    BY <1>3, <2>1, <2>7
  <2>11. CutInto(h, s, vs, n + 1)
    <3>1. (n + 1) + 1 = n + 2
      OBVIOUS
    <3> QED BY <3>1, <2>6, <2>7, <2>9, <2>10 DEF CutInto
  <2> QED BY <2>11 DEF h
<1>5. CASE ~(g # <<>> /\ Last(Last(g)).cell = v.cell)
  <2> DEFINE s == [k \in 1 .. m + 2 |-> IF k = m + 2 THEN n + 2 ELSE start[k]]
             one == <<v>>
  <2>1. h = Append(g, one)
    BY <1>5 DEF AddToChunks
  <2>2. one \in Seq(Voxels) /\ Len(one) = 1 /\ one[1] = v
    BY <1>1
  <2> HIDE DEF one
  <2>3. /\ h \in Seq(Seq(Voxels)) /\ Len(h) = m + 1 /\ h[m + 1] = one
        /\ \A k \in 1 .. m : h[k] = g[k]
    BY <1>3, <2>1, <2>2
  <2> HIDE DEF h
  <2>4. s \in [1 .. m + 2 -> 1 .. n + 2] /\ s[m + 2] = n + 2 /\ \A k \in 1 .. m + 1 : s[k] = start[k]
    <3>1. \A k \in 1 .. m + 1 : start[k] \in 1 .. n + 2
      BY <1>1
    <3> QED BY <3>1, <1>1
  <2> HIDE DEF s
  <2>5. ASSUME m > 0 PROVE g[m][1].cell # v.cell
    <3>1. m \in 1 .. m /\ g # <<>>
      BY <2>5, <1>1, <1>3
    <3>2. Len(g[m]) \in 1 .. Len(g[m])
      <4>1. Len(g[m]) \in Nat /\ Len(g[m]) > 0
        BY <3>1, <1>2, <1>3
      <4> QED BY <4>1
    <3>3. g[m][Len(g[m])].cell = g[m][1].cell
      BY <3>1, <3>2, <1>3
    <3>4. Last(Last(g)) = g[m][Len(g[m])]
      BY DEF Last
    <3> QED BY <3>1, <3>3, <3>4, <1>5
  <2>6. ASSUME NEW k \in 1 .. m + 1
        PROVE  /\ Len(h[k]) > 0 /\ s[k + 1] = s[k] + Len(h[k])
               /\ \A i \in 1 .. Len(h[k]) :
                    h[k][i] = vs[s[k] + i - 1] /\ h[k][i].cell = h[k][1].cell
               /\ k > 1 => h[k - 1][1].cell # h[k][1].cell
    <3>1. CASE k = m + 1
      <4>1. h[k] = one /\ s[k] = n + 1 /\ s[k + 1] = n + 2
        <5>1. k \in 1 .. m + 1 /\ k + 1 = m + 2
          BY <3>1, <1>1
        <5> QED BY <5>1, <3>1, <2>3, <2>4, <1>3
      <4>2. k > 1 => h[k - 1] = g[m] /\ m > 0 /\ h[k][1] = v
        BY <3>1, <4>1, <2>2, <2>3, <1>1
      <4>3. \A i \in 1 .. Len(h[k]) : i = 1
        BY <4>1, <2>2
      <4>4. h[k][1] = vs[s[k] + 1 - 1]
        BY <4>1, <2>2
      <4> QED BY <4>1, <4>2, <4>3, <4>4, <2>2, <2>5
    <3>2. CASE k # m + 1
      <4>1. k \in 1 .. m /\ k + 1 \in 1 .. m + 1 /\ k \in 1 .. m + 1
        BY <3>2, <1>1
      <4>2. h[k] = g[k] /\ s[k] = start[k] /\ s[k + 1] = start[k + 1]
        BY <4>1, <2>3, <2>4
      <4>3. k > 1 => h[k - 1] = g[k - 1]
        <5>1. k > 1 => k - 1 \in 1 .. m
          BY <4>1
        <5> QED BY <5>1, <2>3
      <4>4. /\ Len(g[k]) > 0 /\ start[k + 1] = start[k] + Len(g[k])
            /\ \A i \in 1 .. Len(g[k]) :
                 g[k][i] = vs[start[k] + i - 1] /\ g[k][i].cell = g[k][1].cell
            /\ k > 1 => g[k - 1][1].cell # g[k][1].cell
        BY <4>1, <1>3
      <4> QED BY <4>2, <4>3, <4>4
    <3> QED BY <3>1, <3>2
  <2>7. s[1] = 1
    BY <1>1, <1>3, <2>4
  <2>8. CutInto(h, s, vs, n + 1)
    <3>1. (n + 1) + 1 = n + 2 /\ (m + 1) + 1 = m + 2
      BY <1>1
    <3> QED BY <3>1, <2>3, <2>4, <2>6, <2>7 DEF CutInto
  <2> QED BY <2>8 DEF h
<1> QED BY <1>4, <1>5

\* So chunk_by cuts the whole list.
LEMMA ChunksCut ==
  ASSUME NEW vs \in Seq(Voxels)
  PROVE  \E start : CutInto(ChunkByCell(vs), start, vs, Len(vs))
<1> DEFINE n == Len(vs)
           S == Seq(Seq(Voxels))
           Goes(h) == h = [k \in 0 .. n |-> IF k = 0 THEN <<>> ELSE AddToChunks(h[k - 1], vs[k])]
           chunks == CHOOSE h : Goes(h)
           step == [kt \in (1 .. n) \X S |-> AddToChunks(kt[2], vs[kt[1]])]
<1>1. n \in Nat
  OBVIOUS
<1>2. ChunkByCell(vs) = chunks[n]
  BY DEF ChunkByCell
<1>3. ASSUME NEW g \in S, NEW v \in Voxels PROVE AddToChunks(g, v) \in S
  <2>1. Append(g, <<v>>) \in S
    OBVIOUS
  <2>2. g # <<>> => Append(Front(g), Append(Last(g), v)) \in S
    <3> SUFFICES ASSUME g # <<>> PROVE Append(Front(g), Append(Last(g), v)) \in S
      OBVIOUS
    <3>1. Len(g) \in 1 .. Len(g) /\ \A i \in 1 .. Len(g) - 1 : g[i] \in Seq(Voxels)
      OBVIOUS
    <3>2. Append(Last(g), v) \in Seq(Voxels)
      BY <3>1 DEF Last
    <3>3. 1 \in Int /\ Len(g) - 1 \in Int
      OBVIOUS
    <3>4. SubSeq(g, 1, Len(g) - 1) \in S
      BY <3>1, <3>3, SubSeqProperties
    <3>5. Front(g) \in S
      BY <3>4 DEF Front
    <3> QED BY <3>2, <3>5
  <2> QED BY <2>1, <2>2 DEF AddToChunks
<1>4. step \in [(1 .. n) \X S -> S]
  <2>1. \A kt \in (1 .. n) \X S : kt[2] \in S /\ vs[kt[1]] \in Voxels
    <3> HIDE DEF S
    <3> QED OBVIOUS
  <2>2. \A kt \in (1 .. n) \X S : AddToChunks(kt[2], vs[kt[1]]) \in S
    BY <2>1, <1>3
  <2> HIDE DEF S
  <2> QED BY <2>2
<1>5. PICK f : f \in [0 .. n -> S] /\ f[0] = <<>> /\ \A k \in 1 .. n : f[k] = step[<<k, f[k - 1]>>]
  <2>1. <<>> \in S
    OBVIOUS
  <2> HIDE DEF step, S
  <2>2. Recursion(n, S, <<>>, step)
    BY <1>1, <1>4, <2>1, RecursionExists
  <2> QED BY <2>2 DEF Recursion
<1>6. Goes(f)
  <2>1. \A k \in 1 .. n : f[k] = AddToChunks(f[k - 1], vs[k])
    <3> SUFFICES ASSUME NEW k \in 1 .. n PROVE f[k] = AddToChunks(f[k - 1], vs[k])
      OBVIOUS
    <3>1. f[k - 1] \in S
      BY <1>1, <1>5
    <3> QED BY <3>1, <1>5
  <2>2. \A k \in 0 .. n : k # 0 => k \in 1 .. n
    OBVIOUS
  <2> HIDE DEF S, step
  <2> QED BY <1>5, <2>1, <2>2
<1>7. Goes(chunks)
  <2> HIDE DEF Goes
  <2> QED BY <1>6
<1> DEFINE Good == {k \in 0 .. n : \E start : CutInto(chunks[k], start, vs, k)}
<1>8. chunks[0] = <<>> /\ \A k \in 1 .. n : chunks[k] = AddToChunks(chunks[k - 1], vs[k])
  <2> HIDE DEF chunks
  <2> QED BY <1>1, <1>7
<1> HIDE DEF chunks
<1>9. 0 \in Good
  <2>1. CutInto(<<>>, [k \in 1 .. 1 |-> 1], vs, 0)
    BY DEF CutInto
  <2> QED BY <2>1, <1>1, <1>8
<1>10. ASSUME NEW k \in 1 .. n, k - 1 \in Good PROVE k \in Good
  <2>1. PICK start : CutInto(chunks[k - 1], start, vs, k - 1)
    BY <1>10
  <2>2. k - 1 \in Nat /\ (k - 1) + 1 = k /\ k <= Len(vs)
    BY <1>1
  <2>3. \E s : CutInto(AddToChunks(chunks[k - 1], vs[k]), s, vs, k)
    BY <2>1, <2>2, CutGrows
  <2> QED BY <2>3, <1>8
<1> HIDE DEF Good
<1>11. 0 .. n \subseteq Good
  BY <1>1, <1>9, <1>10, UpTo
<1>12. n \in Good
  BY <1>1, <1>11
<1> QED BY <1>2, <1>12 DEF Good

\* The runs of a canonical list, from start[k] on, with the cell of a run as its cell,
\* the heights of its entries as its label, and the ends of their intervals.
Runs(vs, g, start) ==
  /\ vs \in Seq(Voxels) /\ CheckVoxelCanonical(vs)
  /\ g = ChunkByCell(vs) /\ CutInto(g, start, vs, Len(vs))
CellsOf(g) == [k \in 1 .. Len(g) |-> g[k][1].cell]
LabelsOf(g) == [k \in 1 .. Len(g) |-> [i \in DOMAIN g[k] |-> Heights(g[k][i])]]
RunLo(u) == [i \in 1 .. Len(u) |-> VoxelLo(u[i])]
RunHi(u) == [i \in 1 .. Len(u) |-> VoxelHi(u[i])]
RunBins(u) == InIntervals(Len(u), RunLo(u), RunHi(u))

\* The interval of an entry has heights, and all of them are in range.
LEMMA IntervalInBins ==
  ASSUME NEW v \in Voxels, VoxelBoundsOk(v)
  PROVE  /\ VoxelLo(v) \in Int /\ VoxelHi(v) \in Int /\ VoxelLo(v) < VoxelHi(v)
         /\ VoxelLo(v) \in Bins /\ VoxelHi(v) - 1 \in Bins
<1> DEFINE b == BinSize(v.zoom)
           c == 2 ^ v.zoom
<1>1. /\ v.zoom \in Nat /\ v.min \in Int /\ v.max \in Int /\ MaxFZoom - v.zoom \in Nat
      /\ (MaxFZoom - v.zoom) + v.zoom = MaxFZoom /\ MaxFZoom - 0 = MaxFZoom
  BY VoxelAssumption DEF Voxels, VoxelBoundsOk
<1>2. b \in Nat \ {0} /\ c \in Nat \ {0}
  BY <1>1, PowerOfTwo DEF BinSize
<1>3. BinSize(0) = b * c
  <2>1. 2 ^ ((MaxFZoom - v.zoom) + v.zoom) = 2 ^ (MaxFZoom - v.zoom) * 2 ^ v.zoom
    BY <1>1, PowerOfSum
  <2> QED BY <2>1, <1>1 DEF BinSize
<1>4. -c <= v.min /\ v.min <= v.max /\ v.max < c
  BY DEF VoxelBoundsOk
<1>5. VoxelLo(v) = v.min * b /\ VoxelHi(v) = (v.max + 1) * b
  BY DEF VoxelLo, VoxelHi
<1> DEFINE i == v.min
           j == v.max + 1
<1>6. i \in Int /\ j \in Int /\ -c <= i /\ i < j /\ j <= c
  BY <1>1, <1>2, <1>4
<1> HIDE DEF b, c, i, j
<1>7. i * b \in Int /\ j * b \in Int /\ b * c \in Int /\ -(b * c) <= i * b /\ i * b < j * b /\ j * b <= b * c
  <2>1. ASSUME NEW x \in Int, NEW y \in Int, x <= y PROVE x * b <= y * b
    <3>1. y - x \in Nat
      BY <2>1
    <3>2. (y - x) * b \in Nat /\ y * b = x * b + (y - x) * b
      BY <3>1, <1>2
    <3> QED BY <3>2, <1>2
  <2>2. (-c) * b <= i * b /\ j * b <= c * b /\ (i + 1) * b <= j * b
    BY <1>2, <1>6, <2>1
  <2>3. (i + 1) * b = i * b + b /\ (-c) * b = -(b * c) /\ c * b = b * c
    BY <1>2, <1>6
  <2>4. i * b \in Int /\ j * b \in Int /\ b * c \in Int
    BY <1>2, <1>6
  <2> QED BY <2>2, <2>3, <2>4, <1>2
<1>8. VoxelLo(v) = i * b /\ VoxelHi(v) = j * b
  BY <1>5 DEF i, j
<1> QED BY <1>3, <1>7, <1>8 DEF Bins

\* Where an entry of a run is in the list.
LEMMA EntryOfRun ==
  ASSUME NEW vs, NEW g, NEW start, Runs(vs, g, start), NEW k \in 1 .. Len(g)
  PROVE  /\ Len(vs) \in Nat /\ Len(g) \in Nat
         /\ start[k] \in 1 .. Len(vs) /\ start[k + 1] \in Nat /\ start[k + 1] = start[k] + Len(g[k])
         /\ g[k] \in Seq(Voxels) /\ Len(g[k]) \in Nat \ {0}
         /\ \A i \in 1 .. Len(g[k]) :
              /\ start[k] + i - 1 \in 1 .. Len(vs) /\ g[k][i] = vs[start[k] + i - 1]
              /\ g[k][i] \in Voxels /\ VoxelBoundsOk(g[k][i]) /\ IsCoarsest(g[k][i])
              /\ IsCellId(g[k][i].cell) /\ g[k][i].cell = CellsOf(g)[k]
<1> DEFINE n == Len(vs)
           m == Len(g)
<1>1. vs \in Seq(Voxels) /\ n \in Nat /\ DOMAIN vs = 1 .. n
  BY DEF Runs
<1>2. CutInto(g, start, vs, n)
  BY DEF Runs
<1>3. m \in Nat /\ g[k] \in Seq(Voxels) /\ Len(g[k]) \in Nat
  BY <1>2 DEF CutInto
<1>4. Len(g[k]) > 0 /\ start[k + 1] = start[k] + Len(g[k])
  BY <1>2 DEF CutInto
<1>5. start[k] \in 1 .. n + 1 /\ start[k + 1] \in 1 .. n + 1
  <2>1. k \in 1 .. m + 1 /\ k + 1 \in 1 .. m + 1
    BY <1>3
  <2> QED BY <2>1, <1>2 DEF CutInto
<1>6. start[k] \in 1 .. n /\ start[k + 1] \in Nat /\ Len(g[k]) \in Nat \ {0}
  BY <1>1, <1>3, <1>4, <1>5
<1>7. ASSUME NEW i \in 1 .. Len(g[k])
      PROVE  /\ start[k] + i - 1 \in 1 .. n /\ g[k][i] = vs[start[k] + i - 1]
             /\ g[k][i] \in Voxels /\ VoxelBoundsOk(g[k][i]) /\ IsCoarsest(g[k][i])
             /\ IsCellId(g[k][i].cell) /\ g[k][i].cell = CellsOf(g)[k]
  <2> DEFINE p == start[k] + i - 1
  <2>1. p \in 1 .. n
    BY <1>1, <1>3, <1>4, <1>5
  <2>2. g[k][i] = vs[p] /\ g[k][i].cell = g[k][1].cell
    BY <1>2 DEF CutInto
  <2> HIDE DEF p
  <2>3. g[k][i] \in Voxels
    BY <2>1, <2>2, <1>1
  <2>4. VoxelBoundsOk(vs[p]) /\ IsCoarsest(vs[p]) /\ IsCellId(vs[p].cell)
    BY <2>1, <1>1 DEF Runs, CheckVoxelCanonical
  <2>5. CellsOf(g)[k] = g[k][1].cell
    BY DEF CellsOf
  <2> QED BY <2>1, <2>2, <2>3, <2>4, <2>5 DEF p
<1> QED BY <1>1, <1>3, <1>4, <1>6, <1>7

\* Neighbours in the list are apart.
LEMMA NeighboursApart ==
  ASSUME NEW vs, NEW g, NEW start, Runs(vs, g, start), NEW p \in 2 .. Len(vs)
  PROVE  p - 1 \in 1 .. Len(vs) /\ Separate(vs[p - 1], vs[p])
<1>1. vs \in Seq(Voxels) /\ Len(vs) \in Nat /\ DOMAIN vs = 1 .. Len(vs)
  BY DEF Runs
<1>2. p \in 1 .. Len(vs) /\ p > 1 /\ p - 1 \in 1 .. Len(vs)
  BY <1>1
<1> QED BY <1>1, <1>2 DEF Runs, CheckVoxelCanonical

\* The intervals of a run are in order with gaps between them.
LEMMA RunIsGapped ==
  ASSUME NEW vs, NEW g, NEW start, Runs(vs, g, start), NEW k \in 1 .. Len(g)
  PROVE  Gapped(Len(g[k]), RunLo(g[k]), RunHi(g[k]))
<1> DEFINE u == g[k]
           l == Len(u)
<1>1. ASSUME NEW j \in 1 .. l
      PROVE  u[j] = vs[start[k] + j - 1] /\ u[j].cell = CellsOf(g)[k]
  BY EntryOfRun
<1>2. ASSUME NEW i \in 1 .. l
      PROVE  /\ VoxelLo(u[i]) \in Int /\ VoxelHi(u[i]) \in Int /\ VoxelLo(u[i]) < VoxelHi(u[i])
             /\ RunLo(u)[i] = VoxelLo(u[i]) /\ RunHi(u)[i] = VoxelHi(u[i])
  <2>1. u[i] \in Voxels /\ VoxelBoundsOk(u[i])
    BY EntryOfRun
  <2> HIDE DEF u
  <2> QED BY <2>1, IntervalInBins DEF RunLo, RunHi
<1>3. ASSUME NEW i \in 1 .. l, i > 1 PROVE VoxelHi(u[i - 1]) < VoxelLo(u[i])
  <2> DEFINE p == start[k] + i - 1
  <2>1. l \in Nat /\ start[k] \in Nat \ {0} /\ Len(vs) \in Nat
    BY EntryOfRun
  <2>2. i - 1 \in 1 .. l /\ start[k] + (i - 1) - 1 = p - 1
    BY <2>1, <1>3
  <2>3. p \in 1 .. Len(vs) /\ u[i] = vs[p] /\ u[i].cell = CellsOf(g)[k]
    BY EntryOfRun
  <2>4. u[i - 1] = vs[p - 1] /\ u[i - 1].cell = CellsOf(g)[k]
    <3>1. u[i - 1] = vs[start[k] + (i - 1) - 1] /\ u[i - 1].cell = CellsOf(g)[k]
      BY <2>2, <1>1
    <3> HIDE DEF p, u
    <3> QED BY <2>2, <3>1
  <2>5. p > 1
    BY <2>1, <1>3
  <2> HIDE DEF p, u, l
  <2>6. p \in 2 .. Len(vs)
    BY <2>1, <2>3, <2>5
  <2>7. Separate(vs[p - 1], vs[p])
    BY <2>6, NeighboursApart
  <2>8. VoxelLo(u[i]) > VoxelHi(u[i - 1])
    BY <2>3, <2>4, <2>7 DEF Separate
  <2>9. VoxelLo(u[i]) \in Int /\ VoxelHi(u[i - 1]) \in Int
    BY <2>2, <1>2
  <2> QED BY <2>8, <2>9
<1>4. l \in Nat
  BY EntryOfRun
<1> HIDE DEF u, l
<1>5. \A i \in 1 .. l : i > 1 => RunHi(u)[i - 1] < RunLo(u)[i]
  <2> SUFFICES ASSUME NEW i \in 1 .. l, i > 1 PROVE RunHi(u)[i - 1] < RunLo(u)[i]
    OBVIOUS
  <2>1. i - 1 \in 1 .. l
    BY <1>4
  <2> QED BY <2>1, <1>2, <1>3
<1>6. RunLo(u) \in [1 .. l -> Int] /\ RunHi(u) \in [1 .. l -> Int]
  BY <1>2 DEF RunLo, RunHi, l
<1>7. Gapped(l, RunLo(u), RunHi(u))
  BY <1>2, <1>5, <1>6 DEF Gapped
<1> QED BY <1>7 DEF u, l

\* No four runs in a row have the same heights in sibling cells.
LEMMA NoFourAlike ==
  ASSUME NEW vs, CheckVoxelCanonical(vs), Len(ChunkByCell(vs)) \in Nat,
         NEW k \in 1 .. Len(ChunkByCell(vs)) - 3
  PROVE  ~ /\ \A n \in k + 1 .. k + 3 : LabelsOf(ChunkByCell(vs))[n] = LabelsOf(ChunkByCell(vs))[k]
           /\ AreSiblings([n \in 1 .. 4 |-> CellsOf(ChunkByCell(vs))[k + n - 1]])
<1> DEFINE groups == ChunkByCell(vs)
           HeightsOf(n) == [i \in DOMAIN groups[n] |-> Heights(groups[n][i])]
           FourAlike(e) == \A n \in e + 1 .. e + 3 : HeightsOf(n) = HeightsOf(e)
           Four(e) == [n \in 1 .. 4 |-> groups[e + n - 1][1].cell]
<1>1. ~(FourAlike(k) /\ AreSiblings(Four(k)))
  <2>1. \A e \in 1 .. Len(groups) - 3 : ~(FourAlike(e) /\ AreSiblings(Four(e)))
    BY DEF CheckVoxelCanonical
  <2> HIDE DEF FourAlike, Four
  <2> QED BY <2>1
<1>2. \A n \in 1 .. Len(groups) :
        LabelsOf(groups)[n] = HeightsOf(n) /\ CellsOf(groups)[n] = groups[n][1].cell
  <2> HIDE DEF groups
  <2> QED BY DEF LabelsOf, CellsOf
<1> HIDE DEF groups, HeightsOf
<1>3. /\ \A n \in k .. k + 3 : n \in 1 .. Len(groups)
      /\ \A n \in 1 .. 4 : k + n - 1 \in 1 .. Len(groups)
      /\ k \in k .. k + 3 /\ \A n \in k + 1 .. k + 3 : n \in k .. k + 3
  BY DEF groups
<1>4. [n \in 1 .. 4 |-> CellsOf(groups)[k + n - 1]] = [n \in 1 .. 4 |-> groups[k + n - 1][1].cell]
  BY <1>2, <1>3
<1>5. FourAlike(k) <=> \A n \in k + 1 .. k + 3 : LabelsOf(groups)[n] = LabelsOf(groups)[k]
  BY <1>2, <1>3
<1> HIDE DEF FourAlike
<1>6. ~ /\ \A n \in k + 1 .. k + 3 : LabelsOf(groups)[n] = LabelsOf(groups)[k]
        /\ AreSiblings([n \in 1 .. 4 |-> CellsOf(groups)[k + n - 1]])
  BY <1>1, <1>4, <1>5
<1> QED BY <1>6 DEF groups

\* The runs are a list of cells in order without a leaf in common, with no four
\* siblings of the same heights.
LEMMA RunsUnmerged ==
  ASSUME NEW vs, NEW g, NEW start, Runs(vs, g, start)
  PROVE  CellsOf(g) \in Seq(Nat) /\ Len(CellsOf(g)) = Len(g) /\ Unmerged(CellsOf(g), LabelsOf(g))
<1> DEFINE m == Len(g)
           cs == CellsOf(g)
           ls == LabelsOf(g)
<1>1. m \in Nat
  BY DEF Runs, CutInto
<1>2. ASSUME NEW k \in 1 .. m
      PROVE  /\ cs[k] \in Nat /\ IsCellId(cs[k])
             /\ cs[k] = vs[start[k]].cell /\ start[k] \in 1 .. Len(vs) /\ Len(vs) \in Nat
  <2>1. 1 \in 1 .. Len(g[k]) /\ start[k] + 1 - 1 = start[k] /\ start[k] \in 1 .. Len(vs) /\ Len(vs) \in Nat
    BY EntryOfRun
  <2>2. /\ g[k][1] = vs[start[k]] /\ g[k][1] \in Voxels
        /\ IsCellId(g[k][1].cell) /\ g[k][1].cell = cs[k]
    BY <2>1, EntryOfRun
  <2> HIDE DEF cs
  <2> QED BY <2>1, <2>2 DEF Voxels
<1>3. cs \in Seq(Nat) /\ Len(cs) = m
  <2>1. cs = [k \in 1 .. m |-> cs[k]]
    BY DEF CellsOf
  <2> HIDE DEF cs, m
  <2> QED BY <2>1, <1>1, <1>2
<1>4. ASSUME NEW k \in 1 .. m, NEW j \in 1 .. Len(g[k])
      PROVE  g[k][j] = vs[start[k] + j - 1] /\ g[k][j].cell = cs[k]
  BY EntryOfRun
<1>5. ASSUME NEW k \in 1 .. m, k > 1 PROVE RangeMax(cs[k - 1]) < RangeMin(cs[k])
  <2> DEFINE p == start[k]
             l == Len(g[k - 1])
  <2>1. k - 1 \in 1 .. m /\ (k - 1) + 1 = k
    BY <1>1, <1>5
  <2>2. /\ l \in Nat \ {0} /\ start[k - 1] \in Nat \ {0}
        /\ start[(k - 1) + 1] = start[k - 1] + l
    BY <2>1, EntryOfRun
  <2>3. p = start[k - 1] + l
    BY <2>1, <2>2
  <2>4. l \in 1 .. l /\ start[k - 1] + l - 1 = p - 1
    BY <2>2, <2>3
  <2>5. g[k - 1][l] = vs[p - 1] /\ g[k - 1][l].cell = cs[k - 1]
    <3>1. \A j \in 1 .. l : /\ g[k - 1][j] = vs[start[k - 1] + j - 1]
                            /\ g[k - 1][j].cell = cs[k - 1]
      BY <2>1, <1>4
    <3> HIDE DEF p, l
    <3> QED BY <2>4, <3>1
  <2>6. cs[k] = vs[p].cell /\ p \in 1 .. Len(vs) /\ Len(vs) \in Nat
    BY <1>2
  <2>7. cs[k - 1] # cs[k]
    <3>1. g[k - 1][1].cell # g[k][1].cell
      BY <1>5 DEF Runs, CutInto
    <3> QED BY <3>1, <2>1 DEF CellsOf
  <2> HIDE DEF p, l, cs, m
  <2>8. p \in 2 .. Len(vs)
    BY <2>2, <2>3, <2>6
  <2>9. Separate(vs[p - 1], vs[p])
    BY <2>8, NeighboursApart
  <2> QED BY <2>5, <2>6, <2>7, <2>9 DEF Separate
<1>6. ASSUME NEW k \in 1 .. m - 3
      PROVE  ~ /\ \A n \in k + 1 .. k + 3 : ls[n] = ls[k]
               /\ AreSiblings([n \in 1 .. 4 |-> cs[k + n - 1]])
  <2>1. g = ChunkByCell(vs) /\ CheckVoxelCanonical(vs)
    BY DEF Runs
  <2> QED BY <1>1, <2>1, NoFourAlike
<1> HIDE DEF m, cs, ls
<1>7. Disjoint(cs)
  BY <1>2, <1>3, <1>5 DEF Disjoint
<1>8. Unmerged(cs, ls)
  BY <1>3, <1>6, <1>7 DEF Unmerged
<1> QED BY <1>3, <1>8 DEF m, cs, ls

\* Every entry is in a run.
LEMMA InARun ==
  ASSUME NEW vs, NEW g, NEW start, Runs(vs, g, start), NEW p \in 1 .. Len(vs)
  PROVE  \E k \in 1 .. Len(g) : \E i \in 1 .. Len(g[k]) : p = start[k] + i - 1 /\ g[k][i] = vs[p]
<1> DEFINE m == Len(g)
           after == {k \in Nat : k \in 1 .. m + 1 /\ p < start[k]}
<1>1. /\ m \in Nat /\ start[1] = 1 /\ start[m + 1] = Len(vs) + 1 /\ Len(vs) \in Nat
      /\ \A k \in 1 .. m + 1 : start[k] \in Nat
  <2>1. CutInto(g, start, vs, Len(vs)) /\ vs \in Seq(Voxels)
    BY DEF Runs
  <2>2. Len(vs) \in Nat /\ g \in Seq(Seq(Voxels))
    BY <2>1 DEF CutInto
  <2>3. m \in Nat
    BY <2>2
  <2>4. /\ start[1] = 1 /\ start[m + 1] = Len(vs) + 1
        /\ start \in [1 .. m + 1 -> 1 .. Len(vs) + 1]
    BY <2>1 DEF CutInto
  <2> HIDE DEF m
  <2> QED BY <2>2, <2>3, <2>4
<1>2. m + 1 \in after
  BY <1>1
<1>3. PICK e \in after : \A k \in after : e <= k
  <2> HIDE DEF after, m
  <2>1. after \subseteq Nat
    BY DEF after
  <2> QED BY <2>1, <1>2, LeastNumber
<1>4. e \in 1 .. m + 1 /\ p < start[e]
  OBVIOUS
<1>5. e # 1
  BY <1>1, <1>4
<1> DEFINE k == e - 1
<1>6. k \in 1 .. m /\ k + 1 = e /\ k \in 1 .. m + 1 /\ k \in Nat
  <2> HIDE DEF m
  <2> QED BY <1>1, <1>4, <1>5
<1>7. ~(p < start[k])
  <2>1. k \notin after
    <3> HIDE DEF after, m
    <3> QED BY <1>3, <1>6
  <2> HIDE DEF k, m
  <2> QED BY <2>1, <1>6
<1>8. start[k + 1] = start[k] + Len(g[k]) /\ Len(g[k]) \in Nat /\ start[k] \in Nat
  BY <1>6, EntryOfRun
<1> DEFINE i == p - start[k] + 1
<1> HIDE DEF k, m
<1>9. i \in 1 .. Len(g[k]) /\ p = start[k] + i - 1
  <2>1. p < start[k] + Len(g[k])
    BY <1>4, <1>6, <1>8
  <2> QED BY <2>1, <1>7, <1>8
<1> HIDE DEF i
<1>10. g[k][i] = vs[p]
  BY <1>6, <1>9, EntryOfRun DEF m
<1> QED BY <1>6, <1>9, <1>10 DEF m

\* The heights listed at a leaf are those of the run whose cell holds it.
LEMMA BinsOfRun ==
  ASSUME NEW vs, NEW g, NEW start, Runs(vs, g, start), NEW y \in Int
  PROVE  /\ \A k \in 1 .. Len(g) : Holds(CellsOf(g)[k], y) => BinsAt(vs, 2 * y + 1) = RunBins(g[k])
         /\ (\A k \in 1 .. Len(g) : ~Holds(CellsOf(g)[k], y)) => BinsAt(vs, 2 * y + 1) = {}
<1> DEFINE leaf == 2 * y + 1
           Has(v, h) == VoxelLo(v) <= h /\ h < VoxelHi(v)
<1>1. /\ DOMAIN vs = 1 .. Len(vs) /\ Len(vs) \in Nat
      /\ CellsOf(g) \in Seq(Nat) /\ Len(CellsOf(g)) = Len(g) /\ Disjoint(CellsOf(g))
  <2>1. vs \in Seq(Voxels)
    BY DEF Runs
  <2>2. CellsOf(g) \in Seq(Nat) /\ Len(CellsOf(g)) = Len(g) /\ Unmerged(CellsOf(g), LabelsOf(g))
    BY RunsUnmerged
  <2> QED BY <2>1, <2>2 DEF Unmerged
<1>2. \A h : h \in BinsAt(vs, leaf) <=>
             h \in Bins /\ \E p \in 1 .. Len(vs) : leaf \in LeavesOf(vs[p].cell) /\ Has(vs[p], h)
  BY <1>1 DEF BinsAt, BinsOf
<1> HIDE DEF leaf
<1>3. ASSUME NEW k \in 1 .. Len(g)
      PROVE  leaf \in LeavesOf(CellsOf(g)[k]) <=> Holds(CellsOf(g)[k], y)
  <2>1. CellsOf(g)[k] \in Nat /\ IsCellId(CellsOf(g)[k])
    BY <1>1, DisjointCells
  <2> QED BY <2>1, LeafHeld DEF leaf
\* An entry with the leaf and the height is one of a run that holds the leaf, and back.
<1>4. ASSUME NEW h, NEW p \in 1 .. Len(vs), leaf \in LeavesOf(vs[p].cell), Has(vs[p], h)
      PROVE  \E k \in 1 .. Len(g) : /\ Holds(CellsOf(g)[k], y)
                                    /\ \E i \in 1 .. Len(g[k]) : Has(g[k][i], h)
  <2>1. PICK k \in 1 .. Len(g) :
               \E i \in 1 .. Len(g[k]) : p = start[k] + i - 1 /\ g[k][i] = vs[p]
    BY InARun
  <2>2. PICK i \in 1 .. Len(g[k]) : p = start[k] + i - 1 /\ g[k][i] = vs[p]
    BY <2>1
  <2>3. g[k][i].cell = CellsOf(g)[k]
    BY EntryOfRun
  <2>4. leaf \in LeavesOf(CellsOf(g)[k]) /\ Has(g[k][i], h)
    BY <1>4, <2>2, <2>3
  <2> HIDE DEF Has
  <2> QED BY <2>4, <1>3
<1>5. ASSUME NEW h, NEW k \in 1 .. Len(g), Holds(CellsOf(g)[k], y),
             NEW i \in 1 .. Len(g[k]), Has(g[k][i], h)
      PROVE  \E p \in 1 .. Len(vs) : leaf \in LeavesOf(vs[p].cell) /\ Has(vs[p], h)
  <2> DEFINE p == start[k] + i - 1
  <2>1. p \in 1 .. Len(vs) /\ g[k][i] = vs[p] /\ g[k][i].cell = CellsOf(g)[k]
    BY EntryOfRun
  <2> HIDE DEF p
  <2>2. leaf \in LeavesOf(vs[p].cell) /\ Has(vs[p], h)
    BY <1>3, <1>5, <2>1
  <2> HIDE DEF Has
  <2> QED BY <2>1, <2>2
<1>6. ASSUME NEW k \in 1 .. Len(g), NEW i \in 1 .. Len(g[k]), NEW h \in Int, Has(g[k][i], h)
      PROVE  h \in Bins
  <2>1. g[k][i] \in Voxels /\ VoxelBoundsOk(g[k][i])
    BY EntryOfRun
  <2>2. /\ VoxelLo(g[k][i]) \in Int /\ VoxelHi(g[k][i]) \in Int
        /\ VoxelLo(g[k][i]) \in Bins /\ VoxelHi(g[k][i]) - 1 \in Bins
    BY <2>1, IntervalInBins
  <2>3. BinSize(0) \in Int
    BY VoxelAssumption, PowerOfTwo DEF BinSize
  <2> QED BY <1>6, <2>2, <2>3 DEF Bins
<1>7. \A h \in Bins : h \in Int
  BY DEF Bins
<1>8. ASSUME NEW k \in 1 .. Len(g)
      PROVE  \A h : h \in RunBins(g[k]) <=> h \in Int /\ \E i \in 1 .. Len(g[k]) : Has(g[k][i], h)
  <2>1. \A i \in 1 .. Len(g[k]) : RunLo(g[k])[i] = VoxelLo(g[k][i]) /\ RunHi(g[k])[i] = VoxelHi(g[k][i])
    BY DEF RunLo, RunHi
  <2> QED BY <2>1 DEF RunBins, InIntervals
<1> HIDE DEF Has
<1>9. ASSUME NEW k \in 1 .. Len(g), Holds(CellsOf(g)[k], y)
      PROVE  BinsAt(vs, leaf) = RunBins(g[k])
  <2>1. ASSUME NEW e \in 1 .. Len(g), Holds(CellsOf(g)[e], y) PROVE e = k
    BY <1>1, <1>9, <2>1, OneHolder
  <2>2. ASSUME NEW h \in BinsAt(vs, leaf) PROVE h \in RunBins(g[k])
    <3>1. h \in Bins /\ \E p \in 1 .. Len(vs) : leaf \in LeavesOf(vs[p].cell) /\ Has(vs[p], h)
      BY <1>2
    <3>2. \E i \in 1 .. Len(g[k]) : Has(g[k][i], h)
      BY <3>1, <1>4, <2>1
    <3> QED BY <3>1, <3>2, <1>7, <1>8
  <2>3. ASSUME NEW h \in RunBins(g[k]) PROVE h \in BinsAt(vs, leaf)
    <3>1. h \in Int /\ \E i \in 1 .. Len(g[k]) : Has(g[k][i], h)
      BY <1>8
    <3>2. h \in Bins
      BY <3>1, <1>6
    <3>3. \E p \in 1 .. Len(vs) : leaf \in LeavesOf(vs[p].cell) /\ Has(vs[p], h)
      BY <3>1, <1>5, <1>9
    <3> QED BY <3>2, <3>3, <1>2
  <2> QED BY <2>2, <2>3
<1>10. ASSUME \A k \in 1 .. Len(g) : ~Holds(CellsOf(g)[k], y) PROVE BinsAt(vs, leaf) = {}
  <2>1. ASSUME NEW h \in BinsAt(vs, leaf) PROVE FALSE
    <3>1. \E p \in 1 .. Len(vs) : leaf \in LeavesOf(vs[p].cell) /\ Has(vs[p], h)
      BY <1>2
    <3> QED BY <3>1, <1>4, <1>10
  <2> QED BY <2>1
<1> QED BY <1>9, <1>10 DEF leaf

\* A run with the heights of another has its entries' zooms and bins too.
LEMMA RunsAlike ==
  ASSUME NEW vs, NEW g, NEW start, Runs(vs, g, start), NEW k \in 1 .. Len(g),
         NEW ws, NEW f, NEW begin, Runs(ws, f, begin), NEW j \in 1 .. Len(f),
         RunBins(g[k]) = RunBins(f[j])
  PROVE  LabelsOf(g)[k] = LabelsOf(f)[j]
<1> DEFINE u == g[k]
           w == f[j]
<1>1. u \in Seq(Voxels) /\ w \in Seq(Voxels) /\ Len(u) \in Nat /\ Len(w) \in Nat
  BY EntryOfRun
<1>2. \A i \in 1 .. Len(u) : u[i] \in Voxels /\ VoxelBoundsOk(u[i]) /\ IsCoarsest(u[i])
  BY EntryOfRun
<1>3. \A i \in 1 .. Len(w) : w[i] \in Voxels /\ VoxelBoundsOk(w[i]) /\ IsCoarsest(w[i])
  BY EntryOfRun
<1>4. Gapped(Len(u), RunLo(u), RunHi(u)) /\ Gapped(Len(w), RunLo(w), RunHi(w))
  BY RunIsGapped
<1>5. LabelsOf(g)[k] = [i \in DOMAIN u |-> Heights(u[i])]
  BY DEF LabelsOf
<1>6. LabelsOf(f)[j] = [i \in DOMAIN w |-> Heights(w[i])]
  BY DEF LabelsOf
<1>7. RunBins(u) = RunBins(w)
  OBVIOUS
<1> HIDE DEF u, w
<1>8. /\ Len(u) = Len(w)
      /\ \A i \in 1 .. Len(u) : RunLo(u)[i] = RunLo(w)[i] /\ RunHi(u)[i] = RunHi(w)[i]
  <2>1. InIntervals(Len(u), RunLo(u), RunHi(u)) = InIntervals(Len(w), RunLo(w), RunHi(w))
    BY <1>7 DEF RunBins
  <2> QED BY <2>1, <1>1, <1>4, OneRow
<1>9. ASSUME NEW i \in 1 .. Len(u) PROVE Heights(u[i]) = Heights(w[i])
  <2>1. i \in 1 .. Len(w)
    BY <1>8
  <2>2. VoxelLo(u[i]) = VoxelLo(w[i]) /\ VoxelHi(u[i]) = VoxelHi(w[i])
    <3>1. RunLo(u)[i] = VoxelLo(u[i]) /\ RunHi(u)[i] = VoxelHi(u[i])
      BY DEF RunLo, RunHi
    <3>2. RunLo(w)[i] = VoxelLo(w[i]) /\ RunHi(w)[i] = VoxelHi(w[i])
      BY <2>1 DEF RunLo, RunHi
    <3> QED BY <3>1, <3>2, <1>8
  <2> QED BY <2>1, <2>2, <1>2, <1>3, OneZoom
<1>10. DOMAIN u = 1 .. Len(u) /\ DOMAIN w = 1 .. Len(u)
  BY <1>1, <1>8
<1> QED BY <1>5, <1>6, <1>9, <1>10

\* A run has some height.
LEMMA SomeBin ==
  ASSUME NEW vs, NEW g, NEW start, Runs(vs, g, start), NEW k \in 1 .. Len(g)
  PROVE  RunBins(g[k]) # {}
<1> DEFINE u == g[k]
<1>1. 1 \in 1 .. Len(u)
  BY EntryOfRun
<1>2. Gapped(Len(u), RunLo(u), RunHi(u))
  BY RunIsGapped
<1> HIDE DEF u
<1>3. RunLo(u)[1] \in Int /\ RunLo(u)[1] <= RunLo(u)[1] /\ RunLo(u)[1] < RunHi(u)[1]
  BY <1>1, <1>2 DEF Gapped
<1>4. RunLo(u)[1] \in RunBins(u)
  BY <1>1, <1>3 DEF RunBins, InIntervals
<1> QED BY <1>4 DEF u

\* Lists with the same heights at every leaf have the same label there.
SameHeights(vs, ws) == \A leaf \in Int : leaf % 2 = 1 => BinsAt(vs, leaf) = BinsAt(ws, leaf)

LEMMA SameRunLabels ==
  ASSUME NEW vs, NEW g, NEW start, Runs(vs, g, start),
         NEW ws, NEW f, NEW begin, Runs(ws, f, begin), SameHeights(vs, ws)
  PROVE  SameLabels(CellsOf(g), LabelsOf(g), CellsOf(f), LabelsOf(f))
<1>1. /\ CellsOf(g) \in Seq(Nat) /\ Len(CellsOf(g)) = Len(g) /\ Disjoint(CellsOf(g))
      /\ CellsOf(f) \in Seq(Nat) /\ Len(CellsOf(f)) = Len(f) /\ Disjoint(CellsOf(f))
  BY RunsUnmerged DEF Unmerged
<1> SUFFICES ASSUME NEW y \in Int
             PROVE  LabelsAt(CellsOf(g), LabelsOf(g), y) = LabelsAt(CellsOf(f), LabelsOf(f), y)
  BY DEF SameLabels
<1>2. BinsAt(vs, 2 * y + 1) = BinsAt(ws, 2 * y + 1)
  BY DEF SameHeights
<1> DEFINE Held(r) == \E k \in 1 .. Len(r) : Holds(CellsOf(r)[k], y)
<1>3. (BinsAt(vs, 2 * y + 1) = {} <=> ~Held(g)) /\ (BinsAt(ws, 2 * y + 1) = {} <=> ~Held(f))
  <2>1. (~Held(g) => BinsAt(vs, 2 * y + 1) = {}) /\ (~Held(f) => BinsAt(ws, 2 * y + 1) = {})
    BY BinsOfRun
  <2>2. ASSUME NEW k \in 1 .. Len(g), Holds(CellsOf(g)[k], y) PROVE BinsAt(vs, 2 * y + 1) # {}
    BY <2>2, BinsOfRun, SomeBin
  <2>3. ASSUME NEW k \in 1 .. Len(f), Holds(CellsOf(f)[k], y) PROVE BinsAt(ws, 2 * y + 1) # {}
    BY <2>3, BinsOfRun, SomeBin
  <2> QED BY <2>1, <2>2, <2>3
<1>4. CASE Held(g)
  <2>1. PICK k \in 1 .. Len(g) : Holds(CellsOf(g)[k], y)
    BY <1>4
  <2>2. PICK j \in 1 .. Len(f) : Holds(CellsOf(f)[j], y)
    BY <1>2, <1>3, <1>4
  <2>3. RunBins(g[k]) = RunBins(f[j])
    <3>1. BinsAt(vs, 2 * y + 1) = RunBins(g[k])
      BY <2>1, BinsOfRun
    <3>2. BinsAt(ws, 2 * y + 1) = RunBins(f[j])
      BY <2>2, BinsOfRun
    <3> QED BY <3>1, <3>2, <1>2
  <2>4. LabelsOf(g)[k] = LabelsOf(f)[j]
    BY <2>3, RunsAlike
  <2>5. LabelsAt(CellsOf(g), LabelsOf(g), y) = {LabelsOf(g)[k]}
    BY <1>1, <2>1, OneLabel
  <2>6. LabelsAt(CellsOf(f), LabelsOf(f), y) = {LabelsOf(f)[j]}
    BY <1>1, <2>2, OneLabel
  <2> QED BY <2>4, <2>5, <2>6
<1>5. CASE ~Held(g)
  <2>1. ~Held(f)
    BY <1>2, <1>3, <1>5
  <2> QED BY <1>1, <1>5, <2>1 DEF LabelsAt
<1> QED BY <1>4, <1>5

\* Lists cut into the same runs are the same.
LEMMA SameRuns ==
  ASSUME NEW vs, NEW g, NEW start, Runs(vs, g, start),
         NEW ws, NEW f, NEW begin, Runs(ws, f, begin),
         CellsOf(g) = CellsOf(f), Len(g) = Len(f),
         \A k \in 1 .. Len(g) : LabelsOf(g)[k] = LabelsOf(f)[k]
  PROVE  vs = ws
<1> DEFINE m == Len(g)
<1>1. /\ vs \in Seq(Voxels) /\ CutInto(g, start, vs, Len(vs))
      /\ ws \in Seq(Voxels) /\ CutInto(f, begin, ws, Len(ws))
  BY DEF Runs
<1>2. /\ g \in Seq(Seq(Voxels)) /\ start[1] = 1 /\ start[m + 1] = Len(vs) + 1
      /\ begin[1] = 1 /\ begin[m + 1] = Len(ws) + 1
  BY <1>1 DEF CutInto
<1>3. m \in Nat /\ Len(vs) \in Nat /\ Len(ws) \in Nat
  BY <1>1, <1>2
<1>4. ASSUME NEW k \in 1 .. m
      PROVE  Len(g[k]) = Len(f[k]) /\ \A i \in 1 .. Len(g[k]) : g[k][i] = f[k][i]
  <2> DEFINE u == g[k]
             w == f[k]
  <2>1. u \in Seq(Voxels) /\ Len(u) \in Nat /\ w \in Seq(Voxels) /\ Len(w) \in Nat
    BY EntryOfRun
  <2>2. \A i \in 1 .. Len(u) : u[i] \in Voxels /\ u[i].cell = CellsOf(g)[k]
    BY EntryOfRun
  <2>3. \A i \in 1 .. Len(w) : w[i] \in Voxels /\ w[i].cell = CellsOf(f)[k]
    BY EntryOfRun
  <2>4. [i \in DOMAIN u |-> Heights(u[i])] = [i \in DOMAIN w |-> Heights(w[i])]
    <3>1. LabelsOf(g)[k] = [i \in DOMAIN u |-> Heights(u[i])]
      BY DEF LabelsOf
    <3>2. LabelsOf(f)[k] = [i \in DOMAIN w |-> Heights(w[i])]
      BY DEF LabelsOf
    <3> HIDE DEF u, w
    <3> QED BY <3>1, <3>2
  <2> HIDE DEF u, w
  <2>5. DOMAIN u = 1 .. Len(u) /\ DOMAIN w = 1 .. Len(w)
    BY <2>1
  <2>6. DOMAIN u = DOMAIN w /\ \A i \in DOMAIN u : Heights(u[i]) = Heights(w[i])
    BY <2>4
  <2>7. Len(u) = Len(w)
    <3> DEFINE a == Len(u)
               b == Len(w)
    <3>1. a \in Nat /\ b \in Nat /\ 1 .. a = 1 .. b
      BY <2>1, <2>5, <2>6
    <3> HIDE DEF a, b
    <3>2. (a > 0 => a \in 1 .. b) /\ (b > 0 => b \in 1 .. a)
      BY <3>1
    <3>3. a = b
      BY <3>1, <3>2
    <3> QED BY <3>3 DEF a, b
  <2>8. ASSUME NEW i \in 1 .. Len(u) PROVE u[i] = w[i]
    <3>1. u[i] \in Voxels /\ w[i] \in Voxels /\ u[i].cell = w[i].cell
      BY <2>2, <2>3, <2>7
    <3>2. u[i].zoom = w[i].zoom /\ u[i].min = w[i].min /\ u[i].max = w[i].max
      <4>1. Heights(u[i]) = Heights(w[i])
        BY <2>5, <2>6
      <4> QED BY <4>1 DEF Heights
    <3> QED BY <3>1, <3>2 DEF Voxels
  <2>9. Len(u) = Len(w) /\ \A i \in 1 .. Len(u) : u[i] = w[i]
    BY <2>7, <2>8
  <2> QED BY <2>9 DEF u, w
<1> HIDE DEF m
<1>5. ASSUME NEW k \in 1 .. m
      PROVE  /\ start[k] \in Nat /\ start[k + 1] = start[k] + Len(g[k])
             /\ begin[k] \in Nat /\ begin[k + 1] = begin[k] + Len(f[k])
  BY EntryOfRun DEF m
<1> DEFINE Meet == {k \in 0 .. m : start[k + 1] = begin[k + 1]}
<1>6. 0 .. m \subseteq Meet
  <2>1. 0 \in Meet
    BY <1>2, <1>3
  <2>2. ASSUME NEW k \in 1 .. m, k - 1 \in Meet PROVE k \in Meet
    <3>1. start[k] = begin[k]
      <4>1. (k - 1) + 1 = k
        BY <1>3
      <4> QED BY <4>1, <2>2
    <3>2. start[k + 1] = begin[k + 1]
      BY <3>1, <1>4, <1>5
    <3>3. k \in 0 .. m
      BY <1>3
    <3> QED BY <3>2, <3>3
  <2> HIDE DEF Meet
  <2> QED BY <2>1, <2>2, <1>3, UpTo
<1>7. \A k \in 0 .. m : start[k + 1] = begin[k + 1]
  BY <1>6
<1> HIDE DEF Meet
<1>8. Len(vs) = Len(ws)
  <2>1. m \in 0 .. m
    BY <1>3
  <2> QED BY <2>1, <1>2, <1>3, <1>7
<1>9. ASSUME NEW p \in 1 .. Len(vs) PROVE vs[p] = ws[p]
  <2>1. PICK k \in 1 .. m : \E i \in 1 .. Len(g[k]) : p = start[k] + i - 1 /\ g[k][i] = vs[p]
    <3>1. \E k \in 1 .. Len(g) : \E i \in 1 .. Len(g[k]) : p = start[k] + i - 1 /\ g[k][i] = vs[p]
      BY InARun
    <3> QED BY <3>1 DEF m
  <2>2. PICK i \in 1 .. Len(g[k]) : p = start[k] + i - 1 /\ g[k][i] = vs[p]
    BY <2>1
  <2>3. i \in 1 .. Len(f[k]) /\ g[k][i] = f[k][i]
    BY <1>4
  <2>4. f[k][i] = ws[begin[k] + i - 1]
    BY <2>3, EntryOfRun DEF m
  <2>5. start[k] = begin[k]
    <3>1. k - 1 \in 0 .. m /\ (k - 1) + 1 = k
      BY <1>3
    <3> QED BY <3>1, <1>7
  <2> QED BY <2>2, <2>3, <2>4, <2>5
<1> QED BY <1>1, <1>3, <1>8, <1>9, SeqEqual

---------------------------------------------------------------------------
(* What a sender can have written *)

\* A message of wire elements, a list of entries, a claim or a direction.
Inputs ==
  [kind : {"message"}, wire : Seq(Elements)]
    \cup [kind : {"entries"}, list : Seq(Voxels), added : Nat]
    \cup [kind : {"claim"}, region : Claims]
    \cup [kind : {"point"}, direction : Directions]

TypeOK == input \in Inputs

\* A sender only ever adds an element to a message, or an entry to a list.
LEMMA TypeCorrect == Spec => []TypeOK
<1>1. Init => TypeOK
  <2> SUFFICES ASSUME Init PROVE input \in Inputs
    BY DEF TypeOK
  <2>1. ASSUME NEW vs \in Openings, input = [kind |-> "entries", list |-> vs, added |-> 0]
        PROVE  input \in Inputs
    <3>1. vs \in Seq(Voxels)
      BY EncodingsAssumption
    <3>2. input \in [kind : {"entries"}, list : Seq(Voxels), added : Nat]
      BY <2>1, <3>1
    <3> QED BY <3>2 DEF Inputs
  <2>2. input = [kind |-> "message", wire |-> <<>>] => input \in Inputs
    BY DEF Inputs
  <2>3. \A r \in Claims : input = [kind |-> "claim", region |-> r] => input \in Inputs
    BY DEF Inputs
  <2>4. \A d \in Directions : input = [kind |-> "point", direction |-> d] => input \in Inputs
    BY DEF Inputs
  <2> QED BY <2>1, <2>2, <2>3, <2>4 DEF Init
<1>2. TypeOK /\ [Next]_input => TypeOK'
  <2> SUFFICES ASSUME input \in Inputs, [Next]_input PROVE input' \in Inputs
    BY DEF TypeOK
  <2>1. CASE WriteField
    <3>1. input \in [kind : {"message"}, wire : Seq(Elements)]
      BY <2>1 DEF WriteField, Inputs
    <3>2. input' \in [kind : {"message"}, wire : Seq(Elements)]
      BY <2>1, <3>1 DEF WriteField
    <3> QED BY <3>2 DEF Inputs
  <2>2. CASE WriteEntry
    <3>1. input \in [kind : {"entries"}, list : Seq(Voxels), added : Nat]
      BY <2>2 DEF WriteEntry, Inputs
    <3>2. PICK v \in Entries :
            input' = [input EXCEPT !.list = Append(@, v), !.added = @ + 1]
      BY <2>2 DEF WriteEntry
    <3>3. input.list \in Seq(Voxels) /\ v \in Voxels /\ input.added \in Nat
      BY <3>1, EncodingsAssumption
    <3>4. Append(input.list, v) \in Seq(Voxels) /\ input.added + 1 \in Nat
      BY <3>3
    <3>5. input' \in [kind : {"entries"}, list : Seq(Voxels), added : Nat]
      BY <3>1, <3>2, <3>4
    <3> QED BY <3>5 DEF Inputs
  <2>3. CASE UNCHANGED input
    BY <2>3
  <2> QED BY <2>1, <2>2, <2>3 DEF Next
<1> QED BY <1>1, <1>2, PTL DEF Spec

\* A message without groups that decodes and passes the guard against duplicated
\* fields shows a reader of the first copy of any listed field what the decoder kept
\* (src/wire.rs duplicate_singular_fields).
THEOREM ListedFieldsHaveOneReadingTheorem == Spec => []ListedFieldsHaveOneReading
<1>1. TypeOK => ListedFieldsHaveOneReading
  BY OneCopyOneReading DEF ListedFieldsHaveOneReading, OneReading, TypeOK, Inputs
<1> QED BY <1>1, TypeCorrect, PTL

\* No two different claims satisfy one expectation, and without an expectation nothing
\* is asserted (src/verify.rs match_expected_region, region_asserted).
THEOREM ExpectationIsOneRegionTheorem == Spec => []ExpectationIsOneRegion
<1>1. ExpectationIsOneRegion
  BY ExpectationOfOne DEF ExpectationIsOneRegion
<1> QED BY <1>1, PTL

\* A point is asserted to be in a claimed cell or voxel set exactly if the set is
\* canonical and the point is in one of the cells listed, at a height of one of its
\* bins: the binary search over leaf ranges misses none (src/verify.rs
\* region_contains, region_asserted, src/s2.rs cell_set_contains_leaf).
THEOREM ContainmentIsMembershipTheorem == Spec => []ContainmentIsMembership
<1>1. TypeOK => ContainmentIsMembership
  <2> SUFFICES ASSUME TypeOK, input.kind = "entries" PROVE ContainmentIsMembership
    BY DEF ContainmentIsMembership
  <2>1. input.list \in Seq(Voxels)
    BY DEF TypeOK, Inputs
  <2> QED BY <2>1, Containment DEF ContainmentIsMembership
<1> QED BY <1>1, TypeCorrect, PTL

\* The curve keeps points together, for every depth, every width of a lookup and any
\* directions: the cells of a level are squares of columns and rows, leaves that follow
\* each other share an edge, and columns and rows are in the order of u and v
\* (src/s2.rs leaf_from_xyz, face_ij_to_leaf, lookup_pos).
THEOREM CurveKeepsPlacesTheorem == Spec => []CurveKeepsPlaces
<1>1. TypeOK => CurveKeepsPlaces
  BY PlacesKept DEF CurveKeepsPlaces, TypeOK, Inputs
<1> QED BY <1>1, TypeCorrect, PTL

\* A region of cells has one spelling that the verifier accepts: two canonical lists
\* that cover the same leaves are the same list, and so have the same digest
\* (src/s2.rs check_canonical, src/verify.rs add_cell_set_shape).
THEOREM OneSpelling ==
  ASSUME NEW a \in Seq(Nat), NEW b \in Seq(Nat), CheckCanonical(a), CheckCanonical(b),
         Covered(a) = Covered(b)
  PROVE  a = b
<1>1. Unmerged(a, Plain(a)) /\ Unmerged(b, Plain(b))
  BY CanonicalCells
<1>2. ASSUME NEW s \in {a, b}, NEW y \in Int
      PROVE  LabelsAt(s, Plain(s), y) = {n \in {0} : 2 * y + 1 \in Covered(s)}
  <2>1. s \in Seq(Nat) /\ Disjoint(s) /\ DOMAIN s = 1 .. Len(s)
    BY <1>1 DEF Unmerged
  <2>2. \A m \in 1 .. Len(s) : 2 * y + 1 \in LeavesOf(s[m]) <=> Holds(s[m], y)
    BY <2>1, LeafHeld, DisjointCells
  <2>3. 2 * y + 1 \in Covered(s) <=> \E m \in 1 .. Len(s) : Holds(s[m], y)
    BY <2>1, <2>2 DEF Covered
  <2>4. \A m \in 1 .. Len(s) : Plain(s)[m] = 0
    BY DEF Plain
  <2> QED BY <2>3, <2>4 DEF LabelsAt
<1>3. SameLabels(a, Plain(a), b, Plain(b))
  BY <1>2 DEF SameLabels
<1> QED BY <1>1, <1>3, OneList

\* And so has a region of cells with heights: two canonical voxel sets with the same
\* heights at every leaf are the same list (src/s2.rs check_voxel_canonical, whose
\* groups chunk_by cuts).
THEOREM OneVoxelSpelling ==
  ASSUME NEW vs \in Seq(Voxels), NEW ws \in Seq(Voxels),
         CheckVoxelCanonical(vs), CheckVoxelCanonical(ws),
         \A leaf \in Int : leaf % 2 = 1 => BinsAt(vs, leaf) = BinsAt(ws, leaf)
  PROVE  vs = ws
<1> DEFINE g == ChunkByCell(vs)
           f == ChunkByCell(ws)
<1>1. PICK start : Runs(vs, g, start)
  BY ChunksCut DEF Runs
<1>2. PICK begin : Runs(ws, f, begin)
  BY ChunksCut DEF Runs
<1> HIDE DEF g, f
<1>3. /\ CellsOf(g) \in Seq(Nat) /\ Len(CellsOf(g)) = Len(g) /\ Unmerged(CellsOf(g), LabelsOf(g))
      /\ CellsOf(f) \in Seq(Nat) /\ Len(CellsOf(f)) = Len(f) /\ Unmerged(CellsOf(f), LabelsOf(f))
  BY <1>1, <1>2, RunsUnmerged
<1>4. SameHeights(vs, ws)
  BY DEF SameHeights
<1>5. SameLabels(CellsOf(g), LabelsOf(g), CellsOf(f), LabelsOf(f))
  BY <1>1, <1>2, <1>4, SameRunLabels
<1>6. /\ CellsOf(g) = CellsOf(f)
      /\ \A k \in 1 .. Len(CellsOf(g)) : LabelsOf(g)[k] = LabelsOf(f)[k]
  BY <1>3, <1>5, OneList
<1>7. Len(g) = Len(f) /\ \A k \in 1 .. Len(g) : LabelsOf(g)[k] = LabelsOf(f)[k]
  BY <1>3, <1>6
<1> QED BY <1>1, <1>2, <1>6, <1>7, SameRuns
=============================================================================
