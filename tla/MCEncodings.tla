---------------------------- MODULE MCEncodings ----------------------------
(* Messages of fields from each class of the schema; sets of cells and       *)
(* voxels on the six cells of one face and one of the next; spellings of    *)
(* three names as types, codes and cities; a grid of directions.            *)
EXTENDS NormalForms, TLC

Element(field, type, body) == [field |-> field, type |-> type, body |-> body]

\* A scalar, a string, a message, the repeated field, the field the guard's list
\* lacks, an unknown one and a group of it, and what cannot be walked.
MCElements ==
  {Element(f, SchemaType(f), b) : f \in {7, 13}, b \in {"a", "b"}}
    \cup {Element(f, "len", b) : f \in {10, 19, 20, 99}, b \in {"a"}}
    \cup {Element(99, t, "a") : t \in {"fixed", "group", "endgroup", "invalid"}}
    \cup {Element(7, "len", "a"), Element(7, "varint", Cut), Element(0, "len", "a"),
          Element(7, "cut", Cut)}

Voxel(c, z, lo, hi) == [cell |-> c, zoom |-> z, min |-> lo, max |-> hi]
FullHeight(c) == Voxel(c, 0, -1, 0)
Below(c)      == Voxel(c, 0, -1, -1)

\* Face 0, its quarters, the leaves of the second one, and the next face.
Face     == 4 ^ MaxLevel
Quarter  == Children(Face)
Leaf     == Children(Quarter[2])
NextFace == Face + 2 ^ PosBits

\* Nothing; three of four siblings with equal heights and with different ones;
\* and a face that lacks one leaf, which completes two levels.
MCOpenings ==
  {<<>>,
   <<FullHeight(Leaf[1]), FullHeight(Leaf[2]), FullHeight(Leaf[3])>>,
   <<Below(Leaf[1]), Below(Leaf[2]), Below(Leaf[3])>>,
   <<Below(Leaf[1]), FullHeight(Leaf[2]), Below(Leaf[3])>>,
   <<Below(Leaf[1]), Voxel(Leaf[1], 1, 1, 1), Below(Leaf[2]), Voxel(Leaf[2], 1, 1, 1)>>,
   <<Below(Quarter[1]), Below(Leaf[1]), Below(Leaf[2]), Below(Leaf[3]), Below(Quarter[3]),
     Below(Quarter[4])>>}

\* Each cell at full height, below zero, below zero in halves, across zero, and in
\* the topmost bin; and what no entry may be.
MCEntries ==
  {Voxel(c, z[1], z[2], z[3]) :
     c \in {Face, NextFace} \cup ToSet(Quarter) \cup ToSet(Leaf),
     z \in {<<0, -1, 0>>, <<0, -1, -1>>, <<1, -2, -1>>, <<1, -1, 0>>, <<1, 1, 1>>}}
    \cup {FullHeight(0), FullHeight(2), FullHeight(Face + 6 * 2 ^ PosBits),
          Voxel(Face, 2, 0, 0), Voxel(Face, 0, 0, -1), Voxel(Face, 1, -3, 0),
          Voxel(Face, 1, 0, 2)}

\* The names "us" in two cases, a city of that name, one whose name looks like a
\* prefix, and expectations with and without a prefix or a value.
MCLower == [us |-> "us", US |-> "us", paris |-> "paris", country |-> "country",
            COUNTRY |-> "country", city |-> "city", subdivision |-> "subdivision",
            earth |-> "earth", Earth |-> "earth"]
           @@ ("" :> "")
MCIds == {<<"us">>, <<"US">>, <<"paris">>, <<"country", "us">>, <<"">>, <<"country", "">>}
MCClaims == [type : {"country", "subdivision", "city"}, id : MCIds]
              \cup {[type |-> "earth", id |-> <<>>], NoRegion}
MCWants == MCIds \cup {<<"COUNTRY", "US">>, <<"city", "us">>, <<"city", "country", "us">>,
                       <<"subdivision", "us">>, <<"city", "">>}

MCTypes == {"city", "COUNTRY", "subdivision", "Earth"}

\* Directions through every leaf of the six faces.
MCDirections == {<<x, y, z>> \in (-3 .. 3) \X (-3 .. 3) \X (-3 .. 3) :
                   3 \in {Magnitude(x), Magnitude(y), Magnitude(z)}}

\* Directions into the second quarter, its neighbours and two other faces.
MCAsked == {<<3, 2, 2>>, <<2, 2, -1>>, <<3, -2, -1>>, <<1, 1, 0>>, <<-1, 2, 1>>, <<-1, 0, 0>>,
            <<3, 1, 1>>, <<3, 2, 1>>, NoPoint}
=============================================================================
