--------------------------- MODULE MCImages_proofs ---------------------------
(***************************************************************************)
(* Proofs about the programs that write images, as MCImages composes them: *)
(* the writer of sparse images, for every file system and every list of    *)
(* free blocks, the commands that add, move and remove footers, for every  *)
(* set of commands and every size of image and partition, the handler of   *)
(* sparse and plain images, for every file, all data and all sizes, and    *)
(* mkbootimg with repack_bootimg, for every set of command lines.          *)
(***************************************************************************)
EXTENDS MCImages_invariants, TLAPS, NaturalsInduction, WellFoundedInduction,
        FiniteSetTheorems, SequenceTheorems

\* A set of naturals has a least element.
LEMMA Least ==
    ASSUME NEW T \in SUBSET Nat, T # {}
    PROVE  \E n \in T : \A k \in T : n <= k
<1>1. PICK n \in T : \A k \in T : <<k, n>> \notin OpToRel(<, Nat)
  BY WFMin, NatLessThanWellFounded, Zenon
<1>2. \A k \in T : ~ (k < n) BY <1>1, Zenon DEF OpToRel
<1>3. QED BY <1>2
--------------------------------------------------
(* The writer. *)

LEMMA Sizes == TotalBlocks \in Nat \ {0} /\ PerChunk \in Nat \ {0}
BY ImagesAssumption DEF Writer!SparseAssumption

LEMMA EmptyTiles == (\A F : Tiles(<< >>, F)) /\ Reach(<< >>) = 0
BY DEF Tiles, Reach

\* One more at the end.
LEMMA AppendTile ==
    ASSUME NEW F, NEW s, Tiles(s, F), NEW x, Tile(x, Reach(s), F)
    PROVE  Tiles(Append(s, x), F) /\ Reach(Append(s, x)) = Behind(x)
<1> DEFINE t == Append(s, x)
<1>1. s \in Seq(Writer!Extents) /\ x \in Writer!Extents /\ Len(s) \in Nat
  BY DEF Tiles, Tile
<1>2. /\ t \in Seq(Writer!Extents) /\ Len(t) = Len(s) + 1 /\ t # << >>
      /\ \A k \in 1 .. Len(s) : t[k] = s[k]
      /\ t[Len(s) + 1] = x
  BY <1>1
<1> HIDE DEF t
<1>3. Before(t, Len(s) + 1) = Reach(s)
  <2>1. CASE s = << >> BY <2>1 DEF Before, Reach
  <2>2. CASE s # << >>
    <3>1. Len(s) \in 1 .. Len(s) /\ (Len(s) + 1) - 1 = Len(s) /\ Len(s) + 1 # 1
      BY <1>1, <2>2
    <3> QED BY <1>2, <2>2, <3>1 DEF Before, Reach
  <2> QED BY <2>1, <2>2
<1>4. ASSUME NEW k \in 1 .. Len(t) PROVE Tile(t[k], Before(t, k), F)
  <2>1. CASE k = Len(s) + 1 BY <1>2, <1>3, <2>1
  <2>2. CASE k # Len(s) + 1
    <3>1. k \in 1 .. Len(s) /\ (k # 1 => k - 1 \in 1 .. Len(s))
      BY <1>1, <1>2, <2>2
    <3>2. Before(t, k) = Before(s, k)
      BY <1>2, <3>1 DEF Before
    <3> QED BY <1>2, <3>1, <3>2 DEF Tiles
  <2> QED BY <2>1, <2>2
<1>5. Reach(t) = Behind(x) BY <1>2 DEF Reach
<1> QED BY <1>2, <1>4, <1>5 DEF Tiles, t

LEMMA FreeTypes ==
    ASSUME FreeOK
    PROVE  /\ Len(free) \in Nat
           /\ \A k \in 1 .. Len(free) :
                /\ free[k].first \in Nat /\ free[k].first < TotalBlocks
                /\ free[k].end \in Nat /\ free[k].end <= TotalBlocks
                /\ free[k].first < free[k].end
<1> DEFINE R == [first : Writer!Blocks, end : 1 .. TotalBlocks]
<1>1. free \in Seq(R) BY DEF FreeOK
<1>2. \A x \in R : /\ x.first \in Nat /\ x.first < TotalBlocks
                   /\ x.end \in Nat /\ x.end <= TotalBlocks
  BY Sizes DEF Writer!Blocks
<1> HIDE DEF R
<1>3. Len(free) \in Nat /\ \A k \in 1 .. Len(free) : free[k] \in R
  BY <1>1
<1> QED BY <1>2, <1>3 DEF FreeOK

\* The ranges are in order, and not only next to each other.
LEMMA FreeSorted ==
    ASSUME FreeOK, NEW j \in 1 .. Len(free), NEW k \in 1 .. Len(free), j < k
    PROVE  free[j].end <= free[k].first
<1> DEFINE Bad == {n \in Nat : j < n /\ n <= Len(free) /\ ~ (free[j].end <= free[n].first)}
<1>1. Len(free) \in Nat /\ \A n \in 1 .. Len(free) : free[n].first \in Nat /\ free[n].end \in Nat
  BY FreeTypes
<1>2. SUFFICES ASSUME Bad # {} PROVE FALSE BY <1>1
<1>3. PICK n \in Bad : \A m \in Bad : n <= m
  <2> HIDE DEF Bad
  <2>1. Bad \in SUBSET Nat BY DEF Bad
  <2> QED BY <1>2, <2>1, Least
<1>4. n \in 1 .. Len(free) /\ n - 1 \in 1 .. Len(free) - 1 /\ (n - 1) + 1 = n
  BY <1>1, <1>3
<1>5. free[n - 1].end <= free[n].first /\ free[n - 1].first < free[n - 1].end
  BY <1>1, <1>4 DEF FreeOK
<1>6. CASE n - 1 = j BY <1>3, <1>5, <1>6
<1>7. CASE n - 1 # j
  <2>1. n - 1 \notin Bad BY <1>1, <1>3, <1>4
  <2>2. free[j].end <= free[n - 1].first
    BY <1>1, <1>3, <1>4, <1>7, <2>1
  <2>3. /\ free[j].end \in Nat /\ free[n - 1].first \in Nat /\ free[n - 1].end \in Nat
        /\ free[n].first \in Nat
    BY <1>1, <1>4
  <2>4. free[j].end <= free[n].first BY <1>5, <2>2, <2>3
  <2> QED BY <1>3, <2>4
<1> QED BY <1>6, <1>7

LEMMA InFree ==
    ASSUME FreeOK, NEW b \in Nat
    PROVE  b \in Writer!FreeBlocks <=> \E k \in 1 .. Len(free) : free[k].first <= b /\ b < free[k].end
<1>1. \A k \in 1 .. Len(free) :
        b \in Writer!From(free[k].first, free[k].end) <=> free[k].first <= b /\ b < free[k].end
  BY FreeTypes DEF Writer!From
<1>2. b \in Writer!FreeBlocks <=>
        \E k \in 1 .. Len(free) : b \in Writer!From(free[k].first, free[k].end)
  BY DEF Writer!FreeBlocks
<1> QED BY <1>1, <1>2

LEMMA FreeEndOK ==
    ASSUME FreeOK, NEW n \in 1 .. Len(free) + 1
    PROVE  /\ FreeEnd(n) \in Nat /\ FreeEnd(n) <= TotalBlocks
           /\ n <= Len(free) => FreeEnd(n) <= free[n].first
<1>1. CASE n = 1 BY <1>1, FreeTypes, Sizes DEF FreeEnd
<1>2. CASE n # 1
  <2>1. n - 1 \in 1 .. Len(free) /\ n - 1 < n
    BY <1>2, FreeTypes
  <2>2. n <= Len(free) => free[n - 1].end <= free[n].first
    BY <2>1, FreeSorted, FreeTypes
  <2> QED BY <1>2, <2>1, <2>2, FreeTypes DEF FreeEnd
<1> QED BY <1>1, <1>2

\* Between two ranges, before the first and behind the last, nothing is free.
LEMMA NotFree ==
    ASSUME FreeOK, NEW n \in 1 .. Len(free) + 1, NEW b \in Nat, FreeEnd(n) <= b,
           n <= Len(free) => b < free[n].first
    PROVE  b \notin Writer!FreeBlocks
<1>1. SUFFICES ASSUME NEW k \in 1 .. Len(free), free[k].first <= b, b < free[k].end
               PROVE  FALSE
  BY InFree
<1>2. CASE k < n
  <2>1. n - 1 \in 1 .. Len(free) /\ n # 1 /\ (k = n - 1 \/ k < n - 1)
    BY <1>2, FreeTypes
  <2>2. free[k].end <= free[n - 1].end
    <3>1. CASE k = n - 1 BY <2>1, <3>1, FreeTypes
    <3>2. CASE k < n - 1
      <4>1. free[k].end <= free[n - 1].first
        BY <2>1, <3>2, FreeSorted
      <4> QED BY <2>1, <4>1, FreeTypes
    <3> QED BY <2>1, <3>1, <3>2
  <2>3. free[n - 1].end <= b BY <2>1 DEF FreeEnd
  <2>4. free[k].end \in Nat /\ free[n - 1].end \in Nat
    BY <2>1, FreeTypes
  <2> QED BY <1>1, <2>2, <2>3, <2>4
<1>3. CASE ~ (k < n)
  <2>1. n \in 1 .. Len(free) /\ (k = n \/ n < k)
    BY <1>3, FreeTypes
  <2>2. free[n].first <= free[k].first
    <3>1. CASE k = n BY <2>1, <3>1, FreeTypes
    <3>2. CASE n < k
      <4>1. free[n].end <= free[k].first
        BY <2>1, <3>2, FreeSorted
      <4> QED BY <2>1, <4>1, FreeTypes
    <3> QED BY <2>1, <3>1, <3>2
  <2>3. free[k].first \in Nat /\ free[n].first \in Nat /\ b < free[n].first
    BY <2>1, FreeTypes
  <2> QED BY <1>1, <2>2, <2>3
<1> QED BY <1>2, <1>3

\* The tile of what is in use before the n-th range, and of the range itself.
LEMMA RawTile ==
    ASSUME FreeOK, NEW n \in 1 .. Len(free) + 1, NEW m \in Nat, FreeEnd(n) < m, m <= TotalBlocks,
           n <= Len(free) => m <= free[n].first
    PROVE  Tile(Writer!Extent("raw", FreeEnd(n), m - FreeEnd(n)), FreeEnd(n), Writer!FreeBlocks)
<1> DEFINE x == Writer!Extent("raw", FreeEnd(n), m - FreeEnd(n))
<1>1. FreeEnd(n) \in Nat /\ m - FreeEnd(n) \in Nat /\ m - FreeEnd(n) > 0 /\ FreeEnd(n) + (m - FreeEnd(n)) = m
  BY FreeEndOK
<1>2. /\ x \in Writer!Extents /\ x.start = FreeEnd(n) /\ x.length > 0
      /\ x.length = m - FreeEnd(n) /\ x.kind = "raw"
  BY <1>1 DEF Writer!Extent, Writer!Extents
<1> HIDE DEF x
<1>3. Behind(x) = m BY <1>1, <1>2 DEF Behind
<1>4. ASSUME NEW b \in FreeEnd(n) .. m - 1 PROVE b \notin Writer!FreeBlocks
  <2>1. b \in Nat /\ FreeEnd(n) <= b /\ b < m BY <1>1
  <2>2. n <= Len(free) => b < free[n].first
    <3> SUFFICES ASSUME n <= Len(free) PROVE b < free[n].first OBVIOUS
    <3>1. n \in 1 .. Len(free) BY FreeTypes
    <3> QED BY <2>1, <3>1, FreeTypes
  <2> QED BY <2>1, <2>2, NotFree
<1>5. Tile(x, FreeEnd(n), Writer!FreeBlocks)
  BY <1>2, <1>3, <1>4 DEF Tile
<1> QED BY <1>5 DEF x

LEMMA FreeTile ==
    ASSUME FreeOK, NEW n \in 1 .. Len(free)
    PROVE  LET x == Writer!Extent("dontcare", free[n].first, free[n].end - free[n].first)
           IN  Tile(x, free[n].first, Writer!FreeBlocks) /\ Behind(x) = free[n].end
<1> DEFINE x == Writer!Extent("dontcare", free[n].first, free[n].end - free[n].first)
           a == free[n].first
           z == free[n].end
<1>1. a \in Nat /\ z \in Nat /\ a < z /\ z <= TotalBlocks
  BY FreeTypes
<1>2. x.start = a /\ x.length = z - a /\ x.kind = "dontcare" /\ x \in Writer!Extents
  <2> HIDE DEF a, z
  <2>1. z - a \in Nat BY <1>1
  <2> QED BY <1>1, <2>1 DEF Writer!Extent, Writer!Extents, a, z
<1>3. ASSUME NEW b \in a .. z - 1 PROVE b \in Writer!FreeBlocks
  <2>1. b \in Nat /\ free[n].first <= b /\ b < free[n].end
    BY <1>1
  <2> QED BY <2>1, InFree
<1> HIDE DEF x, a, z
<1>4. x.length > 0 /\ Behind(x) = z
  BY <1>1, <1>2 DEF Behind
<1>5. Tile(x, a, Writer!FreeBlocks)
  BY <1>1, <1>2, <1>3, <1>4 DEF Tile
<1> QED BY <1>4, <1>5 DEF x, a, z

LEMMA BoundedSet ==
    ASSUME NEW T \in Nat, NEW S \in SUBSET (0 .. T)
    PROVE  IsFiniteSet(S) /\ Cardinality(S) \in Nat
<1>1. IsFiniteSet(0 .. T) BY FS_Interval
<1>2. IsFiniteSet(S) BY <1>1, FS_Subset
<1> QED BY <1>2, FS_CardinalityType

\* A set of Card elements has a k-th one.
LEMMA NthThere ==
    ASSUME NEW T \in Nat, NEW S \in SUBSET (0 .. T), NEW k \in 1 .. Cardinality(S)
    PROVE  \E x \in S : Cardinality({y \in S : y <= x}) = k
<1> DEFINE G(n) == {y \in S : y <= n}
           A == {n \in Nat : k <= Cardinality(G(n))}
<1>0. \A y \in S : y \in Nat /\ y <= T OBVIOUS
<1>1. IsFiniteSet(S) /\ Cardinality(S) \in Nat
  BY BoundedSet
<1>2. \A n \in Nat : G(n) \in SUBSET S /\ IsFiniteSet(G(n)) /\ Cardinality(G(n)) \in Nat
  <2> TAKE n \in Nat
  <2>1. G(n) \in SUBSET S OBVIOUS
  <2> HIDE DEF G
  <2> QED BY <1>1, <2>1, FS_Subset, FS_CardinalityType
<1>3. T \in A
  <2>1. G(T) = S BY <1>0
  <2> QED BY <2>1
<1>4. PICK x \in A : \A m \in A : x <= m
  <2> HIDE DEF A
  <2>1. A \in SUBSET Nat /\ A # {} BY <1>3 DEF A
  <2> QED BY <2>1, Least
<1>5. x \in Nat /\ k <= Cardinality(G(x)) /\ k \in Nat /\ k > 0
  BY <1>1, <1>4
<1> DEFINE B == {y \in S : y < x}
<1>6. IsFiniteSet(B) /\ Cardinality(B) \in Nat /\ Cardinality(B) < k
  <2>1. CASE x = 0
    <3>1. B = {}
      <4>1. \A y \in S : ~ (y < x) BY <1>0, <2>1
      <4> QED BY <4>1
    <3> QED BY <1>5, <3>1, FS_EmptySet
  <2>2. CASE x # 0
    <3>1. x - 1 \in Nat /\ ~ (x <= x - 1) BY <1>5, <2>2
    <3>5. x - 1 \notin A
      <4> HIDE DEF A
      <4> QED BY <1>4, <3>1
    <3>2. B = G(x - 1)
      <4>1. \A y \in S : y < x <=> y <= x - 1
        BY <1>0, <1>5, <2>2
      <4> QED BY <4>1, Zenon
    <3>3. ~ (k <= Cardinality(G(x - 1))) BY <3>1, <3>5
    <3> HIDE DEF G, B
    <3>4. Cardinality(G(x - 1)) \in Nat /\ IsFiniteSet(G(x - 1))
      BY <1>2, <3>1
    <3> QED BY <1>5, <3>2, <3>3, <3>4
  <2> QED BY <2>1, <2>2
<1>7. x \in S
  <2> SUFFICES ASSUME x \notin S PROVE FALSE OBVIOUS
  <2>1. G(x) = B
    <3>1. \A y \in S : y <= x <=> y < x BY <1>0, <1>5
    <3> QED BY <3>1, Zenon
  <2> HIDE DEF G, B
  <2> QED BY <1>5, <1>6, <2>1
<1>8. G(x) = B \cup {x} /\ x \notin B
  <2>1. \A y \in S : y <= x <=> (y < x \/ y = x)
    BY <1>0, <1>5
  <2>2. ~ (x < x) BY <1>5
  <2> QED BY <1>7, <2>1, <2>2, Zenon
<1> HIDE DEF G, B
<1>9. Cardinality(G(x)) = Cardinality(B) + 1
  BY <1>6, <1>8, FS_AddElement
<1>10. Cardinality(G(x)) = k BY <1>5, <1>6, <1>9
<1> QED BY <1>7, <1>10 DEF G

LEMMA ListOK ==
    ASSUME NEW S \in Bounds, NEW T \in Bounds, Cardinality(S) = Cardinality(T),
           \A k \in 1 .. Len(FreeList(S, T)) : FreeList(S, T)[k].first < FreeList(S, T)[k].end
    PROVE  FreeList(S, T) \in Seq([first : Writer!Blocks, end : 1 .. TotalBlocks])
<1> DEFINE Nth(X, k) == CHOOSE x \in X : Cardinality({y \in X : y <= x}) = k
           list == FreeList(S, T)
           n == Cardinality(S)
<1>1. n \in Nat BY Sizes, BoundedSet DEF Bounds
<1>2. list = [k \in 1 .. n |-> [first |-> Nth(S, k), end |-> Nth(T, k)]]
  BY DEF FreeList
<1>3. \A k \in 1 .. n : Nth(S, k) \in S /\ Nth(T, k) \in T
  BY NthThere, Sizes DEF Bounds
<1> HIDE DEF list, Nth, n
<1>4. Len(list) = n BY <1>1, <1>2
<1>5. ASSUME NEW k \in 1 .. n
      PROVE  [first |-> Nth(S, k), end |-> Nth(T, k)] \in [first : Writer!Blocks, end : 1 .. TotalBlocks]
  <2>1. Nth(S, k) \in 0 .. TotalBlocks /\ Nth(T, k) \in 0 .. TotalBlocks
    BY <1>3 DEF Bounds
  <2>2. Nth(S, k) < Nth(T, k)
    <3>1. list[k].first < list[k].end BY <1>4 DEF list
    <3> QED BY <1>2, <3>1
  <2>3. Nth(S, k) \in Writer!Blocks /\ Nth(T, k) \in 1 .. TotalBlocks
    BY <2>1, <2>2, Sizes DEF Writer!Blocks
  <2> QED BY <2>3
<1>6. list \in Seq([first : Writer!Blocks, end : 1 .. TotalBlocks])
  BY <1>1, <1>2, <1>5
<1> QED BY <1>6 DEF list

LEMMA StartOK ==
    ASSUME NEW list \in Seq([first : Writer!Blocks, end : 1 .. TotalBlocks]),
           \A k \in 1 .. Len(list) : list[k].first < list[k].end,
           \A k \in 1 .. Len(list) - 1 : list[k].end <= list[k + 1].first,
           Writer!Start(list)
    PROVE  WriterInv
<1>1. FreeOK /\ raw \in 0 .. TotalBlocks /\ phase \in Phases
  BY DEF Writer!Start, FreeOK, Phases
<1>2. ExtentsKnown
  BY <1>1, EmptyTiles, FreeTypes DEF Writer!Start, ExtentsKnown
<1>3. ChunksKnown
  BY EmptyTiles DEF Writer!Start, ChunksKnown
<1>4. DiskKnown
  <2>1. disk = [b \in Writer!Blocks |-> IF b < 0 /\ b \notin Writer!FreeBlocks THEN b ELSE Writer!Stale]
    BY Sizes DEF Writer!Start, Writer!Blocks
  <2>2. phase = "extents" /\ c = 1 /\ at = 0 /\ chunks = << >>
    BY DEF Writer!Start
  <2>3. \A b \in Writer!Blocks : ~ (b < 0)
    BY Sizes DEF Writer!Blocks
  <2> QED BY <2>1, <2>2, <2>3 DEF DiskKnown
<1> QED BY <1>1, <1>2, <1>3, <1>4 DEF WriterInv

LEMMA WriterStarts == MCInit => WriterInv
<1>1. ASSUME IdleWriter PROVE WriterInv
  <2> DEFINE list == << >>
  <2>1. /\ list \in Seq([first : Writer!Blocks, end : 1 .. TotalBlocks])
        /\ \A k \in 1 .. Len(list) : list[k].first < list[k].end
        /\ \A k \in 1 .. Len(list) - 1 : list[k].end <= list[k + 1].first
    OBVIOUS
  <2>2. Writer!Start(list) BY <1>1 DEF IdleWriter
  <2> HIDE DEF list
  <2> QED BY <2>1, <2>2, StartOK
<1>2. ASSUME StartWriter PROVE WriterInv
  <2>1. PICK S \in Bounds, T \in Bounds :
          /\ Cardinality(S) = Cardinality(T)
          /\ \A k \in 1 .. Len(FreeList(S, T)) : FreeList(S, T)[k].first < FreeList(S, T)[k].end
          /\ \A k \in 1 .. (Len(FreeList(S, T)) - 1) :
                  FreeList(S, T)[k].end <= FreeList(S, T)[k + 1].first
          /\ Writer!Start(FreeList(S, T))
    BY <1>2 DEF StartWriter
  <2>2. FreeList(S, T) \in Seq([first : Writer!Blocks, end : 1 .. TotalBlocks])
    BY <2>1, ListOK
  <2> DEFINE list == FreeList(S, T)
  <2> HIDE DEF list
  <2>3. /\ list \in Seq([first : Writer!Blocks, end : 1 .. TotalBlocks])
        /\ \A k \in 1 .. Len(list) : list[k].first < list[k].end
        /\ \A k \in 1 .. Len(list) - 1 : list[k].end <= list[k + 1].first
        /\ Writer!Start(list)
    BY <2>1, <2>2 DEF list
  <2> QED BY <2>3, StartOK
<1> QED BY <1>1, <1>2 DEF MCInit
--------------------------------------------------
(* The steps of the writer. *)

LEMMA SameFree ==
    ASSUME UNCHANGED <<free, raw>>, FreeOK, raw \in 0 .. TotalBlocks
    PROVE  FreeOK' /\ raw' \in 0 .. TotalBlocks /\ Writer!FreeBlocks' = Writer!FreeBlocks
<1>1. Writer!FreeBlocks' = Writer!FreeBlocks
  BY DEF Writer!FreeBlocks, Writer!From
<1> QED BY <1>1 DEF FreeOK

\* Before there is something to write the disk and the place in the file stay.
LEMMA DiskStays ==
    ASSUME DiskKnown, UNCHANGED <<free, raw, c, at, disk>>, Writer!FreeBlocks' = Writer!FreeBlocks,
           Len(chunks') \in Nat, Len(chunks) \in Nat, Len(chunks) <= Len(chunks'),
           phase \in {"extents", "chunks"}, phase' \in {"extents", "chunks"}
    PROVE  DiskKnown'
<1>1. c' \in 1 .. Len(chunks') + 1 /\ at' = 0
  BY DEF DiskKnown
<1> QED BY <1>1 DEF DiskKnown

LEMMA AddRangeStep ==
    ASSUME WriterInv, Writer!AddRange
    PROVE  WriterInv'
<1> DEFINE x == Writer!Extent("dontcare", free[i].first, free[i].end - free[i].first)
           g == Writer!Extent("raw", FreeEnd(i), free[i].first - FreeEnd(i))
           m == extents \o Writer!Gap(free[i])
           F == Writer!FreeBlocks
<1>1. /\ i \in 1 .. Len(free) /\ FreeOK /\ pos = FreeEnd(i) /\ phase = "extents"
      /\ Tiles(extents, F) /\ Reach(extents) = pos /\ raw \in 0 .. TotalBlocks
      /\ i \in 1 .. Len(free) + 1
  BY FreeTypes DEF WriterInv, ExtentsKnown, Writer!AddRange, FreeEnd
<1>2. free[i].first \in Nat /\ free[i].first <= TotalBlocks /\ pos \in Nat /\ pos <= free[i].first
  BY <1>1, FreeTypes, FreeEndOK, Sizes
<1>3. Tiles(m, F) /\ Reach(m) = free[i].first
  <2>1. CASE free[i].first > pos
    <3>1. m = Append(extents, g)
      BY <1>1, <2>1 DEF Writer!Gap, Tiles
    <3>2. Tile(g, pos, F) BY <1>1, <1>2, <2>1, RawTile
    <3>3. Behind(g) = free[i].first
      BY <1>1, <1>2 DEF Behind, Writer!Extent
    <3> HIDE DEF m, g, F
    <3> QED BY <1>1, <3>1, <3>2, <3>3, AppendTile
  <2>2. CASE ~ (free[i].first > pos)
    <3>1. m = extents
      BY <1>1, <2>2 DEF Writer!Gap, Tiles
    <3>2. free[i].first = pos BY <1>2, <2>2
    <3> QED BY <1>1, <3>1, <3>2
  <2> QED BY <2>1, <2>2
<1>4. Tile(x, free[i].first, F) /\ Behind(x) = free[i].end
  BY <1>1, FreeTile
<1>5. extents' = Append(m, x)
  <2>1. m \in Seq(Writer!Extents) BY <1>3 DEF Tiles
  <2>2. extents' = m \o <<x>> BY DEF Writer!AddRange
  <2> HIDE DEF m, x
  <2> QED BY <2>1, <2>2
<1>6. Tiles(extents', F) /\ Reach(extents') = free[i].end
  <2> HIDE DEF m, x, F
  <2> QED BY <1>3, <1>4, <1>5, AppendTile
<1>7. F' = F /\ FreeOK' /\ raw' \in 0 .. TotalBlocks
  BY <1>1, SameFree DEF Writer!AddRange
<1>8. ExtentsKnown'
  <2>1. i' = i + 1 /\ i' \in 1 .. Len(free') + 1 /\ i' # 1 /\ i' - 1 = i
    BY <1>1, FreeTypes DEF Writer!AddRange
  <2>2. Tiles(extents', F') /\ Reach(extents') = pos' /\ pos' = free'[i' - 1].end
    BY <1>6, <1>7, <2>1 DEF Writer!AddRange
  <2>3. phase' = "extents" BY <1>1 DEF Writer!AddRange
  <2> QED BY <2>1, <2>2, <2>3 DEF ExtentsKnown
<1>9. ChunksKnown'
  BY <1>1, <1>7 DEF WriterInv, ChunksKnown, Writer!AddRange
<1>10. DiskKnown'
  <2>1. chunks' = << >> /\ chunks = << >>
    BY <1>1 DEF WriterInv, ChunksKnown, Writer!AddRange
  <2>2. Len(chunks) \in Nat /\ Len(chunks') \in Nat /\ Len(chunks) <= Len(chunks')
    BY <2>1
  <2> QED BY <1>1, <1>7, <2>2, DiskStays DEF WriterInv, Writer!AddRange
<1> QED BY <1>1, <1>7, <1>8, <1>9, <1>10 DEF WriterInv, Writer!AddRange

LEMMA AddTailStep ==
    ASSUME WriterInv, Writer!AddTail
    PROVE  WriterInv'
<1> DEFINE g == Writer!Extent("raw", FreeEnd(i), TotalBlocks - FreeEnd(i))
           F == Writer!FreeBlocks
<1>1. /\ i = Len(free) + 1 /\ FreeOK /\ pos = FreeEnd(i) /\ phase = "extents"
      /\ Tiles(extents, F) /\ Reach(extents) = pos /\ raw \in 0 .. TotalBlocks
      /\ i \in 1 .. Len(free) + 1
  BY FreeTypes DEF WriterInv, ExtentsKnown, Writer!AddTail, FreeEnd
<1>2. pos \in Nat /\ pos <= TotalBlocks /\ TotalBlocks \in Nat /\ ~ (i <= Len(free))
  BY <1>1, FreeTypes, FreeEndOK, Sizes
<1>3. Tiles(extents', F) /\ Reach(extents') = TotalBlocks
  <2>1. CASE pos < TotalBlocks
    <3>1. extents' = Append(extents, g)
      BY <1>1, <2>1 DEF Writer!LastGap, Tiles, Writer!AddTail
    <3>2. Tile(g, pos, F) BY <1>1, <1>2, <2>1, RawTile
    <3>3. Behind(g) = TotalBlocks
      BY <1>1, <1>2 DEF Behind, Writer!Extent
    <3> HIDE DEF g, F
    <3> QED BY <1>1, <3>1, <3>2, <3>3, AppendTile
  <2>2. CASE ~ (pos < TotalBlocks)
    <3>1. extents' = extents
      BY <1>1, <2>2 DEF Writer!LastGap, Tiles, Writer!AddTail
    <3>2. TotalBlocks = pos BY <1>2, <2>2
    <3> QED BY <1>1, <3>1, <3>2
  <2> QED BY <2>1, <2>2
<1>4. F' = F /\ FreeOK' /\ raw' \in 0 .. TotalBlocks
  BY <1>1, SameFree DEF Writer!AddTail
<1>5. ExtentsKnown'
  BY <1>1, <1>3, <1>4 DEF ExtentsKnown, Writer!AddTail
<1>6. /\ chunks = << >> /\ chunks' = << >> /\ e = 1 /\ e' = 1 /\ off = 0 /\ off' = 0
      /\ phase' = "chunks"
  BY <1>1 DEF WriterInv, ChunksKnown, Writer!AddTail
<1>7. ChunksKnown'
  <2>1. Len(extents') \in Nat BY <1>3 DEF Tiles
  <2>2. e' <= Len(extents') + 1 /\ Reach(chunks') = Before(extents', e') + off'
    BY <1>6, <2>1, EmptyTiles DEF Before
  <2> QED BY <1>6, <2>2, EmptyTiles DEF ChunksKnown
<1>8. DiskKnown'
  BY <1>1, <1>4, <1>6, DiskStays DEF WriterInv, Writer!AddTail
<1> QED BY <1>4, <1>5, <1>6, <1>7, <1>8 DEF WriterInv, Phases

LEMMA InTiles ==
    ASSUME NEW F, NEW s, Tiles(s, F), NEW k \in 1 .. Len(s)
    PROVE  /\ s[k] \in Writer!Extents /\ Tile(s[k], Before(s, k), F) /\ s[k].start = Before(s, k)
           /\ s[k].start \in Nat /\ s[k].length \in Nat /\ s[k].length > 0
           /\ Before(s, k) \in Nat /\ Before(s, k + 1) = Behind(s[k])
           /\ Behind(s[k]) = Before(s, k) + s[k].length /\ Behind(s[k]) <= TotalBlocks
<1>1. s[k] \in Writer!Extents /\ Tile(s[k], Before(s, k), F)
  BY DEF Tiles
<1>2. /\ s[k].start \in Nat /\ s[k].length \in Nat /\ s[k].length > 0
      /\ s[k].start = Before(s, k) /\ Behind(s[k]) <= TotalBlocks
  BY <1>1 DEF Tile, Writer!Extents
<1>3. k + 1 # 1 /\ (k + 1) - 1 = k OBVIOUS
<1> QED BY <1>1, <1>2, <1>3 DEF Before, Behind

LEMMA BeforeEnd ==
    ASSUME NEW F, NEW s, Tiles(s, F)
    PROVE  Len(s) \in Nat /\ Before(s, Len(s) + 1) = Reach(s)
<1>1. Len(s) \in Nat /\ (s = << >> <=> Len(s) = 0) /\ (Len(s) + 1) - 1 = Len(s)
  BY DEF Tiles
<1> QED BY <1>1 DEF Before, Reach

\* The steps that make chunks leave the extents alone.
LEMMA ExtentsStay ==
    ASSUME ExtentsKnown, UNCHANGED <<free, extents, i, pos>>, Writer!FreeBlocks' = Writer!FreeBlocks,
           phase # "extents", phase' # "extents"
    PROVE  ExtentsKnown'
BY DEF ExtentsKnown

LEMMA ChunksStay ==
    ASSUME ChunksKnown, UNCHANGED <<chunks, e, off>>, Writer!FreeBlocks' = Writer!FreeBlocks,
           phase \notin {"extents", "chunks"}, phase' \notin {"extents", "chunks"}
    PROVE  ChunksKnown'
BY DEF ChunksKnown

LEMMA AddSkipStep ==
    ASSUME WriterInv, Writer!AddSkip
    PROVE  WriterInv'
<1> DEFINE x == extents[e]
           F == Writer!FreeBlocks
<1>1. /\ phase = "chunks" /\ e \in 1 .. Len(extents) /\ x.kind = "dontcare" /\ phase' = phase
      /\ Tiles(extents, F) /\ Tiles(chunks, F) /\ FreeOK /\ raw \in 0 .. TotalBlocks
      /\ e \in Nat \ {0} /\ off \in Nat /\ Len(extents) \in Nat
  BY DEF WriterInv, ExtentsKnown, ChunksKnown, Writer!AddSkip, Tiles
<1>2. off = 0 BY <1>1 DEF WriterInv, ChunksKnown
<1>3. /\ Tile(x, Before(extents, e), F) /\ Before(extents, e + 1) = Behind(x)
      /\ Before(extents, e) \in Nat /\ Behind(x) \in Nat
  <2>1. e \in 1 .. Len(extents) BY <1>1
  <2> HIDE DEF F
  <2> QED BY <1>1, <2>1, InTiles
<1>4. Reach(chunks) = Before(extents, e)
  BY <1>1, <1>2, <1>3 DEF WriterInv, ChunksKnown
<1>5. chunks' = Append(chunks, x) /\ e' = e + 1 /\ off' = 0 /\ extents' = extents
  BY <1>2 DEF Writer!AddSkip
<1>6. Tiles(chunks', F) /\ Reach(chunks') = Behind(x)
  <2> HIDE DEF F, x
  <2> QED BY <1>1, <1>3, <1>4, <1>5, AppendTile
<1>7. F' = F /\ FreeOK' /\ raw' \in 0 .. TotalBlocks
  BY <1>1, SameFree DEF Writer!AddSkip
<1>8. \A k \in 1 .. Len(chunks') : chunks'[k].kind = "raw" => chunks'[k].length <= PerChunk
  <2>1. /\ chunks \in Seq(Writer!Extents) /\ x \in Writer!Extents
        /\ \A k \in 1 .. Len(chunks) : chunks[k].kind = "raw" => chunks[k].length <= PerChunk
    BY <1>1, <1>3 DEF Tiles, Tile, WriterInv, ChunksKnown
  <2> HIDE DEF x
  <2>2. \A k \in 1 .. Len(chunks') : k \in 1 .. Len(chunks) \/ chunks'[k] = x
    BY <1>5, <2>1
  <2>3. \A k \in 1 .. Len(chunks) : chunks'[k] = chunks[k]
    BY <1>5, <2>1
  <2> QED BY <1>1, <2>1, <2>2, <2>3 DEF x
<1>9. ChunksKnown'
  <2>1. e' <= Len(extents') + 1 /\ e' \in Nat \ {0} /\ off' \in Nat
    BY <1>1, <1>5
  <2>2. Reach(chunks') = Before(extents', e') + off'
    BY <1>3, <1>5, <1>6
  <2> QED BY <1>1, <1>5, <1>6, <1>7, <1>8, <2>1, <2>2 DEF ChunksKnown
<1>10. ExtentsKnown'
  BY <1>1, <1>7, ExtentsStay DEF WriterInv, Writer!AddSkip
<1>11. DiskKnown'
  <2>1. Len(chunks') = Len(chunks) + 1 /\ Len(chunks) \in Nat
    BY <1>1, <1>5 DEF Tiles
  <2>2. Len(chunks') \in Nat /\ Len(chunks) <= Len(chunks')
    BY <2>1
  <2> QED BY <1>1, <1>7, <2>1, <2>2, DiskStays DEF WriterInv, Writer!AddSkip
<1> QED BY <1>1, <1>7, <1>9, <1>10, <1>11 DEF WriterInv

\* A part of a raw extent at an offset is raw itself.
LEMMA PartTile ==
    ASSUME NEW F, NEW p \in Nat, NEW x, Tile(x, p, F), x.kind = "raw",
           NEW d \in Nat, NEW n \in Nat, n > 0, d + n <= x.length,
           NEW y, y = Writer!Extent("raw", x.start + d, n)
    PROVE  Tile(y, p + d, F) /\ Behind(y) = p + d + n
<1>1. x.start = p /\ x.length \in Nat /\ Behind(x) = p + x.length /\ Behind(x) <= TotalBlocks
  BY DEF Tile, Writer!Extents, Behind
<1>2. y \in Writer!Extents /\ y.start = p + d /\ y.length = n /\ y.kind = "raw"
  BY <1>1 DEF Writer!Extent, Writer!Extents
<1>3. Behind(y) = p + d + n /\ Behind(y) <= TotalBlocks
  BY <1>1, <1>2, Sizes DEF Behind
<1>4. ASSUME NEW b \in (p + d) .. Behind(y) - 1 PROVE b \notin F
  <2>1. b \in p .. Behind(x) - 1 BY <1>1, <1>3
  <2> QED BY <2>1 DEF Tile
<1>5. Tile(y, p + d, F) BY <1>2, <1>3, <1>4 DEF Tile
<1> QED BY <1>3, <1>5

LEMMA AddRawStep ==
    ASSUME WriterInv, Writer!AddRaw
    PROVE  WriterInv'
<1> DEFINE x == extents[e]
           n == Writer!ChunkLength
           y == Writer!Extent("raw", x.start + off, n)
           p == Before(extents, e)
           F == Writer!FreeBlocks
<1>1. /\ phase = "chunks" /\ e \in 1 .. Len(extents) /\ x.kind = "raw" /\ phase' = phase
      /\ Tiles(extents, F) /\ Tiles(chunks, F) /\ FreeOK /\ raw \in 0 .. TotalBlocks
      /\ e \in Nat \ {0} /\ off \in Nat /\ Len(extents) \in Nat
  BY DEF WriterInv, ExtentsKnown, ChunksKnown, Writer!AddRaw, Tiles
<1>2. /\ Tile(x, p, F) /\ Before(extents, e + 1) = p + x.length /\ p \in Nat
      /\ x.length \in Nat /\ x.length > 0
  <2>1. e \in 1 .. Len(extents) BY <1>1
  <2> HIDE DEF F
  <2> QED BY <1>1, <2>1, InTiles
<1>3. Reach(chunks) = p + off /\ off < x.length
  BY <1>1, <1>2 DEF WriterInv, ChunksKnown
<1>4. /\ n = IF PerChunk < x.length - off THEN PerChunk ELSE x.length - off
      /\ chunks' = Append(chunks, y) /\ extents' = extents
      /\ IF off + PerChunk < x.length THEN off' = off + PerChunk /\ e' = e
         ELSE off' = 0 /\ e' = e + 1
  BY DEF Writer!AddRaw, Writer!ChunkLength
<1>5. n \in Nat /\ n > 0 /\ off + n <= x.length /\ n <= PerChunk
  <2> HIDE DEF n, x
  <2> QED BY <1>1, <1>2, <1>3, <1>4, Sizes, SMTT(30)
<1>6. Tile(y, p + off, F) /\ Behind(y) = p + off + n
  <2> HIDE DEF n, x, p, F
  <2>1. /\ p \in Nat /\ Tile(x, p, F) /\ x.kind = "raw" /\ off \in Nat /\ n \in Nat
        /\ n > 0 /\ off + n <= x.length /\ y = Writer!Extent("raw", x.start + off, n)
    BY <1>1, <1>2, <1>5
  <2> HIDE DEF y
  <2> QED BY <2>1, PartTile
<1>7. Tiles(chunks', F) /\ Reach(chunks') = p + off + n
  <2> HIDE DEF n, x, p, F, y
  <2> QED BY <1>1, <1>3, <1>4, <1>6, AppendTile
<1>8. F' = F /\ FreeOK' /\ raw' \in 0 .. TotalBlocks
  BY <1>1, SameFree DEF Writer!AddRaw
<1>9. \A k \in 1 .. Len(chunks') : chunks'[k].kind = "raw" => chunks'[k].length <= PerChunk
  <2>1. /\ chunks \in Seq(Writer!Extents) /\ y \in Writer!Extents /\ y.length <= PerChunk
        /\ \A k \in 1 .. Len(chunks) : chunks[k].kind = "raw" => chunks[k].length <= PerChunk
    BY <1>1, <1>5, <1>6 DEF Tiles, Tile, WriterInv, ChunksKnown, Writer!Extent
  <2> HIDE DEF y, x, n
  <2>2. \A k \in 1 .. Len(chunks') : k \in 1 .. Len(chunks) \/ chunks'[k] = y
    BY <1>4, <2>1
  <2>3. \A k \in 1 .. Len(chunks) : chunks'[k] = chunks[k]
    BY <1>4, <2>1
  <2> QED BY <2>1, <2>2, <2>3
<1>10. /\ e' <= Len(extents') + 1 /\ e' \in Nat \ {0} /\ off' \in Nat
       /\ off' > 0 => e' <= Len(extents') /\ extents'[e'].kind = "raw" /\ off' < extents'[e'].length
       /\ Reach(chunks') = Before(extents', e') + off'
  <2>1. CASE off + PerChunk < x.length
    <3>1. off' = off + PerChunk /\ e' = e /\ n = PerChunk
      <4> HIDE DEF n, x
      <4> QED BY <1>1, <1>2, <1>4, <2>1, Sizes
    <3>2. Before(extents', e') = p /\ p + off + n = p + (off + PerChunk)
      <4>1. Before(extents', e') = p BY <1>4, <3>1
      <4> HIDE DEF n, x, p
      <4> QED BY <1>1, <1>2, <3>1, <4>1, Sizes
    <3>3. Reach(chunks') = Before(extents', e') + off'
      <4> HIDE DEF n, x, p
      <4> QED BY <1>7, <3>1, <3>2
    <3>4. e' <= Len(extents') /\ extents'[e'].kind = "raw" /\ off' < extents'[e'].length
      BY <1>1, <1>4, <2>1, <3>1
    <3> QED BY <1>1, <1>4, <3>1, <3>3, <3>4, Sizes
  <2>2. CASE ~ (off + PerChunk < x.length)
    <3>1. off' = 0 /\ e' = e + 1 /\ p + off + n = p + x.length
      <4> HIDE DEF n, x, p
      <4> QED BY <1>1, <1>2, <1>3, <1>4, <2>2, Sizes
    <3>2. Before(extents', e') = p + x.length
      BY <1>2, <1>4, <3>1
    <3>3. Reach(chunks') = Before(extents', e') + off'
      <4> HIDE DEF n, x, p
      <4> QED BY <1>2, <1>7, <3>1, <3>2
    <3> QED BY <1>1, <1>4, <3>1, <3>3
  <2> QED BY <2>1, <2>2
<1>11. ChunksKnown'
  BY <1>1, <1>7, <1>8, <1>9, <1>10 DEF ChunksKnown
<1>12. ExtentsKnown'
  BY <1>1, <1>8, ExtentsStay DEF WriterInv, Writer!AddRaw
<1>13. DiskKnown'
  <2>1. Len(chunks') = Len(chunks) + 1 /\ Len(chunks) \in Nat
    BY <1>1, <1>4 DEF Tiles
  <2>2. Len(chunks') \in Nat /\ Len(chunks) <= Len(chunks')
    BY <2>1
  <2> QED BY <1>1, <1>8, <2>1, <2>2, DiskStays DEF WriterInv, Writer!AddRaw
<1> QED BY <1>1, <1>8, <1>11, <1>12, <1>13 DEF WriterInv

LEMMA EndChunksStep ==
    ASSUME WriterInv, Writer!EndChunks
    PROVE  WriterInv'
<1> DEFINE F == Writer!FreeBlocks
<1>1. /\ phase = "chunks" /\ phase' = "write" /\ c' = 1 /\ e \in Nat \ {0} /\ ~ (e <= Len(extents))
      /\ Tiles(extents, F) /\ Tiles(chunks, F) /\ FreeOK /\ raw \in 0 .. TotalBlocks
      /\ Reach(extents) = TotalBlocks /\ off \in Nat
  BY DEF WriterInv, ExtentsKnown, ChunksKnown, Writer!EndChunks, Tiles
<1>2. F' = F /\ FreeOK' /\ raw' \in 0 .. TotalBlocks
  BY <1>1, SameFree DEF Writer!EndChunks
<1>3. off = 0 /\ e = Len(extents) + 1 /\ Len(extents) \in Nat
  BY <1>1 DEF WriterInv, ChunksKnown, Tiles
<1>4. Reach(chunks) = TotalBlocks
  <2>1. Before(extents, e) = TotalBlocks
    <3> HIDE DEF F
    <3> QED BY <1>1, <1>3, BeforeEnd
  <2>2. Reach(chunks) = Before(extents, e) + off
    BY <1>1 DEF WriterInv, ChunksKnown
  <2> QED BY <1>3, <2>1, <2>2, Sizes
<1>5. ChunksKnown'
  BY <1>1, <1>2, <1>4 DEF WriterInv, ChunksKnown, Writer!EndChunks
<1>6. ExtentsKnown'
  BY <1>1, <1>2, ExtentsStay DEF WriterInv, Writer!EndChunks
<1>7. DiskKnown'
  <2>1. c' \in 1 .. Len(chunks') + 1 /\ chunks' = chunks
    BY <1>1 DEF Tiles, Writer!EndChunks
  <2>2. Whole(c - 1)' BY <1>1 DEF Whole
  <2> QED BY <1>1, <1>2, <2>1, <2>2 DEF WriterInv, DiskKnown, Writer!EndChunks
<1> QED BY <1>1, <1>2, <1>5, <1>6, <1>7 DEF WriterInv, Phases

\* What is known once the chunks are made, and stays.
LEMMA Made ==
    ASSUME WriterInv, phase \notin {"extents", "chunks"}, phase' \notin {"extents", "chunks"},
           UNCHANGED <<free, raw, i, pos, extents, e, off, chunks>>
    PROVE  /\ FreeOK' /\ raw' \in 0 .. TotalBlocks /\ Writer!FreeBlocks' = Writer!FreeBlocks
           /\ ExtentsKnown' /\ ChunksKnown'
           /\ Tiles(chunks, Writer!FreeBlocks) /\ Reach(chunks) = TotalBlocks /\ Len(chunks) \in Nat
<1>1. FreeOK' /\ raw' \in 0 .. TotalBlocks /\ Writer!FreeBlocks' = Writer!FreeBlocks
  BY SameFree DEF WriterInv
<1>2. ExtentsKnown' /\ ChunksKnown'
  BY <1>1, ExtentsStay, ChunksStay DEF WriterInv
<1>3. Tiles(chunks, Writer!FreeBlocks) /\ Reach(chunks) = TotalBlocks /\ Len(chunks) \in Nat
  BY DEF WriterInv, ChunksKnown, Tiles
<1> QED BY <1>1, <1>2, <1>3

LEMMA WriteChunkStep ==
    ASSUME WriterInv, Writer!WriteChunk
    PROVE  WriterInv'
<1>1. /\ phase = "write" /\ phase' = "write" /\ c' = c + 1 /\ c <= Len(chunks)
      /\ chunks[c].kind = "raw" => Writer!Full(chunks[c])
      /\ UNCHANGED <<free, raw, i, pos, extents, e, off, chunks, at, disk>>
  BY DEF Writer!WriteChunk
<1>2. /\ FreeOK' /\ raw' \in 0 .. TotalBlocks /\ Writer!FreeBlocks' = Writer!FreeBlocks
      /\ ExtentsKnown' /\ ChunksKnown' /\ Len(chunks) \in Nat
  BY <1>1, Made
<1>3. c \in 1 .. Len(chunks) /\ Whole(c - 1)
  BY <1>1, <1>2 DEF WriterInv, DiskKnown
<1>4. Whole(c' - 1)
  <2>1. \A j \in 1 .. c' - 1 : j \in 1 .. c - 1 \/ j = c
    BY <1>1, <1>3
  <2> QED BY <1>1, <1>3, <2>1 DEF Whole
<1>5. DiskKnown'
  <2>1. c' \in 1 .. Len(chunks') + 1 BY <1>1, <1>2, <1>3
  <2>2. (phase = "write" => Whole(c - 1))'
    BY <1>1, <1>4 DEF Whole, Writer!Full
  <2> QED BY <1>1, <1>2, <2>1, <2>2 DEF WriterInv, DiskKnown
<1> QED BY <1>1, <1>2, <1>5 DEF WriterInv, Phases

LEMMA ShortImageStep ==
    ASSUME WriterInv, Writer!ShortImage
    PROVE  WriterInv'
<1>1. /\ phase = "write" /\ phase' = "failed"
      /\ UNCHANGED <<free, raw, i, pos, extents, e, off, chunks, c, at, disk>>
  BY DEF Writer!ShortImage
<1>2. /\ FreeOK' /\ raw' \in 0 .. TotalBlocks /\ Writer!FreeBlocks' = Writer!FreeBlocks
      /\ ExtentsKnown' /\ ChunksKnown'
  BY <1>1, Made
<1>3. DiskKnown' BY <1>1, <1>2 DEF WriterInv, DiskKnown
<1> QED BY <1>1, <1>2, <1>3 DEF WriterInv, Phases

LEMMA EndFileStep ==
    ASSUME WriterInv, Writer!EndFile
    PROVE  WriterInv'
<1>1. /\ phase = "write" /\ phase' = "flash" /\ c' = 1 /\ ~ (c <= Len(chunks))
      /\ UNCHANGED <<free, raw, i, pos, extents, e, off, chunks, at, disk>>
  BY DEF Writer!EndFile, WriterInv, DiskKnown, ChunksKnown, Tiles
<1>2. /\ FreeOK' /\ raw' \in 0 .. TotalBlocks /\ Writer!FreeBlocks' = Writer!FreeBlocks
      /\ ExtentsKnown' /\ ChunksKnown' /\ Len(chunks) \in Nat
  BY <1>1, Made
<1>3. Whole(Len(chunks))
  <2>1. c - 1 = Len(chunks) /\ Whole(c - 1)
    BY <1>1, <1>2 DEF WriterInv, DiskKnown
  <2> QED BY <2>1
<1>4. Whole(Len(chunks))'
  BY <1>1, <1>3 DEF Whole, Writer!Full
<1>5. DiskKnown'
  <2>1. at = 0 /\ (at = Before(chunks, c))'
    BY <1>1 DEF WriterInv, DiskKnown, Before
  <2>2. c' \in 1 .. Len(chunks') + 1 BY <1>1, <1>2
  <2> QED BY <1>1, <1>2, <1>4, <2>1, <2>2 DEF WriterInv, DiskKnown
<1> QED BY <1>1, <1>2, <1>5 DEF WriterInv, Phases

\* The bootloader is at the chunk that it is to write next.
LEMMA AtChunk ==
    ASSUME WriterInv, phase = "flash", c <= Len(chunks), Len(chunks) \in Nat,
           Tiles(chunks, Writer!FreeBlocks)
    PROVE  /\ c \in 1 .. Len(chunks) /\ at = Before(chunks, c) /\ at \in Nat
           /\ Tile(chunks[c], at, Writer!FreeBlocks)
           /\ chunks[c].start = at /\ chunks[c].length \in Nat
           /\ Before(chunks, c + 1) = at + chunks[c].length
           /\ at + chunks[c].length <= TotalBlocks
           /\ chunks[c].kind = "raw" => at + chunks[c].length <= raw
           /\ \A b \in Writer!Blocks : b >= at /\ b < at + chunks[c].length =>
                    (b \in Writer!FreeBlocks <=> chunks[c].kind = "dontcare")
<1>1. c \in 1 .. Len(chunks) /\ at = Before(chunks, c) /\ at \in Nat /\ Whole(Len(chunks))
  BY DEF WriterInv, DiskKnown
<1>2. /\ Tile(chunks[c], at, Writer!FreeBlocks) /\ chunks[c].start = at /\ chunks[c].length \in Nat
      /\ Before(chunks, c + 1) = at + chunks[c].length /\ at + chunks[c].length <= TotalBlocks
      /\ Behind(chunks[c]) = at + chunks[c].length
  BY <1>1, InTiles
<1>3. chunks[c].kind = "raw" => at + chunks[c].length <= raw
  BY <1>1, <1>2 DEF Whole, Writer!Full
<1>4. ASSUME NEW b \in Writer!Blocks, b >= at, b < at + chunks[c].length
      PROVE  b \in Writer!FreeBlocks <=> chunks[c].kind = "dontcare"
  <2>1. b \in at .. Behind(chunks[c]) - 1
    BY <1>1, <1>2, <1>4, Sizes DEF Writer!Blocks
  <2> QED BY <1>2, <2>1 DEF Tile
<1> QED BY <1>1, <1>2, <1>3, <1>4

LEMMA FlashRawStep ==
    ASSUME WriterInv, Writer!FlashRaw
    PROVE  WriterInv'
<1> DEFINE F == Writer!FreeBlocks
           n == chunks[c].length
<1>1. /\ phase = "flash" /\ phase' = "flash" /\ c' = c + 1 /\ c <= Len(chunks) /\ at' = at + n
      /\ chunks[c].kind = "raw"
      /\ UNCHANGED <<free, raw, i, pos, extents, e, off, chunks>>
  BY DEF Writer!FlashRaw
<1>2. /\ FreeOK' /\ raw' \in 0 .. TotalBlocks /\ F' = F /\ raw \in 0 .. TotalBlocks
      /\ ExtentsKnown' /\ ChunksKnown' /\ Len(chunks) \in Nat /\ Tiles(chunks, F)
  BY <1>1, Made DEF WriterInv
<1>3. /\ c \in 1 .. Len(chunks) /\ at \in Nat /\ chunks[c].start = at /\ n \in Nat
      /\ Before(chunks, c + 1) = at + n /\ at + n <= raw
      /\ \A b \in Writer!Blocks : b >= at /\ b < at + n => b \notin F
  BY <1>1, <1>2, AtChunk
<1>4. \A b \in Writer!Blocks : b \in Nat
  BY Sizes DEF Writer!Blocks
<1>5. \A b \in Writer!Blocks \ F : b < at' => b < raw'
  <2>1. \A b \in Writer!Blocks \ F : b < at => b < raw
    BY DEF WriterInv, DiskKnown
  <2> HIDE DEF F, n
  <2> QED BY <1>1, <1>2, <1>3, <1>4, <2>1
<1>6. disk' = [b \in Writer!Blocks |-> IF b < at' /\ b \notin F THEN b ELSE Writer!Stale]
  <2>1. disk' = [b \in Writer!Blocks |-> IF b \in Writer!From(at, at + n)
                                        THEN at + (b - at) ELSE disk[b]]
    BY <1>3 DEF Writer!FlashRaw
  <2>2. \A b \in Writer!Blocks : disk[b] = IF b < at /\ b \notin F THEN b ELSE Writer!Stale
    BY DEF WriterInv, DiskKnown
  <2>3. ASSUME NEW b \in Writer!Blocks
        PROVE  (IF b \in Writer!From(at, at + n) THEN at + (b - at) ELSE disk[b])
                  = IF b < at' /\ b \notin F THEN b ELSE Writer!Stale
    <3>1. b \in Writer!From(at, at + n) <=> b >= at /\ b < at + n
      BY <1>3, <1>4 DEF Writer!From
    <3> HIDE DEF F, n
    <3>2. CASE b >= at /\ b < at + n
      BY <1>1, <1>3, <1>4, <3>1, <3>2
    <3>3. CASE ~ (b >= at /\ b < at + n)
      <4>1. b < at' <=> b < at BY <1>1, <1>3, <1>4, <3>3
      <4> QED BY <2>2, <3>1, <3>3, <4>1
    <3> QED BY <3>2, <3>3
  <2> HIDE DEF F, n
  <2> QED BY <2>1, <2>3
<1>7. DiskKnown'
  <2>1. (at = Before(chunks, c))' /\ c' \in 1 .. Len(chunks') + 1 /\ at' \in Nat
    BY <1>1, <1>3 DEF Before
  <2>2. Whole(Len(chunks))'
    BY <1>1 DEF WriterInv, DiskKnown, Whole, Writer!Full
  <2>3. Writer!Blocks' = Writer!Blocks /\ Writer!Stale' = Writer!Stale
    BY DEF Writer!Blocks, Writer!Stale
  <2> QED BY <1>1, <1>2, <1>5, <1>6, <2>1, <2>2, <2>3 DEF DiskKnown
<1> QED BY <1>1, <1>2, <1>7 DEF WriterInv, Phases

LEMMA FlashSkipStep ==
    ASSUME WriterInv, Writer!FlashSkip
    PROVE  WriterInv'
<1> DEFINE F == Writer!FreeBlocks
           n == chunks[c].length
<1>1. /\ phase = "flash" /\ phase' = "flash" /\ c' = c + 1 /\ c <= Len(chunks) /\ at' = at + n
      /\ chunks[c].kind = "dontcare"
      /\ UNCHANGED <<free, raw, i, pos, extents, e, off, chunks, disk>>
  BY DEF Writer!FlashSkip
<1>2. /\ FreeOK' /\ raw' \in 0 .. TotalBlocks /\ F' = F
      /\ ExtentsKnown' /\ ChunksKnown' /\ Len(chunks) \in Nat /\ Tiles(chunks, F)
  BY <1>1, Made DEF WriterInv
<1>3. /\ c \in 1 .. Len(chunks) /\ at \in Nat /\ n \in Nat
      /\ Before(chunks, c + 1) = at + n
      /\ \A b \in Writer!Blocks : b >= at /\ b < at + n => b \in F
  BY <1>1, <1>2, AtChunk
<1>4. \A b \in Writer!Blocks : b \in Nat
  BY Sizes DEF Writer!Blocks
<1>5. \A b \in Writer!Blocks : b \notin F => (b < at' <=> b < at)
  <2> HIDE DEF F, n
  <2> QED BY <1>1, <1>3, <1>4
<1>6. disk' = [b \in Writer!Blocks |-> IF b < at' /\ b \notin F THEN b ELSE Writer!Stale]
  BY <1>1, <1>5 DEF WriterInv, DiskKnown
<1>7. DiskKnown'
  <2>1. (at = Before(chunks, c))' /\ c' \in 1 .. Len(chunks') + 1 /\ at' \in Nat
    BY <1>1, <1>3 DEF Before
  <2>2. Whole(Len(chunks))'
    BY <1>1 DEF WriterInv, DiskKnown, Whole, Writer!Full
  <2>3. \A b \in Writer!Blocks \ F : b < at' => b < raw'
    BY <1>1, <1>5 DEF WriterInv, DiskKnown
  <2>4. Writer!Blocks' = Writer!Blocks /\ Writer!Stale' = Writer!Stale
    BY DEF Writer!Blocks, Writer!Stale
  <2> QED BY <1>1, <1>2, <1>6, <2>1, <2>2, <2>3, <2>4 DEF DiskKnown
<1> QED BY <1>1, <1>2, <1>7 DEF WriterInv, Phases

LEMMA FlashEndStep ==
    ASSUME WriterInv, Writer!FlashEnd
    PROVE  WriterInv'
<1>1. /\ phase = "flash" /\ phase' = "done" /\ ~ (c <= Len(chunks))
      /\ UNCHANGED <<free, raw, i, pos, extents, e, off, chunks, c, at, disk>>
  BY DEF Writer!FlashEnd, WriterInv, DiskKnown, ChunksKnown, Tiles
<1>2. /\ FreeOK' /\ raw' \in 0 .. TotalBlocks /\ Writer!FreeBlocks' = Writer!FreeBlocks
      /\ ExtentsKnown' /\ ChunksKnown' /\ Len(chunks) \in Nat
      /\ Tiles(chunks, Writer!FreeBlocks) /\ Reach(chunks) = TotalBlocks
  BY <1>1, Made
<1>3. at = TotalBlocks
  <2>1. c = Len(chunks) + 1 /\ at = Before(chunks, c)
    BY <1>1, <1>2 DEF WriterInv, DiskKnown
  <2> QED BY <1>2, <2>1, BeforeEnd
<1>4. Whole(Len(chunks))'
  BY <1>1 DEF WriterInv, DiskKnown, Whole, Writer!Full
<1>5. DiskKnown'
  BY <1>1, <1>2, <1>3, <1>4 DEF WriterInv, DiskKnown
<1> QED BY <1>1, <1>2, <1>5 DEF WriterInv, Phases

\* While another program runs, or nothing does, all of it stays.
LEMMA WriterIdle == WriterInv /\ UNCHANGED writer => WriterInv'
<1> SUFFICES ASSUME WriterInv, UNCHANGED writer PROVE WriterInv' OBVIOUS
<1>1. UNCHANGED <<phase, free, raw, i, pos, extents, e, off, chunks, c, at, disk>>
  BY DEF writer
<1>2. Writer!FreeBlocks' = Writer!FreeBlocks /\ FreeOK'
  BY <1>1, SameFree DEF WriterInv
<1>3. ExtentsKnown' /\ ChunksKnown'
  BY <1>1, <1>2 DEF WriterInv, ExtentsKnown, ChunksKnown
<1>4. DiskKnown'
  <2>1. (Whole(c - 1))' = Whole(c - 1) /\ (Whole(Len(chunks)))' = Whole(Len(chunks))
    BY <1>1 DEF Whole, Writer!Full
  <2>2. Writer!Blocks' = Writer!Blocks /\ Writer!Stale' = Writer!Stale
    BY DEF Writer!Blocks, Writer!Stale
  <2> QED BY <1>1, <1>2, <2>1, <2>2 DEF WriterInv, DiskKnown
<1> QED BY <1>1, <1>2, <1>3, <1>4 DEF WriterInv

LEMMA WriterNext == WriterInv /\ [MCNext]_allVars => WriterInv'
<1> SUFFICES ASSUME WriterInv, [MCNext]_allVars PROVE WriterInv' OBVIOUS
<1>1. CASE Writer!Next
  BY <1>1, AddRangeStep, AddTailStep, AddSkipStep, AddRawStep, EndChunksStep, WriteChunkStep,
     ShortImageStep, EndFileStep, FlashRawStep, FlashSkipStep, FlashEndStep DEF Writer!Next
<1>2. CASE UNCHANGED writer BY <1>2, WriterIdle
<1> QED BY <1>1, <1>2 DEF MCNext, allVars

\* From every file system and every list of its free blocks, in whatever pieces and
\* chunks, a finished file puts every block in use at its place and touches no other
\* (ext4-to-simg.py 33-110).
THEOREM WriterFlashes == MCSpec => []Flashed
<1>1. WriterInv => Flashed
  BY Sizes DEF WriterInv, DiskKnown, Flashed, Writer!Flashed, Writer!Blocks
<1> QED BY <1>1, WriterStarts, WriterNext, PTL DEF MCSpec
--------------------------------------------------
(* Rounding to blocks, and sequences. *)

LEMMA Quotient ==
    ASSUME NEW b \in Nat \ {0}, NEW n \in Nat, n % b = 0
    PROVE  \E q \in Nat : n = q * b
<1>1. n = (n \div b) * b BY SMT
<1>2. n \div b \in Nat BY SMT
<1> QED BY <1>1, <1>2

LEMMA Multiple ==
    ASSUME NEW b \in Nat \ {0}, NEW q \in Nat
    PROVE  (q * b) % b = 0
BY SMT

LEMMA SumAligned ==
    ASSUME NEW b \in Nat \ {0}, NEW m \in Nat, NEW n \in Nat, m % b = 0, n % b = 0
    PROVE  (m + n) % b = 0
<1>1. PICK q \in Nat : m = q * b BY Quotient
<1>2. PICK r \in Nat : n = r * b BY Quotient
<1>3. (q * b) + (r * b) = (q + r) * b BY SMT
<1>4. m + n = (q + r) * b /\ q + r \in Nat
  BY <1>1, <1>2, <1>3
<1> QED BY <1>4, Multiple

LEMMA DifferenceAligned ==
    ASSUME NEW b \in Nat \ {0}, NEW m \in Nat, NEW n \in Nat, m % b = 0, n % b = 0, n <= m
    PROVE  (m - n) % b = 0
<1>1. PICK q \in Nat : m = q * b BY Quotient
<1>2. PICK r \in Nat : n = r * b BY Quotient
<1>3. q >= r
  <2>1. SUFFICES ASSUME r >= q + 1 PROVE FALSE OBVIOUS
  <2>2. r * b >= (q + 1) * b BY <2>1, SMT
  <2>3. (q + 1) * b = q * b + b BY SMT
  <2> QED BY <1>1, <1>2, <2>2, <2>3
<1>4. (q * b) - (r * b) = (q - r) * b BY SMT
<1>5. m - n = (q - r) * b /\ q - r \in Nat
  BY <1>1, <1>2, <1>3, <1>4
<1> QED BY <1>5, Multiple

LEMMA RoundUp ==
    ASSUME NEW b \in Nat \ {0}, NEW n \in Nat, NEW r, r = ((n + b - 1) \div b) * b
    PROVE  r \in Nat /\ n <= r /\ r < n + b /\ r % b = 0
BY SMT

LEMMA RoundLeast ==
    ASSUME NEW b \in Nat \ {0}, NEW n \in Nat, NEW r, r = ((n + b - 1) \div b) * b,
           NEW m \in Nat, n <= m, m % b = 0
    PROVE  r <= m
<1>1. PICK q \in Nat : m = q * b BY Quotient
<1> DEFINE d == (n + b - 1) \div b
<1>2. d \in Nat /\ d * b < n + b
  <2>1. n + b - 1 \in Nat OBVIOUS
  <2>2. d \in Nat BY <2>1, SMT
  <2>3. r < n + b BY RoundUp
  <2> QED BY <2>2, <2>3
<1> HIDE DEF d
<1>3. CASE d <= q BY <1>1, <1>2, <1>3 DEF d
<1>4. CASE d > q
  <2>1. d * b >= (q + 1) * b BY <1>2, <1>4
  <2>2. (q + 1) * b = q * b + b BY SMT
  <2> QED BY <1>1, <1>2, <2>1, <2>2
<1> QED BY <1>2, <1>3, <1>4

LEMMA BlockOK == BlockSize \in Nat \ {0} /\ BlockSize > 1 /\ MaxVbmeta \in Nat \ {0} /\ MaxVbmeta % BlockSize = 0
BY ImagesAssumption DEF Footer!ImageFooterAssumption

LEMMA Rounds ==
    ASSUME NEW n \in Nat
    PROVE  /\ Footer!Round(n) \in Nat /\ n <= Footer!Round(n) /\ Footer!Round(n) % BlockSize = 0
           /\ \A m \in Nat : n <= m /\ m % BlockSize = 0 => Footer!Round(n) <= m
<1> DEFINE r == ((n + BlockSize - 1) \div BlockSize) * BlockSize
<1>1. r \in Nat /\ n <= r /\ r % BlockSize = 0
  <2>1. BlockSize \in Nat \ {0} /\ r = ((n + BlockSize - 1) \div BlockSize) * BlockSize
    BY BlockOK
  <2> HIDE DEF r
  <2> QED BY <2>1, RoundUp, Zenon
<1>2. \A m \in Nat : n <= m /\ m % BlockSize = 0 => r <= m
  <2> TAKE m \in Nat
  <2> SUFFICES ASSUME n <= m, m % BlockSize = 0 PROVE r <= m OBVIOUS
  <2>1. BlockSize \in Nat \ {0} /\ r = ((n + BlockSize - 1) \div BlockSize) * BlockSize
    BY BlockOK
  <2> HIDE DEF r
  <2> QED BY <2>1, RoundLeast, Zenon
<1>3. Footer!Round(n) = r BY DEF Footer!Round
<1> HIDE DEF r
<1> QED BY <1>1, <1>2, <1>3

LEMMA RoundAligned ==
    ASSUME NEW n \in Nat, n % BlockSize = 0
    PROVE  Footer!Round(n) = n
<1>1. Footer!Round(n) \in Nat /\ n <= Footer!Round(n) /\ Footer!Round(n) <= n
  BY Rounds
<1> QED BY <1>1

LEMMA RoundBehind ==
    ASSUME NEW n \in Nat, NEW x \in Nat, x % BlockSize = 0
    PROVE  Footer!Round(x + n) = x + Footer!Round(n)
<1> DEFINE y == Footer!Round(n)
           z == Footer!Round(x + n)
<1>1. y \in Nat /\ n <= y /\ y % BlockSize = 0 /\ (\A m \in Nat : n <= m /\ m % BlockSize = 0 => y <= m)
  BY Rounds
<1>2. x + n \in Nat OBVIOUS
<1>3. z \in Nat /\ x + n <= z /\ z % BlockSize = 0
      /\ (\A m \in Nat : x + n <= m /\ m % BlockSize = 0 => z <= m)
  BY <1>2, Rounds
<1> HIDE DEF y, z
<1>4. (x + y) % BlockSize = 0 /\ x + y \in Nat
  <2>1. x + y \in Nat BY <1>1
  <2> QED BY <1>1, <2>1, BlockOK, SumAligned, Zenon
<1>5. z <= x + y BY <1>1, <1>3, <1>4
<1>6. (z - x) % BlockSize = 0 /\ z - x \in Nat
  <2>1. x <= z /\ z - x \in Nat BY <1>3
  <2> QED BY <1>3, <2>1, BlockOK, DifferenceAligned
<1>7. y <= z - x BY <1>1, <1>3, <1>6
<1> QED BY <1>1, <1>3, <1>5, <1>7 DEF y, z

LEMMA CatSeq ==
    ASSUME NEW s, NEW t, IsSeq(s), IsSeq(t)
    PROVE  /\ IsSeq(s \o t) /\ Len(s) \in Nat /\ Len(t) \in Nat /\ Len(s \o t) = Len(s) + Len(t)
           /\ \A k \in 1 .. Len(s) : (s \o t)[k] = s[k]
           /\ \A k \in 1 .. Len(t) : (s \o t)[Len(s) + k] = t[k]
<1>1. PICK S : s \in Seq(S) BY DEF IsSeq
<1>2. PICK T : t \in Seq(T) BY DEF IsSeq
<1> DEFINE U == S \cup T
<1>3. s \in Seq(U) /\ t \in Seq(U) BY <1>1, <1>2
<1> HIDE DEF U
<1>4. s \o t \in Seq(U) /\ Len(s \o t) = Len(s) + Len(t)
  BY <1>3
<1>5. \A k \in 1 .. Len(s) : (s \o t)[k] = s[k] BY <1>3
<1>6. \A k \in 1 .. Len(t) : (s \o t)[Len(s) + k] = t[k]
  BY <1>3
<1> QED BY <1>3, <1>4, <1>5, <1>6 DEF IsSeq

LEMMA MidSeq ==
    ASSUME NEW s, IsSeq(s), NEW m \in Nat, NEW n \in Nat, m <= n, n <= Len(s)
    PROVE  /\ IsSeq(SubSeq(s, m + 1, n)) /\ Len(SubSeq(s, m + 1, n)) = n - m
           /\ \A k \in 1 .. n - m : SubSeq(s, m + 1, n)[k] = s[m + k]
<1>1. PICK S : s \in Seq(S) BY DEF IsSeq
<1>2. \A k \in m + 1 .. n : s[k] \in S BY <1>1
<1>3. SubSeq(s, m + 1, n) \in Seq(S) BY <1>1, <1>2
<1>4. Len(SubSeq(s, m + 1, n)) = n - m BY <1>1
<1>5. \A k \in 1 .. n - m : SubSeq(s, m + 1, n)[k] = s[m + k]
  BY <1>1
<1> QED BY <1>3, <1>4, <1>5 DEF IsSeq

LEMMA PreSeq ==
    ASSUME NEW s, IsSeq(s), NEW n \in Nat, n <= Len(s)
    PROVE  /\ IsSeq(SubSeq(s, 1, n)) /\ Len(SubSeq(s, 1, n)) = n
           /\ \A k \in 1 .. n : SubSeq(s, 1, n)[k] = s[k]
<1>1. PICK S : s \in Seq(S) BY DEF IsSeq
<1>2. SubSeq(s, 1, n) \in Seq(S) BY <1>1
<1>3. Len(SubSeq(s, 1, n)) = n BY <1>1
<1>4. \A k \in 1 .. n : SubSeq(s, 1, n)[k] = s[k]
  BY <1>1
<1> QED BY <1>2, <1>3, <1>4 DEF IsSeq

LEMMA SameSeq ==
    ASSUME NEW s, NEW t, IsSeq(s), IsSeq(t), Len(s) = Len(t), \A k \in 1 .. Len(s) : s[k] = t[k]
    PROVE  s = t
<1>1. PICK S : s \in Seq(S) BY DEF IsSeq
<1>2. PICK T : t \in Seq(T) BY DEF IsSeq
<1> QED BY <1>1, <1>2

LEMMA MapSeq ==
    ASSUME NEW n \in Nat, NEW s, s = [k \in 1 .. n |-> s[k]]
    PROVE  IsSeq(s) /\ Len(s) = n
<1> DEFINE S == {s[k] : k \in 1 .. n}
<1>1. \A k \in 1 .. n : s[k] \in S OBVIOUS
<1> HIDE DEF S
<1>2. s \in [1 .. n -> S] BY <1>1
<1>3. s \in Seq(S) /\ Len(s) = n BY <1>2
<1> QED BY <1>3 DEF IsSeq

LEMMA RepSeq ==
    ASSUME NEW u, NEW n \in Nat
    PROVE  /\ IsSeq(Footer!Repeat(u, n)) /\ Len(Footer!Repeat(u, n)) = n
           /\ \A k \in 1 .. n : Footer!Repeat(u, n)[k] = u
<1> DEFINE s == Footer!Repeat(u, n)
<1>1. s = [k \in 1 .. n |-> u] BY DEF Footer!Repeat
<1>2. s = [k \in 1 .. n |-> s[k]] BY <1>1
<1> HIDE DEF s
<1>3. IsSeq(s) /\ Len(s) = n BY <1>2, MapSeq
<1>4. \A k \in 1 .. n : s[k] = u BY <1>1
<1> QED BY <1>3, <1>4 DEF s

LEMMA LenNat == \A s : IsSeq(s) => Len(s) \in Nat /\ (s = << >> <=> Len(s) = 0)
BY DEF IsSeq
--------------------------------------------------
(* Lemmas about the image. *)

\* The image, cut or padded.
LEMMA CutDown ==
    ASSUME IsSeq(part), NEW n \in Nat, n <= Len(part)
    PROVE  /\ IsSeq(Footer!Resized(n)) /\ Len(Footer!Resized(n)) = n
           /\ \A k \in 1 .. n : Footer!Resized(n)[k] = part[k]
<1>1. Footer!Resized(n) = SubSeq(part, 1, n)
  BY DEF Footer!Resized
<1> QED BY <1>1, PreSeq

LEMMA PadUp ==
    ASSUME IsSeq(part), NEW n \in Nat, n >= Len(part)
    PROVE  /\ IsSeq(Footer!Resized(n)) /\ Len(Footer!Resized(n)) = n
           /\ \A k \in 1 .. Len(part) : Footer!Resized(n)[k] = part[k]
           /\ \A k \in Len(part) + 1 .. n : Footer!Resized(n)[k] = Footer!Nul
<1>0. Len(part) \in Nat BY LenNat
<1>1. CASE n = Len(part)
  <2>1. Footer!Resized(n) = SubSeq(part, 1, n)
    BY <1>0, <1>1 DEF Footer!Resized
  <2> QED BY <1>0, <1>1, <2>1, PreSeq
<1>2. CASE n > Len(part)
  <2> DEFINE t == Footer!Repeat(Footer!Nul, n - Len(part))
             m == Len(part)
  <2>1. n - m \in Nat BY <1>0, <1>2
  <2>2. IsSeq(t) /\ Len(t) = n - m /\ \A k \in 1 .. n - m : t[k] = Footer!Nul
    BY <2>1, RepSeq
  <2>3. Footer!Resized(n) = part \o t
    BY <1>0, <1>2 DEF Footer!Resized
  <2> HIDE DEF t
  <2>4. /\ IsSeq(part \o t) /\ Len(part \o t) = m + Len(t)
        /\ \A k \in 1 .. m : (part \o t)[k] = part[k]
        /\ \A k \in 1 .. Len(t) : (part \o t)[m + k] = t[k]
    BY <2>2, CatSeq
  <2>5. \A k \in m + 1 .. n : (part \o t)[k] = Footer!Nul
    <3> TAKE k \in m + 1 .. n
    <3>1. k - m \in 1 .. n - m /\ m + (k - m) = k
      BY <1>0
    <3> QED BY <2>2, <2>4, <3>1
  <2>6. m + (n - m) = n BY <1>0
  <2> QED BY <2>2, <2>3, <2>4, <2>5, <2>6
<1> QED BY <1>0, <1>1, <1>2

LEMMA NulUnit == Footer!Nul.kind = "nul"
BY DEF Footer!Nul

\* Nothing that a description is about changes before x.
LEMMA DescribesOn ==
    ASSUME NEW v, NEW w, NEW z, NEW x \in Nat, NEW y \in Nat, NEW m,
           Describes(v, w, x, m), x <= y, IsSeq(w), IsSeq(z), x <= Len(w), x <= Len(z),
           \A k \in 1 .. x : z[k] = w[k]
    PROVE  Describes(v, z, y, m)
<1>1. /\ IsSeq(v.hashed) /\ Len(v.hashed) \in Nat /\ Len(v.hashed) <= x /\ m \in Nat
      /\ v.tree \in Nat /\ v.fecAt \in Nat /\ v.fec \in Nat /\ Len(z) \in Nat
  BY LenNat DEF Describes
<1>2. Keeps(z, v.hashed)
  <2>1. Len(v.hashed) <= Len(z) BY <1>1
  <2>2. \A k \in 1 .. Len(v.hashed) : k \in 1 .. x /\ w[k] = v.hashed[k]
    BY <1>1 DEF Describes, Keeps
  <2> QED BY <2>1, <2>2 DEF Keeps
<1>3. ASSUME v.desc = "tree"
      PROVE  /\ m <= Len(v.hashed) /\ Footer!TreeEnd(v) <= y
             /\ v.tree > 0 => v.tree >= BlockSize
             /\ v.fecAt > 0 => v.fecAt = Len(v.hashed) + v.tree
             /\ v.fecAt > 0 /\ v.tree > 0 => v.fec >= BlockSize
             /\ v.fecAt + v.fec <= y
             /\ \A k \in Len(v.hashed) + 1 .. Len(v.hashed) + v.tree : z[k].kind \in {"tree", "zeroed", "nul"}
             /\ \A k \in v.fecAt + 1 .. v.fecAt + v.fec : z[k].kind \in {"fec", "zeroed", "nul"}
  <2>1. /\ m <= Len(v.hashed) /\ Footer!TreeEnd(v) <= x
        /\ v.tree > 0 => v.tree >= BlockSize
        /\ v.fecAt > 0 => v.fecAt = Len(v.hashed) + v.tree
        /\ v.fecAt > 0 /\ v.tree > 0 => v.fec >= BlockSize
        /\ v.fecAt + v.fec <= x
    BY <1>3 DEF Describes
  <2>2. \A k \in Len(v.hashed) + 1 .. Len(v.hashed) + v.tree : w[k].kind \in {"tree", "zeroed", "nul"}
    BY <1>3 DEF Describes
  <2>3. \A k \in v.fecAt + 1 .. v.fecAt + v.fec : w[k].kind \in {"fec", "zeroed", "nul"}
    BY <1>3 DEF Describes
  <2>4. Len(v.hashed) + v.tree <= x /\ v.fecAt + v.fec <= x
    BY <1>1, <2>1 DEF Footer!TreeEnd
  <2>5. Footer!TreeEnd(v) \in Nat
    BY <1>1, SMTT(30) DEF Footer!TreeEnd
  <2>6. \A k \in Len(v.hashed) + 1 .. Len(v.hashed) + v.tree : z[k].kind \in {"tree", "zeroed", "nul"}
    <3> TAKE k \in Len(v.hashed) + 1 .. Len(v.hashed) + v.tree
    <3>1. k \in 1 .. x BY <1>1, <2>4
    <3> QED BY <2>2, <3>1
  <2>7. \A k \in v.fecAt + 1 .. v.fecAt + v.fec : z[k].kind \in {"fec", "zeroed", "nul"}
    <3> TAKE k \in v.fecAt + 1 .. v.fecAt + v.fec
    <3>1. k \in 1 .. x BY <1>1, <2>4
    <3> QED BY <2>3, <3>1
  <2>8. Footer!TreeEnd(v) <= y /\ v.fecAt + v.fec <= y
    BY <1>1, <2>1, <2>5
  <2> QED BY <2>1, <2>6, <2>7, <2>8
<1>4. /\ v.desc \in {"none", "hash", "tree"} /\ m <= y /\ Len(v.hashed) <= y
      /\ v.desc = "hash" => Len(v.hashed) = m
  BY <1>1 DEF Describes
<1> QED BY <1>1, <1>2, <1>3, <1>4 DEF Describes

LEMMA StructOn ==
    ASSUME NEW v, NEW w, NEW z, NEW x, StructAt(w, x, v), IsSeq(z),
           x + Footer!Round(v.size) <= Len(z),
           \A k \in 1 .. x + Footer!Round(v.size) : z[k] = w[k]
    PROVE  StructAt(z, x, v)
<1>1. x \in Nat /\ v.size \in Nat
  BY DEF StructAt, Aligned
<1>2. Footer!Round(v.size) \in Nat /\ v.size <= Footer!Round(v.size)
  BY <1>1, Rounds
<1>3. \A k \in 1 .. v.size : x + k \in 1 .. x + Footer!Round(v.size)
  BY <1>1, <1>2
<1> QED BY <1>3 DEF StructAt

\* What the footer at the end of an image says.
LEMMA FooterFacts ==
    ASSUME NEW w, NEW o, NEW h, ImageOK(w, o, h), EndsInFooter(w), NEW f, f = w[Len(w)],
           NEW v, v = w[f.at + 1].v
    PROVE  /\ f.orig \in Nat /\ f.at \in Nat /\ f.at % BlockSize = 0 /\ f.size \in Nat \ {0} /\ f.size = v.size
           /\ f.orig <= f.at /\ Len(o) <= f.orig /\ f.at < Len(w)
           /\ Footer!Round(f.size) \in Nat /\ f.at + Footer!Round(f.size) + BlockSize <= Len(w)
           /\ f.size <= Footer!Round(f.size)
           /\ w[f.at + 1].kind = "vbmeta" /\ (~ h => f.orig = Len(o))
           /\ StructAt(w, f.at, v) /\ Describes(v, w, f.at, f.orig)
<1>1. Points(w, f, v) /\ Len(o) <= f.orig /\ (~ h => f.orig = Len(o))
  BY DEF ImageOK
<1>2. /\ f.size = v.size /\ StructAt(w, f.at, v) /\ Describes(v, w, f.at, f.orig)
      /\ f.at + Footer!Round(f.size) + BlockSize <= Len(w)
  BY <1>1, SMTT(30) DEF Points
<1>3. f.orig \in Nat /\ f.orig <= f.at
  BY <1>2 DEF Describes
<1>4. f.at \in Nat /\ f.at % BlockSize = 0 /\ v.size \in Nat \ {0}
  BY <1>2 DEF StructAt, Aligned
<1>5. Footer!Round(f.size) \in Nat /\ f.size <= Footer!Round(f.size)
  BY <1>2, <1>4, Rounds
<1>6. w[f.at + 1].kind = "vbmeta"
  <2>1. 1 \in 1 .. v.size BY <1>4
  <2>2. w[f.at + 1] = [kind |-> "vbmeta", n |-> 1, v |-> v]
    BY <1>2, <2>1 DEF StructAt
  <2> QED BY <2>2
<1>7. Len(w) \in Nat BY LenNat DEF ImageOK
<1>8. f.at < Len(w) BY <1>2, <1>4, <1>5, <1>7, BlockOK
<1> QED BY <1>1, <1>2, <1>3, <1>4, <1>5, <1>6, <1>8

LEMMA HasIt == Footer!HasFooter <=> EndsInFooter(part)
BY DEF Footer!HasFooter, EndsInFooter

\* _parse_image finds the struct.
LEMMA ParsedIt ==
    ASSUME ImageOK(part, original, hurt)
    PROVE  /\ EndsInFooter(part) => Footer!Parsed = part[Footer!Current.at + 1].v
           /\ ~ EndsInFooter(part) => Footer!Parsed = Footer!NoVbmeta
<1>1. ASSUME EndsInFooter(part) PROVE Footer!Parsed = part[Footer!Current.at + 1].v
  <2> DEFINE f == part[Len(part)]
             v == part[f.at + 1].v
  <2>1. f.at < Len(part) /\ part[f.at + 1].kind = "vbmeta"
    <3>1. f = part[Len(part)] /\ v = part[f.at + 1].v OBVIOUS
    <3> HIDE DEF f, v
    <3> QED BY <1>1, <3>1, FooterFacts
  <2> QED BY <1>1, <2>1, HasIt DEF Footer!Parsed, Footer!Current
<1>2. ASSUME ~ EndsInFooter(part) PROVE Footer!Parsed = Footer!NoVbmeta
  BY <1>2, HasIt DEF Footer!Parsed
<1> QED BY <1>1, <1>2

LEMMA OriginalSizeOK ==
    ASSUME Clean, NEW n, n = Footer!OriginalSize
    PROVE  /\ n \in Nat /\ Len(original) <= n /\ n <= Len(part) /\ (~ hurt => n = Len(original))
           /\ \A k \in 1 .. n : part[k].kind # "footer"
<1>1. ImageOK(part, original, hurt) /\ IsSeq(part) /\ IsSeq(original) /\ Len(part) \in Nat /\ Len(original) \in Nat
  BY LenNat DEF Clean, ImageOK
<1>2. CASE EndsInFooter(part)
  <2> DEFINE f == part[Len(part)]
             v == part[f.at + 1].v
  <2>1. n = f.orig
    BY <1>2, HasIt DEF Footer!OriginalSize, Footer!Current
  <2>2. /\ f.orig \in Nat /\ f.at \in Nat /\ f.orig <= f.at /\ Len(original) <= f.orig /\ f.at < Len(part)
        /\ ~ hurt => f.orig = Len(original)
    <3>1. f = part[Len(part)] /\ v = part[f.at + 1].v OBVIOUS
    <3> HIDE DEF f, v
    <3> QED BY <1>1, <1>2, <3>1, FooterFacts
  <2> HIDE DEF f
  <2>3. \A k \in 1 .. n : k \in 1 .. Len(part) /\ k # Len(part)
    BY <1>1, <2>1, <2>2
  <2>4. \A k \in 1 .. n : part[k].kind # "footer"
    BY <1>1, <2>3 DEF ImageOK, NoneInside
  <2> QED BY <1>1, <2>1, <2>2, <2>4
<1>3. CASE ~ EndsInFooter(part)
  <2>1. n = Len(part)
    BY <1>3, HasIt DEF Footer!OriginalSize
  <2>2. Len(original) <= Len(part) /\ (~ hurt => part = original)
    BY <1>1, <1>3 DEF Clean, ImageOK, Keeps
  <2>3. \A k \in 1 .. n : part[k].kind # "footer"
    <3>1. part # << >> => part[Len(part)].kind # "footer"
      BY <1>3 DEF EndsInFooter
    <3>2. \A k \in 1 .. Len(part) : part # << >>
      BY <1>1, LenNat
    <3> QED BY <1>1, <2>1, <3>1, <3>2 DEF ImageOK, NoneInside
  <2> QED BY <1>1, <2>1, <2>2, <2>3
<1> QED BY <1>2, <1>3

LEMMA CleanStays == Clean /\ UNCHANGED <<part, original, hurt>> => Clean'
BY DEF Clean

LEMMA NoFooterEnds == ASSUME NEW w, IsSeq(w), NoFooter(w) PROVE ~ EndsInFooter(w)
<1>1. Len(w) \in Nat /\ (w # << >> => Len(w) \in 1 .. Len(w))
  BY LenNat
<1> QED BY <1>1 DEF NoFooter, EndsInFooter

\* Without a footer.
LEMMA BareOK ==
    ASSUME NEW w, NEW o, NEW h \in BOOLEAN, IsSeq(w), IsSeq(o), Keeps(w, o), NoFooter(w)
    PROVE  ImageOK(w, o, h)
<1>1. ~ EndsInFooter(w) BY NoFooterEnds
<1>2. NoneInside(w) BY DEF NoFooter, NoneInside
<1> QED BY <1>1, <1>2 DEF ImageOK

\* If what is there is the image alone, no more is left to be done.
LEMMA BareClean ==
    ASSUME NEW w, NEW o, NEW h \in BOOLEAN, IsSeq(w), IsSeq(o), Keeps(w, o), NoFooter(w),
           ~ h => Len(w) = Len(o)
    PROVE  ImageOK(w, o, h) /\ (~ h /\ ~ EndsInFooter(w) => w = o)
<1>1. ImageOK(w, o, h) BY BareOK
<1>2. ASSUME ~ h PROVE w = o
  <2>1. Len(w) = Len(o) /\ \A k \in 1 .. Len(w) : w[k] = o[k]
    BY <1>2 DEF Keeps
  <2> QED BY <2>1, SameSeq
<1> QED BY <1>1, <1>2

\* The image is put back to the size it had.
LEMMA Restored ==
    ASSUME Image, part' = Footer!Resized(args.orig), UNCHANGED <<original, hurt>>
    PROVE  Clean'
<1>0. PICK m : m = args.orig OBVIOUS
<1>1. /\ IsSeq(part) /\ IsSeq(original) /\ Keeps(part, original) /\ NoFooter(part) /\ hurt \in BOOLEAN
      /\ m \in Nat /\ Len(original) <= m /\ m <= Len(part) /\ (~ hurt => m = Len(original))
      /\ Len(part) \in Nat /\ Len(original) \in Nat
  BY <1>0, LenNat DEF Image
<1>2. IsSeq(part') /\ Len(part') = m /\ \A k \in 1 .. m : part'[k] = part[k]
  BY <1>0, <1>1, CutDown
<1> DEFINE w == part'
           o == original
           h == hurt
<1>3. w = part' /\ o = original /\ h = hurt /\ o = original' /\ h = hurt' OBVIOUS
<1> HIDE DEF w, o, h
<1>4. IsSeq(w) /\ Keeps(w, o) /\ NoFooter(w) /\ (~ h => Len(w) = Len(o))
  <2>1. \A k \in 1 .. m : k \in 1 .. Len(part) BY <1>1
  <2>2. NoFooter(w)
    BY <1>1, <1>2, <1>3, <2>1 DEF NoFooter
  <2>3. Keeps(w, o) BY <1>1, <1>2, <1>3 DEF Keeps
  <2> QED BY <1>1, <1>2, <1>3, <2>2, <2>3
<1>5. ImageOK(w, o, h) /\ (~ h /\ ~ EndsInFooter(w) => w = o)
  BY <1>1, <1>3, <1>4, BareClean
<1> QED BY <1>3, <1>5 DEF Clean

\* With nothing but the image there, a command may stop.
LEMMA StopsClean ==
    ASSUME Image, Len(part) = args.orig, UNCHANGED <<part, original, hurt>>
    PROVE  Clean'
<1>1. /\ IsSeq(part) /\ IsSeq(original) /\ Keeps(part, original) /\ NoFooter(part) /\ hurt \in BOOLEAN
      /\ (~ hurt => Len(part) = Len(original))
  BY DEF Image
<1>2. ImageOK(part, original, hurt) /\ (~ hurt /\ ~ EndsInFooter(part) => part = original)
  BY <1>1, BareClean
<1> QED BY <1>2 DEF Clean

\* More at the end does not disturb the image.
LEMMA ImageGrows ==
    ASSUME Image, args'.orig = args.orig, IsSeq(part'), Len(part) <= Len(part'),
           \A k \in 1 .. Len(part) : part'[k] = part[k],
           \A k \in Len(part) + 1 .. Len(part') : part'[k].kind # "footer",
           UNCHANGED <<original, hurt>>
    PROVE  Image'
<1>1. /\ IsSeq(part) /\ IsSeq(original) /\ Keeps(part, original) /\ NoFooter(part) /\ hurt \in BOOLEAN
      /\ args.orig \in Nat /\ Len(original) <= args.orig /\ args.orig <= Len(part) /\ (~ hurt => args.orig = Len(original))
      /\ Len(part) \in Nat /\ Len(original) \in Nat /\ Len(part') \in Nat
  BY LenNat DEF Image
<1>2. Keeps(part', original)
  <2>1. \A k \in 1 .. Len(original) : k \in 1 .. Len(part)
    BY <1>1
  <2> QED BY <1>1, <2>1 DEF Keeps
<1>3. NoFooter(part')
  <2>1. \A k \in 1 .. Len(part') : k \in 1 .. Len(part) \/ k \in Len(part) + 1 .. Len(part')
    BY <1>1
  <2> QED BY <1>1, <2>1 DEF NoFooter
<1>4. /\ IsSeq(part') /\ IsSeq(original') /\ Keeps(part', original') /\ NoFooter(part') /\ hurt' \in BOOLEAN
      /\ args.orig \in Nat /\ Len(original') <= args.orig /\ args.orig <= Len(part') /\ (~ hurt' => args.orig = Len(original'))
  BY <1>1, <1>2, <1>3
<1> QED BY <1>4 DEF Image

LEMMA CommandOK ==
    ASSUME NEW x \in FooterCommands
    PROVE  /\ x.op \in Footer!Adds \cup {"resize", "erase", "zero"}
           /\ x.part \in Nat /\ x.size \in Nat \ {0}
           /\ x.append \in BOOLEAN /\ x.keep \in BOOLEAN /\ x.tree \in BOOLEAN
           /\ x.fec \in Nat /\ x.fec % BlockSize = 0
           /\ x.append \/ x.op \in {"add_hash", "add_hashtree"}
BY ImagesAssumption DEF Footer!ImageFooterAssumption
--------------------------------------------------
(* One lemma for each step that spoils nothing. *)

LEMMA StartStep ==
    ASSUME FooterInv, NEW x \in FooterCommands, Footer!Start(x)
    PROVE  FooterInv'
<1>1. step = "idle" /\ step' = "open" /\ UNCHANGED <<part, original, hurt>> /\ args'.cmd = x
  BY DEF Footer!Start, Footer!Goto, Footer!Go, Footer!NoJob
<1>2. Clean' BY <1>1, CleanStays DEF FooterInv
<1>3. OpenOK' BY <1>1, <1>2 DEF OpenOK
<1> QED BY <1>1, <1>3 DEF FooterInv

LEMMA OpenStep ==
    ASSUME FooterInv, Footer!Open
    PROVE  FooterInv'
<1>1. /\ step = "open" /\ OpenOK /\ args.cmd.op \in Footer!Adds /\ args.cmd \in FooterCommands /\ Clean
  BY DEF Footer!Open, Footer!Is, Footer!Op, FooterInv, OpenOK
<1>2. CASE Footer!Refused
  <2>1. step' = "idle" /\ UNCHANGED <<part, original, hurt>>
    BY <1>2 DEF Footer!Open, Footer!Raise, Footer!End, Footer!Goto, Footer!Go
  <2> QED BY <1>1, <2>1, CleanStays DEF FooterInv
<1>3. CASE ~ Footer!Refused
  <2>0. PICK m : m = Footer!OriginalSize OBVIOUS
  <2>1. /\ part' = Footer!Resized(m) /\ step' = "check" /\ UNCHANGED <<original, hurt>>
        /\ args' = [args EXCEPT !.orig = m,
                        !.part = IF Footer!Op = "add_hash" /\ args.cmd.part = 0
                                 THEN Footer!Round(m + Footer!MaxMetadata) ELSE args.cmd.part]
    BY <1>3, <2>0 DEF Footer!Open, Footer!Goto, Footer!Go
  <2>2. /\ m \in Nat /\ Len(original) <= m /\ m <= Len(part) /\ (~ hurt => m = Len(original))
        /\ \A k \in 1 .. m : part[k].kind # "footer"
    BY <1>1, <2>0, OriginalSizeOK
  <2>3. /\ IsSeq(part) /\ IsSeq(original) /\ Keeps(part, original) /\ hurt \in BOOLEAN
        /\ Len(original) \in Nat
    BY <1>1, LenNat DEF Clean, ImageOK
  <2>4. IsSeq(part') /\ Len(part') = m /\ \A k \in 1 .. m : part'[k] = part[k]
    BY <2>1, <2>2, <2>3, CutDown
  <2>6. /\ args'.cmd = args.cmd /\ args'.orig = m
        /\ args'.part = IF args.cmd.op = "add_hash" /\ args.cmd.part = 0
                        THEN Footer!Round(m + Footer!MaxMetadata) ELSE args.cmd.part
    BY <2>1 DEF Footer!Op
  <2>5. Image'
    <3>1. NoFooter(part') /\ Keeps(part', original)
      BY <2>2, <2>3, <2>4 DEF NoFooter, Keeps
    <3>2. /\ IsSeq(part') /\ IsSeq(original') /\ Keeps(part', original') /\ NoFooter(part') /\ hurt' \in BOOLEAN
          /\ m \in Nat /\ Len(original') <= m /\ m <= Len(part') /\ (~ hurt' => m = Len(original'))
      BY <2>1, <2>2, <2>3, <2>4, <3>1
    <3> QED BY <2>6, <3>2 DEF Image
  <2>7. args'.part \in Nat /\ (args.cmd.op = "add_hash" => args'.part > 0)
    <3>1. m + Footer!MaxMetadata \in Nat /\ m + Footer!MaxMetadata > 0
      BY <2>2, BlockOK DEF Footer!MaxMetadata
    <3>2. /\ Footer!Round(m + Footer!MaxMetadata) \in Nat
          /\ m + Footer!MaxMetadata <= Footer!Round(m + Footer!MaxMetadata)
      BY <3>1, Rounds
    <3>3. args.cmd.part \in Nat BY <1>1, CommandOK
    <3>4. Footer!Round(m + Footer!MaxMetadata) > 0
      BY <3>1, <3>2
    <3> QED BY <2>6, <3>2, <3>3, <3>4
  <2>8. CheckOK'
    BY <1>1, <2>4, <2>5, <2>6, <2>7 DEF CheckOK, Ops
  <2> QED BY <2>1, <2>8 DEF FooterInv
<1> QED BY <1>2, <1>3

\* The sizes that TooLarge compares.
LEMMA HashFits ==
    ASSUME NEW n \in Nat, NEW z \in Nat, NEW y \in Nat, z % BlockSize = 0, y <= MaxVbmeta,
           n <= z - (MaxVbmeta + BlockSize)
    PROVE  Footer!Round(n) + Footer!Round(y) + BlockSize <= z
<1> DEFINE d == z - (MaxVbmeta + BlockSize)
<1>1. MaxVbmeta + BlockSize \in Nat /\ (MaxVbmeta + BlockSize) % BlockSize = 0
  <2>1. BlockSize % BlockSize = 0
    <3>1. (1 * BlockSize) % BlockSize = 0
      BY BlockOK, Multiple
    <3> QED BY <3>1, BlockOK
  <2>2. BlockSize \in Nat /\ MaxVbmeta \in Nat /\ MaxVbmeta % BlockSize = 0 /\ BlockSize \in Nat \ {0}
    BY BlockOK
  <2>3. (MaxVbmeta + BlockSize) % BlockSize = 0
    BY <2>1, <2>2, SumAligned, Zenon
  <2> QED BY <2>2, <2>3
<1>2. MaxVbmeta + BlockSize <= z BY <1>1
<1>3. d \in Nat /\ d % BlockSize = 0
  <2>1. d \in Nat BY <1>1, <1>2
  <2>2. (z - (MaxVbmeta + BlockSize)) % BlockSize = 0
    BY <1>1, <1>2, BlockOK, DifferenceAligned
  <2> QED BY <2>1, <2>2
<1>4. Footer!Round(n) \in Nat /\ Footer!Round(n) <= d
  BY <1>3, Rounds
<1>5. Footer!Round(y) \in Nat /\ Footer!Round(y) <= MaxVbmeta
  BY BlockOK, Rounds
<1> HIDE DEF d
<1>6. d + (MaxVbmeta + BlockSize) = z BY <1>1 DEF d
<1> QED BY <1>3, <1>4, <1>5, <1>6, BlockOK

LEMMA CheckStep ==
    ASSUME FooterInv, Footer!Check
    PROVE  FooterInv'
<1> DEFINE n == Len(part)
<1>1. /\ step = "check" /\ CheckOK /\ args.cmd \in FooterCommands /\ Image /\ n = args.orig
      /\ n \in Nat /\ IsSeq(part) /\ args.part \in Nat /\ hurt' = hurt /\ original' = original
  <2>1. step = "check" /\ hurt' = hurt /\ original' = original
    BY DEF Footer!Check, Footer!Is, Footer!Raise, Footer!Restore, Footer!End, Footer!Goto, Footer!Go
  <2> QED BY <2>1, LenNat DEF FooterInv, CheckOK, Ops, Image
<1>2. CASE Footer!Raise
  <2>1. step' = "idle" /\ UNCHANGED <<part, original, hurt>>
    BY <1>2 DEF Footer!Raise, Footer!End, Footer!Goto, Footer!Go
  <2> QED BY <1>1, <2>1, StopsClean DEF FooterInv
<1>3. CASE Footer!Restore
  <2>1. step' = "idle" /\ part' = Footer!Resized(args.orig)
    BY <1>3 DEF Footer!Restore, Footer!End, Footer!Goto, Footer!Go
  <2> QED BY <1>1, <2>1, Restored DEF FooterInv
<1>4. CASE /\ args.cmd.op \in {"add_hash", "append_vbmeta"}
           /\ args.cmd.op = "add_hash" => args.part % BlockSize = 0
           /\ ~ Footer!TooLarge(Len(part)) /\ Footer!Goto("vbmeta") /\ UNCHANGED <<part, args>>
  <2>1. step' = "vbmeta" /\ UNCHANGED <<part, args, original, hurt>>
    BY <1>4 DEF Footer!Goto, Footer!Go
  <2>2. Checked(args.cmd) => Footer!Round(n) + Footer!Round(args.cmd.size) + BlockSize <= args.part
    <3> SUFFICES ASSUME Checked(args.cmd)
                 PROVE  Footer!Round(n) + Footer!Round(args.cmd.size) + BlockSize <= args.part
      OBVIOUS
    <3>1. args.cmd.op = "add_hash" /\ args.cmd.size \in Nat /\ args.cmd.size <= MaxVbmeta
      BY <1>1, <1>4, CommandOK DEF Checked
    <3>2. args.part > 0 /\ args.part % BlockSize = 0
      BY <1>1, <1>4, <3>1 DEF CheckOK
    <3>3. ~ (n > args.part - (MaxVbmeta + BlockSize))
      BY <1>4, <3>1, <3>2 DEF Footer!TooLarge, Footer!Op, Footer!MaxMetadata
    <3> HIDE DEF n
    <3>4. n <= args.part - (MaxVbmeta + BlockSize)
      BY <1>1, <3>3, BlockOK
    <3> QED BY <1>1, <3>1, <3>2, <3>4, HashFits
  <2>3. VbmetaOK BY <1>1, <1>4, <2>2 DEF VbmetaOK, Ops
  <2>4. VbmetaOK'
    BY <2>1, <2>3 DEF VbmetaOK, Ops, Image, Footer!Round, Checked
  <2> QED BY <2>1, <2>4 DEF FooterInv
<1>5. CASE /\ args.cmd.op = "add_hashtree" /\ ~ Footer!TooLarge(Footer!Round(Len(part)))
           /\ part' = Footer!Resized(Footer!Round(Len(part))) /\ Footer!Goto("tree") /\ UNCHANGED args
  <2>0. PICK r : r = Footer!Round(n) OBVIOUS
  <2>1. step' = "tree" /\ UNCHANGED <<args, original, hurt>> /\ part' = Footer!Resized(r)
    BY <1>5, <2>0 DEF Footer!Goto, Footer!Go
  <2>2. r \in Nat /\ n <= r /\ r % BlockSize = 0
    <3> HIDE DEF n
    <3> QED BY <1>1, <2>0, Rounds
  <2>3. /\ IsSeq(part') /\ Len(part') = r
        /\ \A k \in 1 .. n : part'[k] = part[k]
        /\ \A k \in n + 1 .. r : part'[k] = Footer!Nul
    BY <1>1, <2>1, <2>2, PadUp
  <2>4. Image'
    <3>1. \A k \in Len(part) + 1 .. Len(part') : part'[k].kind # "footer"
      BY <2>3, NulUnit
    <3> QED BY <1>1, <2>1, <2>2, <2>3, <3>1, ImageGrows
  <2>5. Room((IF args.cmd.tree THEN Footer!TreeSize(Len(part)) ELSE 0) + FecSize(args.cmd) + MaxVbmeta)'
    <3>1. args.cmd.fec \in Nat BY <1>1, CommandOK
    <3>2. PICK t : t = IF args.cmd.tree THEN Footer!TreeSize(args.part) + args.cmd.fec ELSE 0
      OBVIOUS
    <3>3. PICK u : u = (IF args.cmd.tree THEN Footer!TreeSize(r) ELSE 0) + FecSize(args.cmd)
      OBVIOUS
    <3>4. args.part > 0 => ~ (r > args.part - (MaxVbmeta + BlockSize) - t)
      BY <1>5, <2>0, <3>2 DEF Footer!TooLarge, Footer!Op, Footer!MaxMetadata
    <3>5. t \in Nat
      BY <3>1, <3>2, BlockOK DEF Footer!TreeSize
    <3>6. u \in Nat /\ (r <= args.part => u <= t)
      BY <1>1, <2>2, <3>1, <3>2, <3>3, BlockOK DEF Footer!TreeSize, FecSize
    <3>7. args.part > 0 => r + (u + MaxVbmeta) + BlockSize <= args.part
      <4> SUFFICES ASSUME args.part > 0 PROVE r + (u + MaxVbmeta) + BlockSize <= args.part OBVIOUS
      <4>1. r <= args.part - (MaxVbmeta + BlockSize) - t
        BY <1>1, <2>2, <3>4, <3>5, BlockOK
      <4>2. r <= args.part
        BY <1>1, <2>2, <3>5, <4>1, BlockOK
      <4> QED BY <1>1, <2>2, <3>5, <3>6, <4>1, <4>2, BlockOK
    <3>8. ((IF args.cmd.tree THEN Footer!TreeSize(Len(part)) ELSE 0) + FecSize(args.cmd) + MaxVbmeta)'
            = u + MaxVbmeta
      BY <2>1, <2>3, <3>3 DEF Footer!TreeSize, FecSize
    <3> QED BY <1>1, <2>1, <2>3, <3>7, <3>8 DEF Room
  <2>6. TreeOK'
    BY <1>1, <1>5, <2>1, <2>2, <2>3, <2>4, <2>5 DEF TreeOK, Ops, Aligned
  <2> QED BY <2>1, <2>6 DEF FooterInv
<1> QED BY <1>2, <1>3, <1>4, <1>5 DEF Footer!Check, Footer!Is, Footer!Op

LEMMA BlockAligned == BlockSize % BlockSize = 0 /\ 0 % BlockSize = 0
<1>1. (1 * BlockSize) % BlockSize = 0 /\ (0 * BlockSize) % BlockSize = 0
  BY BlockOK, Multiple
<1>2. 1 * BlockSize = BlockSize /\ 0 * BlockSize = 0
  BY BlockOK
<1> QED BY <1>1, <1>2

LEMMA AlignedPlus == \A m, n \in Nat : m % BlockSize = 0 /\ n % BlockSize = 0 => (m + n) % BlockSize = 0
BY BlockOK, SumAligned

\* units of a kind are put at the end of the image.
LEMMA MoreUnits ==
    ASSUME Image, NEW u, u.kind # "footer", NEW n \in Nat, part' = part \o Footer!Repeat(u, n),
           args'.orig = args.orig, UNCHANGED <<original, hurt>>
    PROVE  /\ Image' /\ IsSeq(part') /\ Len(part) \in Nat /\ Len(part') = Len(part) + n
           /\ \A k \in 1 .. Len(part) : part'[k] = part[k]
           /\ \A k \in Len(part) + 1 .. Len(part') : part'[k] = u
<1>0. IsSeq(part) /\ Len(part) \in Nat
  BY LenNat DEF Image
<1> DEFINE t == Footer!Repeat(u, n)
<1>1. IsSeq(t) /\ Len(t) = n /\ \A k \in 1 .. n : t[k] = u
  BY RepSeq
<1>2. part' = part \o t OBVIOUS
<1> HIDE DEF t
<1>3. /\ IsSeq(part') /\ Len(part') = Len(part) + Len(t)
      /\ \A k \in 1 .. Len(part) : part'[k] = part[k]
      /\ \A k \in 1 .. Len(t) : part'[Len(part) + k] = t[k]
  BY <1>0, <1>1, <1>2, CatSeq, SMTT(30)
<1>4. \A k \in Len(part) + 1 .. Len(part') : part'[k] = u
  <2> TAKE k \in Len(part) + 1 .. Len(part')
  <2>1. k - Len(part) \in 1 .. n /\ Len(part) + (k - Len(part)) = k
    BY <1>0, <1>1, <1>3
  <2> QED BY <1>1, <1>3, <2>1
<1>5. Image'
  <2>1. Len(part) <= Len(part') BY <1>0, <1>1, <1>3
  <2>2. \A k \in Len(part) + 1 .. Len(part') : part'[k].kind # "footer"
    BY <1>4
  <2> QED BY <1>3, <2>1, <2>2, ImageGrows
<1> QED BY <1>0, <1>1, <1>3, <1>4, <1>5

LEMMA HashTreeStep ==
    ASSUME FooterInv, Footer!HashTree
    PROVE  FooterInv'
<1>1. step = "tree" /\ TreeOK /\ args.cmd \in FooterCommands /\ args.cmd.op = "add_hashtree" /\ Image
  BY DEF Footer!HashTree, Footer!Is, FooterInv, TreeOK, Ops
<1>2. PICK z : z = IF args.cmd.tree THEN Footer!TreeSize(Len(part)) ELSE 0 OBVIOUS
<1>3. PICK x : x = [Footer!NoVbmeta EXCEPT !.size = args.cmd.size, !.desc = "tree", !.hashed = part, !.tree = z]
  OBVIOUS
<1>4. /\ part' = part \o Footer!Repeat(Footer!Tree, z) /\ args' = [args EXCEPT !.v = x]
      /\ step' = "fec" /\ UNCHANGED <<original, hurt>>
  BY <1>2, <1>3 DEF Footer!HashTree, Footer!NewTree, Footer!Goto, Footer!Go
<1>5. z \in {0, BlockSize} /\ z \in Nat /\ z % BlockSize = 0 /\ (z > 0 => args.cmd.tree)
  BY <1>2, BlockOK, BlockAligned DEF Footer!TreeSize
<1>6. /\ x.size = args.cmd.size /\ x.desc = "tree" /\ x.hashed = part /\ x.tree = z
      /\ x.fecAt = 0 /\ x.fec = 0
  BY <1>3 DEF Footer!NoVbmeta
<1>7. args'.v = x /\ args'.cmd = args.cmd /\ args'.orig = args.orig /\ args'.part = args.part
  <2>1. args.cmd \in FooterCommands BY <1>1
  <2> QED BY <1>4
<1>8. /\ Image' /\ IsSeq(part') /\ Len(part) \in Nat /\ Len(part') = Len(part) + z
      /\ \A k \in 1 .. Len(part) : part'[k] = part[k]
      /\ \A k \in Len(part) + 1 .. Len(part') : part'[k] = Footer!Tree
  <2>1. Footer!Tree.kind # "footer" BY DEF Footer!Tree
  <2> QED BY <1>1, <1>4, <1>5, <1>7, <2>1, MoreUnits
<1>9. Aligned(Len(part')) /\ Len(part') = Len(x.hashed) + x.tree
  <2>1. Len(part) % BlockSize = 0
    BY <1>1 DEF TreeOK, Aligned
  <2> QED BY <1>5, <1>6, <1>8, <2>1, AlignedPlus DEF Aligned
<1>10. Describes(x, part', Len(part'), args.orig)
  <2>1. args.orig \in Nat /\ args.orig <= Len(part) /\ IsSeq(part)
    BY <1>1 DEF Image
  <2>2. Keeps(part', part) BY <1>5, <1>8 DEF Keeps
  <2>3. \A k \in Len(part) + 1 .. Len(part) + z : part'[k].kind \in {"tree", "zeroed", "nul"}
    BY <1>8 DEF Footer!Tree
  <2>4. \A k \in 0 + 1 .. 0 + 0 : part'[k].kind \in {"fec", "zeroed", "nul"} OBVIOUS
  <2>5. Footer!TreeEnd(x) = Len(part')
    BY <1>6, <1>8 DEF Footer!TreeEnd
  <2>6. z > 0 => z >= BlockSize BY <1>5, BlockOK
  <2>7. Len(part) <= Len(part') /\ args.orig <= Len(part') /\ Len(part') \in Nat
    BY <1>5, <1>8, <2>1
  <2> QED BY <1>5, <1>6, <1>8, <2>1, <2>2, <2>3, <2>4, <2>5, <2>6, <2>7 DEF Describes
<1>11. Room(FecSize(args.cmd) + MaxVbmeta)'
  <2>1. Room(z + FecSize(args.cmd) + MaxVbmeta)
    BY <1>1, <1>2 DEF TreeOK
  <2>2. args.cmd.fec \in Nat /\ args.cmd.tree \in BOOLEAN
    BY <1>1, CommandOK
  <2>3. PICK g \in Nat : g = FecSize(args.cmd)
    BY <2>2 DEF FecSize
  <2>4. args.part \in Nat /\ (args.part > 0 => Len(part) + (z + g + MaxVbmeta) + BlockSize <= args.part)
    BY <2>1, <2>3 DEF Room
  <2>5. args.part > 0 => Len(part') + (g + MaxVbmeta) + BlockSize <= args.part
    BY <1>5, <1>8, <2>4, BlockOK
  <2>6. (FecSize(args.cmd) + MaxVbmeta)' = g + MaxVbmeta
    BY <1>7, <2>3 DEF FecSize
  <2> QED BY <1>7, <2>4, <2>5, <2>6 DEF Room
<1>12. FecOK'
  <2>1. Describes(args.v, part, Len(part), args.orig)'
    BY <1>7, <1>10 DEF Describes
  <2> QED BY <1>1, <1>5, <1>6, <1>7, <1>8, <1>9, <1>11, <2>1 DEF FecOK, Ops
<1> QED BY <1>4, <1>12 DEF FooterInv

LEMMA FecDataStep ==
    ASSUME FooterInv, Footer!FecData
    PROVE  FooterInv'
<1>1. step = "fec" /\ FecOK /\ args.cmd \in FooterCommands /\ args.cmd.op = "add_hashtree" /\ Image
  BY DEF Footer!FecData, Footer!Is, FooterInv, FecOK, Ops
<1>2. PICK z : z = IF args.cmd.tree THEN args.cmd.fec ELSE 0 OBVIOUS
<1>3. PICK v : v = args.v OBVIOUS
<1>4. PICK x : x = IF args.cmd.fec = 0 THEN v ELSE [v EXCEPT !.fecAt = Len(part), !.fec = z]
  OBVIOUS
<1>5. /\ part' = part \o Footer!Repeat(Footer!Fec, z)
      /\ args' = IF args.cmd.fec = 0 THEN args ELSE [args EXCEPT !.v.fecAt = Len(part), !.v.fec = z]
      /\ step' = (IF args.cmd.append THEN "append" ELSE "end") /\ UNCHANGED <<original, hurt>>
  BY <1>2 DEF Footer!FecData, Footer!Goto, Footer!Go
<1>6. /\ args.cmd.fec \in Nat /\ args.cmd.fec % BlockSize = 0 /\ args.cmd.tree \in BOOLEAN
      /\ args.cmd.size \in Nat \ {0}
  BY <1>1, CommandOK
<1>7. z \in Nat /\ z % BlockSize = 0 /\ z = FecSize(args.cmd)
  BY <1>2, <1>6, BlockAligned DEF FecSize
<1>8. args'.v = x /\ args'.cmd = args.cmd /\ args'.orig = args.orig /\ args'.part = args.part
  BY <1>3, <1>4, <1>5
<1>9. /\ v.size = args.cmd.size /\ v.desc = "tree" /\ v.fecAt = 0
      /\ Describes(v, part, Len(part), args.orig) /\ Len(part) = Len(v.hashed) + v.tree
      /\ v.tree > 0 => args.cmd.tree
  BY <1>1, <1>3 DEF FecOK
<1>10. /\ x.size = v.size /\ x.desc = "tree" /\ x.hashed = v.hashed /\ x.tree = v.tree
       /\ x.fecAt = IF args.cmd.fec = 0 THEN v.fecAt ELSE Len(part)
       /\ x.fec = IF args.cmd.fec = 0 THEN v.fec ELSE z
  BY <1>4, <1>9
<1>11. /\ Image' /\ IsSeq(part') /\ Len(part) \in Nat /\ Len(part') = Len(part) + z
       /\ \A k \in 1 .. Len(part) : part'[k] = part[k]
       /\ \A k \in Len(part) + 1 .. Len(part') : part'[k] = Footer!Fec
  <2>1. Footer!Fec.kind # "footer" BY DEF Footer!Fec
  <2> QED BY <1>1, <1>5, <1>7, <1>8, <2>1, MoreUnits
<1>12. Aligned(Len(part'))
  <2>1. Len(part) % BlockSize = 0
    BY <1>1 DEF FecOK, Aligned
  <2> QED BY <1>7, <1>11, <2>1, AlignedPlus DEF Aligned
<1>13. Describes(v, part', Len(part'), args.orig)
  <2>1. IsSeq(part) BY <1>1 DEF Image
  <2>2. PICK n \in Nat : n = Len(part) BY <1>11
  <2>3. PICK m \in Nat : m = Len(part') BY <1>7, <1>11
  <2>4. n <= m BY <1>7, <1>11, <2>2, <2>3
  <2>5. Describes(v, part, n, args.orig) BY <1>9, <2>2
  <2>6. Describes(v, part', m, args.orig)
    BY <1>11, <2>1, <2>2, <2>3, <2>4, <2>5, DescribesOn
  <2> QED BY <2>3, <2>6
<1>14. Describes(x, part', Len(part'), args.orig)
  <2>1. CASE args.cmd.fec = 0 BY <1>4, <1>13, <2>1
  <2>2. CASE args.cmd.fec # 0
    <3>1. x.fecAt = Len(part) /\ x.fec = z
      BY <1>10, <2>2
    <3>2. Footer!TreeEnd(x) <= Len(part') /\ x.fecAt + x.fec <= Len(part')
      BY <1>7, <1>9, <1>10, <1>11, <3>1 DEF Footer!TreeEnd
    <3>3. v.tree > 0 => z >= BlockSize
      <4> SUFFICES ASSUME v.tree > 0 PROVE z >= BlockSize OBVIOUS
      <4>1. z > 0 BY <1>2, <1>6, <1>9, <2>2
      <4>2. Footer!Round(z) = z BY <1>7, RoundAligned
      <4>3. PICK q \in Nat : z = q * BlockSize
        BY <1>7, BlockOK, Quotient
      <4>4. q # 0 BY <4>1, <4>3, BlockOK
      <4>5. q * BlockSize >= BlockSize
        BY <4>3, <4>4, BlockOK
      <4> QED BY <4>3, <4>5
    <3>4. \A k \in x.fecAt + 1 .. x.fecAt + x.fec : part'[k].kind \in {"fec", "zeroed", "nul"}
      BY <1>11, <3>1 DEF Footer!Fec
    <3>5. /\ x.desc = "tree" /\ args.orig \in Nat /\ args.orig <= Len(part')
          /\ IsSeq(x.hashed) /\ Len(x.hashed) <= Len(part') /\ Keeps(part', x.hashed)
          /\ x.tree \in Nat /\ args.orig <= Len(x.hashed) /\ (x.tree > 0 => x.tree >= BlockSize)
          /\ \A k \in Len(x.hashed) + 1 .. Len(x.hashed) + x.tree : part'[k].kind \in {"tree", "zeroed", "nul"}
      BY <1>9, <1>10, <1>13 DEF Describes
    <3> QED BY <1>7, <1>9, <1>10, <1>11, <3>1, <3>2, <3>3, <3>4, <3>5 DEF Describes
  <2> QED BY <2>1, <2>2
<1>15. args'.part \in Nat /\ (Checked(args'.cmd) => Room(Footer!Round(args.v.size))')
  <2>0. args'.part \in Nat BY <1>1, <1>8 DEF FecOK, Room
  <2> SUFFICES ASSUME Checked(args.cmd) PROVE Room(Footer!Round(args.v.size))'
    BY <1>8, <2>0
  <2>1. PICK r : r = Footer!Round(args.cmd.size) OBVIOUS
  <2>2. r \in Nat /\ r <= MaxVbmeta
    <3>1. args.cmd.size <= MaxVbmeta BY <1>1 DEF Checked
    <3> QED BY <1>6, <2>1, <3>1, BlockOK, Rounds
  <2>3. args.part \in Nat /\ (args.part > 0 => Len(part) + (z + MaxVbmeta) + BlockSize <= args.part)
    BY <1>1, <1>7 DEF FecOK, Room
  <2>4. args.part > 0 => Len(part') + r + BlockSize <= args.part
    BY <1>7, <1>11, <2>2, <2>3, BlockOK, SMTT(30)
  <2>5. Footer!Round(args.v.size)' = r
    BY <1>8, <1>9, <1>10, <2>1 DEF Footer!Round
  <2> QED BY <1>8, <2>3, <2>4, <2>5 DEF Room
<1>16. AppendOK'
  <2>1. Describes(args.v, part, Len(part), args.orig)'
    BY <1>8, <1>14 DEF Describes
  <2> QED BY <1>1, <1>6, <1>8, <1>9, <1>10, <1>11, <1>12, <1>15, <2>1 DEF AppendOK, Ops, Footer!Adds
<1>17. EndOK' BY <1>1, <1>8, <1>11 DEF EndOK, Ops
<1> QED BY <1>5, <1>16, <1>17 DEF FooterInv

LEMMA MakeVbmetaStep ==
    ASSUME FooterInv, Footer!MakeVbmeta
    PROVE  FooterInv'
<1>1. step = "vbmeta" /\ VbmetaOK /\ args.cmd \in FooterCommands /\ Image
      /\ args.cmd.op \in {"add_hash", "append_vbmeta"} /\ Len(part) = args.orig /\ args.orig \in Nat
      /\ IsSeq(part) /\ UNCHANGED <<original, hurt>>
  BY DEF Footer!MakeVbmeta, Footer!Is, FooterInv, VbmetaOK, Ops, Image, Footer!Goto, Footer!Go
<1>2. PICK x : x = [Footer!NoVbmeta EXCEPT !.size = args.cmd.size,
                       !.desc   = IF Footer!Op = "add_hash" THEN "hash" ELSE "none",
                       !.hashed = IF Footer!Op = "add_hash" THEN part ELSE << >>]
  OBVIOUS
<1>3. args' = [args EXCEPT !.v = x]
  BY <1>2 DEF Footer!MakeVbmeta
<1>4. args'.v = x /\ args'.cmd = args.cmd /\ args'.orig = args.orig /\ args'.part = args.part
  BY <1>3
<1>5. /\ x.size = args.cmd.size /\ x.desc \in {"none", "hash"} /\ x.tree = 0 /\ x.fecAt = 0 /\ x.fec = 0
      /\ x.hashed = IF args.cmd.op = "add_hash" THEN part ELSE << >>
      /\ x.desc = "hash" => args.cmd.op = "add_hash"
  BY <1>2 DEF Footer!NoVbmeta, Footer!Op
<1>6. CASE args.cmd.append
  <2>1. PICK r : r = Footer!Round(Len(part)) OBVIOUS
  <2>2. part' = Footer!Resized(r) /\ step' = "append"
    BY <1>6, <2>1 DEF Footer!MakeVbmeta, Footer!Goto, Footer!Go
  <2>3. r \in Nat /\ Len(part) <= r /\ r % BlockSize = 0 /\ Len(part) \in Nat
    BY <1>1, <2>1, Rounds
  <2>4. /\ IsSeq(part') /\ Len(part') = r
        /\ \A k \in 1 .. Len(part) : part'[k] = part[k]
        /\ \A k \in Len(part) + 1 .. r : part'[k] = Footer!Nul
    BY <1>1, <2>2, <2>3, PadUp
  <2>5. Image'
    <3>1. \A k \in Len(part) + 1 .. Len(part') : part'[k].kind # "footer"
      BY <2>4, NulUnit
    <3> QED BY <1>1, <1>4, <2>3, <2>4, <3>1, ImageGrows
  <2>6. Describes(x, part', r, args.orig)
    <3>1. IsSeq(x.hashed) /\ Len(x.hashed) <= r /\ Keeps(part', x.hashed)
          /\ (x.desc = "hash" => Len(x.hashed) = args.orig)
      <4>1. CASE args.cmd.op = "add_hash"
        BY <1>1, <1>5, <2>3, <2>4, <4>1 DEF Keeps
      <4>2. CASE args.cmd.op # "add_hash"
        <5>1. x.hashed = << >> /\ x.desc # "hash" /\ IsSeq(<< >>) /\ Len(<< >>) = 0
          BY <1>5, <4>2 DEF IsSeq
        <5>2. x.hashed \in Seq({}) /\ Len(x.hashed) = 0
          BY <5>1
        <5> QED BY <2>3, <2>4, <5>1, <5>2 DEF Keeps
      <4> QED BY <4>1, <4>2
    <3>2. x.desc # "tree" /\ args.orig <= r
      BY <1>1, <1>5, <2>3
    <3> QED BY <1>1, <1>5, <3>1, <3>2 DEF Describes
  <2>7. args'.part \in Nat /\ (Checked(args'.cmd) => Room(Footer!Round(args.v.size))')
    <3>1. PICK y : y = Footer!Round(args.cmd.size) OBVIOUS
    <3>2. args.part \in Nat /\ (Checked(args.cmd) => r + y + BlockSize <= args.part)
      BY <1>1, <2>1, <3>1 DEF VbmetaOK
    <3>3. Footer!Round(args.v.size)' = y
      BY <1>4, <1>5, <3>1 DEF Footer!Round
    <3> QED BY <1>4, <2>4, <3>2, <3>3 DEF Room
  <2>8. Describes(args.v, part, Len(part), args.orig)'
    BY <1>4, <2>4, <2>6 DEF Describes
  <2>9. AppendOK'
    <3>1. x.size \in Nat \ {0} BY <1>1, <1>5, CommandOK
    <3>2. args.cmd.op \in Footer!Adds
      BY <1>1 DEF Footer!Adds
    <3> QED BY <1>1, <1>4, <2>3, <2>4, <2>5, <2>7, <2>8, <3>1, <3>2 DEF AppendOK, Ops, Aligned, Footer!Adds
  <2> QED BY <2>2, <2>9 DEF FooterInv
<1>7. CASE ~ args.cmd.append
  <2>1. part' = part /\ step' = "end"
    BY <1>7 DEF Footer!MakeVbmeta, Footer!Goto, Footer!Go
  <2>2. args.cmd.op = "add_hash"
    <3>1. args.cmd.op \in {"add_hash", "add_hashtree"}
      BY <1>1, <1>7, CommandOK
    <3> QED BY <1>1, <3>1
  <2>3. EndOK'
    BY <1>1, <1>4, <2>1, <2>2 DEF EndOK, Ops, Image
  <2> QED BY <2>1, <2>3 DEF FooterInv
<1> QED BY <1>6, <1>7

LEMMA NotAppendedStep ==
    ASSUME FooterInv, Footer!NotAppended
    PROVE  FooterInv'
<1>1. /\ Image /\ args.cmd.op \in {"add_hash", "add_hashtree"} /\ step' = "idle" /\ UNCHANGED <<part, hurt>>
      /\ args.cmd.op = "add_hash" => Len(part) = args.orig
      /\ original' = IF args.cmd.op = "add_hashtree" THEN part ELSE original
  BY DEF Footer!NotAppended, Footer!Is, Footer!Op, FooterInv, EndOK
<1>2. CASE args.cmd.op = "add_hash"
  BY <1>1, <1>2, StopsClean DEF FooterInv
<1>3. CASE args.cmd.op = "add_hashtree"
  <2>1. PICK w : w = part OBVIOUS
  <2>2. IsSeq(w) /\ NoFooter(w) /\ hurt \in BOOLEAN /\ Len(w) \in Nat
    BY <1>1, <2>1, LenNat DEF Image
  <2>3. ImageOK(w, w, hurt)
    <3>1. Keeps(w, w) BY <2>2 DEF Keeps
    <3> QED BY <2>2, <3>1, BareOK
  <2>4. part' = w /\ original' = w /\ hurt' = hurt
    BY <1>1, <1>3, <2>1
  <2>5. Clean' BY <2>3, <2>4 DEF Clean
  <2> QED BY <1>1, <2>5 DEF FooterInv
<1> QED BY <1>1, <1>2, <1>3

LEMMA AppendVbmetaStep ==
    ASSUME FooterInv, Footer!AppendVbmeta
    PROVE  FooterInv'
<1>1. step = "append" /\ AppendOK /\ args.cmd \in FooterCommands /\ Image /\ args.cmd.op \in Footer!Adds
  BY DEF Footer!AppendVbmeta, Footer!Is, FooterInv, AppendOK, Ops
<1>2. PICK v : v = args.v OBVIOUS
<1>3. PICK n : n = Len(part) OBVIOUS
<1>4. PICK z : z = Footer!Round(v.size) OBVIOUS
<1>5. /\ part' = part \o Footer!Blob(v) \o Footer!Repeat(Footer!Nul, z - v.size)
      /\ args' = [args EXCEPT !.at = n] /\ step' = "gap" /\ UNCHANGED <<original, hurt>>
  BY <1>2, <1>3, <1>4 DEF Footer!AppendVbmeta, Footer!Goto, Footer!Go
<1>6. /\ IsSeq(part) /\ n \in Nat /\ n % BlockSize = 0 /\ v.size \in Nat \ {0}
      /\ Describes(v, part, n, args.orig)
  BY <1>1, <1>2, <1>3 DEF AppendOK, Image, Aligned
<1>7. z \in Nat /\ v.size <= z /\ z - v.size \in Nat
  <2>1. z \in Nat /\ v.size <= z BY <1>4, <1>6, Rounds
  <2> QED BY <1>6, <2>1
<1>8. args'.at = n /\ args'.v = v /\ args'.cmd = args.cmd /\ args'.orig = args.orig /\ args'.part = args.part
  BY <1>2, <1>5
<1>9. PICK b : b = Footer!Blob(v) OBVIOUS
<1>10. IsSeq(b) /\ Len(b) = v.size /\ \A k \in 1 .. v.size : b[k] = [kind |-> "vbmeta", n |-> k, v |-> v]
  <2>1. b = [k \in 1 .. v.size |-> [kind |-> "vbmeta", n |-> k, v |-> v]]
    BY <1>9 DEF Footer!Blob
  <2>2. b = [k \in 1 .. v.size |-> b[k]] BY <2>1
  <2>3. IsSeq(b) /\ Len(b) = v.size
    BY <1>6, <2>2, MapSeq
  <2> QED BY <2>1, <2>3
<1>11. PICK t : t = Footer!Repeat(Footer!Nul, z - v.size) OBVIOUS
<1>12. IsSeq(t) /\ Len(t) = z - v.size /\ \A k \in 1 .. z - v.size : t[k] = Footer!Nul
  BY <1>7, <1>11, RepSeq
<1>13. PICK y : y = part \o b OBVIOUS
<1>14. /\ IsSeq(y) /\ Len(y) = n + v.size /\ \A k \in 1 .. n : y[k] = part[k]
       /\ \A k \in 1 .. v.size : y[n + k] = b[k]
  <2>1. IsSeq(part) /\ IsSeq(b) BY <1>6, <1>10
  <2>2. /\ IsSeq(part \o b) /\ Len(part \o b) = Len(part) + Len(b)
        /\ \A k \in 1 .. Len(part) : (part \o b)[k] = part[k]
        /\ \A k \in 1 .. Len(b) : (part \o b)[Len(part) + k] = b[k]
    BY <2>1, CatSeq
  <2> QED BY <1>3, <1>10, <1>13, <2>2
<1>15. part' = y \o t BY <1>5, <1>9, <1>11, <1>13
<1>16. /\ IsSeq(part') /\ Len(part') = Len(y) + Len(t) /\ \A k \in 1 .. Len(y) : part'[k] = y[k]
       /\ \A k \in 1 .. Len(t) : part'[Len(y) + k] = t[k]
  <2>1. IsSeq(y) /\ IsSeq(t) BY <1>12, <1>14
  <2>2. /\ IsSeq(y \o t) /\ Len(y \o t) = Len(y) + Len(t)
        /\ \A k \in 1 .. Len(y) : (y \o t)[k] = y[k]
        /\ \A k \in 1 .. Len(t) : (y \o t)[Len(y) + k] = t[k]
    BY <2>1, CatSeq
  <2> QED BY <1>15, <2>2
<1>17. Len(part') = n + z
  BY <1>6, <1>7, <1>12, <1>14, <1>16
<1>18. \A k \in 1 .. n : part'[k] = part[k]
  <2> TAKE k \in 1 .. n
  <2>1. k \in 1 .. Len(y) BY <1>6, <1>14
  <2> QED BY <1>14, <1>16, <2>1
<1>19. \A k \in 1 .. v.size : part'[n + k] = [kind |-> "vbmeta", n |-> k, v |-> v]
  <2> TAKE k \in 1 .. v.size
  <2>1. n + k \in 1 .. Len(y) BY <1>6, <1>14
  <2> QED BY <1>10, <1>14, <1>16, <2>1
<1>20. \A k \in n + 1 .. n + z : part'[k].kind # "footer"
  <2> TAKE k \in n + 1 .. n + z
  <2>1. CASE k <= n + v.size
    <3>1. k - n \in 1 .. v.size /\ n + (k - n) = k
      BY <1>6, <1>7, <2>1
    <3>2. part'[k] = [kind |-> "vbmeta", n |-> k - n, v |-> v]
      BY <1>19, <3>1
    <3> QED BY <3>2
  <2>2. CASE ~ (k <= n + v.size)
    <3>1. PICK j : j = k - (n + v.size) OBVIOUS
    <3>2. j \in 1 .. Len(t) /\ Len(y) + j = k
      <4>1. k - (n + v.size) \in 1 .. z - v.size /\ (n + v.size) + (k - (n + v.size)) = k
        BY <1>6, <1>7, <2>2
      <4>2. Len(y) = n + v.size /\ Len(t) = z - v.size
        BY <1>12, <1>14
      <4> QED BY <3>1, <4>1, <4>2
    <3>3. part'[Len(y) + j] = t[j] BY <1>16, <3>2
    <3>4. part'[k] = Footer!Nul BY <1>12, <3>2, <3>3
    <3> QED BY <3>4, NulUnit
  <2> QED BY <2>1, <2>2
<1>21. Image'
  <2>1. Len(part) <= Len(part')
    BY <1>3, <1>6, <1>7, <1>17
  <2> QED BY <1>1, <1>3, <1>5, <1>8, <1>16, <1>17, <1>18, <1>20, <2>1, ImageGrows
<1>22. StructAt(part', n, v)
  BY <1>4, <1>6, <1>17, <1>19 DEF StructAt, Aligned
<1>23. Describes(v, part', n, args.orig)
  <2>1. n <= Len(part) /\ n <= Len(part') /\ n <= n
    BY <1>3, <1>6, <1>7, <1>17
  <2> QED BY <1>6, <1>16, <1>18, <2>1, DescribesOn
<1>24. GapOK'
  <2>1. args.part \in Nat /\ (Checked(args.cmd) /\ args.part > 0 => n + z + BlockSize <= args.part)
    BY <1>1, <1>2, <1>3, <1>4 DEF AppendOK, Room
  <2>2. Len(part') + 0 + BlockSize = n + z + BlockSize
    BY <1>6, <1>7, <1>17, BlockOK
  <2> QED BY <1>8, <2>1, <2>2 DEF GapOK, Room
<1>25. FooterOK'
  <2>1. StructAt(part, args.at, args.v)' /\ Describes(args.v, part, args.at, args.orig)'
    BY <1>8, <1>22, <1>23 DEF StructAt, Describes
  <2> QED BY <1>1, <1>8, <1>21, <2>1 DEF FooterOK, Ops, Footer!Adds
<1> QED BY <1>5, <1>24, <1>25 DEF FooterInv

LEMMA AppendGapStep ==
    ASSUME FooterInv, Footer!AppendGap, spoilt' = "no"
    PROVE  FooterInv'
<1>1. step = "gap" /\ FooterOK /\ args.part \in Nat /\ Image /\ args.cmd \in FooterCommands
  BY DEF Footer!AppendGap, Footer!Is, FooterInv, FooterOK, GapOK, Ops
<1>2. PICK n : n = Footer!Gap OBVIOUS
<1>3. Len(part) \in Nat /\ IsSeq(part) /\ n \in Int
  <2>1. Len(part) \in Nat /\ IsSeq(part)
    BY <1>1, LenNat DEF Image
  <2> QED BY <1>1, <1>2, <2>1, BlockOK DEF Footer!Gap
<1>a. CASE n < 0 /\ (sparse \/ Len(part) + n < 0)
  <2>1. step' = "idle" /\ part' = Footer!Resized(args.orig) /\ UNCHANGED <<original, hurt>>
    BY <1>2, <1>a DEF Footer!AppendGap, Footer!Restore, Footer!End, Footer!Goto, Footer!Go
  <2> QED BY <1>1, <2>1, Restored DEF FooterInv
<1>b. SUFFICES ASSUME ~ (n < 0 /\ (sparse \/ Len(part) + n < 0)) PROVE FooterInv'
  BY <1>a
<1>5. /\ part' = Footer!Resized(Len(part) + n) /\ step' = "footer" /\ UNCHANGED <<args, original, hurt>>
      /\ n \in Nat
  <2>1. /\ part' = Footer!Resized(Len(part) + n) /\ Footer!Go("footer") /\ UNCHANGED args
        /\ spoilt' = IF n < 0 THEN "cut" ELSE spoilt
    <3>1. ~ (Footer!Gap < 0 /\ (sparse \/ Len(part) + Footer!Gap < 0))
      BY <1>2, <1>b
    <3>2. /\ part' = Footer!Resized(Len(part) + Footer!Gap) /\ Footer!Go("footer") /\ UNCHANGED args
          /\ spoilt' = IF Footer!Gap < 0 THEN "cut" ELSE spoilt
      BY <3>1, Zenon DEF Footer!AppendGap
    <3> QED BY <1>2, <3>2, Zenon
  <2>2. ~ (n < 0) BY <2>1
  <2> QED BY <1>3, <2>1, <2>2 DEF Footer!Go
<1>6. PICK m : m = Len(part) + n OBVIOUS
<1>7. m \in Nat /\ m >= Len(part) BY <1>3, <1>5, <1>6
<1>8. /\ IsSeq(part') /\ Len(part') = m
      /\ \A k \in 1 .. Len(part) : part'[k] = part[k]
      /\ \A k \in Len(part) + 1 .. m : part'[k] = Footer!Nul
  BY <1>3, <1>5, <1>6, <1>7, PadUp
<1>9. Image'
  <2>1. \A k \in Len(part) + 1 .. Len(part') : part'[k].kind # "footer"
    BY <1>8, NulUnit
  <2> QED BY <1>1, <1>5, <1>7, <1>8, <2>1, ImageGrows
<1>10. PICK x, v, o : x = args.at /\ v = args.v /\ o = args.orig OBVIOUS
<1>11. StructAt(part, x, v) /\ Describes(v, part, x, o)
  BY <1>1, <1>10 DEF FooterOK
<1>12. x \in Nat /\ Footer!Round(v.size) \in Nat /\ x + Footer!Round(v.size) <= Len(part)
  BY <1>11, Rounds DEF StructAt, Aligned
<1>13. StructAt(part', x, v)
  <2>1. x + Footer!Round(v.size) <= Len(part')
    BY <1>3, <1>7, <1>8, <1>12
  <2>2. \A k \in 1 .. x + Footer!Round(v.size) : part'[k] = part[k]
    BY <1>3, <1>8, <1>12
  <2> QED BY <1>8, <1>11, <2>1, <2>2, StructOn
<1>14. Describes(v, part', x, o)
  <2>1. x <= Len(part) /\ x <= Len(part') /\ x <= x /\ \A k \in 1 .. x : part'[k] = part[k]
    BY <1>3, <1>7, <1>8, <1>12
  <2> QED BY <1>3, <1>8, <1>11, <1>12, <2>1, DescribesOn
<1>15. FooterOK'
  <2>1. StructAt(part, args.at, args.v)' /\ Describes(args.v, part, args.at, args.orig)'
    BY <1>5, <1>10, <1>13, <1>14 DEF StructAt, Describes
  <2> QED BY <1>1, <1>5, <1>9, <2>1 DEF FooterOK, Ops, Footer!Adds
<1> QED BY <1>5, <1>15 DEF FooterInv

LEMMA AppendFooterStep ==
    ASSUME FooterInv, Footer!AppendFooter
    PROVE  FooterInv'
<1>1. step = "footer" /\ FooterOK /\ Image /\ args.cmd \in FooterCommands
  BY DEF Footer!AppendFooter, Footer!Is, FooterInv, FooterOK, Ops
<1>2. PICK x, v, m : x = args.at /\ v = args.v /\ m = args.orig OBVIOUS
<1>3. PICK f : f = Footer!Footer(m, x, v.size) OBVIOUS
<1>4. f.kind = "footer" /\ f.orig = m /\ f.at = x /\ f.size = v.size
  BY <1>3 DEF Footer!Footer
<1>5. PICK t : t = Footer!Repeat(Footer!Nul, BlockSize - 1) OBVIOUS
<1>6. IsSeq(t) /\ Len(t) = BlockSize - 1 /\ \A k \in 1 .. BlockSize - 1 : t[k] = Footer!Nul
  <2>1. BlockSize - 1 \in Nat BY BlockOK
  <2> QED BY <1>5, <2>1, RepSeq
<1>7. part' = part \o t \o <<f>> /\ step' = "idle" /\ UNCHANGED <<original, hurt>>
  BY <1>2, <1>3, <1>5 DEF Footer!AppendFooter, Footer!End, Footer!Goto, Footer!Go
<1>8. /\ IsSeq(part) /\ IsSeq(original) /\ Keeps(part, original) /\ NoFooter(part) /\ hurt \in BOOLEAN
      /\ m \in Nat /\ Len(original) <= m /\ m <= Len(part) /\ (~ hurt => m = Len(original))
      /\ Len(part) \in Nat /\ Len(original) \in Nat
  BY <1>1, <1>2, LenNat DEF Image
<1>9. PICK y : y = part \o t OBVIOUS
<1>10. PICK n : n = Len(part) OBVIOUS
<1>11. /\ IsSeq(y) /\ Len(y) = n + (BlockSize - 1) /\ \A k \in 1 .. n : y[k] = part[k]
       /\ \A k \in 1 .. BlockSize - 1 : y[n + k] = Footer!Nul
  BY <1>6, <1>8, <1>9, <1>10, CatSeq, SMTT(30)
<1>12. PICK w : w = part' OBVIOUS
<1>13. IsSeq(<<f>>) /\ Len(<<f>>) = 1 /\ <<f>>[1] = f
  <2>1. <<f>> \in Seq({f}) OBVIOUS
  <2> QED BY <2>1 DEF IsSeq
<1>14. /\ IsSeq(w) /\ Len(w) = Len(y) + 1 /\ \A k \in 1 .. Len(y) : w[k] = y[k]
       /\ w[Len(y) + 1] = f
  <2>1. w = y \o <<f>> BY <1>7, <1>9, <1>12
  <2>2. PICK q : q = <<f>> OBVIOUS
  <2>3. IsSeq(q) /\ Len(q) = 1 /\ q[1] = f /\ w = y \o q
    BY <1>13, <2>1, <2>2
  <2>4. /\ IsSeq(y \o q) /\ Len(y \o q) = Len(y) + Len(q) /\ \A k \in 1 .. Len(y) : (y \o q)[k] = y[k]
        /\ \A k \in 1 .. Len(q) : (y \o q)[Len(y) + k] = q[k]
    <3>1. IsSeq(y) /\ IsSeq(q) BY <1>11, <2>3
    <3> QED BY <3>1, CatSeq
  <2> QED BY <2>3, <2>4
<1>15. Len(w) = n + BlockSize /\ n \in Nat /\ Len(w) \in Nat
  BY <1>8, <1>10, <1>11, <1>14, BlockOK
<1>16. w[Len(w)] = f BY <1>14, LenNat, <1>11
<1>17. \A k \in 1 .. n : w[k] = part[k]
  <2> TAKE k \in 1 .. n
  <2>1. k \in 1 .. Len(y) BY <1>11, <1>15, BlockOK
  <2> QED BY <1>11, <1>14, <2>1
<1>18. NoneInside(w)
  <2>1. \A k \in 1 .. Len(w) : k # Len(w) => w[k].kind # "footer"
    <3> TAKE k \in 1 .. Len(w)
    <3>1. CASE k <= n
      BY <1>8, <1>10, <1>15, <1>17, <3>1 DEF NoFooter
    <3>2. CASE n < k /\ k # Len(w)
      <4>1. k - n \in 1 .. BlockSize - 1 /\ n + (k - n) = k /\ k \in 1 .. Len(y)
        BY <1>11, <1>15, <3>2, BlockOK
      <4>2. w[k] = Footer!Nul BY <1>11, <1>14, <4>1
      <4> QED BY <4>2, NulUnit
    <3> QED BY <1>15, <3>1, <3>2
  <2> QED BY <2>1 DEF NoneInside
<1>19. Keeps(w, original)
  <2>1. \A k \in 1 .. Len(original) : k \in 1 .. n /\ part[k] = original[k]
    BY <1>8, <1>10 DEF Keeps
  <2>2. Len(original) <= Len(w)
    BY <1>8, <1>10, <1>15, BlockOK
  <2> QED BY <1>17, <2>1, <2>2 DEF Keeps
<1>20. StructAt(part, x, v) /\ Describes(v, part, x, m)
  BY <1>1, <1>2 DEF FooterOK
<1>21. x \in Nat /\ Footer!Round(v.size) \in Nat /\ x + Footer!Round(v.size) <= n /\ 1 \in 1 .. v.size
  BY <1>10, <1>20, Rounds DEF StructAt, Aligned
<1>22. StructAt(w, x, v)
  <2>1. x + Footer!Round(v.size) <= Len(w)
    BY <1>15, <1>21, BlockOK
  <2>2. \A k \in 1 .. x + Footer!Round(v.size) : w[k] = part[k]
    BY <1>15, <1>17, <1>21
  <2> QED BY <1>14, <1>20, <2>1, <2>2, StructOn
<1>23. Describes(v, w, x, m)
  <2>1. x <= Len(part) /\ x <= Len(w) /\ x <= x /\ \A k \in 1 .. x : w[k] = part[k]
    BY <1>10, <1>15, <1>17, <1>21, BlockOK
  <2> QED BY <1>8, <1>14, <1>20, <1>21, <2>1, DescribesOn
<1>24. w[x + 1].v = v
  <2>1. w[x + 1] = [kind |-> "vbmeta", n |-> 1, v |-> v]
    BY <1>21, <1>22 DEF StructAt
  <2> QED BY <2>1
<1>25. Points(w, f, v)
  <2>1. x + Footer!Round(v.size) + BlockSize <= Len(w)
    BY <1>15, <1>21, BlockOK
  <2> QED BY <1>4, <1>22, <1>23, <2>1 DEF Points
<1>26. EndsInFooter(w)
  <2>1. w # << >> BY <1>14, <1>15, LenNat, BlockOK
  <2> QED BY <1>4, <1>16, <2>1 DEF EndsInFooter
<1>27. ImageOK(w, original, hurt)
  BY <1>4, <1>8, <1>14, <1>16, <1>18, <1>19, <1>24, <1>25 DEF ImageOK
<1>28. Clean' BY <1>7, <1>12, <1>26, <1>27 DEF Clean
<1> QED BY <1>7, <1>28 DEF FooterInv

\* The facts of a footer, for the image as it is.
LEMMA ReadFooter ==
    ASSUME ImageOK(part, original, hurt), EndsInFooter(part),
           NEW f, f = Footer!Current, NEW v, v = Footer!Parsed
    PROVE  /\ f = part[Len(part)] /\ v = part[f.at + 1].v
           /\ f.orig \in Nat /\ f.at \in Nat /\ f.at % BlockSize = 0 /\ f.size \in Nat \ {0} /\ f.size = v.size
           /\ f.orig <= f.at /\ Len(original) <= f.orig /\ f.at < Len(part)
           /\ Footer!Round(f.size) \in Nat /\ f.at + Footer!Round(f.size) + BlockSize <= Len(part)
           /\ f.size <= Footer!Round(f.size)
           /\ (~ hurt => f.orig = Len(original))
           /\ StructAt(part, f.at, v) /\ Describes(v, part, f.at, f.orig)
<1>1. f = part[Len(part)] BY DEF Footer!Current
<1>2. v = part[f.at + 1].v BY ParsedIt
<1> QED BY <1>1, <1>2, FooterFacts

\* The image is cut before its last unit, and not into what was there at first.
LEMMA CutImage ==
    ASSUME NEW o, NEW h, ImageOK(part, o, h), NEW n \in Nat, Len(o) <= n, n < Len(part),
           NEW w, w = Footer!Resized(n)
    PROVE  /\ IsSeq(w) /\ Len(w) = n /\ (\A k \in 1 .. n : w[k] = part[k])
           /\ Keeps(w, o) /\ NoFooter(w)
<1>1. /\ IsSeq(part) /\ IsSeq(o) /\ Keeps(part, o) /\ NoneInside(part)
      /\ Len(part) \in Nat /\ Len(o) \in Nat
  BY LenNat DEF ImageOK
<1>2. IsSeq(w) /\ Len(w) = n /\ \A k \in 1 .. n : w[k] = part[k]
  BY <1>1, CutDown
<1>3. Keeps(w, o)
  <2>1. \A k \in 1 .. Len(o) : k \in 1 .. n /\ part[k] = o[k]
    BY <1>1 DEF Keeps
  <2> QED BY <1>2, <2>1 DEF Keeps
<1>4. NoFooter(w)
  <2>1. \A k \in 1 .. n : k \in 1 .. Len(part) /\ k # Len(part)
    BY <1>1
  <2> QED BY <1>1, <1>2, <2>1 DEF NoneInside, NoFooter
<1> QED BY <1>2, <1>3, <1>4

LEMMA ResizeStep ==
    ASSUME FooterInv, Footer!Resize
    PROVE  FooterInv'
<1>1. step = "open" /\ Clean /\ args.cmd \in FooterCommands /\ args.cmd.op = "resize" /\ ImageOK(part, original, hurt)
  BY DEF Footer!Resize, Footer!Is, Footer!Op, FooterInv, OpenOK, Clean
<1>2. CASE Footer!Raise
  <2>1. step' = "idle" /\ UNCHANGED <<part, original, hurt>>
    BY <1>2 DEF Footer!Raise, Footer!End, Footer!Goto, Footer!Go
  <2> QED BY <1>1, <2>1, CleanStays DEF FooterInv
<1>3. CASE ~ (\/ args.cmd.part % BlockSize # 0 \/ Footer!Parsed = Footer!NoVbmeta
              \/ args.cmd.part < Footer!Round(Footer!Current.at + Footer!Current.size) + BlockSize)
  <2>1. EndsInFooter(part) BY <1>1, <1>3, ParsedIt
  <2>2. PICK f, v, n : f = Footer!Current /\ v = Footer!Parsed /\ n = Footer!VbmetaEnd OBVIOUS
  <2>3. /\ f = part[Len(part)] /\ v = part[f.at + 1].v
        /\ f.orig \in Nat /\ f.at \in Nat /\ f.at % BlockSize = 0 /\ f.size \in Nat \ {0} /\ f.size = v.size
        /\ f.orig <= f.at /\ Len(original) <= f.orig /\ f.at < Len(part)
        /\ Footer!Round(f.size) \in Nat /\ f.at + Footer!Round(f.size) + BlockSize <= Len(part)
        /\ f.size <= Footer!Round(f.size)
        /\ (~ hurt => f.orig = Len(original))
        /\ StructAt(part, f.at, v) /\ Describes(v, part, f.at, f.orig)
    BY <1>1, <2>1, <2>2, ReadFooter
  <2>4. n = f.at + Footer!Round(f.size)
    <3>1. n = Footer!Round(f.at + f.size)
      BY <2>2 DEF Footer!VbmetaEnd
    <3>2. f.size \in Nat BY <2>3
    <3> QED BY <2>3, <3>1, <3>2, RoundBehind
  <2>5. /\ part' = Footer!Resized(n) /\ step' = "gap" /\ UNCHANGED <<original, hurt>>
        /\ args' = [args EXCEPT !.orig = f.orig, !.at = f.at, !.v = v, !.part = args.cmd.part]
    BY <1>3, <2>2 DEF Footer!Resize, Footer!Goto, Footer!Go
  <2>6. args'.orig = f.orig /\ args'.at = f.at /\ args'.v = v /\ args'.part = args.cmd.part /\ args'.cmd = args.cmd
    BY <2>5
  <2>7. IsSeq(original) /\ hurt \in BOOLEAN /\ Len(original) \in Nat /\ Len(part) \in Nat
    BY <1>1, LenNat DEF ImageOK
  <2>8. n \in Nat /\ Len(original) <= n /\ n < Len(part) /\ f.at <= n
    BY <2>3, <2>4, <2>7, BlockOK, SMTT(30)
  <2>9. PICK w : w = part' OBVIOUS
  <2>10. /\ IsSeq(w) /\ Len(w) = n /\ (\A k \in 1 .. n : w[k] = part[k])
         /\ Keeps(w, original) /\ NoFooter(w)
    BY <1>1, <2>5, <2>8, <2>9, CutImage
  <2>11. Image'
    <3>1. f.orig <= n BY <2>3, <2>8
    <3> QED BY <2>3, <2>5, <2>6, <2>7, <2>9, <2>10, <3>1 DEF Image
  <2>12. StructAt(w, f.at, v)
    <3>1. f.at + Footer!Round(v.size) = n BY <2>3, <2>4
    <3> QED BY <2>3, <2>10, <3>1, StructOn, <2>8
  <2>13. Describes(v, w, f.at, f.orig)
    <3>1. IsSeq(part) /\ f.at <= Len(part) /\ f.at <= Len(w) /\ f.at <= f.at /\ \A k \in 1 .. f.at : w[k] = part[k]
      BY <1>1, <2>3, <2>7, <2>8, <2>10 DEF ImageOK
    <3> QED BY <2>3, <2>10, <3>1, DescribesOn
  <2>14. FooterOK'
    <3>1. StructAt(part, args.at, args.v)' /\ Describes(args.v, part, args.at, args.orig)'
      BY <2>6, <2>9, <2>12, <2>13 DEF StructAt, Describes
    <3> QED BY <1>1, <2>6, <2>11, <3>1 DEF FooterOK, Ops
  <2>15. GapOK'
    <3>1. args.cmd.part \in Nat BY <1>1, CommandOK
    <3>2. n + BlockSize <= args.cmd.part
      <4>1. ~ (args.cmd.part < n + BlockSize)
        BY <1>3, <2>2 DEF Footer!VbmetaEnd
      <4> QED BY <2>8, <3>1, <4>1, BlockOK
    <3> QED BY <2>6, <2>8, <2>9, <2>10, <3>1, <3>2, BlockOK DEF GapOK, Room
  <2> QED BY <2>5, <2>14, <2>15 DEF FooterInv
<1>4. QED
  <2>1. (\/ args.cmd.part % BlockSize # 0 \/ Footer!Parsed = Footer!NoVbmeta
            \/ args.cmd.part < Footer!Round(Footer!Current.at + Footer!Current.size) + BlockSize) => Footer!Raise
    BY DEF Footer!Resize
  <2> QED BY <1>2, <1>3, <2>1

LEMMA EraseStep ==
    ASSUME FooterInv, Footer!Erase
    PROVE  FooterInv'
<1>1. step = "open" /\ Clean /\ ImageOK(part, original, hurt) /\ step' = "idle" /\ hurt' = hurt
  BY DEF Footer!Erase, Footer!Is, FooterInv, OpenOK, Clean
<1>2. CASE UNCHANGED <<part, original>>
  BY <1>1, <1>2, CleanStays DEF FooterInv
<1>3. CASE ~ (Footer!Parsed = Footer!NoVbmeta \/ (args.cmd.keep /\ Footer!Parsed.desc # "tree"))
  <2>1. EndsInFooter(part) BY <1>1, <1>3, ParsedIt
  <2>2. PICK f, v, n : f = Footer!Current /\ v = Footer!Parsed /\ n = IF args.cmd.keep THEN Footer!TreeEnd(v) ELSE f.orig
    OBVIOUS
  <2>3. /\ f.orig \in Nat /\ f.at \in Nat
        /\ f.orig <= f.at /\ Len(original) <= f.orig /\ f.at < Len(part)
        /\ (~ hurt => f.orig = Len(original))
        /\ Describes(v, part, f.at, f.orig)
    BY <1>1, <2>1, <2>2, ReadFooter
  <2>4. part' = Footer!Resized(n) /\ original' = IF args.cmd.keep THEN part' ELSE original
    BY <1>3, <2>2 DEF Footer!Erase
  <2>5. IsSeq(original) /\ hurt \in BOOLEAN /\ Len(original) \in Nat /\ Len(part) \in Nat
    BY <1>1, LenNat DEF ImageOK
  <2>6. n \in Nat /\ Len(original) <= n /\ n < Len(part)
    <3>1. CASE args.cmd.keep
      <4>1. v.desc = "tree" BY <1>3, <2>2, <3>1
      <4>2. f.orig <= Len(v.hashed) /\ Footer!TreeEnd(v) <= f.at /\ (v.fecAt > 0 => v.fecAt = Len(v.hashed) + v.tree)
        BY <2>3, <4>1 DEF Describes
      <4>3. IsSeq(v.hashed) /\ v.fecAt \in Nat /\ v.fec \in Nat /\ v.tree \in Nat
        BY <2>3 DEF Describes
      <4>4. Len(v.hashed) \in Nat BY <4>3, LenNat
      <4>5. Footer!TreeEnd(v) \in Nat /\ Len(v.hashed) <= Footer!TreeEnd(v)
        BY <4>2, <4>3, <4>4 DEF Footer!TreeEnd
      <4> QED BY <2>2, <2>3, <2>5, <3>1, <4>2, <4>4, <4>5
    <3>2. CASE ~ args.cmd.keep BY <2>2, <2>3, <2>5, <3>2
    <3> QED BY <3>1, <3>2
  <2>7. PICK w : w = part' OBVIOUS
  <2>8. /\ IsSeq(w) /\ Len(w) = n /\ (\A k \in 1 .. n : w[k] = part[k])
        /\ Keeps(w, original) /\ NoFooter(w)
    BY <1>1, <2>4, <2>6, <2>7, CutImage
  <2>9. PICK o : o = original' OBVIOUS
  <2>10. IsSeq(o) /\ Keeps(w, o) /\ (~ hurt => Len(w) = Len(o))
    <3>1. CASE args.cmd.keep
      BY <2>4, <2>6, <2>7, <2>8, <2>9, <3>1 DEF Keeps
    <3>2. CASE ~ args.cmd.keep
      BY <2>2, <2>3, <2>4, <2>5, <2>8, <2>9, <3>2
    <3> QED BY <3>1, <3>2
  <2>11. ImageOK(w, o, hurt) /\ (~ hurt /\ ~ EndsInFooter(w) => w = o)
    BY <2>5, <2>8, <2>10, BareClean
  <2>12. Clean' BY <1>1, <2>7, <2>9, <2>11 DEF Clean
  <2> QED BY <1>1, <2>12 DEF FooterInv
<1> QED BY <1>2, <1>3 DEF Footer!Erase

LEMMA OneSeq == ASSUME NEW u PROVE IsSeq(<<u>>) /\ Len(<<u>>) = 1 /\ <<u>>[1] = u
<1>1. <<u>> \in Seq({u}) OBVIOUS
<1> QED BY <1>1 DEF IsSeq

LEMMA RestSeq ==
    ASSUME NEW s, IsSeq(s), s # << >>
    PROVE  /\ IsSeq(Tail(s)) /\ Len(s) \in Nat \ {0} /\ Len(Tail(s)) = Len(s) - 1 /\ Head(s) = s[1]
           /\ \A k \in 1 .. Len(s) - 1 : Tail(s)[k] = s[k + 1]
<1>1. PICK S : s \in Seq(S) BY DEF IsSeq
<1>2. Tail(s) \in Seq(S) /\ Len(s) \in Nat \ {0} /\ Len(Tail(s)) = Len(s) - 1 /\ Head(s) = s[1]
  BY <1>1
<1>3. \A k \in 1 .. Len(s) - 1 : Tail(s)[k] = s[k + 1]
  BY <1>1
<1> QED BY <1>2, <1>3 DEF IsSeq

\* What zero_hashtree writes over n units.
LEMMA ZeroPieces ==
    ASSUME NEW n \in Nat, n >= BlockSize, NEW b, b = Footer!ZeroBlocks(n)
    PROVE  /\ IsSeq(b) /\ Len(b) = 2 /\ IsSeq(b[1]) /\ Len(b[1]) = BlockSize
           /\ b[1][1] = Footer!Zeroed /\ (\A k \in 2 .. BlockSize : b[1][k] = Footer!Nul)
           /\ IsSeq(b[2]) /\ Len(b[2]) = n - BlockSize
           /\ \A k \in 1 .. n - BlockSize : b[2][k] = Footer!Nul
<1>1. BlockSize - 1 \in Nat /\ n - BlockSize \in Nat
  BY BlockOK
<1>2. PICK q, s, t : q = <<Footer!Zeroed>> /\ s = Footer!Repeat(Footer!Nul, BlockSize - 1)
                     /\ t = Footer!Repeat(Footer!Nul, n - BlockSize)
  OBVIOUS
<1>3. IsSeq(q) /\ Len(q) = 1 /\ q[1] = Footer!Zeroed
  BY <1>2, OneSeq
<1>4. IsSeq(s) /\ Len(s) = BlockSize - 1 /\ \A k \in 1 .. BlockSize - 1 : s[k] = Footer!Nul
  BY <1>1, <1>2, RepSeq
<1>5. IsSeq(t) /\ Len(t) = n - BlockSize /\ \A k \in 1 .. n - BlockSize : t[k] = Footer!Nul
  BY <1>1, <1>2, RepSeq
<1>6. PICK h : h = q \o s OBVIOUS
<1>7. /\ IsSeq(h) /\ Len(h) = Len(q) + Len(s) /\ (\A k \in 1 .. Len(q) : h[k] = q[k])
      /\ \A k \in 1 .. Len(s) : h[Len(q) + k] = s[k]
  <2>1. IsSeq(q) /\ IsSeq(s) BY <1>3, <1>4
  <2>2. /\ IsSeq(q \o s) /\ Len(q \o s) = Len(q) + Len(s) /\ (\A k \in 1 .. Len(q) : (q \o s)[k] = q[k])
        /\ \A k \in 1 .. Len(s) : (q \o s)[Len(q) + k] = s[k]
    BY <2>1, CatSeq
  <2> QED BY <1>6, <2>2
<1>8. IsSeq(h) /\ Len(h) = BlockSize /\ h[1] = Footer!Zeroed
  BY <1>3, <1>4, <1>7, BlockOK
<1>9. \A k \in 2 .. BlockSize : h[k] = Footer!Nul
  <2> TAKE k \in 2 .. BlockSize
  <2>1. k - 1 \in 1 .. BlockSize - 1 /\ 1 + (k - 1) = k
    BY BlockOK
  <2> QED BY <1>3, <1>4, <1>7, <2>1
<1>10. b = <<h, t>> BY <1>2, <1>6 DEF Footer!ZeroBlocks
<1>11. IsSeq(b) /\ Len(b) = 2 /\ b[1] = h /\ b[2] = t
  <2>1. <<h, t>> \in Seq({h, t}) /\ Len(<<h, t>>) = 2 /\ <<h, t>>[1] = h /\ <<h, t>>[2] = t
    OBVIOUS
  <2>2. IsSeq(<<h, t>>) BY <2>1, Zenon DEF IsSeq
  <2> QED BY <1>10, <2>1, <2>2
<1> QED BY <1>5, <1>8, <1>9, <1>11

\* zero_hashtree writes the image w again from here.
LEMMA ZeroHashtreeStep ==
    ASSUME FooterInv, Footer!ZeroHashtree, spoilt' = "no"
    PROVE  FooterInv'
<1>1. /\ step = "open" /\ Clean /\ args.cmd \in FooterCommands /\ args.cmd.op = "zero"
      /\ ImageOK(part, original, hurt)
  BY DEF Footer!ZeroHashtree, Footer!Is, Footer!Op, FooterInv, OpenOK, Clean
<1>2. CASE Footer!Parsed.desc # "tree"
  <2>1. step' = "idle" /\ UNCHANGED <<part, original, hurt>>
    BY <1>2 DEF Footer!ZeroHashtree, Footer!Raise, Footer!End, Footer!Goto, Footer!Go
  <2> QED BY <1>1, <2>1, CleanStays DEF FooterInv
<1>3. CASE Footer!Parsed.desc = "tree"
  <2>1. EndsInFooter(part)
    BY <1>1, <1>3, ParsedIt DEF Footer!NoVbmeta
  <2>2. PICK f, v : f = Footer!Current /\ v = Footer!Parsed OBVIOUS
  <2>3. /\ f = part[Len(part)] /\ v = part[f.at + 1].v
        /\ f.orig \in Nat /\ f.at \in Nat /\ f.size = v.size
        /\ f.orig <= f.at /\ Len(original) <= f.orig /\ f.at < Len(part)
        /\ Footer!Round(f.size) \in Nat /\ f.at + Footer!Round(f.size) + BlockSize <= Len(part)
        /\ (~ hurt => f.orig = Len(original))
        /\ StructAt(part, f.at, v) /\ Describes(v, part, f.at, f.orig)
    BY <1>1, <2>1, <2>2, ReadFooter
  <2>0. ~ Footer!Empty(Footer!Parsed) /\ ~ (Footer!Empty(Footer!Parsed) /\ sparse)
    BY <1>3 DEF Footer!ZeroHashtree, Footer!Tear
  <2>4. v.desc = "tree" /\ v.tree # 0
    BY <1>3, <2>0, <2>2 DEF Footer!Empty
  <2>5. PICK L, N, E, z, q, x, y, m : /\ L = Len(v.hashed) /\ N = Len(part) /\ E = Footer!TreeEnd(v)
                                      /\ z = v.tree /\ q = v.fec /\ x = f.at /\ y = v.fecAt /\ m = f.orig
    OBVIOUS
  <2>6. IsSeq(v.hashed) /\ v.tree \in Nat /\ v.fecAt \in Nat /\ v.fec \in Nat /\ L \in Nat /\ N \in Nat
        /\ IsSeq(part) /\ IsSeq(original) /\ Len(original) \in Nat /\ hurt \in BOOLEAN
        /\ Keeps(part, v.hashed) /\ L <= x /\ x \in Nat /\ y \in Nat /\ x < N /\ m \in Nat /\ Len(original) <= m
    BY <1>1, <2>3, <2>5, LenNat DEF Describes, ImageOK
  <2>7. /\ m <= L /\ E <= x /\ z >= BlockSize /\ z \in Nat
        /\ y > 0 => y = L + z /\ q >= BlockSize /\ E = L + z + q
        /\ y = 0 => E = L + z
        /\ y + q <= x /\ q \in Nat
    <3>1. /\ f.orig <= Len(v.hashed) /\ Footer!TreeEnd(v) <= f.at
          /\ v.tree > 0 => v.tree >= BlockSize
          /\ v.fecAt > 0 => v.fecAt = Len(v.hashed) + v.tree
          /\ v.fecAt > 0 /\ v.tree > 0 => v.fec >= BlockSize
          /\ v.fecAt + v.fec <= f.at
      BY <2>3, <2>4 DEF Describes
    <3>2. v.tree > 0 BY <2>4, <2>6
    <3> QED BY <2>5, <2>6, <3>1, <3>2, SMTT(30) DEF Footer!TreeEnd
  <2>8. E \in Nat /\ L + z <= E /\ E < N /\ L + BlockSize <= L + z
    BY <2>6, <2>7, BlockOK
  <2>9. PICK w : w = [k \in 1 .. N |->
                         IF k = L + 1 \/ (y > 0 /\ k = L + z + 1) THEN Footer!Zeroed
                         ELSE IF L < k /\ k <= E THEN Footer!Nul ELSE part[k]]
    OBVIOUS
  <2>10. IsSeq(w) /\ Len(w) = N
    <3>1. w = [k \in 1 .. N |-> w[k]] BY <2>9
    <3> QED BY <2>6, <3>1, MapSeq
  <2>11. \A k \in 1 .. N : k <= L \/ E < k => w[k] = part[k]
    <3> TAKE k \in 1 .. N
    <3> SUFFICES ASSUME k <= L \/ E < k PROVE w[k] = part[k] OBVIOUS
    <3>1. ~ (k = L + 1 \/ (y > 0 /\ k = L + z + 1)) /\ ~ (L < k /\ k <= E)
      BY <2>6, <2>7, <2>8, BlockOK
    <3> QED BY <2>9, <3>1
  <2>12. \A k \in 1 .. N : w[k] = part[k] \/ w[k].kind \in {"zeroed", "nul"}
    BY <2>9 DEF Footer!Zeroed, Footer!Nul
  <2>13. \A k \in L + 1 .. E : w[k].kind \in {"zeroed", "nul"}
    BY <2>6, <2>8, <2>9 DEF Footer!Zeroed, Footer!Nul
  <2>14. Keeps(w, original)
    <3>1. Keeps(part, original) BY <1>1 DEF ImageOK
    <3>2. \A k \in 1 .. Len(original) : k \in 1 .. N /\ k <= L /\ part[k] = original[k]
      <4>1. \A k \in 1 .. Len(original) : part[k] = original[k]
        BY <3>1 DEF Keeps
      <4>2. Len(original) <= L /\ Len(original) <= N
        BY <2>6, <2>7
      <4> QED BY <2>6, <4>1, <4>2
    <3>3. Len(original) <= Len(w)
      BY <2>5, <2>10, <3>1 DEF Keeps
    <3> QED BY <2>11, <3>2, <3>3 DEF Keeps
  <2>15. NoneInside(w)
    <3>1. NoneInside(part) BY <1>1 DEF ImageOK
    <3> QED BY <2>5, <2>10, <2>12, <3>1 DEF NoneInside
  <2>16. w[N] = f /\ w[f.at + 1] = part[f.at + 1] /\ EndsInFooter(w)
    <3>0. N \in 1 .. N /\ E < N /\ x + 1 \in 1 .. N /\ E < x + 1
      BY <2>6, <2>7, <2>8
    <3>1. N \in 1 .. N /\ E < N /\ f.at + 1 \in 1 .. N /\ E < f.at + 1
      BY <2>5, <3>0
    <3>2. w[N] = part[N] /\ w[f.at + 1] = part[f.at + 1]
      BY <2>11, <3>1
    <3>3. w # << >> /\ part[N].kind = "footer"
      BY <2>1, <2>5, <2>10, <3>1, LenNat DEF EndsInFooter
    <3> QED BY <2>3, <2>5, <2>10, <3>2, <3>3 DEF EndsInFooter
  <2>17. StructAt(w, f.at, v)
    <3>1. Aligned(f.at) /\ v.size \in Nat \ {0} /\ f.at + Footer!Round(v.size) <= N
          /\ \A k \in 1 .. v.size : part[f.at + k] = [kind |-> "vbmeta", n |-> k, v |-> v]
      BY <2>3, <2>5 DEF StructAt
    <3>2. \A k \in 1 .. v.size : f.at + k \in 1 .. N /\ E < f.at + k
      <4>1. Footer!Round(v.size) \in Nat /\ v.size <= Footer!Round(v.size)
        BY <3>1, Rounds
      <4>2. PICK u, r : u = v.size /\ r = Footer!Round(v.size) OBVIOUS
      <4>3. r \in Nat /\ u \in Nat /\ u <= r /\ x + r <= N
        BY <2>5, <3>1, <4>1, <4>2
      <4>4. \A k \in 1 .. u : x + k \in 1 .. N /\ E < x + k
        BY <2>6, <2>7, <2>8, <4>3
      <4> QED BY <2>5, <4>2, <4>4
    <3>3. \A k \in 1 .. v.size : w[f.at + k] = part[f.at + k]
      BY <2>11, <3>2
    <3> QED BY <2>10, <3>1, <3>3, SMTT(30) DEF StructAt
  <2>18. Describes(v, w, f.at, f.orig)
    <3>1. Keeps(w, v.hashed)
      <4>1. \A k \in 1 .. Len(v.hashed) : k \in 1 .. N /\ k <= L /\ part[k] = v.hashed[k]
        BY <2>5, <2>6, <2>7, <2>8 DEF Keeps
      <4>2. Len(v.hashed) <= Len(w)
        BY <2>5, <2>6, <2>8, <2>10
      <4> QED BY <2>11, <4>1, <4>2 DEF Keeps
    <3>2. \A k \in Len(v.hashed) + 1 .. Len(v.hashed) + v.tree : w[k].kind \in {"tree", "zeroed", "nul"}
      <4> TAKE k \in Len(v.hashed) + 1 .. Len(v.hashed) + v.tree
      <4>1. k \in L + 1 .. E
        BY <2>5, <2>6, <2>8, SMTT(30)
      <4> QED BY <2>13, <4>1
    <3>3. \A k \in v.fecAt + 1 .. v.fecAt + v.fec : w[k].kind \in {"fec", "zeroed", "nul"}
      <4>1. \A k \in v.fecAt + 1 .. v.fecAt + v.fec : part[k].kind \in {"fec", "zeroed", "nul"}
        BY <2>3, <2>4 DEF Describes
      <4> TAKE k \in v.fecAt + 1 .. v.fecAt + v.fec
      <4>2. k \in 1 .. N
        <5>1. k \in y + 1 .. y + q BY <2>5
        <5> QED BY <2>6, <2>7, <5>1
      <4>3. w[k] = part[k] \/ w[k].kind \in {"zeroed", "nul"}
        BY <2>12, <4>2, SMTT(30)
      <4> QED BY <4>1, <4>3
    <3>4. /\ v.desc \in {"none", "hash", "tree"} /\ f.orig \in Nat /\ f.orig <= f.at
          /\ IsSeq(v.hashed) /\ Len(v.hashed) <= f.at
          /\ v.tree \in Nat /\ v.fecAt \in Nat /\ v.fec \in Nat
          /\ v.desc = "hash" => Len(v.hashed) = f.orig
      BY <2>3 DEF Describes
    <3>5. /\ f.orig <= Len(v.hashed) /\ Footer!TreeEnd(v) <= f.at
          /\ v.tree > 0 => v.tree >= BlockSize
          /\ v.fecAt > 0 => v.fecAt = Len(v.hashed) + v.tree
          /\ v.fecAt > 0 /\ v.tree > 0 => v.fec >= BlockSize
          /\ v.fecAt + v.fec <= f.at
      BY <2>3, <2>4 DEF Describes
    <3> QED BY <3>1, <3>2, <3>3, <3>4, <3>5 DEF Describes
  <2>19. ImageOK(w, original, hurt)
    <3>1. Points(w, f, v)
      BY <2>3, <2>5, <2>10, <2>17, <2>18 DEF Points
    <3>2. w[Len(w)] = f /\ w[f.at + 1].v = v
      BY <2>3, <2>10, <2>16
    <3>3. Points(w, w[Len(w)], w[w[Len(w)].at + 1].v)
      BY <3>1, <3>2
    <3>4. IsSeq(w) /\ IsSeq(original) /\ Keeps(w, original) /\ NoneInside(w) /\ hurt \in BOOLEAN
      BY <2>3, <2>6, <2>10, <2>14, <2>15
    <3>5. Len(original) <= w[Len(w)].orig /\ (~ hurt => w[Len(w)].orig = Len(original))
      BY <2>3, <2>6, <3>2
    <3> QED BY <3>3, <3>4, <3>5 DEF ImageOK
  <2>20. PICK s : s = SubSeq(part, E + 1, N) OBVIOUS
  <2>21. IsSeq(s) /\ Len(s) = N - E /\ \A k \in 1 .. N - E : s[k] = part[E + k]
    BY <2>5, <2>6, <2>8, <2>20, MidSeq, SMTT(30)
  <2>22. PICK b, c2, d : /\ b = Footer!ZeroBlocks(z) /\ c2 = IF y > 0 THEN Footer!ZeroBlocks(q) ELSE << >>
                         /\ d = <<s>>
    OBVIOUS
  <2>23. PICK todo : todo = b \o c2 \o d OBVIOUS
  <2>24. /\ part' = Footer!Resized(L) /\ step' = "write" /\ UNCHANGED <<original, hurt>>
         /\ args' = [args EXCEPT !.todo = todo]
    BY <1>3, <2>0, <2>2, <2>5, <2>20, <2>22, <2>23 DEF Footer!ZeroHashtree, Footer!Go
  <2>25. IsSeq(part') /\ Len(part') = L /\ \A k \in 1 .. L : part'[k] = part[k]
    BY <2>5, <2>6, <2>8, <2>24, CutDown
  <2>26. Keeps(w, part')
    <3>1. \A k \in 1 .. L : k \in 1 .. N BY <2>6, <2>8
    <3>2. L <= N BY <2>6, <2>8
    <3>3. \A k \in 1 .. L : w[k] = part[k]
      BY <2>11, <3>1
    <3> QED BY <2>10, <2>25, <3>2, <3>3 DEF Keeps
  <2>27. \E p : Pieces(w, p, todo, L)
    <3>1. /\ IsSeq(b) /\ Len(b) = 2 /\ IsSeq(b[1]) /\ Len(b[1]) = BlockSize
          /\ b[1][1] = Footer!Zeroed /\ (\A k \in 2 .. BlockSize : b[1][k] = Footer!Nul)
          /\ IsSeq(b[2]) /\ Len(b[2]) = z - BlockSize
          /\ \A k \in 1 .. z - BlockSize : b[2][k] = Footer!Nul
      BY <2>7, <2>22, ZeroPieces
    <3>2. IsSeq(d) /\ Len(d) = 1 /\ d[1] = s
      BY <2>22, OneSeq
    <3>3. BlockSize \in Nat /\ BlockSize > 1 BY BlockOK
    <3>4. \A j \in 1 .. BlockSize : b[1][j] = w[L + j]
      <4> TAKE j \in 1 .. BlockSize
      <4>1. CASE j = 1
        <5>1. L + 1 \in 1 .. N BY <2>6, <2>8, <3>3
        <5>2. w[L + 1] = Footer!Zeroed BY <2>9, <5>1
        <5> QED BY <3>1, <4>1, <5>2
      <4>2. CASE j # 1
        <5>1. j \in 2 .. BlockSize /\ L + j \in 1 .. N /\ L < L + j /\ L + j <= E
              /\ L + j # L + 1 /\ L + j # L + z + 1
          BY <2>6, <2>7, <2>8, <3>3, <4>2
        <5>2. w[L + j] = Footer!Nul BY <2>9, <5>1
        <5> QED BY <3>1, <5>1, <5>2
      <4> QED BY <4>1, <4>2
    <3>5. \A j \in 1 .. z - BlockSize : b[2][j] = w[L + BlockSize + j]
      <4> TAKE j \in 1 .. z - BlockSize
      <4>1. /\ L + BlockSize + j \in 1 .. N /\ L < L + BlockSize + j /\ L + BlockSize + j <= E
            /\ L + BlockSize + j # L + 1 /\ L + BlockSize + j # L + z + 1
        BY <2>6, <2>7, <2>8, <3>3
      <4>2. w[L + BlockSize + j] = Footer!Nul
        BY <2>9, <4>1
      <4> QED BY <3>1, <4>2
    <3>6. \A j \in 1 .. N - E : s[j] = w[E + j]
      <4> TAKE j \in 1 .. N - E
      <4>1. E + j \in 1 .. N /\ E < E + j BY <2>6, <2>8
      <4> QED BY <2>11, <2>21, <4>1
    <3>7. PICK u1, u2 : u1 = b[1] /\ u2 = b[2] OBVIOUS
    <3>8. /\ IsSeq(u1) /\ Len(u1) = BlockSize /\ (\A j \in 1 .. BlockSize : u1[j] = w[L + j])
          /\ IsSeq(u2) /\ Len(u2) = z - BlockSize
          /\ \A j \in 1 .. z - BlockSize : u2[j] = w[L + BlockSize + j]
      BY <3>1, <3>4, <3>5, <3>7
    <3>9. L < N /\ L + BlockSize < N /\ L + BlockSize + (z - BlockSize) = L + z /\ L + z < N
      BY <2>6, <2>7, <2>8, <3>3
    <3>10. CASE y = 0
      <4>1. c2 = << >> /\ E = L + z
        BY <2>7, <2>22, <3>10
      <4>2. PICK g : g = b \o c2 OBVIOUS
      <4>3. g = b
        <5>1. IsSeq(c2) /\ Len(c2) = 0
          <6>1. c2 \in Seq({}) /\ Len(c2) = 0 BY <4>1
          <6> QED BY <6>1 DEF IsSeq
        <5>2. /\ IsSeq(b \o c2) /\ Len(b \o c2) = Len(b) + Len(c2)
              /\ \A k \in 1 .. Len(b) : (b \o c2)[k] = b[k]
          <6>1. IsSeq(b) /\ IsSeq(c2) BY <3>1, <5>1
          <6> QED BY <6>1, CatSeq
        <5>3. IsSeq(g) /\ Len(g) = Len(b) /\ \A k \in 1 .. Len(g) : g[k] = b[k]
          <6>1. Len(g) = Len(b)
            BY <3>1, <4>2, <5>1, <5>2
          <6>2. IsSeq(g) /\ \A k \in 1 .. Len(b) : g[k] = b[k]
            BY <4>2, <5>2
          <6> QED BY <6>1, <6>2
        <5> QED BY <3>1, <5>3, SameSeq
      <4>4. todo = b \o d BY <2>23, <4>2, <4>3
      <4>5. /\ IsSeq(todo) /\ Len(todo) = 3 /\ (\A k \in 1 .. 2 : todo[k] = b[k])
            /\ \A k \in 1 .. 1 : todo[2 + k] = d[k]
        <5>1. IsSeq(b) /\ IsSeq(d) BY <3>1, <3>2
        <5>2. /\ IsSeq(b \o d) /\ Len(b \o d) = Len(b) + Len(d) /\ (\A k \in 1 .. Len(b) : (b \o d)[k] = b[k])
              /\ \A k \in 1 .. Len(d) : (b \o d)[Len(b) + k] = d[k]
          BY <5>1, CatSeq
        <5> QED BY <3>1, <3>2, <4>4, <5>2
      <4>6. todo[1] = b[1] /\ todo[2] = b[2] /\ todo[3] = s
        BY <3>2, <4>5
      <4>7. PICK p : p = <<L, L + BlockSize, L + z, N>> OBVIOUS
      <4>8. p \in [1 .. 4 -> Nat] /\ p[1] = L /\ p[2] = L + BlockSize /\ p[3] = L + z /\ p[4] = N
        BY <2>6, <2>7, <3>3, <4>7, SMTT(30)
      <4>9. \A k \in 1 .. 3 : /\ p[k] < N /\ IsSeq(todo[k]) /\ p[k] + Len(todo[k]) = p[k + 1]
                              /\ \A j \in 1 .. Len(todo[k]) : todo[k][j] = w[p[k] + j]
        <5>1. /\ p[1] < N /\ IsSeq(todo[1]) /\ p[1] + Len(todo[1]) = p[2]
              /\ \A j \in 1 .. Len(todo[1]) : todo[1][j] = w[p[1] + j]
          BY <3>7, <3>8, <3>9, <4>6, <4>8
        <5>2. /\ p[2] < N /\ IsSeq(todo[2]) /\ p[2] + Len(todo[2]) = p[3]
              /\ \A j \in 1 .. Len(todo[2]) : todo[2][j] = w[p[2] + j]
          BY <3>7, <3>8, <3>9, <4>6, <4>8
        <5>3. /\ p[3] < N /\ IsSeq(todo[3]) /\ p[3] + Len(todo[3]) = p[4]
              /\ \A j \in 1 .. Len(todo[3]) : todo[3][j] = w[p[3] + j]
          BY <2>6, <2>8, <2>21, <3>6, <4>1, <4>6, <4>8, SMTT(30)
        <5>4. \A k \in 1 .. 3 : k = 1 \/ k = 2 \/ k = 3 OBVIOUS
        <5> QED BY <5>1, <5>2, <5>3, <5>4
      <4>10. Len(todo) + 1 = 4 BY <4>5
      <4>11. Pieces(w, p, todo, L)
        BY <2>10, <4>5, <4>8, <4>9, <4>10 DEF Pieces
      <4> QED BY <4>11
    <3>11. CASE y # 0
      <4>1. c2 = Footer!ZeroBlocks(q) /\ E = L + z + q /\ q >= BlockSize /\ y > 0
        BY <2>6, <2>7, <2>22, <3>11
      <4>2. /\ IsSeq(c2) /\ Len(c2) = 2 /\ IsSeq(c2[1]) /\ Len(c2[1]) = BlockSize
            /\ c2[1][1] = Footer!Zeroed /\ (\A k \in 2 .. BlockSize : c2[1][k] = Footer!Nul)
            /\ IsSeq(c2[2]) /\ Len(c2[2]) = q - BlockSize
            /\ \A k \in 1 .. q - BlockSize : c2[2][k] = Footer!Nul
        BY <2>7, <4>1, ZeroPieces
      <4>3. PICK g : g = b \o c2 OBVIOUS
      <4>4. /\ IsSeq(g) /\ Len(g) = 4 /\ (\A k \in 1 .. 2 : g[k] = b[k])
            /\ \A k \in 1 .. 2 : g[2 + k] = c2[k]
        <5>1. IsSeq(b) /\ IsSeq(c2) BY <3>1, <4>2
        <5>2. /\ IsSeq(b \o c2) /\ Len(b \o c2) = Len(b) + Len(c2)
              /\ (\A k \in 1 .. Len(b) : (b \o c2)[k] = b[k])
              /\ \A k \in 1 .. Len(c2) : (b \o c2)[Len(b) + k] = c2[k]
          BY <5>1, CatSeq
        <5> QED BY <3>1, <4>2, <4>3, <5>2
      <4>5. /\ IsSeq(todo) /\ Len(todo) = 5 /\ (\A k \in 1 .. 4 : todo[k] = g[k])
            /\ \A k \in 1 .. 1 : todo[4 + k] = d[k]
        <5>1. IsSeq(g) /\ IsSeq(d) /\ todo = g \o d
          BY <2>23, <3>2, <4>3, <4>4
        <5>2. /\ IsSeq(g \o d) /\ Len(g \o d) = Len(g) + Len(d) /\ (\A k \in 1 .. Len(g) : (g \o d)[k] = g[k])
              /\ \A k \in 1 .. Len(d) : (g \o d)[Len(g) + k] = d[k]
          BY <5>1, CatSeq
        <5> QED BY <3>2, <4>4, <5>1, <5>2
      <4>6. todo[1] = b[1] /\ todo[2] = b[2] /\ todo[3] = c2[1] /\ todo[4] = c2[2] /\ todo[5] = s
        <5>1. todo[1] = g[1] /\ todo[2] = g[2] /\ todo[3] = g[3] /\ todo[4] = g[4] /\ todo[5] = d[1]
          BY <4>5
        <5>2. g[1] = b[1] /\ g[2] = b[2] /\ g[3] = c2[1] /\ g[4] = c2[2]
          BY <4>4
        <5> QED BY <3>2, <5>1, <5>2
      <4>7. PICK p : p = <<L, L + BlockSize, L + z, L + z + BlockSize, E, N>> OBVIOUS
      <4>8. /\ p \in [1 .. 6 -> Nat] /\ p[1] = L /\ p[2] = L + BlockSize /\ p[3] = L + z
            /\ p[4] = L + z + BlockSize /\ p[5] = E /\ p[6] = N
        <5>1. L + BlockSize \in Nat /\ L + z \in Nat /\ L + z + BlockSize \in Nat
          BY <2>6, <2>7, <3>3
        <5>2. p \in Seq(Nat) /\ Len(p) = 6
          BY <2>6, <2>8, <4>7, <5>1
        <5> QED BY <4>7, <5>2
      <4>9. \A j \in 1 .. BlockSize : c2[1][j] = w[L + z + j]
        <5> TAKE j \in 1 .. BlockSize
        <5>1. CASE j = 1
          <6>1. L + z + 1 \in 1 .. N
            BY <2>6, <2>7, <2>8, <3>3, <4>1
          <6>2. w[L + z + 1] = Footer!Zeroed
            BY <2>9, <4>1, <6>1
          <6> QED BY <4>2, <5>1, <6>2
        <5>2. CASE j # 1
          <6>1. j \in 2 .. BlockSize /\ L + z + j \in 1 .. N /\ L < L + z + j /\ L + z + j <= E
                /\ L + z + j # L + 1 /\ L + z + j # L + z + 1
            BY <2>6, <2>7, <2>8, <3>3, <4>1, <5>2
          <6>2. w[L + z + j] = Footer!Nul BY <2>9, <6>1
          <6> QED BY <4>2, <6>1, <6>2
        <5> QED BY <5>1, <5>2
      <4>10. \A j \in 1 .. q - BlockSize : c2[2][j] = w[L + z + BlockSize + j]
        <5> TAKE j \in 1 .. q - BlockSize
        <5>1. PICK n : n = L + z + BlockSize + j OBVIOUS
        <5>2. n \in 1 .. N /\ L < n /\ n <= E /\ n # L + 1 /\ n # L + z + 1
          BY <2>6, <2>7, <2>8, <3>3, <4>1, <5>1
        <5>3. w[n] = Footer!Nul BY <2>9, <5>2
        <5> QED BY <4>2, <5>1, <5>3
      <4>11. \A k \in 1 .. 5 : /\ p[k] < N /\ IsSeq(todo[k]) /\ p[k] + Len(todo[k]) = p[k + 1]
                               /\ \A j \in 1 .. Len(todo[k]) : todo[k][j] = w[p[k] + j]
        <5>1. /\ p[1] < N /\ IsSeq(todo[1]) /\ p[1] + Len(todo[1]) = p[2]
              /\ \A j \in 1 .. Len(todo[1]) : todo[1][j] = w[p[1] + j]
          BY <3>7, <3>8, <3>9, <4>6, <4>8
        <5>2. /\ p[2] < N /\ IsSeq(todo[2]) /\ p[2] + Len(todo[2]) = p[3]
              /\ \A j \in 1 .. Len(todo[2]) : todo[2][j] = w[p[2] + j]
          BY <3>7, <3>8, <3>9, <4>6, <4>8
        <5>3. /\ p[3] < N /\ IsSeq(todo[3]) /\ p[3] + Len(todo[3]) = p[4]
              /\ \A j \in 1 .. Len(todo[3]) : todo[3][j] = w[p[3] + j]
          <6>1. PICK u : u = c2[1] OBVIOUS
          <6>2. IsSeq(u) /\ Len(u) = BlockSize /\ \A j \in 1 .. BlockSize : u[j] = w[L + z + j]
            BY <4>2, <4>9, <6>1
          <6> QED BY <3>9, <4>6, <4>8, <6>1, <6>2
        <5>4. /\ p[4] < N /\ IsSeq(todo[4]) /\ p[4] + Len(todo[4]) = p[5]
              /\ \A j \in 1 .. Len(todo[4]) : todo[4][j] = w[p[4] + j]
          <6>1. L + z + BlockSize < N /\ L + z + BlockSize + (q - BlockSize) = E
            BY <2>6, <2>7, <2>8, <3>3, <4>1
          <6>2. PICK u : u = c2[2] OBVIOUS
          <6>3. /\ IsSeq(u) /\ Len(u) = q - BlockSize
                /\ \A j \in 1 .. q - BlockSize : u[j] = w[L + z + BlockSize + j]
            BY <4>2, <4>10, <6>2
          <6> QED BY <4>6, <4>8, <6>1, <6>2, <6>3
        <5>5. /\ p[5] < N /\ IsSeq(todo[5]) /\ p[5] + Len(todo[5]) = p[6]
              /\ \A j \in 1 .. Len(todo[5]) : todo[5][j] = w[p[5] + j]
          BY <2>6, <2>8, <2>21, <3>6, <4>6, <4>8
        <5>6. \A k \in 1 .. 5 : k = 1 \/ k = 2 \/ k = 3 \/ k = 4 \/ k = 5 OBVIOUS
        <5> TAKE k \in 1 .. 5
        <5>7. CASE k = 1 \/ k = 2
          BY <5>1, <5>2, <5>7, SMTT(30)
        <5>8. CASE k = 3 \/ k = 4
          BY <5>3, <5>4, <5>8, SMTT(30)
        <5>9. CASE k = 5 BY <5>5, <5>9, SMTT(30)
        <5> QED BY <5>6, <5>7, <5>8, <5>9
      <4>12. Len(todo) + 1 = 6 BY <4>5
      <4>13. Pieces(w, p, todo, L)
        BY <2>10, <4>5, <4>8, <4>11, <4>12 DEF Pieces
      <4> QED BY <4>13
    <3> QED BY <3>10, <3>11
  <2>28. WriteOK'
    <3>1. PICK p : Pieces(w, p, todo, L) BY <2>27
    <3>2. PICK t : t = part' OBVIOUS
    <3>3. Pieces(w, p, args'.todo, Len(t)) /\ args'.cmd = args.cmd
      BY <2>24, <2>25, <3>1, <3>2
    <3>4. Len(original) <= Len(t)
      BY <2>6, <2>7, <2>25, <3>2
    <3>5. \E a, u : /\ ImageOK(a, original', hurt') /\ EndsInFooter(a) /\ Keeps(a, part')
                    /\ Pieces(a, u, args'.todo, Len(part'))
      BY <2>16, <2>19, <2>24, <2>26, <3>2, <3>3
    <3> QED BY <1>1, <2>24, <2>25, <3>2, <3>3, <3>4, <3>5 DEF WriteOK, Ops
  <2> QED BY <2>24, <2>28 DEF FooterInv
<1> QED BY <1>2, <1>3

LEMMA WriteStep ==
    ASSUME FooterInv, Footer!Write
    PROVE  FooterInv'
<1>1. step = "write" /\ WriteOK /\ args.cmd \in FooterCommands /\ args.cmd.op = "zero"
  BY DEF Footer!Write, Footer!Is, FooterInv, WriteOK, Ops
<1>2. PICK w, p : /\ ImageOK(w, original, hurt) /\ EndsInFooter(w) /\ Keeps(w, part)
                  /\ Pieces(w, p, args.todo, Len(part))
  BY <1>1 DEF WriteOK
<1>3. PICK todo, n : todo = args.todo /\ n = Len(part) OBVIOUS
<1>4. /\ IsSeq(todo) /\ p \in [1 .. Len(todo) + 1 -> Nat] /\ p[1] = n /\ p[Len(todo) + 1] = Len(w)
      /\ \A k \in 1 .. Len(todo) :
           /\ p[k] < Len(w) /\ IsSeq(todo[k]) /\ p[k] + Len(todo[k]) = p[k + 1]
           /\ \A j \in 1 .. Len(todo[k]) : todo[k][j] = w[p[k] + j]
  BY <1>2, <1>3 DEF Pieces
<1>5. /\ IsSeq(part) /\ n \in Nat /\ Len(original) <= n /\ IsSeq(w) /\ Len(w) \in Nat /\ Len(todo) \in Nat
      /\ IsSeq(original) /\ Len(original) \in Nat
  BY <1>1, <1>2, <1>3, <1>4, LenNat DEF WriteOK, ImageOK
<1>6. CASE todo = << >>
  <2>1. step' = "idle" /\ UNCHANGED <<part, original, hurt>>
    BY <1>3, <1>6 DEF Footer!Write, Footer!Raise, Footer!End, Footer!Goto, Footer!Go
  <2>2. Len(part) = Len(w) BY <1>3, <1>4, <1>6
  <2>3. part = w BY <1>2, <1>5, <2>2, SameSeq DEF Keeps
  <2>4. Clean BY <1>2, <2>3 DEF Clean
  <2> QED BY <2>1, <2>4, CleanStays DEF FooterInv
<1>7. CASE todo # << >>
  <2>1. PICK h, t : h = Head(todo) /\ t = Tail(todo) OBVIOUS
  <2>2. /\ part' = part \o h /\ step' = "write" /\ UNCHANGED <<original, hurt>>
        /\ args' = [args EXCEPT !.todo = t]
    BY <1>3, <1>7, <2>1 DEF Footer!Write, Footer!Goto, Footer!Go
  <2>3. /\ IsSeq(t) /\ Len(todo) \in Nat \ {0} /\ Len(t) = Len(todo) - 1 /\ h = todo[1]
        /\ \A k \in 1 .. Len(todo) - 1 : t[k] = todo[k + 1]
    BY <1>4, <1>7, <2>1, RestSeq
  <2>4. /\ n < Len(w) /\ IsSeq(h) /\ n + Len(h) = p[2]
        /\ \A j \in 1 .. Len(h) : h[j] = w[n + j]
    <3>1. 1 \in 1 .. Len(todo) BY <2>3
    <3> QED BY <1>4, <2>3, <3>1
  <2>5. PICK x : x = part' OBVIOUS
  <2>6. /\ IsSeq(x) /\ Len(x) = n + Len(h) /\ Len(h) \in Nat /\ (\A k \in 1 .. n : x[k] = part[k])
        /\ \A k \in 1 .. Len(h) : x[n + k] = h[k]
    <3>1. /\ IsSeq(part \o h) /\ Len(h) \in Nat /\ Len(part \o h) = Len(part) + Len(h)
          /\ (\A k \in 1 .. Len(part) : (part \o h)[k] = part[k])
          /\ \A k \in 1 .. Len(h) : (part \o h)[Len(part) + k] = h[k]
      BY <1>5, <2>4, CatSeq
    <3> QED BY <1>3, <2>2, <2>5, <3>1
  <2>7. Len(x) <= Len(w)
    <3>1. CASE Len(t) = 0
      BY <1>4, <1>5, <2>3, <2>4, <2>6, <3>1
    <3>2. CASE Len(t) # 0
      <4>1. 2 \in 1 .. Len(todo) BY <2>3, <3>2
      <4>2. p[2] < Len(w) /\ p[2] \in Nat
        BY <1>4, <1>5, <4>1
      <4> QED BY <1>5, <2>4, <2>6, <4>2
    <3> QED BY <3>1, <3>2
  <2>8. \A k \in 1 .. Len(x) : w[k] = x[k]
    <3> TAKE k \in 1 .. Len(x)
    <3>1. CASE k <= n
      <4>1. k \in 1 .. n /\ w[k] = part[k]
        BY <1>2, <1>3, <1>5, <3>1 DEF Keeps
      <4> QED BY <2>6, <4>1
    <3>2. CASE n < k
      <4>1. k - n \in 1 .. Len(h) /\ n + (k - n) = k
        BY <1>5, <2>6, <3>2
      <4> QED BY <2>4, <2>6, <4>1
    <3> QED BY <1>5, <2>6, <3>1, <3>2
  <2>9. PICK q : q = [k \in 1 .. Len(t) + 1 |-> p[k + 1]] OBVIOUS
  <2>10. Pieces(w, q, t, Len(x))
    <3>1. \A k \in 1 .. Len(t) + 1 : k + 1 \in 1 .. Len(todo) + 1
      BY <2>3
    <3>2. q \in [1 .. Len(t) + 1 -> Nat]
      BY <1>4, <2>9, <3>1
    <3>3. q[1] = Len(x) /\ q[Len(t) + 1] = Len(w)
      BY <1>4, <2>3, <2>4, <2>6, <2>9
    <3>4. \A k \in 1 .. Len(t) : /\ q[k] < Len(w) /\ IsSeq(t[k]) /\ q[k] + Len(t[k]) = q[k + 1]
                                 /\ \A j \in 1 .. Len(t[k]) : t[k][j] = w[q[k] + j]
      <4> TAKE k \in 1 .. Len(t)
      <4>1. PICK i2 : i2 = k + 1 OBVIOUS
      <4>2. i2 \in 1 .. Len(todo) /\ k \in 1 .. Len(todo) - 1 /\ k \in 1 .. Len(t) + 1 /\ k + 1 \in 1 .. Len(t) + 1
        BY <2>3, <4>1
      <4>3. t[k] = todo[i2] /\ q[k] = p[i2] /\ q[k + 1] = p[i2 + 1]
        BY <2>3, <2>9, <4>1, <4>2
      <4>4. /\ p[i2] < Len(w) /\ IsSeq(todo[i2]) /\ p[i2] + Len(todo[i2]) = p[i2 + 1]
            /\ \A j \in 1 .. Len(todo[i2]) : todo[i2][j] = w[p[i2] + j]
        BY <1>4, <4>2
      <4> QED BY <4>3, <4>4
    <3> QED BY <2>3, <3>2, <3>3, <3>4 DEF Pieces
  <2>11. args'.todo = t /\ args'.cmd = args.cmd BY <2>2
  <2>12. \E a, u : /\ ImageOK(a, original', hurt') /\ EndsInFooter(a) /\ Keeps(a, part')
                   /\ Pieces(a, u, args'.todo, Len(part'))
    <3>1. Keeps(w, x) BY <2>7, <2>8 DEF Keeps
    <3> QED BY <1>2, <2>2, <2>5, <2>10, <2>11, <3>1
  <2>13. Len(original) <= Len(x) BY <1>5, <2>6
  <2>14. WriteOK'
    BY <1>1, <2>2, <2>5, <2>6, <2>11, <2>12, <2>13 DEF WriteOK, Ops
  <2> QED BY <2>2, <2>14 DEF FooterInv
<1> QED BY <1>6, <1>7

\* What a step may leave undone.
LEMMA LeftUndone ==
    ASSUME NEW w, NEW o, NEW h, ImageOK(w, o, h)
    PROVE  ImageOK(w, o, TRUE)
BY DEF ImageOK

\* At every step.
LEMMA AlwaysOK ==
    ASSUME FooterInv
    PROVE  ImageOK(part, original, hurt)
<1>1. CASE step \in {"idle", "open"}
  BY <1>1 DEF FooterInv, OpenOK, Clean
<1>2. CASE step \in {"check", "vbmeta", "tree", "fec", "append", "gap", "footer", "end"}
  <2>1. Image
    BY <1>2 DEF FooterInv, CheckOK, VbmetaOK, TreeOK, FecOK, AppendOK, FooterOK, EndOK
  <2> QED BY <2>1, BareOK DEF Image
<1>3. CASE step = "write"
  <2>1. WriteOK BY <1>3 DEF FooterInv
  <2>2. PICK w, p : /\ ImageOK(w, original, hurt) /\ EndsInFooter(w) /\ Keeps(w, part)
                    /\ Pieces(w, p, args.todo, Len(part))
    BY <2>1 DEF WriteOK
  <2>3. PICK todo : todo = args.todo OBVIOUS
  <2>4. /\ IsSeq(part) /\ IsSeq(w) /\ IsSeq(original) /\ hurt \in BOOLEAN /\ Len(part) \in Nat /\ Len(w) \in Nat
        /\ IsSeq(todo) /\ Len(todo) \in Nat /\ Len(original) <= Len(part) /\ Keeps(w, original) /\ NoneInside(w)
        /\ Len(original) \in Nat
    BY <2>1, <2>2, <2>3, LenNat DEF WriteOK, ImageOK, Pieces
  <2>5. CASE Len(todo) = 0
    <3>1. Len(part) = Len(w)
      BY <2>2, <2>3, <2>5 DEF Pieces
    <3>2. part = w
      BY <2>2, <2>4, <3>1, SameSeq DEF Keeps
    <3> QED BY <2>2, <3>2
  <2>6. CASE Len(todo) # 0
    <3>1. 1 \in 1 .. Len(todo) BY <2>4, <2>6
    <3>2. Len(part) < Len(w)
      BY <2>2, <2>3, <3>1 DEF Pieces
    <3>3. \A k \in 1 .. Len(part) : k \in 1 .. Len(w) /\ k # Len(w) /\ w[k] = part[k]
      BY <2>2, <2>4, <3>2 DEF Keeps
    <3>4. NoFooter(part)
      BY <2>4, <3>3 DEF NoFooter, NoneInside
    <3>5. Keeps(part, original)
      <4>1. \A k \in 1 .. Len(original) : k \in 1 .. Len(part) /\ w[k] = original[k]
        BY <2>4 DEF Keeps
      <4> QED BY <2>4, <3>3, <4>1 DEF Keeps
    <3> QED BY <2>4, <3>4, <3>5, BareOK
  <2> QED BY <2>5, <2>6
<1> QED BY <1>1, <1>2, <1>3 DEF FooterInv

LEMMA HurtClean ==
    ASSUME FooterInv, hurt' = TRUE, UNCHANGED <<part, original>>
    PROVE  Clean'
<1>1. ImageOK(part, original, TRUE)
  BY AlwaysOK, LeftUndone
<1> QED BY <1>1 DEF Clean

LEMMA ExceptionStep ==
    ASSUME FooterInv, Footer!Exception, spoilt' = "no"
    PROVE  FooterInv'
<1>1. /\ step # "idle" /\ step' = "idle" /\ original' = original
      /\ IF step = "open" THEN UNCHANGED <<part, hurt>>
         ELSE IF Footer!Op \in Footer!Adds THEN part' = Footer!Resized(args.orig) /\ UNCHANGED hurt
         ELSE hurt' = TRUE /\ UNCHANGED part
  BY DEF Footer!Exception, Footer!Fault, Footer!Tear
<1>2. CASE step = "open"
  <2>1. Clean /\ UNCHANGED <<part, original, hurt>>
    BY <1>1, <1>2 DEF FooterInv, OpenOK
  <2> QED BY <1>1, <2>1, CleanStays DEF FooterInv
<1>3. CASE step # "open" /\ args.cmd.op \in Footer!Adds
  <2>1. part' = Footer!Resized(args.orig) /\ UNCHANGED <<original, hurt>>
    BY <1>1, <1>3 DEF Footer!Op
  <2>2. Image
    BY <1>1, <1>3 DEF FooterInv, CheckOK, VbmetaOK, TreeOK, FecOK, AppendOK, FooterOK, EndOK,
       WriteOK, Ops, Footer!Adds
  <2> QED BY <1>1, <2>1, <2>2, Restored DEF FooterInv
<1>4. CASE step # "open" /\ ~ (args.cmd.op \in Footer!Adds)
  <2>1. hurt' = TRUE /\ UNCHANGED <<part, original>>
    BY <1>1, <1>4 DEF Footer!Op
  <2> QED BY <1>1, <2>1, HurtClean DEF FooterInv
<1> QED BY <1>2, <1>3, <1>4

LEMMA KillStep ==
    ASSUME FooterInv, Footer!Kill, spoilt' = "no"
    PROVE  FooterInv'
<1>1. step # "idle" /\ step' = "idle" /\ UNCHANGED <<part, original>> /\ hurt' = (hurt \/ step \notin {"open", "check"})
  BY DEF Footer!Kill, Footer!Fault, Footer!Tear
<1>2. hurt \in BOOLEAN BY AlwaysOK DEF ImageOK
<1>3. CASE step = "open"
  <2>1. Clean /\ UNCHANGED <<part, original, hurt>>
    BY <1>1, <1>2, <1>3 DEF FooterInv, OpenOK
  <2> QED BY <1>1, <2>1, CleanStays DEF FooterInv
<1>4. CASE step = "check"
  <2>1. Image /\ Len(part) = args.orig /\ UNCHANGED <<part, original, hurt>>
    BY <1>1, <1>2, <1>4 DEF FooterInv, CheckOK
  <2> QED BY <1>1, <2>1, StopsClean DEF FooterInv
<1>5. CASE step \notin {"open", "check"}
  <2>1. hurt' = TRUE BY <1>1, <1>5
  <2> QED BY <1>1, <2>1, HurtClean DEF FooterInv
<1> QED BY <1>3, <1>4, <1>5

LEMMA FooterIdle ==
    ASSUME FooterInv, UNCHANGED footer
    PROVE  FooterInv'
<1>1. UNCHANGED <<part, step, args, original, hurt>>
  BY DEF footer
<1>2. Clean <=> Clean' BY <1>1 DEF Clean
<1>3. OpenOK => OpenOK' BY <1>1, <1>2 DEF OpenOK
<1>4. CheckOK => CheckOK'
  BY <1>1 DEF CheckOK, Image, Ops, Footer!Round
<1>5. VbmetaOK => VbmetaOK'
  BY <1>1 DEF VbmetaOK, Image, Ops, Checked, Footer!Round
<1>6. TreeOK => TreeOK'
  BY <1>1 DEF TreeOK, Image, Ops, Aligned, Room, FecSize, Footer!TreeSize
<1>7. FecOK => FecOK'
  BY <1>1 DEF FecOK, Image, Ops, Aligned, Room, FecSize, Describes
<1>8. AppendOK => AppendOK'
  BY <1>1 DEF AppendOK, Image, Ops, Aligned, Room, Describes, Checked, Footer!Round
<1>9. FooterOK => FooterOK'
  BY <1>1 DEF FooterOK, Image, Ops, StructAt, Describes
<1>10. EndOK => EndOK' BY <1>1 DEF EndOK, Image, Ops
<1>11. WriteOK => WriteOK'
  <2> SUFFICES ASSUME WriteOK PROVE WriteOK' OBVIOUS
  <2>1. PICK w, p : /\ ImageOK(w, original, hurt) /\ EndsInFooter(w) /\ Keeps(w, part)
                    /\ Pieces(w, p, args.todo, Len(part))
    BY DEF WriteOK
  <2>2. \E a, u : /\ ImageOK(a, original', hurt') /\ EndsInFooter(a) /\ Keeps(a, part')
                  /\ Pieces(a, u, args'.todo, Len(part'))
    BY <1>1, <2>1
  <2>3. Ops({"zero"}) /\ IsSeq(part) /\ Len(original) <= Len(part)
    BY DEF WriteOK
  <2> QED BY <1>1, <2>2, <2>3 DEF WriteOK, Ops
<1>12. GapOK => GapOK' BY <1>1 DEF GapOK, Room, Checked
<1> QED BY <1>1, <1>2, <1>3, <1>4, <1>5, <1>6, <1>7, <1>8, <1>9, <1>10, <1>11, <1>12 DEF FooterInv

\* At first there is no footer.
LEMMA FooterStarts ==
    ASSUME MCInit
    PROVE  FooterSafe
<1>1. Footer!Init BY DEF MCInit, IdleFooter
<1>2. step = "idle" /\ original = part /\ hurt = FALSE
  BY <1>1 DEF Footer!Init
<1>3. PICK n \in ImageSizes : part = [k \in 1 .. n |-> Footer!Data(k)]
  BY <1>1 DEF Footer!Init
<1>4. n \in Nat
  BY ImagesAssumption DEF Footer!ImageFooterAssumption
<1>5. IsSeq(part) /\ Len(part) = n
  <2>1. part = [k \in 1 .. n |-> part[k]] BY <1>3
  <2> QED BY <1>4, <2>1, MapSeq
<1>6. NoFooter(part)
  BY <1>3, <1>5 DEF NoFooter, Footer!Data
<1>7. Keeps(part, part) BY <1>4, <1>5 DEF Keeps
<1>8. Clean
  BY <1>2, <1>5, <1>6, <1>7, BareClean DEF Clean
<1>9. spoilt = "no" BY <1>1 DEF Footer!Init
<1> QED BY <1>2, <1>8, <1>9 DEF FooterInv, FooterSafe

\* What is spoilt stays so, and no command is started on it.
LEMMA SpoiltStays ==
    ASSUME FooterSafe, Footer!Next
    PROVE  /\ spoilt' = "no" => spoilt = "no"
           /\ spoilt' # "no" => step' \in {"idle", "footer", "write"}
<1>1. CASE \/ \E x \in FooterCommands : Footer!Start(x)
           \/ Footer!Open \/ Footer!Check \/ Footer!HashTree \/ Footer!FecData \/ Footer!MakeVbmeta
           \/ Footer!AppendVbmeta \/ Footer!Resize
  <2>1. /\ UNCHANGED spoilt /\ (\/ step \in {"open", "check", "tree", "fec", "vbmeta", "append"}
                                \/ spoilt = "no")
    BY <1>1 DEF Footer!Start, Footer!Open, Footer!Check, Footer!HashTree, Footer!FecData, Footer!MakeVbmeta,
       Footer!AppendVbmeta, Footer!Resize, Footer!Is, Footer!Raise, Footer!Restore, Footer!End, Footer!Goto, Footer!Go
  <2> QED BY <2>1 DEF FooterSafe
<1>2. CASE Footer!NotAppended \/ Footer!Erase \/ Footer!AppendFooter \/ Footer!Write
  BY <1>2 DEF Footer!NotAppended, Footer!Erase, Footer!AppendFooter, Footer!Write, Footer!Raise, Footer!End,
     Footer!Goto, Footer!Go, FooterSafe
<1>3. CASE Footer!AppendGap \/ Footer!ZeroHashtree
  <2>1. step \in {"gap", "open"}
    BY <1>3 DEF Footer!AppendGap, Footer!ZeroHashtree, Footer!Is
  <2>2. spoilt = "no" BY <2>1 DEF FooterSafe
  <2>3. spoilt' = spoilt \/ step' \in {"footer", "write", "idle"}
    BY <1>3 DEF Footer!AppendGap, Footer!ZeroHashtree, Footer!Raise, Footer!Restore, Footer!End, Footer!Goto, Footer!Go, Footer!Tear
  <2> QED BY <2>2, <2>3
<1>4. CASE Footer!Exception \/ Footer!Kill
  BY <1>4 DEF Footer!Exception, Footer!Kill, Footer!Tear
<1> QED BY <1>1, <1>2, <1>3, <1>4 DEF Footer!Next

LEMMA FooterNext ==
    ASSUME FooterSafe, [MCNext]_allVars
    PROVE  FooterSafe'
<1>1. CASE UNCHANGED footer
  <2>1. UNCHANGED <<spoilt, step>> BY <1>1 DEF footer
  <2> QED BY <1>1, <2>1, FooterIdle DEF FooterSafe
<1>2. CASE Footer!Next
  <2>1. /\ spoilt' = "no" => spoilt = "no"
        /\ spoilt' # "no" => step' \in {"idle", "footer", "write"}
    BY <1>2, SpoiltStays
  <2>2. ASSUME spoilt' = "no", FooterInv PROVE FooterInv'
    <3>1. CASE \E x \in FooterCommands : Footer!Start(x)
      BY <2>2, <3>1, StartStep
    <3>2. CASE Footer!Open BY <2>2, <3>2, OpenStep
    <3>3. CASE Footer!Check BY <2>2, <3>3, CheckStep
    <3>4. CASE Footer!HashTree
      BY <2>2, <3>4, HashTreeStep
    <3>5. CASE Footer!FecData BY <2>2, <3>5, FecDataStep
    <3>6. CASE Footer!MakeVbmeta
      BY <2>2, <3>6, MakeVbmetaStep
    <3>7. CASE Footer!NotAppended
      BY <2>2, <3>7, NotAppendedStep
    <3>8. CASE Footer!AppendVbmeta
      BY <2>2, <3>8, AppendVbmetaStep
    <3>9. CASE Footer!AppendGap
      BY <2>2, <3>9, AppendGapStep
    <3>10. CASE Footer!AppendFooter
      BY <2>2, <3>10, AppendFooterStep
    <3>11. CASE Footer!Resize BY <2>2, <3>11, ResizeStep
    <3>12. CASE Footer!Erase BY <2>2, <3>12, EraseStep
    <3>13. CASE Footer!ZeroHashtree
      BY <2>2, <3>13, ZeroHashtreeStep
    <3>14. CASE Footer!Write BY <2>2, <3>14, WriteStep
    <3>15. CASE Footer!Exception
      BY <2>2, <3>15, ExceptionStep
    <3>16. CASE Footer!Kill BY <2>2, <3>16, KillStep
    <3> QED BY <1>2, <3>1, <3>2, <3>3, <3>4, <3>5, <3>6, <3>7, <3>8, <3>9, <3>10, <3>11, <3>12, <3>13, <3>14,
    <3>15, <3>16 DEF Footer!Next
  <2> QED BY <2>1, <2>2 DEF FooterSafe
<1> QED BY <1>1, <1>2 DEF MCNext, allVars

LEMMA GapFollows ==
    ASSUME FooterSafe
    PROVE  Footer!GapFits
<1> SUFFICES ASSUME step = "gap", Checked(args.cmd)
             PROVE  Footer!Gap >= 0
  BY DEF Footer!GapFits, Footer!Op, Checked
<1>1. Image /\ GapOK
  BY DEF FooterSafe, FooterInv, FooterOK
<1>2. PICK n, m : n = Len(part) /\ m = args.part OBVIOUS
<1>3. n \in Nat /\ m \in Nat /\ (m > 0 => n + 0 + BlockSize <= m)
  BY <1>1, <1>2, LenNat DEF Image, GapOK, Room
<1>4. (IF m = 0 THEN 0 ELSE m - n - BlockSize) >= 0
  BY <1>3, BlockOK
<1> QED BY <1>2, <1>4 DEF Footer!Gap

\* What the invariant says of the image when a command has ended, or at any step.
LEMMA FootersFollow ==
    ASSUME FooterInv
    PROVE  Footer!ImageKept /\ Footer!FooterSound /\ Footer!Remembered
<1>1. ImageOK(part, original, hurt) BY AlwaysOK
<1>2. /\ IsSeq(part) /\ IsSeq(original) /\ Len(part) \in Nat /\ Len(original) \in Nat
      /\ Keeps(part, original)
  BY <1>1, LenNat DEF ImageOK
<1>3. Footer!ImageKept
  <2>1. Len(original) <= Len(part) /\ \A k \in 1 .. Len(original) : part[k] = original[k]
    BY <1>2 DEF Keeps
  <2>2. PICK s : s = SubSeq(part, 1, Len(original)) OBVIOUS
  <2>3. IsSeq(s) /\ Len(s) = Len(original) /\ \A k \in 1 .. Len(original) : s[k] = part[k]
    BY <1>2, <2>1, <2>2, PreSeq
  <2>4. s = original
    <3>1. \A k \in 1 .. Len(s) : s[k] = original[k]
      BY <2>1, <2>3
    <3> QED BY <1>2, <2>3, <3>1, SameSeq
  <2> QED BY <2>1, <2>2, <2>4 DEF Footer!ImageKept
<1>4. Footer!FooterSound
  <2> SUFFICES ASSUME EndsInFooter(part) PROVE Footer!FooterSound
    BY HasIt DEF Footer!FooterSound
  <2>1. PICK f, v : f = Footer!Current /\ v = Footer!Parsed OBVIOUS
  <2>2. /\ f.orig \in Nat /\ f.at \in Nat /\ f.size \in Nat \ {0} /\ f.size = v.size
        /\ f.orig <= f.at /\ f.at < Len(part)
        /\ Footer!Round(f.size) \in Nat /\ f.at + Footer!Round(f.size) + BlockSize <= Len(part)
        /\ f.size <= Footer!Round(f.size)
        /\ StructAt(part, f.at, v) /\ Describes(v, part, f.at, f.orig)
    BY <1>1, <2>1, ReadFooter
  <2>3. f.at + f.size < Len(part) BY <1>2, <2>2, BlockOK
  <2>4. SubSeq(part, f.at + 1, f.at + f.size) = Footer!Blob(v)
    <3>1. PICK s, b : s = SubSeq(part, f.at + 1, f.at + f.size) /\ b = Footer!Blob(v) OBVIOUS
    <3>2. IsSeq(s) /\ Len(s) = f.size /\ \A k \in 1 .. f.size : s[k] = part[f.at + k]
      <4>1. PICK x, y, z : x = f.at /\ z = f.size /\ y = x + z OBVIOUS
      <4>2. x \in Nat /\ y \in Nat /\ x <= y /\ y <= Len(part) /\ y - x = z
        BY <1>2, <2>2, <2>3, <4>1
      <4>3. /\ IsSeq(SubSeq(part, x + 1, y)) /\ Len(SubSeq(part, x + 1, y)) = y - x
            /\ \A k \in 1 .. y - x : SubSeq(part, x + 1, y)[k] = part[x + k]
        BY <1>2, <4>2, MidSeq
      <4>4. s = SubSeq(part, x + 1, y) BY <3>1, <4>1
      <4> QED BY <4>1, <4>2, <4>3, <4>4
    <3>3. b = [k \in 1 .. v.size |-> [kind |-> "vbmeta", n |-> k, v |-> v]]
      BY <3>1 DEF Footer!Blob
    <3>4. IsSeq(b) /\ Len(b) = v.size
      <4>1. b = [k \in 1 .. v.size |-> b[k]] BY <3>3
      <4> QED BY <2>2, <4>1, MapSeq
    <3>5. \A k \in 1 .. v.size : part[f.at + k] = [kind |-> "vbmeta", n |-> k, v |-> v]
      BY <2>2 DEF StructAt
    <3>6. \A k \in 1 .. Len(s) : s[k] = b[k]
      BY <2>2, <3>2, <3>3, <3>5
    <3>7. s = b BY <2>2, <3>2, <3>4, <3>6, SameSeq
    <3> QED BY <3>1, <3>7
  <2>5. v.hashed = SubSeq(part, 1, Len(v.hashed))
    <3>1. IsSeq(v.hashed) /\ Len(v.hashed) <= Len(part) /\ \A k \in 1 .. Len(v.hashed) : part[k] = v.hashed[k]
      BY <2>2 DEF Describes, Keeps
    <3>2. PICK s, t : s = v.hashed /\ t = SubSeq(part, 1, Len(s)) OBVIOUS
    <3>3. IsSeq(s) /\ Len(s) \in Nat /\ Len(s) <= Len(part) /\ \A k \in 1 .. Len(s) : part[k] = s[k]
      BY <3>1, <3>2, LenNat
    <3>4. IsSeq(t) /\ Len(t) = Len(s) /\ \A k \in 1 .. Len(s) : t[k] = part[k]
      BY <1>2, <3>2, <3>3, PreSeq
    <3>5. s = t BY <3>3, <3>4, SameSeq
    <3> QED BY <3>2, <3>5
  <2>6. v.desc = "hash" => Len(v.hashed) = f.orig
    BY <2>2 DEF Describes
  <2>7. v.desc = "tree" =>
          /\ f.orig <= Len(v.hashed) /\ Footer!TreeEnd(v) <= f.at
          /\ \A k \in Len(v.hashed) + 1 .. Len(v.hashed) + v.tree : part[k].kind \in {"tree", "zeroed", "nul"}
          /\ \A k \in v.fecAt + 1 .. v.fecAt + v.fec : part[k].kind \in {"fec", "zeroed", "nul"}
    BY <2>2 DEF Describes
  <2> QED BY <2>1, <2>2, <2>3, <2>4, <2>5, <2>6, <2>7 DEF Footer!FooterSound
<1>5. Footer!Remembered
  <2> SUFFICES ASSUME step = "idle", ~ hurt
               PROVE  IF Footer!HasFooter THEN Footer!Current.orig = Len(original) ELSE part = original
    BY DEF Footer!Remembered
  <2>1. Clean BY DEF FooterInv
  <2>2. EndsInFooter(part) => Footer!Current.orig = Len(original)
    BY <1>1 DEF ImageOK, Footer!Current
  <2>3. ~ EndsInFooter(part) => part = original
    BY <2>1 DEF Clean
  <2> QED BY <2>2, <2>3, HasIt
<1> QED BY <1>3, <1>4, <1>5

\* Whatever commands are run, stopped and killed: what avbtool checks for add_hash_footer,
\* add_hashtree_footer and resize_image leaves room for the footer; and until a footer
\* without room, a zeroed empty tree or a torn sparse header has spoilt it, the image
\* itself is never changed (lines 3379, 3601, 3890), a footer points to a whole struct
\* behind it that describes what is there, and it remembers how large the image was at
\* first (lines 3479-3493 and resize_image, erase_footer and zero_hashtree).
THEOREM FootersKept == MCSpec => []FootersSound
<1>1. FooterSafe => FootersSound
  <2>1. FooterSafe => Footer!GapFits BY GapFollows
  <2> QED BY <2>1, FootersFollow DEF FooterSafe, FootersSound
<1>2. MCInit => FooterSafe BY FooterStarts
<1>3. FooterSafe /\ [MCNext]_allVars => FooterSafe'
  BY FooterNext
<1> QED BY <1>1, <1>2, <1>3, PTL DEF MCSpec
--------------------------------------------------
(* The handler: sums over the first chunks of a file. *)

LEMMA AddsExists ==
    ASSUME NEW s, NEW n \in Nat
    PROVE  \E f : Adds(s, n, f)
<1> DEFINE P(m) == \E f : f = [k \in 0 .. m |-> IF k = 0 THEN 0 ELSE f[k - 1] + s[k]]
           T == {m \in Nat : ~ P(m)}
<1>1. SUFFICES ASSUME T # {} PROVE FALSE BY DEF Adds
<1>2. PICK m \in T : \A j \in T : m <= j BY <1>1, Least
<1>3. m # 0
  <2>1. P(0)
    <3> DEFINE f == [k \in {0} |-> 0]
    <3>1. f = [k \in 0 .. 0 |-> IF k = 0 THEN 0 ELSE f[k - 1] + s[k]] OBVIOUS
    <3> QED BY <3>1
  <2> QED BY <2>1
<1>4. P(m - 1)
  <2>1. m - 1 \in Nat /\ ~ (m <= m - 1) BY <1>3
  <2>2. m - 1 \notin T BY <1>2, <2>1
  <2> QED BY <2>1, <2>2
<1>5. PICK g : g = [k \in 0 .. (m - 1) |-> IF k = 0 THEN 0 ELSE g[k - 1] + s[k]]
  BY <1>4
<1> DEFINE f == [k \in 0 .. m |-> IF k = 0 THEN 0 ELSE g[k - 1] + s[k]]
<1>6. \A k \in 0 .. m : k # 0 => f[k - 1] = g[k - 1]
  <2> TAKE k \in 0 .. m
  <2> HAVE k # 0
  <2>1. k - 1 \in 0 .. m /\ k - 1 \in 0 .. (m - 1) OBVIOUS
  <2>2. f[k - 1] = IF k - 1 = 0 THEN 0 ELSE g[(k - 1) - 1] + s[k - 1]
    BY <2>1
  <2>3. g[k - 1] = IF k - 1 = 0 THEN 0 ELSE g[(k - 1) - 1] + s[k - 1]
    BY <1>5, <2>1
  <2> QED BY <2>2, <2>3
<1>7. f = [k \in 0 .. m |-> IF k = 0 THEN 0 ELSE f[k - 1] + s[k]]
  BY <1>6
<1> QED BY <1>7

LEMMA SumIs ==
    ASSUME NEW s, Len(s) \in Nat
    PROVE  \E f : Adds(s, Len(s), f) /\ Handler!Sum(s) = f[Len(s)]
<1> DEFINE f == CHOOSE f : f = [k \in 0 .. Len(s) |-> IF k = 0 THEN 0 ELSE f[k - 1] + s[k]]
<1>1. Adds(s, Len(s), f) BY AddsExists, Zenon DEF Adds
<1>2. Handler!Sum(s) = f[Len(s)]
  BY Zenon DEF Handler!Sum
<1> QED BY <1>1, <1>2

\* The recursion over a longer sequence agrees with the one over a shorter.
LEMMA AddsAgree ==
    ASSUME NEW s, NEW t, NEW n \in Nat, NEW m \in Nat, NEW f, NEW g, n <= m,
           \A k \in 1 .. n : s[k] = t[k], Adds(s, n, f), Adds(t, m, g)
    PROVE  f[n] = g[n]
<1> DEFINE T == {k \in 0 .. n : f[k] # g[k]}
<1>1. SUFFICES ASSUME T # {} PROVE FALSE OBVIOUS
<1>2. PICK k \in T : \A j \in T : k <= j
  <2>1. T \in SUBSET Nat OBVIOUS
  <2> HIDE DEF T
  <2> QED BY <1>1, <2>1, Least
<1>3. k \in 0 .. n /\ k \in 0 .. m OBVIOUS
<1>4. f[k] = (IF k = 0 THEN 0 ELSE f[k - 1] + s[k])
  BY <1>3 DEF Adds
<1>5. g[k] = (IF k = 0 THEN 0 ELSE g[k - 1] + t[k])
  BY <1>3 DEF Adds
<1>6. k # 0 => f[k - 1] = g[k - 1] /\ s[k] = t[k]
  <2>1. k # 0 => k - 1 \in 0 .. n /\ ~ (k <= k - 1) /\ k \in 1 .. n
    BY <1>3
  <2> QED BY <1>2, <2>1
<1> QED BY <1>4, <1>5, <1>6

LEMMA BlocksNone == \A b : Handler!Blocks(b, 0) = 0
<1> TAKE b
<1> DEFINE s == [q \in 1 .. 0 |-> b[q].sz]
<1>1. Len(s) = 0 OBVIOUS
<1>2. PICK f : Adds(s, 0, f) /\ Handler!Sum(s) = f[0]
  BY <1>1, SumIs
<1>3. f[0] = 0 BY <1>2 DEF Adds
<1> QED BY <1>2, <1>3 DEF Handler!Blocks

LEMMA BlocksStep ==
    ASSUME NEW b, NEW k \in Nat
    PROVE  Handler!Blocks(b, k + 1) = Handler!Blocks(b, k) + b[k + 1].sz
<1>1. PICK s : s = [q \in 1 .. k |-> b[q].sz] OBVIOUS
<1>2. PICK t : t = [q \in 1 .. k + 1 |-> b[q].sz] OBVIOUS
<1>3. PICK m \in Nat : m = k + 1 /\ k <= m OBVIOUS
<1>4. /\ Len(s) = k /\ Len(t) = m
      /\ \A q \in 1 .. k : s[q] = t[q]
      /\ t[m] = b[k + 1].sz
  BY <1>1, <1>2, <1>3
<1>5. PICK f : Adds(s, k, f) /\ Handler!Sum(s) = f[k]
  BY <1>4, SumIs
<1>6. PICK g : Adds(t, m, g) /\ Handler!Sum(t) = g[m]
  BY <1>3, <1>4, SumIs
<1>7. f[k] = g[k]
  <2>1. Adds(s, k, f) /\ Adds(t, m, g) /\ (\A q \in 1 .. k : s[q] = t[q]) /\ k <= m
    BY <1>3, <1>4, <1>5, <1>6
  <2>2. (\A q \in 1 .. k : s[q] = t[q]) /\ k <= m /\ Adds(s, k, f) /\ Adds(t, m, g) => f[k] = g[k]
    BY AddsAgree, SMT
  <2> QED BY <2>1, <2>2
<1>8. g[m] = g[k] + t[m]
  <2>1. m \in 0 .. m /\ m # 0 /\ m - 1 = k BY <1>3
  <2> QED BY <1>6, <2>1 DEF Adds
<1> QED BY <1>1, <1>2, <1>3, <1>4, <1>5, <1>6, <1>7, <1>8 DEF Handler!Blocks

\* The blocks of chunks that are the same are the same.
LEMMA BlocksSame ==
    ASSUME NEW a, NEW b, NEW k \in Nat, \A q \in 1 .. k : a[q].sz = b[q].sz
    PROVE  Handler!Blocks(a, k) = Handler!Blocks(b, k)
<1>1. [q \in 1 .. k |-> a[q].sz] = [q \in 1 .. k |-> b[q].sz] OBVIOUS
<1> QED BY <1>1, Zenon DEF Handler!Blocks

LEMMA ChunkFacts ==
    ASSUME NEW b \in Body, NEW k \in 1 .. Len(b)
    PROVE  /\ b[k] \in Handler!Stored /\ b[k].sz \in Nat /\ b[k].data \in Seq(Units)
           /\ b[k].kind \in {"raw", "fill", "dontCare"}
           /\ b[k].kind = "raw" => Len(b[k].data) = b[k].sz * BlockSize
           /\ b[k].kind = "fill" => b[k].data # << >>
<1> DEFINE S == Handler!Stored
<1> HIDE DEF S
<1>1. b[k] \in S BY DEF Body, S
<1> QED BY <1>1 DEF S, Handler!Stored

LEMMA BlocksType ==
    ASSUME NEW b \in Body, NEW k \in 0 .. Len(b)
    PROVE  Handler!Blocks(b, k) \in Nat
<1> DEFINE T == {n \in 0 .. Len(b) : Handler!Blocks(b, n) \notin Nat}
<1>0. Len(b) \in Nat BY DEF Body
<1>1. SUFFICES ASSUME T # {} PROVE FALSE OBVIOUS
<1>2. PICK n \in T : \A j \in T : n <= j
  <2>1. T \in SUBSET Nat BY <1>0
  <2> HIDE DEF T
  <2> QED BY <1>1, <2>1, Least
<1>3. n # 0 BY BlocksNone
<1>4. n - 1 \in 0 .. Len(b) /\ n - 1 \in Nat /\ ~ (n <= n - 1) /\ n \in 1 .. Len(b) /\ (n - 1) + 1 = n
  BY <1>0, <1>3
<1>5. Handler!Blocks(b, n - 1) \in Nat BY <1>2, <1>4
<1>6. Handler!Blocks(b, n) = Handler!Blocks(b, n - 1) + b[n].sz
  BY <1>4, BlocksStep
<1>7. b[n].sz \in Nat BY <1>4, ChunkFacts
<1> QED BY <1>5, <1>6, <1>7

LEMMA OffStep ==
    ASSUME NEW b \in Body, NEW k \in 1 .. Len(b)
    PROVE  /\ k - 1 \in 0 .. Len(b) /\ Off(b, k - 1) \in Nat /\ Off(b, k) \in Nat
           /\ Off(b, k) = Off(b, k - 1) + BlockSize * b[k].sz
           /\ Off(b, k - 1) <= Off(b, k)
           /\ BlockSize * b[k].sz \in Nat
<1>1. Len(b) \in Nat /\ k - 1 \in 0 .. Len(b) /\ k \in 0 .. Len(b) /\ (k - 1) + 1 = k /\ k - 1 \in Nat
  BY DEF Body
<1>2. Handler!Blocks(b, k) = Handler!Blocks(b, k - 1) + b[k].sz
  BY <1>1, BlocksStep
<1>3. Handler!Blocks(b, k - 1) \in Nat /\ b[k].sz \in Nat
  BY <1>1, BlocksType, ChunkFacts
<1>4. PICK m \in Nat : m = Handler!Blocks(b, k - 1)
  BY <1>3
<1>5. PICK z \in Nat : z = b[k].sz BY <1>3
<1>6. BlockSize \in Nat BY BlockOK
<1>7. BlockSize * (m + z) = BlockSize * m + BlockSize * z /\ BlockSize * z \in Nat /\ BlockSize * m \in Nat
  BY <1>6
<1> QED BY <1>1, <1>2, <1>4, <1>5, <1>7 DEF Off

\* A chunk begins behind the ones before it.
LEMMA OffOrder ==
    ASSUME NEW b \in Body, NEW q \in 0 .. Len(b), NEW j \in 0 .. Len(b), q <= j
    PROVE  Off(b, q) \in Nat /\ Off(b, j) \in Nat /\ Off(b, q) <= Off(b, j)
<1>0. Len(b) \in Nat BY DEF Body
<1>1. \A k \in 0 .. Len(b) : Off(b, k) \in Nat
  <2> TAKE k \in 0 .. Len(b)
  <2>1. Handler!Blocks(b, k) \in Nat /\ BlockSize \in Nat
    BY BlocksType, BlockOK
  <2> QED BY <2>1 DEF Off
<1> DEFINE T == {n \in q .. Len(b) : ~ (Off(b, q) <= Off(b, n))}
<1>2. SUFFICES ASSUME T # {} PROVE FALSE
  <2>1. j \in q .. Len(b) BY <1>0
  <2> QED BY <1>1, <1>2, <2>1
<1>3. PICK n \in T : \A m \in T : n <= m
  <2>1. T \in SUBSET Nat BY <1>0
  <2> HIDE DEF T
  <2> QED BY <1>2, <2>1, Least
<1>4. n # q BY <1>1
<1>5. n - 1 \in q .. Len(b) /\ n - 1 \in 0 .. Len(b) /\ ~ (n <= n - 1) /\ n \in 1 .. Len(b)
  BY <1>0, <1>4
<1>6. Off(b, q) <= Off(b, n - 1) BY <1>3, <1>5
<1>7. Off(b, n - 1) <= Off(b, n) /\ Off(b, n - 1) \in Nat /\ Off(b, n) \in Nat
  BY <1>5, OffStep
<1> QED BY <1>1, <1>6, <1>7
--------------------------------------------------
(* What the chunks stand for. *)

LEMMA ZerosAre ==
    ASSUME NEW n \in Nat
    PROVE  /\ Handler!Zeros(n) \in Seq(Units) /\ Len(Handler!Zeros(n)) = n
           /\ \A j \in 1 .. n : Handler!Zeros(n)[j] = 0
<1>1. 0 \in Units
  BY ImagesAssumption DEF Handler!ImageHandlerAssumption
<1> DEFINE S == Units
<1> HIDE DEF S
<1>2. 0 \in S BY <1>1 DEF S
<1>3. [q \in 1 .. n |-> 0] \in Seq(S) BY <1>2
<1> QED BY <1>3 DEF Handler!Zeros, S

LEMMA RepeatIs ==
    ASSUME NEW p \in Seq(Units), p # << >>, NEW n \in Nat
    PROVE  /\ Handler!Repeat(p, n) \in Seq(Units) /\ Len(Handler!Repeat(p, n)) = n
           /\ \A j \in 1 .. n : Handler!Repeat(p, n)[j] = p[((j - 1) % Len(p)) + 1]
<1> DEFINE S == Units
<1> HIDE DEF S
<1>1. p \in Seq(S) /\ Len(p) \in Nat /\ Len(p) # 0
  BY DEF S
<1>2. PICK l \in Nat \ {0} : l = Len(p) BY <1>1
<1>3. \A j \in 1 .. n : p[((j - 1) % l) + 1] \in S
  <2> TAKE j \in 1 .. n
  <2>1. (j - 1) % l \in 0 .. l - 1 OBVIOUS
  <2>2. ((j - 1) % l) + 1 \in 1 .. l BY <2>1
  <2> QED BY <1>1, <1>2, <2>2
<1>4. [j \in 1 .. n |-> p[((j - 1) % l) + 1]] \in Seq(S)
  BY <1>3
<1> QED BY <1>2, <1>4 DEF Handler!Repeat, S

LEMMA ExpandCases ==
    \A x : /\ x.kind = "raw" => Handler!Expand(x) = x.data
           /\ x.kind = "fill" => Handler!Expand(x) = Handler!Repeat(x.data, x.sz * BlockSize)
           /\ x.kind = "dontCare" => Handler!Expand(x) = Handler!Zeros(x.sz * BlockSize)
BY Zenon DEF Handler!Expand

LEMMA ExpandIs ==
    ASSUME NEW b \in Body, NEW k \in 1 .. Len(b)
    PROVE  Handler!Expand(b[k]) \in Seq(Units) /\ Len(Handler!Expand(b[k])) = BlockSize * b[k].sz
<1>1. PICK x : x = b[k] OBVIOUS
<1>2. /\ x.sz \in Nat /\ x.data \in Seq(Units)
      /\ x.kind \in {"raw", "fill", "dontCare"}
      /\ x.kind = "raw" => Len(x.data) = x.sz * BlockSize
      /\ x.kind = "fill" => x.data # << >>
  BY <1>1, ChunkFacts
<1>3. PICK n \in Nat : n = x.sz * BlockSize /\ n = BlockSize * x.sz
  <2>1. PICK z \in Nat : z = x.sz BY <1>2
  <2>2. z * BlockSize \in Nat /\ z * BlockSize = BlockSize * z
    BY BlockOK
  <2> QED BY <2>1, <2>2
<1>4. CASE x.kind = "raw"
  BY <1>1, <1>2, <1>3, <1>4, ExpandCases
<1>5. CASE x.kind = "fill"
  <2>1. Handler!Expand(x) = Handler!Repeat(x.data, n)
    BY <1>3, <1>5, ExpandCases
  <2> QED BY <1>1, <1>2, <1>3, <1>5, <2>1, RepeatIs
<1>6. CASE x.kind = "dontCare"
  <2>1. Handler!Expand(x) = Handler!Zeros(n)
    BY <1>3, <1>6, ExpandCases
  <2> QED BY <1>1, <1>3, <2>1, ZerosAre
<1> QED BY <1>2, <1>4, <1>5, <1>6

LEMMA FlattensExists ==
    ASSUME NEW w, NEW n \in Nat
    PROVE  \E f : Flattens(w, n, f)
<1> DEFINE P(m) == \E f : f = [q \in 1 .. m |-> IF q = 1 THEN w[q] ELSE f[q-1] \o w[q]]
           T == {m \in Nat : ~ P(m)}
<1>1. SUFFICES ASSUME T # {} PROVE FALSE BY DEF Flattens
<1>2. PICK m \in T : \A j \in T : m <= j BY <1>1, Least
<1>3. m # 0
  <2>1. P(0)
    <3> DEFINE f == [q \in {} |-> << >>]
    <3>1. f = [q \in 1 .. 0 |-> IF q = 1 THEN w[q] ELSE f[q-1] \o w[q]] OBVIOUS
    <3> QED BY <3>1
  <2> QED BY <2>1
<1>4. P(m - 1)
  <2>1. m - 1 \in Nat /\ ~ (m <= m - 1) BY <1>3
  <2>2. m - 1 \notin T BY <1>2, <2>1
  <2> QED BY <2>1, <2>2
<1>5. PICK g : g = [q \in 1 .. (m - 1) |-> IF q = 1 THEN w[q] ELSE g[q-1] \o w[q]]
  BY <1>4
<1> DEFINE f == [q \in 1 .. m |-> IF q = 1 THEN w[q] ELSE g[q-1] \o w[q]]
<1>6. \A q \in 1 .. m : q # 1 => f[q-1] = g[q-1]
  <2> TAKE q \in 1 .. m
  <2> HAVE q # 1
  <2>1. q - 1 \in 1 .. m /\ q - 1 \in 1 .. (m - 1) OBVIOUS
  <2>2. f[q-1] = IF q - 1 = 1 THEN w[q-1] ELSE g[(q-1)-1] \o w[q-1]
    BY <2>1
  <2>3. g[q-1] = IF q - 1 = 1 THEN w[q-1] ELSE g[(q-1)-1] \o w[q-1]
    BY <1>5, <2>1
  <2> QED BY <2>2, <2>3
<1>7. f = [q \in 1 .. m |-> IF q = 1 THEN w[q] ELSE f[q-1] \o w[q]]
  BY <1>6
<1> QED BY <1>7

LEMMA FlattenIs ==
    ASSUME NEW w, Len(w) \in Nat, Len(w) # 0
    PROVE  \E f : Flattens(w, Len(w), f) /\ Handler!FlattenSeq(w) = f[Len(w)]
<1> DEFINE f == CHOOSE f : f = [q \in 1 .. Len(w) |-> IF q = 1 THEN w[q] ELSE f[q-1] \o w[q]]
<1>1. \E g : g = [q \in 1 .. Len(w) |-> IF q = 1 THEN w[q] ELSE g[q-1] \o w[q]]
  BY FlattensExists, Zenon DEF Flattens
<1>2. Flattens(w, Len(w), f) BY <1>1, Zenon DEF Flattens
<1>3. Handler!FlattenSeq(w) = f[Len(w)]
  BY Zenon DEF Handler!FlattenSeq
<1> QED BY <1>2, <1>3

\* The recursion over a longer sequence agrees with the one over a shorter.
LEMMA FlattenAgrees ==
    ASSUME NEW s, NEW t, NEW n \in Nat, NEW m \in Nat, NEW f, NEW g, n <= m, n # 0,
           \A k \in 1 .. n : s[k] = t[k], Flattens(s, n, f), Flattens(t, m, g)
    PROVE  f[n] = g[n]
<1> DEFINE T == {k \in 1 .. n : f[k] # g[k]}
<1>1. SUFFICES ASSUME T # {} PROVE FALSE OBVIOUS
<1>2. PICK k \in T : \A j \in T : k <= j
  <2>1. T \in SUBSET Nat OBVIOUS
  <2> HIDE DEF T
  <2> QED BY <1>1, <2>1, Least
<1>3. k \in 1 .. n /\ k \in 1 .. m OBVIOUS
<1>4. f[k] = (IF k = 1 THEN s[k] ELSE f[k - 1] \o s[k])
  BY <1>3 DEF Flattens
<1>5. g[k] = (IF k = 1 THEN t[k] ELSE g[k - 1] \o t[k])
  BY <1>3 DEF Flattens
<1>6. s[k] = t[k] BY <1>3
<1>7. k # 1 => f[k - 1] = g[k - 1]
  <2>1. k # 1 => k - 1 \in 1 .. n /\ ~ (k <= k - 1)
    BY <1>3
  <2> QED BY <1>2, <2>1
<1> QED BY <1>4, <1>5, <1>6, <1>7

LEMMA ValNone == \A b : Val(b, 0) = << >>
<1> TAKE b
<1>1. PICK w : w = [q \in 1 .. 0 |-> Handler!Expand(b[q])] OBVIOUS
<1>2. Len(w) = 0 /\ w = << >> BY <1>1
<1>3. Handler!FlattenSeq(<< >>) = << >>
  BY Zenon DEF Handler!FlattenSeq
<1> QED BY <1>1, <1>2, <1>3 DEF Val

LEMMA ValStep ==
    ASSUME NEW b \in Body, NEW k \in 1 .. Len(b)
    PROVE  Val(b, k) = IF k = 1 THEN Handler!Expand(b[k])
                       ELSE Val(b, k - 1) \o Handler!Expand(b[k])
<1>0. Len(b) \in Nat /\ k \in Nat \ {0} BY DEF Body
<1>1. PICK t : t = [q \in 1 .. k |-> Handler!Expand(b[q])] OBVIOUS
<1>2. Len(t) = k /\ t[k] = Handler!Expand(b[k])
  BY <1>0, <1>1
<1>3. PICK g : Flattens(t, k, g) /\ Handler!FlattenSeq(t) = g[k]
  BY <1>0, <1>2, FlattenIs
<1>4. g[k] = IF k = 1 THEN t[k] ELSE g[k - 1] \o t[k]
  <2>1. k \in 1 .. k BY <1>0
  <2> QED BY <1>3, <2>1 DEF Flattens
<1>5. CASE k = 1 BY <1>1, <1>2, <1>3, <1>4, <1>5 DEF Val
<1>6. CASE k # 1
  <2>1. PICK n \in Nat \ {0} : n = k - 1 BY <1>0, <1>6
  <2>2. PICK s : s = [q \in 1 .. n |-> Handler!Expand(b[q])] OBVIOUS
  <2>3. Len(s) = n /\ n <= k /\ \A q \in 1 .. n : s[q] = t[q]
    BY <1>0, <1>1, <2>1, <2>2
  <2>4. PICK f : Flattens(s, n, f) /\ Handler!FlattenSeq(s) = f[n]
    BY <2>1, <2>3, FlattenIs
  <2>5. (\A q \in 1 .. n : s[q] = t[q]) /\ n <= k /\ Flattens(s, n, f) /\ Flattens(t, k, g)
          => f[n] = g[n]
    BY <1>0, FlattenAgrees, SMT
  <2>6. f[n] = g[n] BY <1>3, <2>3, <2>4, <2>5
  <2>7. Val(b, n) = f[n] /\ Val(b, k) = g[k]
    BY <1>1, <1>3, <2>2, <2>4 DEF Val
  <2> QED BY <1>2, <1>4, <1>6, <2>1, <2>6, <2>7
<1> QED BY <1>5, <1>6

\* Chunks that stand for the same make the same image.
LEMMA ValSame ==
    ASSUME NEW a, NEW b, NEW k \in Nat, \A q \in 1 .. k : a[q] = b[q]
    PROVE  Val(a, k) = Val(b, k)
<1>1. [q \in 1 .. k |-> Handler!Expand(a[q])] = [q \in 1 .. k |-> Handler!Expand(b[q])] OBVIOUS
<1> QED BY <1>1, Zenon DEF Val

LEMMA UnitSeq == \A s : s \in Seq(Units) => IsSeq(s) /\ Len(s) \in Nat
BY DEF IsSeq

LEMMA CatUnits ==
    ASSUME NEW s \in Seq(Units), NEW t \in Seq(Units)
    PROVE  s \o t \in Seq(Units)
<1> DEFINE S == Units
<1> HIDE DEF S
<1>1. \A x, y : x \in Seq(S) /\ y \in Seq(S) => x \o y \in Seq(S) OBVIOUS
<1> QED BY <1>1 DEF S

LEMMA OffNone == \A b : Off(b, 0) = 0
BY BlocksNone, BlockOK DEF Off

LEMMA ValNext ==
    ASSUME NEW b \in Body, NEW n \in 1 .. Len(b), ValKnown(b, n - 1)
    PROVE  ValKnown(b, n)
<1>0. Len(b) \in Nat /\ n \in Nat BY DEF Body
<1>1. PICK v : v = Val(b, n - 1) OBVIOUS
<1>2. PICK x : x = Handler!Expand(b[n]) OBVIOUS
<1>3. v \in Seq(Units) /\ Len(v) = Off(b, n - 1) /\ x \in Seq(Units) /\ Len(x) = BlockSize * b[n].sz
  BY <1>1, <1>2, ExpandIs DEF ValKnown
<1>4. Val(b, n) = v \o x
  <2>1. CASE n = 1
    <3>1. v = << >> BY <1>1, <2>1, ValNone
    <3>2. << >> \o x = x BY <1>3
    <3> QED BY <1>2, <2>1, <3>1, <3>2, ValStep
  <2>2. CASE n # 1 BY <1>1, <1>2, <2>2, ValStep
  <2> QED BY <2>1, <2>2
<1>5. IsSeq(v) /\ IsSeq(x) /\ Len(v) \in Nat /\ Len(x) \in Nat
  BY <1>3, UnitSeq
<1>6. PICK w : w = v \o x OBVIOUS
<1>7. /\ Len(w) = Len(v) + Len(x)
      /\ \A k \in 1 .. Len(v) : w[k] = v[k]
      /\ \A k \in 1 .. Len(x) : w[Len(v) + k] = x[k]
  BY <1>5, <1>6, CatSeq
<1>8. w \in Seq(Units) /\ Len(w) = Off(b, n)
  <2>1. w \in Seq(Units) BY <1>3, <1>6, CatUnits
  <2>2. Len(w) = Off(b, n) BY <1>3, <1>7, OffStep
  <2> QED BY <2>1, <2>2
<1>9. ASSUME NEW k \in 1 .. n, NEW j \in 1 .. BlockSize * b[k].sz
      PROVE  w[Off(b, k - 1) + j] = Handler!Expand(b[k])[j]
  <2>1. CASE k = n BY <1>2, <1>3, <1>7, <1>9, <2>1
  <2>2. CASE k # n
    <3>1. k \in 1 .. n - 1 /\ k \in 1 .. Len(b) /\ n - 1 \in 0 .. Len(b) /\ k \in 0 .. Len(b) /\ k <= n - 1
      BY <1>0, <2>2
    <3>2. /\ Off(b, k - 1) \in Nat /\ Off(b, k) = Off(b, k - 1) + BlockSize * b[k].sz
          /\ BlockSize * b[k].sz \in Nat
      BY <3>1, OffStep
    <3>3. Off(b, k) <= Off(b, n - 1) BY <3>1, OffOrder
    <3>4. Off(b, k - 1) + j \in 1 .. Len(v)
      BY <1>3, <1>5, <1>9, <3>2, <3>3, SMTT(30)
    <3>5. v[Off(b, k - 1) + j] = Handler!Expand(b[k])[j]
      BY <1>1, <1>9, <3>1 DEF ValKnown
    <3> QED BY <1>7, <3>4, <3>5
  <2> QED BY <2>1, <2>2
<1> QED BY <1>4, <1>6, <1>8, <1>9 DEF ValKnown

LEMMA ValIs ==
    ASSUME NEW b \in Body, NEW n \in 0 .. Len(b)
    PROVE  ValKnown(b, n)
<1> DEFINE T == {k \in 0 .. Len(b) : ~ ValKnown(b, k)}
<1>0. Len(b) \in Nat BY DEF Body
<1>1. SUFFICES ASSUME T # {} PROVE FALSE OBVIOUS
<1>2. PICK k \in T : \A j \in T : k <= j
  <2>1. T \in SUBSET Nat BY <1>0
  <2> HIDE DEF T
  <2> QED BY <1>1, <2>1, Least
<1>3. k # 0
  <2>1. Val(b, 0) = << >> /\ Off(b, 0) = 0
    BY ValNone, OffNone
  <2>2. << >> \in Seq(Units) /\ Len(<< >>) = 0 OBVIOUS
  <2>3. PICK v : v = Val(b, 0) OBVIOUS
  <2>4. v \in Seq(Units) /\ Len(v) = Off(b, 0)
    BY <2>1, <2>2, <2>3
  <2>5. ValKnown(b, 0) BY <2>3, <2>4 DEF ValKnown
  <2> QED BY <2>5
<1>4. k - 1 \in 0 .. Len(b) /\ ~ (k <= k - 1) /\ k \in 1 .. Len(b)
  BY <1>0, <1>3
<1>5. ValKnown(b, k - 1) BY <1>2, <1>4
<1> QED BY <1>4, <1>5, ValNext

\* What the first chunks stand for is at the beginning of the image.
LEMMA ValKeeps ==
    ASSUME NEW b \in Body, NEW m \in 0 .. Len(b)
    PROVE  Keeps(Val(b, Len(b)), Val(b, m))
<1>0. Len(b) \in Nat /\ Len(b) \in 0 .. Len(b)
  BY DEF Body
<1> DEFINE P(n) == Keeps(Val(b, n), Val(b, m))
           T == {n \in m .. Len(b) : ~ P(n)}
<1>1. SUFFICES ASSUME T # {} PROVE FALSE
  <2>1. Len(b) \in m .. Len(b) BY <1>0
  <2>2. P(Len(b))
    <3> HIDE DEF P
    <3> QED BY <1>1, <2>1
  <2> QED BY <2>2
<1>2. PICK n \in T : \A k \in T : n <= k
  <2>1. T \in SUBSET Nat BY <1>0
  <2> HIDE DEF T
  <2> QED BY <1>1, <2>1, Least
<1>3. n # m
  <2>1. P(m)
    <3>1. ValKnown(b, m) /\ Off(b, m) \in Nat
      BY ValIs, OffOrder
    <3> QED BY <3>1 DEF Keeps, ValKnown
  <2> QED BY <2>1
<1>5. n - 1 \in m .. Len(b) /\ n - 1 \in 0 .. Len(b) /\ ~ (n <= n - 1) /\ n \in 1 .. Len(b)
  BY <1>0, <1>3
<1>6. Keeps(Val(b, n - 1), Val(b, m)) BY <1>2, <1>5
<1>7. PICK v : v = Val(b, n - 1) OBVIOUS
<1>8. PICK x : x = Handler!Expand(b[n]) OBVIOUS
<1>9. IsSeq(v) /\ IsSeq(x) /\ Len(v) \in Nat /\ Len(x) \in Nat
  <2>1. v \in Seq(Units) /\ x \in Seq(Units)
    BY <1>5, <1>7, <1>8, ValIs, ExpandIs DEF ValKnown
  <2> QED BY <2>1, UnitSeq
<1>10. Val(b, n) = v \o x
  <2>1. CASE n = 1
    <3>1. v = << >> BY <1>7, <2>1, ValNone
    <3>2. << >> \o x = x BY <1>9 DEF IsSeq
    <3> QED BY <1>5, <1>8, <2>1, <3>1, <3>2, ValStep
  <2>2. CASE n # 1 BY <1>5, <1>7, <1>8, <2>2, ValStep
  <2> QED BY <2>1, <2>2
<1>11. PICK w : w = v \o x OBVIOUS
<1>12. Len(w) = Len(v) + Len(x) /\ \A k \in 1 .. Len(v) : w[k] = v[k]
  BY <1>9, <1>11, CatSeq
<1>13. PICK u : u = Val(b, m) OBVIOUS
<1>14. Len(u) \in Nat
  BY <1>13, ValIs, OffOrder DEF ValKnown
<1>15. Keeps(v, u) => Keeps(w, u)
  BY <1>9, <1>12, <1>14 DEF Keeps
<1> QED BY <1>2, <1>6, <1>7, <1>10, <1>11, <1>13, <1>15

\* What a chunk stands for, as the reading loop has it.
LEMMA UnitCases ==
    \A x, k :
        /\ x.kind = "raw" => Handler!UnitAt(x, k) = x.data[k]
        /\ x.kind = "fill" => Handler!UnitAt(x, k) = x.data[((k - 1) % Len(x.data)) + 1]
        /\ x.kind = "dontCare" => Handler!UnitAt(x, k) = 0
BY Zenon DEF Handler!UnitAt

LEMMA UnitIs ==
    ASSUME NEW b \in Body, NEW k \in 1 .. Len(b), NEW y, y.kind = b[k].kind, y.data = b[k].data,
           NEW j \in 1 .. BlockSize * b[k].sz
    PROVE  Handler!UnitAt(y, j) = Handler!Expand(b[k])[j]
<1>1. PICK x : x = b[k] OBVIOUS
<1>2. /\ x.sz \in Nat /\ x.data \in Seq(Units)
      /\ x.kind \in {"raw", "fill", "dontCare"}
      /\ x.kind = "raw" => Len(x.data) = x.sz * BlockSize
      /\ x.kind = "fill" => x.data # << >>
  BY <1>1, ChunkFacts
<1>3. PICK n \in Nat : n = x.sz * BlockSize /\ n = BlockSize * x.sz
  <2>1. PICK z \in Nat : z = x.sz BY <1>2
  <2>2. z * BlockSize \in Nat /\ z * BlockSize = BlockSize * z
    BY BlockOK
  <2> QED BY <2>1, <2>2
<1>4. y.kind = x.kind /\ y.data = x.data /\ j \in 1 .. n
  BY <1>1, <1>3
<1>5. CASE x.kind = "raw"
  BY <1>1, <1>4, <1>5, ExpandCases, UnitCases
<1>6. CASE x.kind = "fill"
  <2>1. Handler!Expand(x) = Handler!Repeat(x.data, n)
    BY <1>3, <1>6, ExpandCases
  <2>2. Handler!Repeat(x.data, n)[j] = x.data[((j - 1) % Len(x.data)) + 1]
    BY <1>2, <1>4, <1>6, RepeatIs
  <2>3. Handler!UnitAt(y, j) = y.data[((j - 1) % Len(y.data)) + 1]
    BY <1>4, <1>6, UnitCases
  <2> QED BY <1>1, <1>4, <2>1, <2>2, <2>3
<1>7. CASE x.kind = "dontCare"
  <2>1. Handler!Expand(x) = Handler!Zeros(n)
    BY <1>3, <1>7, ExpandCases
  <2>2. Handler!Zeros(n)[j] = 0 BY <1>4, ZerosAre
  <2>3. Handler!UnitAt(y, j) = 0
    BY <1>4, <1>7, UnitCases
  <2> QED BY <1>1, <2>1, <2>2, <2>3
<1> QED BY <1>2, <1>5, <1>6, <1>7
--------------------------------------------------
(* Reading the header. *)

LEMMA AppendSeq ==
    ASSUME NEW s, IsSeq(s), NEW x
    PROVE  /\ IsSeq(Append(s, x)) /\ Len(Append(s, x)) = Len(s) + 1
           /\ \A k \in 1 .. Len(s) : Append(s, x)[k] = s[k]
           /\ Append(s, x)[Len(s) + 1] = x
<1>1. PICK S : s \in Seq(S) BY DEF IsSeq
<1> DEFINE U == S \cup {x}
<1>2. s \in Seq(U) /\ x \in U BY <1>1
<1> HIDE DEF U
<1>3. Append(s, x) \in Seq(U) /\ Len(Append(s, x)) = Len(s) + 1
  BY <1>2
<1>4. \A k \in 1 .. Len(s) : Append(s, x)[k] = s[k]
  BY <1>2
<1>5. Append(s, x)[Len(s) + 1] = x BY <1>2
<1> QED BY <1>3, <1>4, <1>5 DEF IsSeq

LEMMA ReadsExists ==
    ASSUME NEW b, NEW n \in Nat
    PROVE  \E r : Reads(b, n, r)
<1> DEFINE R(m, r) == r = [k \in 0 .. m |-> IF k = 0 THEN << >>
                                            ELSE IF b[k].kind = "crc" THEN r[k - 1]
                                            ELSE Append(r[k - 1], ChunkOf(b, k))]
           P(m) == \E r : R(m, r)
           T == {m \in Nat : ~ P(m)}
<1>1. SUFFICES ASSUME T # {} PROVE FALSE BY DEF Reads
<1>2. PICK m \in T : \A j \in T : m <= j BY <1>1, Least
<1>3. m # 0
  <2>1. P(0)
    <3> DEFINE f == [k \in {0} |-> << >>]
    <3>1. R(0, f) OBVIOUS
    <3> QED BY <3>1
  <2> QED BY <2>1
<1>4. P(m - 1)
  <2>1. m - 1 \in Nat /\ ~ (m <= m - 1) BY <1>3
  <2>2. m - 1 \notin T BY <1>2, <2>1
  <2> QED BY <2>1, <2>2
<1>5. PICK g : R(m - 1, g) BY <1>4
<1> DEFINE f == [k \in 0 .. m |-> IF k = 0 THEN << >>
                                  ELSE IF b[k].kind = "crc" THEN g[k - 1]
                                  ELSE Append(g[k - 1], ChunkOf(b, k))]
<1>6. \A k \in 0 .. m : k # 0 => f[k - 1] = g[k - 1]
  <2> TAKE k \in 0 .. m
  <2> HAVE k # 0
  <2>1. k - 1 \in 0 .. m /\ k - 1 \in 0 .. (m - 1) OBVIOUS
  <2>2. f[k - 1] = IF k - 1 = 0 THEN << >>
                   ELSE IF b[k - 1].kind = "crc" THEN g[(k - 1) - 1]
                   ELSE Append(g[(k - 1) - 1], ChunkOf(b, k - 1))
    BY <2>1
  <2>3. g[k - 1] = IF k - 1 = 0 THEN << >>
                   ELSE IF b[k - 1].kind = "crc" THEN g[(k - 1) - 1]
                   ELSE Append(g[(k - 1) - 1], ChunkOf(b, k - 1))
    BY <1>5, <2>1
  <2> QED BY <2>2, <2>3
<1>7. R(m, f) BY <1>6
<1> QED BY <1>7

LEMMA ChunksRead ==
    ASSUME NEW f, Len(f.body) \in Nat
    PROVE  \E r : Reads(f.body, Len(f.body), r) /\ Handler!Chunks(f) = r[Len(f.body)]
<1> DEFINE g == CHOOSE r : r = [k \in 0 .. Len(f.body) |->
                    IF k = 0 THEN << >>
                    ELSE IF f.body[k].kind = "crc" THEN r[k - 1]
                    ELSE Append(r[k - 1], ChunkOf(f.body, k))]
<1>1. Reads(f.body, Len(f.body), g)
  BY ReadsExists, Zenon DEF Reads
<1>2. Handler!Chunks(f) = g[Len(f.body)]
  BY Zenon DEF Handler!Chunks, ChunkOf
<1> QED BY <1>1, <1>2

LEMMA ChunksAre ==
    ASSUME NEW f, NEW b \in Body, f.body = b
    PROVE  Lists(Handler!Chunks(f), b)
<1>0. Len(b) \in Nat BY DEF Body
<1>1. PICK r : Reads(b, Len(b), r) /\ Handler!Chunks(f) = r[Len(b)]
  BY <1>0, ChunksRead
<1> DEFINE P(n) == IsSeq(r[n]) /\ Len(r[n]) = n /\ \A k \in 1 .. n : r[n][k] = ChunkOf(b, k)
           T == {n \in 0 .. Len(b) : ~ P(n)}
<1>2. SUFFICES ASSUME T # {} PROVE FALSE
  <2>1. Len(b) \in 0 .. Len(b) BY <1>0
  <2>2. P(Len(b))
    <3> HIDE DEF P
    <3> QED BY <1>2, <2>1
  <2> QED BY <1>1, <2>2 DEF Lists
<1>3. PICK n \in T : \A m \in T : n <= m
  <2>1. T \in SUBSET Nat BY <1>0
  <2> HIDE DEF T
  <2> QED BY <1>2, <2>1, Least
<1>4. n # 0
  <2>1. r[0] = << >> BY <1>0, <1>1 DEF Reads
  <2>2. IsSeq(<< >>) /\ Len(<< >>) = 0
    BY EmptySeq DEF IsSeq
  <2>3. P(0) BY <2>1, <2>2
  <2> QED BY <2>3
<1>5. n - 1 \in 0 .. Len(b) /\ ~ (n <= n - 1) /\ n \in 1 .. Len(b) /\ n \in 0 .. Len(b) /\ n - 1 \in Nat
  BY <1>0, <1>4
<1>6. P(n - 1) BY <1>3, <1>5
<1>7. b[n].kind # "crc" BY <1>5, ChunkFacts
<1>8. r[n] = IF n = 0 THEN << >> ELSE IF b[n].kind = "crc" THEN r[n - 1]
             ELSE Append(r[n - 1], ChunkOf(b, n))
  BY <1>1, <1>5, Zenon DEF Reads
<1>9. PICK x : x = ChunkOf(b, n) OBVIOUS
<1>10. PICK s : s = r[n - 1] OBVIOUS
<1>11. r[n] = Append(s, x)
  BY <1>4, <1>7, <1>8, <1>9, <1>10, Zenon
<1>12. IsSeq(s) /\ Len(s) = n - 1 /\ \A k \in 1 .. n - 1 : s[k] = ChunkOf(b, k)
  BY <1>6, <1>10
<1>13. PICK t : t = Append(s, x) OBVIOUS
<1>14. IsSeq(t) /\ Len(t) = Len(s) + 1 /\ t[Len(s) + 1] = x /\ \A k \in 1 .. Len(s) : t[k] = s[k]
  BY <1>12, <1>13, AppendSeq
<1>15. (n - 1) + 1 = n BY <1>5
<1>16. IsSeq(t) /\ Len(t) = n /\ t[n] = x
  BY <1>12, <1>14, <1>15
<1>17. \A k \in 1 .. n : t[k] = ChunkOf(b, k)
  <2> TAKE k \in 1 .. n
  <2>1. CASE k = n BY <1>9, <1>16, <2>1
  <2>2. CASE k # n
    <3>1. k \in 1 .. n - 1 BY <1>5, <2>2
    <3> QED BY <1>12, <1>14, <3>1
  <2> QED BY <2>1, <2>2
<1>18. P(n) BY <1>11, <1>13, <1>16, <1>17
<1> QED BY <1>18

LEMMA SparseHeader ==
    ASSUME NEW b \in Body, NEW f, f = Handler!Sparse(b)
    PROVE  /\ f.sparse = TRUE /\ f.body = b /\ f.chunks = Len(b)
           /\ f.blocks = Handler!Blocks(b, Len(b))
           /\ Handler!ReadHeader(f)
                = [sparse |-> TRUE, blocks |-> Handler!Blocks(b, Len(b)), count |-> Len(b),
                   end |-> Len(b), chunks |-> Handler!Chunks(f), size |-> Off(b, Len(b))]
           /\ Lists(Handler!Chunks(f), b)
<1>1. /\ f.sparse = TRUE /\ f.body = b /\ f.chunks = Len(b)
      /\ f.blocks = Handler!Blocks(b, Len(b))
  BY DEF Handler!Sparse
<1>2. ~ Handler!Malformed(f)
  <2>1. \A k \in 1 .. Len(b) : b[k].kind = "raw" => Len(b[k].data) = b[k].sz * BlockSize
    BY ChunkFacts
  <2> QED BY <1>1, <2>1 DEF Handler!Malformed
<1>3. Lists(Handler!Chunks(f), b) BY <1>1, ChunksAre
<1> QED BY <1>1, <1>2, <1>3 DEF Handler!ReadHeader, Off

LEMMA PlainHeader ==
    ASSUME NEW u \in Seq(Units), u # << >>, NEW f, f = Handler!Plain(u)
    PROVE  /\ f.sparse = FALSE /\ f.body = u /\ f.chunks = 0 /\ f.blocks = 0
           /\ Handler!ReadHeader(f)
                = [sparse |-> FALSE, blocks |-> 0, count |-> 0, end |-> Len(u),
                   chunks |-> << >>, size |-> Len(u)]
<1>1. f.sparse = FALSE /\ f.body = u /\ f.chunks = 0 /\ f.blocks = 0
  BY DEF Handler!Plain
<1>2. ~ Handler!Malformed(f)
  BY <1>1 DEF Handler!Malformed
<1> QED BY <1>1, <1>2 DEF Handler!ReadHeader
--------------------------------------------------
(* The handler and the file it has open. *)

LEMMA ContentShows == Handler!Content = Shows(file, mem) /\ Handler!Content' = Shows(file', mem')
BY DEF Handler!Content, Shows

LEMMA SizeOK == BlockSize \in Nat \ {0} /\ 0 \in Units
BY ImagesAssumption DEF Handler!ImageHandlerAssumption

LEMMA SparseIs ==
    ASSUME NEW f, f.sparse = TRUE, Handler!WellFormed(f)
    PROVE  f.body \in Body /\ f = Handler!Sparse(f.body) /\ Len(f.body) \in Nat /\ IsSeq(f.body)
<1>1. f.body \in Body /\ f = Handler!Sparse(f.body)
  BY DEF Handler!WellFormed, Body
<1> DEFINE S == Handler!Stored
<1> HIDE DEF S
<1>2. f.body \in Seq(S) BY <1>1 DEF Body, S
<1> QED BY <1>1, <1>2 DEF IsSeq

LEMMA PlainIs ==
    ASSUME NEW f, f.sparse = FALSE, Handler!WellFormed(f)
    PROVE  /\ f.body \in Seq(Units) /\ f.body # << >> /\ f = Handler!Plain(f.body)
           /\ Len(f.body) \in Nat /\ Len(f.body) > 0 /\ IsSeq(f.body)
<1>1. f.body \in Seq(Units) /\ f.body # << >> /\ f = Handler!Plain(f.body)
  BY DEF Handler!WellFormed
<1> DEFINE S == Units
<1> HIDE DEF S
<1>2. f.body \in Seq(S) BY <1>1 DEF S
<1>3. Len(f.body) \in Nat /\ Len(f.body) > 0 /\ IsSeq(f.body)
  BY <1>1, <1>2 DEF IsSeq
<1> QED BY <1>1, <1>3

\* What the handler says of the image.
LEMMA KnownIs ==
    ASSUME NEW f, NEW fl, NEW m, NEW fd, Known(f, fl, m, fd)
    PROVE  /\ m.sparse = f.sparse /\ m.end = Len(f.body) /\ m # Handler!Broken
           /\ m.size = Len(Value(f)) /\ Value(f) \in Seq(Units) /\ m.size \in Nat
           /\ fl.sparse = f.sparse
           /\ m.count = f.chunks /\ m.blocks = f.blocks
           /\ f.sparse => m.size = Off(f.body, Len(f.body)) /\ Lists(m.chunks, f.body)
           /\ Shows(fl, m) = Value(f)
<1>0. f.sparse \in BOOLEAN /\ Handler!WellFormed(f) /\ m = Handler!ReadHeader(f)
  BY DEF Known
<1>a. fl.sparse = f.sparse BY DEF Known
<1>1. CASE f.sparse = TRUE
  <2>1. PICK b : b = f.body OBVIOUS
  <2>2. b \in Body /\ f = Handler!Sparse(b) /\ Len(b) \in Nat
    BY <1>0, <1>1, <2>1, SparseIs, PlainIs
  <2>3. /\ m.sparse = TRUE /\ m.end = Len(b) /\ m.size = Off(b, Len(b))
        /\ m.count = f.chunks /\ m.blocks = f.blocks /\ Lists(m.chunks, b)
    <3>1. /\ f.chunks = Len(b) /\ f.blocks = Handler!Blocks(b, Len(b))
          /\ m = [sparse |-> TRUE, blocks |-> Handler!Blocks(b, Len(b)), count |-> Len(b),
                  end |-> Len(b), chunks |-> Handler!Chunks(f), size |-> Off(b, Len(b))]
          /\ Lists(Handler!Chunks(f), b)
      BY <1>0, <2>2, SparseHeader, Zenon
    <3>2. PICK cs : cs = Handler!Chunks(f) OBVIOUS
    <3> QED BY <3>1, <3>2
  <2>4. ValKnown(b, Len(b)) /\ Off(b, Len(b)) \in Nat
    BY <2>2, ValIs, OffOrder
  <2>5. m # Handler!Broken
    BY <2>3, <2>4 DEF Handler!Broken
  <2>6. Value(f) = Val(b, Len(b))
    BY <1>1, <2>1 DEF Value
  <2>7. \A k \in 1 .. Len(b) : fl.body[k] = b[k]
    BY <2>1 DEF Known, Keeps
  <2>8. Shows(fl, m) = Val(fl.body, Len(b))
    BY <1>1, <1>a, <2>3 DEF Shows, Val
  <2>9. Val(fl.body, Len(b)) = Val(b, Len(b))
    BY <2>2, <2>7, ValSame
  <2> QED BY <1>1, <1>a, <2>1, <2>3, <2>4, <2>5, <2>6, <2>8, <2>9 DEF ValKnown
<1>2. CASE f.sparse = FALSE
  <2>1. PICK u : u = f.body OBVIOUS
  <2>2. u \in Seq(Units) /\ u # << >> /\ f = Handler!Plain(u) /\ Len(u) \in Nat /\ IsSeq(u)
    BY <1>0, <1>2, <2>1, SparseIs, PlainIs
  <2>3. /\ m.sparse = FALSE /\ m.end = Len(u) /\ m.size = Len(u)
        /\ m.count = f.chunks /\ m.blocks = f.blocks
    <3>1. /\ f.chunks = 0 /\ f.blocks = 0
          /\ m = [sparse |-> FALSE, blocks |-> 0, count |-> 0, end |-> Len(u),
                  chunks |-> << >>, size |-> Len(u)]
      BY <1>0, <2>2, PlainHeader, Zenon
    <3> QED BY <3>1
  <2>5. m # Handler!Broken
    BY <2>2, <2>3 DEF Handler!Broken
  <2>6. Value(f) = u BY <1>2, <2>1 DEF Value
  <2>7. PICK w : w = fl.body OBVIOUS
  <2>8. IsSeq(w) /\ Len(u) <= Len(w) /\ \A k \in 1 .. Len(u) : w[k] = u[k]
    BY <2>1, <2>7 DEF Known, Keeps
  <2>9. PICK v : v = SubSeq(w, 1, Len(u)) OBVIOUS
  <2>10. IsSeq(v) /\ Len(v) = Len(u) /\ \A k \in 1 .. Len(u) : v[k] = w[k]
    BY <2>2, <2>8, <2>9, PreSeq
  <2>11. v = u BY <2>2, <2>8, <2>10, SameSeq
  <2>12. Shows(fl, m) = v
    BY <1>2, <1>a, <2>3, <2>7, <2>9 DEF Shows
  <2> QED BY <1>2, <1>a, <2>1, <2>2, <2>3, <2>5, <2>6, <2>11, <2>12
<1> QED BY <1>0, <1>1, <1>2

\* A file that has just been read.
LEMMA Read_ ==
    ASSUME NEW g, g.sparse \in BOOLEAN, Handler!WellFormed(g)
    PROVE  Known(g, g, Handler!ReadHeader(g), "no")
<1>1. IsSeq(g.body) /\ Len(g.body) \in Nat
  BY SparseIs, PlainIs
<1>2. Keeps(g.body, g.body) BY <1>1 DEF Keeps
<1>3. CASE g.sparse = TRUE
  <2>1. g = Handler!Sparse(g.body)
    BY <1>3, SparseIs, PlainIs
  <2>2. g = [sparse |-> g.sparse, blocks |-> g.blocks, chunks |-> g.chunks, body |-> g.body]
    BY <2>1 DEF Handler!Sparse
  <2> QED BY <1>1, <1>2, <1>3, <2>2 DEF Known
<1>4. CASE g.sparse = FALSE
  <2>1. g = Handler!Plain(g.body) /\ g.body \in Seq(Units)
    BY <1>4, SparseIs, PlainIs
  <2>2. /\ g = [sparse |-> g.sparse, blocks |-> g.blocks, chunks |-> g.chunks, body |-> g.body]
        /\ g.blocks = 0 /\ g.chunks = 0
    BY <2>1 DEF Handler!Plain
  <2> QED BY <1>1, <1>2, <1>4, <2>1, <2>2 DEF Known
<1> QED BY <1>3, <1>4

LEMMA StaysResult ==
    ASSUME NEW f, Known(f, file, mem, failed), UNCHANGED <<file, mem>>, cursor' \in Nat,
           failed' = failed \/ (failed' = "restored" /\ failed = "yes" /\ file.sparse),
           returned' = << >>
    PROVE  Result(f)
<1>1. Known(f, file', mem', failed') BY DEF Known
<1>2. Moves(Value(f), Value(f)) BY DEF Moves
<1>3. returned' \in Seq(Units) OBVIOUS
<1> QED BY <1>1, <1>2, <1>3 DEF Result

LEMMA RereadResult ==
    ASSUME NEW f, NEW g, Reads_(g), Moves(Value(f), Value(g))
    PROVE  Result(f)
<1>1. mem' = Handler!ReadHeader(g) /\ failed' = "no" /\ cursor' = 0 /\ returned' = << >>
  BY DEF Handler!Reread, Reads_
<1>2. Known(g, file', mem', failed')
  BY <1>1, Read_ DEF Reads_
<1>3. returned' \in Seq(Units) /\ cursor' \in Nat
  BY <1>1
<1> QED BY <1>2, <1>3 DEF Result

LEMMA GrowsResult ==
    ASSUME NEW f, NEW g, Reads_(g), NEW u \in Seq(Units), Value(g) = Value(f) \o u
    PROVE  Result(f)
<1>1. cursor' = 0 /\ returned' = << >>
  BY DEF Handler!Reread, Reads_
<1>2. Moves(Value(f), Value(g)) BY <1>1 DEF Moves
<1> QED BY <1>2, RereadResult

LEMMA CutsResult ==
    ASSUME NEW f, NEW g, Reads_(g), Keeps(Value(f), Value(g))
    PROVE  Result(f)
<1>1. cursor' = 0 /\ returned' = << >>
  BY DEF Handler!Reread, Reads_
<1>2. Moves(Value(f), Value(g)) BY <1>1 DEF Moves
<1> QED BY <1>2, RereadResult

LEMMA RefusedResult ==
    ASSUME NEW f, Known(f, file, mem, failed), cursor \in Nat, Handler!Refused
    PROVE  Result(f)
BY StaysResult DEF Handler!Refused

\* One more chunk.
LEMMA AppendBody ==
    ASSUME NEW b \in Body, NEW x \in Handler!Stored
    PROVE  /\ Append(b, x) \in Body /\ Len(Append(b, x)) = Len(b) + 1
           /\ Handler!Blocks(Append(b, x), Len(b) + 1) = Handler!Blocks(b, Len(b)) + x.sz
           /\ Val(Append(b, x), Len(b) + 1) = Val(b, Len(b)) \o Handler!Expand(x)
<1> DEFINE S == Handler!Stored
<1>1. b \in Seq(S) /\ x \in S BY DEF Body
<1>2. PICK t : t = Append(b, x) OBVIOUS
<1> HIDE DEF S
<1>3. /\ t \in Seq(S) /\ Len(t) = Len(b) + 1 /\ Len(b) \in Nat /\ t[Len(b) + 1] = x
      /\ \A k \in 1 .. Len(b) : t[k] = b[k]
  BY <1>1, <1>2
<1>4. t \in Body BY <1>3 DEF Body, S
<1>5. Handler!Blocks(t, Len(b)) = Handler!Blocks(b, Len(b))
  BY <1>3, BlocksSame
<1>6. Handler!Blocks(t, Len(b) + 1) = Handler!Blocks(t, Len(b)) + x.sz
  BY <1>3, BlocksStep
<1>7. Val(t, Len(b)) = Val(b, Len(b)) BY <1>3, ValSame
<1>8. PICK n \in Nat : n = Len(b) + 1 BY <1>3
<1>9. n \in 1 .. Len(t) /\ n - 1 = Len(b) BY <1>3, <1>8
<1>10. Val(t, n) = IF n = 1 THEN Handler!Expand(t[n]) ELSE Val(t, n - 1) \o Handler!Expand(t[n])
  BY <1>4, <1>9, ValStep
<1>11. Val(t, n) = Val(b, Len(b)) \o Handler!Expand(x)
  <2>1. CASE n # 1
    BY <1>3, <1>7, <1>8, <1>9, <1>10, <2>1
  <2>2. CASE n = 1
    <3>1. Val(b, Len(b)) = << >>
      <4>1. Len(b) = 0 BY <1>9, <2>2
      <4> QED BY <4>1, ValNone
    <3>2. Handler!Expand(t[n]) \in Seq(Units)
      BY <1>4, <1>9, ExpandIs
    <3>3. << >> \o Handler!Expand(t[n]) = Handler!Expand(t[n])
      BY <3>2
    <3> QED BY <1>3, <1>8, <1>10, <2>2, <3>1, <3>3
  <2> QED BY <2>1, <2>2
<1> QED BY <1>2, <1>3, <1>4, <1>5, <1>6, <1>8, <1>11

LEMMA AppendStep ==
    ASSUME NEW f, Known(f, file, mem, failed), Handler!Usable, NEW x, NEW u \in Seq(Units),
           mem.sparse => x \in Handler!Stored /\ Handler!Expand(x) = u,
           Handler!Append_(x, u)
    PROVE  Result(f)
<1>0. f.sparse \in BOOLEAN /\ Handler!WellFormed(f) /\ file = f
  BY DEF Known, Handler!Usable
<1>1. mem.sparse = f.sparse /\ mem.count = f.chunks /\ mem.blocks = f.blocks
  BY KnownIs
<1>2. Handler!Reread BY DEF Handler!Append_
<1>3. CASE f.sparse = TRUE
  <2>1. PICK b : b = f.body OBVIOUS
  <2>2. b \in Body /\ f = Handler!Sparse(b) /\ Len(b) \in Nat
    BY <1>0, <1>3, <2>1, SparseIs, PlainIs
  <2>3. f.blocks = Handler!Blocks(b, Len(b)) /\ f.chunks = Len(b)
    BY <2>2, SparseHeader
  <2>4. x \in Handler!Stored /\ Handler!Expand(x) = u
    BY <1>1, <1>3
  <2>5. PICK t : t = Append(b, x) OBVIOUS
  <2>6. /\ t \in Body /\ Len(t) = Len(b) + 1
        /\ Handler!Blocks(t, Len(t)) = f.blocks + x.sz
        /\ Val(t, Len(t)) = Val(b, Len(b)) \o u
    BY <2>2, <2>3, <2>4, <2>5, AppendBody
  <2>7. file' = [file EXCEPT !.blocks = mem.blocks + x.sz, !.chunks = mem.count + 1,
                             !.body = Append(@, x)]
    BY <1>1, <1>3 DEF Handler!Append_
  <2>8. file = [sparse |-> TRUE, blocks |-> f.blocks, chunks |-> f.chunks, body |-> b]
    BY <1>0, <2>2, <2>3 DEF Handler!Sparse
  <2>9. file' = [sparse |-> TRUE, blocks |-> f.blocks + x.sz, chunks |-> f.chunks + 1, body |-> t]
    BY <1>1, <2>5, <2>7, <2>8
  <2>10. PICK g : g = Handler!Sparse(t) OBVIOUS
  <2>11. file' = g
    BY <2>3, <2>6, <2>9, <2>10 DEF Handler!Sparse
  <2>12. g.sparse = TRUE /\ g.body = t
    BY <2>10 DEF Handler!Sparse
  <2>13. Handler!WellFormed(g)
    BY <2>6, <2>10, <2>12 DEF Handler!WellFormed, Body
  <2>14. Value(g) = Value(f) \o u
    BY <1>3, <2>1, <2>6, <2>12 DEF Value
  <2>15. Reads_(g)
    BY <1>2, <2>11, <2>12, <2>13 DEF Reads_
  <2> QED BY <2>14, <2>15, GrowsResult
<1>4. CASE f.sparse = FALSE
  <2>1. PICK b : b = f.body OBVIOUS
  <2>2. b \in Seq(Units) /\ b # << >> /\ f = Handler!Plain(b)
    BY <1>0, <1>4, <2>1, SparseIs, PlainIs
  <2>3. PICK t : t = b \o u OBVIOUS
  <2>4. t \in Seq(Units) /\ t # << >>
    <3>1. t \in Seq(Units) BY <2>2, <2>3, CatUnits
    <3>2. IsSeq(b) /\ IsSeq(u) /\ Len(b) \in Nat /\ Len(u) \in Nat /\ Len(b) # 0
      BY <2>2, UnitSeq, LenNat
    <3>3. Len(t) = Len(b) + Len(u) BY <2>3, <3>2, CatSeq
    <3>4. Len(t) # 0 BY <3>2, <3>3
    <3> QED BY <3>1, <3>4
  <2>5. file' = [file EXCEPT !.body = @ \o u]
    BY <1>1, <1>4 DEF Handler!Append_
  <2>6. file = [sparse |-> FALSE, blocks |-> 0, chunks |-> 0, body |-> b]
    BY <1>0, <2>2 DEF Handler!Plain
  <2>7. file' = [sparse |-> FALSE, blocks |-> 0, chunks |-> 0, body |-> t]
    BY <2>3, <2>5, <2>6
  <2>8. PICK g : g = Handler!Plain(t) OBVIOUS
  <2>9. file' = g /\ g.sparse = FALSE /\ g.body = t
    BY <2>7, <2>8 DEF Handler!Plain
  <2>10. Handler!WellFormed(g)
    BY <2>4, <2>8, <2>9 DEF Handler!WellFormed
  <2>11. Value(g) = Value(f) \o u
    BY <1>4, <2>1, <2>3, <2>9 DEF Value
  <2>12. Reads_(g) BY <1>2, <2>9, <2>10 DEF Reads_
  <2> QED BY <2>11, <2>12, GrowsResult
<1> QED BY <1>0, <1>3, <1>4
--------------------------------------------------
(* Appending and seeking. *)

LEMMA Divides ==
    ASSUME NEW n \in Nat, Handler!Aligned(n)
    PROVE  n \div BlockSize \in Nat /\ (n \div BlockSize) * BlockSize = n
BY SizeOK DEF Handler!Aligned

LEMMA DontCareIs ==
    ASSUME NEW n \in Nat, Handler!Aligned(n)
    PROVE  /\ Handler!DontCare(n) \in Handler!Stored
           /\ Handler!Expand(Handler!DontCare(n)) = Handler!Zeros(n)
<1>1. PICK x : x = Handler!DontCare(n) OBVIOUS
<1>2. x = [kind |-> "dontCare", sz |-> n \div BlockSize, data |-> << >>]
  BY <1>1 DEF Handler!DontCare
<1>3. << >> \in Seq(Units) OBVIOUS
<1>4. x \in Handler!Stored
  BY <1>2, <1>3, Divides DEF Handler!Stored
<1>5. x.kind = "dontCare" /\ x.sz * BlockSize = n
  BY <1>2, Divides
<1> QED BY <1>1, <1>4, <1>5, ExpandCases

LEMMA RawIs ==
    ASSUME NEW u \in Seq(Units), Handler!Aligned(Len(u))
    PROVE  /\ Handler!Raw(u) \in Handler!Stored
           /\ Handler!Expand(Handler!Raw(u)) = u
<1>1. PICK x : x = Handler!Raw(u) OBVIOUS
<1>2. PICK n \in Nat : n = Len(u) BY UnitSeq
<1>3. x = [kind |-> "raw", sz |-> n \div BlockSize, data |-> u]
  BY <1>1, <1>2 DEF Handler!Raw
<1>4. n \div BlockSize \in Nat /\ (n \div BlockSize) * BlockSize = n
  BY <1>2, Divides
<1>5. x \in Handler!Stored
  BY <1>2, <1>3, <1>4 DEF Handler!Stored
<1>6. x.kind = "raw" /\ x.data = u BY <1>3
<1> QED BY <1>1, <1>5, <1>6, ExpandCases

LEMMA FillIs ==
    ASSUME NEW p \in Seq(Units), p # << >>, NEW n \in Nat, Handler!Aligned(n)
    PROVE  /\ Handler!Fill(p, n) \in Handler!Stored
           /\ Handler!Expand(Handler!Fill(p, n)) = Handler!Repeat(p, n)
<1>1. PICK x : x = Handler!Fill(p, n) OBVIOUS
<1>2. x = [kind |-> "fill", sz |-> n \div BlockSize, data |-> p]
  BY <1>1 DEF Handler!Fill
<1>3. x \in Handler!Stored
  BY <1>2, Divides DEF Handler!Stored
<1>4. x.kind = "fill" /\ x.sz * BlockSize = n /\ x.data = p
  BY <1>2, Divides
<1> QED BY <1>1, <1>3, <1>4, ExpandCases

LEMMA DontCareStep ==
    ASSUME NEW f, Known(f, file, mem, failed), cursor \in Nat,
           NEW n \in Nat, Handler!AppendDontCare(n)
    PROVE  Result(f)
<1>1. CASE Handler!Aligned(n)
  <2>1. Handler!Usable /\ Handler!Append_(Handler!DontCare(n), Handler!Zeros(n))
    BY <1>1 DEF Handler!AppendDontCare
  <2>2. PICK x : x = Handler!DontCare(n) OBVIOUS
  <2>3. PICK u \in Seq(Units) : u = Handler!Zeros(n)
    BY ZerosAre
  <2>4. x \in Handler!Stored /\ Handler!Expand(x) = u
    BY <1>1, <2>2, <2>3, DontCareIs
  <2>5. Handler!Append_(x, u) BY <2>1, <2>2, <2>3
  <2> QED BY <2>1, <2>4, <2>5, AppendStep
<1>2. CASE ~ Handler!Aligned(n)
  <2>1. Handler!Refused
    BY <1>2 DEF Handler!AppendDontCare
  <2> QED BY <2>1, RefusedResult
<1> QED BY <1>1, <1>2

LEMMA RawStep ==
    ASSUME NEW f, Known(f, file, mem, failed), cursor \in Nat,
           NEW u \in Seq(Units), NEW multiple \in BOOLEAN, Handler!AppendRaw(u, multiple)
    PROVE  Result(f)
<1>1. CASE multiple /\ ~ Handler!Aligned(Len(u))
  <2>1. Handler!Refused BY <1>1 DEF Handler!AppendRaw
  <2> QED BY <2>1, RefusedResult
<1>2. CASE ~ (multiple /\ ~ Handler!Aligned(Len(u)))
  <2>1. Handler!Usable /\ Handler!Append_(Handler!Raw(u), u) /\ (multiple \/ ~ mem.sparse)
    BY <1>2 DEF Handler!AppendRaw
  <2>2. PICK x : x = Handler!Raw(u) OBVIOUS
  <2>3. Handler!Aligned(Len(u)) => x \in Handler!Stored /\ Handler!Expand(x) = u
    BY <2>2, RawIs
  <2>4. mem.sparse => x \in Handler!Stored /\ Handler!Expand(x) = u
    BY <1>2, <2>1, <2>3
  <2>5. Handler!Append_(x, u) BY <2>1, <2>2
  <2> QED BY <2>1, <2>4, <2>5, AppendStep
<1> QED BY <1>1, <1>2

LEMMA FillStep ==
    ASSUME NEW f, Known(f, file, mem, failed), cursor \in Nat,
           NEW p \in Seq(Units), p # << >>, NEW n \in Nat, Handler!AppendFill(p, n)
    PROVE  Result(f)
<1>1. CASE Handler!Aligned(n)
  <2>1. Handler!Usable /\ Handler!Append_(Handler!Fill(p, n), Handler!Repeat(p, n))
    BY <1>1 DEF Handler!AppendFill
  <2>2. PICK x : x = Handler!Fill(p, n) OBVIOUS
  <2>3. PICK u \in Seq(Units) : u = Handler!Repeat(p, n)
    BY RepeatIs
  <2>4. x \in Handler!Stored /\ Handler!Expand(x) = u
    BY <1>1, <2>2, <2>3, FillIs
  <2>5. Handler!Append_(x, u) BY <2>1, <2>2, <2>3
  <2> QED BY <2>1, <2>4, <2>5, AppendStep
<1>2. CASE ~ Handler!Aligned(n)
  <2>1. Handler!Refused BY <1>2 DEF Handler!AppendFill
  <2> QED BY <2>1, RefusedResult
<1> QED BY <1>1, <1>2

\* What an append that stopped has written is behind what was there.
LEMMA DiskFullStep ==
    ASSUME NEW f, Known(f, file, mem, failed), cursor \in Nat,
           NEW u \in Seq(Units), Handler!DiskFull(u)
    PROVE  Result(f)
<1>0. f.sparse \in BOOLEAN /\ Handler!WellFormed(f) /\ file = f /\ mem.sparse = f.sparse
  BY KnownIs DEF Known, Handler!DiskFull, Handler!Usable
<1>1. failed' = "yes" /\ returned' = << >> /\ mem' = mem /\ cursor' = cursor
  BY DEF Handler!DiskFull
<1>2. PICK k \in 0 .. (Len(u) - 1) :
         file' = IF mem.sparse
                 THEN [file EXCEPT !.blocks = mem.blocks + Handler!Raw(u).sz, !.chunks = mem.count + 1,
                         !.body = Append(@, [Handler!Raw(u) EXCEPT !.data = SubSeq(u, 1, k)])]
                 ELSE [file EXCEPT !.body = @ \o SubSeq(u, 1, k)]
  BY DEF Handler!DiskFull
<1>3. PICK b : b = f.body OBVIOUS
<1>4. CASE f.sparse = TRUE
  <2>1. f = Handler!Sparse(b) /\ IsSeq(b) /\ Len(b) \in Nat
    BY <1>0, <1>3, <1>4, SparseIs
  <2>2. PICK x : x = [Handler!Raw(u) EXCEPT !.data = SubSeq(u, 1, k)] OBVIOUS
  <2>3. PICK t : t = Append(b, x) OBVIOUS
  <2>4. IsSeq(t) /\ Keeps(t, b)
    BY <2>1, <2>3, AppendSeq DEF Keeps
  <2>5. PICK n, m : n = mem.blocks + Handler!Raw(u).sz /\ m = mem.count + 1 OBVIOUS
  <2>6. file' = [file EXCEPT !.blocks = n, !.chunks = m, !.body = Append(@, x)]
    BY <1>0, <1>2, <1>4, <2>2, <2>5
  <2>7. PICK y, z : file = [sparse |-> TRUE, blocks |-> y, chunks |-> z, body |-> b]
    BY <1>0, <2>1 DEF Handler!Sparse
  <2>8. file' = [sparse |-> TRUE, blocks |-> n, chunks |-> m, body |-> t]
    BY <2>3, <2>6, <2>7
  <2>9. file' = [sparse |-> f.sparse, blocks |-> file'.blocks, chunks |-> file'.chunks,
                 body |-> file'.body] /\ file'.body = t
    BY <1>4, <2>8
  <2>a. x.kind = "raw" /\ Len(x.data) # x.sz * BlockSize
    <3>1. PICK l, s : l = Len(u) /\ s = SubSeq(u, 1, k) OBVIOUS
    <3>2. Handler!Aligned(l) /\ l \in Nat /\ IsSeq(u) /\ k \in Nat /\ k < l
      BY <3>1, UnitSeq, LenNat DEF Handler!DiskFull
    <3>3. l = (l \div BlockSize) * BlockSize
      BY <3>2, Divides, Zenon
    <3>4. Len(s) = k BY <3>1, <3>2, PreSeq
    <3>5. x.kind = "raw" /\ x.sz = l \div BlockSize /\ x.data = s
      BY <2>2, <3>1 DEF Handler!Raw
    <3> QED BY <3>2, <3>3, <3>4, <3>5
  <2>b. Handler!Malformed(file')
    <3>1. file'.sparse = TRUE /\ file'.body = t BY <2>8
    <3>2. Len(t) \in Nat /\ Len(b) + 1 \in 1 .. Len(t) /\ t[Len(b) + 1] = x
      BY <2>1, <2>3, AppendSeq
    <3> QED BY <2>a, <3>1, <3>2 DEF Handler!Malformed
  <2>10. Known(f, file', mem', failed')
    <3> HIDE DEF Handler!Malformed
    <3> QED BY <1>1, <1>3, <1>4, <2>4, <2>9, <2>b DEF Known
  <2> QED BY <1>1, <2>10 DEF Result, Moves
<1>5. CASE f.sparse = FALSE
  <2>1. f = Handler!Plain(b) /\ b \in Seq(Units) /\ IsSeq(b) /\ Len(b) \in Nat
    BY <1>0, <1>3, <1>5, PlainIs
  <2>2. PICK x : x = SubSeq(u, 1, k) OBVIOUS
  <2>3. x \in Seq(Units) /\ IsSeq(x)
    <3> DEFINE S == Units
    <3> HIDE DEF S
    <3>1. u \in Seq(S) BY DEF S
    <3>2. \A j \in 1 .. k : u[j] \in S BY <3>1
    <3>3. SubSeq(u, 1, k) \in Seq(S) BY <3>1
    <3> QED BY <2>2, <3>3 DEF S, IsSeq
  <2>4. PICK t : t = b \o x OBVIOUS
  <2>5. t \in Seq(Units) /\ IsSeq(t) /\ Keeps(t, b)
    <3>1. t \in Seq(Units) BY <2>1, <2>3, <2>4, CatUnits
    <3>2. IsSeq(t) /\ Len(b) \in Nat /\ Len(x) \in Nat /\ Len(t) = Len(b) + Len(x)
          /\ \A j \in 1 .. Len(b) : t[j] = b[j]
      BY <2>1, <2>3, <2>4, CatSeq
    <3> QED BY <3>1, <3>2 DEF Keeps
  <2>6. file' = [file EXCEPT !.body = @ \o x]
    BY <1>0, <1>2, <1>5, <2>2
  <2>7. file = [sparse |-> FALSE, blocks |-> 0, chunks |-> 0, body |-> b]
    BY <1>0, <2>1 DEF Handler!Plain
  <2>8. file' = [sparse |-> FALSE, blocks |-> 0, chunks |-> 0, body |-> t]
    BY <2>4, <2>6, <2>7
  <2>9. /\ file' = [sparse |-> f.sparse, blocks |-> file'.blocks, chunks |-> file'.chunks,
                    body |-> file'.body]
        /\ file'.body = t /\ file'.blocks = 0 /\ file'.chunks = 0
    BY <1>5, <2>8
  <2>10. Known(f, file', mem', failed')
    BY <1>1, <1>3, <1>5, <2>5, <2>9 DEF Known
  <2> QED BY <1>1, <2>10 DEF Result, Moves
<1> QED BY <1>0, <1>4, <1>5

LEMMA SeekStep ==
    ASSUME NEW f, Known(f, file, mem, failed), cursor \in Nat,
           NEW o \in Int, Handler!Seek(o)
    PROVE  Result(f)
<1>1. CASE Handler!Negative(o)
  BY <1>1, RefusedResult DEF Handler!Seek
<1>2. CASE ~ Handler!Negative(o)
  <2>1. cursor' = o /\ o \in Nat /\ returned' = << >> /\ UNCHANGED <<file, mem, failed>>
    BY <1>2 DEF Handler!Seek, Handler!Negative
  <2> QED BY <2>1, StaysResult
<1> QED BY <1>1, <1>2
--------------------------------------------------
(* Cutting. *)

LEMMA MinIs ==
    ASSUME NEW x \in Int, NEW y \in Int
    PROVE  Handler!Min({x, y}) = IF x <= y THEN x ELSE y
BY DEF Handler!Min

LEMMA MaxIs ==
    ASSUME NEW n \in Nat, NEW S \in SUBSET (0 .. n), S # {}
    PROVE  Handler!Max(S) \in S /\ \A y \in S : Handler!Max(S) >= y
<1> DEFINE T == {n - k : k \in S}
<1>1. T \in SUBSET Nat /\ T # {}
  <2>1. \A k \in S : n - k \in Nat OBVIOUS
  <2>2. PICK k \in S : TRUE OBVIOUS
  <2>3. n - k \in T BY <2>2
  <2> QED BY <2>1, <2>3
<1>2. PICK m \in T : \A j \in T : m <= j
  <2> HIDE DEF T
  <2> QED BY <1>1, Least
<1>3. PICK x \in S : m = n - x OBVIOUS
<1>4. \A y \in S : x >= y
  <2> TAKE y \in S
  <2>1. n - y \in T /\ y \in 0 .. n /\ x \in 0 .. n
    BY <1>3
  <2>2. m <= n - y BY <1>2, <2>1
  <2> QED BY <1>3, <2>1, <2>2
<1>5. \E x_ \in S : \A y \in S : x_ >= y BY <1>3, <1>4
<1> QED BY <1>5, Zenon DEF Handler!Max

\* The chunk that an offset is in.
LEMMA AtChunkIs ==
    ASSUME NEW b \in Body, Len(b) > 0, Lists(mem.chunks, b), NEW o \in Nat
    PROVE  /\ Handler!ChunkAt(o) \in 1 .. Len(b)
           /\ Off(b, Handler!ChunkAt(o) - 1) <= o
           /\ Handler!ChunkAt(o) < Len(b) => o < Off(b, Handler!ChunkAt(o))
<1>0. Len(b) \in Nat /\ Len(mem.chunks) = Len(b)
  BY DEF Body, Lists
<1>1. PICK cs : cs = mem.chunks OBVIOUS
<1>2. \A k \in 1 .. Len(b) : cs[k].out = Off(b, k - 1)
  <2> TAKE k \in 1 .. Len(b)
  <2>1. cs[k] = ChunkOf(b, k) BY <1>1 DEF Lists
  <2>2. ChunkOf(b, k).out = Off(b, k - 1)
    BY DEF ChunkOf, Off
  <2> QED BY <2>1, <2>2
<1> DEFINE S == {0} \cup {k \in 1 .. Len(b) : Off(b, k - 1) <= o}
<1>3. Handler!ChunkAt(o) = Handler!Max(S)
  <2>1. {k \in 1 .. Len(cs) : cs[k].out <= o} = {k \in 1 .. Len(b) : Off(b, k - 1) <= o}
    BY <1>0, <1>1, <1>2
  <2> QED BY <1>1, <2>1 DEF Handler!ChunkAt
<1>4. S \in SUBSET (0 .. Len(b)) /\ S # {} /\ 1 \in S
  <2>1. Off(b, 0) = 0 /\ 1 - 1 = 0 /\ 1 \in 1 .. Len(b)
    BY <1>0, OffNone
  <2> QED BY <1>0, <2>1
<1>5. PICK m : m = Handler!Max(S) OBVIOUS
<1>6. m \in S /\ \A y \in S : m >= y
  <2> HIDE DEF S
  <2> QED BY <1>0, <1>4, <1>5, MaxIs
<1>7. m \in 0 .. Len(b) BY <1>4, <1>6
<1>8. m >= 1 BY <1>4, <1>6
<1>9. m \in 1 .. Len(b) /\ Off(b, m - 1) <= o
  BY <1>6, <1>7, <1>8
<1>10. ASSUME m < Len(b) PROVE o < Off(b, m)
  <2>1. m + 1 \in 1 .. Len(b) /\ (m + 1) - 1 = m /\ ~ (m >= m + 1) /\ m \in 0 .. Len(b)
    BY <1>0, <1>7, <1>8, <1>10
  <2>2. m + 1 \notin S BY <1>6, <2>1
  <2>3. ~ (Off(b, m) <= o) BY <2>1, <2>2
  <2>4. Off(b, m) \in Nat BY <2>1, OffOrder
  <2> QED BY <2>3, <2>4
<1> QED BY <1>3, <1>5, <1>9, <1>10

\* A chunk that is cut in the middle.
LEMMA ShrinkIs ==
    ASSUME NEW b \in Body, NEW k \in 1 .. Len(b), NEW u \in Nat, Handler!Aligned(u),
           u <= BlockSize * b[k].sz
    PROVE  LET y == Handler!Shrink(b[k], u)
           IN  /\ y \in Handler!Stored /\ y.sz = u \div BlockSize
               /\ Handler!Expand(y) \in Seq(Units) /\ Len(Handler!Expand(y)) = u
               /\ \A j \in 1 .. u : Handler!Expand(y)[j] = Handler!Expand(b[k])[j]
<1>1. PICK x : x = b[k] OBVIOUS
<1>2. /\ x.sz \in Nat /\ x.data \in Seq(Units)
      /\ x.kind \in {"raw", "fill", "dontCare"}
      /\ x.kind = "raw" => Len(x.data) = x.sz * BlockSize
      /\ x.kind = "fill" => x.data # << >>
      /\ x = [kind |-> x.kind, sz |-> x.sz, data |-> x.data]
  <2>1. x \in Handler!Stored BY <1>1, ChunkFacts
  <2>2. x = [kind |-> x.kind, sz |-> x.sz, data |-> x.data]
    BY <2>1 DEF Handler!Stored
  <2> QED BY <1>1, <2>2, ChunkFacts
<1>3. PICK n \in Nat : n = x.sz * BlockSize /\ n = BlockSize * x.sz
  <2>1. PICK z \in Nat : z = x.sz BY <1>2
  <2>2. z * BlockSize \in Nat /\ z * BlockSize = BlockSize * z
    BY BlockOK
  <2> QED BY <2>1, <2>2
<1>4. PICK m \in Nat : m = u \div BlockSize /\ m * BlockSize = u
  BY Divides
<1>5. u <= n BY <1>1, <1>3
<1>6. PICK d : d = IF x.kind = "raw" THEN SubSeq(x.data, 1, u) ELSE x.data OBVIOUS
<1>7. PICK y : y = Handler!Shrink(x, u) OBVIOUS
<1>8. y = [kind |-> x.kind, sz |-> m, data |-> d]
  BY <1>2, <1>4, <1>6, <1>7 DEF Handler!Shrink
<1>9. y.kind = x.kind /\ y.sz = m /\ y.data = d BY <1>8
<1>10. CASE x.kind = "raw"
  <2>1. d = SubSeq(x.data, 1, u) BY <1>6, <1>10
  <2>2. d \in Seq(Units) /\ Len(d) = u /\ \A j \in 1 .. u : d[j] = x.data[j]
    <3> DEFINE S == Units
    <3> HIDE DEF S
    <3>1. x.data \in Seq(S) /\ Len(x.data) = n
      BY <1>2, <1>3, <1>10 DEF S
    <3>2. \A j \in 1 .. u : x.data[j] \in S
      BY <1>5, <3>1
    <3>3. SubSeq(x.data, 1, u) \in Seq(S)
      BY <1>5, <3>1, <3>2
    <3>4. Len(SubSeq(x.data, 1, u)) = u BY <1>5, <3>1
    <3>5. \A j \in 1 .. u : SubSeq(x.data, 1, u)[j] = x.data[j]
      BY <1>5, <3>1
    <3> QED BY <2>1, <3>3, <3>4, <3>5 DEF S
  <2>3. y \in Handler!Stored
    BY <1>4, <1>8, <1>10, <2>2 DEF Handler!Stored
  <2>4. Handler!Expand(y) = d /\ Handler!Expand(x) = x.data
    BY <1>9, <1>10, ExpandCases
  <2> QED BY <1>1, <1>4, <1>7, <1>9, <2>2, <2>3, <2>4
<1>11. CASE x.kind = "fill"
  <2>1. d = x.data BY <1>6, <1>11
  <2>2. y \in Handler!Stored
    BY <1>2, <1>8, <1>11, <2>1 DEF Handler!Stored
  <2>3. Handler!Expand(y) = Handler!Repeat(d, u) /\ Handler!Expand(x) = Handler!Repeat(d, n)
    BY <1>3, <1>4, <1>9, <1>11, <2>1, ExpandCases
  <2>4. d \in Seq(Units) /\ d # << >>
    BY <1>2, <1>11, <2>1
  <2>5. /\ Handler!Repeat(d, u) \in Seq(Units) /\ Len(Handler!Repeat(d, u)) = u
        /\ \A j \in 1 .. u : Handler!Repeat(d, u)[j] = d[((j - 1) % Len(d)) + 1]
        /\ \A j \in 1 .. n : Handler!Repeat(d, n)[j] = d[((j - 1) % Len(d)) + 1]
    BY <2>4, RepeatIs
  <2>6. \A j \in 1 .. u : j \in 1 .. n BY <1>5
  <2>7. \A j \in 1 .. u : Handler!Expand(y)[j] = Handler!Expand(x)[j]
    BY <2>3, <2>5, <2>6
  <2> QED BY <1>1, <1>4, <1>7, <1>9, <2>2, <2>3, <2>5, <2>7
<1>12. CASE x.kind = "dontCare"
  <2>1. d = x.data BY <1>6, <1>12
  <2>2. y \in Handler!Stored
    BY <1>2, <1>8, <1>12, <2>1 DEF Handler!Stored
  <2>3. Handler!Expand(y) = Handler!Zeros(u) /\ Handler!Expand(x) = Handler!Zeros(n)
    BY <1>3, <1>4, <1>9, <1>12, ExpandCases
  <2>5. /\ Handler!Zeros(u) \in Seq(Units) /\ Len(Handler!Zeros(u)) = u
        /\ \A j \in 1 .. u : Handler!Zeros(u)[j] = 0
        /\ \A j \in 1 .. n : Handler!Zeros(n)[j] = 0
    BY ZerosAre
  <2>6. \A j \in 1 .. u : j \in 1 .. n BY <1>5
  <2>7. \A j \in 1 .. u : Handler!Expand(y)[j] = Handler!Expand(x)[j]
    BY <2>3, <2>5, <2>6
  <2> QED BY <1>1, <1>4, <1>7, <1>9, <2>2, <2>3, <2>5, <2>7
<1> QED BY <1>2, <1>10, <1>11, <1>12

LEMMA OffAligned ==
    ASSUME NEW b \in Body, NEW k \in 0 .. Len(b)
    PROVE  Off(b, k) \in Nat /\ Off(b, k) % BlockSize = 0
<1>1. PICK n \in Nat : n = Handler!Blocks(b, k)
  BY BlocksType
<1>2. BlockSize * n = n * BlockSize /\ BlockSize * n \in Nat
  BY SizeOK
<1>3. (n * BlockSize) % BlockSize = 0
  BY SizeOK, Multiple
<1> QED BY <1>1, <1>2, <1>3 DEF Off

\* The first chunks of a body.
LEMMA PreBody ==
    ASSUME NEW b \in Body, NEW n \in 0 .. Len(b)
    PROVE  /\ SubSeq(b, 1, n) \in Body /\ Len(SubSeq(b, 1, n)) = n
           /\ \A k \in 1 .. n : SubSeq(b, 1, n)[k] = b[k]
<1> DEFINE S == Handler!Stored
<1>1. b \in Seq(S) BY DEF Body
<1> HIDE DEF S
<1>2. SubSeq(b, 1, n) \in Seq(S) BY <1>1
<1>3. Len(SubSeq(b, 1, n)) = n BY <1>1
<1>4. \A k \in 1 .. n : SubSeq(b, 1, n)[k] = b[k]
  BY <1>1
<1> QED BY <1>2, <1>3, <1>4 DEF Body, S

LEMMA CutBody ==
    ASSUME NEW b \in Body, NEW k \in 1 .. Len(b), NEW n \in Nat, n % BlockSize = 0,
           Off(b, k - 1) < n, n < Off(b, k)
    PROVE  CutTo(b, k, n, Append(SubSeq(b, 1, k - 1), Handler!Shrink(b[k], n - Off(b, k - 1))))
<1>a. PICK t : t = Append(SubSeq(b, 1, k - 1), Handler!Shrink(b[k], n - Off(b, k - 1))) OBVIOUS
<1>0. Len(b) \in Nat /\ k \in Nat /\ k - 1 \in 0 .. Len(b) /\ Len(b) \in 0 .. Len(b) /\ k - 1 \in Nat
  BY DEF Body
<1>1. PICK o \in Nat : o = Off(b, k - 1) /\ o % BlockSize = 0
  BY <1>0, OffAligned
<1>2. PICK u \in Nat : u = n - o BY <1>1
<1>3. u % BlockSize = 0
  BY <1>1, <1>2, SizeOK, DifferenceAligned
<1>4. u <= BlockSize * b[k].sz /\ o + BlockSize * b[k].sz = Off(b, k) /\ BlockSize * b[k].sz \in Nat
  BY <1>1, <1>2, OffStep
<1>5. PICK y : y = Handler!Shrink(b[k], u) OBVIOUS
<1>6. PICK x : x = Handler!Expand(y) OBVIOUS
<1>7. /\ y \in Handler!Stored /\ y.sz = u \div BlockSize
      /\ x \in Seq(Units) /\ Len(x) = u
      /\ \A j \in 1 .. u : x[j] = Handler!Expand(b[k])[j]
  BY <1>3, <1>4, <1>5, <1>6, ShrinkIs DEF Handler!Aligned
<1>8. PICK h : h = SubSeq(b, 1, k - 1) OBVIOUS
<1>9. h \in Body /\ Len(h) = k - 1 /\ \A q \in 1 .. k - 1 : h[q] = b[q]
  BY <1>0, <1>8, PreBody
<1>10. t = Append(h, y) BY <1>a, <1>1, <1>2, <1>5, <1>8
<1>11. /\ t \in Body /\ Len(t) = (k - 1) + 1
       /\ Val(t, (k - 1) + 1) = Val(h, k - 1) \o x
  BY <1>6, <1>7, <1>9, <1>10, AppendBody
<1>12. (k - 1) + 1 = k BY <1>0
<1>13. t[k] = y /\ \A q \in 1 .. k - 1 : t[q] = h[q]
  <2>1. IsSeq(h)
    <3> DEFINE S == Handler!Stored
    <3> HIDE DEF S
    <3>1. h \in Seq(S) BY <1>9 DEF Body, S
    <3> QED BY <3>1 DEF IsSeq
  <2> QED BY <1>9, <1>10, <1>12, <2>1, AppendSeq
<1>14. PICK v : v = Val(b, k - 1) OBVIOUS
<1>15. Val(h, k - 1) = v BY <1>0, <1>9, <1>14, ValSame
<1>16. PICK V : V = Val(b, Len(b)) OBVIOUS
<1>17. /\ V \in Seq(Units) /\ Len(V) = Off(b, Len(b)) /\ v \in Seq(Units) /\ Len(v) = o
       /\ \A j \in 1 .. BlockSize * b[k].sz : V[o + j] = Handler!Expand(b[k])[j]
  <2>1. ValKnown(b, Len(b)) /\ ValKnown(b, k - 1)
    BY <1>0, ValIs
  <2> QED BY <1>0, <1>1, <1>14, <1>16, <2>1 DEF ValKnown
<1>18. Keeps(V, v) BY <1>0, <1>14, <1>16, ValKeeps
<1>19. PICK w : w = v \o x OBVIOUS
<1>20. /\ Len(w) = o + u
       /\ \A j \in 1 .. o : w[j] = v[j]
       /\ \A j \in 1 .. u : w[o + j] = x[j]
  <2>1. IsSeq(v) /\ IsSeq(x) BY <1>7, <1>17, UnitSeq
  <2>2. /\ Len(w) = Len(v) + Len(x)
        /\ \A j \in 1 .. Len(v) : w[j] = v[j]
        /\ \A j \in 1 .. Len(x) : w[Len(v) + j] = x[j]
    BY <1>19, <2>1, CatSeq
  <2> QED BY <1>7, <1>17, <2>2
<1>21. o + u <= Len(V)
  <2>1. Off(b, k) <= Off(b, Len(b)) /\ Off(b, k) \in Nat /\ Off(b, Len(b)) \in Nat
    BY <1>0, OffOrder
  <2> QED BY <1>1, <1>2, <1>17, <2>1
<1>22. \A j \in 1 .. o + u : V[j] = w[j]
  <2> TAKE j \in 1 .. o + u
  <2>1. CASE j <= o
    <3>1. j \in 1 .. o BY <2>1
    <3> QED BY <1>17, <1>18, <1>20, <3>1 DEF Keeps
  <2>2. CASE j > o
    <3>1. PICK l : l = j - o OBVIOUS
    <3>2. l \in 1 .. u /\ l \in 1 .. BlockSize * b[k].sz /\ j = o + l
      BY <1>4, <2>2, <3>1
    <3> QED BY <1>7, <1>17, <1>20, <3>2
  <2> QED BY <2>1, <2>2
<1>23. Keeps(V, w) BY <1>20, <1>21, <1>22 DEF Keeps
<1> QED BY <1>a, <1>1, <1>2, <1>7, <1>9, <1>11, <1>12, <1>13, <1>15, <1>16, <1>19, <1>23 DEF CutTo

\* The count of blocks that is written to the header of a file that is cut.
LEMMA KeptIs ==
    ASSUME NEW b \in Body, Lists(mem.chunks, b), NEW k \in 0 .. Len(b), NEW n \in Nat, NEW t,
           \A q \in 1 .. k : t[q].sz = ((IF Off(b, q) <= n THEN Off(b, q) ELSE n) - Off(b, q - 1))
                                         \div BlockSize
    PROVE  Handler!KeptBlocks(k, n) = Handler!Blocks(t, k)
<1>0. Len(b) \in Nat BY DEF Body
<1>1. PICK cs : cs = mem.chunks OBVIOUS
<1>2. ASSUME NEW q \in 1 .. k
      PROVE  (Handler!Min({cs[q].out + cs[q].size, n}) - cs[q].out) \div BlockSize = t[q].sz
  <2>1. q \in 1 .. Len(b) BY <1>0, <1>2
  <2>2. cs[q] = ChunkOf(b, q) BY <1>1, <2>1 DEF Lists
  <2>3. ChunkOf(b, q).out = Off(b, q - 1) /\ ChunkOf(b, q).size = BlockSize * b[q].sz
    BY DEF ChunkOf, Off
  <2>4. Off(b, q) = Off(b, q - 1) + BlockSize * b[q].sz /\ Off(b, q) \in Nat
    BY <2>1, OffStep
  <2>5. cs[q].out + cs[q].size = Off(b, q) /\ cs[q].out = Off(b, q - 1)
    BY <2>2, <2>3, <2>4
  <2>6. Handler!Min({Off(b, q), n}) = IF Off(b, q) <= n THEN Off(b, q) ELSE n
    BY <2>4, MinIs
  <2> QED BY <1>2, <2>5, <2>6
<1>3. [q \in 1 .. k |-> (Handler!Min({cs[q].out + cs[q].size, n}) - cs[q].out) \div BlockSize]
        = [q \in 1 .. k |-> t[q].sz]
  BY <1>2
<1> QED BY <1>1, <1>3, Zenon DEF Handler!KeptBlocks, Handler!Blocks

LEMMA WholeChunk ==
    ASSUME NEW b \in Body, NEW q \in 1 .. Len(b)
    PROVE  (Off(b, q) - Off(b, q - 1)) \div BlockSize = b[q].sz
<1>1. PICK z \in Nat : z = b[q].sz BY ChunkFacts
<1>2. PICK x, y : x = Off(b, q) /\ y = Off(b, q - 1) OBVIOUS
<1>3. x \in Nat /\ y \in Nat /\ x = y + BlockSize * z
  BY <1>1, <1>2, OffStep
<1>4. x - y = BlockSize * z BY <1>3, SizeOK
<1>5. (BlockSize * z) \div BlockSize = z
  <2>1. PICK s \in Nat \ {0} : s = BlockSize BY SizeOK
  <2>2. (s * z) \div s = z BY SMT
  <2> QED BY <2>1, <2>2
<1> QED BY <1>1, <1>2, <1>4, <1>5

LEMMA CutStep ==
    ASSUME NEW f, Known(f, file, mem, failed), f.sparse = TRUE,
           NEW n \in Nat, n % BlockSize = 0, n < mem.size, Handler!Cut(n)
    PROVE  Result(f)
<1>0. Handler!WellFormed(f) /\ IsSeq(file.body) /\ Keeps(file.body, f.body)
  BY DEF Known
<1>1. PICK b : b = f.body OBVIOUS
<1>2. b \in Body /\ f = Handler!Sparse(b) /\ Len(b) \in Nat /\ IsSeq(b)
  BY <1>0, <1>1, SparseIs
<1>3. /\ mem.size = Off(b, Len(b)) /\ Lists(mem.chunks, b) /\ Value(f) = Val(b, Len(b))
  BY <1>1, KnownIs DEF Value
<1>4. Len(b) > 0
  <2>1. SUFFICES ASSUME Len(b) = 0 PROVE FALSE BY <1>2
  <2> QED BY <1>3, <2>1, OffNone
<1>5. PICK k : k = Handler!ChunkAt(n) OBVIOUS
<1>6. k \in 1 .. Len(b) /\ Off(b, k - 1) <= n /\ n < Off(b, k)
  BY <1>2, <1>3, <1>4, <1>5, AtChunkIs
<1>7. mem.chunks[k].at = k /\ mem.chunks[k].out = Off(b, k - 1)
  <2>1. mem.chunks[k] = ChunkOf(b, k)
    BY <1>3, <1>6 DEF Lists
  <2>2. ChunkOf(b, k).at = k /\ ChunkOf(b, k).out = Off(b, k - 1)
    BY DEF ChunkOf, Off
  <2> QED BY <2>1, <2>2
<1>8. PICK w : w = file.body OBVIOUS
<1>9. w[k] = b[k] /\ SubSeq(w, 1, k - 1) = SubSeq(b, 1, k - 1)
  <2>1. IsSeq(w) /\ Len(b) <= Len(w) /\ \A q \in 1 .. Len(b) : w[q] = b[q]
    BY <1>0, <1>1, <1>8 DEF Keeps
  <2>2. k - 1 \in Nat /\ k - 1 <= Len(b) /\ k - 1 <= Len(w) /\ Len(w) \in Nat
    BY <1>2, <1>6, <2>1, LenNat
  <2>3. PICK x, y : x = SubSeq(w, 1, k - 1) /\ y = SubSeq(b, 1, k - 1) OBVIOUS
  <2>4. IsSeq(x) /\ Len(x) = k - 1 /\ \A q \in 1 .. k - 1 : x[q] = w[q]
    BY <2>1, <2>2, <2>3, PreSeq
  <2>5. IsSeq(y) /\ Len(y) = k - 1 /\ \A q \in 1 .. k - 1 : y[q] = b[q]
    BY <1>2, <2>2, <2>3, PreSeq
  <2>6. \A q \in 1 .. k - 1 : x[q] = y[q]
    BY <1>2, <1>6, <2>1, <2>4, <2>5
  <2>7. x = y BY <2>4, <2>5, <2>6, SameSeq
  <2> QED BY <1>6, <2>1, <2>3, <2>7
<1>10. PICK o : o = Off(b, k - 1) OBVIOUS
<1>11. PICK kept : kept = IF o # n THEN k ELSE k - 1 OBVIOUS
<1>12. PICK h : h = SubSeq(b, 1, k - 1) OBVIOUS
<1>13. PICK t : t = IF o # n THEN Append(h, Handler!Shrink(b[k], n - o)) ELSE h OBVIOUS
<1>14. PICK m : m = Handler!KeptBlocks(kept, n) OBVIOUS
<1>15. /\ file' = [file EXCEPT !.chunks = kept, !.blocks = m, !.body = t]
       /\ Handler!Reread
  BY <1>5, <1>7, <1>8, <1>9, <1>10, <1>11, <1>12, <1>13, <1>14, Zenon DEF Handler!Cut
<1>16. /\ t \in Body /\ Len(t) = kept /\ kept \in 0 .. Len(b)
       /\ Keeps(Val(b, Len(b)), Val(t, kept))
       /\ \A q \in 1 .. kept : t[q].sz = ((IF Off(b, q) <= n THEN Off(b, q) ELSE n) - Off(b, q - 1))
                                           \div BlockSize
  <2>0. /\ \A q \in 1 .. k - 1 : q \in 1 .. Len(b) /\ Off(b, q) <= n
        /\ Off(b, k - 1) \in Nat /\ Off(b, k) \in Nat
    <3>1. ASSUME NEW q \in 1 .. k - 1 PROVE q \in 1 .. Len(b) /\ Off(b, q) <= n
      <4>1. q \in 1 .. Len(b) /\ q \in 0 .. Len(b) /\ k - 1 \in 0 .. Len(b) /\ q <= k - 1
        BY <1>2, <1>6, <3>1
      <4>2. Off(b, q) <= Off(b, k - 1) /\ Off(b, q) \in Nat /\ Off(b, k - 1) \in Nat
        BY <1>2, <4>1, OffOrder
      <4> QED BY <1>6, <4>1, <4>2
    <3> QED BY <1>2, <1>6, <3>1, OffStep
  <2>1. CASE o # n
    <3>1. Off(b, k - 1) < n BY <1>6, <1>10, <2>0, <2>1
    <3>2. t = Append(SubSeq(b, 1, k - 1), Handler!Shrink(b[k], n - Off(b, k - 1))) /\ kept = k
      BY <1>10, <1>11, <1>12, <1>13, <2>1
    <3>20. k \in 1 .. Len(b) /\ n % BlockSize = 0 /\ Off(b, k - 1) < n /\ n < Off(b, k)
      BY <1>6, <3>1
    <3>3. /\ t \in Body /\ Len(t) = k
          /\ \A q \in 1 .. k - 1 : t[q] = b[q]
          /\ t[k].sz = (n - Off(b, k - 1)) \div BlockSize
          /\ Keeps(Val(b, Len(b)), Val(t, k))
      <4>1. CutTo(b, k, n, t)
        BY <1>2, <3>2, <3>20, CutBody
      <4> QED BY <4>1 DEF CutTo
    <3>4. ASSUME NEW q \in 1 .. k
          PROVE  t[q].sz = ((IF Off(b, q) <= n THEN Off(b, q) ELSE n) - Off(b, q - 1)) \div BlockSize
      <4>1. CASE q = k
        <5>1. ~ (Off(b, k) <= n) BY <1>6, <2>0
        <5> QED BY <3>3, <4>1, <5>1
      <4>2. CASE q # k
        <5>1. q \in 1 .. k - 1 BY <1>6, <3>4, <4>2
        <5>2. Off(b, q) <= n /\ q \in 1 .. Len(b) /\ t[q] = b[q]
          BY <2>0, <3>3, <5>1
        <5>3. (Off(b, q) - Off(b, q - 1)) \div BlockSize = b[q].sz
          BY <1>2, <5>2, WholeChunk
        <5> QED BY <5>2, <5>3
      <4> QED BY <4>1, <4>2
    <3> QED BY <1>6, <3>2, <3>3, <3>4
  <2>2. CASE o = n
    <3>1. t = SubSeq(b, 1, k - 1) /\ kept = k - 1 /\ k - 1 \in 0 .. Len(b)
      BY <1>6, <1>11, <1>12, <1>13, <2>2
    <3>2. t \in Body /\ Len(t) = k - 1 /\ \A q \in 1 .. k - 1 : t[q] = b[q]
      BY <1>2, <3>1, PreBody
    <3>3. Keeps(Val(b, Len(b)), Val(b, k - 1))
      BY <1>2, <3>1, ValKeeps
    <3>4. Val(t, k - 1) = Val(b, k - 1)
      <4>1. k - 1 \in Nat /\ \A q \in 1 .. k - 1 : t[q] = b[q]
        BY <1>6, <3>2
      <4> QED BY <4>1, ValSame
    <3>5. ASSUME NEW q \in 1 .. k - 1
          PROVE  t[q].sz = ((IF Off(b, q) <= n THEN Off(b, q) ELSE n) - Off(b, q - 1)) \div BlockSize
      <4>1. Off(b, q) <= n /\ q \in 1 .. Len(b) /\ t[q] = b[q]
        BY <2>0, <3>2
      <4>2. (Off(b, q) - Off(b, q - 1)) \div BlockSize = b[q].sz
        BY <1>2, <4>1, WholeChunk
      <4> QED BY <4>1, <4>2
    <3> QED BY <3>1, <3>2, <3>3, <3>4, <3>5
  <2> QED BY <1>10, <2>1, <2>2
<1>17. m = Handler!Blocks(t, kept)
  BY <1>2, <1>3, <1>14, <1>16, KeptIs
<1>18. file = [sparse |-> f.sparse, blocks |-> file.blocks, chunks |-> file.chunks, body |-> file.body]
  BY DEF Known
<1>19. PICK y, z : y = file.blocks /\ z = file.chunks OBVIOUS
<1>20. file = [sparse |-> TRUE, blocks |-> y, chunks |-> z, body |-> w]
  BY <1>8, <1>18, <1>19
<1>21. file' = [sparse |-> TRUE, blocks |-> m, chunks |-> kept, body |-> t]
  BY <1>15, <1>20
<1>22. PICK g : g = Handler!Sparse(t) OBVIOUS
<1>23. file' = g /\ g.sparse = TRUE /\ g.body = t
  BY <1>16, <1>17, <1>21, <1>22 DEF Handler!Sparse
<1>24. Handler!WellFormed(g)
  BY <1>16, <1>22, <1>23 DEF Handler!WellFormed, Body
<1>25. Value(g) = Val(t, kept) BY <1>16, <1>23 DEF Value
<1>26. Reads_(g) BY <1>15, <1>23, <1>24 DEF Reads_
<1>27. Keeps(Value(f), Value(g)) BY <1>3, <1>16, <1>25
<1> QED BY <1>26, <1>27, CutsResult

LEMMA MaxTwo ==
    ASSUME NEW x \in Int, NEW y \in Int
    PROVE  Handler!Max({x, y}) = IF x <= y THEN y ELSE x
BY DEF Handler!Max

\* A plain file is cut, also when an append to it has stopped, or padded.
LEMMA PlainTruncate ==
    ASSUME NEW f, Known(f, file, mem, failed), f.sparse = FALSE,
           NEW n \in Nat, n > 0, failed = "yes" => n <= mem.size, Handler!Truncate(n)
    PROVE  Result(f)
<1>0. Handler!WellFormed(f) /\ IsSeq(file.body) /\ Keeps(file.body, f.body) /\ file.body \in Seq(Units)
  BY DEF Known
<1>1. PICK b, w : b = f.body /\ w = file.body OBVIOUS
<1>2. b \in Seq(Units) /\ f = Handler!Plain(b) /\ IsSeq(b) /\ Len(b) \in Nat /\ Len(b) > 0
  BY <1>0, <1>1, PlainIs
<1>3. w \in Seq(Units) /\ IsSeq(w) /\ Len(w) \in Nat /\ Len(b) <= Len(w) /\ \A k \in 1 .. Len(b) : w[k] = b[k]
  BY <1>0, <1>1, LenNat DEF Keeps
<1>4. mem.sparse = FALSE /\ mem.size = Len(b) /\ Value(f) = b
  BY <1>1, KnownIs DEF Value
<1>5. n <= Len(b) \/ w = b
  <2>1. CASE failed = "yes" BY <1>4, <2>1
  <2>2. CASE failed = "no" BY <1>1, <2>2 DEF Known
  <2>3. failed # "restored" BY DEF Handler!Truncate
  <2> QED BY <2>1, <2>2, <2>3 DEF Known
<1>6. PICK l \in Nat : l = IF n <= Len(w) THEN n ELSE Len(w)
  BY <1>3
<1>a. PICK m \in Nat : m = Len(w) BY <1>3
<1>7. PICK r \in Nat : r = IF 0 <= n - m THEN n - m ELSE 0
  <2>1. CASE 0 <= n - m
    <3>1. n - m \in Nat BY <2>1
    <3> QED BY <2>1, <3>1
  <2>2. CASE ~ (0 <= n - m) BY <2>2
  <2> QED BY <2>1, <2>2
<1>8. PICK x, z : x = SubSeq(w, 1, l) /\ z = Handler!Zeros(r) OBVIOUS
<1>9. PICK t : t = x \o z OBVIOUS
<1>10. /\ file' = [file EXCEPT !.body = t] /\ Handler!Reread
  <2>1. Handler!Min({n, Len(w)}) = l /\ Handler!Max({0, n - Len(w)}) = r
    BY <1>3, <1>a, <1>6, <1>7, MinIs, MaxTwo
  <2>2. /\ file' = [file EXCEPT !.body = SubSeq(@, 1, Handler!Min({n, Len(@)}))
                                           \o Handler!Zeros(Handler!Max({0, n - Len(@)}))]
        /\ Handler!Reread
    BY <1>4, Zenon DEF Handler!Truncate
  <2>3. file' = [file EXCEPT !.body = SubSeq(w, 1, Handler!Min({n, Len(w)}))
                                           \o Handler!Zeros(Handler!Max({0, n - Len(w)}))]
    BY <1>1, <2>2, Zenon
  <2> QED BY <1>8, <1>9, <2>1, <2>2, <2>3, Zenon
<1>11. l <= Len(w) BY <1>3, <1>6
<1>12. IsSeq(x) /\ Len(x) = l /\ \A k \in 1 .. l : x[k] = w[k]
  BY <1>3, <1>8, <1>11, PreSeq
<1>13. x \in Seq(Units)
  <2> DEFINE S == Units
  <2> HIDE DEF S
  <2>1. w \in Seq(S) BY <1>3 DEF S
  <2>2. SubSeq(w, 1, l) \in Seq(S) BY <1>11, <2>1
  <2> QED BY <1>8, <2>2 DEF S
<1>14. z \in Seq(Units) /\ IsSeq(z) /\ Len(z) = r
  <2>1. z \in Seq(Units) /\ Len(z) = r BY <1>8, ZerosAre
  <2> QED BY <2>1, UnitSeq
<1>15. /\ t \in Seq(Units) /\ IsSeq(t) /\ Len(t) = l + r
       /\ \A k \in 1 .. l : t[k] = x[k]
  <2>1. t \in Seq(Units) BY <1>9, <1>13, <1>14, CatUnits
  <2>2. IsSeq(t) /\ Len(t) = Len(x) + Len(z) /\ \A k \in 1 .. Len(x) : t[k] = x[k]
    BY <1>9, <1>12, <1>14, CatSeq
  <2> QED BY <1>12, <1>14, <2>1, <2>2
<1>16. Len(t) = n BY <1>a, <1>6, <1>7, <1>15
<1>17. t # << >> BY <1>15, <1>16, LenNat
<1>18. PICK g : g = Handler!Plain(t) OBVIOUS
<1>19. file' = g /\ g.sparse = FALSE /\ g.body = t
  <2>2. file = [sparse |-> f.sparse, blocks |-> file.blocks, chunks |-> file.chunks, body |-> file.body]
    BY DEF Known
  <2>3. file.blocks = 0 /\ file.chunks = 0 BY DEF Known
  <2>4. file = [sparse |-> FALSE, blocks |-> 0, chunks |-> 0, body |-> w]
    BY <1>1, <2>2, <2>3
  <2>5. file' = [sparse |-> FALSE, blocks |-> 0, chunks |-> 0, body |-> t]
    BY <1>10, <2>4
  <2> QED BY <1>18, <2>5 DEF Handler!Plain
<1>20. Handler!WellFormed(g)
  BY <1>15, <1>17, <1>18, <1>19 DEF Handler!WellFormed
<1>21. Value(g) = t BY <1>19 DEF Value
<1>22. Reads_(g) BY <1>10, <1>19, <1>20 DEF Reads_
<1>23. CASE n <= Len(b)
  <2>1. l = n /\ \A k \in 1 .. n : k \in 1 .. Len(b) /\ k \in 1 .. l
    BY <1>2, <1>3, <1>6, <1>23
  <2>2. Keeps(b, t)
    BY <1>3, <1>12, <1>15, <1>16, <1>23, <2>1 DEF Keeps
  <2> QED BY <1>4, <1>21, <1>22, <2>2, CutsResult
<1>24. CASE ~ (n <= Len(b))
  <2>1. w = b BY <1>5, <1>24
  <2>2. l = Len(b) BY <1>2, <1>6, <1>24, <2>1
  <2>3. x = b BY <1>2, <1>12, <2>1, <2>2, SameSeq
  <2>4. Value(g) = Value(f) \o z
    BY <1>4, <1>9, <1>21, <2>3
  <2> QED BY <1>14, <1>22, <2>4, GrowsResult
<1> QED BY <1>23, <1>24

LEMMA TruncateStep ==
    ASSUME NEW f, Known(f, file, mem, failed), cursor \in Nat, NEW n \in Nat,
           failed = "yes" => n <= mem.size, mem.sparse \/ n > 0, Handler!Truncate(n)
    PROVE  Result(f)
<1>0. f.sparse \in BOOLEAN /\ mem.sparse = f.sparse /\ mem.size \in Nat
  BY KnownIs DEF Known
<1>1. CASE f.sparse = FALSE
  <2>1. n > 0 BY <1>0, <1>1
  <2> QED BY <1>1, <2>1, PlainTruncate
<1>2. CASE f.sparse = TRUE
  <2>0. mem.sparse = TRUE BY <1>0, <1>2
  <2>1. CASE ~ Handler!Aligned(n)
    <3>1. Handler!Refused
      BY <2>0, <2>1 DEF Handler!Truncate
    <3> QED BY <3>1, RefusedResult
  <2>2. CASE Handler!Aligned(n) /\ n = mem.size
    <3>1. Handler!Unchanged
      BY <2>0, <2>2 DEF Handler!Truncate
    <3>2. /\ UNCHANGED <<file, mem>> /\ cursor' = cursor /\ returned' = << >>
          /\ failed' = IF failed = "yes" THEN "restored" ELSE "no"
      BY <3>1 DEF Handler!Unchanged
    <3>3. failed # "restored" /\ failed \in {"no", "yes", "restored"}
      BY DEF Handler!Truncate, Known
    <3>4. failed' = failed \/ (failed' = "restored" /\ failed = "yes" /\ file.sparse)
      BY <1>2, <3>2, <3>3, KnownIs
    <3> QED BY <3>2, <3>4, StaysResult
  <2>3. CASE Handler!Aligned(n) /\ n < mem.size
    <3>1. Handler!Cut(n) /\ n % BlockSize = 0
      BY <1>0, <2>0, <2>3 DEF Handler!Truncate, Handler!Aligned
    <3> QED BY <1>2, <2>3, <3>1, CutStep
  <2>4. CASE Handler!Aligned(n) /\ n > mem.size
    <3>1. Handler!AppendDontCare(n - mem.size)
      BY <1>0, <2>0, <2>4 DEF Handler!Truncate
    <3>2. n - mem.size \in Nat BY <1>0, <2>4
    <3> QED BY <3>1, <3>2, DontCareStep
  <2> QED BY <1>0, <2>1, <2>2, <2>3, <2>4
<1> QED BY <1>0, <1>1, <1>2
--------------------------------------------------
(* Reading. *)

LEMMA RangeUnits ==
    ASSUME NEW v \in Seq(Units), NEW p \in Nat, NEW q \in Nat, q <= Len(v)
    PROVE  /\ SubSeq(v, p + 1, q) \in Seq(Units)
           /\ p <= q => Len(SubSeq(v, p + 1, q)) = q - p
           /\ p > q => SubSeq(v, p + 1, q) = << >>
           /\ \A j \in 1 .. q - p : SubSeq(v, p + 1, q)[j] = v[p + j]
<1> DEFINE S == Units
<1>1. v \in Seq(S) OBVIOUS
<1> HIDE DEF S
<1>2. SubSeq(v, p + 1, q) \in Seq(S) BY <1>1
<1>3. p <= q => Len(SubSeq(v, p + 1, q)) = q - p BY <1>1
<1>4. p > q => SubSeq(v, p + 1, q) = << >>
  <2>1. p > q => Len(SubSeq(v, p + 1, q)) = 0 BY <1>1
  <2> QED BY <1>2, <2>1
<1>5. \A j \in 1 .. q - p : SubSeq(v, p + 1, q)[j] = v[p + j]
  <2> TAKE j \in 1 .. q - p
  <2>1. SubSeq(v, p + 1, q)[j] = v[(p + 1) + j - 1]
    BY <1>1
  <2>2. (p + 1) + j - 1 = p + j OBVIOUS
  <2> QED BY <2>1, <2>2
<1> QED BY <1>2, <1>3, <1>4, <1>5 DEF S

\* What is left of a call to read.
LEMMA ReadResult ==
    ASSUME NEW f, Known(f, file, mem, failed), cursor \in Nat, NEW n \in Nat,
           NEW q \in Nat, q = (IF cursor + n <= Len(Value(f)) THEN cursor + n ELSE Len(Value(f))),
           returned' = SubSeq(Value(f), cursor + 1, q), cursor' = cursor + Len(returned'),
           UNCHANGED <<file, mem, failed>>
    PROVE  Result(f)
<1>1. PICK v : v = Value(f) OBVIOUS
<1>2. v \in Seq(Units) /\ Len(v) \in Nat
  BY <1>1, KnownIs
<1>3. PICK p \in Nat : p = cursor OBVIOUS
<1>4. PICK l \in Nat : l = Len(v) BY <1>2
<1>5. q = IF p + n <= l THEN p + n ELSE l
  BY <1>1, <1>3, <1>4
<1>6. PICK d : d = SubSeq(v, p + 1, q) OBVIOUS
<1>7. q <= Len(v) BY <1>4, <1>5
<1>8. d \in Seq(Units) /\ (p <= q => Len(d) = q - p) /\ (p > q => d = << >>)
  BY <1>2, <1>6, <1>7, RangeUnits
<1>9. returned' = d /\ cursor' = p + Len(d)
  BY <1>1, <1>3, <1>6
<1>10. Len(d) \in Nat BY <1>8
<1>11. Known(f, file', mem', failed') BY DEF Known
<1>12. Moves(v, v)
  <2>1. CASE p > l
    <3>1. d = << >> BY <1>5, <1>8, <2>1
    <3> QED BY <1>9, <3>1 DEF Moves
  <2>2. CASE p <= l
    <3>1. PICK m \in Nat : m = q - p
      <4>1. q - p \in Nat BY <1>5, <2>2
      <4> QED BY <4>1
    <3>2. m \in 0 .. l /\ q = IF p + m <= l THEN p + m ELSE l
      BY <1>5, <2>2, <3>1
    <3>3. Handler!Flat!Least(p + m, l) = q
      BY <3>2 DEF Handler!Flat!Least
    <3>4. cursor \in 0 .. Len(v) BY <1>3, <1>4, <2>2
    <3>5. m \in 0 .. Len(v) BY <1>4, <3>2
    <3>6. returned' = SubSeq(v, cursor + 1, Handler!Flat!Least(cursor + m, Len(v)))
      BY <1>3, <1>4, <1>6, <1>9, <3>3
    <3>7. cursor' = cursor + Len(returned') OBVIOUS
    <3> QED BY <3>4, <3>5, <3>6, <3>7 DEF Moves
  <2> QED BY <1>3, <1>4, <2>1, <2>2
<1>13. cursor' \in Nat /\ returned' \in Seq(Units)
  <2>1. PICK r \in Nat : r = Len(d) BY <1>10
  <2>2. cursor' = p + r BY <1>9, <2>1
  <2> QED BY <1>8, <1>9, <2>2, SMTT(30)
<1> QED BY <1>1, <1>11, <1>12, <1>13 DEF Result

LEMMA PlainRead ==
    ASSUME NEW f, Known(f, file, mem, failed), f.sparse = FALSE, cursor \in Nat,
           NEW n \in Nat, Handler!Read(n)
    PROVE  Result(f)
<1>1. file = f
  BY DEF Known, Handler!Read, Handler!Usable
<1>2. mem.sparse = FALSE /\ mem.size = Len(Value(f)) /\ mem.size \in Nat
  BY KnownIs
<1>3. Value(f) = file.body BY <1>1 DEF Value
<1>4. /\ returned' = SubSeq(file.body, cursor + 1, Handler!Min({cursor + n, mem.size}))
      /\ cursor' = cursor + Len(returned')
      /\ UNCHANGED <<file, mem, failed>>
  BY <1>2, Zenon DEF Handler!Read
<1>5. PICK q : q = Handler!Min({cursor + n, mem.size}) OBVIOUS
<1>6. PICK p \in Nat, l \in Nat : p = cursor /\ l = mem.size
  BY <1>2
<1>7. Handler!Min({p + n, l}) = IF p + n <= l THEN p + n ELSE l
  BY MinIs
<1>8. q \in Nat /\ q = IF p + n <= l THEN p + n ELSE l
  BY <1>5, <1>6, <1>7
<1>9. q = IF cursor + n <= Len(Value(f)) THEN cursor + n ELSE Len(Value(f))
  BY <1>2, <1>6, <1>8
<1>10. returned' = SubSeq(Value(f), cursor + 1, q)
  BY <1>3, <1>4, <1>5
<1> QED BY <1>4, <1>8, <1>9, <1>10, ReadResult

LEMMA LoopsExists ==
    ASSUME NEW k \in Nat, NEW p, NEW n, NEW l \in Nat, k - 1 <= l
    PROVE  \E r : Loops(k, p, n, l, r)
<1>a. PICK base : base = [pos |-> p, togo |-> n, data |-> << >>] OBVIOUS
<1>b. PICK o \in Int : o = k - 1 OBVIOUS
<1> DEFINE R(m, r) == r = [j \in o .. m + o |-> IF j <= o THEN base
                                                ELSE Took(r[j - 1], mem.chunks[j])]
           P(m) == \E r : R(m, r)
           T == {m \in Nat : ~ P(m)}
<1>1. T = {}
  <2>1. SUFFICES ASSUME T # {} PROVE FALSE OBVIOUS
  <2>2. PICK m \in T : \A j \in T : m <= j
    BY <2>1, Least
  <2>3. m # 0
    <3>1. P(0)
      <4> DEFINE g == [j \in {o} |-> base]
      <4>1. o .. 0 + o = {o} OBVIOUS
      <4>2. R(0, g) BY <4>1
      <4> QED BY <4>2
    <3> QED BY <3>1
  <2>4. P(m - 1)
    <3>1. m - 1 \in Nat /\ ~ (m <= m - 1) BY <2>3
    <3>2. m - 1 \notin T BY <2>2, <3>1
    <3> QED BY <3>1, <3>2
  <2>5. PICK g : R(m - 1, g) BY <2>4
  <2> DEFINE f == [j \in o .. m + o |-> IF j <= o THEN base
                                        ELSE Took(g[j - 1], mem.chunks[j])]
  <2>6. \A j \in o .. m + o : ~ (j <= o) => f[j - 1] = g[j - 1]
    <3> TAKE j \in o .. m + o
    <3> HAVE ~ (j <= o)
    <3>1. j - 1 \in o .. m + o /\ j - 1 \in o .. (m - 1) + o OBVIOUS
    <3>2. f[j - 1] = IF j - 1 <= o THEN base ELSE Took(g[(j - 1) - 1], mem.chunks[j - 1])
      BY <3>1
    <3>3. g[j - 1] = IF j - 1 <= o THEN base ELSE Took(g[(j - 1) - 1], mem.chunks[j - 1])
      BY <2>5, <3>1
    <3> QED BY <3>2, <3>3
  <2>7. R(m, f) BY <2>6
  <2> QED BY <2>7
<1>2. PICK m \in Nat : m = l - o
  <2>1. l - o \in Nat BY <1>b
  <2> QED BY <2>1
<1>3. P(m)
  <2> HIDE DEF P
  <2> QED BY <1>1, <1>2
<1>4. PICK r : R(m, r) BY <1>3
<1>5. k - 1 .. l = o .. m + o /\ \A j \in o .. m + o : j < k <=> j <= o
  BY <1>b, <1>2
<1>6. Loops(k, p, n, l, r) BY <1>a, <1>4, <1>5 DEF Loops
<1> QED BY <1>6

LEMMA LoopRuns ==
    ASSUME NEW k \in Nat, NEW p, NEW n, Len(mem.chunks) \in Nat, k - 1 <= Len(mem.chunks)
    PROVE  \E r : Loops(k, p, n, Len(mem.chunks), r)
                    /\ Handler!ReadChunks(k, p, n) = r[Len(mem.chunks)]
<1> DEFINE g == CHOOSE r :
         r = [j \in k - 1 .. Len(mem.chunks) |->
                IF j < k THEN [pos |-> p, togo |-> n, data |-> << >>]
                ELSE Took(r[j - 1], mem.chunks[j])]
<1>1. Loops(k, p, n, Len(mem.chunks), g)
  <2>1. \E r : Loops(k, p, n, Len(mem.chunks), r)
    BY LoopsExists
  <2> QED BY <2>1, Zenon DEF Loops
<1>2. Handler!ReadChunks(k, p, n) = g[Len(mem.chunks)]
  BY Zenon DEF Handler!ReadChunks, Took
<1> QED BY <1>1, <1>2

\* A chunk is read from e_ on, which is in it.
LEMMA TookChunk ==
    ASSUME NEW b \in Body, Lists(mem.chunks, b), NEW j \in 1 .. Len(b),
           NEW p \in Nat, NEW q \in Nat, NEW e_ \in Nat, p <= e_, e_ < q,
           Off(b, j - 1) <= e_, e_ <= Off(b, j)
    PROVE  Took(Upto(Val(b, Len(b)), p, q, e_), mem.chunks[j])
             = Upto(Val(b, Len(b)), p, q, IF q <= Off(b, j) THEN q ELSE Off(b, j))
<1>1. PICK v : v = Val(b, Len(b)) OBVIOUS
<1>2. Len(b) \in Nat /\ j \in 0 .. Len(b) /\ Len(b) \in 0 .. Len(b) /\ j <= Len(b)
  BY DEF Body
<1>3. PICK o \in Nat, u \in Nat : o = Off(b, j - 1) /\ u = BlockSize * b[j].sz
  BY OffStep
<1>4. Off(b, j) = o + u BY <1>3, OffStep
<1>5. /\ v \in Seq(Units) /\ Len(v) = Off(b, Len(b))
      /\ \A y \in 1 .. u : v[o + y] = Handler!Expand(b[j])[y]
  <2>1. ValKnown(b, Len(b)) BY <1>2, ValIs
  <2> QED BY <1>1, <1>3, <2>1 DEF ValKnown
<1>6. o + u <= Len(v) /\ Len(v) \in Nat
  <2>1. Off(b, j) <= Off(b, Len(b)) /\ Off(b, Len(b)) \in Nat
    BY <1>2, OffOrder
  <2> QED BY <1>4, <1>5, <2>1
<1>7. PICK x : x = mem.chunks[j] OBVIOUS
<1>8. x.out = o /\ x.size = u /\ x.kind = b[j].kind /\ x.data = b[j].data
  <2>1. x = ChunkOf(b, j) BY <1>7 DEF Lists
  <2>2. /\ ChunkOf(b, j).out = Off(b, j - 1) /\ ChunkOf(b, j).size = BlockSize * b[j].sz
        /\ ChunkOf(b, j).kind = b[j].kind /\ ChunkOf(b, j).data = b[j].data
    BY DEF ChunkOf, Off
  <2> QED BY <1>3, <2>1, <2>2
<1>9. PICK h \in Nat : h = IF q <= o + u THEN q ELSE o + u OBVIOUS
<1>10. e_ <= h /\ h <= o + u /\ o <= e_
  BY <1>3, <1>4, <1>9
<1>11. PICK m \in Nat : m = h - e_
  <2>1. h - e_ \in Nat BY <1>10
  <2> QED BY <2>1
<1>12. Handler!Min({u - (e_ - o), q - e_}) = m
  <2>1. Handler!Min({u - (e_ - o), q - e_})
          = IF u - (e_ - o) <= q - e_ THEN u - (e_ - o) ELSE q - e_
    BY MinIs
  <2> QED BY <1>9, <1>11, <2>1
<1>13. PICK s : s = SubSeq(v, p + 1, e_) OBVIOUS
<1>14. PICK w : w = Handler!Piece(x, e_ - o, m) OBVIOUS
<1>15. Took(Upto(v, p, q, e_), x) = [pos |-> e_ + m, togo |-> (q - e_) - m, data |-> s \o w]
  <2>1. PICK z : z = Upto(v, p, q, e_) OBVIOUS
  <2>2. z.pos = e_ /\ z.togo = q - e_ /\ z.data = s
    BY <1>13, <2>1 DEF Upto
  <2>3. ~ (q - e_ <= 0) OBVIOUS
  <2>4. Took(z, x) = [pos |-> z.pos + Handler!Min({x.size - (z.pos - x.out), z.togo}),
                      togo |-> z.togo - Handler!Min({x.size - (z.pos - x.out), z.togo}),
                      data |-> z.data \o Handler!Piece(x, z.pos - x.out,
                                         Handler!Min({x.size - (z.pos - x.out), z.togo}))]
    BY <2>2, <2>3 DEF Took
  <2>5. Handler!Min({x.size - (z.pos - x.out), z.togo}) = m
    BY <1>8, <1>12, <2>2
  <2>6. Took(z, x) = [pos |-> z.pos + m, togo |-> z.togo - m,
                      data |-> z.data \o Handler!Piece(x, z.pos - x.out, m)]
    BY <2>4, <2>5
  <2> QED BY <1>8, <1>14, <2>1, <2>2, <2>6
<1>16. e_ + m = h /\ (q - e_) - m = q - h BY <1>11
<1>17. s \in Seq(Units) /\ Len(s) = e_ - p /\ \A y \in 1 .. e_ - p : s[y] = v[p + y]
  <2>1. e_ <= Len(v) BY <1>6, <1>10
  <2> QED BY <1>5, <1>13, <2>1, RangeUnits
<1>18. PICK t : t = SubSeq(v, p + 1, h) OBVIOUS
<1>19. t \in Seq(Units) /\ Len(t) = h - p /\ \A y \in 1 .. h - p : t[y] = v[p + y]
  <2>1. h <= Len(v) /\ p <= h BY <1>6, <1>10
  <2> QED BY <1>5, <1>18, <2>1, RangeUnits
<1>20. /\ Len(w) = m /\ IsSeq(w)
       /\ \A y \in 1 .. m : w[y] = v[e_ + y]
  <2>1. w = [y \in 1 .. m |-> Handler!UnitAt(x, (e_ - o) + y)]
    BY <1>14 DEF Handler!Piece
  <2>2. Len(w) = m BY <2>1
  <2>3. ASSUME NEW y \in 1 .. m PROVE w[y] = v[e_ + y]
    <3>1. PICK l \in Int : l = (e_ - o) + y OBVIOUS
    <3>2. l \in 1 .. u BY <1>10, <1>11, <3>1
    <3>3. Handler!UnitAt(x, l) = Handler!Expand(b[j])[l]
      BY <1>3, <1>8, <3>2, UnitIs
    <3>4. o + l = e_ + y BY <3>1
    <3>5. v[o + l] = Handler!Expand(b[j])[l]
      BY <1>5, <3>2
    <3>6. w[y] = Handler!UnitAt(x, l) BY <2>1, <3>1
    <3> QED BY <3>3, <3>4, <3>5, <3>6
  <2>4. IsSeq(w)
    <3> DEFINE S == {w[y] : y \in 1 .. m}
    <3>1. \A y \in 1 .. m : w[y] \in S OBVIOUS
    <3> HIDE DEF S
    <3>2. w \in [1 .. m -> S] BY <2>1, <3>1
    <3>3. w \in Seq(S) BY <3>2
    <3> QED BY <3>3 DEF IsSeq
  <2> QED BY <2>2, <2>3, <2>4
<1>21. s \o w = t
  <2>1. IsSeq(s) /\ IsSeq(t) BY <1>17, <1>19, UnitSeq
  <2>2. PICK y : y = s \o w OBVIOUS
  <2>3. /\ IsSeq(y) /\ Len(y) = Len(s) + Len(w)
        /\ \A l \in 1 .. Len(s) : y[l] = s[l]
        /\ \A l \in 1 .. Len(w) : y[Len(s) + l] = w[l]
    <3>1. IsSeq(s) /\ IsSeq(w) BY <1>20, <2>1
    <3> QED BY <2>2, <3>1, CatSeq
  <2>4. Len(y) = h - p /\ Len(t) = h - p
    BY <1>11, <1>17, <1>19, <1>20, <2>3
  <2>5. ASSUME NEW l \in 1 .. h - p PROVE y[l] = t[l]
    <3>1. t[l] = v[p + l] BY <1>19
    <3>2. CASE l <= e_ - p
      <4>1. l \in 1 .. e_ - p BY <3>2
      <4>2. y[l] = s[l] /\ s[l] = v[p + l]
        BY <1>17, <2>3, <4>1
      <4> QED BY <3>1, <4>2
    <3>3. CASE ~ (l <= e_ - p)
      <4>1. PICK z \in Int : z = l - (e_ - p) OBVIOUS
      <4>2. z \in 1 .. m /\ (e_ - p) + z = l /\ e_ + z = p + l
        BY <1>11, <3>3, <4>1
      <4>3. y[(e_ - p) + z] = w[z] /\ w[z] = v[e_ + z]
        BY <1>17, <1>20, <2>3, <4>2
      <4> QED BY <3>1, <4>2, <4>3
    <3> QED BY <3>2, <3>3
  <2>6. y = t BY <1>10, <2>1, <2>3, <2>4, <2>5, SameSeq
  <2> QED BY <2>2, <2>6
<1>22. Took(Upto(v, p, q, e_), x) = Upto(v, p, q, h)
  BY <1>15, <1>16, <1>18, <1>21 DEF Upto
<1> QED BY <1>1, <1>4, <1>7, <1>9, <1>22

\* Reading begins in chunk k.
LEMMA ReadInside ==
    ASSUME NEW b \in Body, Lists(mem.chunks, b), NEW k \in 1 .. Len(b),
           NEW p \in Nat, NEW n \in Nat, NEW q \in Nat, q = p + n,
           Off(b, k - 1) <= p, p <= Off(b, k)
    PROVE  Handler!ReadChunks(k, p, n)
             = Upto(Val(b, Len(b)), p, q, IF q <= Off(b, Len(b)) THEN q ELSE Off(b, Len(b)))
<1>1. PICK v : v = Val(b, Len(b)) OBVIOUS
<1>2. PICK l \in Nat : l = Len(b) /\ l = Len(mem.chunks)
  BY DEF Body, Lists
<1>3. k \in 1 .. l /\ k - 1 \in 0 .. l BY <1>2
<1>4. PICK r : Loops(k, p, n, l, r) /\ Handler!ReadChunks(k, p, n) = r[l]
  <2>1. k \in Nat /\ Len(mem.chunks) \in Nat /\ k - 1 <= Len(mem.chunks)
    BY <1>2, <1>3
  <2> QED BY <1>2, <2>1, LoopRuns
<1>5. \A j \in 0 .. l : Off(b, j) \in Nat
  <2> TAKE j \in 0 .. l
  <2>1. j \in 0 .. Len(b) /\ j <= j BY <1>2
  <2> QED BY <2>1, OffOrder
<1>6. v \in Seq(Units) /\ Len(v) = Off(b, l)
  <2>1. l \in 0 .. Len(b) BY <1>2
  <2>2. ValKnown(b, l) BY <2>1, ValIs
  <2> QED BY <1>1, <1>2, <2>2 DEF ValKnown
<1>7. p <= Len(v)
  <2>1. k \in 0 .. Len(b) /\ l \in 0 .. Len(b) /\ k <= l
    BY <1>2, <1>3
  <2>2. Off(b, k) <= Off(b, l) /\ Off(b, k) \in Nat /\ Off(b, l) \in Nat
    BY <2>1, OffOrder
  <2> QED BY <1>6, <2>2
<1> DEFINE To(j) == IF j < k THEN p ELSE IF q <= Off(b, j) THEN q ELSE Off(b, j)
           T == {j \in k - 1 .. l : r[j] # Upto(v, p, q, To(j))}
<1>8. T = {}
  <2>1. SUFFICES ASSUME T # {} PROVE FALSE OBVIOUS
  <2>2. PICK m \in T : \A j \in T : m <= j
    <3>1. T \in SUBSET Nat BY <1>3
    <3> HIDE DEF T
    <3> QED BY <2>1, <3>1, Least
  <2>3. m \in k - 1 .. l OBVIOUS
  <2>4. r[m] = IF m < k THEN [pos |-> p, togo |-> n, data |-> << >>]
               ELSE Took(r[m - 1], mem.chunks[m])
    BY <1>4, <2>3 DEF Loops
  <2>5. CASE m < k
    <3>1. SubSeq(v, p + 1, p) = << >>
      <4>1. SubSeq(v, p + 1, p) \in Seq(Units) /\ Len(SubSeq(v, p + 1, p)) = p - p
        BY <1>6, <1>7, RangeUnits
      <4>2. PICK d : d = SubSeq(v, p + 1, p) OBVIOUS
      <4>3. IsSeq(d) /\ Len(d) = 0
        <5>1. d \in Seq(Units) BY <4>1, <4>2, Zenon
        <5>2. Len(d) = p - p BY <4>1, <4>2, Zenon
        <5>3. IsSeq(d) BY <5>1, UnitSeq, Zenon
        <5> QED BY <5>2, <5>3
      <4> QED BY <4>2, <4>3, LenNat
    <3>2. Upto(v, p, q, p) = [pos |-> p, togo |-> n, data |-> << >>]
      BY <3>1 DEF Upto
    <3>3. To(m) = p BY <2>5
    <3> QED BY <2>4, <2>5, <3>2, <3>3
  <2>6. CASE ~ (m < k)
    <3>1. m - 1 \in k - 1 .. l /\ ~ (m <= m - 1) /\ m \in 1 .. l /\ m - 1 \in 0 .. l /\ k <= m
      BY <1>3, <2>3, <2>6
    <3>2. m - 1 \notin T BY <2>2, <3>1
    <3>3. r[m - 1] = Upto(v, p, q, To(m - 1))
      BY <3>1, <3>2
    <3>4. PICK x, y : x = Off(b, m - 1) /\ y = Off(b, m) OBVIOUS
    <3>5. x \in Nat /\ y \in Nat /\ x <= y
      <4>1. m \in 1 .. Len(b) BY <1>2, <3>1
      <4> QED BY <3>4, <4>1, OffStep
    <3>6. m - 1 < k => x <= p /\ p <= y
      <4>1. m - 1 < k => m = k BY <3>1
      <4> QED BY <3>4, <4>1
    <3>7. PICK h : h = To(m - 1) OBVIOUS
    <3>8. h = IF m - 1 < k THEN p ELSE IF q <= x THEN q ELSE x
      BY <3>4, <3>7
    <3>9. To(m) = IF q <= y THEN q ELSE y BY <2>6, <3>4
    <3>10. h \in Nat BY <3>5, <3>8
    <3>11. p <= q OBVIOUS
    <3>12. \A j \in 0 .. l : j >= k => Off(b, j) >= p
      <4> TAKE j \in 0 .. l
      <4> HAVE j >= k
      <4>1. j \in 0 .. Len(b) /\ k \in 0 .. Len(b) /\ k <= j
        BY <1>2, <1>3
      <4>2. Off(b, k) <= Off(b, j) /\ Off(b, k) \in Nat /\ Off(b, j) \in Nat
        BY <4>1, OffOrder
      <4> QED BY <4>2
    <3>13. ~ (m - 1 < k) => x >= p BY <3>1, <3>4, <3>12
    <3>14. p <= h BY <3>5, <3>8, <3>11, <3>13
    <3>15. CASE q <= h
      <4>1. Took(Upto(v, p, q, h), mem.chunks[m]) = Upto(v, p, q, h)
        <5>1. PICK z : z = Upto(v, p, q, h) OBVIOUS
        <5>2. z.togo = q - h BY <5>1 DEF Upto
        <5>3. z.togo <= 0 BY <3>10, <3>15, <5>2
        <5> QED BY <5>1, <5>3 DEF Took
      <4>2. To(m) = h
        BY <3>5, <3>6, <3>8, <3>9, <3>11, <3>15
      <4> QED BY <2>4, <2>6, <3>3, <3>7, <4>1, <4>2
    <3>16. CASE ~ (q <= h)
      <4>1. x <= h /\ h <= y /\ h < q
        BY <3>5, <3>6, <3>8, <3>10, <3>16
      <4>2. m \in 1 .. Len(b) BY <1>2, <3>1
      <4>3. Took(Upto(v, p, q, h), mem.chunks[m])
              = Upto(v, p, q, IF q <= Off(b, m) THEN q ELSE Off(b, m))
        BY <1>1, <3>4, <3>10, <3>14, <4>1, <4>2, TookChunk
      <4> QED BY <2>4, <2>6, <3>3, <3>4, <3>7, <3>9, <4>3
    <3> QED BY <3>15, <3>16
  <2> QED BY <2>5, <2>6
<1>9. r[l] = Upto(v, p, q, IF q <= Off(b, l) THEN q ELSE Off(b, l))
  <2>1. l \in k - 1 .. l /\ ~ (l < k) BY <1>3
  <2>2. r[l] = Upto(v, p, q, To(l)) BY <1>8, <2>1
  <2> QED BY <2>1, <2>2
<1> QED BY <1>1, <1>2, <1>4, <1>9

\* Reading begins behind the image, or there is nothing to read: nothing is read.
LEMMA ReadBehind ==
    ASSUME NEW b \in Body, Lists(mem.chunks, b), Len(b) > 0,
           NEW p \in Nat, NEW n \in Nat, Off(b, Len(b)) < p
    PROVE  /\ Handler!ReadChunks(Len(b), p, n).data = << >>
           /\ Handler!ReadChunks(Len(b), p, n).pos \in Nat
<1>1. PICK l \in Nat : l = Len(b) /\ l = Len(mem.chunks) /\ l > 0
  BY DEF Body, Lists
<1>2. PICK r : Loops(l, p, n, l, r) /\ Handler!ReadChunks(l, p, n) = r[l]
  <2>1. Len(mem.chunks) \in Nat /\ l - 1 <= Len(mem.chunks)
    BY <1>1
  <2> QED BY <1>1, <2>1, LoopRuns
<1>3. l - 1 \in l - 1 .. l /\ l \in l - 1 .. l /\ l - 1 < l /\ ~ (l < l) OBVIOUS
<1>4. PICK s : s = [pos |-> p, togo |-> n, data |-> << >>] OBVIOUS
<1>5. r[l - 1] = s BY <1>2, <1>3, <1>4 DEF Loops
<1>6. PICK x : x = mem.chunks[l] OBVIOUS
<1>7. r[l] = Took(s, x)
  BY <1>2, <1>3, <1>5, <1>6 DEF Loops
<1>8. PICK o \in Nat, u \in Nat : x.out = o /\ x.size = u /\ o + u < p
  <2>1. l \in 1 .. Len(b) BY <1>1
  <2>2. x = ChunkOf(b, l) BY <1>6, <2>1 DEF Lists
  <2>3. x.out = Off(b, l - 1) /\ x.size = BlockSize * b[l].sz
    BY <2>2 DEF ChunkOf, Off
  <2>4. /\ Off(b, l - 1) \in Nat /\ BlockSize * b[l].sz \in Nat
        /\ Off(b, l) = Off(b, l - 1) + BlockSize * b[l].sz
    BY <2>1, OffStep
  <2> QED BY <1>1, <2>3, <2>4
<1>9. CASE n = 0
  BY <1>1, <1>2, <1>4, <1>7, <1>9 DEF Took
<1>10. CASE n # 0
  <2>1. PICK m \in Int : m = u - (p - o) OBVIOUS
  <2>2. m < 0 /\ p + m = o + u BY <1>8, <2>1
  <2>3. Handler!Min({u - (p - o), n}) = m
    <3>1. Handler!Min({m, n}) = IF m <= n THEN m ELSE n
      BY MinIs
    <3> QED BY <2>1, <2>2, <3>1
  <2>4. s.pos = p /\ s.togo = n /\ s.data = << >> /\ ~ (n <= 0)
    BY <1>4, <1>10
  <2>5. PICK w : w = Handler!Piece(x, p - o, m) OBVIOUS
  <2>6. w = << >> BY <2>2, <2>5 DEF Handler!Piece
  <2>7. Took(s, x) = [pos |-> s.pos + Handler!Min({x.size - (s.pos - x.out), s.togo}),
                      togo |-> s.togo - Handler!Min({x.size - (s.pos - x.out), s.togo}),
                      data |-> s.data \o Handler!Piece(x, s.pos - x.out,
                                         Handler!Min({x.size - (s.pos - x.out), s.togo}))]
    BY <2>4 DEF Took
  <2>8. Took(s, x) = [pos |-> p + m, togo |-> n - m, data |-> << >> \o w]
    BY <1>8, <2>3, <2>4, <2>5, <2>7
  <2>9. << >> \o w = << >> BY <2>6
  <2>10. p + m \in Nat BY <2>2
  <2> QED BY <1>1, <1>2, <1>7, <2>8, <2>9, <2>10
<1> QED BY <1>9, <1>10

LEMMA ReadNothing ==
    ASSUME NEW k \in Nat, NEW p \in Nat, Len(mem.chunks) = 0, k = 0
    PROVE  Handler!ReadChunks(k, p, 0).data = << >> /\ Handler!ReadChunks(k, p, 0).pos = p
<1>1. PICK l \in Nat : l = 0 /\ l = Len(mem.chunks) /\ l = k OBVIOUS
<1>2. PICK r : Loops(k, p, 0, l, r) /\ Handler!ReadChunks(k, p, 0) = r[l]
  <2>1. Len(mem.chunks) \in Nat /\ k - 1 <= Len(mem.chunks)
    BY <1>1
  <2> QED BY <1>1, <2>1, LoopRuns
<1>3. k - 1 \in k - 1 .. l /\ l \in k - 1 .. l /\ k - 1 < k /\ ~ (l < k) /\ k - 1 = l - 1
  BY <1>1
<1>4. PICK s : s = [pos |-> p, togo |-> 0, data |-> << >>] OBVIOUS
<1>5. r[l - 1] = s BY <1>2, <1>3, <1>4 DEF Loops
<1>6. r[l] = Took(s, mem.chunks[l])
  BY <1>2, <1>3, <1>5 DEF Loops
<1>7. Took(s, mem.chunks[l]) = s BY <1>4 DEF Took
<1> QED BY <1>2, <1>4, <1>6, <1>7

LEMMA SparseRead ==
    ASSUME NEW f, Known(f, file, mem, failed), f.sparse = TRUE, cursor \in Nat,
           NEW n \in Nat, Handler!Read(n)
    PROVE  Result(f)
<1>0. Handler!WellFormed(f) /\ file = f
  BY DEF Known, Handler!Read, Handler!Usable
<1>1. PICK b : b = f.body OBVIOUS
<1>2. b \in Body /\ Len(b) \in Nat
  BY <1>0, <1>1, SparseIs
<1>3. mem.sparse = TRUE /\ Lists(mem.chunks, b) /\ Len(Value(f)) = Off(b, Len(b)) /\ Value(f) = Val(b, Len(b))
  BY <1>1, KnownIs DEF Value
<1>4. PICK p \in Nat : p = cursor OBVIOUS
<1>5. PICK r : r = Handler!ReadChunks(Handler!ChunkAt(p), p, n) OBVIOUS
<1>6. CASE n > 0 /\ mem.chunks = << >>
  <2>1. Handler!Refused
    BY <1>3, <1>6, Zenon DEF Handler!Read
  <2> QED BY <2>1, RefusedResult
<1>7. CASE ~ (n > 0 /\ mem.chunks = << >>)
  <2>1. returned' = r.data /\ cursor' = r.pos /\ UNCHANGED <<file, mem, failed>>
    BY <1>3, <1>4, <1>5, <1>7, Zenon DEF Handler!Read
  <2>2. CASE Len(b) = 0
    <3>1. Len(mem.chunks) = 0 /\ IsSeq(mem.chunks)
      BY <1>3, <2>2 DEF Lists
    <3>2. n = 0 BY <1>7, <3>1, LenNat
    <3>3. Handler!ChunkAt(p) = 0
      <4>1. {0} \cup {k \in 1 .. Len(mem.chunks) : mem.chunks[k].out <= p} = {0}
        BY <3>1
      <4>2. Handler!Max({0}) = 0
        <5>1. Handler!Max({0, 0}) = 0 BY MaxTwo
        <5> QED BY <5>1
      <4> QED BY <4>1, <4>2 DEF Handler!ChunkAt
    <3>4. r.data = << >> /\ r.pos = p
      BY <1>5, <3>1, <3>2, <3>3, ReadNothing
    <3> QED BY <2>1, <3>4, StaysResult
  <2>3. CASE Len(b) > 0
    <3>1. PICK k : k = Handler!ChunkAt(p) OBVIOUS
    <3>2. k \in 1 .. Len(b) /\ Off(b, k - 1) <= p /\ (k < Len(b) => p < Off(b, k))
      BY <1>2, <1>3, <2>3, <3>1, AtChunkIs
    <3>3. PICK l \in Nat : l = Off(b, Len(b))
      BY <1>2, OffOrder
    <3>4. CASE p <= l
      <4>1. p <= Off(b, k)
        <5>1. CASE k < Len(b)
          <6>1. Off(b, k) \in Nat BY <1>2, <3>2, OffStep
          <6> QED BY <3>2, <5>1, <6>1
        <5>2. CASE ~ (k < Len(b))
          <6>1. k = Len(b) BY <1>2, <3>2, <5>2
          <6> QED BY <3>3, <3>4, <6>1
        <5> QED BY <5>1, <5>2
      <4>2. PICK q \in Nat : q = p + n OBVIOUS
      <4>3. PICK h \in Nat : h = IF q <= l THEN q ELSE l OBVIOUS
      <4>4. PICK v : v = Value(f) OBVIOUS
      <4>5. r = Upto(v, p, q, h)
        <5>1. Handler!ReadChunks(k, p, n)
                = Upto(Val(b, Len(b)), p, q, IF q <= Off(b, Len(b)) THEN q ELSE Off(b, Len(b)))
          BY <1>2, <1>3, <3>2, <4>1, <4>2, ReadInside
        <5> QED BY <1>3, <1>5, <3>1, <3>3, <4>3, <4>4, <5>1
      <4>6. returned' = SubSeq(v, p + 1, h) /\ cursor' = h
        BY <2>1, <4>5 DEF Upto
      <4>7. Len(SubSeq(v, p + 1, h)) = h - p
        <5>1. v \in Seq(Units) BY <4>4, KnownIs
        <5>2. h <= Len(v) /\ p <= h
          BY <1>3, <3>3, <3>4, <4>2, <4>3, <4>4
        <5> QED BY <5>1, <5>2, RangeUnits
      <4>8. cursor' = cursor + Len(returned')
        BY <1>4, <4>6, <4>7
      <4>9. h = IF cursor + n <= Len(Value(f)) THEN cursor + n ELSE Len(Value(f))
        BY <1>3, <1>4, <3>3, <4>2, <4>3
      <4>10. returned' = SubSeq(Value(f), cursor + 1, h)
        BY <1>4, <4>4, <4>6
      <4> QED BY <2>1, <4>8, <4>9, <4>10, ReadResult
    <3>5. CASE l < p
      <4>1. k = Len(b)
        <5>1. SUFFICES ASSUME k < Len(b) PROVE FALSE
          BY <1>2, <3>2
        <5>2. k \in 0 .. Len(b) /\ Len(b) \in 0 .. Len(b) /\ k <= Len(b)
          BY <1>2, <3>2
        <5>3. Off(b, k) <= Off(b, Len(b)) /\ Off(b, k) \in Nat
          BY <1>2, <5>2, OffOrder
        <5> QED BY <3>2, <3>3, <3>5, <5>1, <5>3
      <4>2. r.data = << >> /\ r.pos \in Nat
        BY <1>2, <1>3, <1>5, <2>3, <3>1, <3>3, <3>5, <4>1, ReadBehind
      <4> QED BY <2>1, <4>2, StaysResult
    <3> QED BY <3>3, <3>4, <3>5
  <2> QED BY <1>2, <2>2, <2>3
<1> QED BY <1>6, <1>7
--------------------------------------------------
(* Every step of the handler, seen from a caller. *)

LEMMA InputsOK ==
    /\ Handler!Sizes \in SUBSET Nat
    /\ Payloads \in SUBSET Seq(Units) /\ Offsets \in SUBSET Int
    /\ \A p \in Patterns : p \in Seq(Units) /\ p # << >>
    /\ \A f \in Opened : f.sparse \in BOOLEAN /\ Handler!WellFormed(f)
<1>1. Handler!Sizes \in SUBSET Nat BY DEF Handler!Sizes
<1>2. /\ Payloads \subseteq Seq(Units) /\ Offsets \subseteq Int
      /\ \A p \in Patterns : p \in Seq(Units) /\ p # << >> /\ BlockSize % Len(p) = 0
      /\ \A f \in Opened : f.sparse \in BOOLEAN /\ Handler!WellFormed(f)
  BY ImagesAssumption, Zenon DEF Handler!ImageHandlerAssumption
<1> QED BY <1>1, <1>2, Zenon

LEMMA HandlerStep ==
    ASSUME NEW f, Known(f, file, mem, failed), cursor \in Nat, Handler!Next
    PROVE  Result(f)
<1>1. CASE \E n \in Handler!Sizes : Handler!Room(n) /\ Handler!AppendDontCare(n)
  <2>1. PICK n \in Handler!Sizes : Handler!AppendDontCare(n)
    BY <1>1
  <2>2. n \in Nat BY InputsOK
  <2> QED BY <2>1, <2>2, DontCareStep
<1>2. CASE \E d \in Payloads, m \in BOOLEAN : Handler!Room(Len(d)) /\ Handler!AppendRaw(d, m)
  <2>1. PICK d \in Payloads, m \in BOOLEAN : Handler!AppendRaw(d, m)
    BY <1>2
  <2>2. d \in Seq(Units) BY InputsOK, Zenon
  <2> QED BY <2>1, <2>2, RawStep
<1>3. CASE \E p \in Patterns, n \in Handler!Sizes : Handler!Room(n) /\ Handler!AppendFill(p, n)
  <2>1. PICK p \in Patterns, n \in Handler!Sizes : Handler!AppendFill(p, n)
    BY <1>3
  <2>2. p \in Seq(Units) /\ p # << >> /\ n \in Nat
    BY InputsOK, Zenon
  <2> QED BY <2>1, <2>2, FillStep
<1>4. CASE \E d \in Payloads : Handler!Room(Len(d)) /\ Handler!DiskFull(d)
  <2>1. PICK d \in Payloads : Handler!DiskFull(d)
    BY <1>4
  <2>2. d \in Seq(Units) BY InputsOK, Zenon
  <2> QED BY <2>1, <2>2, DiskFullStep
<1>5. CASE \E o \in Offsets : Handler!Seek(o)
  <2>1. PICK o \in Offsets : Handler!Seek(o) BY <1>5
  <2>2. o \in Int BY InputsOK
  <2> QED BY <2>1, <2>2, SeekStep
<1>6. CASE \E n \in Handler!Sizes : Handler!Read(n)
  <2>1. PICK n \in Handler!Sizes : Handler!Read(n)
    BY <1>6
  <2>2. n \in Nat /\ f.sparse \in BOOLEAN
    BY InputsOK DEF Known
  <2>3. CASE f.sparse = TRUE
    BY <2>1, <2>2, <2>3, SparseRead
  <2>4. CASE f.sparse = FALSE
    BY <2>1, <2>2, <2>4, PlainRead
  <2> QED BY <2>2, <2>3, <2>4
<1>7. CASE \E n \in Handler!Sizes : /\ failed = "yes" => n <= mem.size
                                    /\ mem.sparse \/ n > 0
                                    /\ Handler!Truncate(n)
  <2>1. PICK n \in Handler!Sizes : /\ failed = "yes" => n <= mem.size
                                   /\ mem.sparse \/ n > 0
                                   /\ Handler!Truncate(n)
    BY <1>7
  <2>2. n \in Nat BY InputsOK
  <2> QED BY <2>1, <2>2, TruncateStep
<1> QED BY <1>1, <1>2, <1>3, <1>4, <1>5, <1>6, <1>7, Zenon DEF Handler!Next

\* What is behind the beginning of a sequence.
LEMMA TailIs ==
    ASSUME NEW v \in Seq(Units), NEW d \in Seq(Units), NEW w, w = v \o d
    PROVE  w = v \o SubSeq(w, Len(v) + 1, Len(w))
<1>1. PICK p \in Nat, q \in Nat : p = Len(v) /\ q = Len(d)
  BY UnitSeq
<1>2. w \in Seq(Units) BY CatUnits
<1>3. Len(w) = p + q /\ \A k \in 1 .. q : w[p + k] = d[k]
  <2>1. IsSeq(v) /\ IsSeq(d) BY UnitSeq
  <2> QED BY <1>1, <2>1, CatSeq
<1>4. PICK x : x = SubSeq(w, p + 1, p + q) OBVIOUS
<1>5. /\ x \in Seq(Units) /\ Len(x) = (p + q) - p
      /\ \A k \in 1 .. (p + q) - p : x[k] = w[p + k]
  <2>1. p + q \in Nat /\ p + q <= Len(w) /\ p <= p + q
    BY <1>3
  <2> QED BY <1>2, <1>4, <2>1, RangeUnits
<1>6. (p + q) - p = q OBVIOUS
<1>7. IsSeq(x) /\ IsSeq(d) /\ Len(x) = Len(d) /\ \A k \in 1 .. Len(x) : x[k] = d[k]
  <2>1. IsSeq(x) /\ IsSeq(d) BY <1>5, UnitSeq
  <2> QED BY <1>1, <1>3, <1>5, <1>6, <2>1
<1>8. x = d BY <1>7, SameSeq
<1> QED BY <1>1, <1>3, <1>4, <1>8

LEMMA CutIs ==
    ASSUME NEW v \in Seq(Units), NEW w \in Seq(Units), Keeps(v, w)
    PROVE  Len(w) <= Len(v) /\ w = SubSeq(v, 1, Len(w))
<1>1. IsSeq(v) /\ IsSeq(w) /\ Len(v) \in Nat /\ Len(w) \in Nat
  BY UnitSeq
<1>2. Len(w) <= Len(v) /\ \A k \in 1 .. Len(w) : v[k] = w[k]
  BY DEF Keeps
<1>3. PICK x : x = SubSeq(v, 1, Len(w)) OBVIOUS
<1>4. IsSeq(x) /\ Len(x) = Len(w) /\ \A k \in 1 .. Len(w) : x[k] = v[k]
  BY <1>1, <1>2, <1>3, PreSeq
<1>5. x = w BY <1>1, <1>2, <1>4, SameSeq
<1> QED BY <1>2, <1>3, <1>5

\* A move of the image is a step of the flat file.
LEMMA MovesFlat ==
    ASSUME NEW v \in Seq(Units), NEW w \in Seq(Units), Handler!Content = v, Handler!Content' = w,
           Moves(v, w)
    PROVE  Handler!Flat!Next
<1>1. CASE (\E d \in Seq(Units) : w = v \o d) /\ cursor' = 0 /\ returned' = << >>
  <2>1. w = v \o SubSeq(w, Len(v) + 1, Len(w))
    BY <1>1, TailIs
  <2>2. Handler!Flat!Extend(SubSeq(w, Len(v) + 1, Len(w)))
    BY <1>1, <2>1, Zenon DEF Handler!Flat!Extend
  <2> QED BY <2>2, Zenon DEF Handler!Flat!Next
<1>2. CASE Keeps(v, w) /\ cursor' = 0 /\ returned' = << >>
  <2>1. Len(w) <= Len(v) /\ w = SubSeq(v, 1, Len(w))
    BY <1>2, CutIs
  <2>2. cursor' \in IF Len(w) = Len(v) THEN {0, cursor} ELSE {0}
    BY <1>2
  <2>3. w = IF Len(w) <= Len(v) THEN SubSeq(v, 1, Len(w))
            ELSE v \o Handler!Flat!Zeros(Len(w) - Len(v))
    BY <2>1, Zenon
  <2>4. Handler!Flat!Resize(Len(w))
    BY <1>2, <2>2, <2>3, Zenon DEF Handler!Flat!Resize
  <2> QED BY <2>4, Zenon DEF Handler!Flat!Next
<1>3. CASE w = v /\ returned' = << >>
  <2>1. Handler!Flat!Seek(cursor')
    BY <1>3, Zenon DEF Handler!Flat!Seek
  <2> QED BY <2>1, Zenon DEF Handler!Flat!Next
<1>4. CASE /\ w = v /\ cursor \in 0 .. Len(v)
           /\ \E n \in 0 .. Len(v) :
                /\ returned' = SubSeq(v, cursor + 1, Handler!Flat!Least(cursor + n, Len(v)))
                /\ cursor' = cursor + Len(returned')
  <2>1. PICK n \in 0 .. Len(v) :
              /\ returned' = SubSeq(v, cursor + 1, Handler!Flat!Least(cursor + n, Len(v)))
              /\ cursor' = cursor + Len(returned')
    BY <1>4
  <2>2. Handler!Flat!Read(n)
    BY <1>4, <2>1, Zenon DEF Handler!Flat!Read
  <2> QED BY <1>4, <2>2, Zenon DEF Handler!Flat!Next
<1> QED BY <1>1, <1>2, <1>3, <1>4, Zenon DEF Moves

LEMMA HandlerMoves ==
    ASSUME HandlerInv, Handler!Next
    PROVE  HandlerInv' /\ Handler!Flat!Next
<1>1. PICK f : Known(f, file, mem, failed)
  BY DEF HandlerInv
<1>2. Result(f) BY <1>1, HandlerStep DEF HandlerInv
<1>3. PICK g : /\ Known(g, file', mem', failed') /\ Moves(Value(f), Value(g))
               /\ cursor' \in Nat /\ returned' \in Seq(Units)
  BY <1>2 DEF Result
<1>4. HandlerInv'
  <2>1. (\E g_ : Known(g_, file, mem, failed))' BY <1>3
  <2> QED BY <1>3, <2>1 DEF HandlerInv
<1>5. PICK v, w : v = Value(f) /\ w = Value(g) OBVIOUS
<1>6. v \in Seq(Units) /\ Shows(file, mem) = v
  BY <1>1, <1>5, KnownIs
<1>7. w \in Seq(Units) /\ Shows(file', mem') = w
  BY <1>3, <1>5, KnownIs
<1>8. Handler!Content = v /\ Handler!Content' = w
  BY <1>6, <1>7, ContentShows, Zenon
<1>9. Moves(v, w) BY <1>3, <1>5
<1>10. Handler!Flat!Next
  BY <1>6, <1>7, <1>8, <1>9, MovesFlat
<1> QED BY <1>4, <1>10
--------------------------------------------------
(* The theorems. *)

LEMMA HandlerStarts == MCInit => HandlerInv /\ Handler!Flat!Init
<1>1. SUFFICES ASSUME Handler!Init PROVE HandlerInv /\ Handler!Flat!Init
  BY DEF MCInit, IdleHandler
<1>2. /\ file \in Opened /\ mem = Handler!ReadHeader(file) /\ cursor = 0
      /\ returned = << >> /\ failed = "no"
  BY <1>1 DEF Handler!Init
<1>3. PICK f : f = file OBVIOUS
<1>4. f.sparse \in BOOLEAN /\ Handler!WellFormed(f)
  BY <1>2, <1>3, InputsOK, Zenon
<1>5. Known(f, file, mem, failed)
  <2>1. Known(f, f, Handler!ReadHeader(f), "no")
    BY <1>4, Read_
  <2> QED BY <1>2, <1>3, <2>1, Zenon
<1>6. << >> \in Seq(Units) OBVIOUS
<1>7. HandlerInv BY <1>2, <1>5, <1>6 DEF HandlerInv
<1>8. Handler!Content \in Seq(Units)
  <2>1. Shows(file, mem) = Value(f) /\ Value(f) \in Seq(Units)
    BY <1>5, KnownIs
  <2> QED BY <2>1, ContentShows, Zenon
<1>9. Handler!Flat!Init
  BY <1>2, <1>8, Zenon DEF Handler!Flat!Init
<1> QED BY <1>7, <1>9

LEMMA HandlerNext ==
    HandlerInv /\ [MCNext]_allVars => HandlerInv' /\ [Handler!Flat!Next]_(Handler!Flat!vars)
<1>1. SUFFICES ASSUME HandlerInv, [MCNext]_allVars
               PROVE  HandlerInv' /\ [Handler!Flat!Next]_(Handler!Flat!vars)
  OBVIOUS
<1>2. CASE Handler!Next
  BY <1>1, <1>2, HandlerMoves, Zenon
<1>3. CASE UNCHANGED handler
  <2>1. UNCHANGED <<file, mem, cursor, returned, failed>>
    BY <1>3 DEF handler
  <2>2. HandlerInv' BY <1>1, <2>1 DEF HandlerInv
  <2>3. Handler!Content' = Handler!Content
    BY <2>1, ContentShows
  <2>4. UNCHANGED Handler!Flat!vars
    BY <2>1, <2>3, Zenon DEF Handler!Flat!vars
  <2> QED BY <2>2, <2>4
<1>4. Handler!Next \/ UNCHANGED handler
  BY <1>1 DEF MCNext, allVars
<1> QED BY <1>2, <1>3, <1>4

\* What the handler remembers of an image is what its file says, and the file can be
\* read again, after any appends and cuts of any data (ImageHandler, avbtool.py
\* 774-906).  A full disk in an append tears the header of a sparse image; a cut to a
\* smaller size mends it, truncation to the size it had does not (lines 1117-1119).
THEOREM HandlerAgrees == MCSpec => []FileAgrees
<1>1. HandlerInv => FileAgrees
  <2>1. SUFFICES ASSUME HandlerInv PROVE Handler!FileAgrees
    BY DEF FileAgrees
  <2>2. PICK f : Known(f, file, mem, failed)
    BY <2>1 DEF HandlerInv
  <2>3. mem # Handler!Broken BY <2>2, KnownIs
  <2>4. failed = "no" => mem = Handler!ReadHeader(file)
    BY <2>2 DEF Known
  <2>5. failed = "restored" => file.sparse
    BY <2>2 DEF Known
  <2>6. failed # "no" => (Handler!Malformed(file) <=> file.sparse)
    <3>1. CASE file.sparse BY <2>2, <3>1 DEF Known
    <3>2. CASE ~ file.sparse
      <4>1. f.sparse = FALSE /\ Handler!WellFormed(f) /\ IsSeq(file.body) /\ Keeps(file.body, f.body)
        BY <2>2, <3>2, KnownIs DEF Known
      <4>2. Len(f.body) \in Nat /\ Len(f.body) > 0 /\ Len(file.body) \in Nat
        BY <4>1, PlainIs, LenNat
      <4>3. file.body # << >>
        BY <4>1, <4>2, LenNat DEF Keeps
      <4> QED BY <3>2, <4>3 DEF Handler!Malformed
    <3> QED BY <3>1, <3>2
  <2> QED BY <2>3, <2>4, <2>5, <2>6, Zenon DEF Handler!FileAgrees
<1>2. MCInit => HandlerInv BY HandlerStarts
<1>3. HandlerInv /\ [MCNext]_allVars => HandlerInv'
  BY HandlerNext
<1> QED BY <1>1, <1>2, <1>3, PTL DEF MCSpec

\* To its callers the handler is a flat file, whether a sparse image or a plain one
\* holds what is in it: every step of it is a step of FlatImage or changes nothing
\* that a caller can see (ImageHandler, avbtool.py 732-736).
THEOREM HandlerIsFlat == MCSpec => Implements
<1>1. MCInit => HandlerInv /\ Handler!Flat!Init
  BY HandlerStarts
<1>2. HandlerInv /\ [MCNext]_allVars => HandlerInv' /\ [Handler!Flat!Next]_(Handler!Flat!vars)
  BY HandlerNext
<1> QED BY <1>1, <1>2, PTL DEF MCSpec, Implements, Handler!Implements, Handler!Flat!Spec
--------------------------------------------------
(* mkbootimg and unpack_bootimg: files in pages. *)

\* Naturals multiply.
LEMMA Product == ASSUME NEW m \in Nat, NEW n \in Nat PROVE m * n \in Nat
  OBVIOUS

\* Whole pages hold n cells, and no page more than they need.
LEMMA PageCount ==
    ASSUME NEW p \in Nat \ {0}, NEW m \in Nat, NEW r, r = p * Pages(m, p)
    PROVE  Pages(m, p) \in Nat /\ r \in Nat /\ m <= r /\ r < m + p /\ r % p = 0
<1>1. PICK y \in Nat : y = m + p - 1 OBVIOUS
<1>2. y \div p \in Nat OBVIOUS
<1>3. PICK q \in Nat : q = Pages(m, p) /\ q = (m + p - 1) \div p
  BY <1>1, <1>2 DEF Pages
<1>4. r = q * p
  <2>1. p * q = q * p OBVIOUS
  <2> QED BY <1>3, <2>1
<1>5. r = ((m + p - 1) \div p) * p BY <1>3, <1>4
<1> QED BY <1>3, <1>5, RoundUp

\* What fills the last page: less than a page.
LEMMA Filled ==
    ASSUME NEW p \in Nat \ {0}, NEW y \in Nat
    PROVE  PadSize(y, p) \in Nat /\ PadSize(y, p) < p /\ (y + PadSize(y, p)) % p = 0
<1>1. PICK z \in Nat : z = y % p /\ z < p OBVIOUS
<1>2. PICK k \in Nat : y = k * p + z
  <2>1. y = (y \div p) * p + (y % p) /\ y \div p \in Nat OBVIOUS
  <2> QED BY <1>1, <2>1
<1>3. CASE z = 0
  <2>1. p - z = p /\ p % p = 0 BY <1>3
  <2>2. PadSize(y, p) = 0 BY <1>1, <2>1 DEF PadSize
  <2> QED BY <1>1, <1>3, <2>2
<1>4. CASE z # 0
  <2>1. PICK s \in Nat : s = p - z /\ s < p
    BY <1>1, <1>4
  <2>2. s % p = s BY <2>1
  <2>3. PadSize(y, p) = s
    BY <1>1, <2>1, <2>2 DEF PadSize
  <2>4. y + s = (k + 1) * p
    <3>1. PICK x \in Nat : x = k * p OBVIOUS
    <3>2. (k + 1) * p = x + p BY <3>1
    <3> QED BY <1>2, <2>1, <3>1, <3>2
  <2>5. ((k + 1) * p) % p = 0
    <3>1. PICK x \in Nat : x = k + 1 OBVIOUS
    <3> QED BY <3>1, Multiple
  <2> QED BY <2>1, <2>3, <2>4, <2>5
<1> QED BY <1>3, <1>4

\* A file that begins at a page is filled up to the pages that it takes.
LEMMA Padding ==
    ASSUME NEW p \in Nat \ {0}, NEW n \in Nat, NEW m \in Nat, NEW x, x = p * n
    PROVE  PadSize(x + m, p) \in Nat /\ x \in Nat /\ x + m + PadSize(x + m, p) = p * (n + Pages(m, p))
<1>1. PICK y, s \in Nat : y = x + m /\ s = PadSize(y, p) /\ s < p /\ (y + s) % p = 0 /\ x \in Nat
  <2>1. x \in Nat BY Product
  <2>2. PICK y \in Nat : y = x + m BY <2>1
  <2>3. PadSize(y, p) \in Nat /\ PadSize(y, p) < p /\ (y + PadSize(y, p)) % p = 0
    BY Filled
  <2> QED BY <2>1, <2>2, <2>3
<1>2. PICK q \in Nat : q = Pages(m, p) BY PageCount
<1>3. PICK r \in Nat : r = p * q /\ m <= r /\ r < m + p /\ r % p = 0
  BY <1>2, PageCount
<1>4. x % p = 0
  <2>1. x = n * p OBVIOUS
  <2> QED BY <2>1, Multiple
<1>5. (x + r) % p = 0 BY <1>1, <1>3, <1>4, SumAligned
<1>6. x + r = y + s
  <2>1. CASE x + r <= y + s
    <3>1. ((y + s) - (x + r)) % p = 0
      BY <1>1, <1>3, <1>5, <2>1, DifferenceAligned
    <3>2. PICK d \in Nat : d = (y + s) - (x + r) /\ d < p
      BY <1>1, <1>3, <2>1
    <3>3. d % p = d BY <3>2
    <3> QED BY <1>1, <1>3, <3>1, <3>2, <3>3
  <2>2. CASE y + s <= x + r
    <3>1. ((x + r) - (y + s)) % p = 0
      BY <1>1, <1>3, <1>5, <2>2, DifferenceAligned
    <3>2. PICK d \in Nat : d = (x + r) - (y + s) /\ d < p
      BY <1>1, <1>3, <2>2
    <3>3. d % p = d BY <3>2
    <3> QED BY <1>1, <1>3, <3>1, <3>2, <3>3
  <2> QED BY <1>1, <1>3, <2>1, <2>2
<1>7. p * (n + q) = x + r BY <1>3
<1> QED BY <1>1, <1>2, <1>6, <1>7

\* Zeros are cells.
LEMMA ZerosSeq ==
    ASSUME NEW n \in Nat
    PROVE  IsSeq(Zeros(n)) /\ Len(Zeros(n)) = n
<1>1. PICK s : s = Zeros(n) OBVIOUS
<1>2. s = [k \in 1 .. n |-> s[k]] BY <1>1 DEF Zeros
<1> QED BY <1>1, <1>2, MapSeq

\* PadFile behind whole pages: s is what was written.
LEMMA Padded ==
    ASSUME NEW p \in Nat \ {0}, NEW n, NEW w, Paged(w, p, n), NEW f, IsSeq(f),
           NEW s, s = PadFile(w \o f, p)
    PROVE  /\ Paged(s, p, n + Pages(Len(f), p)) /\ Pages(Len(f), p) \in Nat
           /\ Keeps(s, w) /\ Holds(s, p * n, f)
<1>1. PICK m \in Nat : m = Len(f) BY LenNat
<1>2. PICK x \in Nat : x = p * n /\ x = Len(w) /\ n \in Nat /\ IsSeq(w)
  BY LenNat DEF Paged
<1>3. PICK u : u = w \o f OBVIOUS
<1>4. /\ IsSeq(u) /\ Len(u) = x + m /\ (\A k \in 1 .. x : u[k] = w[k]) /\ \A k \in 1 .. m : u[x + k] = f[k]
  <2>1. /\ IsSeq(w \o f) /\ Len(w \o f) = Len(w) + Len(f)
        /\ \A k \in 1 .. Len(w) : (w \o f)[k] = w[k]
        /\ \A k \in 1 .. Len(f) : (w \o f)[Len(w) + k] = f[k]
    BY <1>2, CatSeq
  <2> QED BY <1>1, <1>2, <1>3, <2>1
<1>5. PICK z \in Nat : z = PadSize(x + m, p) /\ x + m + z = p * (n + Pages(m, p))
  <2>1. /\ PadSize(x + m, p) \in Nat /\ x + m + PadSize(x + m, p) = p * (n + Pages(m, p))
    BY <1>2, Padding
  <2> QED BY <2>1
<1>6. s = u \o Zeros(z)
  BY <1>3, <1>4, <1>5 DEF PadFile, PadSize
<1>7. IsSeq(Zeros(z)) /\ Len(Zeros(z)) = z BY ZerosSeq
<1>8. IsSeq(s) /\ Len(s) = x + m + z /\ \A k \in 1 .. x + m : s[k] = u[k]
  <2>1. /\ IsSeq(u \o Zeros(z)) /\ Len(u \o Zeros(z)) = Len(u) + Len(Zeros(z))
        /\ \A k \in 1 .. Len(u) : (u \o Zeros(z))[k] = u[k]
    BY <1>4, <1>7, CatSeq
  <2> QED BY <1>4, <1>6, <1>7, <2>1
<1>9. Pages(m, p) \in Nat BY PageCount
<1>10. Paged(s, p, n + Pages(m, p))
  BY <1>2, <1>5, <1>8, <1>9 DEF Paged
<1>11. Keeps(s, w) BY <1>2, <1>4, <1>8 DEF Keeps
<1>12. Holds(s, x, f) BY <1>1, <1>4, <1>8 DEF Holds
<1> QED BY <1>1, <1>2, <1>9, <1>10, <1>11, <1>12

\* A file that is not there has no bytes.
LEMMA BytesSeq ==
    ASSUME NEW f, f = None \/ IsSeq(f)
    PROVE  IsSeq(Bytes(f)) /\ Len(Bytes(f)) = filesize(f) /\ filesize(f) \in Nat
<1>1. IsSeq(<< >>) /\ Len(<< >>) = 0 BY DEF IsSeq
<1> QED BY <1>1, LenNat DEF Bytes, filesize

\* Nothing takes no pages.
LEMMA NoPages == ASSUME NEW p \in Nat \ {0} PROVE Pages(0, p) = 0
<1>1. PICK y \in Nat : y = 0 + p - 1 /\ y < p OBVIOUS
<1>2. y \div p = 0 BY <1>1
<1> QED BY <1>1, <1>2 DEF Pages

\* write_padded_file behind whole pages.
LEMMA Written ==
    ASSUME NEW p \in Nat \ {0}, NEW n, NEW w, Paged(w, p, n), NEW f, f = None \/ IsSeq(f),
           NEW s, s = WritePadded(w, f, p)
    PROVE  /\ Paged(s, p, n + Pages(filesize(f), p)) /\ Pages(filesize(f), p) \in Nat
           /\ Keeps(s, w) /\ Holds(s, p * n, Bytes(f))
<1>1. CASE f # None
  <2>1. s = PadFile(w \o f, p) /\ Bytes(f) = f /\ filesize(f) = Len(f) /\ IsSeq(f)
    BY <1>1 DEF WritePadded, Bytes, filesize
  <2> QED BY <2>1, Padded
<1>2. CASE f = None
  <2>1. s = w /\ filesize(f) = 0 /\ Bytes(f) = << >> /\ Len(<< >>) = 0
    BY <1>2 DEF WritePadded, filesize, Bytes
  <2>2. Pages(0, p) = 0 BY NoPages
  <2>3. PICK x \in Nat : x = p * n /\ x = Len(w) /\ n \in Nat
    BY LenNat DEF Paged
  <2>4. Keeps(w, w) /\ Holds(w, x, << >>)
    BY <2>1, <2>3 DEF Keeps, Holds
  <2> QED BY <2>1, <2>2, <2>3, <2>4
<1> QED BY <1>1, <1>2

\* What is written later leaves it there.
LEMMA HoldsOn ==
    ASSUME NEW w, NEW s, IsSeq(w), IsSeq(s), Keeps(s, w), NEW n \in Nat, NEW f, IsSeq(f), Holds(w, n, f)
    PROVE  Holds(s, n, f)
<1>1. PICK lw, ls, lf \in Nat : lw = Len(w) /\ ls = Len(s) /\ lf = Len(f)
  BY LenNat
<1> QED BY <1>1 DEF Holds, Keeps

\* What is kept in what is kept is kept.
LEMMA KeepsOn ==
    ASSUME NEW u, NEW w, NEW s, IsSeq(u), IsSeq(w), IsSeq(s), Keeps(w, u), Keeps(s, w)
    PROVE  Keeps(s, u)
<1>1. PICK lu, lw, ls \in Nat : lu = Len(u) /\ lw = Len(w) /\ ls = Len(s)
  BY LenNat
<1> QED BY <1>1 DEF Keeps

\* extract_image of it.
LEMMA Extracted ==
    ASSUME NEW w, IsSeq(w), NEW n \in Nat, NEW f, IsSeq(f), Holds(w, n, f)
    PROVE  Extract(w, n, Len(f)) = f
<1>1. PICK lw, lf \in Nat : lw = Len(w) /\ lf = Len(f)
  BY LenNat
<1>2. n + lf <= lw /\ \A k \in 1 .. lf : w[n + k] = f[k]
  BY <1>1 DEF Holds
<1>3. PICK m \in Nat : m = n + lf OBVIOUS
<1>4. Extract(w, n, lf) = SubSeq(w, n + 1, m)
  BY <1>1, <1>2, <1>3 DEF Extract
<1>5. /\ IsSeq(SubSeq(w, n + 1, m)) /\ Len(SubSeq(w, n + 1, m)) = m - n
      /\ \A k \in 1 .. m - n : SubSeq(w, n + 1, m)[k] = w[n + k]
  BY <1>1, <1>2, <1>3, MidSeq
<1>6. m - n = lf BY <1>3
<1>7. SubSeq(w, n + 1, m) = f
  BY <1>1, <1>2, <1>5, <1>6, SameSeq
<1> QED BY <1>1, <1>4, <1>7
--------------------------------------------------
(* Texts in fields. *)

\* A text ends at its first NUL (cstr).
LEMMA CstrText ==
    ASSUME NEW b, NEW t, IsSeq(b), IsSeq(t), Keeps(b, t), Len(t) < Len(b),
           b[Len(t) + 1] = NulChar, \A k \in 1 .. Len(t) : t[k] # NulChar
    PROVE  cstr(b) = t
<1>1. PICK m, n \in Nat : m = Len(b) /\ n = Len(t) /\ n < m
  BY LenNat
<1>2. /\ \A k \in 1 .. n : b[k] = t[k] /\ b[k] # NulChar
      /\ b[n + 1] = NulChar
  BY <1>1 DEF Keeps
<1>3. DOMAIN b = 1 .. m BY <1>1 DEF IsSeq
<1>4. NulChar \in ToSet(b) BY <1>1, <1>2, <1>3 DEF ToSet
<1>5. PICK I : I = {k \in 1 .. Len(b) : b[k] = NulChar} OBVIOUS
<1>6. n + 1 \in I /\ \A k \in I : n + 1 <= k
  BY <1>1, <1>2, <1>5
<1>7. NulAt(b) = Min(I)
  <2>1. I # {} BY <1>6
  <2> QED BY <1>5, <2>1, Zenon DEF NulAt, SelectInSeq
<1>8. Min(I) = n + 1
  <2>1. \E x \in I : \A k \in I : x <= k BY <1>6
  <2>2. Min(I) \in I /\ \A k \in I : Min(I) <= k
    BY <2>1, Zenon DEF Min
  <2>3. Min(I) \in Nat BY <1>1, <1>5, <2>2
  <2> QED BY <1>6, <2>2, <2>3
<1>9. cstr(b) = SubSeq(b, 1, NulAt(b) - 1)
  BY <1>4, Zenon DEF cstr, NulAt
<1>10. cstr(b) = SubSeq(b, 1, n) BY <1>7, <1>8, <1>9
<1>11. /\ IsSeq(SubSeq(b, 1, n)) /\ Len(SubSeq(b, 1, n)) = n
       /\ \A k \in 1 .. n : SubSeq(b, 1, n)[k] = b[k]
  BY <1>1, PreSeq
<1>12. SubSeq(b, 1, n) = t BY <1>1, <1>2, <1>11, SameSeq
<1> QED BY <1>10, <1>12

\* A text has no NUL.
LEMMA TextSeq ==
    ASSUME NEW t, IsText(t)
    PROVE  IsSeq(t) /\ Len(t) \in Nat /\ \A k \in 1 .. Len(t) : t[k] # NulChar
<1>1. IsSeq(t) /\ NulChar \notin ToSet(t)
  BY DEF IsText, IsSeq
<1>2. Len(t) \in Nat /\ DOMAIN t = 1 .. Len(t)
  BY <1>1 DEF IsSeq
<1> QED BY <1>1, <1>2 DEF ToSet

\* A text without a NUL is read as it is.
LEMMA NameKept == ASSUME NEW t, IsText(t) PROVE cstr(t) = t
  BY DEF IsText, cstr

\* A text with its NUL (AsciizBytes).
LEMMA AsciizSeq ==
    ASSUME NEW t, IsSeq(t), NEW n, n = Len(t)
    PROVE  /\ IsSeq(Asciiz(t)) /\ n \in Nat /\ Len(Asciiz(t)) = n + 1
           /\ \A k \in 1 .. n : Asciiz(t)[k] = t[k]
           /\ Asciiz(t)[n + 1] = NulChar
<1>1. PICK T : t \in Seq(T) BY DEF IsSeq
<1>2. t \in Seq(T \cup {NulChar}) /\ NulChar \in T \cup {NulChar} /\ n \in Nat
  BY <1>1
<1>3. Append(t, NulChar) \in Seq(T \cup {NulChar})
  BY <1>2
<1>4. Len(Append(t, NulChar)) = n + 1 /\ Append(t, NulChar)[n + 1] = NulChar
      /\ \A k \in 1 .. n : Append(t, NulChar)[k] = t[k]
  BY <1>2
<1> QED BY <1>2, <1>3, <1>4 DEF Asciiz, IsSeq

\* A field of a struct: cut, or filled with NUL (struct.pack).
LEMMA FieldSeq ==
    ASSUME NEW b, NEW n \in Nat
    PROVE  /\ IsSeq(Field(b, n)) /\ Len(Field(b, n)) = n
           /\ \A k \in 1 .. n : Field(b, n)[k] = IF k <= Len(b) THEN b[k] ELSE NulChar
<1>1. PICK s : s = Field(b, n) OBVIOUS
<1>2. s = [k \in 1 .. n |-> IF k <= Len(b) THEN b[k] ELSE NulChar]
  BY <1>1 DEF Field
<1>3. s = [k \in 1 .. n |-> s[k]] BY <1>2
<1>4. IsSeq(s) /\ Len(s) = n BY <1>3, MapSeq
<1> QED BY <1>1, <1>2, <1>4

\* A field that begins with a text and a NUL.
LEMMA FieldCstr ==
    ASSUME NEW s, IsSeq(s), NEW t, IsSeq(t), \A k \in 1 .. Len(t) : t[k] # NulChar,
           NEW n \in Nat, Len(t) < n, Len(t) < Len(s) => s[Len(t) + 1] = NulChar,
           Len(t) <= Len(s), \A k \in 1 .. Len(t) : s[k] = t[k]
    PROVE  cstr(Field(s, n)) = t
<1>1. PICK m, l \in Nat : m = Len(t) /\ l = Len(s)
  BY LenNat
<1>2. /\ IsSeq(Field(s, n)) /\ Len(Field(s, n)) = n
      /\ \A k \in 1 .. n : Field(s, n)[k] = IF k <= l THEN s[k] ELSE NulChar
  BY <1>1, FieldSeq
<1>3. \A k \in 1 .. m : Field(s, n)[k] = t[k]
  BY <1>1, <1>2
<1>4. Field(s, n)[m + 1] = NulChar
  <2>1. PICK k \in 1 .. n : k = m + 1 BY <1>1
  <2> QED BY <1>1, <1>2, <2>1
<1>5. Keeps(Field(s, n), t)
  BY <1>1, <1>2, <1>3 DEF Keeps
<1> QED BY <1>1, <1>2, <1>4, <1>5, CstrText

\* A text that fits with its NUL.
LEMMA FieldText ==
    ASSUME NEW t, IsText(t), NEW n \in Nat, Len(Asciiz(t)) <= n
    PROVE  cstr(Field(Asciiz(t), n)) = t
<1>1. PICK m \in Nat : m = Len(t) BY TextSeq
<1>2. IsSeq(t) /\ \A k \in 1 .. m : t[k] # NulChar
  BY <1>1, TextSeq
<1>3. /\ IsSeq(Asciiz(t)) /\ Len(Asciiz(t)) = m + 1
      /\ \A k \in 1 .. m : Asciiz(t)[k] = t[k]
      /\ Asciiz(t)[m + 1] = NulChar
  BY <1>1, <1>2, AsciizSeq
<1> QED BY <1>1, <1>2, <1>3, FieldCstr

\* The fields of the command line have a size.
LEMMA ArgSizes == BootArgs \in Nat \ {0} /\ BootExtraArgs \in Nat \ {0} /\ VendorArgs \in Nat \ {0}
  BY RepackBootAssumption DEF BootImageAssumption

\* Headers 0 to 2: each half of the command line is in a field.
LEMMA FirstHalf ==
    ASSUME NEW a, IsText(a.cmdline), NEW m \in Nat,
           m = IF Len(a.cmdline) < BootArgs THEN Len(a.cmdline) ELSE BootArgs - 1
    PROVE  cstr(Field(FirstArgs(a), BootArgs)) = SubSeq(a.cmdline, 1, m)
<1>1. PICK t : t = a.cmdline OBVIOUS
<1>2. PICK n, b \in Nat : n = Len(t) /\ b = BootArgs /\ b # 0
  BY <1>1, TextSeq, ArgSizes
<1>3. IsSeq(t) /\ \A k \in 1 .. n : t[k] # NulChar
  BY <1>1, <1>2, TextSeq
<1>4. /\ IsSeq(Asciiz(t)) /\ Len(Asciiz(t)) = n + 1
      /\ \A k \in 1 .. n : Asciiz(t)[k] = t[k]
      /\ Asciiz(t)[n + 1] = NulChar
  BY <1>2, <1>3, AsciizSeq
<1>5. PICK f \in Nat : f = FirstLen(a) /\ f = (IF n + 1 < b THEN n + 1 ELSE b - 1)
  BY <1>1, <1>2 DEF FirstLen
<1>6. PICK s : s = SubSeq(Asciiz(t), 1, f) OBVIOUS
<1>7. IsSeq(s) /\ Len(s) = f /\ \A k \in 1 .. f : s[k] = Asciiz(t)[k]
  <2>1. f <= Len(Asciiz(t)) BY <1>2, <1>4, <1>5
  <2> QED BY <1>4, <1>6, <2>1, PreSeq
<1>8. FirstArgs(a) = Asciiz(s)
  BY <1>1, <1>5, <1>6 DEF FirstArgs, Asciiz
<1>9. /\ IsSeq(Asciiz(s)) /\ Len(Asciiz(s)) = f + 1
      /\ \A k \in 1 .. f : Asciiz(s)[k] = s[k]
      /\ Asciiz(s)[f + 1] = NulChar
  BY <1>7, AsciizSeq
<1>10. m <= n /\ m < b /\ m <= f /\ m = IF n < b THEN n ELSE b - 1
  BY <1>1, <1>2, <1>5
<1>11. PICK h : h = SubSeq(t, 1, m) OBVIOUS
<1>12. IsSeq(h) /\ Len(h) = m /\ \A k \in 1 .. m : h[k] = t[k]
  BY <1>2, <1>3, <1>10, <1>11, PreSeq
<1>13. \A k \in 1 .. m : Asciiz(s)[k] = h[k] /\ h[k] # NulChar
  BY <1>2, <1>3, <1>4, <1>5, <1>7, <1>9, <1>10, <1>12
<1>14. Asciiz(s)[m + 1] = NulChar
  <2>1. CASE n + 1 < b
    <3>1. m = n /\ f = n + 1 /\ n + 1 \in 1 .. f
      BY <1>2, <1>5, <1>10, <2>1
    <3> QED BY <1>4, <1>7, <1>9, <3>1
  <2>2. CASE ~ (n + 1 < b)
    <3>1. m = f BY <1>2, <1>5, <1>10, <2>2
    <3> QED BY <1>9, <3>1
  <2> QED BY <2>1, <2>2
<1>15. cstr(Field(Asciiz(s), b)) = h
  <2>1. m < b /\ m <= Len(Asciiz(s))
    BY <1>5, <1>9, <1>10
  <2> QED BY <1>9, <1>12, <1>13, <1>14, <2>1, FieldCstr
<1> QED BY <1>1, <1>2, <1>8, <1>11, <1>15

\* The end of a command line that does not fit its first field.
LEMMA SecondHalf ==
    ASSUME NEW a, IsText(a.cmdline), Len(a.cmdline) + 1 < BootArgs + BootExtraArgs
    PROVE  cstr(Field(ExtraArgs(a), BootExtraArgs)) =
               IF Len(a.cmdline) < BootArgs THEN << >> ELSE SubSeq(a.cmdline, BootArgs, Len(a.cmdline))
<1>1. PICK t : t = a.cmdline OBVIOUS
<1>2. PICK n, b, x \in Nat : n = Len(t) /\ b = BootArgs /\ b # 0 /\ x = BootExtraArgs /\ x # 0 /\ n + 1 < b + x
  BY <1>1, TextSeq, ArgSizes
<1>3. IsSeq(t) /\ \A k \in 1 .. n : t[k] # NulChar
  BY <1>1, <1>2, TextSeq
<1>4. /\ IsSeq(Asciiz(t)) /\ Len(Asciiz(t)) = n + 1
      /\ \A k \in 1 .. n : Asciiz(t)[k] = t[k]
      /\ Asciiz(t)[n + 1] = NulChar
  BY <1>2, <1>3, AsciizSeq
<1>5. ExtraArgs(a) = SubSeq(Asciiz(t), b, n + 1)
  BY <1>1, <1>2 DEF ExtraArgs
<1>6. PICK y \in Nat : y = b - 1 /\ b = y + 1 BY <1>2
<1>7. PICK z \in Nat : z = n + 1 OBVIOUS
<1>8. PICK s : s = SubSeq(Asciiz(t), y + 1, z) OBVIOUS
<1>9. ExtraArgs(a) = s BY <1>5, <1>6, <1>7, <1>8
<1>10. CASE n < b
  <2>1. CASE n + 1 < b
    <3>1. s = << >>
      BY <1>4, <1>6, <1>7, <1>8, <2>1 DEF IsSeq
    <3>2. IsSeq(<< >>) /\ Len(<< >>) = 0 BY DEF IsSeq
    <3>3. cstr(Field(<< >>, x)) = << >>
      BY <1>2, <3>2, FieldCstr
    <3> QED BY <1>1, <1>2, <1>9, <1>10, <3>1, <3>3
  <2>2. CASE ~ (n + 1 < b)
    <3>1. y = n /\ z - y = 1 /\ y <= z /\ z <= Len(Asciiz(t))
      BY <1>2, <1>4, <1>6, <1>7, <1>10, <2>2
    <3>2. IsSeq(s) /\ Len(s) = z - y /\ \A k \in 1 .. z - y : s[k] = Asciiz(t)[y + k]
      BY <1>4, <1>8, <3>1, MidSeq
    <3>3. Len(s) = 1 /\ s[1] = NulChar
      BY <1>4, <3>1, <3>2
    <3>4. IsSeq(<< >>) /\ Len(<< >>) = 0 BY DEF IsSeq
    <3>5. cstr(Field(s, x)) = << >>
      BY <1>2, <3>2, <3>3, <3>4, FieldCstr
    <3> QED BY <1>1, <1>2, <1>9, <1>10, <3>5
  <2> QED BY <2>1, <2>2
<1>11. CASE ~ (n < b)
  <2>1. y <= n /\ y <= z /\ z <= Len(Asciiz(t)) /\ n - y \in Nat /\ z - y = (n - y) + 1
    BY <1>2, <1>4, <1>6, <1>7, <1>11
  <2>2. PICK d \in Nat : d = n - y /\ z - y = d + 1
    BY <2>1
  <2>3. IsSeq(s) /\ Len(s) = z - y /\ \A k \in 1 .. z - y : s[k] = Asciiz(t)[y + k]
    BY <1>4, <1>8, <2>1, MidSeq
  <2>4. PICK h : h = SubSeq(t, y + 1, n) OBVIOUS
  <2>5. IsSeq(h) /\ Len(h) = n - y /\ \A k \in 1 .. n - y : h[k] = t[y + k]
    BY <1>2, <1>3, <2>1, <2>4, MidSeq
  <2>6. ASSUME NEW k \in 1 .. d PROVE s[k] = h[k] /\ h[k] # NulChar
    <3>1. PICK j \in 1 .. n : j = y + k BY <2>2
    <3>2. s[k] = Asciiz(t)[j] /\ h[k] = t[j]
      BY <2>2, <2>3, <2>5, <3>1
    <3> QED BY <1>3, <1>4, <3>1, <3>2
  <2>7. s[d + 1] = NulChar
    <3>1. d + 1 \in 1 .. z - y /\ y + (d + 1) = n + 1
      BY <1>6, <2>2
    <3> QED BY <1>4, <2>3, <3>1
  <2>8. d < x BY <1>2, <1>6, <2>2
  <2>9. cstr(Field(s, x)) = h
    <3>1. Len(h) = d /\ Len(s) = d + 1 /\ IsSeq(s) /\ IsSeq(h)
      BY <2>2, <2>3, <2>5
    <3> QED BY <1>2, <2>6, <2>7, <2>8, <3>1, FieldCstr
  <2> QED BY <1>1, <1>2, <1>6, <1>9, <1>11, <2>4, <2>9
<1> QED BY <1>10, <1>11

\* Both together.
LEMMA BothHalves ==
    ASSUME NEW a, IsText(a.cmdline), Len(Asciiz(a.cmdline)) <= BootArgs + BootExtraArgs - 1
    PROVE  cstr(Field(FirstArgs(a), BootArgs)) \o cstr(Field(ExtraArgs(a), BootExtraArgs)) = a.cmdline
<1>1. PICK t : t = a.cmdline OBVIOUS
<1>2. PICK n, b, x \in Nat : n = Len(t) /\ b = BootArgs /\ b # 0 /\ x = BootExtraArgs
  BY <1>1, TextSeq, ArgSizes
<1>3. IsSeq(t) /\ Len(Asciiz(t)) = n + 1
  BY <1>1, <1>2, TextSeq, AsciizSeq
<1>4. n + 1 < b + x BY <1>1, <1>2, <1>3
<1>5. PICK m \in Nat : m = (IF n < b THEN n ELSE b - 1) /\ m <= n
  BY <1>2
<1>6. cstr(Field(FirstArgs(a), BootArgs)) = SubSeq(t, 1, m)
  BY <1>1, <1>2, <1>5, FirstHalf
<1>7. cstr(Field(ExtraArgs(a), BootExtraArgs)) = IF n < b THEN << >> ELSE SubSeq(t, b, n)
  BY <1>1, <1>2, <1>4, SecondHalf
<1>8. /\ IsSeq(SubSeq(t, 1, m)) /\ Len(SubSeq(t, 1, m)) = m
      /\ \A k \in 1 .. m : SubSeq(t, 1, m)[k] = t[k]
  BY <1>2, <1>3, <1>5, PreSeq
<1>9. CASE n < b
  <2>1. m = n BY <1>5, <1>9
  <2>2. SubSeq(t, 1, m) = t
    BY <1>2, <1>3, <1>8, <2>1, SameSeq
  <2>3. t \o << >> = t BY <1>3 DEF IsSeq
  <2> QED BY <1>1, <1>6, <1>7, <1>9, <2>2, <2>3
<1>10. CASE ~ (n < b)
  <2>1. b = m + 1 BY <1>2, <1>5, <1>10
  <2>2. PICK u, v : u = SubSeq(t, 1, m) /\ v = SubSeq(t, m + 1, n) OBVIOUS
  <2>3. IsSeq(v) /\ Len(v) = n - m /\ \A k \in 1 .. n - m : v[k] = t[m + k]
    <3>1. n <= Len(t) BY <1>2
    <3>2. /\ IsSeq(SubSeq(t, m + 1, n)) /\ Len(SubSeq(t, m + 1, n)) = n - m
          /\ \A k \in 1 .. n - m : SubSeq(t, m + 1, n)[k] = t[m + k]
      BY <1>3, <1>5, <3>1, MidSeq
    <3> QED BY <2>2, <3>2
  <2>4. /\ IsSeq(u \o v) /\ Len(u \o v) = Len(u) + Len(v)
        /\ \A k \in 1 .. Len(u) : (u \o v)[k] = u[k]
        /\ \A k \in 1 .. Len(v) : (u \o v)[Len(u) + k] = v[k]
    BY <1>8, <2>2, <2>3, CatSeq
  <2>5. Len(u \o v) = n BY <1>5, <1>8, <2>2, <2>3, <2>4
  <2>6. ASSUME NEW k \in 1 .. n PROVE (u \o v)[k] = t[k]
    <3>1. CASE k <= m BY <1>8, <2>2, <2>4, <3>1
    <3>2. CASE ~ (k <= m)
      <4>1. PICK j \in 1 .. n - m : k = m + j
        BY <1>5, <3>2
      <4> QED BY <1>8, <2>2, <2>3, <2>4, <4>1
    <3> QED BY <3>1, <3>2
  <2>7. u \o v = t
    BY <1>2, <1>3, <2>4, <2>5, <2>6, SameSeq
  <2> QED BY <1>1, <1>2, <1>6, <1>7, <1>10, <2>1, <2>2, <2>7
<1> QED BY <1>9, <1>10
--------------------------------------------------
(* The ramdisks of a vendor_boot image, one behind the other. *)

\* Induction up to n.
LEMMA UpTo ==
    ASSUME NEW n \in Nat, NEW T, 0 \in T, \A k \in 1 .. n : k - 1 \in T => k \in T
    PROVE  0 .. n \subseteq T
<1> DEFINE B == {k \in 0 .. n : k \notin T}
<1>1. SUFFICES ASSUME B # {} PROVE FALSE OBVIOUS
<1>2. PICK b \in B : \A k \in B : b <= k
  <2>1. B \in SUBSET Nat OBVIOUS
  <2> HIDE DEF B
  <2> QED BY <1>1, <2>1, Least
<1>3. b \in 1 .. n /\ b - 1 \in 0 .. n /\ ~ (b <= b - 1) OBVIOUS
<1>4. b - 1 \in T BY <1>2, <1>3
<1> QED BY <1>3, <1>4

\* The offsets of the ramdisks of a table are sums of their sizes.
LEMMA TotalSizes ==
    ASSUME NEW fs, NEW n \in Nat, n = Len(fs), FilesOK(fs), NEW t, t = TotalSize(fs)
    PROVE  /\ \A k \in 0 .. n : t[k] \in Nat
           /\ t[0] = 0 /\ \A k \in 1 .. n : t[k] = t[k - 1] + Len(fs[k].file)
<1>1. PICK s : s = [k \in 1 .. n |-> Len(fs[k].file)] OBVIOUS
<1>2. PICK g : g = [k \in 0 .. n |-> IF k = 0 THEN 0 ELSE g[k - 1] + s[k]]
  BY AddsExists DEF Adds
<1>3. g = [k \in 0 .. n |-> IF k = 0 THEN 0 ELSE g[k - 1] + Len(fs[k].file)]
  <2>1. \A k \in 0 .. n : k # 0 => s[k] = Len(fs[k].file)
    BY <1>1
  <2> QED BY <1>2, <2>1
<1>4. TotalSize(fs) = CHOOSE f : f = [k \in 0 .. Len(fs) |-> IF k = 0 THEN 0 ELSE f[k - 1] + Len(fs[k].file)]
  BY Zenon DEF TotalSize
<1>5. TotalSize(fs) = [k \in 0 .. Len(fs) |-> IF k = 0 THEN 0 ELSE TotalSize(fs)[k - 1] + Len(fs[k].file)]
  <2>1. \E f : f = [k \in 0 .. Len(fs) |-> IF k = 0 THEN 0 ELSE f[k - 1] + Len(fs[k].file)]
    BY <1>3, Zenon
  <2> QED BY <1>4, <2>1, Zenon
<1>6. t[0] = 0 /\ \A k \in 1 .. n : t[k] = t[k - 1] + Len(fs[k].file)
  BY <1>5
<1>7. \A k \in 1 .. n : Len(fs[k].file) \in Nat
  BY LenNat DEF FilesOK
<1> DEFINE T == {k \in 0 .. n : t[k] \in Nat}
<1>8. 0 \in T /\ \A k \in 1 .. n : k - 1 \in T => k \in T
  BY <1>6, <1>7
<1>9. 0 .. n \subseteq T
  <2> HIDE DEF T
  <2> QED BY <1>8, UpTo
<1> QED BY <1>6, <1>9

\* The function that joins files is there.
LEMMA JoinsExists ==
    ASSUME NEW fs, NEW n \in Nat
    PROVE  \E r : Joins(fs, n, r)
<1>1. PICK m \in Nat : m = n + 1 OBVIOUS
<1>2. PICK w : w = [k \in 1 .. m |-> IF k = 1 THEN << >> ELSE fs[k - 1].file] OBVIOUS
<1>3. PICK f : f = [k \in 1 .. m |-> IF k = 1 THEN w[k] ELSE f[k - 1] \o w[k]]
  BY FlattensExists DEF Flattens
<1>4. PICK r : r = [k \in 0 .. n |-> f[k + 1]] OBVIOUS
<1>5. f[1] = << >> BY <1>1, <1>2, <1>3
<1>6. ASSUME NEW k \in 1 .. n PROVE f[k + 1] = r[k - 1] \o fs[k].file
  <2>1. k + 1 \in 1 .. m /\ k + 1 # 1 /\ (k + 1) - 1 = k /\ k - 1 \in 0 .. n /\ (k - 1) + 1 = k
    BY <1>1
  <2>2. f[k + 1] = f[k] \o w[k + 1] BY <1>3, <2>1
  <2>3. w[k + 1] = fs[k].file BY <1>2, <2>1
  <2>4. r[k - 1] = f[k] BY <1>4, <2>1
  <2> QED BY <2>2, <2>3, <2>4
<1>7. ASSUME NEW k \in 0 .. n PROVE f[k + 1] = IF k = 0 THEN << >> ELSE r[k - 1] \o fs[k].file
  <2>1. CASE k = 0 BY <1>5, <2>1
  <2>2. CASE k # 0
    <3>1. k \in 1 .. n BY <2>2
    <3> QED BY <1>6, <2>2, <3>1
  <2> QED BY <2>1, <2>2
<1>8. Joins(fs, n, r) BY <1>4, <1>7 DEF Joins
<1> QED BY <1>8

\* Each ramdisk is at its offset in the section of ramdisks.
LEMMA RamdisksHeld ==
    ASSUME NEW fs, FilesOK(fs)
    PROVE  /\ IsSeq(Ramdisks(fs)) /\ Len(Ramdisks(fs)) = Total(fs) /\ Total(fs) \in Nat
           /\ \A k \in 1 .. Len(fs) :
                OffsetOf(fs, k) \in Nat /\ Holds(Ramdisks(fs), OffsetOf(fs, k), fs[k].file)
<1>1. PICK n \in Nat : n = Len(fs) BY LenNat DEF FilesOK
<1>2. PICK t : t = TotalSize(fs) OBVIOUS
<1>3. /\ \A k \in 0 .. n : t[k] \in Nat
      /\ t[0] = 0 /\ \A k \in 1 .. n : t[k] = t[k - 1] + Len(fs[k].file)
  BY <1>1, <1>2, TotalSizes
<1>4. PICK r : /\ r = (CHOOSE f : f = [k \in 0 .. Len(fs) |-> IF k = 0 THEN << >> ELSE f[k - 1] \o fs[k].file])
               /\ Ramdisks(fs) = r[Len(fs)]
  BY Zenon DEF Ramdisks
<1>5. r = [k \in 0 .. n |-> IF k = 0 THEN << >> ELSE r[k - 1] \o fs[k].file]
  <2>1. \E f : f = [k \in 0 .. n |-> IF k = 0 THEN << >> ELSE f[k - 1] \o fs[k].file]
    BY JoinsExists, Zenon DEF Joins
  <2> QED BY <1>1, <1>4, <2>1, Zenon
<1>6. r[0] = << >> /\ \A k \in 1 .. n : r[k] = r[k - 1] \o fs[k].file
  BY <1>5
<1>7. \A k \in 1 .. n : IsSeq(fs[k].file) /\ Len(fs[k].file) \in Nat
  BY <1>1, LenNat DEF FilesOK
<1> DEFINE T == {k \in 0 .. n : IsSeq(r[k]) /\ Len(r[k]) = t[k]}
<1>8. 0 \in T
  <2>1. IsSeq(<< >>) /\ Len(<< >>) = 0 BY DEF IsSeq
  <2> QED BY <1>3, <1>6, <2>1
<1>9. ASSUME NEW k \in 1 .. n, k - 1 \in T PROVE k \in T
  <2>1. PICK v, x : v = r[k - 1] /\ x = fs[k].file OBVIOUS
  <2>2. IsSeq(v) /\ Len(v) = t[k - 1] BY <1>9, <2>1
  <2>3. IsSeq(x) BY <1>7, <2>1
  <2>4. IsSeq(v \o x) /\ Len(v \o x) = Len(v) + Len(x)
    BY <2>2, <2>3, CatSeq
  <2>5. r[k] = v \o x /\ t[k] = t[k - 1] + Len(x)
    BY <1>3, <1>6, <2>1
  <2>6. IsSeq(r[k]) /\ Len(r[k]) = t[k]
    BY <2>2, <2>4, <2>5
  <2> QED BY <2>6
<1>10. 0 .. n \subseteq T
  <2> HIDE DEF T
  <2> QED BY <1>8, <1>9, UpTo
<1>11. \A k \in 0 .. n : IsSeq(r[k]) /\ Len(r[k]) = t[k]
  BY <1>10
<1>12. ASSUME NEW k \in 1 .. n PROVE Holds(r[n], t[k - 1], fs[k].file)
  <2> DEFINE U == {j \in 0 .. n : j >= k => Holds(r[j], t[k - 1], fs[k].file)}
  <2>1. 0 \in U OBVIOUS
  <2>2. ASSUME NEW j \in 1 .. n, j - 1 \in U PROVE j \in U
    <3>1. SUFFICES ASSUME j >= k PROVE Holds(r[j], t[k - 1], fs[k].file) OBVIOUS
    <3>2. PICK v, x : v = r[j - 1] /\ x = fs[j].file OBVIOUS
    <3>7. PICK l \in 0 .. n : l = j - 1 OBVIOUS
    <3>8. IsSeq(v) /\ Len(v) = t[l] /\ t[l] \in Nat
      BY <1>3, <1>11, <3>2, <3>7
    <3>9. IsSeq(x) /\ r[j] = v \o x BY <1>6, <1>7, <3>2
    <3>10. IsSeq(r[j]) BY <1>11
    <3>4. /\ Len(x) \in Nat /\ Len(v) \in Nat /\ Len(v \o x) = Len(v) + Len(x)
          /\ \A y \in 1 .. Len(v) : (v \o x)[y] = v[y]
          /\ \A y \in 1 .. Len(x) : (v \o x)[Len(v) + y] = x[y]
      <4>1. IsSeq(v) /\ IsSeq(x) BY <3>8, <3>9
      <4> QED BY <4>1, CatSeq
    <3>3. IsSeq(v) /\ r[j] = v \o x /\ IsSeq(r[j])
      BY <3>8, <3>9, <3>10
    <3>5. CASE j = k
      <4>1. Holds(v \o x, Len(v), x) BY <3>4 DEF Holds
      <4>2. Len(v) = t[k - 1] /\ x = fs[k].file
        BY <3>2, <3>5, <3>7, <3>8
      <4> QED BY <3>3, <4>1, <4>2
    <3>6. CASE j # k
      <4>1. Holds(v, t[k - 1], fs[k].file)
        BY <2>2, <3>1, <3>2, <3>6
      <4>2. Keeps(r[j], v) BY <3>3, <3>4 DEF Keeps
      <4>3. t[k - 1] \in Nat /\ IsSeq(fs[k].file)
        BY <1>3, <1>7
      <4> QED BY <3>3, <4>1, <4>2, <4>3, HoldsOn
    <3> QED BY <3>5, <3>6
  <2>3. 0 .. n \subseteq U
    <3> HIDE DEF U
    <3> QED BY <2>1, <2>2, UpTo
  <2>4. n \in U /\ n >= k BY <2>3
  <2> QED BY <2>4
<1>13. Ramdisks(fs) = r[n] /\ Total(fs) = t[n]
  BY <1>1, <1>2, <1>4 DEF Total
<1>14. \A k \in 1 .. n : OffsetOf(fs, k) = t[k - 1] /\ t[k - 1] \in Nat
  BY <1>2, <1>3 DEF OffsetOf
<1>15. IsSeq(r[n]) /\ Len(r[n]) = t[n] /\ t[n] \in Nat
  BY <1>3, <1>11
<1> QED BY <1>1, <1>12, <1>13, <1>14, <1>15

\* A file is a sequence of cells.
LEMMA FileSeq ==
    ASSUME NEW f, IsFile(f)
    PROVE  IsSeq(f) /\ Len(f) \in Nat
<1>1. IsSeq(f) BY DEF IsFile, IsSeq
<1> QED BY <1>1, LenNat

\* The ramdisks that a command names.
LEMMA FragmentsOK ==
    ASSUME NEW a, IsCommand(a)
    PROVE  /\ IsSeq(Fragments(a)) /\ \A k \in 1 .. Len(Fragments(a)) : IsFragment(Fragments(a)[k])
           /\ a.vendor_ramdisk = None => Fragments(a) = a.fragments
<1>1. PICK fs : fs = a.fragments OBVIOUS
<1>2. IsSeq(fs) /\ \A k \in 1 .. Len(fs) : IsFragment(fs[k])
  BY <1>1 DEF IsCommand, IsSeq
<1>3. CASE a.vendor_ramdisk = None
  <2>1. << >> \o fs = fs BY <1>2 DEF IsSeq
  <2> QED BY <1>1, <1>2, <1>3, <2>1 DEF Fragments
<1>4. CASE a.vendor_ramdisk # None
  <2>1. PICK x : x = PlainFragment(a.vendor_ramdisk) OBVIOUS
  <2>2. IsFile(a.vendor_ramdisk) BY <1>4 DEF IsCommand
  <2>3. IsText(<< >>) BY DEF IsText, ToSet
  <2>4. IsFragment(x)
    BY <1>4, <2>1, <2>2, <2>3 DEF PlainFragment, IsFragment
  <2>5. Fragments(a) = <<x>> \o fs
    BY <1>1, <1>4, <2>1 DEF Fragments
  <2>6. IsSeq(<<x>>) /\ Len(<<x>>) = 1 /\ <<x>>[1] = x
    BY OneSeq
  <2>7. /\ IsSeq(<<x>> \o fs) /\ Len(fs) \in Nat /\ Len(<<x>> \o fs) = 1 + Len(fs)
        /\ \A k \in 1 .. 1 : (<<x>> \o fs)[k] = <<x>>[k]
        /\ \A k \in 1 .. Len(fs) : (<<x>> \o fs)[1 + k] = fs[k]
    <3>1. /\ IsSeq(<<x>> \o fs) /\ Len(fs) \in Nat /\ Len(<<x>> \o fs) = Len(<<x>>) + Len(fs)
          /\ \A k \in 1 .. Len(<<x>>) : (<<x>> \o fs)[k] = <<x>>[k]
          /\ \A k \in 1 .. Len(fs) : (<<x>> \o fs)[Len(<<x>>) + k] = fs[k]
      BY <1>2, <2>6, CatSeq
    <3> QED BY <2>6, <3>1
  <2>8. ASSUME NEW k \in 1 .. Len(<<x>> \o fs) PROVE IsFragment((<<x>> \o fs)[k])
    <3>1. CASE k = 1 BY <2>4, <2>6, <2>7, <3>1
    <3>2. CASE k # 1
      <4>1. PICK j \in 1 .. Len(fs) : k = 1 + j
        BY <2>7, <3>2
      <4> QED BY <1>2, <2>7, <4>1
    <3> QED BY <3>1, <3>2
  <2> QED BY <1>4, <2>5, <2>7, <2>8
<1> QED BY <1>3, <1>4

\* The ramdisks of a command line are files.
LEMMA FragmentFiles ==
    ASSUME NEW a, IsCommand(a)
    PROVE  FilesOK(Fragments(a))
<1>1. IsSeq(Fragments(a)) /\ \A k \in 1 .. Len(Fragments(a)) : IsFragment(Fragments(a)[k])
  BY FragmentsOK
<1>2. \A x : IsFragment(x) => IsSeq(x.file)
  BY FileSeq DEF IsFragment
<1> QED BY <1>1, <1>2 DEF FilesOK
--------------------------------------------------
(* The header of a boot image. *)

\* What the union of two records says.
LEMMA WithFields == ASSUME NEW f, NEW g PROVE MergeOf(With(f, g), f, g)
<1>1. PICK u, v : u = DOMAIN f /\ v = DOMAIN g OBVIOUS
<1>2. With(f, g) = [x \in u \cup v |-> IF x \in u THEN f[x] ELSE g[x]]
  BY <1>1, Zenon DEF With
<1> QED BY <1>1, <1>2 DEF MergeOf

\* What the header of version 0 says.
LEMMA V0 == ASSUME NEW a, NEW h, h = HeaderV0(a) PROVE DOMAIN h = V0Names /\ V0Fields(h, a)
<1>1. DOMAIN h = V0Names BY DEF HeaderV0, V0Names
<1>2. V0Fields(h, a)
  BY DEF HeaderV0, V0Fields, RamdiskAddr, SecondAddr
<1> QED BY <1>1, <1>2

\* What version 1 adds.
LEMMA V1 ==
    ASSUME NEW a, NEW h, h = HeaderV1(a)
    PROVE  /\ DOMAIN h = {"recovery_dtbo_size", "recovery_dtbo_offset"}
           /\ h["recovery_dtbo_size"] = filesize(a.recovery_dtbo)
           /\ h["recovery_dtbo_offset"] = IF a.recovery_dtbo = None THEN 0 ELSE RecoveryDtboOffset(a)
BY DEF HeaderV1

\* What version 2 adds.
LEMMA V2 ==
    ASSUME NEW a, NEW h, h = HeaderV2(a)
    PROVE  /\ DOMAIN h = {"dtb_size", "dtb_addr"}
           /\ h["dtb_size"] = filesize(a.dtb) /\ h["dtb_addr"] = a.base + a.dtb_offset
BY DEF HeaderV2

\* What the header of version 3 says.
LEMMA V3 ==
    ASSUME NEW a, NEW h, h = HeaderV3(a)
    PROVE  /\ DOMAIN h = {"magic", "header_version", "kernel_size", "ramdisk_size", "os", "cmdline"}
           /\ h["magic"] = "ANDROID!" /\ h["header_version"] = a.header_version
           /\ h["kernel_size"] = filesize(a.kernel) /\ h["ramdisk_size"] = filesize(a.ramdisk)
           /\ h["cmdline"] = LineField(a)
BY DEF HeaderV3, LineField

\* What version 4 adds.
LEMMA V4 ==
    ASSUME NEW a, NEW h, h = HeaderV4(a)
    PROVE  /\ DOMAIN h = {"signature_size"}
           /\ h["signature_size"] = IF a.gki = None THEN 0 ELSE SignatureSize
BY DEF HeaderV4

\* The fields of version 0 are not changed by those of later versions.
LEMMA V0Kept ==
    ASSUME NEW a, NEW f, NEW g, V0Names \subseteq DOMAIN f, V0Fields(f, a), NEW h, h = With(f, g)
    PROVE  V0Names \subseteq DOMAIN h /\ V0Fields(h, a)
<1>1. MergeOf(h, f, g) BY WithFields
<1>2. V0Names \subseteq DOMAIN h /\ \A x : x \in V0Names => h[x] = f[x]
  <2> HIDE DEF V0Names
  <2> QED BY <1>1 DEF MergeOf
<1>3. /\ h["magic"] = f["magic"] /\ h["header_version"] = f["header_version"]
      /\ h["kernel_size"] = f["kernel_size"] /\ h["ramdisk_size"] = f["ramdisk_size"]
      /\ h["second_size"] = f["second_size"] /\ h["page_size"] = f["page_size"]
      /\ h["kernel_addr"] = f["kernel_addr"] /\ h["name"] = f["name"]
      /\ h["ramdisk_addr"] = f["ramdisk_addr"] /\ h["second_addr"] = f["second_addr"]
      /\ h["tags_addr"] = f["tags_addr"] /\ h["cmdline"] = f["cmdline"]
      /\ h["extra_cmdline"] = f["extra_cmdline"]
  BY <1>2 DEF V0Names
<1> QED BY <1>2, <1>3 DEF V0Fields

\* What the header of any version says.
LEMMA HeaderFields ==
    ASSUME NEW a, a.header_version \in Nat, ~ (a.header_version > 4)
    PROVE  BootFields(BootHeader(a), a)
<1>1. PICK v \in Nat : v = a.header_version /\ v <= 4 OBVIOUS
<1>2. PICK h : h = BootHeader(a) OBVIOUS
<1>3. PICK h0, h1, h2, h3, h4 : /\ h0 = HeaderV0(a) /\ h1 = HeaderV1(a) /\ h2 = HeaderV2(a)
                                /\ h3 = HeaderV3(a) /\ h4 = HeaderV4(a)
  OBVIOUS
<1>4. h = CASE v = 0 -> h0 [] v = 1 -> With(h0, h1) [] v = 2 -> With(With(h0, h1), h2)
            [] v = 3 -> h3 [] OTHER -> With(h3, h4)
  BY <1>1, <1>2, <1>3, Zenon DEF BootHeader
<1>5. DOMAIN h0 = V0Names /\ V0Fields(h0, a) BY <1>3, V0
<1>6. /\ DOMAIN h1 = {"recovery_dtbo_size", "recovery_dtbo_offset"}
      /\ h1["recovery_dtbo_size"] = filesize(a.recovery_dtbo)
      /\ h1["recovery_dtbo_offset"] = IF a.recovery_dtbo = None THEN 0 ELSE RecoveryDtboOffset(a)
  BY <1>3, V1
<1>7. /\ DOMAIN h2 = {"dtb_size", "dtb_addr"}
      /\ h2["dtb_size"] = filesize(a.dtb) /\ h2["dtb_addr"] = a.base + a.dtb_offset
  BY <1>3, V2
<1>8. /\ DOMAIN h3 = {"magic", "header_version", "kernel_size", "ramdisk_size", "os", "cmdline"}
      /\ h3["magic"] = "ANDROID!" /\ h3["header_version"] = a.header_version
      /\ h3["kernel_size"] = filesize(a.kernel) /\ h3["ramdisk_size"] = filesize(a.ramdisk)
      /\ h3["cmdline"] = LineField(a)
  BY <1>3, V3
<1>9. DOMAIN h4 = {"signature_size"} /\ h4["signature_size"] = IF a.gki = None THEN 0 ELSE SignatureSize
  BY <1>3, V4
<1>10. "magic" \in V0Names BY DEF V0Names
<1>11. V0Names \cap {"recovery_dtbo_size", "recovery_dtbo_offset", "dtb_size", "dtb_addr"} = {}
  BY DEF V0Names
<1> HIDE DEF V0Names
<1>12. PICK w1, w2, w4 : w1 = With(h0, h1) /\ w2 = With(w1, h2) /\ w4 = With(h3, h4) OBVIOUS
<1>13. MergeOf(w1, h0, h1) /\ MergeOf(w2, w1, h2) /\ MergeOf(w4, h3, h4)
  BY <1>12, WithFields
<1>14. V0Names \subseteq DOMAIN w1 /\ V0Fields(w1, a)
  BY <1>5, <1>12, V0Kept
<1>15. V0Names \subseteq DOMAIN w2 /\ V0Fields(w2, a)
  BY <1>12, <1>14, V0Kept
<1>16. w1["recovery_dtbo_size"] = h1["recovery_dtbo_size"] /\ w1["recovery_dtbo_offset"] = h1["recovery_dtbo_offset"]
       /\ DOMAIN w1 = V0Names \cup DOMAIN h1
  BY <1>5, <1>6, <1>11, <1>13 DEF MergeOf
<1>17. /\ w2["recovery_dtbo_size"] = h1["recovery_dtbo_size"]
       /\ w2["recovery_dtbo_offset"] = h1["recovery_dtbo_offset"]
       /\ w2["dtb_size"] = h2["dtb_size"] /\ w2["dtb_addr"] = h2["dtb_addr"]
  BY <1>6, <1>7, <1>11, <1>13, <1>16 DEF MergeOf
<1>18. /\ "magic" \in DOMAIN w4 /\ w4["magic"] = h3["magic"] /\ w4["header_version"] = h3["header_version"]
       /\ w4["kernel_size"] = h3["kernel_size"] /\ w4["ramdisk_size"] = h3["ramdisk_size"]
       /\ w4["cmdline"] = h3["cmdline"] /\ w4["signature_size"] = h4["signature_size"]
  BY <1>8, <1>9, <1>13 DEF MergeOf
<1>19. CASE v = 0
  <2>1. h = h0 /\ "magic" \in DOMAIN h
    BY <1>4, <1>5, <1>10, <1>19
  <2>2. /\ a.header_version = 0 /\ (a.header_version < 3) /\ ~ (a.header_version \in {1, 2})
      /\ ~ (a.header_version = 2) /\ ~ (a.header_version > 2) /\ ~ (a.header_version = 4)
    BY <1>1, <1>19
  <2> QED BY <1>2, <1>5, <2>1, <2>2 DEF BootFields, V0Fields
<1>20. CASE v = 1
  <2>1. h = w1 /\ "magic" \in DOMAIN h
    BY <1>4, <1>10, <1>12, <1>14, <1>20
  <2>2. /\ a.header_version = 1 /\ (a.header_version < 3) /\ (a.header_version \in {1, 2})
      /\ ~ (a.header_version = 2) /\ ~ (a.header_version > 2) /\ ~ (a.header_version = 4)
    BY <1>1, <1>20
  <2> QED BY <1>2, <1>6, <1>14, <1>16, <2>1, <2>2 DEF BootFields, V0Fields
<1>21. CASE v = 2
  <2>1. h = w2 /\ "magic" \in DOMAIN h
    BY <1>4, <1>10, <1>12, <1>15, <1>21
  <2>2. /\ a.header_version = 2 /\ (a.header_version < 3) /\ (a.header_version \in {1, 2})
      /\ (a.header_version = 2) /\ ~ (a.header_version > 2) /\ ~ (a.header_version = 4)
    BY <1>1, <1>21
  <2> QED BY <1>2, <1>6, <1>7, <1>15, <1>17, <2>1, <2>2 DEF BootFields, V0Fields
<1>22. CASE v = 3
  <2>1. h = h3 /\ "magic" \in DOMAIN h
    BY <1>4, <1>8, <1>22
  <2>2. /\ a.header_version = 3 /\ ~ (a.header_version < 3) /\ ~ (a.header_version \in {1, 2})
      /\ ~ (a.header_version = 2) /\ (a.header_version > 2) /\ ~ (a.header_version = 4)
    BY <1>1, <1>22
  <2> QED BY <1>2, <1>8, <2>1, <2>2 DEF BootFields
<1>23. CASE v = 4
  <2>1. h = w4 BY <1>4, <1>12, <1>23
  <2>2. /\ a.header_version = 4 /\ ~ (a.header_version < 3) /\ ~ (a.header_version \in {1, 2})
      /\ ~ (a.header_version = 2) /\ (a.header_version > 2) /\ (a.header_version = 4)
    BY <1>1, <1>23
  <2> QED BY <1>2, <1>8, <1>9, <1>18, <2>1, <2>2 DEF BootFields
<1> QED BY <1>1, <1>2, <1>19, <1>20, <1>21, <1>22, <1>23

\* The header is in the first page.
LEMMA WriteHeaderHeld ==
    ASSUME NEW h, NEW m \in Nat \ {0}, NEW p \in Nat \ {0}, NEW w, w = WriteHeader(h, m, p)
    PROVE  /\ Paged(w, p, Pages(m, p)) /\ m <= Len(w) /\ Pages(m, p) \in Nat
           /\ w[1] = [content |-> h, i |-> 1]
<1>1. PICK y : y = Cells(h, m) OBVIOUS
<1>2. y = [k \in 1 .. m |-> [content |-> h, i |-> k]]
  BY <1>1 DEF Cells
<1>3. IsSeq(y) /\ Len(y) = m
  <2>1. y = [k \in 1 .. m |-> y[k]] BY <1>2
  <2> QED BY <2>1, MapSeq
<1>4. y[1] = [content |-> h, i |-> 1] BY <1>2
<1>5. IsSeq(<< >>) /\ Len(<< >>) = 0 BY DEF IsSeq
<1>6. << >> \o y = y BY <1>3 DEF IsSeq
<1>7. Paged(<< >>, p, 0) BY <1>5 DEF Paged
<1>8. w = PadFile(<< >> \o y, p)
  BY <1>1, <1>6 DEF WriteHeader
<1>9. /\ Paged(w, p, 0 + Pages(Len(y), p)) /\ Pages(Len(y), p) \in Nat
      /\ Keeps(w, << >>) /\ Holds(w, p * 0, y)
  BY <1>3, <1>7, <1>8, Padded
<1>10. PICK x : x = p * 0 OBVIOUS
<1>11. x = 0 BY <1>10
<1>12. Holds(w, 0, y) BY <1>9, <1>10, <1>11
<1>13. m <= Len(w) /\ w[1] = y[1]
  <2>1. 0 + m <= Len(w) /\ \A k \in 1 .. m : w[0 + k] = y[k]
    BY <1>3, <1>12 DEF Holds
  <2>2. w[0 + 1] = y[1] BY <2>1
  <2>3. Len(w) \in Nat BY <1>9, LenNat DEF Paged
  <2> QED BY <2>1, <2>2, <2>3
<1>14. 0 + Pages(m, p) = Pages(m, p) BY <1>3, <1>9
<1> QED BY <1>3, <1>4, <1>9, <1>13, <1>14
--------------------------------------------------
(* mkbootimg: the files of a boot image. *)

\* A file that may be left out.
LEMMA OptionFile ==
    ASSUME NEW f, f = None \/ IsFile(f)
    PROVE  IsOption(f) /\ IsSeq(Bytes(f)) /\ Len(Bytes(f)) = filesize(f) /\ filesize(f) \in Nat
<1>1. IsOption(f) BY FileSeq DEF IsOption
<1> QED BY <1>1, BytesSeq DEF IsOption

\* What a command that is not refused says.
LEMMA BootFacts ==
    ASSUME NEW a, BootCommand(a)
    PROVE  /\ a.header_version \in 0 .. 4
           /\ IsOption(a.kernel) /\ IsOption(a.ramdisk) /\ IsOption(a.second)
           /\ IsOption(a.dtb) /\ IsOption(a.recovery_dtbo)
           /\ a.header_version > 2 => a.second = None
           /\ a.header_version = 4 /\ a.gki # None => IsSeq(a.gki) /\ Len(a.gki) <= SignatureSize
           /\ BootPage(a) \in Nat \ {0} /\ BootPage(a) >= BootHeaderSize
<1>1. IsCommand(a) /\ ~ Refused(a) /\ ~ TooLong(a) /\ a.vendor = FALSE
  BY DEF BootCommand
<1>2. a.header_version \in Nat /\ a.pagesize \in Nat /\ a.pagesize >= BootHeaderSize
  BY <1>1 DEF IsCommand
<1>3. ~ (a.header_version > 4) /\ (a.header_version > 2 => a.second = None)
  <2>1. ~ (a.header_version > 4) /\ ~ (a.second # None /\ a.header_version > 2)
    BY <1>1, Zenon DEF Refused
  <2> QED BY <2>1
<1>4. /\ a.kernel = None \/ IsFile(a.kernel)
      /\ a.ramdisk = None \/ IsFile(a.ramdisk)
      /\ a.second = None \/ IsFile(a.second)
      /\ a.dtb = None \/ IsFile(a.dtb)
      /\ a.recovery_dtbo = None \/ IsFile(a.recovery_dtbo)
      /\ a.gki = None \/ IsFile(a.gki)
  BY <1>1 DEF IsCommand
<1>5. /\ IsOption(a.kernel) /\ IsOption(a.ramdisk) /\ IsOption(a.second)
      /\ IsOption(a.dtb) /\ IsOption(a.recovery_dtbo)
  BY <1>4, OptionFile
<1>6. a.header_version = 4 /\ a.gki # None => IsSeq(a.gki) /\ Len(a.gki) <= SignatureSize
  <2>1. SUFFICES ASSUME a.header_version = 4, a.gki # None
                 PROVE  IsSeq(a.gki) /\ Len(a.gki) <= SignatureSize
    OBVIOUS
  <2>2. ~ (Len(a.gki) > SignatureSize)
    BY <1>1, <2>1, Zenon DEF TooLong
  <2>3. IsSeq(a.gki) /\ Len(a.gki) \in Nat
    BY <1>4, <2>1, FileSeq
  <2> QED BY <2>2, <2>3 DEF SignatureSize
<1>7. BootPage(a) \in Nat \ {0} /\ BootPage(a) >= BootHeaderSize
  BY <1>2 DEF BootPage, BootHeaderSize, V3PageSize
<1> QED BY <1>2, <1>3, <1>5, <1>6, <1>7

\* The signature has its size.
LEMMA SignatureSeq ==
    ASSUME NEW a, IsSeq(a.gki), Len(a.gki) <= SignatureSize
    PROVE  IsSeq(Signature(a)) /\ Len(Signature(a)) = SignatureSize
<1>1. PICK m \in Nat : m = Len(a.gki) /\ m <= 4
  BY LenNat DEF SignatureSize
<1>2. PICK y \in Nat : y = 4 - m /\ m + y = 4 /\ y = SignatureSize - m
  <2>1. 4 - m \in Nat /\ m + (4 - m) = 4 BY <1>1
  <2> QED BY <2>1 DEF SignatureSize
<1>3. IsSeq(Zeros(y)) /\ Len(Zeros(y)) = y BY ZerosSeq
<1>4. PICK g, z : g = a.gki /\ z = Zeros(y) OBVIOUS
<1>5. IsSeq(g \o z) /\ Len(g \o z) = Len(g) + Len(z)
  <2>1. IsSeq(g) /\ IsSeq(z) BY <1>3, <1>4
  <2> QED BY <2>1, CatSeq
<1>6. Signature(a) = g \o z
  BY <1>1, <1>2, <1>4 DEF Signature
<1>7. Len(g \o z) = 4 BY <1>1, <1>2, <1>3, <1>4, <1>5
<1> QED BY <1>5, <1>6, <1>7 DEF SignatureSize

\* A file takes whole pages.
LEMMA PageNat ==
    ASSUME NEW p \in Nat \ {0}, NEW f, IsOption(f)
    PROVE  Pages(filesize(f), p) \in Nat
<1>1. filesize(f) \in Nat BY BytesSeq DEF IsOption
<1> QED BY <1>1, PageCount

\* A file stays at its page when others are written behind it.
LEMMA HeldLater ==
    ASSUME NEW p \in Nat \ {0}, NEW n \in Nat, NEW w, NEW s, IsSeq(w), IsSeq(s), Keeps(s, w),
           NEW f, IsSeq(f), Holds(w, p * n, f)
    PROVE  Holds(s, p * n, f)
<1>1. p * n \in Nat BY Product
<1> QED BY <1>1, HoldsOn

\* The header takes one page.
LEMMA OnePage == ASSUME NEW p \in Nat \ {0}, p >= BootHeaderSize PROVE Pages(BootHeaderSize, p) = 1
<1>1. PICK q : q = Pages(2, p) OBVIOUS
<1>2. PICK r : r = p * q OBVIOUS
<1>3. q \in Nat /\ r \in Nat /\ 2 <= r /\ r < 2 + p
  BY <1>1, <1>2, PageCount
<1>4. CASE q = 0 BY <1>2, <1>3, <1>4
<1>5. CASE q > 1
  <2>1. PICK y \in Nat : q = y + 2 BY <1>3, <1>5
  <2>2. PICK z \in Nat : z = p * y BY Product
  <2>3. r = z + p + p BY <1>2, <2>1, <2>2
  <2> QED BY <1>3, <2>3 DEF BootHeaderSize
<1> QED BY <1>1, <1>3, <1>4, <1>5 DEF BootHeaderSize

\* write_data: every file of a boot image is at its pages.
LEMMA BootLaidOut ==
    ASSUME NEW a, BootCommand(a), NEW p, p = BootPage(a), NEW w, w = Mkbootimg(a)
    PROVE  BootAt(w, a, p)
<1>1. /\ a.header_version \in 0 .. 4
      /\ IsOption(a.kernel) /\ IsOption(a.ramdisk) /\ IsOption(a.second)
      /\ IsOption(a.dtb) /\ IsOption(a.recovery_dtbo)
      /\ a.header_version > 2 => a.second = None
      /\ a.header_version = 4 /\ a.gki # None => IsSeq(a.gki) /\ Len(a.gki) <= SignatureSize
      /\ p \in Nat \ {0} /\ p >= BootHeaderSize
  BY BootFacts
<1>2. PICK d4, d5 : /\ d4 = IF a.header_version \in {1, 2} THEN a.recovery_dtbo ELSE None
                    /\ d5 = IF a.header_version \in {2} THEN a.dtb ELSE None
  OBVIOUS
<1>3. PICK o0, o1, o2, o3, o4, o5 :
        /\ o0 = WriteHeader(BootHeader(a), BootHeaderSize, p) /\ o1 = WritePadded(o0, a.kernel, p)
        /\ o2 = WritePadded(o1, a.ramdisk, p) /\ o3 = WritePadded(o2, a.second, p)
        /\ o4 = WritePadded(o3, d4, p) /\ o5 = WritePadded(o4, d5, p)
  OBVIOUS
<1>4. w = IF a.header_version = 4 /\ a.gki # None THEN PadFile(o5 \o Signature(a), p) ELSE o5
  <2>1. a.vendor = FALSE BY DEF BootCommand
  <2>2. w = WriteData(a, WriteHeader(BootHeader(a), BootHeaderSize, p), p)
    BY <2>1, Zenon DEF Mkbootimg, BootPage
  <2> QED BY <1>2, <1>3, <2>2, Zenon DEF WriteData
<1>5. IsOption(d4) /\ IsOption(d5)
  BY <1>1, <1>2 DEF IsOption
<1>6. PICK n2, n3, n4, n5, n6 :
        /\ n2 = 1 + Pages(filesize(a.kernel), p) /\ n3 = n2 + Pages(filesize(a.ramdisk), p)
        /\ n4 = n3 + Pages(filesize(a.second), p) /\ n5 = n4 + Pages(filesize(d4), p)
        /\ n6 = n5 + Pages(filesize(d5), p)
  OBVIOUS
<1>7. Paged(o0, p, 1) /\ 2 <= Len(o0) /\ o0[1] = [content |-> BootHeader(a), i |-> 1]
  <2>1. /\ Paged(o0, p, Pages(BootHeaderSize, p)) /\ BootHeaderSize <= Len(o0)
        /\ o0[1] = [content |-> BootHeader(a), i |-> 1]
    <3>1. BootHeaderSize \in Nat \ {0}
      BY DEF BootHeaderSize
    <3> QED BY <1>1, <1>3, <3>1, WriteHeaderHeld
  <2> QED BY <1>1, <2>1, OnePage DEF BootHeaderSize
<1>8. Paged(o1, p, n2) /\ Keeps(o1, o0) /\ Holds(o1, p * 1, Bytes(a.kernel))
  BY <1>1, <1>3, <1>6, <1>7, Written DEF IsOption
<1>9. Paged(o2, p, n3) /\ Keeps(o2, o1) /\ Holds(o2, p * n2, Bytes(a.ramdisk))
  BY <1>1, <1>3, <1>6, <1>8, Written DEF IsOption
<1>10. Paged(o3, p, n4) /\ Keeps(o3, o2) /\ Holds(o3, p * n3, Bytes(a.second))
  BY <1>1, <1>3, <1>6, <1>9, Written DEF IsOption
<1>11. Paged(o4, p, n5) /\ Keeps(o4, o3) /\ Holds(o4, p * n4, Bytes(d4))
  BY <1>1, <1>3, <1>5, <1>6, <1>10, Written DEF IsOption
<1>12. Paged(o5, p, n6) /\ Keeps(o5, o4) /\ Holds(o5, p * n5, Bytes(d5))
  BY <1>1, <1>3, <1>5, <1>6, <1>11, Written DEF IsOption
<1>13. /\ IsSeq(w) /\ Keeps(w, o5)
       /\ a.header_version = 4 /\ a.gki # None => Holds(w, p * n6, Signature(a))
  <2>1. CASE a.header_version = 4 /\ a.gki # None
    <3>1. IsSeq(Signature(a))
      BY <1>1, <2>1, SignatureSeq
    <3>2. w = PadFile(o5 \o Signature(a), p)
      BY <1>4, <2>1
    <3> QED BY <1>1, <1>12, <3>1, <3>2, Padded DEF Paged
  <2>2. CASE ~ (a.header_version = 4 /\ a.gki # None)
    <3>1. w = o5 /\ IsSeq(o5) /\ Len(o5) \in Nat
      BY <1>4, <1>12, <2>2, LenNat DEF Paged
    <3>2. Keeps(o5, o5) BY <3>1 DEF Keeps
    <3> QED BY <2>2, <3>1, <3>2
  <2> QED BY <2>1, <2>2
<1>14. IsSeq(o0) /\ IsSeq(o1) /\ IsSeq(o2) /\ IsSeq(o3) /\ IsSeq(o4) /\ IsSeq(o5)
  BY <1>7, <1>8, <1>9, <1>10, <1>11, <1>12 DEF Paged
<1>15. Keeps(w, o4) BY <1>12, <1>13, <1>14, KeepsOn
<1>16. Keeps(w, o3)
  BY <1>11, <1>13, <1>14, <1>15, KeepsOn
<1>17. Keeps(w, o2)
  BY <1>10, <1>13, <1>14, <1>16, KeepsOn
<1>18. Keeps(w, o1)
  BY <1>9, <1>13, <1>14, <1>17, KeepsOn
<1>19. Keeps(w, o0)
  BY <1>8, <1>13, <1>14, <1>18, KeepsOn
<1>20. 2 <= Len(w) /\ w[1] = [content |-> BootHeader(a), i |-> 1]
  <2>1. Len(w) \in Nat /\ Len(o0) \in Nat
    BY <1>13, <1>14, LenNat
  <2> QED BY <1>7, <1>19, <2>1 DEF Keeps
<1>21. n2 \in Nat /\ n3 \in Nat /\ n4 \in Nat /\ n5 \in Nat /\ n6 \in Nat
  BY <1>8, <1>9, <1>10, <1>11, <1>12 DEF Paged
<1>22. /\ IsSeq(Bytes(a.kernel)) /\ IsSeq(Bytes(a.ramdisk)) /\ IsSeq(Bytes(a.second))
       /\ IsSeq(Bytes(d4)) /\ IsSeq(Bytes(d5))
  BY <1>1, <1>5, BytesSeq DEF IsOption
<1>23. Holds(w, p * 1, Bytes(a.kernel))
  <2>1. 1 \in Nat OBVIOUS
  <2> QED BY <1>1, <1>8, <1>13, <1>14, <1>18, <1>22, <2>1, HeldLater
<1>24. Holds(w, p * n2, Bytes(a.ramdisk))
  BY <1>1, <1>9, <1>13, <1>14, <1>17, <1>21, <1>22, HeldLater
<1>25. Holds(w, p * n3, Bytes(a.second))
  BY <1>1, <1>10, <1>13, <1>14, <1>16, <1>21, <1>22, HeldLater
<1>26. Holds(w, p * n4, Bytes(d4))
  BY <1>1, <1>11, <1>13, <1>14, <1>15, <1>21, <1>22, HeldLater
<1>27. Holds(w, p * n5, Bytes(d5))
  BY <1>1, <1>12, <1>13, <1>14, <1>21, <1>22, HeldLater
<1>28. n2 = Page2(a, p) /\ n3 = Page3(a, p) /\ n4 = Page4(a, p)
  BY <1>6 DEF Page2, Page3, Page4
<1>29. a.header_version \in {1, 2} => d4 = a.recovery_dtbo /\ n5 = Page5(a, p)
  BY <1>2, <1>6, <1>28 DEF Page5
<1>30. a.header_version = 2 => d5 = a.dtb BY <1>2
<1>31. a.header_version = 4 => n6 = n3
  <2>1. SUFFICES ASSUME a.header_version = 4 PROVE n6 = n3 OBVIOUS
  <2>2. a.second = None /\ d4 = None /\ d5 = None
    BY <1>1, <1>2, <2>1
  <2>3. filesize(None) = 0 /\ Pages(0, p) = 0
    BY <1>1, NoPages DEF filesize
  <2> QED BY <1>6, <1>21, <2>2, <2>3
<1> QED BY <1>13, <1>20, <1>23, <1>24, <1>25, <1>26, <1>27, <1>28, <1>29, <1>30, <1>31 DEF BootAt,
           BootHeaderSize
--------------------------------------------------
(* unpack_bootimg: the files of a boot image. *)

\* A file that only some versions carry is extracted as it was given.
LEMMA CarriedRead ==
    ASSUME NEW a, NEW f, IsOption(f), NEW vs, NEW w, IsSeq(w), NEW n, NEW m,
           m = IF a.header_version \in vs THEN filesize(f) ELSE 0,
           a.header_version \in vs => n \in Nat /\ Holds(w, n, Bytes(f))
    PROVE  IfAny(w, n, m) = Carried(a, f, vs)
<1>1. filesize(f) \in Nat /\ Len(Bytes(f)) = filesize(f) /\ IsSeq(Bytes(f))
  BY BytesSeq DEF IsOption
<1>2. CASE a.header_version \in vs /\ filesize(f) > 0
  <2>1. f # None /\ Bytes(f) = f /\ m = Len(f) /\ m > 0
    BY <1>1, <1>2 DEF filesize, Bytes
  <2>2. Extract(w, n, Len(f)) = f
    BY <1>1, <1>2, <2>1, Extracted
  <2> QED BY <1>2, <2>1, <2>2 DEF IfAny, Carried
<1>3. CASE ~ (a.header_version \in vs /\ filesize(f) > 0)
  <2>1. m = 0 BY <1>1, <1>3
  <2>2. IfAny(w, n, m) = None BY <2>1 DEF IfAny
  <2> QED BY <1>3, <2>2 DEF Carried
<1> QED BY <1>2, <1>3

\* unpack_boot_image: the files at those pages are those of the command.
LEMMA BootFilesRead ==
    ASSUME NEW a, BootCommand(a), NEW p, p = BootPage(a), NEW w, BootAt(w, a, p),
           NEW h, BootFields(h, a), NEW second, NEW dtbo, NEW dtb, NEW sig,
           BootSizes(a, second, dtbo, dtb, sig)
    PROVE  BootRead(w, h, p, second, dtbo, dtb, sig) =
             [vendor |-> FALSE, header |-> h, files |-> Packed(a).files]
<1>1. /\ a.header_version \in 0 .. 4
      /\ IsOption(a.kernel) /\ IsOption(a.ramdisk) /\ IsOption(a.second)
      /\ IsOption(a.dtb) /\ IsOption(a.recovery_dtbo)
      /\ a.header_version = 4 /\ a.gki # None => IsSeq(a.gki) /\ Len(a.gki) <= SignatureSize
      /\ p \in Nat \ {0}
  BY BootFacts
<1>2. h.kernel_size = filesize(a.kernel) /\ h.ramdisk_size = filesize(a.ramdisk)
  BY DEF BootFields
<1>3. PICK n2, n3 : n2 = Page2(a, p) /\ n3 = Page3(a, p) OBVIOUS
<1>4. n2 = 1 + Pages(h.kernel_size, p) /\ n3 = 1 + Pages(h.kernel_size, p) + Pages(h.ramdisk_size, p)
  BY <1>2, <1>3 DEF Page2, Page3
<1>5. /\ Pages(filesize(a.kernel), p) \in Nat /\ Pages(filesize(a.ramdisk), p) \in Nat
      /\ Pages(filesize(a.second), p) \in Nat /\ Pages(filesize(a.recovery_dtbo), p) \in Nat
  BY <1>1, PageNat
<1>6. n2 \in Nat /\ n3 \in Nat /\ Page4(a, p) \in Nat /\ Page5(a, p) \in Nat
  BY <1>3, <1>5 DEF Page2, Page3, Page4, Page5
<1>7. /\ p * 1 \in Nat /\ p * n2 \in Nat /\ p * n3 \in Nat /\ p * Page4(a, p) \in Nat
      /\ p * Page5(a, p) \in Nat
  <2>1. 1 \in Nat /\ p \in Nat BY <1>1
  <2> QED BY <1>6, <2>1, Product
<1>8. /\ IsSeq(w) /\ Holds(w, p * 1, Bytes(a.kernel)) /\ Holds(w, p * n2, Bytes(a.ramdisk))
      /\ Holds(w, p * n3, Bytes(a.second))
      /\ a.header_version \in {1, 2} => Holds(w, p * Page4(a, p), Bytes(a.recovery_dtbo))
      /\ a.header_version = 2 => Holds(w, p * Page5(a, p), Bytes(a.dtb))
      /\ a.header_version = 4 /\ a.gki # None => Holds(w, p * n3, Signature(a))
  BY <1>3 DEF BootAt
<1>9. Extract(w, p, h.kernel_size) = Bytes(a.kernel)
  <2>1. IsSeq(Bytes(a.kernel)) /\ Len(Bytes(a.kernel)) = filesize(a.kernel)
    BY <1>1, BytesSeq DEF IsOption
  <2>2. Extract(w, p * 1, Len(Bytes(a.kernel))) = Bytes(a.kernel)
    BY <1>7, <1>8, <2>1, Extracted
  <2>3. p * 1 = p BY <1>1
  <2> QED BY <1>2, <2>1, <2>2, <2>3
<1>10. Extract(w, p * n2, h.ramdisk_size) = Bytes(a.ramdisk)
  <2>1. IsSeq(Bytes(a.ramdisk)) /\ Len(Bytes(a.ramdisk)) = filesize(a.ramdisk)
    BY <1>1, BytesSeq DEF IsOption
  <2>2. Extract(w, p * n2, Len(Bytes(a.ramdisk))) = Bytes(a.ramdisk)
    BY <1>7, <1>8, <2>1, Extracted
  <2> QED BY <1>2, <2>1, <2>2
<1>11. IfAny(w, p * n3, second) = Carried(a, a.second, 0 .. 2)
  <2>1. second = IF a.header_version \in 0 .. 2 THEN filesize(a.second) ELSE 0
    BY DEF BootSizes
  <2> QED BY <1>1, <1>7, <1>8, <2>1, CarriedRead
<1>12. (IF dtbo > 0 THEN Extract(w, h.recovery_dtbo_offset, dtbo) ELSE None)
         = Carried(a, a.recovery_dtbo, {1, 2})
  <2>3. dtbo = IF a.header_version \in {1, 2} THEN filesize(a.recovery_dtbo) ELSE 0
    BY DEF BootSizes
  <2>1. IfAny(w, p * Page4(a, p), dtbo) = Carried(a, a.recovery_dtbo, {1, 2})
    BY <1>1, <1>7, <1>8, <2>3, CarriedRead
  <2>2. dtbo > 0 => h.recovery_dtbo_offset = p * Page4(a, p)
    <3>1. SUFFICES ASSUME dtbo > 0 PROVE h.recovery_dtbo_offset = p * Page4(a, p) OBVIOUS
    <3>2. a.header_version \in {1, 2} /\ a.recovery_dtbo # None
      BY <2>3, <3>1 DEF filesize
    <3>3. h.recovery_dtbo_offset = RecoveryDtboOffset(a)
      BY <3>2 DEF BootFields
    <3>4. p = a.pagesize BY <3>2 DEF BootPage
    <3> QED BY <3>3, <3>4 DEF RecoveryDtboOffset, Page4, Page3, Page2
  <2> QED BY <2>1, <2>2 DEF IfAny
<1>13. PICK n5 : n5 = 1 + Pages(h.kernel_size, p) + Pages(h.ramdisk_size, p) + Pages(second, p)
                        + Pages(dtbo, p)
  OBVIOUS
<1>14. IfAny(w, p * n5, dtb) = Carried(a, a.dtb, {2})
  <2>1. a.header_version = 2 => n5 = Page5(a, p)
    BY <1>2, <1>13 DEF Page5, Page4, Page3, Page2, BootSizes
  <2>2. PICK x, vs : x = p * n5 /\ vs = {2} OBVIOUS
  <2>3. a.header_version \in vs => x \in Nat /\ Holds(w, x, Bytes(a.dtb))
    BY <1>7, <1>8, <2>1, <2>2
  <2>4. dtb = IF a.header_version \in vs THEN filesize(a.dtb) ELSE 0
    BY <2>2 DEF BootSizes
  <2>5. IfAny(w, x, dtb) = Carried(a, a.dtb, vs)
    <3>1. IsOption(a.dtb) /\ IsSeq(w) BY <1>1, <1>8
    <3> QED BY <2>3, <2>4, <3>1, CarriedRead
  <2> QED BY <2>2, <2>5
<1>15. IfAny(w, p * n3, sig) = IF a.header_version < 4 \/ a.gki = None THEN None ELSE Signature(a)
  <2>1. CASE a.header_version = 4 /\ a.gki # None
    <3>1. IsSeq(Signature(a)) /\ Len(Signature(a)) = SignatureSize
      BY <1>1, <2>1, SignatureSeq
    <3>2. Extract(w, p * n3, Len(Signature(a))) = Signature(a)
      BY <1>7, <1>8, <2>1, <3>1, Extracted
    <3>3. sig = SignatureSize /\ sig > 0 /\ ~ (a.header_version < 4)
      BY <2>1 DEF SignatureSize, BootSizes
    <3> QED BY <2>1, <3>1, <3>2, <3>3 DEF IfAny
  <2>2. CASE ~ (a.header_version = 4 /\ a.gki # None)
    <3>1. sig = 0 /\ (a.header_version < 4 \/ a.gki = None)
      BY <1>1, <2>2 DEF BootSizes
    <3> QED BY <3>1 DEF IfAny
  <2> QED BY <2>1, <2>2
<1>16. BootRead(w, h, p, second, dtbo, dtb, sig) =
         [vendor |-> FALSE, header |-> h,
          files |-> FilesOfBoot(Bytes(a.kernel), Bytes(a.ramdisk), Carried(a, a.second, 0 .. 2),
                      Carried(a, a.recovery_dtbo, {1, 2}), Carried(a, a.dtb, {2}),
                      IF a.header_version < 4 \/ a.gki = None THEN None ELSE Signature(a))]
  BY <1>4, <1>9, <1>10, <1>11, <1>12, <1>13, <1>14, <1>15, Zenon DEF BootRead
<1>17. Packed(a).files =
         FilesOfBoot(Bytes(a.kernel), Bytes(a.ramdisk), Carried(a, a.second, 0 .. 2),
                   Carried(a, a.recovery_dtbo, {1, 2}), Carried(a, a.dtb, {2}),
                   IF a.header_version < 4 \/ a.gki = None THEN None ELSE Signature(a))
  BY DEF BootCommand, Packed, FilesOfBoot
<1> QED BY <1>16, <1>17

\* What unpack_bootimg finds in a boot image.
LEMMA UnpackedBoot ==
    ASSUME NEW a, BootCommand(a), NEW w, w = Mkbootimg(a)
    PROVE  /\ Unpack(w) = [vendor |-> FALSE, header |-> BootHeader(a), files |-> Packed(a).files]
           /\ IsBoot(w) /\ ~ IsVendor(w)
<1>1. PICK p, h : p = BootPage(a) /\ h = BootHeader(a) OBVIOUS
<1>2. BootAt(w, a, p) BY <1>1, BootLaidOut
<1>3. BootHeaderSize <= Len(w) /\ w[1] = [content |-> h, i |-> 1] /\ IsSeq(w)
  BY <1>1, <1>2 DEF BootAt
<1>4. Header(w) = h /\ w[1].i = 1 BY <1>3 DEF Header
<1>5. a.header_version \in 0 .. 4 BY BootFacts
<1>6. BootFields(h, a) BY <1>1, <1>5, HeaderFields
<1>7. "magic" \in DOMAIN h /\ h.magic = "ANDROID!" /\ h.header_version = a.header_version
  BY <1>6 DEF BootFields
<1>8. IsBoot(w)
  <2>1. Len(w) >= BootHeaderSize
    BY <1>3, LenNat DEF BootHeaderSize
  <2> QED BY <1>4, <1>7, <2>1 DEF IsBoot, StartsWith
<1>9. ~ IsVendor(w)
  <2>1. Header(w).magic # "VNDRBOOT" BY <1>4, <1>7
  <2> QED BY <2>1, Zenon DEF IsVendor, StartsWith
<1>10. PICK second, dtbo, dtb, sig :
         /\ second = SizeOf(h, "second_size", 0 .. 2) /\ dtbo = SizeOf(h, "recovery_dtbo_size", {1, 2})
         /\ dtb = SizeOf(h, "dtb_size", {2}) /\ sig = SizeOf(h, "signature_size", {4})
  OBVIOUS
<1>11. p = IF h.header_version < 3 THEN h.page_size ELSE V3PageSize
  BY <1>1, <1>5, <1>6, <1>7 DEF BootPage, BootFields
<1>12. UnpackBoot(w) = BootRead(w, h, p, second, dtbo, dtb, sig)
  <2>1. UnpackBoot(w) =
          BootRead(w, Header(w), IF Header(w).header_version < 3 THEN Header(w).page_size ELSE V3PageSize,
            SizeOf(Header(w), "second_size", 0 .. 2), SizeOf(Header(w), "recovery_dtbo_size", {1, 2}),
            SizeOf(Header(w), "dtb_size", {2}), SizeOf(Header(w), "signature_size", {4}))
    BY Zenon DEF UnpackBoot, BootRead, FilesOfBoot
  <2> QED BY <1>4, <1>10, <1>11, <2>1
<1>13. BootSizes(a, second, dtbo, dtb, sig)
  BY <1>6, <1>7, <1>10 DEF SizeOf, BootFields, BootSizes
<1>17. BootRead(w, h, p, second, dtbo, dtb, sig) =
         [vendor |-> FALSE, header |-> h, files |-> Packed(a).files]
  BY <1>1, <1>2, <1>6, <1>13, BootFilesRead
<1> QED BY <1>1, <1>8, <1>9, <1>12, <1>17 DEF Unpack
--------------------------------------------------
(* The options that unpack_bootimg prints for a boot image. *)

\* The options that have a default.
LEMMA DefaultNames == DOMAIN Defaults = OptionNames
BY DEF Defaults, OptionNames

\* The options that are printed for any header.
LEMMA BootOptionsCommon == \A u : CommonOptions(BootOptions(u), u.header, u.files)
<1> TAKE u
<1>1. PICK o : o = BootOptions(u) OBVIOUS
<1>2. DOMAIN o = DOMAIN Defaults BY <1>1 DEF BootOptions
<1>3. /\ o.vendor = FALSE /\ o.header_version = u.header.header_version
      /\ o.kernel = u.files.kernel /\ o.ramdisk = u.files.ramdisk
  BY <1>1 DEF BootOptions, Defaults
<1>4. o.gki = None /\ o.fragments = << >> /\ o.vendor_cmdline = << >>
  BY <1>1 DEF BootOptions, Defaults
<1>5. o.vendor_ramdisk = None /\ o.vendor_bootconfig = None
  BY <1>1 DEF BootOptions, Defaults
<1> QED BY <1>1, <1>2, <1>3, <1>4, <1>5, DefaultNames DEF CommonOptions

\* Those for headers 3 and 4.
LEMMA BootOptionsLate == \A u : u.header.header_version > 2 => LateOptions(BootOptions(u), u.header)
<1> TAKE u
<1>1. SUFFICES ASSUME u.header.header_version > 2 PROVE LateOptions(BootOptions(u), u.header)
  OBVIOUS
<1>2. PICK o : o = BootOptions(u) OBVIOUS
<1>3. o.cmdline = cstr(u.header.cmdline)
  BY <1>1, <1>2 DEF BootOptions, Defaults
<1>4. o.board = "" /\ o.second = None /\ o.recovery_dtbo = None /\ o.dtb = None
  BY <1>1, <1>2 DEF BootOptions, Defaults
<1>5. o.pagesize = 2 /\ o.base = 16 /\ o.kernel_offset = 1 /\ o.ramdisk_offset = 4
  BY <1>1, <1>2 DEF BootOptions, Defaults
<1>6. o.second_offset = 3 /\ o.dtb_offset = 5 /\ o.tags_offset = 0
  BY <1>1, <1>2 DEF BootOptions, Defaults
<1> QED BY <1>2, <1>3, <1>4, <1>5, <1>6, Zenon DEF LateOptions

\* Those for headers 0 to 2.
LEMMA BootOptionsEarly ==
    \A u : ~ (u.header.header_version > 2) => EarlyOptions(BootOptions(u), u.header, u.files)
<1> TAKE u
<1>1. SUFFICES ASSUME ~ (u.header.header_version > 2)
               PROVE  EarlyOptions(BootOptions(u), u.header, u.files)
  OBVIOUS
<1>2. PICK o : o = BootOptions(u) OBVIOUS
<1>3. PICK t : t = cstr(u.header.cmdline) \o cstr(u.header.extra_cmdline) OBVIOUS
<1>4. o.cmdline = t
  BY <1>1, <1>2, <1>3 DEF BootOptions, Defaults
<1>5. o.second = u.files.second /\ o.recovery_dtbo = u.files.recovery_dtbo /\ o.dtb = u.files.dtb
  BY <1>1, <1>2 DEF BootOptions, Defaults
<1>6. o.pagesize = u.header.page_size /\ o.base = 0 /\ o.kernel_offset = u.header.kernel_addr
  BY <1>1, <1>2 DEF BootOptions, Defaults
<1>7. o.ramdisk_offset = u.header.ramdisk_addr /\ o.second_offset = u.header.second_addr
  BY <1>1, <1>2 DEF BootOptions, Defaults
<1>8. o.tags_offset = u.header.tags_addr /\ o.board = u.header.name
  BY <1>1, <1>2 DEF BootOptions, Defaults
<1>9. o.dtb_offset = IF u.header.header_version = 2 THEN u.header.dtb_addr ELSE 5
  BY <1>1, <1>2 DEF BootOptions, Defaults
<1> QED BY <1>2, <1>3, <1>4, <1>5, <1>6, <1>7, <1>8, <1>9, Zenon DEF EarlyOptions

\* The command line is read as it was given.
LEMMA BootLineRead ==
    ASSUME NEW a, BootCommand(a), NEW h, BootFields(h, a)
    PROVE  /\ a.header_version > 2 => cstr(h.cmdline) = a.cmdline
           /\ a.header_version < 3 => cstr(h.cmdline) \o cstr(h.extra_cmdline) = a.cmdline
<1>1. IsText(a.cmdline) /\ a.header_version \in 0 .. 4
  BY BootFacts DEF BootCommand, IsCommand
<1>2. ~ (Len(Asciiz(a.cmdline)) > CmdlineSize(a))
  BY Zenon DEF BootCommand, UsageError
<1>3. PICK m \in Nat : m = Len(Asciiz(a.cmdline))
  <2>1. IsSeq(a.cmdline) BY <1>1, TextSeq
  <2>2. IsSeq(Asciiz(a.cmdline)) BY <2>1, AsciizSeq
  <2> QED BY <2>2, LenNat
<1>4. PICK b \in Nat : b = BootArgs + BootExtraArgs
  BY ArgSizes
<1>5. /\ a.header_version > 2 => CmdlineSize(a) = b
      /\ a.header_version < 3 => CmdlineSize(a) = BootArgs + BootExtraArgs - 1
  <2>1. CmdlineSize(a) = BootArgs + BootExtraArgs - (IF a.header_version < 3 THEN 1 ELSE 0)
    BY Zenon DEF CmdlineSize
  <2>2. a.header_version > 2 => ~ (a.header_version < 3)
    BY <1>1
  <2>3. b - 0 = b BY <1>4
  <2>4. CASE a.header_version < 3
    BY <2>1, <2>2, <2>4, Zenon
  <2>5. CASE ~ (a.header_version < 3)
    <3>1. CmdlineSize(a) = BootArgs + BootExtraArgs - 0
      BY <2>1, <2>5, Zenon
    <3>2. BootArgs + BootExtraArgs - 0 = b
      BY <1>4, ArgSizes
    <3> QED BY <2>5, <3>1, <3>2, Zenon
  <2> QED BY <2>4, <2>5
<1>6. a.header_version > 2 => cstr(h.cmdline) = a.cmdline
  <2>1. SUFFICES ASSUME a.header_version > 2 PROVE cstr(h.cmdline) = a.cmdline OBVIOUS
  <2>2. Len(Asciiz(a.cmdline)) <= b
    BY <1>1, <1>2, <1>3, <1>5, <2>1
  <2>3. h.cmdline = Field(Asciiz(a.cmdline), b)
    BY <1>4, <2>1 DEF BootFields, LineField
  <2> QED BY <1>1, <2>2, <2>3, FieldText
<1>7. a.header_version < 3 => cstr(h.cmdline) \o cstr(h.extra_cmdline) = a.cmdline
  <2>1. SUFFICES ASSUME a.header_version < 3
                 PROVE  cstr(h.cmdline) \o cstr(h.extra_cmdline) = a.cmdline
    OBVIOUS
  <2>4. BootArgs + BootExtraArgs - 1 \in Nat BY ArgSizes
  <2>2. Len(Asciiz(a.cmdline)) <= BootArgs + BootExtraArgs - 1
    BY <1>2, <1>3, <1>5, <2>1, <2>4
  <2>3. h.cmdline = Field(FirstArgs(a), BootArgs) /\ h.extra_cmdline = Field(ExtraArgs(a), BootExtraArgs)
    BY <2>1 DEF BootFields
  <2> QED BY <1>1, <2>2, <2>3, BothHalves
<1> QED BY <1>6, <1>7

\* The options that are printed for a boot image are those it was made with.
LEMMA BootAgain ==
    ASSUME NEW a, BootCommand(a), NEW u, u = Unpack(Mkbootimg(a)), NEW o, o = Options(u)
    PROVE  /\ AgainOptions(o, a) /\ OffsetsOK(o) /\ CommonOptions(o, u.header, u.files)
           /\ u.vendor = FALSE /\ u.files = Packed(a).files /\ u.header.header_version = a.header_version
<1>1. PICK h : h = BootHeader(a) OBVIOUS
<1>2. u = [vendor |-> FALSE, header |-> h, files |-> Packed(a).files]
  BY <1>1, UnpackedBoot
<1>3. u.vendor = FALSE /\ u.header = h /\ u.files = Packed(a).files
  BY <1>2
<1>4. o = BootOptions(u) BY <1>3 DEF Options
<1>5. IsCommand(a) /\ a.vendor = FALSE
  BY DEF BootCommand
<1>6. PICK v \in 0 .. 4 : v = a.header_version
  BY BootFacts
<1>7. BootFields(h, a) BY <1>1, <1>6, HeaderFields
<1>8. h.header_version = v BY <1>6, <1>7 DEF BootFields
<1>9. CommonOptions(o, h, u.files)
  BY <1>3, <1>4, BootOptionsCommon
<1>10. /\ u.files.kernel = Bytes(a.kernel) /\ u.files.ramdisk = Bytes(a.ramdisk)
       /\ u.files.second = Carried(a, a.second, 0 .. 2) /\ u.files.dtb = Carried(a, a.dtb, {2})
       /\ u.files.recovery_dtbo = Carried(a, a.recovery_dtbo, {1, 2})
  BY <1>3, <1>5 DEF Packed
<1>11. /\ o.vendor = FALSE /\ o.header_version = a.header_version
       /\ o.kernel = Bytes(a.kernel) /\ o.ramdisk = Bytes(a.ramdisk) /\ o.gki = None
  BY <1>6, <1>8, <1>9, <1>10 DEF CommonOptions
<1>12. CASE v > 2
  <2>1. LateOptions(o, h)
    BY <1>3, <1>4, <1>8, <1>12, BootOptionsLate
  <2>2. o.cmdline = a.cmdline
    BY <1>6, <1>7, <1>12, <2>1, BootLineRead DEF LateOptions
  <2>3. ~ (a.header_version < 3) /\ a.header_version \notin 0 .. 2 /\ a.header_version \notin {2}
        /\ a.header_version \notin {1, 2}
    BY <1>6, <1>12
  <2>4. o.board = "" /\ o.second = None /\ o.recovery_dtbo = None /\ o.dtb = None
    BY <2>1, Zenon DEF LateOptions
  <2>5. AgainOptions(o, a)
    BY <1>11, <2>2, <2>3, <2>4 DEF AgainOptions, Carried
  <2>7. /\ o.pagesize = 2 /\ o.base = 16 /\ o.kernel_offset = 1 /\ o.ramdisk_offset = 4
        /\ o.second_offset = 3 /\ o.dtb_offset = 5 /\ o.tags_offset = 0
    BY <2>1, Zenon DEF LateOptions
  <2>6. OffsetsOK(o)
    BY <2>7 DEF OffsetsOK, BootHeaderSize
  <2> QED BY <1>3, <1>6, <1>8, <1>9, <2>5, <2>6
<1>13. CASE ~ (v > 2)
  <2>1. EarlyOptions(o, h, u.files)
    BY <1>3, <1>4, <1>8, <1>13, BootOptionsEarly
  <2>2. o.cmdline = a.cmdline
    BY <1>6, <1>7, <1>13, <2>1, BootLineRead DEF EarlyOptions
  <2>3. a.header_version < 3 BY <1>6, <1>13
  <2>4. /\ h.page_size = a.pagesize /\ h.kernel_addr = a.base + a.kernel_offset /\ h.name = a.board
        /\ h.ramdisk_addr = RamdiskAddr(a) /\ h.second_addr = SecondAddr(a)
        /\ h.tags_addr = a.base + a.tags_offset
        /\ a.header_version = 2 => h.dtb_addr = a.base + a.dtb_offset
    BY <1>7, <2>3 DEF BootFields
  <2>5. /\ a.base \in Nat /\ a.kernel_offset \in Nat /\ a.ramdisk_offset \in Nat
        /\ a.second_offset \in Nat /\ a.dtb_offset \in Nat /\ a.tags_offset \in Nat
        /\ a.pagesize \in Nat /\ a.pagesize >= BootHeaderSize
    BY <1>5 DEF IsCommand
  <2>6. h.ramdisk_addr \in Nat /\ h.second_addr \in Nat
    BY <2>4, <2>5 DEF RamdiskAddr, SecondAddr
  <2>7. OffsetsOK(o)
    BY <1>6, <1>8, <2>1, <2>4, <2>5, <2>6 DEF OffsetsOK, EarlyOptions
  <2>8. o.base + o.kernel_offset = a.base + a.kernel_offset
    BY <2>1, <2>4, <2>5 DEF EarlyOptions
  <2>9. o.board = a.board BY <2>1, <2>4 DEF EarlyOptions
  <2>10. AgainOptions(o, a)
    BY <1>10, <1>11, <2>1, <2>2, <2>3, <2>8, <2>9 DEF AgainOptions, EarlyOptions
  <2> QED BY <1>3, <1>6, <1>8, <1>9, <2>7, <2>10
<1> QED BY <1>12, <1>13

\* unpack_bootimg reads what mkbootimg has packed.
LEMMA BootReadBack == ASSUME NEW a, BootCommand(a) PROVE Read(Mkbootimg(a)) = Packed(a)
<1>1. PICK u, o : u = Unpack(Mkbootimg(a)) /\ o = Options(u) OBVIOUS
<1>2. /\ AgainOptions(o, a) /\ u.vendor = FALSE /\ u.files = Packed(a).files
      /\ u.header.header_version = a.header_version
  BY <1>1, BootAgain
<1>3. Read(Mkbootimg(a)) =
        [vendor |-> u.vendor, board |-> o.board, files |-> u.files,
         cmdline |-> IF u.vendor THEN o.vendor_cmdline ELSE o.cmdline,
         load |-> IF u.vendor \/ u.header.header_version < 3 THEN o.base + o.kernel_offset ELSE 0]
  BY <1>1, Zenon DEF Read
<1>4. a.vendor = FALSE BY DEF BootCommand
<1>5. PICK f, b, l : /\ f = Packed(a).files /\ b = IF a.header_version < 3 THEN a.board ELSE ""
                     /\ l = IF a.header_version < 3 THEN a.base + a.kernel_offset ELSE 0
  OBVIOUS
<1>6. Packed(a) =
        [vendor |-> FALSE, board |-> b, cmdline |-> a.cmdline, load |-> l, files |-> f]
  BY <1>4, <1>5 DEF Packed
<1>8. /\ o.cmdline = a.cmdline
      /\ a.header_version < 3 => o.base + o.kernel_offset = a.base + a.kernel_offset
      /\ o.board = IF a.header_version < 3 THEN a.board ELSE ""
  BY <1>2, Zenon DEF AgainOptions
<1>7. Read(Mkbootimg(a)) =
        [vendor |-> FALSE, board |-> o.board, files |-> f, cmdline |-> a.cmdline, load |-> l]
  BY <1>2, <1>3, <1>5, <1>8
<1>9. o.board = b BY <1>5, <1>8
<1> QED BY <1>6, <1>7, <1>9
--------------------------------------------------
(* A repack of a boot image. *)

\* A sequence is one of its elements.
LEMMA SeqSet == ASSUME NEW s, IsSeq(s) PROVE s \in Seq(ToSet(s))
<1>1. PICK T : s \in Seq(T) BY DEF IsSeq
<1>2. s = [k \in 1 .. Len(s) |-> s[k]] /\ Len(s) \in Nat /\ DOMAIN s = 1 .. Len(s)
  BY <1>1
<1>3. \A k \in 1 .. Len(s) : s[k] \in ToSet(s)
  BY <1>2 DEF ToSet
<1> QED BY <1>2, <1>3

\* Nothing is a text and a file.
LEMMA NoText == IsText(<< >>) /\ IsFile(<< >>) /\ IsSeq(<< >>) /\ Len(<< >>) = 0
<1>1. IsSeq(<< >>) /\ Len(<< >>) = 0 BY DEF IsSeq
<1>2. << >> \in Seq(ToSet(<< >>)) /\ ToSet(<< >>) = {}
  BY DEF ToSet
<1> QED BY <1>1, <1>2 DEF IsText, IsFile

\* What makes a command line.
LEMMA CommandParts ==
    ASSUME NEW o, o.vendor \in BOOLEAN, o.header_version \in Nat, OffsetsOK(o),
           IsText(o.cmdline), IsText(o.vendor_cmdline), OptFile(o.kernel), OptFile(o.ramdisk),
           OptFile(o.second), OptFile(o.dtb), OptFile(o.recovery_dtbo), OptFile(o.vendor_ramdisk),
           OptFile(o.vendor_bootconfig), OptFile(o.gki), IsSeq(o.fragments),
           \A k \in 1 .. Len(o.fragments) : IsFragment(o.fragments[k])
    PROVE  IsCommand(o)
<1>1. o.fragments \in Seq(ToSet(o.fragments)) BY SeqSet
<1> QED BY <1>1 DEF IsCommand, OffsetsOK, OptFile

\* Other ramdisks in a command.
LEMMA CommandChanged ==
    ASSUME NEW o, NEW q, IsCommand(o),
           \A y \in OptionNames \ {"ramdisk", "vendor_ramdisk", "fragments"} : q[y] = o[y],
           OptFile(q.ramdisk), OptFile(q.vendor_ramdisk), IsSeq(q.fragments),
           \A k \in 1 .. Len(q.fragments) : IsFragment(q.fragments[k])
    PROVE  IsCommand(q)
<1>1. /\ q.vendor = o.vendor /\ q.header_version = o.header_version /\ q.pagesize = o.pagesize
      /\ q.base = o.base /\ q.kernel_offset = o.kernel_offset /\ q.ramdisk_offset = o.ramdisk_offset
      /\ q.second_offset = o.second_offset /\ q.dtb_offset = o.dtb_offset
      /\ q.tags_offset = o.tags_offset /\ q.cmdline = o.cmdline /\ q.vendor_cmdline = o.vendor_cmdline
      /\ q.kernel = o.kernel /\ q.second = o.second /\ q.dtb = o.dtb
      /\ q.recovery_dtbo = o.recovery_dtbo /\ q.vendor_bootconfig = o.vendor_bootconfig /\ q.gki = o.gki
  BY DEF OptionNames
<1>2. /\ o.vendor \in BOOLEAN /\ o.header_version \in Nat /\ OffsetsOK(o)
      /\ IsText(o.cmdline) /\ IsText(o.vendor_cmdline) /\ OptFile(o.kernel)
      /\ OptFile(o.second) /\ OptFile(o.dtb) /\ OptFile(o.recovery_dtbo)
      /\ OptFile(o.vendor_bootconfig) /\ OptFile(o.gki)
  BY DEF IsCommand, OffsetsOK, OptFile
<1>3. OffsetsOK(q) BY <1>1, <1>2 DEF OffsetsOK
<1> QED BY <1>1, <1>2, <1>3, CommandParts

\* A file that is carried is a file.
LEMMA CarriedFile ==
    ASSUME NEW a, NEW f, OptFile(f), NEW vs
    PROVE  OptFile(Carried(a, f, vs)) /\ OptFile(Bytes(f)) /\ Bytes(Bytes(f)) = Bytes(f)
<1>1. OptFile(Carried(a, f, vs)) BY DEF Carried, OptFile
<1>2. IsFile(Bytes(f)) BY NoText DEF Bytes, OptFile
<1>3. Bytes(Bytes(f)) = Bytes(f) BY DEF Bytes
<1> QED BY <1>1, <1>2, <1>3 DEF OptFile

\* What is carried is carried again.
LEMMA CarriedAgain ==
    ASSUME NEW a, NEW q, q.header_version = a.header_version, NEW f, NEW vs
    PROVE  Carried(q, Carried(a, f, vs), vs) = Carried(a, f, vs)
<1>1. CASE a.header_version \in vs /\ filesize(f) > 0
  <2>1. Carried(a, f, vs) = f BY <1>1 DEF Carried
  <2> QED BY <1>1, <2>1 DEF Carried
<1>2. CASE ~ (a.header_version \in vs /\ filesize(f) > 0)
  <2>1. Carried(a, f, vs) = None BY <1>2 DEF Carried
  <2>2. filesize(None) = 0 /\ ~ (0 > 0) BY DEF filesize
  <2> QED BY <2>1, <2>2 DEF Carried
<1> QED BY <1>1, <1>2

\* Files that are carried are carried again.
LEMMA CarriedSame ==
    ASSUME NEW a, NEW q, q.header_version = a.header_version, q.second = Carried(a, a.second, 0 .. 2),
           q.dtb = Carried(a, a.dtb, {2}), q.recovery_dtbo = Carried(a, a.recovery_dtbo, {1, 2})
    PROVE  /\ Carried(q, q.second, 0 .. 2) = Carried(a, a.second, 0 .. 2)
           /\ Carried(q, q.dtb, {2}) = Carried(a, a.dtb, {2})
           /\ Carried(q, q.recovery_dtbo, {1, 2}) = Carried(a, a.recovery_dtbo, {1, 2})
BY CarriedAgain

\* The options that are printed for a boot image are a command line.
LEMMA AgainCommand ==
    ASSUME NEW a, BootCommand(a), NEW o, o = Options(Unpack(Mkbootimg(a)))
    PROVE  IsCommand(o) /\ AgainOptions(o, a) /\ OptionNames \subseteq DOMAIN o /\ o.fragments = << >>
           /\ o.vendor_ramdisk = None
<1>1. PICK u : u = Unpack(Mkbootimg(a)) OBVIOUS
<1>2. AgainOptions(o, a) /\ OffsetsOK(o) /\ CommonOptions(o, u.header, u.files)
  BY <1>1, BootAgain
<1>3. /\ a.header_version \in Nat /\ IsText(a.cmdline) /\ OptFile(a.kernel) /\ OptFile(a.ramdisk)
      /\ OptFile(a.second) /\ OptFile(a.dtb) /\ OptFile(a.recovery_dtbo)
  BY DEF BootCommand, IsCommand, OptFile
<1>4. OptFile(Bytes(a.kernel)) /\ OptFile(Bytes(a.ramdisk))
  BY <1>3, CarriedFile
<1>5. /\ OptFile(Carried(a, a.second, 0 .. 2)) /\ OptFile(Carried(a, a.dtb, {2}))
      /\ OptFile(Carried(a, a.recovery_dtbo, {1, 2}))
  BY <1>3, CarriedFile
<1>6. OptFile(None) BY DEF OptFile
<1>7. o.vendor = FALSE BY <1>2 DEF AgainOptions
<1>8. /\ o.header_version \in Nat /\ IsText(o.cmdline) /\ OptFile(o.kernel) /\ OptFile(o.ramdisk)
      /\ OptFile(o.second) /\ OptFile(o.dtb) /\ OptFile(o.recovery_dtbo)
  BY <1>2, <1>3, <1>4, <1>5 DEF AgainOptions
<1>9. /\ OptFile(o.gki) /\ OptFile(o.vendor_ramdisk) /\ OptFile(o.vendor_bootconfig)
      /\ o.fragments = << >> /\ o.vendor_cmdline = << >> /\ OptionNames \subseteq DOMAIN o
      /\ o.vendor_ramdisk = None
  BY <1>2, <1>6 DEF CommonOptions
<1>10. IsText(o.vendor_cmdline) /\ IsSeq(o.fragments)
       /\ \A k \in 1 .. Len(o.fragments) : IsFragment(o.fragments[k])
  BY <1>9, NoText
<1>12. o.vendor \in BOOLEAN BY <1>7
<1>11. IsCommand(o)
  BY <1>2, <1>8, <1>9, <1>10, <1>12, CommandParts
<1> QED BY <1>2, <1>9, <1>11

\* A new ramdisk among the files of a boot image.
LEMMA FilesRenewed ==
    \A x1, x2, x3, x4, x5, x6, new :
      Renewed(FilesOfBoot(x1, x2, x3, x4, x5, x6), new) = FilesOfBoot(x1, new, x3, x4, x5, None)
<1> TAKE x1, x2, x3, x4, x5, x6, new
<1>1. PICK f : f = FilesOfBoot(x1, x2, x3, x4, x5, x6) OBVIOUS
<1>2. PICK z : z = Renewed(f, new) OBVIOUS
<1>3. DOMAIN f = {"kernel", "ramdisk", "second", "recovery_dtbo", "dtb", "signature"}
  BY <1>1 DEF FilesOfBoot
<1>4. DOMAIN z = DOMAIN f /\ z = [y \in DOMAIN z |-> z[y]]
  BY <1>2 DEF Renewed
<1>5. /\ z["kernel"] = f["kernel"] /\ z["ramdisk"] = new /\ z["second"] = f["second"]
      /\ z["recovery_dtbo"] = f["recovery_dtbo"] /\ z["dtb"] = f["dtb"] /\ z["signature"] = None
  BY <1>2, <1>3 DEF Renewed
<1>6. /\ f["kernel"] = x1 /\ f["second"] = x3 /\ f["recovery_dtbo"] = x4 /\ f["dtb"] = x5
  BY <1>1 DEF FilesOfBoot
<1>7. z = [y \in {"kernel", "ramdisk", "second", "recovery_dtbo", "dtb", "signature"} |-> z[y]]
  BY <1>3, <1>4
<1>8. z = FilesOfBoot(x1, new, x3, x4, x5, None)
  BY <1>5, <1>6, <1>7 DEF FilesOfBoot
<1> QED BY <1>1, <1>2, <1>8

\* A new ramdisk in what was packed.
LEMMA PackedRenewed ==
    \A x1, x2, x3, x4, f, new :
      RenewedIn(PackedAs(x1, x2, x3, x4, f), new) = PackedAs(x1, x2, x3, x4, Renewed(f, new))
<1> TAKE x1, x2, x3, x4, f, new
<1>10. PICK w : w = PackedAs(x1, x2, x3, x4, f) OBVIOUS
<1>1. PICK z : z = RenewedIn(w, new) OBVIOUS
<1>2. DOMAIN w = {"vendor", "board", "cmdline", "load", "files"}
  BY <1>10 DEF PackedAs
<1>3. DOMAIN z = DOMAIN w /\ z = [y \in DOMAIN z |-> z[y]]
  BY <1>1 DEF RenewedIn
<1>4. z.vendor = w.vendor /\ z.board = w.board /\ z.cmdline = w.cmdline /\ z.load = w.load
  BY <1>1, <1>2 DEF RenewedIn
<1>5. z.files = [w.files EXCEPT !.ramdisk = new, !.signature = None]
  BY <1>1, <1>2 DEF RenewedIn
<1>6. w.vendor = x1 /\ w.board = x2 /\ w.cmdline = x3 /\ w.load = x4 /\ w.files = f
  BY <1>10 DEF PackedAs
<1>7. z.files = Renewed(f, new)
  BY <1>5, <1>6 DEF Renewed
<1>8. z = [y \in {"vendor", "board", "cmdline", "load", "files"} |-> z[y]]
  BY <1>2, <1>3
<1>9. /\ z["vendor"] = x1 /\ z["board"] = x2 /\ z["cmdline"] = x3 /\ z["load"] = x4
      /\ z["files"] = Renewed(f, new)
  BY <1>4, <1>6, <1>7
<1>11. z = PackedAs(x1, x2, x3, x4, Renewed(f, new))
  BY <1>8, <1>9 DEF PackedAs
<1> QED BY <1>1, <1>10, <1>11

\* The options with a new ramdisk promise what the repack promises.
LEMMA BootRepacked ==
    ASSUME NEW a, BootCommand(a), NEW o, o = Options(Unpack(Mkbootimg(a))),
           NEW new, IsFile(new), new # None, NEW q, q = [o EXCEPT !.ramdisk = new]
    PROVE  IsCommand(q) /\ q.vendor = FALSE /\ Packed(q) = RenewedIn(Packed(a), new)
<1>1. /\ IsCommand(o) /\ AgainOptions(o, a) /\ OptionNames \subseteq DOMAIN o /\ o.fragments = << >>
      /\ o.vendor_ramdisk = None
  BY AgainCommand
<1>2. "ramdisk" \in OptionNames BY DEF OptionNames
<1>3. q.ramdisk = new /\ \A y \in OptionNames : y # "ramdisk" => q[y] = o[y]
  <2> HIDE DEF OptionNames
  <2> QED BY <1>1, <1>2
<1>4. /\ q.vendor = o.vendor /\ q.header_version = o.header_version /\ q.fragments = o.fragments
      /\ q.base = o.base /\ q.kernel_offset = o.kernel_offset /\ q.board = o.board
      /\ q.cmdline = o.cmdline /\ q.kernel = o.kernel /\ q.second = o.second /\ q.dtb = o.dtb
      /\ q.recovery_dtbo = o.recovery_dtbo /\ q.gki = o.gki /\ q.vendor_ramdisk = o.vendor_ramdisk
  BY <1>3 DEF OptionNames
<1>5. IsCommand(q)
  <2>1. \A y \in OptionNames \ {"ramdisk", "vendor_ramdisk", "fragments"} : q[y] = o[y]
    BY <1>3
  <2>2. OptFile(q.ramdisk) /\ OptFile(q.vendor_ramdisk)
    BY <1>1, <1>3, <1>4 DEF OptFile
  <2>3. IsSeq(q.fragments) /\ \A k \in 1 .. Len(q.fragments) : IsFragment(q.fragments[k])
    BY <1>1, <1>4, NoText
  <2> QED BY <1>1, <2>1, <2>2, <2>3, CommandChanged
<1>6. PICK b, l : /\ b = IF a.header_version < 3 THEN a.board ELSE ""
                  /\ l = IF a.header_version < 3 THEN a.base + a.kernel_offset ELSE 0
  OBVIOUS
<1>7. PICK x1, x2, x3, x4, x5, x6 :
        /\ x1 = Bytes(a.kernel) /\ x2 = Bytes(a.ramdisk) /\ x3 = Carried(a, a.second, 0 .. 2)
        /\ x4 = Carried(a, a.recovery_dtbo, {1, 2}) /\ x5 = Carried(a, a.dtb, {2})
        /\ x6 = IF a.header_version < 4 \/ a.gki = None THEN None ELSE Signature(a)
  OBVIOUS
<1>8. Packed(a) = PackedAs(FALSE, b, a.cmdline, l, FilesOfBoot(x1, x2, x3, x4, x5, x6))
  <2>1. a.vendor = FALSE BY DEF BootCommand
  <2> QED BY <1>6, <1>7, <2>1 DEF Packed, PackedAs, FilesOfBoot
<1>9. /\ q.vendor = FALSE /\ q.header_version = a.header_version
      /\ q.board = b /\ q.cmdline = a.cmdline
      /\ a.header_version < 3 => q.base + q.kernel_offset = a.base + a.kernel_offset
      /\ q.kernel = x1 /\ q.gki = None /\ q.second = x3 /\ q.dtb = x5 /\ q.recovery_dtbo = x4
  BY <1>1, <1>4, <1>6, <1>7 DEF AgainOptions
<1>10. Bytes(q.kernel) = x1 /\ Bytes(q.ramdisk) = new
  BY <1>3, <1>7, <1>9 DEF Bytes
<1>11. /\ Carried(q, q.second, 0 .. 2) = x3 /\ Carried(q, q.recovery_dtbo, {1, 2}) = x4
       /\ Carried(q, q.dtb, {2}) = x5
  <2>1. /\ q.header_version = a.header_version /\ q.second = Carried(a, a.second, 0 .. 2)
        /\ q.dtb = Carried(a, a.dtb, {2}) /\ q.recovery_dtbo = Carried(a, a.recovery_dtbo, {1, 2})
    BY <1>7, <1>9
  <2> QED BY <1>7, <2>1, CarriedSame
<1>12. Packed(q) = PackedAs(FALSE, b, a.cmdline, l, FilesOfBoot(x1, new, x3, x4, x5, None))
  <2>1. Packed(q) =
          PackedAs(FALSE, IF q.header_version < 3 THEN q.board ELSE "", q.cmdline,
            IF q.header_version < 3 THEN q.base + q.kernel_offset ELSE 0,
            FilesOfBoot(Bytes(q.kernel), Bytes(q.ramdisk), Carried(q, q.second, 0 .. 2),
              Carried(q, q.recovery_dtbo, {1, 2}), Carried(q, q.dtb, {2}),
              IF q.header_version < 4 \/ q.gki = None THEN None ELSE Signature(q)))
    BY <1>9 DEF Packed, PackedAs, FilesOfBoot
  <2>2. (IF q.header_version < 3 THEN q.board ELSE "") = b
    BY <1>6, <1>9
  <2>3. (IF q.header_version < 3 THEN q.base + q.kernel_offset ELSE 0) = l
    BY <1>6, <1>9
  <2>4. (IF q.header_version < 4 \/ q.gki = None THEN None ELSE Signature(q)) = None
    BY <1>9
  <2> QED BY <1>9, <1>10, <1>11, <2>1, <2>2, <2>3, <2>4
<1>13. Packed(q) = RenewedIn(Packed(a), new)
  <2>1. PICK y, z, f, g : /\ y = FALSE /\ z = a.cmdline /\ f = FilesOfBoot(x1, x2, x3, x4, x5, x6)
                          /\ g = FilesOfBoot(x1, new, x3, x4, x5, None)
    OBVIOUS
  <2>2. RenewedIn(PackedAs(y, b, z, l, f), new) = PackedAs(y, b, z, l, Renewed(f, new))
    BY PackedRenewed
  <2>3. Renewed(f, new) = g BY <2>1, FilesRenewed
  <2>4. Packed(a) = PackedAs(y, b, z, l, f) /\ Packed(q) = PackedAs(y, b, z, l, g)
    BY <1>8, <1>12, <2>1, Zenon
  <2> QED BY <2>2, <2>3, <2>4
<1> QED BY <1>5, <1>9, <1>13
--------------------------------------------------
(* mkbootimg: a vendor_boot image. *)

\* What a command for a vendor_boot image that is not refused says.
LEMMA VendorFacts ==
    ASSUME NEW a, VendorCommand(a)
    PROVE  /\ a.header_version \in {3, 4}
           /\ IsOption(a.vendor_ramdisk) /\ IsOption(a.dtb) /\ IsOption(a.vendor_bootconfig)
           /\ a.pagesize \in Nat \ {0} /\ FilesOK(Fragments(a))
           /\ IsSeq(Fragments(a)) /\ \A k \in 1 .. Len(Fragments(a)) : IsFragment(Fragments(a)[k])
           /\ cstr(Field(Asciiz(a.vendor_cmdline), VendorArgs)) = a.vendor_cmdline
<1>1. IsCommand(a) /\ ~ Refused(a) /\ a.vendor = TRUE
  BY DEF VendorCommand
<1>2. a.header_version \in {3, 4} BY <1>1 DEF Refused
<1>3. /\ a.vendor_ramdisk = None \/ IsFile(a.vendor_ramdisk)
      /\ a.dtb = None \/ IsFile(a.dtb)
      /\ a.vendor_bootconfig = None \/ IsFile(a.vendor_bootconfig)
  BY <1>1 DEF IsCommand
<1>4. IsOption(a.vendor_ramdisk) /\ IsOption(a.dtb) /\ IsOption(a.vendor_bootconfig)
  BY <1>3, OptionFile
<1>5. a.pagesize \in Nat \ {0}
  BY <1>1 DEF IsCommand, BootHeaderSize
<1>6. cstr(Field(Asciiz(a.vendor_cmdline), VendorArgs)) = a.vendor_cmdline
  <2>1. IsText(a.vendor_cmdline) BY <1>1 DEF IsCommand
  <2>2. ~ (Len(Asciiz(a.vendor_cmdline)) > VendorArgs)
    BY Zenon DEF VendorCommand, UsageError
  <2>3. Len(Asciiz(a.vendor_cmdline)) \in Nat /\ VendorArgs \in Nat
    BY <2>1, TextSeq, AsciizSeq, LenNat, ArgSizes
  <2>4. Len(Asciiz(a.vendor_cmdline)) <= VendorArgs
    BY <2>2, <2>3
  <2> QED BY <2>1, <2>3, <2>4, FieldText
<1> QED BY <1>1, <1>2, <1>4, <1>5, <1>6, FragmentsOK, FragmentFiles

\* What the vendor_boot header of version 3 says.
LEMMA VendorThree ==
    ASSUME NEW a, NEW h, h = VendorHeaderV3(a)
    PROVE  DOMAIN h = VendorNames /\ VendorFields(h, a)
<1>1. DOMAIN h = VendorNames
  BY DEF VendorHeaderV3, VendorNames
<1>2. "magic" \in DOMAIN h BY <1>1 DEF VendorNames
<1>3. VendorFields(h, a)
  BY <1>2 DEF VendorHeaderV3, VendorFields, RamdiskSize
<1> QED BY <1>1, <1>3

\* What version 4 adds.
LEMMA VendorFour ==
    ASSUME NEW a, NEW h, h = VendorHeaderV4(a)
    PROVE  DOMAIN h = {"table_size", "entry_num", "entry_size", "bootconfig_size"} /\ TableFields(h, a)
BY DEF VendorHeaderV4, TableFields

\* What the vendor_boot header says.
LEMMA VendorHeaderFields ==
    ASSUME NEW a
    PROVE  /\ VendorFields(VendorHeader(a), a)
           /\ a.header_version > 3 => TableFields(VendorHeader(a), a)
<1>1. PICK f, g : f = VendorHeaderV3(a) /\ g = VendorHeaderV4(a) OBVIOUS
<1>2. DOMAIN f = VendorNames /\ VendorFields(f, a)
  BY <1>1, VendorThree
<1>3. DOMAIN g = {"table_size", "entry_num", "entry_size", "bootconfig_size"} /\ TableFields(g, a)
  BY <1>1, VendorFour
<1>4. PICK h : h = VendorHeader(a) OBVIOUS
<1>5. CASE a.header_version > 3
  <2>1. MergeOf(h, f, g)
    BY <1>1, <1>4, <1>5, WithFields DEF VendorHeader
  <2>2. VendorNames \subseteq DOMAIN h /\ \A x : x \in VendorNames => h[x] = f[x]
    <3> HIDE DEF VendorNames
    <3> QED BY <1>2, <2>1 DEF MergeOf
  <2>3. /\ h["magic"] = f["magic"] /\ h["header_version"] = f["header_version"]
        /\ h["page_size"] = f["page_size"] /\ h["kernel_addr"] = f["kernel_addr"]
        /\ h["ramdisk_addr"] = f["ramdisk_addr"] /\ h["ramdisk_size"] = f["ramdisk_size"]
        /\ h["cmdline"] = f["cmdline"] /\ h["tags_addr"] = f["tags_addr"] /\ h["name"] = f["name"]
        /\ h["header_size"] = f["header_size"] /\ h["dtb_size"] = f["dtb_size"]
        /\ h["dtb_addr"] = f["dtb_addr"] /\ "magic" \in DOMAIN h
    BY <2>2 DEF VendorNames
  <2>4. VendorFields(h, a)
    BY <1>2, <2>3 DEF VendorFields
  <2>5. {"table_size", "entry_num", "entry_size", "bootconfig_size"} \cap VendorNames = {}
    BY DEF VendorNames
  <2>6. /\ h["table_size"] = g["table_size"] /\ h["entry_num"] = g["entry_num"]
        /\ h["entry_size"] = g["entry_size"] /\ h["bootconfig_size"] = g["bootconfig_size"]
    <3> HIDE DEF VendorNames
    <3> QED BY <1>2, <1>3, <2>1, <2>5 DEF MergeOf
  <2>7. TableFields(h, a) BY <1>3, <2>6 DEF TableFields
  <2> QED BY <1>4, <2>4, <2>7
<1>6. CASE ~ (a.header_version > 3)
  <2>1. h = f BY <1>1, <1>4, <1>6 DEF VendorHeader
  <2> QED BY <1>2, <1>4, <1>6, <2>1
<1> QED BY <1>5, <1>6

\* The table has an entry for every ramdisk.
LEMMA TableSeq ==
    ASSUME NEW a, IsSeq(Fragments(a))
    PROVE  /\ IsSeq(Table(a)) /\ Len(Table(a)) = Len(Fragments(a))
           /\ \A k \in 1 .. Len(Fragments(a)) : Table(a)[k] = [content |-> Entries(a)[k], i |-> 1]
<1>1. PICK n \in Nat : n = Len(Fragments(a)) BY LenNat
<1>2. PICK t : t = Table(a) OBVIOUS
<1>3. t = [k \in 1 .. n |-> [content |-> Entries(a)[k], i |-> 1]]
  BY <1>1, <1>2 DEF Table
<1>4. IsSeq(t) /\ Len(t) = n
  <2>1. t = [k \in 1 .. n |-> t[k]] BY <1>3
  <2> QED BY <2>1, MapSeq
<1> QED BY <1>1, <1>2, <1>3, <1>4

\* The parts from the header page on, each written behind the one before.
LEMMA VendorLaidOut ==
    ASSUME NEW a, VendorCommand(a), NEW p, p = a.pagesize, NEW w, w = Mkbootimg(a)
    PROVE  VendorAt(w, a, p)
<1>1. /\ a.header_version \in {3, 4}
      /\ IsOption(a.vendor_ramdisk) /\ IsOption(a.dtb) /\ IsOption(a.vendor_bootconfig)
      /\ p \in Nat \ {0} /\ FilesOK(Fragments(a)) /\ IsSeq(Fragments(a))
  BY VendorFacts
<1>2. PICK o0 : o0 = WriteHeader(VendorHeader(a), VendorHeaderSize, p) OBVIOUS
<1>3. w = WriteVendorData(a, o0, p)
  <2>1. a.vendor = TRUE BY DEF VendorCommand
  <2> QED BY <1>2, <2>1, Zenon DEF Mkbootimg
<1>4. PICK n1 : n1 = VPage1(p) OBVIOUS
<1>5. /\ Paged(o0, p, n1) /\ 3 <= Len(o0) /\ n1 \in Nat
      /\ o0[1] = [content |-> VendorHeader(a), i |-> 1] /\ IsSeq(o0)
  <2>1. VendorHeaderSize \in Nat \ {0}
    BY DEF VendorHeaderSize
  <2>2. /\ Paged(o0, p, Pages(VendorHeaderSize, p)) /\ VendorHeaderSize <= Len(o0)
        /\ Pages(VendorHeaderSize, p) \in Nat /\ o0[1] = [content |-> VendorHeader(a), i |-> 1]
    BY <1>1, <1>2, <2>1, WriteHeaderHeld
  <2> QED BY <1>4, <2>2 DEF VPage1, VendorHeaderSize, Paged
<1>6. PICK n2, n3, n4 : n2 = VPage2(a, p) /\ n3 = VPage3(a, p) /\ n4 = VPage4(a, p) OBVIOUS
<1>7. ASSUME NEW u, IsSeq(u), Keeps(u, o0)
      PROVE  3 <= Len(u) /\ u[1] = [content |-> VendorHeader(a), i |-> 1]
  <2>1. Len(u) \in Nat /\ Len(o0) \in Nat
    BY <1>5, <1>7, LenNat
  <2> QED BY <1>5, <1>7, <2>1 DEF Keeps
<1>8. CASE ~ (a.header_version > 3)
  <2>1. PICK o1 : o1 = WritePadded(o0, a.vendor_ramdisk, p) OBVIOUS
  <2>2. w = WritePadded(o1, a.dtb, p)
    BY <1>3, <1>8, <2>1, Zenon DEF WriteVendorData
  <2>3. n2 = n1 + Pages(filesize(a.vendor_ramdisk), p)
    BY <1>4, <1>6, <1>8 DEF VPage2, RamdiskSize
  <2>4. Paged(o1, p, n2) /\ Keeps(o1, o0) /\ Holds(o1, p * n1, Bytes(a.vendor_ramdisk))
    BY <1>1, <1>5, <2>1, <2>3, Written DEF IsOption
  <2>5. /\ Paged(w, p, n2 + Pages(filesize(a.dtb), p)) /\ Keeps(w, o1)
        /\ Holds(w, p * n2, Bytes(a.dtb))
    BY <1>1, <2>2, <2>4, Written DEF IsOption
  <2>6. IsSeq(w) /\ IsSeq(o1) BY <2>4, <2>5 DEF Paged
  <2>7. IsSeq(Bytes(a.vendor_ramdisk))
    BY <1>1, BytesSeq DEF IsOption
  <2>8. Holds(w, p * n1, Bytes(a.vendor_ramdisk))
    BY <1>1, <1>5, <2>4, <2>5, <2>6, <2>7, HeldLater
  <2>9. Keeps(w, o0) BY <1>5, <2>4, <2>5, <2>6, KeepsOn
  <2>10. VendorHeaderSize <= Len(w) /\ w[1] = [content |-> VendorHeader(a), i |-> 1]
    BY <1>7, <2>6, <2>9 DEF VendorHeaderSize
  <2> QED BY <1>4, <1>6, <1>8, <2>5, <2>6, <2>8, <2>10 DEF VendorAt
<1>9. CASE a.header_version > 3
  <2>1. PICK r, t : r = Ramdisks(Fragments(a)) /\ t = Table(a) OBVIOUS
  <2>2. IsSeq(r) /\ Len(r) = RamdiskSize(a) /\ IsSeq(t) /\ Len(t) = Len(Fragments(a))
    BY <1>1, <1>9, <2>1, RamdisksHeld, TableSeq DEF RamdiskSize
  <2>3. PICK o1, o2, o3 : /\ o1 = PadFile(o0 \o r, p) /\ o2 = WritePadded(o1, a.dtb, p)
                          /\ o3 = PadFile(o2 \o t, p)
    OBVIOUS
  <2>4. w = WritePadded(o3, a.vendor_bootconfig, p)
    BY <1>3, <1>9, <2>1, <2>3, Zenon DEF WriteVendorData
  <2>5. /\ n2 = n1 + Pages(Len(r), p) /\ n3 = n2 + Pages(filesize(a.dtb), p)
        /\ n4 = n3 + Pages(Len(t), p)
    BY <1>4, <1>6, <2>2 DEF VPage2, VPage3, VPage4
  <2>6. Paged(o1, p, n2) /\ Keeps(o1, o0) /\ Holds(o1, p * n1, r)
    BY <1>1, <1>5, <2>2, <2>3, <2>5, Padded
  <2>7. Paged(o2, p, n3) /\ Keeps(o2, o1) /\ Holds(o2, p * n2, Bytes(a.dtb))
    BY <1>1, <2>3, <2>5, <2>6, Written DEF IsOption
  <2>8. Paged(o3, p, n4) /\ Keeps(o3, o2) /\ Holds(o3, p * n3, t)
    BY <1>1, <2>2, <2>3, <2>5, <2>7, Padded
  <2>9. /\ Paged(w, p, n4 + Pages(filesize(a.vendor_bootconfig), p)) /\ Keeps(w, o3)
        /\ Holds(w, p * n4, Bytes(a.vendor_bootconfig))
    BY <1>1, <2>4, <2>8, Written DEF IsOption
  <2>10. IsSeq(w) /\ IsSeq(o1) /\ IsSeq(o2) /\ IsSeq(o3) /\ n2 \in Nat /\ n3 \in Nat /\ n4 \in Nat
    BY <2>6, <2>7, <2>8, <2>9 DEF Paged
  <2>11. Keeps(w, o2) BY <2>8, <2>9, <2>10, KeepsOn
  <2>12. Keeps(w, o1) BY <2>7, <2>10, <2>11, KeepsOn
  <2>13. Keeps(w, o0)
    BY <1>5, <2>6, <2>10, <2>12, KeepsOn
  <2>14. Holds(w, p * n1, r)
    BY <1>1, <1>5, <2>2, <2>6, <2>10, <2>12, HeldLater
  <2>15. Holds(w, p * n2, Bytes(a.dtb))
    <3>1. IsSeq(Bytes(a.dtb))
      BY <1>1, BytesSeq DEF IsOption
    <3> QED BY <1>1, <2>7, <2>10, <2>11, <3>1, HeldLater
  <2>16. Holds(w, p * n3, t)
    BY <1>1, <2>2, <2>8, <2>9, <2>10, HeldLater
  <2>17. VendorHeaderSize <= Len(w) /\ w[1] = [content |-> VendorHeader(a), i |-> 1]
    BY <1>7, <2>10, <2>13 DEF VendorHeaderSize
  <2> QED BY <1>4, <1>6, <1>9, <2>1, <2>9, <2>10, <2>14, <2>15, <2>16, <2>17 DEF VendorAt
<1> QED BY <1>8, <1>9
--------------------------------------------------
(* unpack_bootimg: a vendor_boot image. *)

\* A file in a section is in the image.
LEMMA HoldsWithin ==
    ASSUME NEW w, NEW r, NEW f, IsSeq(w), IsSeq(r), IsSeq(f), NEW n \in Nat, NEW m \in Nat,
           Holds(w, n, r), Holds(r, m, f)
    PROVE  Holds(w, n + m, f)
<1>1. PICK lw, lr, lf \in Nat : lw = Len(w) /\ lr = Len(r) /\ lf = Len(f)
  BY LenNat
<1>2. n + lr <= lw /\ (\A k \in 1 .. lr : w[n + k] = r[k]) /\ m + lf <= lr /\ \A k \in 1 .. lf : r[m + k] = f[k]
  BY <1>1 DEF Holds
<1>3. ASSUME NEW k \in 1 .. lf PROVE w[n + m + k] = f[k]
  <2>1. PICK j \in 1 .. lr : j = m + k BY <1>2
  <2>2. n + m + k = n + j BY <2>1
  <2> QED BY <1>2, <2>1, <2>2
<1>4. n + m + lf <= lw BY <1>2
<1> QED BY <1>1, <1>3, <1>4 DEF Holds

\* An entry of the table gives back its ramdisk.
LEMMA FragmentRead ==
    ASSUME NEW a, VendorCommand(a), a.header_version > 3, NEW p, p = a.pagesize,
           NEW w, VendorAt(w, a, p), NEW k \in 1 .. Len(Fragments(a))
    PROVE  /\ w[p * VPage3(a, p) + k].content = Entries(a)[k]
           /\ ReadFragment(w, p, VPage1(p), Entries(a)[k]) = Fragments(a)[k]
<1>1. PICK fs, t, r : fs = Fragments(a) /\ t = Table(a) /\ r = Ramdisks(Fragments(a)) OBVIOUS
<1>2. /\ p \in Nat \ {0} /\ FilesOK(fs) /\ IsSeq(fs) /\ IsFragment(fs[k])
  BY <1>1, VendorFacts
<1>3. /\ IsSeq(t) /\ Len(t) = Len(fs) /\ t[k] = [content |-> Entries(a)[k], i |-> 1]
  BY <1>1, <1>2, TableSeq
<1>4. /\ IsSeq(w) /\ Holds(w, p * VPage1(p), r) /\ Holds(w, p * VPage3(a, p), t)
  BY <1>1 DEF VendorAt
<1>5. w[p * VPage3(a, p) + k] = t[k]
  BY <1>1, <1>3, <1>4 DEF Holds
<1>6. w[p * VPage3(a, p) + k].content = Entries(a)[k]
  BY <1>3, <1>5
<1>7. PICK f, m : f = fs[k].file /\ m = OffsetOf(fs, k) OBVIOUS
<1>8. IsSeq(r) /\ m \in Nat /\ Holds(r, m, f) /\ IsSeq(f)
  <2>1. /\ IsSeq(Ramdisks(fs)) /\ OffsetOf(fs, k) \in Nat
        /\ Holds(Ramdisks(fs), OffsetOf(fs, k), fs[k].file)
    BY <1>1, <1>2, RamdisksHeld
  <2> QED BY <1>1, <1>2, <1>7, <2>1 DEF FilesOK
<1>9. PICK n \in Nat : n = p * VPage1(p)
  <2>1. VPage1(p) \in Nat
    BY <1>2, PageCount DEF VPage1, VendorHeaderSize
  <2> QED BY <1>2, <2>1, Product
<1>10. Holds(w, n, r) BY <1>4, <1>9
<1>11. Holds(w, n + m, f)
  BY <1>4, <1>8, <1>10, HoldsWithin
<1>12. PICK x \in Nat : x = n + m BY <1>8
<1>13. Extract(w, x, Len(f)) = f
  BY <1>4, <1>8, <1>11, <1>12, Extracted
<1>14. Entries(a)[k] = [size |-> Len(f), offset |-> m, type |-> fs[k].type, name |-> fs[k].name,
                        board_id |-> fs[k].board_id]
  BY <1>1, <1>7 DEF Entries
<1>15. cstr(fs[k].name) = fs[k].name
  BY <1>2, NameKept DEF IsFragment
<1>16. fs[k] = [type |-> fs[k].type, name |-> fs[k].name, board_id |-> fs[k].board_id, file |-> f]
  BY <1>2, <1>7 DEF IsFragment
<1>17. PICK y : y = Entries(a)[k] OBVIOUS
<1>18. /\ y.size = Len(f) /\ y.offset = m /\ y.type = fs[k].type /\ y.name = fs[k].name
       /\ y.board_id = fs[k].board_id
  BY <1>14, <1>17
<1>19. ReadFragment(w, p, VPage1(p), y) =
         [type |-> fs[k].type, name |-> fs[k].name, board_id |-> fs[k].board_id, file |-> f]
  BY <1>9, <1>12, <1>13, <1>15, <1>18 DEF ReadFragment
<1> QED BY <1>1, <1>6, <1>16, <1>17, <1>19

\* unpack_vendor_boot_image: the files at those pages are those of the command.
LEMMA VendorFilesRead ==
    ASSUME NEW a, VendorCommand(a), NEW p, p = a.pagesize, NEW w, VendorAt(w, a, p),
           NEW h, VendorFields(h, a), a.header_version > 3 => TableFields(h, a)
    PROVE  VendorRead(w, h, p, VPage1(p), VPage2(a, p), VPage3(a, p)) =
             [vendor |-> TRUE, header |-> h, files |-> Packed(a).files]
<1>1. /\ a.header_version \in {3, 4}
      /\ IsOption(a.vendor_ramdisk) /\ IsOption(a.dtb) /\ IsOption(a.vendor_bootconfig)
      /\ p \in Nat \ {0} /\ FilesOK(Fragments(a)) /\ IsSeq(Fragments(a))
  BY VendorFacts
<1>2. PICK n1, n2, n3, n4 : /\ n1 = VPage1(p) /\ n2 = VPage2(a, p) /\ n3 = VPage3(a, p)
                            /\ n4 = VPage4(a, p)
  OBVIOUS
<1>3. /\ IsSeq(w) /\ Holds(w, p * n2, Bytes(a.dtb))
      /\ ~ (a.header_version > 3) => Holds(w, p * n1, Bytes(a.vendor_ramdisk))
      /\ a.header_version > 3 => Holds(w, p * n4, Bytes(a.vendor_bootconfig))
  BY <1>2 DEF VendorAt
<1>4. RamdiskSize(a) \in Nat
  <2>1. Total(Fragments(a)) \in Nat
    BY <1>1, RamdisksHeld
  <2>2. filesize(a.vendor_ramdisk) \in Nat
    BY <1>1, BytesSeq DEF IsOption
  <2> QED BY <2>1, <2>2 DEF RamdiskSize
<1>5. n1 \in Nat /\ n2 \in Nat /\ n3 \in Nat /\ n4 \in Nat
  <2>1. Pages(VendorHeaderSize, p) \in Nat
    BY <1>1, PageCount DEF VendorHeaderSize
  <2>2. Pages(RamdiskSize(a), p) \in Nat
    BY <1>1, <1>4, PageCount
  <2>3. Pages(filesize(a.dtb), p) \in Nat
    BY <1>1, PageNat
  <2>4. Pages(Len(Fragments(a)), p) \in Nat
    BY <1>1, LenNat, PageCount
  <2> QED BY <1>2, <2>1, <2>2, <2>3, <2>4 DEF VPage1, VPage2, VPage3, VPage4
<1>6. p * n1 \in Nat /\ p * n2 \in Nat /\ p * n4 \in Nat
  BY <1>1, <1>5, Product
<1>7. h.header_version = a.header_version /\ h.ramdisk_size = RamdiskSize(a) /\ h.dtb_size = filesize(a.dtb)
  BY DEF VendorFields
<1>8. IfAny(w, p * n2, h.dtb_size) = Carried(a, a.dtb, {3, 4})
  <2>1. PICK x, m, vs : x = p * n2 /\ m = h.dtb_size /\ vs = {3, 4} OBVIOUS
  <2>2. /\ a.header_version \in vs => x \in Nat /\ Holds(w, x, Bytes(a.dtb))
        /\ m = IF a.header_version \in vs THEN filesize(a.dtb) ELSE 0
    BY <1>1, <1>3, <1>6, <1>7, <2>1
  <2>3. IsOption(a.dtb) /\ IsSeq(w) BY <1>1, <1>3
  <2>4. IfAny(w, x, m) = Carried(a, a.dtb, vs)
    BY <2>2, <2>3, CarriedRead
  <2> QED BY <2>1, <2>4
<1>9. CASE ~ (a.header_version > 3)
  <2>1. IsSeq(Bytes(a.vendor_ramdisk)) /\ Len(Bytes(a.vendor_ramdisk)) = filesize(a.vendor_ramdisk)
    BY <1>1, BytesSeq DEF IsOption
  <2>2. Extract(w, p * n1, Len(Bytes(a.vendor_ramdisk))) = Bytes(a.vendor_ramdisk)
    BY <1>3, <1>6, <1>9, <2>1, Extracted
  <2>3. h.ramdisk_size = Len(Bytes(a.vendor_ramdisk))
    BY <1>7, <1>9, <2>1 DEF RamdiskSize
  <2>4. VendorRead(w, h, p, n1, n2, n3) =
          [vendor |-> TRUE, header |-> h,
           files |-> VendorFiles(Bytes(a.vendor_ramdisk), << >>, Carried(a, a.dtb, {3, 4}), None)]
    BY <1>7, <1>8, <1>9, <2>2, <2>3, Zenon DEF VendorRead
  <2>5. Packed(a).files = VendorFiles(Bytes(a.vendor_ramdisk), << >>, Carried(a, a.dtb, {3, 4}), None)
    <3>1. a.header_version = 3 /\ a.header_version # 4 /\ a.vendor = TRUE
      BY <1>1, <1>9 DEF VendorCommand
    <3> QED BY <3>1 DEF Packed, VendorFiles
  <2> QED BY <1>2, <2>4, <2>5
<1>10. CASE a.header_version > 3
  <2>1. /\ h.table_size = Len(Fragments(a)) /\ h.entry_num = Len(Fragments(a)) /\ h.entry_size = 1
        /\ h.bootconfig_size = filesize(a.vendor_bootconfig)
    <3>1. TableFields(h, a) /\ Len(Fragments(a)) \in Nat
      BY <1>1, <1>10, LenNat
    <3> QED BY <3>1 DEF TableFields, TableEntrySize
  <2>2. n4 = n3 + Pages(h.table_size, p)
    BY <1>2, <2>1 DEF VPage4
  <2>3. Extract(w, p * n4, h.bootconfig_size) = Bytes(a.vendor_bootconfig)
    <3>1. /\ IsSeq(Bytes(a.vendor_bootconfig))
          /\ Len(Bytes(a.vendor_bootconfig)) = filesize(a.vendor_bootconfig)
      BY <1>1, BytesSeq DEF IsOption
    <3>2. Extract(w, p * n4, Len(Bytes(a.vendor_bootconfig))) = Bytes(a.vendor_bootconfig)
      BY <1>3, <1>6, <1>10, <3>1, Extracted
    <3> QED BY <2>1, <3>1, <3>2
  <2>4. ASSUME NEW k \in 1 .. Len(Fragments(a))
        PROVE  ReadFragment(w, p, n1, w[p * n3 + h.entry_size * (k - 1) + 1].content) = Fragments(a)[k]
    <3>1. PICK y \in Nat : y = p * n3
      BY <1>1, <1>5, Product
    <3>2. y + h.entry_size * (k - 1) + 1 = y + k
      BY <1>1, <2>1, LenNat
    <3>3. /\ w[p * n3 + k].content = Entries(a)[k]
          /\ ReadFragment(w, p, n1, Entries(a)[k]) = Fragments(a)[k]
      BY <1>2, <1>10, FragmentRead
    <3> QED BY <3>1, <3>2, <3>3
  <2>5. [k \in 1 .. h.entry_num |-> ReadFragment(w, p, n1, w[p * n3 + h.entry_size * (k - 1) + 1].content)]
          = Fragments(a)
    <3>1. PICK fs : fs = Fragments(a) OBVIOUS
    <3>2. fs = [k \in 1 .. Len(fs) |-> fs[k]]
      BY <1>1, <3>1 DEF IsSeq
    <3> QED BY <2>1, <2>4, <3>1, <3>2
  <2>6. VendorRead(w, h, p, n1, n2, n3) =
          [vendor |-> TRUE, header |-> h,
           files |-> VendorFiles(None, Fragments(a), Carried(a, a.dtb, {3, 4}), Bytes(a.vendor_bootconfig))]
    BY <1>7, <1>8, <1>10, <2>2, <2>3, <2>5, Zenon DEF VendorRead
  <2>7. Packed(a).files =
          VendorFiles(None, Fragments(a), Carried(a, a.dtb, {3, 4}), Bytes(a.vendor_bootconfig))
    <3>1. a.header_version = 4 /\ a.header_version # 3 /\ a.vendor = TRUE
      BY <1>1, <1>10 DEF VendorCommand
    <3> QED BY <3>1 DEF Packed, VendorFiles
  <2> QED BY <1>2, <2>6, <2>7
<1> QED BY <1>9, <1>10

\* What unpack_bootimg finds in a vendor_boot image.
LEMMA UnpackedVendor ==
    ASSUME NEW a, VendorCommand(a), NEW w, w = Mkbootimg(a)
    PROVE  /\ Unpack(w) = [vendor |-> TRUE, header |-> VendorHeader(a), files |-> Packed(a).files]
           /\ Readable(w) /\ IsVendor(w)
<1>1. PICK p, h : p = a.pagesize /\ h = VendorHeader(a) OBVIOUS
<1>2. VendorAt(w, a, p) BY <1>1, VendorLaidOut
<1>3. VendorHeaderSize <= Len(w) /\ w[1] = [content |-> h, i |-> 1] /\ IsSeq(w)
  BY <1>1, <1>2 DEF VendorAt
<1>4. Header(w) = h /\ w[1].i = 1 BY <1>3 DEF Header
<1>5. VendorFields(h, a) /\ (a.header_version > 3 => TableFields(h, a))
  BY <1>1, VendorHeaderFields
<1>6. /\ "magic" \in DOMAIN h /\ h.magic = "VNDRBOOT" /\ h.header_version = a.header_version
      /\ h.page_size = p /\ h.header_size = VendorHeaderSize /\ h.ramdisk_size = RamdiskSize(a)
      /\ h.dtb_size = filesize(a.dtb)
  BY <1>1, <1>5 DEF VendorFields
<1>7. IsVendor(w)
  <2>1. Len(w) >= VendorHeaderSize
    BY <1>3, LenNat DEF VendorHeaderSize
  <2> QED BY <1>4, <1>6, <2>1 DEF IsVendor, StartsWith
<1>8. PICK n1, n2, n3 : n1 = VPage1(p) /\ n2 = VPage2(a, p) /\ n3 = VPage3(a, p) OBVIOUS
<1>9. /\ VendorHeaderPages(h) = n1 /\ VendorHeaderPages(h) + Pages(h.ramdisk_size, p) = n2
      /\ VendorHeaderPages(h) + Pages(h.ramdisk_size, p) + Pages(h.dtb_size, p) = n3
  BY <1>6, <1>8 DEF VendorHeaderPages, VPage1, VPage2, VPage3
<1>10. UnpackVendor(w) = VendorRead(w, h, p, n1, n2, n3)
  <2>1. UnpackVendor(w) =
          VendorRead(w, Header(w), Header(w).page_size, VendorHeaderPages(Header(w)),
            VendorHeaderPages(Header(w)) + Pages(Header(w).ramdisk_size, Header(w).page_size),
            VendorHeaderPages(Header(w)) + Pages(Header(w).ramdisk_size, Header(w).page_size)
              + Pages(Header(w).dtb_size, Header(w).page_size))
    BY Zenon DEF UnpackVendor, VendorRead, VendorFiles, ReadFragment
  <2> QED BY <1>4, <1>6, <1>9, <2>1
<1>11. UnpackVendor(w) = [vendor |-> TRUE, header |-> h, files |-> Packed(a).files]
  BY <1>1, <1>2, <1>5, <1>8, <1>10, VendorFilesRead
<1>12. TableThere(w)
  <2>1. h.header_version > 3 => p * n3 + h.table_size <= Len(w)
    <3>1. SUFFICES ASSUME a.header_version > 3 PROVE p * n3 + h.table_size <= Len(w)
      BY <1>6
    <3>2. Holds(w, p * n3, Table(a))
      BY <1>2, <1>8, <3>1 DEF VendorAt
    <3>3. IsSeq(Fragments(a)) /\ Len(Fragments(a)) \in Nat /\ Len(Table(a)) = Len(Fragments(a))
      BY VendorFacts, TableSeq, LenNat
    <3>4. h.table_size = Len(Fragments(a))
      BY <1>5, <3>1, <3>3 DEF TableFields, TableEntrySize
    <3> QED BY <3>2, <3>3, <3>4 DEF Holds
  <2> QED BY <1>4, <1>6, <1>9, <2>1 DEF TableThere
<1> QED BY <1>1, <1>7, <1>11, <1>12 DEF Unpack, Readable
--------------------------------------------------
(* A repack of a vendor_boot image. *)

\* The options that are printed for a vendor_boot image.
LEMMA VendorOptionsPrinted == \A u : VendorPrinted(VendorOptions(u), u.header, u.files)
<1> TAKE u
<1>1. PICK o : o = VendorOptions(u) OBVIOUS
<1>2. DOMAIN o = DOMAIN Defaults
  BY <1>1 DEF VendorOptions
<1>3. o.vendor = TRUE /\ o.header_version = u.header.header_version /\ o.pagesize = u.header.page_size
  BY <1>1 DEF VendorOptions, Defaults
<1>4. o.base = 0 /\ o.kernel_offset = u.header.kernel_addr /\ o.ramdisk_offset = u.header.ramdisk_addr
  BY <1>1 DEF VendorOptions, Defaults
<1>5. o.tags_offset = u.header.tags_addr /\ o.dtb_offset = u.header.dtb_addr /\ o.second_offset = 3
  BY <1>1 DEF VendorOptions, Defaults
<1>6. o.vendor_cmdline = cstr(u.header.cmdline) /\ o.board = u.header.name /\ o.dtb = u.files.dtb
  BY <1>1 DEF VendorOptions, Defaults
<1>7. o.vendor_bootconfig = u.files.bootconfig /\ o.fragments = u.files.fragments
  BY <1>1 DEF VendorOptions, Defaults
<1>8. o.vendor_ramdisk = u.files.vendor_ramdisk /\ o.kernel = None /\ o.ramdisk = None
  BY <1>1 DEF VendorOptions, Defaults
<1>9. o.second = None /\ o.recovery_dtbo = None /\ o.cmdline = << >> /\ o.gki = None
  BY <1>1 DEF VendorOptions, Defaults
<1>10. OptionNames \subseteq DOMAIN o
  BY <1>2, DefaultNames
<1> QED BY <1>1, <1>3, <1>4, <1>5, <1>6, <1>7, <1>8, <1>9, <1>10, Zenon DEF VendorPrinted

\* They are those it was made with, and a command line.
LEMMA VendorAgainCommand ==
    ASSUME NEW a, VendorCommand(a), NEW u, u = Unpack(Mkbootimg(a)), NEW o, o = Options(u)
    PROVE  /\ IsCommand(o) /\ VendorAgain(o, a) /\ OptionNames \subseteq DOMAIN o
           /\ u.vendor = TRUE /\ u.header.header_version = a.header_version
           /\ u.files = Packed(a).files /\ u.files.fragments = o.fragments
<1>1. PICK h : h = VendorHeader(a) OBVIOUS
<1>2. u = [vendor |-> TRUE, header |-> h, files |-> Packed(a).files]
  BY <1>1, UnpackedVendor
<1>3. u.vendor = TRUE /\ u.header = h /\ u.files = Packed(a).files
  BY <1>2
<1>4. o = VendorOptions(u) BY <1>3 DEF Options
<1>5. VendorFields(h, a) BY <1>1, VendorHeaderFields
<1>6. /\ a.header_version \in {3, 4}
      /\ IsSeq(Fragments(a)) /\ (\A k \in 1 .. Len(Fragments(a)) : IsFragment(Fragments(a)[k]))
      /\ cstr(Field(Asciiz(a.vendor_cmdline), VendorArgs)) = a.vendor_cmdline
  BY VendorFacts
<1>7. VendorPrinted(o, h, u.files)
  BY <1>3, <1>4, VendorOptionsPrinted
<1>8. IsCommand(a) /\ a.vendor = TRUE
  BY DEF VendorCommand
<1>9. /\ u.files.vendor_ramdisk = IF a.header_version = 3 THEN Bytes(a.vendor_ramdisk) ELSE None
      /\ u.files.fragments = IF a.header_version = 4 THEN Fragments(a) ELSE << >>
      /\ u.files.dtb = Carried(a, a.dtb, {3, 4})
      /\ u.files.bootconfig = IF a.header_version = 4 THEN Bytes(a.vendor_bootconfig) ELSE None
  BY <1>3, <1>8 DEF Packed
<1>10. /\ a.base \in Nat /\ a.kernel_offset \in Nat /\ a.ramdisk_offset \in Nat /\ a.dtb_offset \in Nat
       /\ a.tags_offset \in Nat /\ a.pagesize \in Nat /\ a.pagesize >= BootHeaderSize
       /\ IsText(a.vendor_cmdline) /\ a.header_version \in Nat
       /\ OptFile(a.vendor_ramdisk) /\ OptFile(a.dtb) /\ OptFile(a.vendor_bootconfig)
  BY <1>8 DEF IsCommand, OptFile
<1>11. /\ h.header_version = a.header_version /\ h.page_size = a.pagesize
       /\ h.kernel_addr = a.base + a.kernel_offset /\ h.ramdisk_addr = a.base + a.ramdisk_offset
       /\ h.tags_addr = a.base + a.tags_offset /\ h.dtb_addr = a.base + a.dtb_offset
       /\ h.name = a.board /\ cstr(h.cmdline) = a.vendor_cmdline
  BY <1>5, <1>6 DEF VendorFields
<1>12. /\ o.header_version = a.header_version /\ o.pagesize = a.pagesize /\ o.base = 0
       /\ o.kernel_offset = a.base + a.kernel_offset /\ o.ramdisk_offset = a.base + a.ramdisk_offset
       /\ o.tags_offset = a.base + a.tags_offset /\ o.dtb_offset = a.base + a.dtb_offset
       /\ o.second_offset = 3 /\ o.board = a.board /\ o.vendor_cmdline = a.vendor_cmdline
  BY <1>7, <1>11 DEF VendorPrinted
<1>13. OffsetsOK(o) BY <1>10, <1>12 DEF OffsetsOK
<1>14. OptFile(None) BY DEF OptFile
<1>15. /\ o.kernel = None /\ o.ramdisk = None /\ o.second = None /\ o.recovery_dtbo = None
       /\ o.cmdline = << >> /\ o.gki = None /\ o.vendor = TRUE /\ OptionNames \subseteq DOMAIN o
       /\ o.dtb = u.files.dtb /\ o.vendor_bootconfig = u.files.bootconfig
       /\ o.fragments = u.files.fragments /\ o.vendor_ramdisk = u.files.vendor_ramdisk
  BY <1>7, Zenon DEF VendorPrinted
<1>16. OptFile(o.vendor_ramdisk) /\ OptFile(o.vendor_bootconfig) /\ OptFile(o.dtb)
  <2>1. OptFile(Bytes(a.vendor_ramdisk)) /\ OptFile(Bytes(a.vendor_bootconfig))
    BY <1>10, CarriedFile
  <2>2. OptFile(Carried(a, a.dtb, {3, 4}))
    BY <1>10, CarriedFile
  <2> QED BY <1>9, <1>14, <1>15, <2>1, <2>2
<1>17. IsSeq(o.fragments) /\ \A k \in 1 .. Len(o.fragments) : IsFragment(o.fragments[k])
  BY <1>6, <1>9, <1>15, NoText
<1>18. /\ o.vendor \in BOOLEAN /\ o.header_version \in Nat /\ IsText(o.cmdline)
       /\ IsText(o.vendor_cmdline) /\ OptFile(o.kernel) /\ OptFile(o.ramdisk)
       /\ OptFile(o.second) /\ OptFile(o.recovery_dtbo) /\ OptFile(o.gki)
  BY <1>10, <1>12, <1>14, <1>15, NoText
<1>19. IsCommand(o)
  BY <1>13, <1>16, <1>17, <1>18, CommandParts
<1>20. o.base + o.kernel_offset = a.base + a.kernel_offset
  BY <1>10, <1>12
<1>21. VendorAgain(o, a)
  BY <1>9, <1>12, <1>15, <1>20, Zenon DEF VendorAgain
<1> QED BY <1>3, <1>11, <1>15, <1>19, <1>21

\* unpack_bootimg reads what mkbootimg has packed.
LEMMA VendorReadBack == ASSUME NEW a, VendorCommand(a) PROVE Read(Mkbootimg(a)) = Packed(a)
<1>1. PICK u, o : u = Unpack(Mkbootimg(a)) /\ o = Options(u) OBVIOUS
<1>2. VendorAgain(o, a) /\ u.vendor = TRUE /\ u.files = Packed(a).files
  BY <1>1, VendorAgainCommand
<1>3. Read(Mkbootimg(a)) =
        [vendor |-> u.vendor, board |-> o.board, files |-> u.files,
         cmdline |-> IF u.vendor THEN o.vendor_cmdline ELSE o.cmdline,
         load |-> IF u.vendor \/ u.header.header_version < 3 THEN o.base + o.kernel_offset ELSE 0]
  BY <1>1, Zenon DEF Read
<1>4. a.vendor = TRUE BY DEF VendorCommand
<1>5. PICK f, l : f = Packed(a).files /\ l = a.base + a.kernel_offset OBVIOUS
<1>6. Packed(a) = [vendor |-> TRUE, board |-> a.board, cmdline |-> a.vendor_cmdline, load |-> l, files |-> f]
  BY <1>4, <1>5 DEF Packed
<1>7. o.board = a.board /\ o.vendor_cmdline = a.vendor_cmdline /\ o.base + o.kernel_offset = l
  BY <1>2, <1>5, Zenon DEF VendorAgain
<1>8. Read(Mkbootimg(a)) =
        [vendor |-> TRUE, board |-> a.board, files |-> f, cmdline |-> a.vendor_cmdline, load |-> l]
  BY <1>2, <1>3, <1>5, <1>7
<1> QED BY <1>6, <1>8

\* Options with other ramdisks pack the same but for them.
LEMMA VendorPackedAgain ==
    ASSUME NEW a, VendorCommand(a), NEW o, VendorAgain(o, a), NEW q, OthersSame(o, q),
           a.header_version = 4 => q.vendor_ramdisk = None, IsSeq(q.fragments)
    PROVE  SamePacked(Packed(a), Packed(q), o, q, a.header_version)
<1>13. PICK x1, x2 : /\ x1 = Carried(a, a.dtb, {3, 4})
                     /\ x2 = IF a.header_version = 4 THEN Bytes(a.vendor_bootconfig) ELSE None
  OBVIOUS
<1>1. a.vendor = TRUE /\ a.header_version \in {3, 4} /\ OptFile(a.vendor_bootconfig)
  BY VendorFacts DEF VendorCommand, IsCommand, OptFile
<1>2. /\ o.vendor = TRUE /\ o.header_version = a.header_version /\ o.board = a.board
      /\ o.vendor_cmdline = a.vendor_cmdline /\ o.base + o.kernel_offset = a.base + a.kernel_offset
      /\ o.dtb = x1 /\ o.vendor_bootconfig = x2
      /\ o.vendor_ramdisk = IF a.header_version = 3 THEN Bytes(a.vendor_ramdisk) ELSE None
      /\ o.fragments = IF a.header_version = 4 THEN Fragments(a) ELSE << >>
  BY <1>13, Zenon DEF VendorAgain
<1>3. /\ q.vendor = o.vendor /\ q.header_version = o.header_version /\ q.board = o.board
      /\ q.vendor_cmdline = o.vendor_cmdline /\ q.base = o.base /\ q.kernel_offset = o.kernel_offset
      /\ q.dtb = o.dtb /\ q.vendor_bootconfig = o.vendor_bootconfig
  BY DEF OptionNames, OthersSame
<1>4. Packed(a) = PackedAs(TRUE, a.board, a.vendor_cmdline, a.base + a.kernel_offset,
                    VendorFiles(o.vendor_ramdisk, o.fragments, x1, x2))
  BY <1>1, <1>2, <1>13 DEF Packed, PackedAs, VendorFiles
<1>5. Carried(q, q.dtb, {3, 4}) = x1
  <2>1. PICK vs, d : vs = {3, 4} /\ d = a.dtb OBVIOUS
  <2>2. q.header_version = a.header_version /\ q.dtb = Carried(a, d, vs)
    BY <1>2, <1>3, <1>13, <2>1
  <2>3. Carried(q, Carried(a, d, vs), vs) = Carried(a, d, vs)
    BY <2>2, CarriedAgain
  <2> QED BY <1>13, <2>1, <2>2, <2>3
<1>6. (IF a.header_version = 4 THEN Bytes(q.vendor_bootconfig) ELSE None) = x2
  BY <1>1, <1>2, <1>3, <1>13, CarriedFile
<1>7. a.header_version = 4 => Fragments(q) = q.fragments
  <2>1. PICK g : g = q.fragments OBVIOUS
  <2>2. << >> \o g = g BY <2>1 DEF IsSeq
  <2> QED BY <2>1, <2>2 DEF Fragments
<1>8. q.vendor = TRUE /\ q.header_version = a.header_version
  BY <1>2, <1>3
<1>9. PICK l : l = q.base + q.kernel_offset /\ l = a.base + a.kernel_offset
  BY <1>2, <1>3
<1>10. Packed(q) = PackedAs(TRUE, q.board, q.vendor_cmdline, l,
                     VendorFiles(IF q.header_version = 3 THEN Bytes(q.vendor_ramdisk) ELSE None,
                       IF q.header_version = 4 THEN Fragments(q) ELSE << >>, Carried(q, q.dtb, {3, 4}),
                       IF q.header_version = 4 THEN Bytes(q.vendor_bootconfig) ELSE None))
  BY <1>8, <1>9 DEF Packed, PackedAs, VendorFiles
<1>11. (IF q.header_version = 4 THEN Fragments(q) ELSE << >>)
          = IF a.header_version = 4 THEN q.fragments ELSE << >>
  BY <1>7, <1>8
<1>12. Packed(q) = PackedAs(TRUE, a.board, a.vendor_cmdline, a.base + a.kernel_offset,
                     VendorFiles(IF a.header_version = 3 THEN Bytes(q.vendor_ramdisk) ELSE None,
                       IF a.header_version = 4 THEN q.fragments ELSE << >>, x1, x2))
  BY <1>2, <1>3, <1>5, <1>6, <1>8, <1>9, <1>10, <1>11
<1> QED BY <1>4, <1>12, Zenon DEF SamePacked

\* Other files in what was packed.
LEMMA FilesPatched ==
    \A x1, x2, x3, x4, f, g :
      [PackedAs(x1, x2, x3, x4, f) EXCEPT !.files = g] = PackedAs(x1, x2, x3, x4, g)
<1> TAKE x1, x2, x3, x4, f, g
<1>1. PICK w : w = PackedAs(x1, x2, x3, x4, f) OBVIOUS
<1>2. PICK z : z = [w EXCEPT !.files = g] OBVIOUS
<1>3. DOMAIN w = {"vendor", "board", "cmdline", "load", "files"}
  BY <1>1 DEF PackedAs
<1>4. DOMAIN z = DOMAIN w /\ z = [y \in DOMAIN z |-> z[y]]
  BY <1>2
<1>5. /\ z["vendor"] = w["vendor"] /\ z["board"] = w["board"] /\ z["cmdline"] = w["cmdline"]
      /\ z["load"] = w["load"] /\ z["files"] = g
  BY <1>2, <1>3
<1>6. w["vendor"] = x1 /\ w["board"] = x2 /\ w["cmdline"] = x3 /\ w["load"] = x4
  BY <1>1 DEF PackedAs
<1>7. z = [y \in {"vendor", "board", "cmdline", "load", "files"} |-> z[y]]
  BY <1>3, <1>4
<1>8. z = PackedAs(x1, x2, x3, x4, g)
  BY <1>5, <1>6, <1>7 DEF PackedAs
<1> QED BY <1>1, <1>2, <1>8

\* Other ramdisks among the files of a vendor_boot image.
LEMMA VendorFilesPatched ==
    \A x1, x2, x3, x4, new :
      /\ [VendorFiles(x1, x2, x3, x4) EXCEPT !.vendor_ramdisk = new] = VendorFiles(new, x2, x3, x4)
      /\ [VendorFiles(x1, x2, x3, x4) EXCEPT !.fragments = new] = VendorFiles(x1, new, x3, x4)
      /\ VendorFiles(x1, x2, x3, x4).fragments = x2
BY DEF VendorFiles

\* Another vendor ramdisk in what was packed.
LEMMA WholePatched ==
    ASSUME NEW x1, NEW x2, NEW x3, NEW x4, NEW r, NEW fs, NEW d, NEW b, NEW w,
           w = PackedAs(x1, x2, x3, x4, VendorFiles(r, fs, d, b)), NEW new
    PROVE  PatchedWhole(w, new) = PackedAs(x1, x2, x3, x4, VendorFiles(new, fs, d, b))
<1>1. PICK f : f = VendorFiles(r, fs, d, b) OBVIOUS
<1>2. w = PackedAs(x1, x2, x3, x4, f) /\ w.files = f
  BY <1>1 DEF PackedAs
<1>3. PICK g : g = [f EXCEPT !.vendor_ramdisk = new] OBVIOUS
<1>4. g = VendorFiles(new, fs, d, b)
  BY <1>1, <1>3, VendorFilesPatched
<1>5. PatchedWhole(w, new) = [w EXCEPT !.files = g]
  BY <1>2, <1>3 DEF PatchedWhole
<1>6. [w EXCEPT !.files = g] = PackedAs(x1, x2, x3, x4, g)
  BY <1>2, FilesPatched
<1> QED BY <1>4, <1>5, <1>6

\* Another first ramdisk in what was packed.
LEMMA FirstPatched ==
    ASSUME NEW x1, NEW x2, NEW x3, NEW x4, NEW r, NEW fs, NEW d, NEW b, NEW w,
           w = PackedAs(x1, x2, x3, x4, VendorFiles(r, fs, d, b)), NEW new
    PROVE  PatchedFirst(w, new) = PackedAs(x1, x2, x3, x4, VendorFiles(r, FirstWith(fs, new), d, b))
<1>1. PICK f : f = VendorFiles(r, fs, d, b) OBVIOUS
<1>2. w = PackedAs(x1, x2, x3, x4, f) /\ w.files = f
  BY <1>1 DEF PackedAs
<1>3. f.fragments = fs BY <1>1, VendorFilesPatched
<1>4. PICK h : h = FirstWith(fs, new) OBVIOUS
<1>5. PICK g : g = [f EXCEPT !.fragments = h] OBVIOUS
<1>6. g = VendorFiles(r, h, d, b)
  BY <1>1, <1>5, VendorFilesPatched
<1>7. PatchedFirst(w, new) = [w EXCEPT !.files = g]
  BY <1>2, <1>3, <1>4, <1>5 DEF PatchedFirst, FirstWith
<1>8. [w EXCEPT !.files = g] = PackedAs(x1, x2, x3, x4, g)
  BY <1>2, FilesPatched
<1> QED BY <1>4, <1>6, <1>7, <1>8

\* One more ramdisk in what was packed.
LEMMA LastPatched ==
    ASSUME NEW x1, NEW x2, NEW x3, NEW x4, NEW r, NEW fs, NEW d, NEW b, NEW w,
           w = PackedAs(x1, x2, x3, x4, VendorFiles(r, fs, d, b)), NEW x
    PROVE  PatchedLast(w, x) = PackedAs(x1, x2, x3, x4, VendorFiles(r, OneMore(fs, x), d, b))
<1>1. PICK f : f = VendorFiles(r, fs, d, b) OBVIOUS
<1>2. w = PackedAs(x1, x2, x3, x4, f) /\ w.files = f
  BY <1>1 DEF PackedAs
<1>3. f.fragments = fs BY <1>1, VendorFilesPatched
<1>4. PICK h : h = OneMore(fs, x) OBVIOUS
<1>5. PICK g : g = [f EXCEPT !.fragments = h] OBVIOUS
<1>6. g = VendorFiles(r, h, d, b)
  BY <1>1, <1>5, VendorFilesPatched
<1>7. PatchedLast(w, x) = [w EXCEPT !.files = g]
  BY <1>2, <1>3, <1>4, <1>5 DEF PatchedLast, OneMore
<1>8. [w EXCEPT !.files = g] = PackedAs(x1, x2, x3, x4, g)
  BY <1>2, FilesPatched
<1> QED BY <1>4, <1>6, <1>7, <1>8

\* A ramdisk of a table with another file.
LEMMA FragmentRenewed ==
    ASSUME NEW x, IsFragment(x), NEW new, IsFile(new), new # None
    PROVE  IsFragment([x EXCEPT !.file = new])
<1>1. PICK y : y = [x EXCEPT !.file = new] OBVIOUS
<1>2. x = [type |-> x.type, name |-> x.name, board_id |-> x.board_id, file |-> x.file] /\ IsText(x.name)
  BY DEF IsFragment
<1>3. y = [type |-> x.type, name |-> x.name, board_id |-> x.board_id, file |-> new]
  BY <1>1, <1>2
<1>4. y.type = x.type /\ y.name = x.name /\ y.board_id = x.board_id /\ y.file = new
  BY <1>3
<1> QED BY <1>1, <1>2, <1>3, <1>4 DEF IsFragment

\* A table with another first file.
LEMMA FirstRenewed ==
    ASSUME NEW fs, AllFragments(fs), NEW new, IsFile(new), new # None
    PROVE  AllFragments([fs EXCEPT ![1].file = new])
<1>1. PICK g, n : g = [fs EXCEPT ![1].file = new] /\ n = Len(fs) OBVIOUS
<1>2. n \in Nat /\ DOMAIN fs = 1 .. n
  BY <1>1 DEF AllFragments, IsSeq
<1>3. DOMAIN g = 1 .. n /\ g = [k \in 1 .. n |-> g[k]]
  BY <1>1, <1>2
<1>4. IsSeq(g) /\ Len(g) = n BY <1>2, <1>3, MapSeq
<1>5. ASSUME NEW k \in 1 .. n PROVE IsFragment(g[k])
  <2>1. IsFragment(fs[k]) BY <1>1 DEF AllFragments
  <2>2. CASE k = 1
    <3>1. g[k] = [fs[k] EXCEPT !.file = new]
      BY <1>1, <1>2, <2>2
    <3>2. PICK x : x = fs[k] OBVIOUS
    <3> QED BY <2>1, <3>1, <3>2, FragmentRenewed
  <2>3. CASE k # 1
    <3>1. g[k] = fs[k] BY <1>1, <1>2, <2>3
    <3> QED BY <2>1, <3>1
  <2> QED BY <2>2, <2>3
<1> QED BY <1>1, <1>4, <1>5 DEF AllFragments

\* A table with one more ramdisk.
LEMMA FragmentAdded ==
    ASSUME NEW fs, AllFragments(fs), NEW x, IsFragment(x)
    PROVE  AllFragments(Append(fs, x))
<1>1. PICK T : fs \in Seq(T) /\ Len(fs) \in Nat
  BY DEF AllFragments, IsSeq
<1>2. fs \in Seq(T \cup {x}) BY <1>1
<1>3. /\ Append(fs, x) \in Seq(T \cup {x}) /\ Len(Append(fs, x)) = Len(fs) + 1
      /\ Append(fs, x)[Len(fs) + 1] = x /\ \A k \in 1 .. Len(fs) : Append(fs, x)[k] = fs[k]
  BY <1>2
<1>4. ASSUME NEW k \in 1 .. Len(Append(fs, x)) PROVE IsFragment(Append(fs, x)[k])
  <2>1. k \in 1 .. Len(fs) \/ k = Len(fs) + 1
    BY <1>1, <1>3
  <2> QED BY <1>3, <2>1 DEF AllFragments
<1> QED BY <1>3, <1>4 DEF AllFragments, IsSeq

\* The ramdisk that a repack adds has a name without a NUL.
LEMMA NewFragmentOK ==
    ASSUME NEW y, y # NulChar, NEW new, IsFile(new), new # None
    PROVE  IsFragment(NewFragment(y, new))
<1>1. PICK t : t = <<"RAMDISK_", y>> OBVIOUS
<1>2. Len(t) = 2 /\ t[1] = "RAMDISK_" /\ t[2] = y /\ t \in Seq({"RAMDISK_", y}) /\ DOMAIN t = 1 .. 2
  BY <1>1
<1>3. NulChar # "RAMDISK_" BY DEF NulChar
<1>4. ToSet(t) = {"RAMDISK_", y} BY <1>2 DEF ToSet
<1>5. IsText(t) BY <1>2, <1>3, <1>4 DEF IsText
<1>6. PICK x : x = NewFragment(y, new) OBVIOUS
<1>7. x = [type |-> 1, name |-> t, board_id |-> 0, file |-> new]
  BY <1>1, <1>6 DEF NewFragment, NewName
<1>8. x.type = 1 /\ x.name = t /\ x.board_id = 0 /\ x.file = new
  BY <1>7
<1> QED BY <1>5, <1>6, <1>7, <1>8 DEF IsFragment
--------------------------------------------------
(* A repack of any image. *)

\* A command line with other vendor ramdisks.
LEMMA VendorChanged ==
    ASSUME NEW o, IsCommand(o), NEW q, OthersSame(o, q), OptFile(q.vendor_ramdisk),
           AllFragments(q.fragments)
    PROVE  IsCommand(q)
<1>1. "ramdisk" \in OptionNames BY DEF OptionNames
<1>2. q.ramdisk = o.ramdisk BY <1>1 DEF OthersSame
<1>3. OptFile(q.ramdisk) BY <1>2 DEF IsCommand, OptFile
<1>4. \A y \in OptionNames \ {"ramdisk", "vendor_ramdisk", "fragments"} : q[y] = o[y]
  BY DEF OthersSame
<1>5. IsSeq(q.fragments) /\ \A k \in 1 .. Len(q.fragments) : IsFragment(q.fragments[k])
  BY DEF AllFragments
<1> QED BY <1>3, <1>4, <1>5, CommandChanged

\* What a repack of a vendor_boot image makes.
LEMMA VendorRepacked ==
    ASSUME NEW a, VendorCommand(a), NEW u, u = Unpack(Mkbootimg(a)), NEW o, o = Options(u),
           NEW ty, ty = TypeOf(u), ty # 0, NEW new, IsFile(new), new # None,
           NEW y, y # NulChar, NEW x, x = NewFragment(y, new), NEW q, q = WithBy(o, ty, new, x)
    PROVE  IsCommand(q) /\ Packed(q) = PatchedBy(Packed(a), ty, new, x)
<1>1. /\ IsCommand(o) /\ VendorAgain(o, a) /\ OptionNames \subseteq DOMAIN o /\ u.vendor = TRUE
      /\ u.header.header_version = a.header_version /\ u.files.fragments = o.fragments
  BY VendorAgainCommand
<1>2. a.header_version \in {3, 4} BY VendorFacts
<1>3. "vendor_ramdisk" \in OptionNames /\ "fragments" \in OptionNames
  BY DEF OptionNames
<1>4. AllFragments(o.fragments) /\ OptFile(o.vendor_ramdisk)
  BY <1>1 DEF IsCommand, AllFragments, IsSeq, OptFile
<1>5. /\ o.vendor_ramdisk = IF a.header_version = 3 THEN Bytes(a.vendor_ramdisk) ELSE None
      /\ o.fragments = IF a.header_version = 4 THEN Fragments(a) ELSE << >>
  BY <1>1, Zenon DEF VendorAgain
<1>8. PICK w, r, fs : w = Packed(a) /\ r = o.vendor_ramdisk /\ fs = o.fragments OBVIOUS
<1> HIDE DEF OptionNames
<1>6. CASE a.header_version = 3
  <2>1. ty = 2
    <3>1. u.vendor /\ u.header.header_version = 3
      BY <1>1, <1>6
    <3>2. TypeOf(u) = VENDOR_BOOT_IMAGE
      BY <3>1, Zenon DEF TypeOf
    <3> QED BY <3>2 DEF VENDOR_BOOT_IMAGE
  <2>2. q = [o EXCEPT !.vendor_ramdisk = new]
    BY <2>1 DEF WithBy, BOOT_IMAGE, VENDOR_BOOT_IMAGE, SINGLE_RAMDISK_FRAGMENT,
       MULTIPLE_RAMDISK_FRAGMENTS
  <2>3. OthersSame(o, q) /\ q.vendor_ramdisk = new /\ q.fragments = o.fragments
    BY <1>1, <1>3, <2>2 DEF OthersSame
  <2>4. OptFile(q.vendor_ramdisk) /\ AllFragments(q.fragments) /\ Bytes(q.vendor_ramdisk) = new
    BY <1>4, <2>3 DEF OptFile, Bytes
  <2>5. IsCommand(q) BY <1>1, <2>3, <2>4, VendorChanged
  <2>6. SamePacked(w, Packed(q), o, q, a.header_version)
    <3>1. IsSeq(q.fragments) /\ (a.header_version = 4 => q.vendor_ramdisk = None)
      BY <1>6, <2>4 DEF AllFragments
    <3> QED BY <1>1, <1>8, <2>3, <3>1, VendorPackedAgain
  <2>7. PICK x1, x2, x3, x4, x5, x6 :
          /\ w = PackedAs(x1, x2, x3, x4, VendorFiles(r, fs, x5, x6))
          /\ Packed(q) = PackedAs(x1, x2, x3, x4,
               VendorFiles(IF a.header_version = 3 THEN Bytes(q.vendor_ramdisk) ELSE None,
                 IF a.header_version = 4 THEN q.fragments ELSE << >>, x5, x6))
    BY <1>8, <2>6, Zenon DEF SamePacked
  <2>70. w = PackedAs(x1, x2, x3, x4, VendorFiles(r, fs, x5, x6))
    BY <2>7
  <2>8. fs = << >> /\ a.header_version # 4
    BY <1>5, <1>6, <1>8
  <2>9. Packed(q) = PackedAs(x1, x2, x3, x4, VendorFiles(new, fs, x5, x6))
    BY <1>6, <2>4, <2>7, <2>8
  <2>10. PatchedWhole(w, new) = PackedAs(x1, x2, x3, x4, VendorFiles(new, fs, x5, x6))
    BY <2>70, WholePatched
  <2>11. PatchedBy(w, ty, new, x) = PatchedWhole(w, new)
    BY <2>1 DEF PatchedBy, BOOT_IMAGE, VENDOR_BOOT_IMAGE, SINGLE_RAMDISK_FRAGMENT,
       MULTIPLE_RAMDISK_FRAGMENTS
  <2> QED BY <1>8, <2>5, <2>9, <2>10, <2>11
<1>7. CASE a.header_version = 4
  <2>1. ty \in {3, 4} /\ a.header_version # 3
    BY <1>1, <1>7 DEF TypeOf, BOOT_IMAGE, VENDOR_BOOT_IMAGE, SINGLE_RAMDISK_FRAGMENT,
       MULTIPLE_RAMDISK_FRAGMENTS
  <2>2. PICK g : g = IF ty = 3 THEN [fs EXCEPT ![1].file = new] ELSE Append(fs, x) OBVIOUS
  <2>3. q = [o EXCEPT !.fragments = g]
    <3>1. CASE ty = 3
      <4>1. q = [o EXCEPT !.fragments[1].file = new]
        BY <3>1 DEF WithBy, BOOT_IMAGE, VENDOR_BOOT_IMAGE, SINGLE_RAMDISK_FRAGMENT,
           MULTIPLE_RAMDISK_FRAGMENTS
      <4> QED BY <1>8, <2>2, <3>1, <4>1
    <3>2. CASE ty = 4
      <4>1. q = [o EXCEPT !.fragments = Append(@, x)]
        BY <3>2 DEF WithBy, BOOT_IMAGE, VENDOR_BOOT_IMAGE, SINGLE_RAMDISK_FRAGMENT,
           MULTIPLE_RAMDISK_FRAGMENTS
      <4> QED BY <1>8, <2>2, <3>2, <4>1
    <3> QED BY <2>1, <3>1, <3>2
  <2>4. OthersSame(o, q) /\ q.vendor_ramdisk = r /\ q.fragments = g
    BY <1>1, <1>3, <1>8, <2>3 DEF OthersSame
  <2>5. AllFragments(g)
    <3>1. AllFragments([fs EXCEPT ![1].file = new])
      BY <1>4, <1>8, FirstRenewed
    <3>2. IsFragment(x) BY NewFragmentOK
    <3>3. AllFragments(Append(fs, x))
      BY <1>4, <1>8, <3>2, FragmentAdded
    <3> QED BY <2>2, <3>1, <3>3
  <2>6. r = None BY <1>5, <1>7, <1>8
  <2>7. IsCommand(q)
    BY <1>1, <1>4, <1>8, <2>4, <2>5, VendorChanged
  <2>8. SamePacked(w, Packed(q), o, q, a.header_version)
    <3>1. IsSeq(q.fragments) /\ q.vendor_ramdisk = None
      BY <2>4, <2>5, <2>6 DEF AllFragments
    <3> QED BY <1>1, <1>8, <2>4, <3>1, VendorPackedAgain
  <2>9. PICK x1, x2, x3, x4, x5, x6 :
          /\ w = PackedAs(x1, x2, x3, x4, VendorFiles(r, fs, x5, x6))
          /\ Packed(q) = PackedAs(x1, x2, x3, x4,
               VendorFiles(IF a.header_version = 3 THEN Bytes(q.vendor_ramdisk) ELSE None,
                 IF a.header_version = 4 THEN q.fragments ELSE << >>, x5, x6))
    BY <1>8, <2>8, Zenon DEF SamePacked
  <2>90. w = PackedAs(x1, x2, x3, x4, VendorFiles(r, fs, x5, x6))
    BY <2>9
  <2>10. Packed(q) = PackedAs(x1, x2, x3, x4, VendorFiles(r, g, x5, x6))
    BY <1>7, <2>1, <2>4, <2>6, <2>9
  <2>11. CASE ty = 3
    <3>1. PatchedBy(w, ty, new, x) = PatchedFirst(w, new)
      BY <2>11 DEF PatchedBy, BOOT_IMAGE, VENDOR_BOOT_IMAGE, SINGLE_RAMDISK_FRAGMENT,
         MULTIPLE_RAMDISK_FRAGMENTS
    <3>3. g = [fs EXCEPT ![1].file = new] BY <2>2, <2>11
    <3>2. PatchedFirst(w, new) = PackedAs(x1, x2, x3, x4, VendorFiles(r, FirstWith(fs, new), x5, x6))
      BY <2>90, FirstPatched
    <3>4. FirstWith(fs, new) = g BY <3>3 DEF FirstWith
    <3> QED BY <1>8, <2>7, <2>10, <3>1, <3>2, <3>4
  <2>12. CASE ty = 4
    <3>1. PatchedBy(w, ty, new, x) = PatchedLast(w, x)
      BY <2>12 DEF PatchedBy, BOOT_IMAGE, VENDOR_BOOT_IMAGE, SINGLE_RAMDISK_FRAGMENT,
         MULTIPLE_RAMDISK_FRAGMENTS
    <3>3. g = Append(fs, x) BY <2>2, <2>12
    <3>2. PatchedLast(w, x) = PackedAs(x1, x2, x3, x4, VendorFiles(r, OneMore(fs, x), x5, x6))
      BY <2>90, LastPatched
    <3>4. OneMore(fs, x) = g BY <3>3 DEF OneMore
    <3> QED BY <1>8, <2>7, <2>10, <3>1, <3>2, <3>4
  <2> QED BY <2>1, <2>11, <2>12
<1> QED BY <1>2, <1>6, <1>7
--------------------------------------------------
(* The states of the repack program. *)

\* A command that is neither wrong, nor refused, nor with a signature that is too long.
LEMMA AcceptedCommand ==
    ASSUME NEW a, IsCommand(a), ~ UsageError(a), ~ Refused(a), ~ TooLong(a)
    PROVE  Accepted(a)
<1>1. a.vendor \in BOOLEAN BY Zenon DEF IsCommand
<1>2. CASE a.vendor = TRUE
  BY <1>2, Zenon DEF Accepted, VendorCommand
<1>3. CASE a.vendor = FALSE
  BY <1>3, Zenon DEF Accepted, BootCommand
<1> QED BY <1>1, <1>2, <1>3

\* unpack_bootimg reads what any command has packed.
LEMMA AnyReadBack == ASSUME NEW a, Accepted(a) PROVE Read(Mkbootimg(a)) = Packed(a)
BY BootReadBack, VendorReadBack DEF Accepted

\* A ramdisk that is packed is a file.
LEMMA ArchiveFile ==
    ASSUME NEW kind, NEW files, files \subseteq Files
    PROVE  IsFile(Archive(kind, files))
<1>1. IsFiniteSet(Files) BY RepackBootAssumption
<1>2. IsFiniteSet(files) BY <1>1, FS_Subset
<1>3. Cardinality(files) \in Nat
  BY <1>2, FS_CardinalityType
<1>4. PICK n : n = 1 + Cardinality(files) /\ n \in Nat
  BY <1>3
<1>5. PICK f : f = Archive(kind, files) OBVIOUS
<1>6. f = [j \in 1 .. n |-> [content |-> Content(kind, files), i |-> j]]
  BY <1>4, <1>5 DEF Archive, Cells
<1>7. IsSeq(f) /\ Len(f) = n BY <1>4, <1>6, MapSeq
<1>8. ASSUME NEW k \in 1 .. Len(f) PROVE IsCell(f[k])
  <2>1. PICK x : x = Content(kind, files) OBVIOUS
  <2>2. x.files = files BY <2>1 DEF Content
  <2>3. k \in 1 .. n /\ k \in Nat BY <1>7
  <2>4. f[k] = [content |-> x, i |-> k]
    BY <1>6, <2>1, <2>3
  <2>5. f[k].content = x /\ f[k].i = k /\ DOMAIN f[k] = {"content", "i"}
    BY <2>4
  <2> QED BY <2>2, <2>3, <2>5 DEF IsCell
<1>9. f \in Seq(ToSet(f)) BY <1>7, SeqSet
<1> QED BY <1>5, <1>8, <1>9 DEF IsFile

\* The type of an image that mkbootimg has made: a boot image has one ramdisk.
LEMMA BootType ==
    ASSUME NEW a, BootCommand(a), NEW u, u = Unpack(Mkbootimg(a))
    PROVE  TypeOf(u) = 1 /\ u.files = Packed(a).files
<1>1. u = [vendor |-> FALSE, header |-> BootHeader(a), files |-> Packed(a).files]
  BY UnpackedBoot
<1>2. u.vendor = FALSE /\ u.files = Packed(a).files
  BY <1>1
<1> QED BY <1>2 DEF TypeOf, BOOT_IMAGE

\* The ramdisk that a repack unpacks is one of a command line, so it holds files.
LEMMA RamdiskRead ==
    ASSUME NEW a, Accepted(a), NEW u, u = Unpack(Mkbootimg(a)), TypeOf(u) # 0,
           NEW f, f = RamdiskOf(u), IsArchive(f)
    PROVE  /\ f[1].content.kind \in {"lz4", "gzip"} /\ f[1].content.files \subseteq Files
           /\ f[1].content = Content(f[1].content.kind, f[1].content.files)
<1>1. f # << >> /\ "kind" \in DOMAIN f[1].content /\ f[1].content.kind \in {"lz4", "gzip"}
  BY Zenon DEF IsArchive
<1>2. IsFile(f)
  <2>1. CASE BootCommand(a)
    <3>1. f = u.files.ramdisk /\ u.files = Packed(a).files
      <4>1. TypeOf(u) = 1 /\ u.files = Packed(a).files
        BY <2>1, BootType
      <4> QED BY <4>1 DEF RamdiskOf, BOOT_IMAGE, VENDOR_BOOT_IMAGE, SINGLE_RAMDISK_FRAGMENT
    <3>2. Packed(a).files.ramdisk = Bytes(a.ramdisk)
      BY <2>1 DEF BootCommand, Packed
    <3>3. OptFile(a.ramdisk)
      BY <2>1 DEF BootCommand, IsCommand, OptFile
    <3>4. IsFile(f)
      BY <3>1, <3>2, <3>3, NoText DEF Bytes, OptFile
    <3> QED BY <3>4
  <2>2. CASE VendorCommand(a)
    <3>1. PICK o : o = Options(u) OBVIOUS
    <3>2. /\ IsCommand(o) /\ VendorAgain(o, a) /\ u.vendor = TRUE
          /\ u.header.header_version = a.header_version
          /\ u.files = Packed(a).files /\ u.files.fragments = o.fragments
      BY <2>2, <3>1, VendorAgainCommand
    <3>3. IsFile(f)
      <4>1. CASE TypeOf(u) = 2
        <5>1. f = u.files.vendor_ramdisk
          BY <4>1 DEF RamdiskOf, BOOT_IMAGE, VENDOR_BOOT_IMAGE, SINGLE_RAMDISK_FRAGMENT
        <5>2. a.header_version = 3
          BY <3>2, <4>1 DEF TypeOf, BOOT_IMAGE, VENDOR_BOOT_IMAGE, SINGLE_RAMDISK_FRAGMENT,
             MULTIPLE_RAMDISK_FRAGMENTS
        <5>3. Packed(a).files.vendor_ramdisk = Bytes(a.vendor_ramdisk)
          BY <2>2, <5>2 DEF VendorCommand, Packed
        <5>4. OptFile(a.vendor_ramdisk)
          BY <2>2 DEF VendorCommand, IsCommand, OptFile
        <5> QED BY <3>2, <5>1, <5>3, <5>4, NoText DEF Bytes, OptFile
      <4>2. CASE TypeOf(u) = 3
        <5>1. f = u.files.fragments[1].file
          BY <4>2 DEF RamdiskOf, BOOT_IMAGE, VENDOR_BOOT_IMAGE, SINGLE_RAMDISK_FRAGMENT
        <5>2. Len(u.files.fragments) = 1
          BY <3>2, <4>2 DEF TypeOf, BOOT_IMAGE, VENDOR_BOOT_IMAGE, SINGLE_RAMDISK_FRAGMENT,
             MULTIPLE_RAMDISK_FRAGMENTS
        <5>3. IsFragment(o.fragments[1])
          BY <3>2, <5>2 DEF IsCommand
        <5> QED BY <3>2, <5>1, <5>3, Zenon DEF IsFragment
      <4>3. CASE TypeOf(u) \notin {1, 2, 3}
        <5>1. f = Archive("lz4", {})
          BY <4>3 DEF RamdiskOf, BOOT_IMAGE, VENDOR_BOOT_IMAGE, SINGLE_RAMDISK_FRAGMENT
        <5> QED BY <5>1, ArchiveFile
      <4>4. TypeOf(u) # 1
        BY <3>2 DEF TypeOf, BOOT_IMAGE, VENDOR_BOOT_IMAGE, SINGLE_RAMDISK_FRAGMENT,
           MULTIPLE_RAMDISK_FRAGMENTS
      <4> QED BY <4>1, <4>2, <4>3, <4>4
    <3> QED BY <3>3
  <2> QED BY <2>1, <2>2 DEF Accepted
<1>3. f \in Seq(ToSet(f)) /\ \A k \in 1 .. Len(f) : IsCell(f[k])
  BY <1>2, Zenon DEF IsFile
<1>4. 1 \in 1 .. Len(f) BY <1>1, <1>3
<1>5. IsCell(f[1]) BY <1>3, <1>4
<1>6. f[1].content.files \subseteq Files
  BY <1>1, <1>5, Zenon DEF IsCell
<1>7. f[1].content = Content(f[1].content.kind, f[1].content.files)
  <2>1. PICK k, fs : k = f[1].content.kind /\ fs = f[1].content.files OBVIOUS
  <2>2. f = Archive(k, fs) BY <2>1, Zenon DEF IsArchive
  <2>3. IsFiniteSet(Files) BY RepackBootAssumption
  <2>4. IsFiniteSet(fs) BY <1>6, <2>1, <2>3, FS_Subset
  <2>5. Cardinality(fs) \in Nat
    BY <2>4, FS_CardinalityType
  <2>6. PICK n : n = 1 + Cardinality(fs) /\ n \in Nat \ {0}
    BY <2>5
  <2>7. f = [j \in 1 .. n |-> [content |-> Content(k, fs), i |-> j]]
    BY <2>2, <2>6, Zenon DEF Archive, Cells
  <2>8. f[1] = [content |-> Content(k, fs), i |-> 1]
    BY <2>6, <2>7
  <2> QED BY <2>1, <2>8
<1> QED BY <1>1, <1>6, <1>7

\* What a repack of any image makes.
LEMMA AnyRepacked ==
    ASSUME NEW a, Accepted(a), NEW u, u = Unpack(Mkbootimg(a)), NEW o, o = Options(u),
           NEW ty, ty = TypeOf(u), ty # 0, NEW new, IsFile(new), new # None,
           NEW y, y # NulChar, NEW x, x = NewFragment(y, new), NEW q, q = WithBy(o, ty, new, x)
    PROVE  IsCommand(q) /\ Packed(q) = PatchedBy(Packed(a), ty, new, x)
<1>1. CASE BootCommand(a)
  <2>1. ty = BOOT_IMAGE BY <1>1, BootType DEF BOOT_IMAGE
  <2>2. q = [o EXCEPT !.ramdisk = new]
    BY <2>1 DEF WithBy, BOOT_IMAGE, VENDOR_BOOT_IMAGE, SINGLE_RAMDISK_FRAGMENT,
       MULTIPLE_RAMDISK_FRAGMENTS
  <2>3. PatchedBy(Packed(a), ty, new, x) = RenewedIn(Packed(a), new)
    BY <2>1 DEF PatchedBy, BOOT_IMAGE, VENDOR_BOOT_IMAGE, SINGLE_RAMDISK_FRAGMENT,
       MULTIPLE_RAMDISK_FRAGMENTS
  <2>4. o = Options(Unpack(Mkbootimg(a))) OBVIOUS
  <2>5. IsCommand(q) /\ Packed(q) = RenewedIn(Packed(a), new)
    BY <1>1, <2>2, <2>4, BootRepacked
  <2> QED BY <2>3, <2>5
<1>2. CASE VendorCommand(a) BY <1>2, VendorRepacked
<1> QED BY <1>1, <1>2 DEF Accepted

\* WithRamdisk, with the new ramdisk named.
LEMMA SameChange ==
    ASSUME NEW o, NEW ty, NEW new
    PROVE  WithRamdisk(o, ty, new) = WithBy(o, ty, new, NewFragment(Seconds[clock], new))
BY Zenon DEF WithRamdisk, WithBy, NewFragment

\* Patched, with the new ramdisk named.
LEMMA SamePatch ==
    ASSUME NEW w
    PROVE  Patched(w) = PatchedBy(w, job.type, NewRamdisk(job), AddedBy(job, clock))
BY Zenon DEF Patched, PatchedBy, NewRamdisk, AddedBy, NewFragment, NewName, RenewedIn,
   PatchedWhole, PatchedFirst, PatchedLast

\* The fields of no job.
LEMMA NoJobFields ==
    DOMAIN NoJob = {"options", "type", "ramdisk", "adds", "before"} /\ NoJob.type = 0
BY DEF NoJob

\* At first there is no image.
LEMMA RepackInit == Init => RepackInv
<1> SUFFICES ASSUME Init PROVE RepackInv OBVIOUS
<1>1. Len(Seconds) \in Nat \ {0} BY RepackBootAssumption
<1>2. want = None /\ pc = "idle" /\ clock = 1
  BY DEF Init
<1>3. ImageInv /\ PackInv /\ OpenInv /\ WriteInv
  BY <1>2, Zenon DEF ImageInv, PackInv, OpenInv, WriteInv
<1>4. clock \in 1 .. Len(Seconds) BY <1>1, <1>2
<1>5. JobInv BY NoJobFields DEF Init, JobInv
<1> QED BY <1>3, <1>4, <1>5 DEF RepackInv

\* The command ends, or fails, and the image is the same or promises nothing.
LEMMA RepackEnds ==
    ASSUME RepackInv, pc' = "idle", clock' = clock, job' = NoJob,
           want' = None \/ (want' = want /\ image' = image)
    PROVE  RepackInv'
<1>1. ImageInv' BY Zenon DEF RepackInv, ImageInv
<1>2. PackInv' /\ OpenInv' /\ WriteInv'
  BY DEF PackInv, OpenInv, WriteInv
<1>3. JobInv' BY NoJobFields DEF JobInv
<1> QED BY <1>1, <1>2, <1>3 DEF RepackInv

\* A program of the chain fails before the image is opened.
LEMMA RepackFails == ASSUME RepackInv, Fail PROVE RepackInv'
BY RepackEnds DEF Fail, End

\* mkbootimg is run on a command line.
LEMMA MakeKeeps == ASSUME RepackInv, Make PROVE RepackInv'
<1>1. PICK a \in Commands :
        IF UsageError(a) THEN Fail
        ELSE pc' = "open" /\ job' = [NoJob EXCEPT !.options = a] /\ UNCHANGED <<image, want, clock>>
  BY Zenon DEF Make
<1>2. CASE UsageError(a) BY <1>1, <1>2, RepackFails
<1>3. CASE ~ UsageError(a)
  <2>1. pc' = "open" /\ job' = [NoJob EXCEPT !.options = a]
        /\ image' = image /\ want' = want /\ clock' = clock
    BY <1>1, <1>3
  <2>2. job'.options = a /\ job'.type = 0 /\ JobInv'
    BY <2>1, NoJobFields DEF JobInv
  <2>3. IsCommand(a) BY <1>1, RepackBootAssumption
  <2>4. OpenInv' BY <2>2, <2>3, Zenon DEF OpenInv
  <2>5. PackInv' /\ WriteInv'
    BY <2>1 DEF PackInv, WriteInv
  <2>6. ImageInv' BY <2>1, Zenon DEF RepackInv, ImageInv
  <2> QED BY <2>1, <2>2, <2>4, <2>5, <2>6 DEF RepackInv
<1> QED BY <1>2, <1>3

\* mkbootimg opens the image, which empties it.
LEMMA OpenKeeps == ASSUME RepackInv, Open PROVE RepackInv'
<1>1. CASE UsageError(job.options)
  BY <1>1, RepackFails DEF Open
<1>2. CASE ~ UsageError(job.options)
  <2>1. pc = "open" /\ pc' = "write" /\ want' = None /\ job' = job /\ clock' = clock
    BY <1>2 DEF Open
  <2>2. ImageInv' /\ WriteInv' /\ PackInv'
    BY <1>2, <2>1, Zenon DEF ImageInv, WriteInv, PackInv
  <2>3. OpenInv' BY <2>1, Zenon DEF RepackInv, OpenInv
  <2>4. JobInv' BY <2>1, Zenon DEF RepackInv, JobInv
  <2> QED BY <2>1, <2>2, <2>3, <2>4 DEF RepackInv
<1> QED BY <1>1, <1>2

\* mkbootimg writes the image that its options make, or stops.
LEMMA WriteKeeps == ASSUME RepackInv, Write PROVE RepackInv'
<1>1. /\ pc = "write" /\ pc' = "idle" /\ clock' = clock /\ job' = NoJob
      /\ want = None /\ ~ UsageError(job.options)
  BY DEF Write, End, RepackInv, WriteInv
<1>2. CASE Refused(job.options)
  <2>1. want' = None BY <1>1, <1>2 DEF Write
  <2> QED BY <1>1, <2>1, RepackEnds
<1>3. CASE ~ Refused(job.options) /\ TooLong(job.options)
  <2>1. want' = None BY <1>3 DEF Write
  <2> QED BY <1>1, <2>1, RepackEnds
<1>4. CASE ~ Refused(job.options) /\ ~ TooLong(job.options)
  <2>1. /\ image' = Mkbootimg(job.options)
        /\ want' = IF job.type = 0 THEN Packed(job.options)
                   ELSE IF job.before = None THEN None ELSE Patched(job.before)
    BY <1>4 DEF Write
  <2>2. CASE want' = None BY <1>1, <2>2, RepackEnds
  <2>3. CASE want' # None
    <3>1. IsCommand(job.options) /\ want' = Packed(job.options)
      <4>1. CASE job.type = 0
        BY <1>1, <2>1, <4>1 DEF RepackInv, OpenInv
      <4>2. CASE job.type # 0
        <5>1. job.before # None /\ want' = Patched(job.before)
          BY <2>1, <2>3, <4>2
        <5>2. Promised(job, clock)
          BY <1>1, <4>2, <5>1 DEF RepackInv, OpenInv
        <5> QED BY <5>1, <5>2, SamePatch DEF Promised
      <4> QED BY <4>1, <4>2
    <3>2. Accepted(job.options)
      BY <1>1, <1>4, <3>1, AcceptedCommand
    <3>3. ImageInv'
      BY <2>1, <3>1, <3>2, Zenon DEF ImageInv
    <3>4. PackInv' /\ OpenInv' /\ WriteInv'
      BY <1>1 DEF PackInv, OpenInv, WriteInv
    <3>5. JobInv' BY <1>1, NoJobFields DEF JobInv
    <3> QED BY <1>1, <3>3, <3>4, <3>5 DEF RepackInv
  <2> QED BY <2>2, <2>3
<1> QED BY <1>2, <1>3, <1>4

\* repack_bootimg takes the options that are printed for the image.
LEMMA RepackKeeps ==
    ASSUME RepackInv, NEW adds \in SUBSET Files \ {{}}, Repack(adds)
    PROVE  RepackInv'
<1>1. PICK u : u = Unpack(image) OBVIOUS
<1>2. CASE TypeOf(u) = 0 \/ ~ IsArchive(RamdiskOf(u))
  BY <1>1, <1>2, RepackFails DEF Repack
<1>3. CASE TypeOf(u) # 0 /\ IsArchive(RamdiskOf(u))
  <2>1. /\ pc' = "add"
        /\ job' = [options |-> Options(u), type |-> TypeOf(u), adds |-> adds,
                   ramdisk |-> RamdiskOf(u)[1].content, before |-> want]
        /\ image' = image /\ want' = want /\ clock' = clock
    BY <1>1, <1>3 DEF Repack
  <2>2. job'.options = Options(u) /\ job'.type = TypeOf(u) /\ job'.before = want
        /\ job'.ramdisk = RamdiskOf(u)[1].content
    BY <2>1
  <2>3. ASSUME want # None PROVE PrintedFor(job)' /\ CanPack(job)'
    <3>1. PICK a : Accepted(a) /\ image = Mkbootimg(a) /\ want = Packed(a)
      BY <2>3, Zenon DEF RepackInv, ImageInv
    <3>2. u = Unpack(Mkbootimg(a)) BY <1>1, <3>1
    <3>3. PrintedFor(job)'
      BY <2>2, <3>1, <3>2, Zenon DEF PrintedFor
    <3>4. PICK f : f = RamdiskOf(u) OBVIOUS
    <3>5. /\ f[1].content.kind \in {"lz4", "gzip"} /\ f[1].content.files \subseteq Files
          /\ f[1].content = Content(f[1].content.kind, f[1].content.files)
      BY <1>3, <3>1, <3>2, <3>4, RamdiskRead
    <3>6. CanPack(job)' BY <2>2, <3>4, <3>5 DEF CanPack
    <3> QED BY <3>3, <3>6
  <2>4. PackInv' BY <1>3, <2>2, <2>3, Zenon DEF PackInv
  <2>5. OpenInv' /\ WriteInv'
    BY <2>1 DEF OpenInv, WriteInv
  <2>6. ImageInv' BY <2>1, Zenon DEF RepackInv, ImageInv
  <2>7. JobInv' BY <2>1 DEF JobInv
  <2> QED BY <2>1, <2>4, <2>5, <2>6, <2>7 DEF RepackInv
<1> QED BY <1>2, <1>3

\* Files are copied into the ramdisk.
LEMMA AddFilesKeeps == ASSUME RepackInv, AddFiles PROVE RepackInv'
<1>1. CASE ~ (job.adds \subseteq Present)
  BY <1>1, RepackFails DEF AddFiles
<1>2. CASE job.adds \subseteq Present
  <2>1. /\ pc = "add" /\ pc' = "pack" /\ job' = [job EXCEPT !.ramdisk.files = @ \cup job.adds]
        /\ image' = image /\ want' = want /\ clock' = clock
    BY <1>2 DEF AddFiles
  <2>2. PackInv'
    <3>1. job.type # 0 /\ (job.before # None => PrintedFor(job) /\ CanPack(job))
      BY <2>1 DEF RepackInv, PackInv
    <3>2. job'.options = job.options /\ job'.type = job.type /\ job'.before = job.before
      BY <2>1 DEF RepackInv, JobInv
    <3>3. ASSUME job.before # None PROVE PrintedFor(job)' /\ CanPack(job)'
      <4>1. PrintedFor(job)'
        BY <3>1, <3>2, <3>3, Zenon DEF PrintedFor
      <4>2. Present \subseteq Files
        BY RepackBootAssumption
      <4>3. PICK r, fs : r = job.ramdisk /\ fs = job.ramdisk.files \cup job.adds OBVIOUS
      <4>4. job'.ramdisk = [r EXCEPT !.files = fs]
        BY <2>1, <4>3 DEF RepackInv, JobInv
      <4>5. r.kind \in {"lz4", "gzip"} /\ fs \subseteq Files /\ r = Content(r.kind, r.files)
        BY <1>2, <3>1, <3>3, <4>2, <4>3 DEF CanPack
      <4>6. [r EXCEPT !.files = fs] = Content(r.kind, fs)
        BY <4>5 DEF Content
      <4>7. job'.ramdisk = Content(r.kind, fs)
        BY <4>4, <4>6
      <4>8. job'.ramdisk.kind = r.kind /\ job'.ramdisk.files = fs
        BY <4>7 DEF Content
      <4> QED BY <4>1, <4>5, <4>7, <4>8 DEF CanPack
    <3> QED BY <3>1, <3>2, <3>3, Zenon DEF PackInv
  <2>3. OpenInv' /\ WriteInv'
    BY <2>1 DEF OpenInv, WriteInv
  <2>4. ImageInv' BY <2>1, Zenon DEF RepackInv, ImageInv
  <2>5. JobInv' BY <2>1 DEF RepackInv, JobInv
  <2> QED BY <2>1, <2>2, <2>3, <2>4, <2>5 DEF RepackInv
<1> QED BY <1>1, <1>2

\* The new ramdisk takes its place among the options.
LEMMA PackRamdiskKeeps == ASSUME RepackInv, PackRamdisk PROVE RepackInv'
<1>1. /\ pc = "pack" /\ pc' = "open" /\ image' = image /\ want' = want /\ clock' = clock
      /\ job' = [job EXCEPT !.options = WithRamdisk(@, job.type, NewRamdisk(job))]
  BY Zenon DEF PackRamdisk, NewRamdisk
<1>2. job.type # 0 /\ (job.before # None => PrintedFor(job) /\ CanPack(job))
  BY <1>1 DEF RepackInv, PackInv
<1>3. job'.type = job.type /\ job'.before = job.before /\ job'.ramdisk = job.ramdisk
  BY <1>1 DEF RepackInv, JobInv
<1>4. OpenInv'
  <2>1. SUFFICES ASSUME job.before # None PROVE Promised(job, clock)'
    BY <1>2, <1>3, Zenon DEF OpenInv
  <2>2. PICK a : /\ Accepted(a) /\ job.before = Packed(a)
                 /\ job.options = Options(Unpack(Mkbootimg(a)))
                 /\ job.type = TypeOf(Unpack(Mkbootimg(a)))
    BY <1>2, <2>1, Zenon DEF PrintedFor
  <2>3. PICK u, o, ty : u = Unpack(Mkbootimg(a)) /\ o = Options(u) /\ ty = TypeOf(u) OBVIOUS
  <2>4. PICK new : new = NewRamdisk(job) OBVIOUS
  <2>5. PICK y : y = Seconds[clock] OBVIOUS
  <2>6. IsFile(new) /\ new # None
    <3>1. CanPack(job) BY <1>2, <2>1
    <3>2. \A kind \in {"lz4", "gzip"}, files \in SUBSET Files : Archive(kind, files) # None
      BY RepackBootAssumption
    <3>3. new # None
      BY <2>4, <3>1, <3>2 DEF CanPack, NewRamdisk
    <3>4. IsFile(new)
      BY <2>4, <3>1, ArchiveFile DEF CanPack, NewRamdisk
    <3> QED BY <3>3, <3>4
  <2>7. y # NulChar
    BY <2>5, RepackBootAssumption DEF RepackInv
  <2>8. PICK x : x = NewFragment(y, new) OBVIOUS
  <2>9. PICK q : q = WithBy(o, ty, new, x) OBVIOUS
  <2>10. IsCommand(q) /\ Packed(q) = PatchedBy(Packed(a), ty, new, x)
    BY <1>2, <2>2, <2>3, <2>6, <2>7, <2>8, <2>9, AnyRepacked
  <2>11. job'.options = q
    <3>1. WithRamdisk(job.options, job.type, new) = q
      BY <2>2, <2>3, <2>5, <2>8, <2>9, SameChange
    <3>2. "options" \in DOMAIN job
      BY DEF RepackInv, JobInv
    <3> QED BY <1>1, <2>4, <3>1, <3>2
  <2>12. NewRamdisk(job)' = new
    BY <1>3, <2>4 DEF NewRamdisk
  <2>13. AddedBy(job, clock)' = x
    BY <1>1, <2>5, <2>8, <2>12 DEF AddedBy
  <2> QED BY <1>3, <2>2, <2>3, <2>10, <2>11, <2>12, <2>13 DEF Promised
<1>5. ImageInv' /\ PackInv' /\ WriteInv'
  BY <1>1, Zenon DEF RepackInv, ImageInv, PackInv, WriteInv
<1>6. JobInv' BY <1>1 DEF RepackInv, JobInv
<1> QED BY <1>1, <1>4, <1>5, <1>6 DEF RepackInv

\* A program of the chain is killed.
LEMMA DieKeeps == ASSUME RepackInv, Die PROVE RepackInv'
<1>1. CASE Fail BY <1>1, RepackFails
<1>2. CASE pc = "write" /\ End /\ want' = want
  <2>1. want' = None BY <1>2 DEF RepackInv, WriteInv
  <2> QED BY <1>2, <2>1, RepackEnds DEF End
<1> QED BY <1>1, <1>2, Zenon DEF Die

\* The clock.
LEMMA TickKeeps == ASSUME RepackInv, Tick PROVE RepackInv'
<1>1. pc' = "idle" /\ want' = want /\ image' = image
  BY DEF Tick
<1>2. clock' \in 1 .. Len(Seconds)
  BY RepackBootAssumption DEF Tick, RepackInv
<1>3. ImageInv' /\ PackInv' /\ OpenInv' /\ WriteInv'
  BY <1>1, Zenon DEF RepackInv, ImageInv, PackInv, OpenInv, WriteInv
<1>4. JobInv' BY DEF Tick, RepackInv, JobInv
<1> QED BY <1>2, <1>3, <1>4 DEF RepackInv

\* Every step of the repack program keeps the invariant.
LEMMA RepackNext == ASSUME RepackInv, Next PROVE RepackInv'
BY MakeKeeps, OpenKeeps, WriteKeeps, RepackKeeps, AddFilesKeeps, PackRamdiskKeeps, DieKeeps,
   TickKeeps DEF Next

\* So does a step of another program.
LEMMA RepackSame == ASSUME RepackInv, UNCHANGED vars PROVE RepackInv'
BY DEF RepackInv, JobInv, ImageInv, PackInv, OpenInv, WriteInv, PrintedFor, CanPack, Promised,
   NewRamdisk, AddedBy, vars

\* What the invariant says of the image that is read back.
LEMMA InvReadsBack == ASSUME RepackInv PROVE ReadsBack
BY AnyReadBack DEF RepackInv, ImageInv, ReadsBack

\* What unpack_bootimg reads in an image that mkbootimg has made, from any command line,
\* is what was packed into it, after repacks too, whichever of their programs fail
\* (RepackBoot, build-bootimg.sh 163-196, repack_bootimg.py 220-260).
THEOREM ImagesReadBack == MCSpec => []ReadsBack
<1>1. MCInit => RepackInv
  BY RepackInit, Zenon DEF MCInit
<1>2. RepackInv /\ [MCNext]_allVars => RepackInv'
  <2>1. SUFFICES ASSUME RepackInv, [MCNext]_allVars PROVE RepackInv' OBVIOUS
  <2>2. Next \/ UNCHANGED vars
    BY <2>1, Zenon DEF MCNext, allVars
  <2> QED BY <2>1, <2>2, RepackNext, RepackSame
<1>3. RepackInv => ReadsBack BY InvReadsBack
<1> QED BY <1>1, <1>2, <1>3, PTL DEF MCSpec
=============================================================================
