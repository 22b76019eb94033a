----------------------------- MODULE HashTree -----------------------------
(***************************************************************************)
(* avb/avbtool.py: the hash tree that add_hashtree_footer writes behind    *)
(* the data of a partition and that verify_image computes again, and, as a *)
(* reference, the way dm-verity in the kernel reads a block by it.         *)
(*                                                                         *)
(* A file is a sequence of cells; a digest, with the padding that makes    *)
(* its size a power of two, is one cell.  A digest is the cells that were  *)
(* hashed: no two inputs have the same.                                    *)
(***************************************************************************)
EXTENDS Integers, Sequences

CONSTANT PerBlock  \* digests in a block: cells of a block, of data or of the tree

HashTreeAssumption == PerBlock \in Nat \ {0, 1}

Nul       == [kind |-> "nul"]
Digest(s) == [kind |-> "digest", of |-> s]
Nuls(n)   == [i \in 1 .. n |-> Nul]

round_to_multiple(n, size) == IF n % size = 0 THEN n ELSE (n + size) - (n % size)
Ceiling(n, size)           == (n + size - 1) \div size

\* The k-th block of s, from 0; read() is short at the end of a file.
Block(s, k)   == SubSeq(s, k * PerBlock + 1, IF (k + 1) * PerBlock < Len(s) THEN (k + 1) * PerBlock ELSE Len(s))
Padded(block) == block \o Nuls(PerBlock - Len(block))
-----------------------------------------------------------------------------
(* avbtool                                                                 *)

\* The while loop of calc_hash_level_offsets, k times: size, and the sizes of the
\* levels from the one above the data.
LevelLoop(size) ==
    LET f[k \in 0 .. size] ==
            IF k = 0 THEN [size |-> size, sizes |-> << >>]
            ELSE LET r     == f[k - 1]
                     level == round_to_multiple(Ceiling(r.size, PerBlock), PerBlock)
                 IN  IF r.size <= PerBlock THEN r
                     ELSE [size |-> level, sizes |-> Append(r.sizes, level)]
    IN  f

LevelSizes(size) == LevelLoop(size)[size].sizes

\* The sum of the sizes behind the k-th.
SumBehind(sizes, k) ==
    LET f[j \in 0 .. Len(sizes)] == IF j = 0 THEN 0 ELSE f[j - 1] + sizes[Len(sizes) - j + 1]
    IN  f[Len(sizes) - k]

\* Mutant: the level next to the data comes first.
LevelOffsetDataFirst(size, n) ==
    SumBehind(LevelSizes(size), 0) - SumBehind(LevelSizes(size), n - 1)

\* calc_hash_level_offsets: the level next to the root comes first.
LevelOffset(size, n) == SumBehind(LevelSizes(size), n)
TreeSize(size)       == SumBehind(LevelSizes(size), 0)

\* generate_hash_tree: the digests of the blocks of a level, padded.
LevelOutput(s) ==
    LET digests == [k \in 1 .. Ceiling(Len(s), PerBlock) |-> Digest(Padded(Block(s, k - 1)))]
    IN  digests \o Nuls(round_to_multiple(Len(digests), PerBlock) - Len(digests))

\* The data, and every level, of a file whose first cells are hashed.
Levels(data) ==
    LET n == Len(LevelSizes(Len(data)))
        f[k \in 0 .. n] == IF k = 0 THEN data ELSE LevelOutput(f[k - 1])
    IN  f

\* generate_hash_tree: hash_ret, and the digest of its first block.
GenerateTree(data) ==
    LET n     == Len(LevelSizes(Len(data)))
        level == Levels(data)
        at(k) == LevelOffset(Len(data), k)
    IN  [i \in 1 .. TreeSize(Len(data)) |->
            LET k == CHOOSE k \in 1 .. n : at(k) < i /\ i <= at(k) + Len(level[k])
            IN  level[k][i - at(k)]]

RootDigest(data) == Digest(Levels(data)[Len(LevelSizes(Len(data)))])
-----------------------------------------------------------------------------
(* The reference: dm-verity, from what the descriptor tells the kernel.    *)

\* The number of levels, the blocks of a level, and the first block of a level:
\* the top level is stored first.
Power(i) == LET f[k \in 0 .. i] == IF k = 0 THEN 1 ELSE PerBlock * f[k - 1] IN f[i]

VerityLevels(blocks) == CHOOSE n \in 0 .. blocks :
    Power(n) >= blocks /\ \A m \in 0 .. n - 1 : Power(m) < blocks
VerityLevelBlocks(blocks, i) == Ceiling(blocks, Power(i + 1))

\* From the top down: j levels are above.
VerityLevelStart(blocks, i) ==
    LET n == VerityLevels(blocks)
        f[j \in 0 .. n] == IF j = 0 THEN 0 ELSE f[j - 1] + VerityLevelBlocks(blocks, n - j)
    IN  f[n - 1 - i]

\* Data block b is accepted when each digest on its way to the root agrees.
VerityAccepts(data, tree, root, b) ==
    LET blocks  == Ceiling(Len(data), PerBlock)
        n       == VerityLevels(blocks)
        hash(i) == Block(tree, VerityLevelStart(blocks, i) + b \div Power(i + 1))
        entry(i) == LET k == ((b \div Power(i)) % PerBlock) + 1
                    IN  IF k <= Len(hash(i)) THEN hash(i)[k] ELSE Nul
        below(i) == IF i = 0 THEN Block(data, b) ELSE hash(i - 1)
    IN  /\ \A i \in 0 .. n - 1 : entry(i) = Digest(Padded(below(i)))
        /\ root = Digest(Padded(below(n)))
=============================================================================
