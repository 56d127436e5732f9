-------------------------- MODULE FileBlocksProofs --------------------------
(***************************************************************************)
(* What FileBlocks guarantees for every number and size of files, blocks   *)
(* and words: no block has two uses, the counts are right, and what was    *)
(* written is read back.                                                   *)
(***************************************************************************)
EXTENDS FileBlocks, SequenceFacts, FunctionTheorems

-----------------------------------------------------------------------------
(* Numbers                                                                  *)

(* Words are counted as pairs of a block and a word in it.                  *)
LEMMA DivMod ==
  ASSUME NEW a \in Nat, NEW b \in Nat \ {0}
  PROVE  /\ a \div b \in Nat /\ a % b \in 0 .. b - 1
         /\ a = (a \div b) * b + (a % b)
OBVIOUS

(* A product grows with a factor.                                           *)
LEMMA ProductGrows ==
  ASSUME NEW b \in Nat, NEW m \in Nat, NEW n \in Nat, m <= n
  PROVE  m * b <= n * b /\ m * b \in Nat /\ n * b \in Nat /\ (m + 1) * b = m * b + b
OBVIOUS

(* Such a pair is found again from its number.                              *)
LEMMA PairUnique ==
  ASSUME NEW b \in Nat \ {0}, NEW m \in Nat, NEW n \in Nat,
         NEW u \in 0 .. b - 1, NEW v \in 0 .. b - 1,
         m * b + u = n * b + v
  PROVE  m = n /\ u = v
<1>1. ~(m < n)
  <2> SUFFICES ASSUME m < n PROVE FALSE
      OBVIOUS
  <2>1. (m + 1) * b <= n * b /\ (m + 1) * b = m * b + b /\ m * b \in Nat /\ n * b \in Nat
        BY ProductGrows
  <2>. QED  BY <2>1
<1>2. ~(n < m)
  <2> SUFFICES ASSUME n < m PROVE FALSE
      OBVIOUS
  <2>1. (n + 1) * b <= m * b /\ (n + 1) * b = n * b + b /\ m * b \in Nat /\ n * b \in Nat
        BY ProductGrows
  <2>. QED  BY <2>1
<1>3. m = n
      BY <1>1, <1>2
<1>4. m * b \in Nat
      OBVIOUS
<1>. QED  BY <1>3, <1>4

(* A number below a product of sizes is a pair below them.                  *)
LEMMA PairBelow ==
  ASSUME NEW b \in Nat \ {0}, NEW a \in Nat, NEW c \in Nat, a < c * b
  PROVE  a \div b < c
<1>1. /\ a \div b \in Nat /\ a % b \in 0 .. b - 1 /\ a = (a \div b) * b + (a % b)
      BY DivMod
<1>2. SUFFICES ASSUME c <= a \div b PROVE FALSE
      BY <1>1
<1>3. c * b <= (a \div b) * b /\ c * b \in Nat /\ (a \div b) * b \in Nat
      BY <1>1, <1>2, ProductGrows
<1>. QED  BY <1>1, <1>3

(* The greater of two numbers.                                              *)
LEMMA MaxTwo ==
  ASSUME NEW a \in Nat, NEW b \in Nat
  PROVE  Max({a, b}) \in {a, b} /\ Max({a, b}) >= a /\ Max({a, b}) >= b
<1>1. \E x \in {a, b} : \A y \in {a, b} : x >= y
      OBVIOUS
<1>2. Max({a, b}) \in {a, b} /\ \A y \in {a, b} : Max({a, b}) >= y
      BY <1>1 DEF Max
<1>. QED  BY <1>2

(* The greatest of some numbers below a bound.                              *)
LEMMA MaxFacts ==
  ASSUME NEW n \in Nat, NEW S \in SUBSET (0 .. n), S # {}
  PROVE  Max(S) \in S /\ \A y \in S : Max(S) >= y
<1> DEFINE T == {n - x : x \in S}
<1>1. T \in SUBSET Nat /\ T # {}
  <2>1. \A x \in S : n - x \in Nat
        OBVIOUS
  <2>2. PICK x \in S : TRUE
        OBVIOUS
  <2>3. n - x \in T
        BY <2>2
  <2>. QED  BY <2>1, <2>3
<1>2. PICK t \in T : \A y \in T : t <= y
      BY <1>1, LeastNumber
<1>3. PICK x \in S : t = n - x
      OBVIOUS
<1>4. \A y \in S : x >= y
  <2> TAKE y \in S
  <2>1. n - y \in T /\ y \in 0 .. n /\ x \in 0 .. n
        BY <1>3
  <2>. QED  BY <1>2, <1>3, <2>1
<1>. QED  BY <1>3, <1>4 DEF Max

(* The constants, and the indexes of a block in the index blocks.           *)
LEMMA LogicalFacts ==
  /\ NR_MAX_BLOCK \in Nat /\ NR_MAX_BLOCK > NR_DIRECT_BLOCKS + NR_INDIRECT_BLOCKS
  /\ Words \subseteq Nat /\ 0 \in Words /\ Logical \subseteq Nat
  /\ \A n \in Logical :
       /\ IsDirect(n) \/ IsIndirect(n) \/ IsDouble(n)
       /\ ~(IsDirect(n) /\ IsIndirect(n)) /\ ~(IsDirect(n) /\ IsDouble(n))
       /\ ~(IsIndirect(n) /\ IsDouble(n))
       /\ IsDirect(n) => n \in 0 .. NR_DIRECT_BLOCKS - 1
       /\ IsIndirect(n) => Offset(n) \in Words
       /\ IsDouble(n) => Page(n) \in Words /\ PageOffset(n) \in Words
  /\ \A n, m \in Logical :
       /\ IsIndirect(n) /\ IsIndirect(m) /\ Offset(n) = Offset(m) => n = m
       /\ IsDouble(n) /\ IsDouble(m) /\ Page(n) = Page(m) /\ PageOffset(n) = PageOffset(m) => n = m
<1> DEFINE d == NR_DIRECT_BLOCKS
           b == NR_INDIRECT_BLOCKS
<1>1. d \in Nat /\ b \in Nat \ {0}
      BY FileBlocksAssumption
<1>2. b * b \in Nat /\ b * b >= 1
  <2>1. 1 * b <= b * b /\ b * b \in Nat /\ 1 * b = b
        BY <1>1, ProductGrows
  <2>. QED  BY <1>1, <2>1
<1>3. NR_MAX_BLOCK = d + b + b * b
      BY DEF NR_MAX_BLOCK
<1> HIDE DEF d, b
<1>4. NR_MAX_BLOCK \in Nat /\ NR_MAX_BLOCK > d + b
      BY <1>1, <1>2, <1>3
<1>5. \A n \in Logical : IsDouble(n) => /\ n - d - b \in Nat /\ n - d - b < b * b
                                        /\ Page(n) = (n - d - b) \div b
                                        /\ PageOffset(n) = (n - d - b) % b
      BY <1>1, <1>2, <1>3 DEF Logical, IsDouble, Page, PageOffset, d, b
<1>6. \A n \in Logical : IsDouble(n) => Page(n) \in Words /\ PageOffset(n) \in Words
  <2> TAKE n \in Logical
  <2> HAVE IsDouble(n)
  <2>1. n - d - b \in Nat /\ n - d - b < b * b
        BY <1>5
  <2>2. (n - d - b) \div b \in Nat /\ (n - d - b) % b \in 0 .. b - 1
        BY <1>1, <2>1, DivMod
  <2>3. (n - d - b) \div b < b
        BY <1>1, <2>1, PairBelow
  <2>. QED  BY <1>1, <1>5, <2>2, <2>3 DEF Words, b
<1>7. \A n, m \in Logical :
        IsDouble(n) /\ IsDouble(m) /\ Page(n) = Page(m) /\ PageOffset(n) = PageOffset(m) => n = m
  <2> TAKE n, m \in Logical
  <2> HAVE IsDouble(n) /\ IsDouble(m) /\ Page(n) = Page(m) /\ PageOffset(n) = PageOffset(m)
  <2>1. n - d - b = Page(n) * b + PageOffset(n) /\ m - d - b = Page(m) * b + PageOffset(m)
        BY <1>1, <1>5, DivMod
  <2>2. n \in Nat /\ m \in Nat /\ n - d - b = m - d - b
        BY <1>4, <2>1 DEF Logical
  <2>. QED  BY <1>1, <2>2
<1>8. /\ Words \subseteq Nat /\ 0 \in Words /\ Logical \subseteq Nat
      BY <1>1, <1>4 DEF Words, Logical, b
<1>9. \A n \in Logical :
        /\ IsDirect(n) \/ IsIndirect(n) \/ IsDouble(n)
        /\ ~(IsDirect(n) /\ IsIndirect(n)) /\ ~(IsDirect(n) /\ IsDouble(n))
        /\ ~(IsIndirect(n) /\ IsDouble(n))
        /\ IsDirect(n) => n \in 0 .. d - 1
        /\ IsIndirect(n) => Offset(n) \in Words
      BY <1>1, <1>8 DEF IsDirect, IsIndirect, IsDouble, Offset, Words, d, b
<1>10. \A n, m \in Logical : IsIndirect(n) /\ IsIndirect(m) /\ Offset(n) = Offset(m) => n = m
       BY <1>1, <1>8 DEF IsIndirect, Offset, d, b
<1>. QED  BY <1>4, <1>6, <1>7, <1>8, <1>9, <1>10 DEF d, b

-----------------------------------------------------------------------------
(* Where the blocks of a file stand                                         *)

(* Word i of block b of the disk dk, and the block of logical block n.      *)
Word(dk, b, i) == IF b = 0 THEN 0 ELSE dk[b][i]

DataAt(in, dk, n) ==
  CASE IsDirect(n)   -> in.i_block_nr[n]
    [] IsIndirect(n) -> Word(dk, in.i_indirect, Offset(n))
    [] IsDouble(n)   -> Word(dk, Word(dk, in.i_dindirect, Page(n)), PageOffset(n))

(* The spots of a file at which a block number can stand, and which stands  *)
(* there.                                                                   *)
IsSpot(k, n) ==
  \/ k = "data" /\ n \in Logical
  \/ k \in {"indirect", "double"} /\ n = 0
  \/ k = "page" /\ n \in Words

Block(in, dk, k, n) ==
  CASE k = "data"     -> DataAt(in, dk, n)
    [] k = "indirect" -> in.i_indirect
    [] k = "double"   -> in.i_dindirect
    [] k = "page"     -> Word(dk, in.i_dindirect, n)

LEMMA BlockCases ==
  ASSUME NEW in, NEW dk
  PROVE  /\ Block(in, dk, "indirect", 0) = in.i_indirect
         /\ Block(in, dk, "double", 0) = in.i_dindirect
         /\ \A n : Block(in, dk, "page", n) = Word(dk, in.i_dindirect, n)
         /\ \A n \in Logical :
              /\ IsDirect(n) => Block(in, dk, "data", n) = in.i_block_nr[n]
              /\ IsIndirect(n) => Block(in, dk, "data", n) = Word(dk, in.i_indirect, Offset(n))
              /\ IsDouble(n) => Block(in, dk, "data", n) =
                                  Word(dk, Block(in, dk, "page", Page(n)), PageOffset(n))
<1>1. /\ Block(in, dk, "indirect", 0) = in.i_indirect
      /\ Block(in, dk, "double", 0) = in.i_dindirect
      /\ \A n : Block(in, dk, "page", n) = Word(dk, in.i_dindirect, n)
      /\ \A n : Block(in, dk, "data", n) = DataAt(in, dk, n)
      BY DEF Block
<1>2. \A n \in Logical :
        /\ IsDirect(n) => DataAt(in, dk, n) = in.i_block_nr[n]
        /\ IsIndirect(n) => DataAt(in, dk, n) = Word(dk, in.i_indirect, Offset(n))
        /\ IsDouble(n) => DataAt(in, dk, n) =
                            Word(dk, Word(dk, in.i_dindirect, Page(n)), PageOffset(n))
      BY LogicalFacts DEF DataAt
<1>. QED  BY <1>1, <1>2

(* The same, one by one.                                                    *)
LEMMA PageBlock ==
  ASSUME NEW in, NEW dk, NEW n
  PROVE  Block(in, dk, "page", n) = Word(dk, in.i_dindirect, n)
BY BlockCases

LEMMA DirectBlock ==
  ASSUME NEW in, NEW dk, NEW n \in Logical, IsDirect(n)
  PROVE  Block(in, dk, "data", n) = in.i_block_nr[n]
BY BlockCases

LEMMA IndirectBlock ==
  ASSUME NEW in, NEW dk, NEW n \in Logical, IsIndirect(n)
  PROVE  Block(in, dk, "data", n) = Word(dk, in.i_indirect, Offset(n))
BY BlockCases

LEMMA DoubleBlock ==
  ASSUME NEW in, NEW dk, NEW n \in Logical, IsDouble(n)
  PROVE  Block(in, dk, "data", n) = Word(dk, Block(in, dk, "page", Page(n)), PageOffset(n))
BY BlockCases

(* The index blocks are words of the same disk.                             *)
LEMMA SpotFacts ==
  /\ IsSpot("indirect", 0) /\ IsSpot("double", 0)
  /\ \A n \in Logical : IsSpot("data", n)
  /\ \A n \in Words : IsSpot("page", n)
  /\ \A k, n : IsSpot(k, n) => \/ k = "data" /\ n \in Logical
                               \/ k = "indirect" /\ n = 0
                               \/ k = "double" /\ n = 0
                               \/ k = "page" /\ n \in Words
BY DEF IsSpot

(* The types of the freemap fm, the inodes dn and the disk dk.              *)
Typed(fm, dn, dk) ==
  /\ fm \subseteq 1 .. max_fs_blocks
  /\ dn \in [Files -> Inodes]
  /\ dk \in [Blocks -> [Words -> Nat \cup Files]]

(* A block number in a file is that of a block in use, but for a pointer    *)
(* left by a failed allocation (fl are the files that have seen one).       *)
Sound(fm, dn, dk, fl) ==
  \A f \in Files : \A k, n :
    IsSpot(k, n) /\ Block(dn[f], dk, k, n) # 0 =>
      \/ Block(dn[f], dk, k, n) \in fm
      \/ k = "indirect" /\ f \in fl /\ Block(dn[f], dk, k, n) \in 1 .. max_fs_blocks

(* It stands nowhere else.                                                  *)
Unique(dn, dk) ==
  \A f, g \in Files : \A k, n, j, m :
    /\ IsSpot(k, n) /\ IsSpot(j, m)
    /\ Block(dn[f], dk, k, n) # 0 /\ Block(dn[f], dk, k, n) = Block(dn[g], dk, j, m)
    => f = g /\ k = j /\ n = m

(* A block in use belongs to a file.                                        *)
Covered(fm, dn, dk) ==
  \A b \in fm : \E f \in Files : \E k, n : IsSpot(k, n) /\ Block(dn[f], dk, k, n) = b

(* A free block is empty, but the one that a pointer left behind names.     *)
Emptied(fm, dn, dk) ==
  \A b \in Blocks \ fm : (\A f \in Files : dn[f].i_indirect # b) => dk[b] = Zero

Placed(fm, dn, dk, fl) ==
  /\ Typed(fm, dn, dk) /\ Sound(fm, dn, dk, fl) /\ Unique(dn, dk)
  /\ Covered(fm, dn, dk) /\ Emptied(fm, dn, dk)

(* The blocks in use of a file.                                             *)
BlocksOf(fm, in, dk) == {b \in fm : \E k, n : IsSpot(k, n) /\ Block(in, dk, k, n) = b}

(* A block that no file names.                                              *)
Fresh(fm, dn, b) == b \in (1 .. max_fs_blocks) \ fm /\ \A f \in Files : dn[f].i_indirect # b

(* What is known of every block number.                                     *)
LEMMA PlacedFacts ==
  ASSUME NEW fm, NEW dn, NEW dk, NEW fl, Placed(fm, dn, dk, fl)
  PROVE  /\ \A f \in Files : \A k, n : IsSpot(k, n) => Block(dn[f], dk, k, n) \in 0 .. max_fs_blocks
         /\ \A f \in Files : \A k, n :
              IsSpot(k, n) /\ Block(dn[f], dk, k, n) # 0 => Block(dn[f], dk, k, n) \in Blocks
         /\ \A b : Fresh(fm, dn, b) =>
              /\ b \in Blocks /\ b # 0 /\ b \notin fm /\ b \in 1 .. max_fs_blocks
              /\ dk[b] = Zero
              /\ \A f \in Files : \A k, n : IsSpot(k, n) => Block(dn[f], dk, k, n) # b
<1>1. fm \subseteq 1 .. max_fs_blocks /\ 1 .. max_fs_blocks \subseteq Blocks /\ max_fs_blocks \in Nat
      BY FileBlocksAssumption DEF Placed, Typed, Blocks
<1>2. \A f \in Files : \A k, n : IsSpot(k, n) /\ Block(dn[f], dk, k, n) # 0 =>
        Block(dn[f], dk, k, n) \in 1 .. max_fs_blocks
      BY <1>1 DEF Placed, Sound
<1>3. ASSUME NEW b, Fresh(fm, dn, b)
      PROVE  /\ b \in Blocks /\ b # 0 /\ b \notin fm /\ b \in 1 .. max_fs_blocks
             /\ dk[b] = Zero
             /\ \A f \in Files : \A k, n : IsSpot(k, n) => Block(dn[f], dk, k, n) # b
  <2>1. b \in Blocks /\ b # 0 /\ b \notin fm /\ b \in 1 .. max_fs_blocks
        BY <1>1, <1>3 DEF Fresh
  <2>2. dk[b] = Zero
        BY <2>1, <1>3 DEF Fresh, Placed, Emptied
  <2>3. ASSUME NEW f \in Files, NEW k, NEW n, IsSpot(k, n), Block(dn[f], dk, k, n) = b
        PROVE  FALSE
    <3>1. k = "indirect"
          BY <2>1, <2>3 DEF Placed, Sound
    <3>2. dn[f].i_indirect = b
          BY <2>3, <3>1, SpotFacts, BlockCases
    <3>. QED  BY <1>3, <3>2 DEF Fresh
  <2>. QED  BY <2>1, <2>2, <2>3
<1>4. \A f \in Files : \A k, n : IsSpot(k, n) => Block(dn[f], dk, k, n) \in 0 .. max_fs_blocks
      BY <1>1, <1>2
<1>. QED  BY <1>1, <1>2, <1>3, <1>4

-----------------------------------------------------------------------------
(* A change of one file                                                     *)

(* A file keeps its blocks when the disk changes only elsewhere than in its *)
(* index blocks.                                                            *)
LEMMA SameBlocks ==
  ASSUME NEW in, NEW dk, NEW dk2,
         \A k, n : IsSpot(k, n) /\ k # "data" /\ Block(in, dk, k, n) # 0 =>
           dk2[Block(in, dk, k, n)] = dk[Block(in, dk, k, n)]
  PROVE  \A k, n : IsSpot(k, n) => Block(in, dk2, k, n) = Block(in, dk, k, n)
<1>1. \A n \in Words : Block(in, dk2, "page", n) = Block(in, dk, "page", n)
  <2>1. in.i_dindirect # 0 => dk2[in.i_dindirect] = dk[in.i_dindirect]
    <3>1. IsSpot("double", 0) /\ "double" # "data" /\ Block(in, dk, "double", 0) = in.i_dindirect
          BY SpotFacts, BlockCases
    <3>. QED  BY <3>1
  <2>2. \A n \in Words : Word(dk2, in.i_dindirect, n) = Word(dk, in.i_dindirect, n)
        BY <2>1 DEF Word
  <2>. QED  BY <2>2, PageBlock
<1>2. ASSUME NEW n \in Logical
      PROVE  Block(in, dk2, "data", n) = Block(in, dk, "data", n)
  <2>1. CASE IsDirect(n)
        BY <2>1, DirectBlock
  <2>2. CASE IsIndirect(n)
    <3>1. IsSpot("indirect", 0) /\ "indirect" # "data" /\ Block(in, dk, "indirect", 0) = in.i_indirect
          BY SpotFacts, BlockCases
    <3>2. in.i_indirect # 0 => dk2[in.i_indirect] = dk[in.i_indirect]
          BY <3>1
    <3>3. Word(dk2, in.i_indirect, Offset(n)) = Word(dk, in.i_indirect, Offset(n))
          BY <3>2 DEF Word
    <3>4. Block(in, dk, "data", n) = Word(dk, in.i_indirect, Offset(n))
          BY <2>2, BlockCases
    <3>5. Block(in, dk2, "data", n) = Word(dk2, in.i_indirect, Offset(n))
          BY <2>2, BlockCases
    <3>. QED  BY <3>3, <3>4, <3>5
  <2>3. CASE IsDouble(n)
    <3>1. Page(n) \in Words /\ Block(in, dk2, "page", Page(n)) = Block(in, dk, "page", Page(n))
          BY <1>1, <2>3, LogicalFacts
    <3>2. Block(in, dk, "page", Page(n)) # 0 =>
            dk2[Block(in, dk, "page", Page(n))] = dk[Block(in, dk, "page", Page(n))]
      <4>1. IsSpot("page", Page(n)) /\ "page" # "data"
            BY <3>1, SpotFacts
      <4>. QED  BY <4>1
    <3>3. Word(dk2, Block(in, dk2, "page", Page(n)), PageOffset(n)) =
            Word(dk, Block(in, dk, "page", Page(n)), PageOffset(n))
          BY <3>1, <3>2 DEF Word
    <3>. QED  BY <2>3, <3>3, BlockCases
  <2>. QED  BY <2>1, <2>2, <2>3, LogicalFacts
<1>. QED  BY <1>1, <1>2, SpotFacts, BlockCases

(* File f gets the blocks new, all in spots that were empty, and no other   *)
(* spot changes; of its data blocks, only that of logical block bn is       *)
(* written.  A step of testfs_write_data is such a change, to inode in and  *)
(* disk dk2.                                                                *)
Changes(fm, dn, dk, f, in, dk2, new, bn) ==
  /\ \A b \in new : Fresh(fm, dn, b)
  /\ dk2 \in [Blocks -> [Words -> Nat \cup Files]]
  /\ \A k, n : IsSpot(k, n) =>
       \/ Block(in, dk2, k, n) = Block(dn[f], dk, k, n)
       \/ Block(dn[f], dk, k, n) = 0 /\ Block(in, dk2, k, n) \in new
  /\ \A b \in new : \E k, n : IsSpot(k, n) /\ Block(in, dk2, k, n) = b
  /\ \A k, n, j, m :
       /\ IsSpot(k, n) /\ IsSpot(j, m)
       /\ Block(in, dk2, k, n) \in new /\ Block(in, dk2, k, n) = Block(in, dk2, j, m)
       => k = j /\ n = m
  /\ \A b \in Blocks : dk2[b] # dk[b] =>
       b \in new \/ \E k, n : IsSpot(k, n) /\ Block(dn[f], dk, k, n) = b /\ (k = "data" => n = bn)
  /\ \A n \in Logical : n # bn => Block(in, dk2, "data", n) = Block(dn[f], dk, "data", n)

(* The other files keep theirs, and what they hold.                         *)
LEMMA OtherFiles ==
  ASSUME NEW fm, NEW dn, NEW dk, NEW fl, Placed(fm, dn, dk, fl),
         NEW f \in Files, NEW in, NEW dk2, NEW new, NEW bn,
         Changes(fm, dn, dk, f, in, dk2, new, bn)
  PROVE  /\ \A g \in Files \ {f} : \A k, n : IsSpot(k, n) /\ Block(dn[g], dk, k, n) # 0 =>
              dk2[Block(dn[g], dk, k, n)] = dk[Block(dn[g], dk, k, n)]
         /\ \A g \in Files \ {f} : \A k, n : IsSpot(k, n) =>
              Block(dn[g], dk2, k, n) = Block(dn[g], dk, k, n)
<1>1. ASSUME NEW g \in Files \ {f}, NEW k, NEW n, IsSpot(k, n), Block(dn[g], dk, k, n) # 0,
             dk2[Block(dn[g], dk, k, n)] # dk[Block(dn[g], dk, k, n)]
      PROVE  FALSE
  <2> DEFINE b == Block(dn[g], dk, k, n)
  <2>1. b \in Blocks /\ b \notin new
        BY <1>1, PlacedFacts DEF Changes
  <2>2. PICK j, m : IsSpot(j, m) /\ Block(dn[f], dk, j, m) = b
        BY <1>1, <2>1 DEF Changes
  <2>. QED  BY <1>1, <2>2 DEF Placed, Unique
<1>. QED  BY <1>1, SameBlocks

(* The same of the freemap and all inodes, which become fm2 and dn2.        *)
Changed(fm, dn, dk, fl, f, fm2, dn2, dk2, new, bn) ==
  /\ Placed(fm, dn, dk, fl)
  /\ f \in Files /\ fm2 = fm \cup new /\ dn2 \in [Files -> Inodes]
  /\ \A g \in Files \ {f} : dn2[g] = dn[g]
  /\ Changes(fm, dn, dk, f, dn2[f], dk2, new, bn)

(* After it, blocks are where they should be.                               *)
LEMMA ChangePlaced ==
  ASSUME NEW fm, NEW dn, NEW dk, NEW fl, NEW f, NEW fm2, NEW dn2, NEW dk2,
         NEW new, NEW bn,
         Changed(fm, dn, dk, fl, f, fm2, dn2, dk2, new, bn)
  PROVE  Placed(fm2, dn2, dk2, fl)
<1>u. /\ Placed(fm, dn, dk, fl) /\ f \in Files /\ fm2 = fm \cup new /\ dn2 \in [Files -> Inodes]
      /\ \A g \in Files \ {f} : dn2[g] = dn[g]
      /\ Changes(fm, dn, dk, f, dn2[f], dk2, new, bn)
      BY DEF Changed
<1> USE <1>u
<1> DEFINE old(g, k, n) == Block(dn[g], dk, k, n)
           now(g, k, n) == Block(dn2[g], dk2, k, n)
<1>1. /\ \A g \in Files \ {f} : \A k, n : IsSpot(k, n) => now(g, k, n) = old(g, k, n)
      /\ \A k, n : IsSpot(k, n) => \/ now(f, k, n) = old(f, k, n)
                                   \/ old(f, k, n) = 0 /\ now(f, k, n) \in new
  <2>1. \A g \in Files \ {f} : \A k, n : IsSpot(k, n) =>
          Block(dn[g], dk2, k, n) = Block(dn[g], dk, k, n)
        BY OtherFiles
  <2>2. \A g \in Files \ {f} : \A k, n : IsSpot(k, n) => now(g, k, n) = old(g, k, n)
        BY <2>1
  <2>. QED  BY <2>2 DEF Changes
<1>2. /\ \A b \in new : b # 0 /\ b \notin fm /\ b \in 1 .. max_fs_blocks
      /\ \A b \in new : \A g \in Files : \A k, n : IsSpot(k, n) => old(g, k, n) # b
      BY PlacedFacts DEF Changes
<1>3. Typed(fm2, dn2, dk2)
      BY <1>2 DEF Placed, Typed, Changes
<1>4. Sound(fm2, dn2, dk2, fl)
  <2>1. SUFFICES ASSUME NEW g \in Files, NEW k, NEW n, IsSpot(k, n), now(g, k, n) # 0
                 PROVE  \/ now(g, k, n) \in fm \cup new
                        \/ k = "indirect" /\ g \in fl /\ now(g, k, n) \in 1 .. max_fs_blocks
        BY DEF Sound
  <2>2. now(g, k, n) = old(g, k, n) \/ now(g, k, n) \in new
        BY <1>1, <2>1
  <2>3. CASE now(g, k, n) = old(g, k, n)
        BY <2>1, <2>3 DEF Placed, Sound
  <2>. QED  BY <2>2, <2>3
<1>5. Unique(dn2, dk2)
  <2>1. SUFFICES ASSUME NEW g \in Files, NEW h \in Files, NEW k, NEW n, NEW j, NEW m,
                        IsSpot(k, n), IsSpot(j, m),
                        now(g, k, n) # 0, now(g, k, n) = now(h, j, m)
                 PROVE  g = h /\ k = j /\ n = m
        BY DEF Unique
  <2>2. /\ now(g, k, n) = old(g, k, n) \/ (g = f /\ now(g, k, n) \in new)
        /\ now(h, j, m) = old(h, j, m) \/ (h = f /\ now(h, j, m) \in new)
        BY <1>1, <2>1
  <2>3. CASE now(g, k, n) \in new
    <3>1. g = f /\ h = f
      <4>1. old(g, k, n) # now(g, k, n) /\ old(h, j, m) # now(h, j, m)
            BY <1>2, <2>1, <2>3
      <4>. QED  BY <2>2, <4>1
    <3>2. now(f, k, n) \in new /\ now(f, k, n) = now(f, j, m)
          BY <2>1, <2>3, <3>1
    <3>3. k = j /\ n = m
          BY <2>1, <3>2 DEF Changes
    <3>. QED  BY <3>1, <3>3
  <2>4. CASE now(g, k, n) \notin new
    <3>1. now(g, k, n) = old(g, k, n) /\ now(h, j, m) = old(h, j, m)
          BY <2>1, <2>2, <2>4
    <3>2. Unique(dn, dk) /\ old(g, k, n) # 0 /\ old(g, k, n) = old(h, j, m)
          BY <2>1, <3>1 DEF Placed
    <3>. QED  BY <2>1, <3>2 DEF Unique
  <2>. QED  BY <2>3, <2>4
<1>6. Covered(fm2, dn2, dk2)
  <2>1. ASSUME NEW b \in new
        PROVE  \E g \in Files : \E k, n : IsSpot(k, n) /\ now(g, k, n) = b
        BY DEF Changes
  <2>2. ASSUME NEW b \in fm
        PROVE  \E g \in Files : \E k, n : IsSpot(k, n) /\ now(g, k, n) = b
    <3>1. PICK g \in Files : \E k, n : IsSpot(k, n) /\ old(g, k, n) = b
          BY DEF Placed, Covered
    <3>2. b # 0
          BY <2>2 DEF Placed, Typed
    <3>. QED  BY <1>1, <3>1, <3>2
  <2>. QED  BY <2>1, <2>2 DEF Covered
<1>7. Emptied(fm2, dn2, dk2)
  <2>1. SUFFICES ASSUME NEW b \in Blocks \ (fm \cup new), \A g \in Files : dn2[g].i_indirect # b
                 PROVE  dk2[b] = Zero
        BY DEF Emptied
  <2>2. \A g \in Files : dn[g].i_indirect # b
    <3>1. ASSUME NEW g \in Files, dn[g].i_indirect = b
          PROVE  FALSE
      <4>1. old(g, "indirect", 0) = b /\ now(g, "indirect", 0) # b
            BY <2>1, <3>1, BlockCases
      <4>2. b # 0
            BY DEF Blocks
      <4>. QED  BY <1>1, <4>1, <4>2, SpotFacts
    <3>. QED  BY <3>1
  <2>3. dk[b] = Zero
        BY <2>1, <2>2 DEF Placed, Emptied
  <2>4. SUFFICES ASSUME dk2[b] # dk[b] PROVE FALSE
        BY <2>3
  <2>5. PICK k, n : IsSpot(k, n) /\ old(f, k, n) = b
        BY <2>1, <2>4 DEF Changes
  <2>6. b # 0
        BY DEF Blocks
  <2>7. k = "indirect"
        BY <2>1, <2>5, <2>6 DEF Placed, Sound
  <2>. QED  BY <2>2, <2>5, <2>7, SpotFacts, BlockCases
<1>. QED  BY <1>3, <1>4, <1>5, <1>6, <1>7 DEF Placed

(* The file has the new blocks too.                                         *)
LEMMA ChangeBlocks ==
  ASSUME NEW fm, NEW dn, NEW dk, NEW fl, NEW f, NEW fm2, NEW dn2, NEW dk2,
         NEW new, NEW bn,
         Changed(fm, dn, dk, fl, f, fm2, dn2, dk2, new, bn)
  PROVE  /\ BlocksOf(fm, dn[f], dk) \cap new = {}
         /\ \A b : b \in BlocksOf(fm2, dn2[f], dk2) <=>
                     b \in BlocksOf(fm, dn[f], dk) \/ b \in new
         /\ \A g \in Files \ {f} : BlocksOf(fm2, dn2[g], dk2) = BlocksOf(fm, dn[g], dk)
<1>u. /\ Placed(fm, dn, dk, fl) /\ f \in Files /\ fm2 = fm \cup new /\ dn2 \in [Files -> Inodes]
      /\ \A g \in Files \ {f} : dn2[g] = dn[g]
      /\ Changes(fm, dn, dk, f, dn2[f], dk2, new, bn)
      BY DEF Changed
<1> USE <1>u
<1> DEFINE old(g, k, n) == Block(dn[g], dk, k, n)
           now(g, k, n) == Block(dn2[g], dk2, k, n)
<1>1. /\ \A g \in Files \ {f} : \A k, n : IsSpot(k, n) => now(g, k, n) = old(g, k, n)
      /\ \A k, n : IsSpot(k, n) => \/ now(f, k, n) = old(f, k, n)
                                   \/ old(f, k, n) = 0 /\ now(f, k, n) \in new
  <2>1. \A g \in Files \ {f} : \A k, n : IsSpot(k, n) =>
          Block(dn[g], dk2, k, n) = Block(dn[g], dk, k, n)
        BY OtherFiles
  <2>2. \A g \in Files \ {f} : \A k, n : IsSpot(k, n) => now(g, k, n) = old(g, k, n)
        BY <2>1
  <2>. QED  BY <2>2 DEF Changes
<1>2. /\ \A b \in new : b # 0 /\ b \notin fm /\ b \in 1 .. max_fs_blocks
      /\ \A b \in new : \A g \in Files : \A k, n : IsSpot(k, n) => old(g, k, n) # b
      BY PlacedFacts DEF Changes
<1>3. BlocksOf(fm2, dn2[f], dk2) = BlocksOf(fm, dn[f], dk) \cup new
  <2>1. ASSUME NEW b \in fm \cup new
        PROVE  (\E k, n : IsSpot(k, n) /\ now(f, k, n) = b) <=>
                 (b \in new \/ \E k, n : IsSpot(k, n) /\ old(f, k, n) = b)
    <3>1. CASE b \in new
          BY <3>1 DEF Changes
    <3>2. CASE b \in fm
      <4>1. b # 0 /\ b \notin new
            BY <1>2, <3>2 DEF Placed, Typed
      <4>. QED  BY <1>1, <4>1
    <3>. QED  BY <3>1, <3>2
  <2>2. \A b \in BlocksOf(fm, dn[f], dk) : b \in fm
        BY DEF BlocksOf
  <2>3. \A b \in new : b \notin fm
        BY <1>2
  <2>. QED  BY <2>1, <2>2, <2>3 DEF BlocksOf
<1>4. BlocksOf(fm, dn[f], dk) \cap new = {}
      BY <1>2 DEF BlocksOf
<1>5. ASSUME NEW g \in Files \ {f}
       PROVE  BlocksOf(fm2, dn2[g], dk2) = BlocksOf(fm, dn[g], dk)
  <2>1. ASSUME NEW b \in fm \cup new
        PROVE  (\E k, n : IsSpot(k, n) /\ now(g, k, n) = b) <=>
                 (b \in fm /\ \E k, n : IsSpot(k, n) /\ old(g, k, n) = b)
        BY <1>1, <1>2
  <2>. QED  BY <2>1 DEF BlocksOf
<1>. QED  BY <1>3, <1>4, <1>5

(* What the files hold: what was written to them, wr, and zero.             *)
Contents(dn, dk, wr) ==
  \A f \in Files : \A n \in Logical, u \in Words :
    Word(dk, Block(dn[f], dk, "data", n), u) =
      IF n * NR_INDIRECT_BLOCKS + u \in wr[f] THEN f ELSE 0

(* After a change, they hold the same but in the block that is written.     *)
LEMMA ChangeContents ==
  ASSUME NEW fm, NEW dn, NEW dk, NEW fl, NEW f, NEW fm2, NEW dn2, NEW dk2,
         NEW new, NEW bn,
         Changed(fm, dn, dk, fl, f, fm2, dn2, dk2, new, bn)
  PROVE  \A g \in Files : \A n \in Logical, u \in Words : ~(g = f /\ n = bn) =>
           Word(dk2, Block(dn2[g], dk2, "data", n), u) = Word(dk, Block(dn[g], dk, "data", n), u)
<1>u. /\ Placed(fm, dn, dk, fl) /\ f \in Files /\ fm2 = fm \cup new /\ dn2 \in [Files -> Inodes]
      /\ \A g \in Files \ {f} : dn2[g] = dn[g]
      /\ Changes(fm, dn, dk, f, dn2[f], dk2, new, bn)
      BY DEF Changed
<1> USE <1>u
<1> TAKE g \in Files
<1> TAKE n \in Logical, u \in Words
<1> HAVE ~(g = f /\ n = bn)
<1> DEFINE b == Block(dn[g], dk, "data", n)
<1>1. IsSpot("data", n)
      BY SpotFacts
<1>2. Block(dn2[g], dk2, "data", n) = b
  <2>1. CASE g = f
    <3>1. Block(dn2[f], dk2, "data", n) = Block(dn[f], dk, "data", n)
          BY <2>1 DEF Changes
    <3>. QED  BY <2>1, <3>1
  <2>2. CASE g # f
    <3>1. Block(dn[g], dk2, "data", n) = b /\ dn2[g] = dn[g]
          BY <1>1, <2>2, OtherFiles
    <3>. QED  BY <3>1
  <2>. QED  BY <2>1, <2>2
<1>3. SUFFICES ASSUME b # 0 PROVE dk2[b] = dk[b]
      BY <1>2 DEF Word
<1>4. b \in Blocks /\ b \notin new
  <2>1. b \in Blocks
        BY <1>1, <1>3, PlacedFacts
  <2>2. \A c \in new : Fresh(fm, dn, c)
        BY DEF Changes
  <2>3. \A c \in new : b # c
        BY <1>1, <2>2, PlacedFacts
  <2>. QED  BY <2>1, <2>3
<1>5. SUFFICES ASSUME dk2[b] # dk[b] PROVE FALSE
      OBVIOUS
<1>6. PICK j, m : IsSpot(j, m) /\ Block(dn[f], dk, j, m) = b /\ (j = "data" => m = bn)
      BY <1>4, <1>5 DEF Changes
<1>7. Unique(dn, dk)
      BY DEF Placed
<1>8. g = f /\ j = "data" /\ m = n
      BY <1>1, <1>3, <1>6, <1>7 DEF Unique
<1>. QED  BY <1>6, <1>8

(* The counts of the file system and of each file.                          *)
Counted(fm, dn, dk, used) ==
  /\ used = Cardinality(fm)
  /\ \A f \in Files : dn[f].block_count = Cardinality(BlocksOf(fm, dn[f], dk))

LEMMA FreemapFinite ==
  ASSUME NEW fm, NEW dn, NEW dk, Typed(fm, dn, dk)
  PROVE  /\ IsFiniteSet(fm) /\ Cardinality(fm) \in 0 .. max_fs_blocks
         /\ \A in, d : /\ IsFiniteSet(BlocksOf(fm, in, d))
                       /\ Cardinality(BlocksOf(fm, in, d)) \in Nat
<1>1. IsFiniteSet(1 .. max_fs_blocks) /\ Cardinality(1 .. max_fs_blocks) = max_fs_blocks
      BY FS_Interval, FileBlocksAssumption
<1>2. IsFiniteSet(fm) /\ Cardinality(fm) <= max_fs_blocks /\ Cardinality(fm) \in Nat
      BY <1>1, FS_Subset, FS_CardinalityType DEF Typed
<1>3. ASSUME NEW in, NEW d
      PROVE  IsFiniteSet(BlocksOf(fm, in, d)) /\ Cardinality(BlocksOf(fm, in, d)) \in Nat
  <2>1. BlocksOf(fm, in, d) \in SUBSET fm
        BY DEF BlocksOf
  <2>. QED  BY <1>2, <2>1, FS_Subset, FS_CardinalityType
<1>. QED  BY <1>2, <1>3, FileBlocksAssumption

(* A set that grows by elements it has not.                                 *)
LEMMA CardinalityGrows ==
  ASSUME NEW S, NEW T, IsFiniteSet(S), IsFiniteSet(T), S \cap T = {}
  PROVE  Cardinality(S \cup T) = Cardinality(S) + Cardinality(T)
<1>1. Cardinality(S \cup T) = Cardinality(S) + Cardinality(T) - Cardinality(S \cap T)
      BY FS_Union
<1>2. Cardinality(S \cap T) = 0
      BY FS_EmptySet
<1>3. Cardinality(S) \in Nat /\ Cardinality(T) \in Nat
      BY FS_CardinalityType
<1>. QED  BY <1>1, <1>2, <1>3

(* They are right after a change that counts the new blocks.                *)
LEMMA ChangeCounted ==
  ASSUME NEW fm, NEW dn, NEW dk, NEW fl, NEW f, NEW fm2, NEW dn2, NEW dk2,
         NEW new, NEW bn,
         Changed(fm, dn, dk, fl, f, fm2, dn2, dk2, new, bn),
         NEW used, Counted(fm, dn, dk, used), IsFiniteSet(new),
         dn2[f].block_count = dn[f].block_count + Cardinality(new)
  PROVE  Counted(fm2, dn2, dk2, used + Cardinality(new))
<1>1. /\ BlocksOf(fm, dn[f], dk) \cap new = {}
      /\ \A b : b \in BlocksOf(fm2, dn2[f], dk2) <=>
                  b \in BlocksOf(fm, dn[f], dk) \/ b \in new
      /\ \A g \in Files \ {f} : BlocksOf(fm2, dn2[g], dk2) = BlocksOf(fm, dn[g], dk)
      BY ChangeBlocks
<1>u. /\ Placed(fm, dn, dk, fl) /\ f \in Files /\ fm2 = fm \cup new /\ dn2 \in [Files -> Inodes]
      /\ \A g \in Files \ {f} : dn2[g] = dn[g]
      /\ Changes(fm, dn, dk, f, dn2[f], dk2, new, bn)
      BY DEF Changed
<1> USE <1>u
<1>2. IsFiniteSet(fm) /\ IsFiniteSet(BlocksOf(fm, dn[f], dk))
      BY FreemapFinite DEF Placed
<1>3. fm \cap new = {}
      BY DEF Changes, Fresh
<1>4. Cardinality(fm2) = used + Cardinality(new)
      BY <1>2, <1>3, CardinalityGrows DEF Counted
<1>5. Cardinality(BlocksOf(fm2, dn2[f], dk2)) = dn2[f].block_count
  <2>1. Cardinality(BlocksOf(fm, dn[f], dk) \cup new) =
          Cardinality(BlocksOf(fm, dn[f], dk)) + Cardinality(new)
        BY <1>1, <1>2, CardinalityGrows
  <2>2. dn[f].block_count = Cardinality(BlocksOf(fm, dn[f], dk))
        BY DEF Counted
  <2>3. BlocksOf(fm2, dn2[f], dk2) = BlocksOf(fm, dn[f], dk) \cup new
        BY <1>1
  <2>. QED  BY <2>1, <2>2, <2>3
<1>6. \A g \in Files \ {f} : Cardinality(BlocksOf(fm2, dn2[g], dk2)) = dn2[g].block_count
      BY <1>1 DEF Counted
<1>. QED  BY <1>4, <1>5, <1>6 DEF Counted

-----------------------------------------------------------------------------
(* The blocks that are allocated                                            *)

(* There is a free block for each that is left.                             *)
LEMMA FreeBlockFacts ==
  ASSUME block_freemap \subseteq 1 .. max_fs_blocks,
         NEW k \in Nat \ {0}, k <= max_fs_blocks - Cardinality(block_freemap)
  PROVE  /\ FreeBlock(k) \in (1 .. max_fs_blocks) \ block_freemap
         /\ Cardinality({c \in Blocks \ block_freemap : c < FreeBlock(k)}) = k - 1
<1> DEFINE U == Blocks \ block_freemap
           upTo(b) == {c \in U : c <= b}
           rank(b) == {c \in U : c < b}
           S == {b \in 0 .. max_fs_blocks : Cardinality(upTo(b)) >= k}
<1>1. /\ max_fs_blocks \in Nat /\ 1 .. max_fs_blocks \subseteq Blocks
      /\ \A c \in U : c \in Nat /\ c # 0
      /\ \A c : c \in U <=> c \in Blocks /\ c \notin block_freemap
      BY FileBlocksAssumption DEF Blocks
<1>2. /\ IsFiniteSet(1 .. max_fs_blocks) /\ Cardinality(1 .. max_fs_blocks) = max_fs_blocks
      /\ IsFiniteSet(Blocks)
      BY FS_Interval, FileBlocksAssumption DEF Blocks
<1>3. /\ IsFiniteSet(block_freemap) /\ Cardinality(block_freemap) \in Nat
      /\ IsFiniteSet(U)
      BY <1>2, FS_Subset, FS_CardinalityType
<1> HIDE DEF U
<1>4. /\ \A b, c : c \in upTo(b) <=> c \in U /\ c <= b
      /\ \A b, c : c \in rank(b) <=> c \in U /\ c < b
      OBVIOUS
<1>5. FreeBlock(k) = CHOOSE b \in U : Cardinality(rank(b)) = k - 1
      BY DEF FreeBlock, U
<1> HIDE DEF upTo, rank
<1>6. \A b : b \in S <=> b \in 0 .. max_fs_blocks /\ Cardinality(upTo(b)) >= k
      OBVIOUS
<1> HIDE DEF S
<1>7. \A b : /\ IsFiniteSet(upTo(b)) /\ Cardinality(upTo(b)) \in Nat
             /\ IsFiniteSet(rank(b)) /\ Cardinality(rank(b)) \in Nat
  <2> TAKE b
  <2>1. upTo(b) \in SUBSET U /\ rank(b) \in SUBSET U
        BY <1>4
  <2>. QED  BY <1>3, <2>1, FS_Subset, FS_CardinalityType
<1>8. max_fs_blocks \in S
  <2>1. upTo(max_fs_blocks) = (1 .. max_fs_blocks) \ block_freemap
        BY <1>1, <1>4
  <2>2. (1 .. max_fs_blocks) \cap block_freemap = block_freemap
        OBVIOUS
  <2>3. Cardinality(upTo(max_fs_blocks)) = max_fs_blocks - Cardinality(block_freemap)
    <3> DEFINE T == 1 .. max_fs_blocks
    <3>1. Cardinality(T \ block_freemap) = Cardinality(T) - Cardinality(T \cap block_freemap)
      <4>1. IsFiniteSet(T)
            BY <1>2
      <4> HIDE DEF T
      <4>. QED  BY <1>3, <4>1, FS_Difference
    <3>. QED  BY <1>2, <2>1, <2>2, <3>1
  <2>. QED  BY <1>1, <1>3, <1>6, <2>3
<1>9. PICK b \in S : \A c \in S : b <= c
  <2>1. S \in SUBSET Nat /\ S # {}
        BY <1>6, <1>8
  <2>. QED  BY <2>1, LeastNumber
<1>10. b \in 1 .. max_fs_blocks
  <2>1. upTo(0) = {}
        BY <1>1, <1>4
  <2>2. Cardinality(upTo(0)) = 0
        BY <2>1, FS_EmptySet
  <2>3. b # 0
        BY <1>6, <2>2
  <2>. QED  BY <1>1, <1>6, <2>3
<1>11. rank(b) = upTo(b - 1)
  <2>1. \A c \in U : c < b <=> c <= b - 1
        BY <1>1, <1>10
  <2>. QED  BY <1>4, <2>1
<1>12. Cardinality(rank(b)) < k
  <2>1. b - 1 \in 0 .. max_fs_blocks /\ b - 1 \notin S
        BY <1>1, <1>9, <1>10
  <2>2. ~(Cardinality(upTo(b - 1)) >= k)
        BY <1>6, <2>1
  <2>. QED  BY <1>7, <1>11, <2>2
<1>13. b \in U
  <2>1. SUFFICES ASSUME b \notin U PROVE FALSE
        OBVIOUS
  <2>2. \A c \in U : c <= b <=> c < b
        BY <1>1, <1>10, <2>1
  <2>3. \A c : c \in upTo(b) <=> c \in rank(b)
        BY <1>4, <2>2
  <2>4. upTo(b) = rank(b)
        BY <2>3
  <2>. QED  BY <1>6, <1>7, <1>12, <2>4
<1>14. Cardinality(rank(b)) = k - 1
  <2>0. \A c \in U : c <= b <=> c < b \/ c = b
        BY <1>1, <1>10
  <2>1. upTo(b) = rank(b) \cup {b} /\ b \notin rank(b)
    <3>1. b \in upTo(b) /\ b \notin rank(b)
          BY <1>1, <1>4, <1>10, <1>13
    <3>2. \A c : c \in upTo(b) <=> c \in rank(b) \/ c = b
          BY <1>4, <2>0, <3>1
    <3>. QED  BY <3>1, <3>2
  <2>2. Cardinality(upTo(b)) = Cardinality(rank(b)) + 1
        BY <1>7, <2>1, FS_AddElement
  <2>. QED  BY <1>6, <1>7, <1>12, <2>2
<1>15. FreeBlock(k) \in U /\ Cardinality(rank(FreeBlock(k))) = k - 1
       BY <1>5, <1>13, <1>14
<1>16. ~(FreeBlock(k) > max_fs_blocks)
  <2>1. SUFFICES ASSUME FreeBlock(k) > max_fs_blocks PROVE FALSE
        OBVIOUS
  <2>2. upTo(max_fs_blocks) \in SUBSET rank(FreeBlock(k))
        BY <1>1, <1>4, <1>15, <2>1
  <2>3. Cardinality(upTo(max_fs_blocks)) <= Cardinality(rank(FreeBlock(k)))
        BY <1>7, <2>2, FS_Subset
  <2>. QED  BY <1>6, <1>7, <1>8, <1>15, <2>3
<1>17. FreeBlock(k) \in (1 .. max_fs_blocks) \ block_freemap
       BY <1>1, <1>15, <1>16
<1>. QED  BY <1>15, <1>17 DEF rank, U

(* The next three are the ways to allocate the block d of logical block bn. *)
(* First: in the inode itself.                                              *)
InTheInode(fm, dn, dk, f, in, dk2, new, bn, d) ==
  /\ f \in Files /\ bn \in Logical /\ IsDirect(bn)
  /\ Block(dn[f], dk, "data", bn) = 0
  /\ Fresh(fm, dn, d) /\ (\A b : b \in new <=> b = d)
  /\ dk2 \in [Blocks -> [Words -> Nat \cup Files]]
  /\ \A b \in Blocks : b # d => dk2[b] = dk[b]
  /\ in.i_indirect = dn[f].i_indirect /\ in.i_dindirect = dn[f].i_dindirect
  /\ \A n \in 0 .. NR_DIRECT_BLOCKS - 1 :
       in.i_block_nr[n] = IF n = bn THEN d ELSE dn[f].i_block_nr[n]

LEMMA DirectChange ==
  ASSUME NEW fm, NEW dn, NEW dk, NEW fl, NEW f, NEW in, NEW dk2, NEW new, NEW bn,
         NEW d,
         Placed(fm, dn, dk, fl), InTheInode(fm, dn, dk, f, in, dk2, new, bn, d)
  PROVE  /\ Changes(fm, dn, dk, f, in, dk2, new, bn)
         /\ Block(in, dk2, "data", bn) = d
<1>u. /\ f \in Files /\ bn \in Logical /\ IsDirect(bn)
      /\ Block(dn[f], dk, "data", bn) = 0
      /\ Fresh(fm, dn, d) /\ (\A b : b \in new <=> b = d)
      /\ dk2 \in [Blocks -> [Words -> Nat \cup Files]]
      /\ \A b \in Blocks : b # d => dk2[b] = dk[b]
      /\ in.i_indirect = dn[f].i_indirect /\ in.i_dindirect = dn[f].i_dindirect
      /\ \A n \in 0 .. NR_DIRECT_BLOCKS - 1 :
           in.i_block_nr[n] = IF n = bn THEN d ELSE dn[f].i_block_nr[n]
      BY DEF InTheInode
<1> USE <1>u
<1> DEFINE old(k, n) == Block(dn[f], dk, k, n)
           now(k, n) == Block(in, dk2, k, n)
<1>1. /\ d # 0 /\ d \in Blocks
      /\ \A k, n : IsSpot(k, n) => old(k, n) # d
      BY PlacedFacts
<1>2. \A k, n : IsSpot(k, n) => Block(dn[f], dk2, k, n) = old(k, n)
  <2>1. ASSUME NEW k, NEW n, IsSpot(k, n), old(k, n) # 0
        PROVE  dk2[old(k, n)] = dk[old(k, n)]
    <3>1. old(k, n) \in Blocks /\ old(k, n) # d
          BY <1>1, <2>1, PlacedFacts
    <3>. QED  BY <3>1
  <2>. QED  BY <2>1, SameBlocks
<1>3. /\ now("indirect", 0) = old("indirect", 0)
      /\ now("double", 0) = old("double", 0)
      BY BlockCases
<1>4. \A n \in Words : now("page", n) = old("page", n)
  <2> TAKE n \in Words
  <2>1. now("page", n) = Block(dn[f], dk2, "page", n)
        BY PageBlock
  <2>. QED  BY <1>2, <2>1, SpotFacts
<1>5. \A n \in Logical : now("data", n) = IF n = bn THEN d ELSE old("data", n)
  <2> TAKE n \in Logical
  <2>1. Block(dn[f], dk2, "data", n) = old("data", n)
        BY <1>2, SpotFacts
  <2>2. CASE IsDirect(n)
    <3>1. now("data", n) = in.i_block_nr[n] /\ old("data", n) = dn[f].i_block_nr[n]
          BY <2>2, DirectBlock
    <3>2. n \in 0 .. NR_DIRECT_BLOCKS - 1
          BY <2>2, LogicalFacts
    <3>. QED  BY <3>1, <3>2
  <2>3. CASE IsIndirect(n)
    <3>1. /\ now("data", n) = Word(dk2, in.i_indirect, Offset(n))
          /\ Block(dn[f], dk2, "data", n) = Word(dk2, dn[f].i_indirect, Offset(n))
          BY <2>3, IndirectBlock
    <3>2. n # bn
          BY <2>3, LogicalFacts
    <3>. QED  BY <2>1, <3>1, <3>2
  <2>4. CASE IsDouble(n)
    <3>1. /\ now("data", n) = Word(dk2, now("page", Page(n)), PageOffset(n))
          /\ Block(dn[f], dk2, "data", n) =
               Word(dk2, Block(dn[f], dk2, "page", Page(n)), PageOffset(n))
          BY <2>4, DoubleBlock
    <3>2. n # bn /\ Page(n) \in Words
          BY <2>4, LogicalFacts
    <3>3. now("page", Page(n)) = Block(dn[f], dk2, "page", Page(n))
          BY <1>2, <1>4, <3>2, SpotFacts
    <3>. QED  BY <2>1, <3>1, <3>2, <3>3
  <2>. QED  BY <2>2, <2>3, <2>4, LogicalFacts
<1>6. \A k, n : IsSpot(k, n) => now(k, n) = IF k = "data" /\ n = bn THEN d ELSE old(k, n)
      BY <1>3, <1>4, <1>5, SpotFacts
<1>7. now("data", bn) = d /\ IsSpot("data", bn)
      BY <1>5, SpotFacts
<1> HIDE DEF old, now
<1>8. /\ \A k, n : IsSpot(k, n) => \/ now(k, n) = old(k, n)
                                   \/ old(k, n) = 0 /\ now(k, n) \in new
      /\ \A b \in new : \E k, n : IsSpot(k, n) /\ now(k, n) = b
      /\ \A k, n, j, m :
           /\ IsSpot(k, n) /\ IsSpot(j, m)
           /\ now(k, n) \in new /\ now(k, n) = now(j, m)
           => k = j /\ n = m
      /\ \A n \in Logical : n # bn => now("data", n) = old("data", n)
      /\ \A b \in Blocks : dk2[b] # dk[b] => b \in new
  <2>1. old("data", bn) = 0
        BY DEF old
  <2>. QED  BY <1>1, <1>5, <1>6, <1>7, <2>1
<1>9. \A b \in new : Fresh(fm, dn, b)
      OBVIOUS
<1>. QED  BY <1>7, <1>8, <1>9 DEF Changes, old, now

(* In the indirect block t, which is new when there is none.                *)
InIndirect(fm, dn, dk, f, in, dk2, new, bn, d, t) ==
  /\ f \in Files /\ bn \in Logical /\ IsIndirect(bn)
  /\ Block(dn[f], dk, "data", bn) = 0
  /\ Fresh(fm, dn, d) /\ t # d
  /\ IF dn[f].i_indirect = 0 THEN Fresh(fm, dn, t) ELSE t = dn[f].i_indirect
  /\ \A b : b \in new <=> b = d \/ (b = t /\ dn[f].i_indirect = 0)
  /\ dk2 \in [Blocks -> [Words -> Nat \cup Files]]
  /\ \A b \in Blocks : b # d /\ b # t => dk2[b] = dk[b]
  /\ \A i \in Words : dk2[t][i] = IF i = Offset(bn) THEN d
                                   ELSE Word(dk, dn[f].i_indirect, i)
  /\ in.i_indirect = t /\ in.i_dindirect = dn[f].i_dindirect
  /\ in.i_block_nr = dn[f].i_block_nr

LEMMA IndirectChange ==
  ASSUME NEW fm, NEW dn, NEW dk, NEW fl, NEW f, NEW in, NEW dk2, NEW new, NEW bn,
         NEW d, NEW t,
         Placed(fm, dn, dk, fl), InIndirect(fm, dn, dk, f, in, dk2, new, bn, d, t)
  PROVE  /\ Changes(fm, dn, dk, f, in, dk2, new, bn)
         /\ Block(in, dk2, "data", bn) = d
<1>u. /\ f \in Files /\ bn \in Logical /\ IsIndirect(bn)
      /\ Block(dn[f], dk, "data", bn) = 0
      /\ Fresh(fm, dn, d) /\ t # d
      /\ IF dn[f].i_indirect = 0 THEN Fresh(fm, dn, t) ELSE t = dn[f].i_indirect
      /\ \A b : b \in new <=> b = d \/ (b = t /\ dn[f].i_indirect = 0)
      /\ dk2 \in [Blocks -> [Words -> Nat \cup Files]]
      /\ \A b \in Blocks : b # d /\ b # t => dk2[b] = dk[b]
      /\ \A i \in Words : dk2[t][i] = IF i = Offset(bn) THEN d
                                       ELSE Word(dk, dn[f].i_indirect, i)
      /\ in.i_indirect = t /\ in.i_dindirect = dn[f].i_dindirect
      /\ in.i_block_nr = dn[f].i_block_nr
      BY DEF InIndirect
<1> USE <1>u
<1> DEFINE old(k, n) == Block(dn[f], dk, k, n)
           now(k, n) == Block(in, dk2, k, n)
<1>1. /\ d # 0 /\ d \in Blocks
      /\ \A k, n : IsSpot(k, n) => old(k, n) # d
      BY PlacedFacts
<1>2. old("indirect", 0) = dn[f].i_indirect /\ old("double", 0) = dn[f].i_dindirect
      BY BlockCases
<1>3. /\ t # 0
      /\ dn[f].i_indirect = 0 => Fresh(fm, dn, t)
      /\ dn[f].i_indirect # 0 => t = old("indirect", 0)
      /\ \A k, n : IsSpot(k, n) /\ old(k, n) = t => k = "indirect" /\ n = 0
  <2>1. CASE dn[f].i_indirect = 0
        BY <2>1, PlacedFacts
  <2>2. CASE dn[f].i_indirect # 0
    <3>1. \A k, n : IsSpot(k, n) /\ old(k, n) = t => k = "indirect" /\ n = 0
      <4> TAKE k, n
      <4> HAVE IsSpot(k, n) /\ old(k, n) = t
      <4>1. old("indirect", 0) # 0 /\ old("indirect", 0) = old(k, n) /\ IsSpot("indirect", 0)
            BY <1>2, <2>2, SpotFacts
      <4>. QED  BY <4>1 DEF Placed, Unique
    <3>. QED  BY <1>2, <2>2, <3>1
  <2>. QED  BY <2>1, <2>2
<1>4. \A k, n : IsSpot(k, n) /\ old(k, n) # 0 /\ k # "indirect" =>
        dk2[old(k, n)] = dk[old(k, n)]
  <2> TAKE k, n
  <2> HAVE IsSpot(k, n) /\ old(k, n) # 0 /\ k # "indirect"
  <2>1. old(k, n) \in Blocks /\ old(k, n) # d /\ old(k, n) # t
        BY <1>1, <1>3, PlacedFacts
  <2>. QED  BY <2>1
<1>5. now("indirect", 0) = t /\ now("double", 0) = old("double", 0)
      BY BlockCases
<1>6. \A n \in Words : now("page", n) = old("page", n)
  <2> TAKE n \in Words
  <2>1. dn[f].i_dindirect # 0 => dk2[dn[f].i_dindirect] = dk[dn[f].i_dindirect]
        BY <1>2, <1>4, SpotFacts
  <2>2. now("page", n) = Word(dk2, dn[f].i_dindirect, n) /\ old("page", n) = Word(dk, dn[f].i_dindirect, n)
        BY PageBlock
  <2>. QED  BY <2>1, <2>2 DEF Word
<1>7. \A n \in Logical : now("data", n) = IF n = bn THEN d ELSE old("data", n)
  <2> TAKE n \in Logical
  <2>1. CASE IsDirect(n)
    <3>1. now("data", n) = in.i_block_nr[n] /\ old("data", n) = dn[f].i_block_nr[n]
          BY <2>1, DirectBlock
    <3>2. n # bn
          BY <2>1, LogicalFacts
    <3>. QED  BY <3>1, <3>2
  <2>2. CASE IsIndirect(n)
    <3>1. now("data", n) = Word(dk2, t, Offset(n)) /\ old("data", n) = Word(dk, dn[f].i_indirect, Offset(n))
          BY <2>2, IndirectBlock
    <3>2. Offset(n) \in Words /\ (Offset(n) = Offset(bn) => n = bn)
          BY <2>2, LogicalFacts
    <3>3. Word(dk2, t, Offset(n)) = dk2[t][Offset(n)]
          BY <1>3 DEF Word
    <3>. QED  BY <3>1, <3>2, <3>3
  <2>3. CASE IsDouble(n)
    <3>1. /\ now("data", n) = Word(dk2, now("page", Page(n)), PageOffset(n))
          /\ old("data", n) = Word(dk, old("page", Page(n)), PageOffset(n))
          BY <2>3, DoubleBlock
    <3>2. n # bn /\ Page(n) \in Words
          BY <2>3, LogicalFacts
    <3>3. now("page", Page(n)) = old("page", Page(n)) /\ IsSpot("page", Page(n))
          BY <1>6, <3>2, SpotFacts
    <3>4. old("page", Page(n)) # 0 => dk2[old("page", Page(n))] = dk[old("page", Page(n))]
          BY <1>4, <3>3
    <3>5. Word(dk2, old("page", Page(n)), PageOffset(n)) = Word(dk, old("page", Page(n)), PageOffset(n))
          BY <3>4 DEF Word
    <3>. QED  BY <3>1, <3>2, <3>3, <3>5
  <2>. QED  BY <2>1, <2>2, <2>3, LogicalFacts
<1>8. \A k, n : IsSpot(k, n) => now(k, n) = IF k = "data" /\ n = bn THEN d
                                            ELSE IF k = "indirect" THEN t ELSE old(k, n)
      BY <1>5, <1>6, <1>7, SpotFacts
<1>9. now("data", bn) = d /\ IsSpot("data", bn) /\ now("indirect", 0) = t /\ IsSpot("indirect", 0)
      BY <1>5, <1>7, SpotFacts
<1>10. old("data", bn) = 0
       OBVIOUS
<1> HIDE DEF old, now
<1>11. \A k, n : IsSpot(k, n) => \/ now(k, n) = old(k, n)
                                 \/ old(k, n) = 0 /\ now(k, n) \in new
  <2>1. ASSUME NEW n, IsSpot("indirect", n)
        PROVE  n = 0
        BY <2>1, SpotFacts
  <2>. QED  BY <1>2, <1>3, <1>8, <1>10, <2>1
<1>12. \A b \in new : \E k, n : IsSpot(k, n) /\ now(k, n) = b
       BY <1>9
<1>13. \A k, n, j, m :
         /\ IsSpot(k, n) /\ IsSpot(j, m)
         /\ now(k, n) \in new /\ now(k, n) = now(j, m)
         => k = j /\ n = m
  <2>1. \A k, n : IsSpot(k, n) /\ now(k, n) = d => k = "data" /\ n = bn
        BY <1>1, <1>8
  <2>2. ASSUME dn[f].i_indirect = 0, NEW k, NEW n, IsSpot(k, n), now(k, n) = t
        PROVE  k = "indirect" /\ n = 0
        BY <1>3, <1>8, <2>2, SpotFacts
  <2>. QED  BY <2>1, <2>2
<1>14. \A n \in Logical : n # bn => now("data", n) = old("data", n)
       BY <1>7
<1>15. \A b \in Blocks : dk2[b] # dk[b] =>
         b \in new \/ \E k, n : IsSpot(k, n) /\ old(k, n) = b /\ (k = "data" => n = bn)
  <2> TAKE b \in Blocks
  <2> HAVE dk2[b] # dk[b]
  <2>1. b = d \/ b = t
        OBVIOUS
  <2>2. CASE b = t /\ dn[f].i_indirect # 0
        BY <1>3, <1>9, <2>2
  <2>. QED  BY <2>1, <2>2
<1>16. \A b \in new : Fresh(fm, dn, b)
       BY <1>3
<1>. QED  BY <1>9, <1>11, <1>12, <1>13, <1>14, <1>15, <1>16 DEF Changes, old, now

(* In the index block page that top leads to, either of which may be new.   *)
InDouble(fm, dn, dk, f, in, dk2, new, bn, d, top, page) ==
  /\ f \in Files /\ bn \in Logical /\ IsDouble(bn)
  /\ Block(dn[f], dk, "data", bn) = 0
  /\ Fresh(fm, dn, d) /\ top # d /\ page # d /\ top # page
  /\ IF dn[f].i_dindirect = 0 THEN Fresh(fm, dn, top) ELSE top = dn[f].i_dindirect
  /\ IF Block(dn[f], dk, "page", Page(bn)) = 0 THEN Fresh(fm, dn, page)
     ELSE page = Block(dn[f], dk, "page", Page(bn))
  /\ \A b : b \in new <=> \/ b = d
                          \/ b = top /\ dn[f].i_dindirect = 0
                          \/ b = page /\ Block(dn[f], dk, "page", Page(bn)) = 0
  /\ dk2 \in [Blocks -> [Words -> Nat \cup Files]]
  /\ \A b \in Blocks : b # d /\ b # top /\ b # page => dk2[b] = dk[b]
  /\ \A i \in Words : dk2[top][i] = IF i = Page(bn) THEN page
                                     ELSE Word(dk, dn[f].i_dindirect, i)
  /\ \A i \in Words : dk2[page][i] = IF i = PageOffset(bn) THEN d
                                      ELSE Word(dk, Block(dn[f], dk, "page", Page(bn)), i)
  /\ in.i_indirect = dn[f].i_indirect /\ in.i_dindirect = top
  /\ in.i_block_nr = dn[f].i_block_nr

LEMMA DoubleChange ==
  ASSUME NEW fm, NEW dn, NEW dk, NEW fl, NEW f, NEW in, NEW dk2, NEW new, NEW bn,
         NEW d, NEW top, NEW page,
         Placed(fm, dn, dk, fl), InDouble(fm, dn, dk, f, in, dk2, new, bn, d, top, page)
  PROVE  /\ Changes(fm, dn, dk, f, in, dk2, new, bn)
         /\ Block(in, dk2, "data", bn) = d
<1>u. /\ f \in Files /\ bn \in Logical /\ IsDouble(bn)
      /\ Block(dn[f], dk, "data", bn) = 0
      /\ Fresh(fm, dn, d) /\ top # d /\ page # d /\ top # page
      /\ IF dn[f].i_dindirect = 0 THEN Fresh(fm, dn, top) ELSE top = dn[f].i_dindirect
      /\ IF Block(dn[f], dk, "page", Page(bn)) = 0 THEN Fresh(fm, dn, page)
         ELSE page = Block(dn[f], dk, "page", Page(bn))
      /\ \A b : b \in new <=> \/ b = d
                              \/ b = top /\ dn[f].i_dindirect = 0
                              \/ b = page /\ Block(dn[f], dk, "page", Page(bn)) = 0
      /\ dk2 \in [Blocks -> [Words -> Nat \cup Files]]
      /\ \A b \in Blocks : b # d /\ b # top /\ b # page => dk2[b] = dk[b]
      /\ \A i \in Words : dk2[top][i] = IF i = Page(bn) THEN page
                                         ELSE Word(dk, dn[f].i_dindirect, i)
      /\ \A i \in Words : dk2[page][i] = IF i = PageOffset(bn) THEN d
                                          ELSE Word(dk, Block(dn[f], dk, "page", Page(bn)), i)
      /\ in.i_indirect = dn[f].i_indirect /\ in.i_dindirect = top
      /\ in.i_block_nr = dn[f].i_block_nr
      BY DEF InDouble
<1> USE <1>u
<1> DEFINE old(k, n) == Block(dn[f], dk, k, n)
           now(k, n) == Block(in, dk2, k, n)
           p == Page(bn)
<1>1. /\ d # 0 /\ d \in Blocks
      /\ \A k, n : IsSpot(k, n) => old(k, n) # d
      BY PlacedFacts
<1>2. /\ old("indirect", 0) = dn[f].i_indirect /\ old("double", 0) = dn[f].i_dindirect
      /\ p \in Words /\ IsSpot("page", p) /\ IsSpot("double", 0) /\ IsSpot("data", bn)
      BY BlockCases, LogicalFacts, SpotFacts
<1>3. Unique(dn, dk)
      BY DEF Placed
<1>4. /\ top # 0
      /\ dn[f].i_dindirect = 0 => Fresh(fm, dn, top)
      /\ dn[f].i_dindirect # 0 => top = old("double", 0)
      /\ \A k, n : IsSpot(k, n) /\ old(k, n) = top => k = "double" /\ n = 0
  <2>1. CASE dn[f].i_dindirect = 0
        BY <2>1, PlacedFacts
  <2>2. CASE dn[f].i_dindirect # 0
    <3>1. \A k, n : IsSpot(k, n) /\ old(k, n) = top => k = "double" /\ n = 0
      <4> TAKE k, n
      <4> HAVE IsSpot(k, n) /\ old(k, n) = top
      <4>1. old("double", 0) # 0 /\ old("double", 0) = old(k, n) /\ IsSpot("double", 0)
            BY <1>2, <2>2
      <4>. QED  BY <1>3, <4>1 DEF Unique
    <3>. QED  BY <1>2, <2>2, <3>1
  <2>. QED  BY <2>1, <2>2
<1>5. /\ page # 0
      /\ old("page", p) = 0 => Fresh(fm, dn, page)
      /\ old("page", p) # 0 => page = old("page", p)
      /\ \A k, n : IsSpot(k, n) /\ old(k, n) = page => k = "page" /\ n = p
  <2>1. CASE old("page", p) = 0
        BY <2>1, PlacedFacts
  <2>2. CASE old("page", p) # 0
    <3>1. \A k, n : IsSpot(k, n) /\ old(k, n) = page => k = "page" /\ n = p
      <4> TAKE k, n
      <4> HAVE IsSpot(k, n) /\ old(k, n) = page
      <4>1. old("page", p) # 0 /\ old("page", p) = old(k, n) /\ IsSpot("page", p)
            BY <1>2, <2>2
      <4>. QED  BY <1>3, <4>1 DEF Unique
    <3>. QED  BY <2>2, <3>1
  <2>. QED  BY <2>1, <2>2
<1>6. \A k, n : IsSpot(k, n) /\ old(k, n) # 0 /\ k # "double" /\ ~(k = "page" /\ n = p) =>
        dk2[old(k, n)] = dk[old(k, n)]
  <2> TAKE k, n
  <2> HAVE IsSpot(k, n) /\ old(k, n) # 0 /\ k # "double" /\ ~(k = "page" /\ n = p)
  <2>1. old(k, n) \in Blocks /\ old(k, n) # d /\ old(k, n) # top /\ old(k, n) # page
        BY <1>1, <1>4, <1>5, PlacedFacts
  <2>. QED  BY <2>1
<1>7. now("double", 0) = top /\ now("indirect", 0) = old("indirect", 0)
      BY BlockCases
<1>8. \A n \in Words : now("page", n) = IF n = p THEN page ELSE old("page", n)
  <2> TAKE n \in Words
  <2>1. now("page", n) = Word(dk2, top, n) /\ old("page", n) = Word(dk, dn[f].i_dindirect, n)
        BY PageBlock
  <2>2. Word(dk2, top, n) = dk2[top][n]
        BY <1>4 DEF Word
  <2>. QED  BY <2>1, <2>2
<1>9. \A n \in Logical : now("data", n) = IF n = bn THEN d ELSE old("data", n)
  <2> TAKE n \in Logical
  <2>1. CASE IsDirect(n)
    <3>1. now("data", n) = in.i_block_nr[n] /\ old("data", n) = dn[f].i_block_nr[n]
          BY <2>1, DirectBlock
    <3>2. n # bn
          BY <2>1, LogicalFacts
    <3>. QED  BY <3>1, <3>2
  <2>2. CASE IsIndirect(n)
    <3>1. /\ now("data", n) = Word(dk2, dn[f].i_indirect, Offset(n))
          /\ old("data", n) = Word(dk, dn[f].i_indirect, Offset(n))
          BY <2>2, IndirectBlock
    <3>2. n # bn
          BY <2>2, LogicalFacts
    <3>3. dn[f].i_indirect # 0 => dk2[dn[f].i_indirect] = dk[dn[f].i_indirect]
          BY <1>2, <1>6, SpotFacts
    <3>4. Word(dk2, dn[f].i_indirect, Offset(n)) = Word(dk, dn[f].i_indirect, Offset(n))
          BY <3>3 DEF Word
    <3>. QED  BY <3>1, <3>2, <3>4
  <2>3. CASE IsDouble(n)
    <3>1. /\ now("data", n) = Word(dk2, now("page", Page(n)), PageOffset(n))
          /\ old("data", n) = Word(dk, old("page", Page(n)), PageOffset(n))
          BY <2>3, DoubleBlock
    <3>2. Page(n) \in Words /\ PageOffset(n) \in Words
          BY <2>3, LogicalFacts
    <3>3. CASE Page(n) = p
      <4>1. now("page", Page(n)) = page
            BY <1>8, <3>2, <3>3
      <4>2. Word(dk2, page, PageOffset(n)) = dk2[page][PageOffset(n)]
            BY <1>5 DEF Word
      <4>3. PageOffset(n) = PageOffset(bn) <=> n = bn
            BY <2>3, <3>3, LogicalFacts
      <4>. QED  BY <3>1, <3>2, <3>3, <4>1, <4>2, <4>3
    <3>4. CASE Page(n) # p
      <4>1. now("page", Page(n)) = old("page", Page(n)) /\ IsSpot("page", Page(n))
            BY <1>8, <3>2, <3>4, SpotFacts
      <4>2. old("page", Page(n)) # 0 => dk2[old("page", Page(n))] = dk[old("page", Page(n))]
            BY <1>6, <3>4, <4>1
      <4>3. Word(dk2, old("page", Page(n)), PageOffset(n)) = Word(dk, old("page", Page(n)), PageOffset(n))
            BY <4>2 DEF Word
      <4>4. n # bn
            BY <3>4
      <4>. QED  BY <3>1, <4>1, <4>3, <4>4
    <3>. QED  BY <3>3, <3>4
  <2>. QED  BY <2>1, <2>2, <2>3, LogicalFacts
<1>10. \A k, n : IsSpot(k, n) => now(k, n) = IF k = "data" /\ n = bn THEN d
                                             ELSE IF k = "double" THEN top
                                             ELSE IF k = "page" /\ n = p THEN page ELSE old(k, n)
       BY <1>7, <1>8, <1>9, SpotFacts
<1>11. now("data", bn) = d /\ now("double", 0) = top /\ now("page", p) = page
       BY <1>2, <1>7, <1>8, <1>9
<1>12. old("data", bn) = 0
       OBVIOUS
<1>13. /\ \A b : b \in new <=> \/ b = d
                               \/ b = top /\ dn[f].i_dindirect = 0
                               \/ b = page /\ old("page", p) = 0
       OBVIOUS
<1> HIDE DEF old, now, p
<1>14. \A k, n : IsSpot(k, n) => \/ now(k, n) = old(k, n)
                                 \/ old(k, n) = 0 /\ now(k, n) \in new
  <2>1. ASSUME NEW n, IsSpot("double", n)
        PROVE  n = 0
        BY <2>1, SpotFacts
  <2>. QED  BY <1>2, <1>4, <1>5, <1>10, <1>12, <1>13, <2>1
<1>15. \A b \in new : \E k, n : IsSpot(k, n) /\ now(k, n) = b
       BY <1>2, <1>11, <1>13
<1>16. \A k, n, j, m :
         /\ IsSpot(k, n) /\ IsSpot(j, m)
         /\ now(k, n) \in new /\ now(k, n) = now(j, m)
         => k = j /\ n = m
  <2>1. \A k, n : IsSpot(k, n) /\ now(k, n) = d => k = "data" /\ n = bn
        BY <1>1, <1>10
  <2>2. ASSUME NEW k, NEW n, IsSpot(k, n), now(k, n) = top
        PROVE  k = "double" /\ n = 0
        BY <1>4, <1>10, <2>2, SpotFacts
  <2>3. \A k, n : IsSpot(k, n) /\ now(k, n) = page => k = "page" /\ n = p
        BY <1>5, <1>10
  <2>. QED  BY <1>13, <2>1, <2>2, <2>3
<1>17. \A n \in Logical : n # bn => now("data", n) = old("data", n)
       BY <1>9
<1>18. \A b \in Blocks : dk2[b] # dk[b] =>
         b \in new \/ \E k, n : IsSpot(k, n) /\ old(k, n) = b /\ (k = "data" => n = bn)
  <2> TAKE b \in Blocks
  <2> HAVE dk2[b] # dk[b]
  <2>1. b = d \/ b = top \/ b = page
        OBVIOUS
  <2>2. CASE b = top /\ dn[f].i_dindirect # 0
    <3>1. IsSpot("double", 0) /\ old("double", 0) = b /\ "double" # "data"
          BY <1>2, <1>4, <2>2
    <3>. QED  BY <3>1
  <2>3. CASE b = page /\ old("page", p) # 0
    <3>1. IsSpot("page", p) /\ old("page", p) = b /\ "page" # "data"
          BY <1>2, <1>5, <2>3
    <3>. QED  BY <3>1
  <2>. QED  BY <1>13, <2>1, <2>2, <2>3
<1>19. \A b \in new : Fresh(fm, dn, b)
       BY <1>4, <1>5, <1>13
<1>. QED  BY <1>11, <1>14, <1>15, <1>16, <1>17, <1>18, <1>19 DEF Changes, old, now

(* A double indirect block that stays, empty, when there is no more space.  *)
InBelow(fm, dn, f, in, new, top) ==
  /\ f \in Files /\ dn[f].i_dindirect = 0 /\ Fresh(fm, dn, top)
  /\ \A b : b \in new <=> b = top
  /\ in.i_indirect = dn[f].i_indirect /\ in.i_dindirect = top
  /\ in.i_block_nr = dn[f].i_block_nr

LEMMA BelowChange ==
  ASSUME NEW fm, NEW dn, NEW dk, NEW fl, Placed(fm, dn, dk, fl),
         NEW f, NEW in, NEW new, NEW top, InBelow(fm, dn, f, in, new, top)
  PROVE  /\ Changes(fm, dn, dk, f, in, dk, new, -1)
         /\ \A n \in Logical : Block(in, dk, "data", n) = Block(dn[f], dk, "data", n)
<1>u. /\ f \in Files /\ dn[f].i_dindirect = 0 /\ Fresh(fm, dn, top)
      /\ \A b : b \in new <=> b = top
      /\ in.i_indirect = dn[f].i_indirect /\ in.i_dindirect = top
      /\ in.i_block_nr = dn[f].i_block_nr
      BY DEF InBelow
<1> USE <1>u
<1> DEFINE old(k, n) == Block(dn[f], dk, k, n)
           now(k, n) == Block(in, dk, k, n)
<1>1. /\ top # 0 /\ dk[top] = Zero
      /\ \A k, n : IsSpot(k, n) => old(k, n) # top
      BY PlacedFacts
<1>2. now("double", 0) = top /\ old("double", 0) = 0 /\ now("indirect", 0) = old("indirect", 0)
      BY BlockCases
<1>3. \A n \in Words : now("page", n) = old("page", n)
  <2> TAKE n \in Words
  <2>1. now("page", n) = Word(dk, top, n) /\ old("page", n) = Word(dk, dn[f].i_dindirect, n)
        BY PageBlock
  <2>. QED  BY <1>1, <2>1 DEF Word, Zero
<1>4. \A n \in Logical : now("data", n) = old("data", n)
  <2> TAKE n \in Logical
  <2>1. CASE IsDirect(n)
    <3>1. now("data", n) = in.i_block_nr[n] /\ old("data", n) = dn[f].i_block_nr[n]
          BY <2>1, DirectBlock
    <3>. QED  BY <3>1
  <2>2. CASE IsIndirect(n)
    <3>1. /\ now("data", n) = Word(dk, in.i_indirect, Offset(n))
          /\ old("data", n) = Word(dk, dn[f].i_indirect, Offset(n))
          BY <2>2, IndirectBlock
    <3>. QED  BY <3>1
  <2>3. CASE IsDouble(n)
    <3>1. /\ now("data", n) = Word(dk, now("page", Page(n)), PageOffset(n))
          /\ old("data", n) = Word(dk, old("page", Page(n)), PageOffset(n))
          BY <2>3, DoubleBlock
    <3>2. Page(n) \in Words
          BY <2>3, LogicalFacts
    <3>. QED  BY <1>3, <3>1, <3>2
  <2>. QED  BY <2>1, <2>2, <2>3, LogicalFacts
<1>5. \A k, n : IsSpot(k, n) => now(k, n) = IF k = "double" THEN top ELSE old(k, n)
      BY <1>2, <1>3, <1>4, SpotFacts
<1>6. \A n : IsSpot("double", n) => n = 0
      BY SpotFacts
<1>7. dk \in [Blocks -> [Words -> Nat \cup Files]]
      BY DEF Placed, Typed
<1> HIDE DEF old, now
<1>8. /\ \A k, n : IsSpot(k, n) => \/ now(k, n) = old(k, n)
                                   \/ old(k, n) = 0 /\ now(k, n) \in new
      /\ \A b \in new : \E k, n : IsSpot(k, n) /\ now(k, n) = b
      /\ \A k, n, j, m :
           /\ IsSpot(k, n) /\ IsSpot(j, m)
           /\ now(k, n) \in new /\ now(k, n) = now(j, m)
           => k = j /\ n = m
      BY <1>1, <1>2, <1>5, <1>6, SpotFacts
<1>. QED  BY <1>4, <1>7, <1>8 DEF Changes, old, now

(* A data block that is there already is written again.                     *)
InAgain(dn, dk, f, in, dk2, new, bn, d) ==
  /\ f \in Files /\ bn \in Logical /\ d = Block(dn[f], dk, "data", bn) /\ d # 0
  /\ \A b : b \notin new
  /\ dk2 \in [Blocks -> [Words -> Nat \cup Files]]
  /\ \A b \in Blocks : b # d => dk2[b] = dk[b]
  /\ in.i_indirect = dn[f].i_indirect /\ in.i_dindirect = dn[f].i_dindirect
  /\ in.i_block_nr = dn[f].i_block_nr

LEMMA AgainChange ==
  ASSUME NEW fm, NEW dn, NEW dk, NEW fl, Placed(fm, dn, dk, fl),
         NEW f, NEW in, NEW dk2, NEW new, NEW bn, NEW d,
         InAgain(dn, dk, f, in, dk2, new, bn, d)
  PROVE  /\ Changes(fm, dn, dk, f, in, dk2, new, bn)
         /\ Block(in, dk2, "data", bn) = d
<1>u. /\ f \in Files /\ bn \in Logical /\ d = Block(dn[f], dk, "data", bn) /\ d # 0
      /\ \A b : b \notin new
      /\ dk2 \in [Blocks -> [Words -> Nat \cup Files]]
      /\ \A b \in Blocks : b # d => dk2[b] = dk[b]
      /\ in.i_indirect = dn[f].i_indirect /\ in.i_dindirect = dn[f].i_dindirect
      /\ in.i_block_nr = dn[f].i_block_nr
      BY DEF InAgain
<1> USE <1>u
<1> DEFINE old(k, n) == Block(dn[f], dk, k, n)
           now(k, n) == Block(in, dk2, k, n)
<1>1. Unique(dn, dk) /\ IsSpot("data", bn)
      BY SpotFacts DEF Placed
<1>2. \A k, n : IsSpot(k, n) => Block(dn[f], dk2, k, n) = old(k, n)
  <2>1. ASSUME NEW k, NEW n, IsSpot(k, n), k # "data", old(k, n) # 0
        PROVE  dk2[old(k, n)] = dk[old(k, n)]
    <3>1. old(k, n) \in Blocks
          BY <2>1, PlacedFacts
    <3>2. old(k, n) # d
          BY <1>1, <2>1 DEF Unique
    <3>. QED  BY <3>1, <3>2
  <2>. QED  BY <2>1, SameBlocks
<1>3. \A k, n : IsSpot(k, n) => now(k, n) = Block(dn[f], dk2, k, n)
      BY DEF Block, DataAt, IsSpot
<1>4. \A k, n : IsSpot(k, n) => now(k, n) = old(k, n)
      BY <1>2, <1>3
<1> HIDE DEF old, now
<1>5. /\ \A k, n : IsSpot(k, n) => \/ now(k, n) = old(k, n)
                                   \/ old(k, n) = 0 /\ now(k, n) \in new
      /\ \A n \in Logical : n # bn => now("data", n) = old("data", n)
      BY <1>4, SpotFacts
<1>6. \A b \in Blocks : dk2[b] # dk[b] =>
         b \in new \/ \E k, n : IsSpot(k, n) /\ old(k, n) = b /\ (k = "data" => n = bn)
      BY <1>1 DEF old
<1>7. now("data", bn) = d
      BY <1>1, <1>4 DEF old
<1>. QED  BY <1>5, <1>6, <1>7 DEF Changes, old, now

-----------------------------------------------------------------------------
(* Other changes of the blocks                                              *)

(* The blocks of a file are found from its pointers alone.                  *)
LEMMA SamePointers ==
  ASSUME NEW in, NEW in2, NEW dk,
         in2.i_indirect = in.i_indirect, in2.i_dindirect = in.i_dindirect,
         in2.i_block_nr = in.i_block_nr
  PROVE  \A k, n : IsSpot(k, n) => Block(in2, dk, k, n) = Block(in, dk, k, n)
BY DEF Block, DataAt, IsSpot

(* The data blocks of a file without indirect block do not change when it   *)
(* is given one that is empty.                                              *)
LEMMA DanglingPointer ==
  ASSUME NEW in, NEW in2, NEW dk,
         in.i_indirect = 0, in2.i_indirect # 0, dk[in2.i_indirect] = Zero,
         in2.i_dindirect = in.i_dindirect, in2.i_block_nr = in.i_block_nr
  PROVE  \A k, n : IsSpot(k, n) /\ k # "indirect" => Block(in2, dk, k, n) = Block(in, dk, k, n)
<1>1. Block(in2, dk, "double", 0) = Block(in, dk, "double", 0)
      BY BlockCases
<1>2. \A n \in Words : Block(in2, dk, "page", n) = Block(in, dk, "page", n)
      BY PageBlock
<1>3. \A n \in Logical : Block(in2, dk, "data", n) = Block(in, dk, "data", n)
  <2> TAKE n \in Logical
  <2>1. CASE IsDirect(n)
        BY <2>1, DirectBlock
  <2>2. CASE IsIndirect(n)
    <3>1. /\ Block(in2, dk, "data", n) = Word(dk, in2.i_indirect, Offset(n))
          /\ Block(in, dk, "data", n) = Word(dk, in.i_indirect, Offset(n))
          BY <2>2, IndirectBlock
    <3>2. Offset(n) \in Words
          BY <2>2, LogicalFacts
    <3>. QED  BY <3>1, <3>2 DEF Word, Zero
  <2>3. CASE IsDouble(n)
    <3>1. /\ Block(in2, dk, "data", n) = Word(dk, Block(in2, dk, "page", Page(n)), PageOffset(n))
          /\ Block(in, dk, "data", n) = Word(dk, Block(in, dk, "page", Page(n)), PageOffset(n))
          BY <2>3, DoubleBlock
    <3>2. Page(n) \in Words
          BY <2>3, LogicalFacts
    <3>. QED  BY <1>2, <3>1, <3>2
  <2>. QED  BY <2>1, <2>2, <2>3, LogicalFacts
<1>. QED  BY <1>1, <1>2, <1>3, SpotFacts

(* The inodes dn2 have the pointers of dn, but that file f may have a       *)
(* pointer to an indirect block that is free.  fl2 are the files that have  *)
(* seen a failure then.                                                     *)
Dangles(fm, dn, dk, fl, f, dn2, fl2) ==
  /\ Placed(fm, dn, dk, fl)
  /\ f \in Files /\ dn2 \in [Files -> Inodes] /\ fl \subseteq fl2
  /\ \A g \in Files : /\ dn2[g].i_dindirect = dn[g].i_dindirect
                      /\ dn2[g].i_block_nr = dn[g].i_block_nr
                      /\ dn2[g].block_count = dn[g].block_count
                      /\ g # f => dn2[g].i_indirect = dn[g].i_indirect
  /\ \/ dn2[f].i_indirect = dn[f].i_indirect
     \/ dn[f].i_indirect = 0 /\ f \in fl2 /\ Fresh(fm, dn, dn2[f].i_indirect)

(* Blocks are still where they should be, and the data are the same.        *)
LEMMA DanglesPlaced ==
  ASSUME NEW fm, NEW dn, NEW dk, NEW fl, NEW f, NEW dn2, NEW fl2,
         Dangles(fm, dn, dk, fl, f, dn2, fl2)
  PROVE  /\ Placed(fm, dn2, dk, fl2)
         /\ \A used : Counted(fm, dn, dk, used) => Counted(fm, dn2, dk, used)
         /\ \A g \in Files : \A n \in Logical :
              Block(dn2[g], dk, "data", n) = Block(dn[g], dk, "data", n)
<1>1. /\ Placed(fm, dn, dk, fl)
      /\ f \in Files /\ dn2 \in [Files -> Inodes] /\ fl \subseteq fl2
      /\ \A g \in Files : dn2[g].block_count = dn[g].block_count
      BY DEF Dangles
<1> USE <1>1
<1> DEFINE old(g, k, n) == Block(dn[g], dk, k, n)
           now(g, k, n) == Block(dn2[g], dk, k, n)
           t == dn2[f].i_indirect
<1>2. ASSUME NEW g \in Files, NEW k, NEW n, IsSpot(k, n)
      PROVE  \/ now(g, k, n) = old(g, k, n)
             \/ /\ g = f /\ k = "indirect" /\ n = 0
                /\ now(g, k, n) = t /\ old(g, k, n) = 0 /\ f \in fl2 /\ Fresh(fm, dn, t)
  <2>1. /\ dn2[g].i_dindirect = dn[g].i_dindirect
        /\ dn2[g].i_block_nr = dn[g].i_block_nr
        BY DEF Dangles
  <2>2. CASE dn2[g].i_indirect = dn[g].i_indirect
        BY <1>2, <2>1, <2>2, SamePointers
  <2>3. CASE g = f /\ dn[f].i_indirect = 0 /\ f \in fl2 /\ Fresh(fm, dn, t)
    <3>1. dk[t] = Zero /\ t # 0
          BY <2>3, PlacedFacts
    <3>2. k # "indirect" => now(g, k, n) = old(g, k, n)
          BY <1>2, <2>1, <2>3, <3>1, DanglingPointer
    <3>3. k = "indirect" => n = 0 /\ now(g, k, n) = t /\ old(g, k, n) = 0
          BY <1>2, <2>3, SpotFacts, BlockCases
    <3>. QED  BY <2>3, <3>2, <3>3
  <2>. QED  BY <2>2, <2>3 DEF Dangles
<1>3. Fresh(fm, dn, t) =>
        /\ t # 0 /\ t \notin fm /\ t \in 1 .. max_fs_blocks
        /\ \A g \in Files : \A k, n : IsSpot(k, n) => old(g, k, n) # t
      BY PlacedFacts
<1>4. \A g \in Files : now(g, "indirect", 0) = dn2[g].i_indirect /\ old(g, "indirect", 0) = dn[g].i_indirect
      BY BlockCases
<1>5. \A g \in Files : \A n \in Logical : now(g, "data", n) = old(g, "data", n)
      BY <1>2, SpotFacts
<1>6. Sound(fm, dn, dk, fl) /\ Unique(dn, dk) /\ Covered(fm, dn, dk) /\ Emptied(fm, dn, dk)
      BY DEF Placed
<1>7. Typed(fm, dn2, dk) /\ \A b \in fm : b # 0
      BY DEF Placed, Typed
<1>8. Sound(fm, dn2, dk, fl2)
  <2>1. SUFFICES ASSUME NEW g \in Files, NEW k, NEW n, IsSpot(k, n), now(g, k, n) # 0
                 PROVE  \/ now(g, k, n) \in fm
                        \/ k = "indirect" /\ g \in fl2 /\ now(g, k, n) \in 1 .. max_fs_blocks
        BY DEF Sound
  <2>2. CASE now(g, k, n) = old(g, k, n)
        BY <1>6, <2>1, <2>2 DEF Sound
  <2>. QED  BY <1>2, <1>3, <2>1, <2>2
<1>9. Unique(dn2, dk)
  <2>1. SUFFICES ASSUME NEW g \in Files, NEW h \in Files, NEW k, NEW n, NEW j, NEW m,
                        IsSpot(k, n), IsSpot(j, m),
                        now(g, k, n) # 0, now(g, k, n) = now(h, j, m)
                 PROVE  g = h /\ k = j /\ n = m
        BY DEF Unique
  <2>2. CASE now(g, k, n) = old(g, k, n) /\ now(h, j, m) = old(h, j, m)
    <3>1. old(g, k, n) # 0 /\ old(g, k, n) = old(h, j, m)
          BY <2>1, <2>2
    <3>2. Unique(dn, dk)
          BY <1>6
    <3>. QED  BY <2>1, <3>1, <3>2 DEF Unique
  <2>3. \/ now(g, k, n) = old(g, k, n)
        \/ /\ g = f /\ k = "indirect" /\ n = 0 /\ now(g, k, n) = t
           /\ \A h2 \in Files : \A k2, n2 : IsSpot(k2, n2) => old(h2, k2, n2) # t
        BY <1>2, <1>3, <2>1
  <2>4. \/ now(h, j, m) = old(h, j, m)
        \/ /\ h = f /\ j = "indirect" /\ m = 0 /\ now(h, j, m) = t
           /\ \A h2 \in Files : \A k2, n2 : IsSpot(k2, n2) => old(h2, k2, n2) # t
        BY <1>2, <1>3, <2>1
  <2> HIDE DEF now, old, t
  <2>. QED  BY <2>1, <2>2, <2>3, <2>4
<1>10. Covered(fm, dn2, dk)
  <2>1. SUFFICES ASSUME NEW b \in fm
                 PROVE  \E g \in Files : \E k, n : IsSpot(k, n) /\ now(g, k, n) = b
        BY DEF Covered
  <2>2. PICK g \in Files : \E k, n : IsSpot(k, n) /\ old(g, k, n) = b
        BY <1>6 DEF Covered
  <2>3. PICK k, n : IsSpot(k, n) /\ old(g, k, n) = b
        BY <2>2
  <2>4. now(g, k, n) = b
        BY <1>2, <1>7, <2>3
  <2>. QED  BY <2>3, <2>4
<1>11. Emptied(fm, dn2, dk)
  <2>1. SUFFICES ASSUME NEW b \in Blocks \ fm, \A g \in Files : dn2[g].i_indirect # b
                 PROVE  dk[b] = Zero
        BY DEF Emptied
  <2>2. \A g \in Files : dn[g].i_indirect # b
    <3>1. ASSUME NEW g \in Files, dn[g].i_indirect = b PROVE FALSE
      <4>1. b # 0
            BY DEF Blocks
      <4>. QED  BY <1>2, <1>4, <2>1, <3>1, <4>1, SpotFacts
    <3>. QED  BY <3>1
  <2>. QED  BY <1>6, <2>2 DEF Emptied
<1>12. \A g \in Files : BlocksOf(fm, dn2[g], dk) = BlocksOf(fm, dn[g], dk)
  <2> TAKE g \in Files
  <2>1. \A b \in fm : (\E k, n : IsSpot(k, n) /\ now(g, k, n) = b) <=>
                      (\E k, n : IsSpot(k, n) /\ old(g, k, n) = b)
        BY <1>2, <1>3, <1>7
  <2>. QED  BY <2>1 DEF BlocksOf
<1>13. \A used : Counted(fm, dn, dk, used) => Counted(fm, dn2, dk, used)
       BY <1>12 DEF Counted
<1>14. Placed(fm, dn2, dk, fl2)
       BY <1>7, <1>8, <1>9, <1>10, <1>11 DEF Placed
<1>. QED  BY <1>5, <1>13, <1>14

(* An empty file has no block.                                              *)
LEMMA EmptyFile ==
  /\ EmptyInode \in Inodes /\ EmptyInode.block_count = 0
  /\ EmptyInode.i_indirect = 0 /\ EmptyInode.i_dindirect = 0 /\ EmptyInode.i_size = 0
  /\ \A dk, k, n : IsSpot(k, n) => Block(EmptyInode, dk, k, n) = 0
<1>1. /\ EmptyInode \in Inodes /\ EmptyInode.block_count = 0
      /\ EmptyInode.i_indirect = 0 /\ EmptyInode.i_dindirect = 0 /\ EmptyInode.i_size = 0
      /\ \A i \in 0 .. NR_DIRECT_BLOCKS - 1 : EmptyInode.i_block_nr[i] = 0
      BY DEF EmptyInode, Inodes
<1>2. ASSUME NEW dk
      PROVE  \A k, n : IsSpot(k, n) => Block(EmptyInode, dk, k, n) = 0
  <2>1. \A i : Word(dk, 0, i) = 0
        BY DEF Word
  <2>2. \A n \in Words : Block(EmptyInode, dk, "page", n) = 0
        BY <1>1, <2>1, PageBlock
  <2>3. \A n \in Logical : Block(EmptyInode, dk, "data", n) = 0
    <3> TAKE n \in Logical
    <3>1. CASE IsDirect(n)
      <4>1. n \in 0 .. NR_DIRECT_BLOCKS - 1
            BY <3>1, LogicalFacts
      <4>. QED  BY <1>1, <3>1, <4>1, DirectBlock
    <3>2. CASE IsIndirect(n)
          BY <1>1, <2>1, <3>2, IndirectBlock
    <3>3. CASE IsDouble(n)
      <4>1. Page(n) \in Words
            BY <3>3, LogicalFacts
      <4>. QED  BY <2>1, <2>2, <3>3, <4>1, DoubleBlock
    <3>. QED  BY <3>1, <3>2, <3>3, LogicalFacts
  <2>. QED  BY <1>1, <2>2, <2>3, SpotFacts, BlockCases
<1>. QED  BY <1>1, <1>2

(* File f is removed with all its blocks R, which are zeroed, and its inode *)
(* becomes empty.                                                           *)
Removed(fm, dn, dk, fl, f, R, dn2, dk2) ==
  /\ Placed(fm, dn, dk, fl)
  /\ f \in Files /\ R = BlocksOf(fm, dn[f], dk)
  /\ dn[f].i_indirect # 0 => dn[f].i_indirect \in R
  /\ dn2 \in [Files -> Inodes] /\ dn2[f] = EmptyInode
  /\ \A g \in Files \ {f} : dn2[g] = dn[g]
  /\ dk2 \in [Blocks -> [Words -> Nat \cup Files]]
  /\ \A b \in Blocks : dk2[b] = IF b \in R THEN Zero ELSE dk[b]

(* The other files keep their data, and file f has none.                    *)
OthersKeep(dn, dk, f, dn2, dk2) ==
  /\ \A g \in Files \ {f} : \A n \in Logical, u \in Words :
       Word(dk2, Block(dn2[g], dk2, "data", n), u) = Word(dk, Block(dn[g], dk, "data", n), u)
  /\ \A g \in Files \ {f} : \A n \in Logical :
       Block(dn2[g], dk2, "data", n) = Block(dn[g], dk, "data", n)
  /\ \A n \in Logical : Block(dn2[f], dk2, "data", n) = 0

LEMMA RemovedPlaced ==
  ASSUME NEW fm, NEW dn, NEW dk, NEW fl, NEW f, NEW R, NEW dn2, NEW dk2, NEW fm2, NEW fl2,
         Removed(fm, dn, dk, fl, f, R, dn2, dk2), fm2 = fm \ R, fl2 = fl \ {f}
  PROVE  /\ Placed(fm2, dn2, dk2, fl2)
         /\ \A used : Counted(fm, dn, dk, used) => Counted(fm2, dn2, dk2, used - Cardinality(R))
         /\ OthersKeep(dn, dk, f, dn2, dk2)
<1>1. /\ Placed(fm, dn, dk, fl)
      /\ f \in Files /\ R = BlocksOf(fm, dn[f], dk)
      /\ dn[f].i_indirect # 0 => dn[f].i_indirect \in R
      /\ dn2 \in [Files -> Inodes] /\ dn2[f] = EmptyInode
      /\ \A g \in Files \ {f} : dn2[g] = dn[g]
      /\ dk2 \in [Blocks -> [Words -> Nat \cup Files]]
      /\ \A b \in Blocks : dk2[b] = IF b \in R THEN Zero ELSE dk[b]
      BY DEF Removed
<1>2. /\ Sound(fm, dn, dk, fl) /\ Unique(dn, dk) /\ Covered(fm, dn, dk) /\ Emptied(fm, dn, dk)
      /\ Typed(fm, dn, dk)
      BY <1>1 DEF Placed
<1>3. /\ \A b \in fm : b # 0 /\ b \in Blocks
      /\ \A b : b \in R <=> b \in fm /\ \E k, n : IsSpot(k, n) /\ Block(dn[f], dk, k, n) = b
      BY <1>1, <1>2, FileBlocksAssumption DEF BlocksOf, Typed, Blocks
<1> DEFINE old(g, k, n) == Block(dn[g], dk, k, n)
           now(g, k, n) == Block(dn2[g], dk2, k, n)
<1>4. ASSUME NEW g \in Files \ {f}, NEW k, NEW n, IsSpot(k, n), old(g, k, n) # 0
      PROVE  old(g, k, n) \notin R /\ dk2[old(g, k, n)] = dk[old(g, k, n)]
  <2>1. old(g, k, n) \notin R
    <3>1. SUFFICES ASSUME old(g, k, n) \in R PROVE FALSE
          OBVIOUS
    <3>2. PICK j, m : IsSpot(j, m) /\ old(f, j, m) = old(g, k, n)
          BY <1>3, <3>1
    <3>. QED  BY <1>1, <1>2, <1>4, <3>2 DEF Unique
  <2>2. old(g, k, n) \in Blocks
        BY <1>1, <1>4, PlacedFacts
  <2>. QED  BY <1>1, <2>1, <2>2
<1>5. \A g \in Files \ {f} : \A k, n : IsSpot(k, n) => now(g, k, n) = old(g, k, n)
  <2> TAKE g \in Files \ {f}
  <2>1. \A k, n : IsSpot(k, n) => Block(dn[g], dk2, k, n) = old(g, k, n)
        BY <1>4, SameBlocks
  <2>. QED  BY <1>1, <2>1
<1>6. \A k, n : IsSpot(k, n) => now(f, k, n) = 0
      BY <1>1, EmptyFile
<1>7. \A g \in Files : old(g, "indirect", 0) = dn[g].i_indirect
      BY BlockCases
<1>8. Typed(fm2, dn2, dk2)
      BY <1>1, <1>2 DEF Typed
<1>9. Sound(fm2, dn2, dk2, fl2)
  <2>1. SUFFICES ASSUME NEW g \in Files, NEW k, NEW n, IsSpot(k, n), now(g, k, n) # 0
                 PROVE  \/ now(g, k, n) \in fm2
                        \/ k = "indirect" /\ g \in fl2 /\ now(g, k, n) \in 1 .. max_fs_blocks
        BY DEF Sound
  <2>2. g # f /\ now(g, k, n) = old(g, k, n)
        BY <1>5, <1>6, <2>1
  <2>3. now(g, k, n) \notin R
        BY <1>4, <2>1, <2>2
  <2>. QED  BY <1>2, <2>1, <2>2, <2>3 DEF Sound
<1>10. Unique(dn2, dk2)
  <2>1. SUFFICES ASSUME NEW g \in Files, NEW h \in Files, NEW k, NEW n, NEW j, NEW m,
                        IsSpot(k, n), IsSpot(j, m),
                        now(g, k, n) # 0, now(g, k, n) = now(h, j, m)
                 PROVE  g = h /\ k = j /\ n = m
        BY DEF Unique
  <2>2. /\ g # f /\ now(g, k, n) = old(g, k, n)
        /\ h # f /\ now(h, j, m) = old(h, j, m)
        BY <1>5, <1>6, <2>1
  <2>3. old(g, k, n) # 0 /\ old(g, k, n) = old(h, j, m)
        BY <2>1, <2>2
  <2>4. Unique(dn, dk)
        BY <1>2
  <2>. QED  BY <2>1, <2>3, <2>4 DEF Unique
<1>11. Covered(fm2, dn2, dk2)
  <2>1. SUFFICES ASSUME NEW b \in fm, b \notin R
                 PROVE  \E g \in Files : \E k, n : IsSpot(k, n) /\ now(g, k, n) = b
        BY DEF Covered
  <2>2. PICK g \in Files : \E k, n : IsSpot(k, n) /\ old(g, k, n) = b
        BY <1>2 DEF Covered
  <2>3. g # f
        BY <1>3, <2>1, <2>2
  <2>. QED  BY <1>5, <2>2, <2>3
<1>12. Emptied(fm2, dn2, dk2)
  <2>1. SUFFICES ASSUME NEW b \in Blocks, b \notin fm2, \A g \in Files : dn2[g].i_indirect # b
                 PROVE  dk2[b] = Zero
        BY DEF Emptied
  <2>2. CASE b \in R
        BY <1>1, <2>2
  <2>3. CASE b \notin R
    <3>1. b \notin fm
          BY <2>1, <2>3
    <3>2. \A g \in Files : dn[g].i_indirect # b
      <4>1. b # 0
            BY DEF Blocks
      <4>. QED  BY <1>1, <2>1, <2>3, <4>1
    <3>3. dk[b] = Zero
          BY <1>2, <2>1, <3>1, <3>2 DEF Emptied
    <3>. QED  BY <1>1, <2>3, <3>3
  <2>. QED  BY <2>2, <2>3
<1>13. \A g \in Files \ {f} : BlocksOf(fm2, dn2[g], dk2) = BlocksOf(fm, dn[g], dk)
  <2> TAKE g \in Files \ {f}
  <2>1. \A b : b \in BlocksOf(fm2, dn2[g], dk2) <=>
                 b \in fm /\ b \notin R /\ \E k, n : IsSpot(k, n) /\ old(g, k, n) = b
        BY <1>5 DEF BlocksOf
  <2>2. \A b \in fm : (\E k, n : IsSpot(k, n) /\ old(g, k, n) = b) => b \notin R
        BY <1>3, <1>4
  <2>. QED  BY <2>1, <2>2 DEF BlocksOf
<1>14. BlocksOf(fm2, dn2[f], dk2) = {}
       BY <1>3, <1>6 DEF BlocksOf
<1>15. \A used : Counted(fm, dn, dk, used) => Counted(fm2, dn2, dk2, used - Cardinality(R))
  <2> TAKE used
  <2> HAVE Counted(fm, dn, dk, used)
  <2>1. IsFiniteSet(fm) /\ IsFiniteSet(R) /\ R \cap fm = R
        BY <1>1, <1>2, <1>3, FreemapFinite
  <2>2. Cardinality(fm2) = Cardinality(fm) - Cardinality(R)
    <3>1. fm \cap R = R /\ fm2 = fm \ R
          BY <2>1
    <3>2. Cardinality(fm \ R) = Cardinality(fm) - Cardinality(fm \cap R)
          BY <2>1, FS_Difference
    <3>. QED  BY <3>1, <3>2
  <2>3. Cardinality({}) = 0
        BY FS_EmptySet
  <2>4. used = Cardinality(fm) /\ \A g \in Files : dn[g].block_count = Cardinality(BlocksOf(fm, dn[g], dk))
        BY DEF Counted
  <2>5. ASSUME NEW g \in Files
        PROVE  dn2[g].block_count = Cardinality(BlocksOf(fm2, dn2[g], dk2))
    <3>1. CASE g = f
      <4>1. dn2[g].block_count = 0
            BY <1>1, <3>1, EmptyFile
      <4>. QED  BY <1>14, <2>3, <3>1, <4>1
    <3>2. CASE g # f
      <4>1. dn2[g] = dn[g]
            BY <1>1, <3>2
      <4>. QED  BY <1>13, <2>4, <3>2, <4>1
    <3>. QED  BY <3>1, <3>2
  <2>. QED  BY <2>2, <2>4, <2>5 DEF Counted
<1>16. \A g \in Files \ {f} : \A n \in Logical, u \in Words :
         Word(dk2, now(g, "data", n), u) = Word(dk, old(g, "data", n), u)
  <2> TAKE g \in Files \ {f}
  <2> TAKE n \in Logical, u \in Words
  <2>1. now(g, "data", n) = old(g, "data", n)
        BY <1>5, SpotFacts
  <2>2. old(g, "data", n) # 0 => dk2[old(g, "data", n)] = dk[old(g, "data", n)]
        BY <1>4, SpotFacts
  <2>. QED  BY <2>1, <2>2 DEF Word
<1>18. Placed(fm2, dn2, dk2, fl2)
       BY <1>8, <1>9, <1>10, <1>11, <1>12 DEF Placed
<1>19. /\ \A g \in Files \ {f} : \A n \in Logical : now(g, "data", n) = old(g, "data", n)
       /\ \A n \in Logical : now(f, "data", n) = 0
       BY <1>5, <1>6, SpotFacts
<1>20. OthersKeep(dn, dk, f, dn2, dk2)
       BY <1>16, <1>19 DEF OthersKeep
<1>. QED  BY <1>15, <1>18, <1>20

-----------------------------------------------------------------------------
(* The invariant                                                            *)

(* The locals of testfs_write_data when it comes to its next block.         *)
IsWrite(w) ==
  \/ w = NoWrite
  \/ /\ w \in [file : Files, block_nr : 0 .. NR_MAX_BLOCK, block_ix : Words,
               size : Nat \ {0}, end : Nat]
     /\ w.end = w.block_nr * NR_INDIRECT_BLOCKS + w.block_ix + w.size

(* Logical block n is before the end of the file, or the write in progress  *)
(* has been there.                                                          *)
Begun(dn, w, f, n) ==
  n * NR_INDIRECT_BLOCKS < dn[f].i_size \/ (w.file = f /\ n < w.block_nr)

(* Only such blocks exist while no write of the file has failed, and the    *)
(* double indirect block can be read.                                       *)
Extents(dn, dk, w, fl, dev) ==
  \A f \in Files \ fl :
    /\ dn[f].i_dindirect <= dev
    /\ \A n \in Logical : Block(dn[f], dk, "data", n) # 0 => Begun(dn, w, f, n)
    /\ dn[f].i_dindirect # 0 => Begun(dn, w, f, NR_DIRECT_BLOCKS + NR_INDIRECT_BLOCKS)

Bounded(dn) == \A f \in Files : dn[f].i_size <= NR_MAX_BLOCK * NR_INDIRECT_BLOCKS

UpInv ==
  /\ Placed(block_freemap, dinode, disk, failed)
  /\ Counted(block_freemap, dinode, disk, used_block_count)
  /\ written \in [Files -> SUBSET Nat] /\ Contents(dinode, disk, written)
  /\ IsWrite(io) /\ Bounded(dinode)
  /\ Extents(dinode, disk, io, failed, dev_end)

BlocksInv == TypeOK /\ (system = "up" => UpInv)

(* The words of the current block that are written in this round.           *)
InChunk(u) == u \in io.block_ix .. io.block_ix + Chunk - 1

(* What a round begins with.                                                *)
LEMMA WritingFacts ==
  ASSUME BlocksInv, Writing
  PROVE  /\ UpInv /\ io.file \in Files /\ Inode \in Inodes
         /\ io \in [file : Files, block_nr : 0 .. NR_MAX_BLOCK, block_ix : Words,
                    size : Nat \ {0}, end : Nat]
         /\ io.end = io.block_nr * NR_INDIRECT_BLOCKS + io.block_ix + io.size
         /\ Typed(block_freemap, dinode, disk)
<1>1. UpInv /\ io # NoWrite
      BY DEF BlocksInv, Writing
<1>2. /\ io \in [file : Files, block_nr : 0 .. NR_MAX_BLOCK, block_ix : Words,
                 size : Nat \ {0}, end : Nat]
      /\ io.end = io.block_nr * NR_INDIRECT_BLOCKS + io.block_ix + io.size
      BY <1>1 DEF UpInv, IsWrite
<1>3. Typed(block_freemap, dinode, disk)
      BY <1>1 DEF UpInv, Placed
<1>. QED  BY <1>1, <1>2, <1>3 DEF Inode, Typed

(* What a round does to the locals and to the size of the file.             *)
LEMMA NextRoundSizes ==
  ASSUME BlocksInv, Writing, io.block_nr \in Logical,
         NEW in, in \in Inodes, in.i_size = Inode.i_size, NextRound(in)
  PROVE  /\ IsWrite(io') /\ dinode' \in [Files -> Inodes]
         /\ \A g \in Files \ {io.file} : dinode'[g] = dinode[g]
         /\ dinode'[io.file].i_indirect = in.i_indirect
         /\ dinode'[io.file].i_dindirect = in.i_dindirect
         /\ dinode'[io.file].i_block_nr = in.i_block_nr
         /\ dinode'[io.file].block_count = in.block_count
         /\ Bounded(dinode')
         /\ \A g \in Files, n \in Nat : Begun(dinode, io, g, n) => Begun(dinode', io', g, n)
         /\ \A n \in 0 .. io.block_nr : Begun(dinode', io', io.file, n)
<1> DEFINE f == io.file
           b == NR_INDIRECT_BLOCKS
           last == io.block_ix + io.size <= b
           size2 == IF last THEN Max({in.i_size, io.end}) ELSE in.i_size
<1>1. /\ UpInv /\ f \in Files /\ Inode \in Inodes /\ dinode \in [Files -> Inodes]
      /\ io \in [file : Files, block_nr : 0 .. NR_MAX_BLOCK, block_ix : Words,
                 size : Nat \ {0}, end : Nat]
      /\ io.end = io.block_nr * b + io.block_ix + io.size
      BY WritingFacts DEF Typed
<1>2. /\ b \in Nat \ {0} /\ NR_MAX_BLOCK \in Nat
      /\ io.block_nr \in Nat /\ io.block_nr < NR_MAX_BLOCK
      /\ io.block_ix \in 0 .. b - 1 /\ io.size \in Nat \ {0}
      BY <1>1, LogicalFacts, FileBlocksAssumption DEF Words, Logical
<1>3. /\ in.i_size \in Nat /\ in.i_size = dinode[f].i_size
      /\ in.i_size <= NR_MAX_BLOCK * b
      BY <1>1 DEF Inodes, Inode, UpInv, Bounded
<1>4. /\ io.block_nr * b \in Nat /\ (io.block_nr + 1) * b = io.block_nr * b + b
      /\ (io.block_nr + 1) * b <= NR_MAX_BLOCK * b /\ NR_MAX_BLOCK * b \in Nat
  <2>1. io.block_nr + 1 \in Nat /\ io.block_nr + 1 <= NR_MAX_BLOCK
        BY <1>2
  <2>2. (io.block_nr + 1) * b <= NR_MAX_BLOCK * b /\ NR_MAX_BLOCK * b \in Nat
        BY <1>2, <2>1, ProductGrows
  <2>3. io.block_nr * b \in Nat /\ (io.block_nr + 1) * b = io.block_nr * b + b
        BY <1>2, ProductGrows
  <2>. QED  BY <2>2, <2>3
<1>5. \A n \in 0 .. io.block_nr : n * b \in Nat /\ n * b <= io.block_nr * b
  <2> TAKE n \in 0 .. io.block_nr
  <2>1. n \in Nat /\ n <= io.block_nr
        BY <1>2
  <2>. QED  BY <1>2, <2>1, ProductGrows
<1>6. /\ io' = IF last THEN NoWrite
               ELSE [io EXCEPT !.block_nr = @ + 1, !.block_ix = 0, !.size = @ - Chunk]
      /\ dinode' = [dinode EXCEPT ![f] = IF last THEN [in EXCEPT !.i_size = size2] ELSE in]
      BY DEF NextRound
<1>7. /\ size2 \in Nat /\ size2 >= in.i_size /\ size2 <= NR_MAX_BLOCK * b
      /\ last => size2 >= io.end
  <2>1. CASE last
    <3>1. io.end \in Nat /\ io.end <= NR_MAX_BLOCK * b
          BY <1>1, <1>2, <1>4, <2>1
    <3>2. size2 = Max({in.i_size, io.end})
          BY <2>1
    <3>. QED  BY <1>3, <3>1, <3>2, MaxTwo
  <2>2. CASE ~last
        BY <1>3, <2>2
  <2>. QED  BY <2>1, <2>2
<1> HIDE DEF size2
<1>8. /\ dinode' \in [Files -> Inodes]
      /\ \A g \in Files \ {f} : dinode'[g] = dinode[g]
      /\ dinode'[f].i_indirect = in.i_indirect
      /\ dinode'[f].i_dindirect = in.i_dindirect
      /\ dinode'[f].i_block_nr = in.i_block_nr
      /\ dinode'[f].block_count = in.block_count
      /\ dinode'[f].i_size = IF last THEN size2 ELSE in.i_size
  <2>1. [in EXCEPT !.i_size = size2] \in Inodes
        BY <1>7 DEF Inodes
  <2>2. dinode'[f] = IF last THEN [in EXCEPT !.i_size = size2] ELSE in
        BY <1>1, <1>6
  <2>3. dinode' \in [Files -> Inodes]
        BY <1>1, <1>6, <2>1
  <2>4. \A g \in Files \ {f} : dinode'[g] = dinode[g]
        BY <1>1, <1>6
  <2>5. CASE last
        BY <2>2, <2>3, <2>4, <2>5 DEF Inodes
  <2>6. CASE ~last
        BY <2>2, <2>3, <2>4, <2>6
  <2>. QED  BY <2>5, <2>6
<1>9. Bounded(dinode')
  <2>1. \A g \in Files \ {f} : dinode'[g].i_size <= NR_MAX_BLOCK * b
        BY <1>1, <1>8 DEF UpInv, Bounded
  <2>2. dinode'[f].i_size <= NR_MAX_BLOCK * b
        BY <1>3, <1>7, <1>8
  <2>. QED  BY <2>1, <2>2 DEF Bounded
<1>10. ~last => /\ io'.file = f /\ io'.block_nr = io.block_nr + 1 /\ io'.block_ix = 0
                /\ io'.size = io.size - (b - io.block_ix) /\ io'.end = io.end
                /\ io' \in [file : Files, block_nr : 0 .. NR_MAX_BLOCK, block_ix : Words,
                            size : Nat \ {0}, end : Nat]
  <2> HAVE ~last
  <2>1. Chunk = b - io.block_ix
        BY <1>2 DEF Chunk
  <2>2. io' = [io EXCEPT !.block_nr = @ + 1, !.block_ix = 0, !.size = @ - Chunk]
        BY <1>6
  <2>3. io.size - Chunk \in Nat \ {0} /\ io.block_nr + 1 \in 0 .. NR_MAX_BLOCK /\ 0 \in Words
        BY <1>2, <2>1, LogicalFacts
  <2>. QED  BY <1>1, <2>1, <2>2, <2>3
<1>11. IsWrite(io')
  <2>1. CASE last
        BY <1>6, <2>1 DEF IsWrite
  <2>2. CASE ~last
    <3>1. io'.end = io'.block_nr * b + io'.block_ix + io'.size
          BY <1>1, <1>2, <1>4, <1>10, <2>2
    <3>. QED  BY <1>10, <2>2, <3>1 DEF IsWrite
  <2>. QED  BY <2>1, <2>2
<1>12. \A n \in 0 .. io.block_nr : Begun(dinode', io', f, n)
  <2> TAKE n \in 0 .. io.block_nr
  <2>1. CASE last
    <3>1. n * b < io.end
          BY <1>1, <1>2, <1>5
    <3>2. n * b < dinode'[f].i_size
          BY <1>1, <1>5, <1>7, <1>8, <2>1, <3>1
    <3>. QED  BY <3>2 DEF Begun
  <2>2. CASE ~last
        BY <1>2, <1>10, <2>2 DEF Begun
  <2>. QED  BY <2>1, <2>2
<1>13. \A g \in Files, n \in Nat : Begun(dinode, io, g, n) => Begun(dinode', io', g, n)
  <2> TAKE g \in Files, n \in Nat
  <2> HAVE Begun(dinode, io, g, n)
  <2>1. CASE g = f /\ n <= io.block_nr
        BY <1>2, <1>12, <2>1
  <2>2. CASE n * b < dinode[g].i_size
    <3>1. dinode'[g].i_size >= dinode[g].i_size /\ dinode[g].i_size \in Nat /\ dinode'[g].i_size \in Nat
      <4>1. CASE g = f
            BY <1>3, <1>7, <1>8, <4>1
      <4>2. CASE g # f
        <5>1. dinode'[g] = dinode[g] /\ dinode[g] \in Inodes
              BY <1>1, <1>8, <4>2
        <5>2. dinode[g].i_size \in Nat
              BY <5>1 DEF Inodes
        <5>. QED  BY <5>1, <5>2
      <4>. QED  BY <4>1, <4>2
    <3>2. n * b \in Nat
          BY <1>2
    <3>. QED  BY <2>2, <3>1, <3>2 DEF Begun
  <2>. QED  BY <1>2, <2>1, <2>2 DEF Begun
<1>. QED  BY <1>8, <1>9, <1>11, <1>12, <1>13

(* Which words are marked as written by it.                                 *)
LEMMA NextRoundWritten ==
  ASSUME BlocksInv, Writing, io.block_nr \in Logical, NEW in, NextRound(in)
  PROVE  /\ written' \in [Files -> SUBSET Nat] /\ failed' = failed
         /\ \A g \in Files : \A n \in Logical, u \in Words :
              n * NR_INDIRECT_BLOCKS + u \in written'[g] <=>
                \/ n * NR_INDIRECT_BLOCKS + u \in written[g]
                \/ g = io.file /\ n = io.block_nr /\ InChunk(u)
         /\ \A u : InChunk(u) => u \in Words
<1> DEFINE f == io.file
           b == NR_INDIRECT_BLOCKS
           more == {io.block_nr * b + u : u \in io.block_ix .. io.block_ix + Chunk - 1}
<1>1. /\ UpInv /\ f \in Files /\ written \in [Files -> SUBSET Nat]
      /\ io \in [file : Files, block_nr : 0 .. NR_MAX_BLOCK, block_ix : Words,
                 size : Nat \ {0}, end : Nat]
      BY WritingFacts DEF UpInv
<1>2. /\ b \in Nat \ {0} /\ Logical \subseteq Nat /\ Words = 0 .. b - 1
      /\ io.block_nr \in Nat /\ io.block_ix \in 0 .. b - 1 /\ io.size \in Nat \ {0}
      BY <1>1, LogicalFacts, FileBlocksAssumption DEF Words
<1>3. Chunk \in Nat /\ io.block_ix + Chunk <= b
      BY <1>2 DEF Chunk
<1>4. \A u : InChunk(u) => u \in Words
      BY <1>2, <1>3 DEF InChunk
<1>5. \A x : x \in more <=> \E u : InChunk(u) /\ x = io.block_nr * b + u
      BY DEF InChunk
<1>6. written' = [written EXCEPT ![f] = @ \cup more] /\ failed' = failed
      BY DEF NextRound
<1> HIDE DEF more
<1>7. more \in SUBSET Nat
  <2>1. ASSUME NEW u, InChunk(u) PROVE io.block_nr * b + u \in Nat
    <3>1. u \in Nat /\ io.block_nr * b \in Nat
          BY <1>2, <1>4, <2>1
    <3>. QED  BY <3>1
  <2>. QED  BY <1>5, <2>1
<1>8. \A n \in Logical, u \in Words : n * b + u \in more <=> n = io.block_nr /\ InChunk(u)
  <2> TAKE n \in Logical, u \in Words
  <2>1. ASSUME NEW v, InChunk(v), n * b + u = io.block_nr * b + v
        PROVE  n = io.block_nr /\ u = v
    <3>1. v \in 0 .. b - 1 /\ u \in 0 .. b - 1 /\ n \in Nat
          BY <1>2, <1>4, <2>1
    <3>. QED  BY <1>2, <2>1, <3>1, PairUnique
  <2>. QED  BY <1>5, <2>1
<1>9. \A g \in Files : written'[g] = IF g = f THEN written[g] \cup more ELSE written[g]
      BY <1>1, <1>6
<1>10. written' \in [Files -> SUBSET Nat]
       BY <1>1, <1>6, <1>7
<1>11. \A g \in Files : \A n \in Logical, u \in Words :
         n * b + u \in written'[g] <=>
           \/ n * b + u \in written[g]
           \/ g = f /\ n = io.block_nr /\ InChunk(u)
       BY <1>8, <1>9
<1>. QED  BY <1>4, <1>6, <1>10, <1>11

(* The type invariant follows while testfs runs.                            *)
LEMMA UpTypes ==
  ASSUME UpInv', system' = "up", dev_end' \in 0 .. max_fs_blocks, failed' \subseteq Files
  PROVE  BlocksInv'
<1>1. Typed(block_freemap', dinode', disk') /\ used_block_count' = Cardinality(block_freemap')
      BY DEF UpInv, Placed, Counted
<1>2. used_block_count' \in 0 .. max_fs_blocks
      BY <1>1, FreemapFinite
<1>3. io'.file \in Files \cup {NoFile} /\ io'.size \in Nat /\ io'.block_ix \in Words
  <2>1. CASE io' = NoWrite
        BY <2>1, LogicalFacts DEF NoWrite
  <2>2. CASE io' # NoWrite
    <3>1. io' \in [file : Files, block_nr : 0 .. NR_MAX_BLOCK, block_ix : Words,
                   size : Nat \ {0}, end : Nat]
          BY <2>2 DEF UpInv, IsWrite
    <3>. QED  BY <3>1
  <2>. QED  BY <2>1, <2>2
<1>. QED  BY <1>1, <1>2, <1>3 DEF BlocksInv, TypeOK, Typed

(* A round that gives the file the blocks new.                              *)
LEMMA RoundInv ==
  ASSUME BlocksInv, Writing, io.block_nr \in Logical,
         NEW in, in \in Inodes, in.i_size = Inode.i_size, NextRound(in),
         NEW new, IsFiniteSet(new),
         in.block_count = Inode.block_count + Cardinality(new),
         used_block_count' = used_block_count + Cardinality(new),
         system' = "up", dev_end' \in 0 .. max_fs_blocks, dev_end <= dev_end',
         block_freemap' = block_freemap \cup new,
         Changes(block_freemap, dinode, disk, io.file, dinode'[io.file], disk', new, io.block_nr),
         \/ in.i_dindirect = Inode.i_dindirect
         \/ in.i_dindirect <= dev_end' /\ IsDouble(io.block_nr),
         \A u \in Words : Word(disk', Block(dinode'[io.file], disk', "data", io.block_nr), u) =
           IF InChunk(u) THEN io.file
           ELSE Word(disk, Block(dinode[io.file], disk, "data", io.block_nr), u)
  PROVE  BlocksInv'
<1> DEFINE f == io.file
           bn == io.block_nr
<1>1. /\ UpInv /\ f \in Files /\ Typed(block_freemap, dinode, disk)
      /\ io \in [file : Files, block_nr : 0 .. NR_MAX_BLOCK, block_ix : Words,
                 size : Nat \ {0}, end : Nat]
      BY WritingFacts
<1>2. /\ IsWrite(io') /\ dinode' \in [Files -> Inodes]
      /\ \A g \in Files \ {f} : dinode'[g] = dinode[g]
      /\ dinode'[f].i_dindirect = in.i_dindirect
      /\ dinode'[f].block_count = in.block_count
      /\ Bounded(dinode')
      /\ \A g \in Files, n \in Nat : Begun(dinode, io, g, n) => Begun(dinode', io', g, n)
      /\ \A n \in 0 .. bn : Begun(dinode', io', f, n)
      BY NextRoundSizes
<1>3. /\ written' \in [Files -> SUBSET Nat] /\ failed' = failed
      /\ \A g \in Files : \A n \in Logical, u \in Words :
           n * NR_INDIRECT_BLOCKS + u \in written'[g] <=>
             \/ n * NR_INDIRECT_BLOCKS + u \in written[g]
             \/ g = f /\ n = bn /\ InChunk(u)
      BY NextRoundWritten
<1>4. /\ Placed(block_freemap, dinode, disk, failed)
      /\ Counted(block_freemap, dinode, disk, used_block_count)
      /\ Contents(dinode, disk, written)
      /\ Extents(dinode, disk, io, failed, dev_end)
      BY <1>1 DEF UpInv
<1>5. Changed(block_freemap, dinode, disk, failed, f, block_freemap', dinode', disk', new, bn)
      BY <1>1, <1>2, <1>4 DEF Changed
<1>6. Placed(block_freemap', dinode', disk', failed')
      BY <1>3, <1>5, ChangePlaced
<1>7. Counted(block_freemap', dinode', disk', used_block_count')
  <2>1. dinode'[f].block_count = dinode[f].block_count + Cardinality(new)
        BY <1>2 DEF Inode
  <2>. QED  BY <1>4, <1>5, <2>1, ChangeCounted
<1>8. Contents(dinode', disk', written')
  <2>1. SUFFICES ASSUME NEW g \in Files, NEW n \in Logical, NEW u \in Words
                 PROVE  Word(disk', Block(dinode'[g], disk', "data", n), u) =
                          IF n * NR_INDIRECT_BLOCKS + u \in written'[g] THEN g ELSE 0
        BY DEF Contents
  <2>2. Word(disk, Block(dinode[g], disk, "data", n), u) =
          IF n * NR_INDIRECT_BLOCKS + u \in written[g] THEN g ELSE 0
        BY <1>4 DEF Contents
  <2>3. CASE g = f /\ n = bn
        BY <1>3, <2>2, <2>3
  <2>4. CASE ~(g = f /\ n = bn)
    <3>1. Word(disk', Block(dinode'[g], disk', "data", n), u) =
            Word(disk, Block(dinode[g], disk, "data", n), u)
          BY <1>5, <2>4, ChangeContents
    <3>. QED  BY <1>3, <2>2, <2>4, <3>1
  <2>. QED  BY <2>3, <2>4
<1>9. Extents(dinode', disk', io', failed', dev_end')
  <2>1. SUFFICES ASSUME NEW g \in Files \ failed
                 PROVE  /\ dinode'[g].i_dindirect <= dev_end'
                        /\ \A n \in Logical : Block(dinode'[g], disk', "data", n) # 0 =>
                             Begun(dinode', io', g, n)
                        /\ dinode'[g].i_dindirect # 0 =>
                             Begun(dinode', io', g, NR_DIRECT_BLOCKS + NR_INDIRECT_BLOCKS)
        BY <1>3 DEF Extents
  <2>2. /\ dinode[g].i_dindirect <= dev_end
        /\ \A n \in Logical : Block(dinode[g], disk, "data", n) # 0 => Begun(dinode, io, g, n)
        /\ dinode[g].i_dindirect # 0 => Begun(dinode, io, g, NR_DIRECT_BLOCKS + NR_INDIRECT_BLOCKS)
        BY <1>4 DEF Extents
  <2>3. /\ dinode[g] \in Inodes /\ dinode'[g] \in Inodes
        /\ dev_end \in 0 .. max_fs_blocks /\ dev_end' \in 0 .. max_fs_blocks
        BY <1>1, <1>2 DEF BlocksInv, TypeOK
  <2>4. /\ dinode[g].i_dindirect \in Nat /\ dinode'[g].i_dindirect \in Nat
        BY <2>3 DEF Inodes
  <2>5. NR_DIRECT_BLOCKS + NR_INDIRECT_BLOCKS \in Nat /\ Logical \subseteq Nat
        BY LogicalFacts, FileBlocksAssumption
  <2>6. \/ dinode'[g].i_dindirect = dinode[g].i_dindirect
        \/ g = f /\ in.i_dindirect <= dev_end' /\ IsDouble(bn)
        BY <1>2 DEF Inode
  <2>7. dinode'[g].i_dindirect <= dev_end'
        BY <1>2, <2>2, <2>3, <2>4, <2>6
  <2>8. ASSUME NEW n \in Logical, Block(dinode'[g], disk', "data", n) # 0
        PROVE  Begun(dinode', io', g, n)
    <3>1. CASE g = f /\ n = bn
      <4>1. bn \in 0 .. bn
            BY <1>1
      <4>. QED  BY <1>2, <3>1, <4>1
    <3>2. CASE g = f /\ n # bn
      <4>1. Block(dinode'[f], disk', "data", n) = Block(dinode[f], disk, "data", n)
            BY <3>2 DEF Changes
      <4>. QED  BY <1>2, <2>2, <2>5, <2>8, <3>2, <4>1
    <3>3. CASE g # f
      <4>1. Block(dinode[g], disk', "data", n) = Block(dinode[g], disk, "data", n)
            BY <1>1, <1>4, <3>3, OtherFiles, SpotFacts
      <4>2. dinode'[g] = dinode[g]
            BY <1>2, <3>3
      <4>. QED  BY <1>2, <2>2, <2>5, <2>8, <4>1, <4>2
    <3>. QED  BY <3>1, <3>2, <3>3
  <2>9. dinode'[g].i_dindirect # 0 => Begun(dinode', io', g, NR_DIRECT_BLOCKS + NR_INDIRECT_BLOCKS)
    <3>1. CASE dinode'[g].i_dindirect = dinode[g].i_dindirect
          BY <1>2, <2>2, <2>5, <3>1
    <3>2. CASE g = f /\ IsDouble(bn)
      <4>1. NR_DIRECT_BLOCKS + NR_INDIRECT_BLOCKS \in 0 .. bn
            BY <1>1, <2>5, <3>2 DEF IsDouble
      <4>. QED  BY <1>2, <3>2, <4>1
    <3>. QED  BY <2>6, <3>1, <3>2
  <2>. QED  BY <2>7, <2>8, <2>9
<1>10. failed' \subseteq Files
       BY <1>3 DEF BlocksInv, TypeOK
<1>11. UpInv'
       BY <1>2, <1>3, <1>6, <1>7, <1>8, <1>9 DEF UpInv
<1>. QED  BY <1>10, <1>11, UpTypes

-----------------------------------------------------------------------------
(* The steps of a write                                                     *)

(* A function that is one to one and onto.                                  *)
LEMMA SameSize ==
  ASSUME NEW S, NEW T, IsFiniteSet(S), NEW F \in [S -> T],
         \A x, y \in S : F[x] = F[y] => x = y, \A z \in T : \E x \in S : F[x] = z
  PROVE  IsFiniteSet(T) /\ Cardinality(T) = Cardinality(S)
<1>1. F \in Bijection(S, T)
      BY Fun_IsBij
<1>2. ExistsBijection(S, T)
      BY <1>1, Fun_ExistsBij
<1>. QED  BY <1>2, FS_Bijection

(* The blocks that bitmap_alloc finds are as many as it is asked for.       *)
LEMMA FreeBlocksFacts ==
  ASSUME block_freemap \subseteq 1 .. max_fs_blocks,
         NEW k \in Nat, k <= max_fs_blocks - Cardinality(block_freemap)
  PROVE  /\ \A i \in 1 .. k : FreeBlock(i) \in (1 .. max_fs_blocks) \ block_freemap
         /\ \A i, j \in 1 .. k : FreeBlock(i) = FreeBlock(j) => i = j
         /\ \A b : b \in FreeBlocks(k) <=> \E i \in 1 .. k : b = FreeBlock(i)
         /\ IsFiniteSet(FreeBlocks(k)) /\ Cardinality(FreeBlocks(k)) = k
<1>1. Cardinality(block_freemap) \in Nat /\ max_fs_blocks \in Nat
  <2>1. IsFiniteSet(1 .. max_fs_blocks)
        BY FS_Interval, FileBlocksAssumption
  <2>. QED  BY <2>1, FS_Subset, FS_CardinalityType, FileBlocksAssumption
<1>2. \A i \in 1 .. k :
        /\ FreeBlock(i) \in (1 .. max_fs_blocks) \ block_freemap
        /\ Cardinality({c \in Blocks \ block_freemap : c < FreeBlock(i)}) = i - 1
  <2> TAKE i \in 1 .. k
  <2>1. i \in Nat \ {0} /\ i <= max_fs_blocks - Cardinality(block_freemap)
        BY <1>1
  <2>. QED  BY <2>1, FreeBlockFacts
<1>3. \A i, j \in 1 .. k : FreeBlock(i) = FreeBlock(j) => i = j
  <2> TAKE i, j \in 1 .. k
  <2> HAVE FreeBlock(i) = FreeBlock(j)
  <2>1. i - 1 = j - 1
        BY <1>2
  <2>. QED  BY <2>1
<1>4. \A b : b \in FreeBlocks(k) <=> \E i \in 1 .. k : b = FreeBlock(i)
      BY DEF FreeBlocks
<1>5. IsFiniteSet(FreeBlocks(k)) /\ Cardinality(FreeBlocks(k)) = k
  <2> DEFINE F == [i \in 1 .. k |-> FreeBlock(i)]
  <2>1. F \in [1 .. k -> FreeBlocks(k)]
        BY <1>4
  <2>2. \A x, y \in 1 .. k : F[x] = F[y] => x = y
        BY <1>3
  <2>3. \A z \in FreeBlocks(k) : \E x \in 1 .. k : F[x] = z
        BY <1>4
  <2>4. IsFiniteSet(1 .. k) /\ Cardinality(1 .. k) = k
        BY FS_Interval
  <2> HIDE DEF F
  <2>. QED  BY <2>1, <2>2, <2>3, <2>4, SameSize
<1>. QED  BY <1>2, <1>3, <1>4, <1>5

(* How much is missing, and left.                                           *)
LEMMA MissingFacts ==
  ASSUME BlocksInv, Writing, io.block_nr \in Logical
  PROVE  /\ MissingIndexBlocks \in 0 .. 2
         /\ IsDirect(io.block_nr) => MissingIndexBlocks = 0
         /\ IsIndirect(io.block_nr) =>
              MissingIndexBlocks = IF Inode.i_indirect = 0 THEN 1 ELSE 0
         /\ IsDouble(io.block_nr) =>
              MissingIndexBlocks =
                IF Inode.i_dindirect = 0 THEN 2
                ELSE IF Block(Inode, disk, "page", Page(io.block_nr)) = 0 THEN 1 ELSE 0
         /\ Left = max_fs_blocks - Cardinality(block_freemap) /\ Left \in Nat
         /\ used_block_count = Cardinality(block_freemap)
         /\ Block(Inode, disk, "data", io.block_nr) = PhysicalBlock(Inode, io.block_nr)
<1> DEFINE bn == io.block_nr
<1>1. /\ IsDirect(bn) => MissingIndexBlocks = 0
      /\ IsIndirect(bn) => MissingIndexBlocks = IF Inode.i_indirect = 0 THEN 1 ELSE 0
      /\ IsDouble(bn) => MissingIndexBlocks =
                           IF Inode.i_dindirect = 0 THEN 2
                           ELSE IF Entry(Inode.i_dindirect, Page(bn)) = 0 THEN 1 ELSE 0
      BY LogicalFacts DEF MissingIndexBlocks
<1>2. \A b, i : Entry(b, i) = Word(disk, b, i)
      BY DEF Entry, Word
<1>3. Block(Inode, disk, "page", Page(bn)) = Entry(Inode.i_dindirect, Page(bn))
      BY <1>2, PageBlock
<1>4. Block(Inode, disk, "data", bn) = PhysicalBlock(Inode, bn)
      BY <1>2 DEF Block, DataAt, PhysicalBlock
<1>5. MissingIndexBlocks \in 0 .. 2
  <2>1. CASE IsDirect(bn)
        BY <1>1, <2>1
  <2>2. CASE IsIndirect(bn)
        BY <1>1, <2>2
  <2>3. CASE IsDouble(bn)
        BY <1>1, <2>3
  <2>. QED  BY <2>1, <2>2, <2>3, LogicalFacts
<1>6. used_block_count = Cardinality(block_freemap) /\ Cardinality(block_freemap) \in 0 .. max_fs_blocks
      BY WritingFacts, FreemapFinite DEF UpInv, Counted
<1>7. Left = max_fs_blocks - Cardinality(block_freemap) /\ Left \in Nat
      BY <1>6, FileBlocksAssumption DEF Left
<1>. QED  BY <1>1, <1>3, <1>4, <1>5, <1>6, <1>7

(* A block that is free and not dangling is known to no file.               *)
LEMMA FreshBlocks ==
  ASSUME NEW new, new \in SUBSET ((1 .. max_fs_blocks) \ block_freemap), StopIfDangling(new),
         system = "up"
  PROVE  /\ system' \in {"up", "corrupt"}
         /\ system' = "up" => \A b \in new : Fresh(block_freemap, dinode, b)
<1>1. system' \in {"up", "corrupt"} /\ (system' = "up" => new \cap Dangling = {})
      BY DEF StopIfDangling
<1>2. ASSUME new \cap Dangling = {}, NEW b \in new
      PROVE  Fresh(block_freemap, dinode, b)
  <2>1. b \in (1 .. max_fs_blocks) \ block_freemap /\ b # 0 /\ b \notin Dangling
        BY <1>2
  <2>2. \A f \in Files : dinode[f].i_indirect # b
        BY <2>1 DEF Dangling
  <2>. QED  BY <2>1, <2>2 DEF Fresh
<1>. QED  BY <1>1, <1>2

(* How far the device reaches.                                              *)
LEMMA ReachFacts ==
  ASSUME NEW new \in SUBSET (1 .. max_fs_blocks), dev_end \in 0 .. max_fs_blocks, Reach(new)
  PROVE  /\ dev_end' \in 0 .. max_fs_blocks /\ dev_end <= dev_end'
         /\ \A b \in new : b <= dev_end'
<1> DEFINE S == {dev_end} \cup new
<1>1. max_fs_blocks \in Nat
      BY FileBlocksAssumption
<1>2. S \in SUBSET (0 .. max_fs_blocks) /\ S # {} /\ dev_end \in S /\ \A b \in new : b \in S
      BY <1>1
<1>3. dev_end' = Max(S)
      BY DEF Reach
<1> HIDE DEF S
<1>4. Max(S) \in S /\ \A y \in S : Max(S) >= y
      BY <1>1, <1>2, MaxFacts
<1>. QED  BY <1>1, <1>2, <1>3, <1>4

(* What an allocation does that finds its blocks.                           *)
LEMMA GetsFacts ==
  ASSUME BlocksInv, Writing, io.block_nr \in Logical, GetsBlocks
  PROVE  /\ \A i \in 1 .. MissingIndexBlocks + 1 :
              /\ FreeBlock(i) \in (1 .. max_fs_blocks) \ block_freemap
              /\ system' = "up" => Fresh(block_freemap, dinode, FreeBlock(i))
              /\ FreeBlock(i) <= dev_end'
         /\ \A i, j \in 1 .. MissingIndexBlocks + 1 : FreeBlock(i) = FreeBlock(j) => i = j
         /\ \A b : b \in New <=> \E i \in 1 .. MissingIndexBlocks + 1 : b = FreeBlock(i)
         /\ IsFiniteSet(New) /\ Cardinality(New) = MissingIndexBlocks + 1
         /\ block_freemap' = block_freemap \cup New /\ block_freemap' \subseteq 1 .. max_fs_blocks
         /\ used_block_count' = used_block_count + Cardinality(New)
         /\ used_block_count' \in 0 .. max_fs_blocks
         /\ dev_end' \in 0 .. max_fs_blocks /\ dev_end <= dev_end'
         /\ system' \in {"up", "corrupt"}
<1>1. /\ MissingIndexBlocks \in 0 .. 2 /\ Left \in Nat
      /\ Left = max_fs_blocks - Cardinality(block_freemap)
      /\ used_block_count = Cardinality(block_freemap)
      BY MissingFacts
<1>2. block_freemap \subseteq 1 .. max_fs_blocks /\ dev_end \in 0 .. max_fs_blocks /\ system = "up"
      /\ used_block_count \in 0 .. max_fs_blocks
      BY DEF BlocksInv, TypeOK, Writing
<1>3. MissingIndexBlocks + 1 \in Nat /\ MissingIndexBlocks + 1 <= max_fs_blocks - Cardinality(block_freemap)
      BY <1>1 DEF GetsBlocks
<1>4. /\ \A i \in 1 .. MissingIndexBlocks + 1 : FreeBlock(i) \in (1 .. max_fs_blocks) \ block_freemap
      /\ \A i, j \in 1 .. MissingIndexBlocks + 1 : FreeBlock(i) = FreeBlock(j) => i = j
      /\ \A b : b \in New <=> \E i \in 1 .. MissingIndexBlocks + 1 : b = FreeBlock(i)
      /\ IsFiniteSet(New) /\ Cardinality(New) = MissingIndexBlocks + 1
      BY <1>2, <1>3, FreeBlocksFacts DEF New
<1>5. New \in SUBSET ((1 .. max_fs_blocks) \ block_freemap) /\ New \in SUBSET (1 .. max_fs_blocks)
      BY <1>4
<1>6. /\ block_freemap' = block_freemap \cup New
      /\ used_block_count' = used_block_count + Cardinality(New)
      /\ StopIfDangling(New) /\ Reach(New)
      BY DEF GetsBlocks, Allocate
<1>7. /\ system' \in {"up", "corrupt"}
      /\ system' = "up" => \A b \in New : Fresh(block_freemap, dinode, b)
      BY <1>2, <1>5, <1>6, FreshBlocks
<1>8. /\ dev_end' \in 0 .. max_fs_blocks /\ dev_end <= dev_end'
      /\ \A b \in New : b <= dev_end'
      BY <1>2, <1>5, <1>6, ReachFacts
<1>9. used_block_count' \in 0 .. max_fs_blocks
      BY <1>1, <1>2, <1>3, <1>4, <1>6, FileBlocksAssumption
<1>10. \A i \in 1 .. MissingIndexBlocks + 1 : FreeBlock(i) \in New
       BY <1>4
<1>11. block_freemap' \subseteq 1 .. max_fs_blocks
       BY <1>2, <1>5, <1>6
<1>. QED  BY <1>4, <1>6, <1>7, <1>8, <1>9, <1>10, <1>11

(* The contents of the block that is written.                               *)
LEMMA FilledFacts ==
  ASSUME BlocksInv, Writing, io.block_nr \in Logical, NEW c \in [Words -> Nat \cup Files]
  PROVE  /\ Filled(c) \in [Words -> Nat \cup Files]
         /\ \A u \in Words : Filled(c)[u] = IF InChunk(u) THEN io.file ELSE c[u]
<1>1. io.file \in Files
      BY WritingFacts
<1>. QED  BY <1>1 DEF Filled, InChunk

LEMMA ZeroFacts == Zero \in [Words -> Nat \cup Files] /\ \A u \in Words : Zero[u] = 0
BY DEF Zero

(* When a dangling block is taken, the types are all that is left.          *)
LEMMA CorruptInv ==
  ASSUME BlocksInv, Writing, io.block_nr \in Logical, GetsBlocks,
         NEW in, in \in Inodes, in.i_size = Inode.i_size, NextRound(in),
         disk' \in [Blocks -> [Words -> Nat \cup Files]], system' # "up"
  PROVE  BlocksInv'
<1>1. IsWrite(io') /\ dinode' \in [Files -> Inodes]
      BY NextRoundSizes
<1>2. io'.file \in Files \cup {NoFile} /\ io'.size \in Nat /\ io'.block_ix \in Words
  <2>1. CASE io' = NoWrite
        BY <2>1, LogicalFacts DEF NoWrite
  <2>2. CASE io' # NoWrite
    <3>1. io' \in [file : Files, block_nr : 0 .. NR_MAX_BLOCK, block_ix : Words,
                   size : Nat \ {0}, end : Nat]
          BY <1>1, <2>2 DEF IsWrite
    <3>. QED  BY <3>1
  <2>. QED  BY <2>1, <2>2
<1>3. /\ block_freemap' \subseteq 1 .. max_fs_blocks /\ used_block_count' \in 0 .. max_fs_blocks
      /\ dev_end' \in 0 .. max_fs_blocks /\ system' \in {"up", "corrupt"}
      BY GetsFacts
<1>4. failed' \subseteq Files
      BY NextRoundWritten DEF BlocksInv, TypeOK
<1>. QED  BY <1>1, <1>2, <1>3, <1>4 DEF BlocksInv, TypeOK

(* The first part of all three allocations.                                 *)
LEMMA AllocateFacts ==
  ASSUME BlocksInv, Allocating, GetsBlocks
  PROVE  /\ Writing /\ io.block_nr \in Logical
         /\ UpInv /\ io.file \in Files /\ Inode \in Inodes /\ Inode = dinode[io.file]
         /\ Placed(block_freemap, dinode, disk, failed)
         /\ disk \in [Blocks -> [Words -> Nat \cup Files]]
         /\ Block(dinode[io.file], disk, "data", io.block_nr) = 0
         /\ MissingIndexBlocks \in 0 .. 2
         /\ Data \in Blocks /\ Data # 0 /\ Data \in Nat
         /\ Filled(Zero) \in [Words -> Nat \cup Files]
         /\ \A u \in Words : Filled(Zero)[u] = IF InChunk(u) THEN io.file ELSE 0
         /\ Grown \in Inodes /\ Grown.i_size = Inode.i_size
         /\ Grown.block_count = Inode.block_count + Cardinality(New)
         /\ Grown.i_indirect = Inode.i_indirect /\ Grown.i_dindirect = Inode.i_dindirect
         /\ Grown.i_block_nr = Inode.i_block_nr
<1>1. Writing /\ io.block_nr \in Logical /\ PhysicalBlock(Inode, io.block_nr) = 0
      BY DEF Allocating
<1>2. UpInv /\ io.file \in Files /\ Inode \in Inodes /\ Typed(block_freemap, dinode, disk)
      BY <1>1, WritingFacts
<1>3. MissingIndexBlocks \in 0 .. 2 /\ Block(Inode, disk, "data", io.block_nr) = 0
      BY <1>1, MissingFacts
<1>4. /\ \A i \in 1 .. MissingIndexBlocks + 1 : FreeBlock(i) \in (1 .. max_fs_blocks) \ block_freemap
      /\ Cardinality(New) = MissingIndexBlocks + 1
      BY <1>1, GetsFacts
<1>5. Data \in 1 .. max_fs_blocks
      BY <1>3, <1>4 DEF Data
<1>6. Data \in Blocks /\ Data # 0 /\ Data \in Nat
      BY <1>5, FileBlocksAssumption DEF Blocks
<1>7. /\ Filled(Zero) \in [Words -> Nat \cup Files]
      /\ \A u \in Words : Filled(Zero)[u] = IF InChunk(u) THEN io.file ELSE 0
      BY <1>1, ZeroFacts, FilledFacts
<1>8. /\ Grown \in Inodes /\ Grown.i_size = Inode.i_size
      /\ Grown.block_count = Inode.block_count + Cardinality(New)
      /\ Grown.i_indirect = Inode.i_indirect /\ Grown.i_dindirect = Inode.i_dindirect
      /\ Grown.i_block_nr = Inode.i_block_nr
      BY <1>2, <1>3, <1>4 DEF Grown, Inodes
<1>9. Placed(block_freemap, dinode, disk, failed) /\ Inode = dinode[io.file]
      BY <1>2 DEF UpInv, Inode
<1>10. disk \in [Blocks -> [Words -> Nat \cup Files]]
       BY <1>2 DEF Typed
<1>. QED  BY <1>1, <1>2, <1>3, <1>6, <1>7, <1>8, <1>9, <1>10

(* What is in the new data block.                                           *)
LEMMA NewData ==
  ASSUME BlocksInv, Allocating, GetsBlocks, disk'[Data] = Filled(Zero),
         Block(dinode'[io.file], disk', "data", io.block_nr) = Data
  PROVE  \A u \in Words : Word(disk', Block(dinode'[io.file], disk', "data", io.block_nr), u) =
           IF InChunk(u) THEN io.file
           ELSE Word(disk, Block(dinode[io.file], disk, "data", io.block_nr), u)
<1> TAKE u \in Words
<1>1. /\ Block(dinode[io.file], disk, "data", io.block_nr) = 0
      /\ Data # 0 /\ Filled(Zero)[u] = IF InChunk(u) THEN io.file ELSE 0
      BY AllocateFacts
<1>2. Word(disk, 0, u) = 0 /\ Word(disk', Data, u) = disk'[Data][u]
      BY <1>1 DEF Word
<1>. QED  BY <1>1, <1>2

(* A round that allocates keeps the invariant.                              *)
LEMMA GetsInv ==
  ASSUME BlocksInv, Allocating, GetsBlocks,
         NEW in, in \in Inodes, in.i_size = Inode.i_size, NextRound(in),
         in.block_count = Inode.block_count + Cardinality(New),
         disk' \in [Blocks -> [Words -> Nat \cup Files]],
         \/ in.i_dindirect = Inode.i_dindirect
         \/ in.i_dindirect <= dev_end' /\ IsDouble(io.block_nr),
         disk'[Data] = Filled(Zero),
         system' = "up" =>
           /\ Changes(block_freemap, dinode, disk, io.file, dinode'[io.file], disk', New, io.block_nr)
           /\ Block(dinode'[io.file], disk', "data", io.block_nr) = Data
  PROVE  BlocksInv'
<1>1. Writing /\ io.block_nr \in Logical
      BY AllocateFacts
<1>2. /\ IsFiniteSet(New) /\ block_freemap' = block_freemap \cup New
      /\ used_block_count' = used_block_count + Cardinality(New)
      /\ dev_end' \in 0 .. max_fs_blocks /\ dev_end <= dev_end'
      BY <1>1, GetsFacts
<1>3. CASE system' = "up"
  <2>1. \A u \in Words : Word(disk', Block(dinode'[io.file], disk', "data", io.block_nr), u) =
          IF InChunk(u) THEN io.file
          ELSE Word(disk, Block(dinode[io.file], disk, "data", io.block_nr), u)
        BY <1>3, NewData
  <2>. QED  BY <1>1, <1>2, <1>3, <2>1, RoundInv
<1>4. CASE system' # "up"
      BY <1>1, <1>4, CorruptInv
<1>. QED  BY <1>3, <1>4

LEMMA DirectInv ==
  ASSUME BlocksInv, allocate_direct
  PROVE  BlocksInv'
<1> DEFINE f == io.file
           bn == io.block_nr
           in == [Grown EXCEPT !.i_block_nr[bn] = Data]
<1>1. /\ Allocating /\ GetsBlocks /\ IsDirect(bn) /\ NextRound(in)
      /\ disk' = [disk EXCEPT ![Data] = Filled(Zero)]
      BY DEF allocate_direct
<1>2. /\ Writing /\ bn \in Logical /\ Inode \in Inodes /\ Inode = dinode[f] /\ f \in Files
      /\ Placed(block_freemap, dinode, disk, failed)
      /\ disk \in [Blocks -> [Words -> Nat \cup Files]]
      /\ Block(dinode[f], disk, "data", bn) = 0
      /\ Data \in Blocks /\ Data \in Nat /\ Filled(Zero) \in [Words -> Nat \cup Files]
      /\ Grown \in Inodes /\ Grown.i_size = Inode.i_size
      /\ Grown.block_count = Inode.block_count + Cardinality(New)
      /\ Grown.i_indirect = Inode.i_indirect /\ Grown.i_dindirect = Inode.i_dindirect
      /\ Grown.i_block_nr = Inode.i_block_nr
      BY <1>1, AllocateFacts
<1>3. bn \in 0 .. NR_DIRECT_BLOCKS - 1 /\ MissingIndexBlocks = 0
      BY <1>1, <1>2, LogicalFacts, MissingFacts
<1>4. /\ in \in Inodes /\ in.i_size = Inode.i_size
      /\ in.block_count = Inode.block_count + Cardinality(New)
      /\ in.i_indirect = Inode.i_indirect /\ in.i_dindirect = Inode.i_dindirect
      /\ \A n \in 0 .. NR_DIRECT_BLOCKS - 1 :
           in.i_block_nr[n] = IF n = bn THEN Data ELSE Inode.i_block_nr[n]
      BY <1>2, <1>3 DEF Inodes
<1>5. /\ disk' \in [Blocks -> [Words -> Nat \cup Files]] /\ disk'[Data] = Filled(Zero)
      /\ \A b \in Blocks : b # Data => disk'[b] = disk[b]
      BY <1>1, <1>2
<1>6. /\ \A b : b \in New <=> b = Data
      /\ system' = "up" => Fresh(block_freemap, dinode, Data)
  <2>1. /\ \A i \in 1 .. MissingIndexBlocks + 1 : system' = "up" => Fresh(block_freemap, dinode, FreeBlock(i))
        /\ \A b : b \in New <=> \E i \in 1 .. MissingIndexBlocks + 1 : b = FreeBlock(i)
        BY <1>1, <1>2, GetsFacts
  <2>2. 1 .. MissingIndexBlocks + 1 = {1} /\ Data = FreeBlock(1)
        BY <1>3 DEF Data
  <2>. QED  BY <2>1, <2>2
<1> HIDE DEF in
<1>7. ASSUME system' = "up"
      PROVE  /\ Changes(block_freemap, dinode, disk, f, dinode'[f], disk', New, bn)
             /\ Block(dinode'[f], disk', "data", bn) = Data
  <2>1. /\ dinode'[f].i_indirect = in.i_indirect
        /\ dinode'[f].i_dindirect = in.i_dindirect
        /\ dinode'[f].i_block_nr = in.i_block_nr
        BY <1>1, <1>2, <1>4, NextRoundSizes
  <2>2. /\ dinode'[f].i_indirect = dinode[f].i_indirect
        /\ dinode'[f].i_dindirect = dinode[f].i_dindirect
        /\ \A n \in 0 .. NR_DIRECT_BLOCKS - 1 :
             dinode'[f].i_block_nr[n] = IF n = bn THEN Data ELSE dinode[f].i_block_nr[n]
        BY <1>2, <1>4, <2>1
  <2>3. InTheInode(block_freemap, dinode, disk, f, dinode'[f], disk', New, bn, Data)
        BY <1>1, <1>2, <1>5, <1>6, <1>7, <2>2 DEF InTheInode
  <2>. QED  BY <1>2, <2>3, DirectChange
<1>. QED  BY <1>1, <1>4, <1>5, <1>7, GetsInv

LEMMA IndirectInv ==
  ASSUME BlocksInv, allocate_indirect
  PROVE  BlocksInv'
<1> DEFINE f == io.file
           bn == io.block_nr
           t == IF Inode.i_indirect = 0 THEN FreeBlock(1) ELSE Inode.i_indirect
           in == [Grown EXCEPT !.i_indirect = t]
           page == [Index(t) EXCEPT ![Offset(bn)] = Data]
<1>1. /\ Allocating /\ GetsBlocks /\ IsIndirect(bn) /\ NextRound(in)
      /\ disk' = [disk EXCEPT ![t] = page, ![Data] = Filled(Zero)]
      BY DEF allocate_indirect
<1>2. /\ Writing /\ bn \in Logical /\ Inode \in Inodes /\ Inode = dinode[f] /\ f \in Files
      /\ Placed(block_freemap, dinode, disk, failed)
      /\ disk \in [Blocks -> [Words -> Nat \cup Files]]
      /\ Block(dinode[f], disk, "data", bn) = 0
      /\ Data \in Blocks /\ Data \in Nat /\ Filled(Zero) \in [Words -> Nat \cup Files]
      /\ Grown \in Inodes /\ Grown.i_size = Inode.i_size
      /\ Grown.block_count = Inode.block_count + Cardinality(New)
      /\ Grown.i_indirect = Inode.i_indirect /\ Grown.i_dindirect = Inode.i_dindirect
      /\ Grown.i_block_nr = Inode.i_block_nr
      BY <1>1, AllocateFacts
<1>3. /\ Offset(bn) \in Words
      /\ MissingIndexBlocks = IF Inode.i_indirect = 0 THEN 1 ELSE 0
      BY <1>1, <1>2, LogicalFacts, MissingFacts
<1>4. /\ \A i \in 1 .. MissingIndexBlocks + 1 :
           /\ FreeBlock(i) \in (1 .. max_fs_blocks) \ block_freemap
           /\ system' = "up" => Fresh(block_freemap, dinode, FreeBlock(i))
      /\ \A i, j \in 1 .. MissingIndexBlocks + 1 : FreeBlock(i) = FreeBlock(j) => i = j
      /\ \A b : b \in New <=> \E i \in 1 .. MissingIndexBlocks + 1 : b = FreeBlock(i)
      BY <1>1, <1>2, GetsFacts
<1>5. /\ \A b : b \in New <=> b = Data \/ (b = t /\ Inode.i_indirect = 0)
      /\ Inode.i_indirect = 0 => /\ t \in 1 .. max_fs_blocks /\ t # Data
                                 /\ system' = "up" => Fresh(block_freemap, dinode, t)
      /\ system' = "up" => Fresh(block_freemap, dinode, Data)
  <2>1. CASE Inode.i_indirect = 0
    <3>1. 1 .. MissingIndexBlocks + 1 = {1, 2} /\ Data = FreeBlock(2) /\ t = FreeBlock(1)
          BY <1>3, <2>1 DEF Data
    <3>. QED  BY <1>4, <2>1, <3>1
  <2>2. CASE Inode.i_indirect # 0
    <3>1. 1 .. MissingIndexBlocks + 1 = {1} /\ Data = FreeBlock(1)
          BY <1>3, <2>2 DEF Data
    <3>. QED  BY <1>4, <2>2, <3>1
  <2>. QED  BY <2>1, <2>2
<1>6. t \in Blocks /\ t \in Nat
  <2>1. CASE Inode.i_indirect = 0
        BY <1>5, <2>1, FileBlocksAssumption DEF Blocks
  <2>2. CASE Inode.i_indirect # 0
    <3>1. Block(dinode[f], disk, "indirect", 0) = t
          BY <1>2, <2>2, BlockCases
    <3>2. t \in Blocks
          BY <1>2, <2>2, <3>1, SpotFacts, PlacedFacts
    <3>. QED  BY <3>2 DEF Blocks
  <2>. QED  BY <2>1, <2>2
<1>7. system' = "up" => /\ t # Data
                        /\ \A i \in Words : Index(t)[i] = Word(disk, Inode.i_indirect, i)
  <2> HAVE system' = "up"
  <2>1. CASE Inode.i_indirect = 0
        BY <1>5, <2>1, ZeroFacts DEF Index, Word
  <2>2. CASE Inode.i_indirect # 0
    <3>1. t # Data
          BY <1>2, <1>5, <2>2 DEF Fresh
    <3>. QED  BY <1>5, <2>2, <3>1 DEF Index, Word
  <2>. QED  BY <2>1, <2>2
<1>8. Index(t) \in [Words -> Nat \cup Files]
      BY <1>2, <1>6, ZeroFacts DEF Index
<1> HIDE DEF t
<1>9. /\ in \in Inodes /\ in.i_size = Inode.i_size
      /\ in.block_count = Inode.block_count + Cardinality(New)
      /\ in.i_indirect = t /\ in.i_dindirect = Inode.i_dindirect
      /\ in.i_block_nr = Inode.i_block_nr
      BY <1>2, <1>6 DEF Inodes
<1> HIDE DEF in
<1>10. /\ page \in [Words -> Nat \cup Files]
       /\ \A i \in Words : page[i] = IF i = Offset(bn) THEN Data ELSE Index(t)[i]
       BY <1>2, <1>3, <1>8
<1> HIDE DEF page
<1>11. /\ disk' \in [Blocks -> [Words -> Nat \cup Files]] /\ disk'[Data] = Filled(Zero)
       /\ t # Data => disk'[t] = page
       /\ \A b \in Blocks : b # Data /\ b # t => disk'[b] = disk[b]
       BY <1>1, <1>2, <1>6, <1>10
<1>12. ASSUME system' = "up"
       PROVE  /\ Changes(block_freemap, dinode, disk, f, dinode'[f], disk', New, bn)
              /\ Block(dinode'[f], disk', "data", bn) = Data
  <2>1. /\ dinode'[f].i_indirect = in.i_indirect
        /\ dinode'[f].i_dindirect = in.i_dindirect
        /\ dinode'[f].i_block_nr = in.i_block_nr
        BY <1>1, <1>2, <1>9, NextRoundSizes
  <2>2. /\ dinode'[f].i_indirect = t
        /\ dinode'[f].i_dindirect = dinode[f].i_dindirect
        /\ dinode'[f].i_block_nr = dinode[f].i_block_nr
        BY <1>2, <1>9, <2>1
  <2>3. \A i \in Words : disk'[t][i] = IF i = Offset(bn) THEN Data
                                       ELSE Word(disk, dinode[f].i_indirect, i)
        BY <1>2, <1>7, <1>10, <1>11, <1>12
  <2>4. IF dinode[f].i_indirect = 0 THEN Fresh(block_freemap, dinode, t) ELSE t = dinode[f].i_indirect
        BY <1>2, <1>5, <1>12 DEF t
  <2>5. t # Data /\ Fresh(block_freemap, dinode, Data)
        BY <1>5, <1>7, <1>12
  <2>6. \A b : b \in New <=> b = Data \/ (b = t /\ dinode[f].i_indirect = 0)
        BY <1>2, <1>5
  <2>7. InIndirect(block_freemap, dinode, disk, f, dinode'[f], disk', New, bn, Data, t)
        BY <1>1, <1>2, <1>11, <2>2, <2>3, <2>4, <2>5, <2>6 DEF InIndirect
  <2>. QED  BY <1>2, <2>7, IndirectChange
<1>. QED  BY <1>1, <1>9, <1>11, <1>12, GetsInv

LEMMA DoubleInv ==
  ASSUME BlocksInv, allocate_double
  PROVE  BlocksInv'
<1> DEFINE f == io.file
           bn == io.block_nr
           p == Page(bn)
           o == PageOffset(bn)
           top == IF Inode.i_dindirect = 0 THEN FreeBlock(1) ELSE Inode.i_dindirect
           page == IF MissingIndexBlocks = 0 THEN Entry(top, p) ELSE FreeBlock(MissingIndexBlocks)
           below == Block(Inode, disk, "page", p)
           in == [Grown EXCEPT !.i_dindirect = top]
           upper == [Index(top) EXCEPT ![p] = page]
           lower == [Index(page) EXCEPT ![o] = Data]
<1>1. /\ Allocating /\ GetsBlocks /\ IsDouble(bn) /\ NextRound(in)
      /\ disk' = [disk EXCEPT ![top] = upper, ![page] = lower, ![Data] = Filled(Zero)]
      BY DEF allocate_double
<1>2. /\ Writing /\ bn \in Logical /\ Inode \in Inodes /\ Inode = dinode[f] /\ f \in Files
      /\ Placed(block_freemap, dinode, disk, failed)
      /\ disk \in [Blocks -> [Words -> Nat \cup Files]]
      /\ Block(dinode[f], disk, "data", bn) = 0
      /\ Data \in Blocks /\ Data \in Nat /\ Filled(Zero) \in [Words -> Nat \cup Files]
      /\ Grown \in Inodes /\ Grown.i_size = Inode.i_size
      /\ Grown.block_count = Inode.block_count + Cardinality(New)
      /\ Grown.i_indirect = Inode.i_indirect /\ Grown.i_dindirect = Inode.i_dindirect
      /\ Grown.i_block_nr = Inode.i_block_nr
      BY <1>1, AllocateFacts
<1>3. /\ p \in Words /\ o \in Words
      /\ MissingIndexBlocks = IF Inode.i_dindirect = 0 THEN 2 ELSE IF below = 0 THEN 1 ELSE 0
      BY <1>1, <1>2, LogicalFacts, MissingFacts
<1>4. /\ \A i \in 1 .. MissingIndexBlocks + 1 :
           /\ FreeBlock(i) \in (1 .. max_fs_blocks) \ block_freemap
           /\ system' = "up" => Fresh(block_freemap, dinode, FreeBlock(i))
           /\ FreeBlock(i) <= dev_end'
      /\ \A i, j \in 1 .. MissingIndexBlocks + 1 : FreeBlock(i) = FreeBlock(j) => i = j
      /\ \A b : b \in New <=> \E i \in 1 .. MissingIndexBlocks + 1 : b = FreeBlock(i)
      BY <1>1, <1>2, GetsFacts
<1>5. /\ below = Word(disk, Inode.i_dindirect, p)
      /\ Block(dinode[f], disk, "double", 0) = Inode.i_dindirect
      /\ Inode.i_dindirect = 0 => below = 0
      /\ IsSpot("page", p) /\ IsSpot("double", 0)
      BY <1>2, <1>3, PageBlock, BlockCases, SpotFacts DEF Word
<1>6. /\ Inode.i_dindirect # 0 => Inode.i_dindirect \in Blocks
      /\ below # 0 => below \in Blocks
      /\ below # 0 => below # Inode.i_dindirect
  <2>1. /\ Inode.i_dindirect # 0 => Inode.i_dindirect \in Blocks
        /\ below # 0 => below \in Blocks
        BY <1>2, <1>5, PlacedFacts
  <2>2. ASSUME below # 0, below = Inode.i_dindirect
        PROVE  FALSE
    <3>1. Unique(dinode, disk)
          BY <1>2 DEF Placed
    <3>2. /\ Block(dinode[f], disk, "page", p) # 0
          /\ Block(dinode[f], disk, "page", p) = Block(dinode[f], disk, "double", 0)
          BY <1>2, <1>5, <2>2
    <3>. QED  BY <1>2, <1>5, <3>1, <3>2 DEF Unique
  <2>. QED  BY <2>1, <2>2
<1>7. /\ Inode.i_dindirect # 0 => top = Inode.i_dindirect
      /\ Inode.i_dindirect = 0 => /\ top \in 1 .. max_fs_blocks /\ top # Data /\ top # page
                                  /\ top <= dev_end'
                                  /\ system' = "up" => Fresh(block_freemap, dinode, top)
      /\ below # 0 => page = below
      /\ below = 0 => /\ page \in 1 .. max_fs_blocks /\ page # Data
                      /\ system' = "up" => Fresh(block_freemap, dinode, page)
      /\ \A b : b \in New <=> \/ b = Data
                              \/ b = top /\ Inode.i_dindirect = 0
                              \/ b = page /\ below = 0
      /\ system' = "up" => Fresh(block_freemap, dinode, Data)
  <2>1. CASE Inode.i_dindirect = 0
    <3>1. /\ 1 .. MissingIndexBlocks + 1 = {1, 2, 3} /\ Data = FreeBlock(3)
          /\ top = FreeBlock(1) /\ page = FreeBlock(2)
          BY <1>3, <2>1 DEF Data
    <3>2. below = 0
          BY <1>5, <2>1
    <3>. QED  BY <1>4, <2>1, <3>1, <3>2
  <2>2. CASE Inode.i_dindirect # 0 /\ below = 0
    <3>1. /\ 1 .. MissingIndexBlocks + 1 = {1, 2} /\ Data = FreeBlock(2)
          /\ top = Inode.i_dindirect /\ page = FreeBlock(1)
          BY <1>3, <2>2 DEF Data
    <3>. QED  BY <1>4, <2>2, <3>1
  <2>3. CASE Inode.i_dindirect # 0 /\ below # 0
    <3>1. 1 .. MissingIndexBlocks + 1 = {1} /\ Data = FreeBlock(1) /\ top = Inode.i_dindirect
          BY <1>3, <2>3 DEF Data
    <3>2. page = below
          BY <1>3, <1>5, <2>3, <3>1 DEF Entry, Word
    <3>. QED  BY <1>4, <2>3, <3>1, <3>2
  <2>. QED  BY <2>1, <2>2, <2>3
<1>8. top \in Blocks /\ top \in Nat /\ page \in Blocks /\ page \in Nat
  <2>1. 1 .. max_fs_blocks \subseteq Blocks /\ Blocks \subseteq Nat
        BY FileBlocksAssumption DEF Blocks
  <2>. QED  BY <1>6, <1>7, <2>1
<1> HIDE DEF top, page, below, p, o
<1>9. system' = "up" =>
        /\ top # Data /\ page # Data /\ top # page
        /\ \A i \in Words : Index(top)[i] = Word(disk, Inode.i_dindirect, i)
        /\ \A i \in Words : Index(page)[i] = Word(disk, below, i)
  <2> HAVE system' = "up"
  <2>1. \A b : Fresh(block_freemap, dinode, b) =>
          /\ b # 0
          /\ \A k, n : IsSpot(k, n) => Block(dinode[f], disk, k, n) # b
        BY <1>2, PlacedFacts
  <2>2. Block(dinode[f], disk, "page", p) = below
        BY <1>2 DEF below
  <2>3. \A b : Fresh(block_freemap, dinode, b) => b # 0 /\ b # below /\ b # Inode.i_dindirect
        BY <1>5, <2>1, <2>2
  <2>4. top # Data /\ page # Data
        BY <1>7, <2>3
  <2>5. top # page
        BY <1>6, <1>7, <2>3
  <2>6. Inode.i_dindirect = 0 => top \in New
        BY <1>7
  <2>7. Inode.i_dindirect # 0 => top \notin New
        BY <1>7, <2>4, <2>5
  <2>8. below = 0 => page \in New
        BY <1>7
  <2>9. below # 0 => page \notin New
        BY <1>7, <2>4, <2>5
  <2>10. \A i \in Words : Index(top)[i] = Word(disk, Inode.i_dindirect, i)
         BY <1>7, <2>6, <2>7, ZeroFacts DEF Index, Word
  <2>11. \A i \in Words : Index(page)[i] = Word(disk, below, i)
         BY <1>7, <2>8, <2>9, ZeroFacts DEF Index, Word
  <2>. QED  BY <2>4, <2>5, <2>10, <2>11
<1>10. Index(top) \in [Words -> Nat \cup Files] /\ Index(page) \in [Words -> Nat \cup Files]
       BY <1>2, <1>8, ZeroFacts DEF Index
<1>11. /\ in \in Inodes /\ in.i_size = Inode.i_size
       /\ in.block_count = Inode.block_count + Cardinality(New)
       /\ in.i_indirect = Inode.i_indirect /\ in.i_dindirect = top
       /\ in.i_block_nr = Inode.i_block_nr
       BY <1>2, <1>8 DEF Inodes
<1> HIDE DEF in
<1>12. /\ upper \in [Words -> Nat \cup Files] /\ lower \in [Words -> Nat \cup Files]
       /\ \A i \in Words : upper[i] = IF i = p THEN page ELSE Index(top)[i]
       /\ \A i \in Words : lower[i] = IF i = o THEN Data ELSE Index(page)[i]
       BY <1>2, <1>3, <1>8, <1>10
<1> HIDE DEF upper, lower
<1>13. /\ disk' \in [Blocks -> [Words -> Nat \cup Files]] /\ disk'[Data] = Filled(Zero)
       /\ \A b \in Blocks : b # Data /\ b # top /\ b # page => disk'[b] = disk[b]
       /\ page # Data => disk'[page] = lower
       /\ top # Data /\ top # page => disk'[top] = upper
       BY <1>1, <1>2, <1>8, <1>12
<1>14. ASSUME system' = "up"
       PROVE  /\ Changes(block_freemap, dinode, disk, f, dinode'[f], disk', New, bn)
              /\ Block(dinode'[f], disk', "data", bn) = Data
  <2>1. /\ dinode'[f].i_indirect = in.i_indirect
        /\ dinode'[f].i_dindirect = in.i_dindirect
        /\ dinode'[f].i_block_nr = in.i_block_nr
        BY <1>1, <1>2, <1>11, NextRoundSizes
  <2>2. /\ dinode'[f].i_indirect = dinode[f].i_indirect
        /\ dinode'[f].i_dindirect = top
        /\ dinode'[f].i_block_nr = dinode[f].i_block_nr
        BY <1>2, <1>11, <2>1
  <2>3. Block(dinode[f], disk, "page", Page(bn)) = below
        BY <1>2 DEF below, p
  <2>4. \A i \in Words : disk'[top][i] = IF i = Page(bn) THEN page
                                         ELSE Word(disk, dinode[f].i_dindirect, i)
        BY <1>2, <1>9, <1>12, <1>13, <1>14 DEF p
  <2>5. \A i \in Words : disk'[page][i] = IF i = PageOffset(bn) THEN Data
                                          ELSE Word(disk, Block(dinode[f], disk, "page", Page(bn)), i)
        BY <1>9, <1>12, <1>13, <1>14, <2>3 DEF o
  <2>6. /\ IF dinode[f].i_dindirect = 0 THEN Fresh(block_freemap, dinode, top)
           ELSE top = dinode[f].i_dindirect
        /\ IF Block(dinode[f], disk, "page", Page(bn)) = 0 THEN Fresh(block_freemap, dinode, page)
           ELSE page = Block(dinode[f], disk, "page", Page(bn))
        /\ Fresh(block_freemap, dinode, Data)
        BY <1>2, <1>7, <1>14, <2>3
  <2>7. \A b : b \in New <=> \/ b = Data
                             \/ b = top /\ dinode[f].i_dindirect = 0
                             \/ b = page /\ Block(dinode[f], disk, "page", Page(bn)) = 0
        BY <1>2, <1>7, <2>3
  <2>8. top # Data /\ page # Data /\ top # page
        BY <1>9, <1>14
  <2>9. InDouble(block_freemap, dinode, disk, f, dinode'[f], disk', New, bn, Data, top, page)
        BY <1>1, <1>2, <1>13, <2>2, <2>4, <2>5, <2>6, <2>7, <2>8 DEF InDouble
  <2>. QED  BY <1>2, <2>9, DoubleChange
<1>15. in.i_dindirect = Inode.i_dindirect \/ (in.i_dindirect <= dev_end' /\ IsDouble(bn))
       BY <1>1, <1>7, <1>11
<1>. QED  BY <1>1, <1>11, <1>13, <1>14, <1>15, GetsInv

(* A block that is there is written again.                                  *)
LEMMA AgainInv ==
  ASSUME BlocksInv, write_again
  PROVE  BlocksInv'
<1> DEFINE f == io.file
           bn == io.block_nr
           d == PhysicalBlock(Inode, bn)
           none == {}
<1>1. /\ Writing /\ bn \in Logical /\ d # 0 /\ NextRound(Inode)
      /\ disk' = [disk EXCEPT ![d] = Filled(disk[d])]
      /\ block_freemap' = block_freemap /\ used_block_count' = used_block_count
      /\ dev_end' = dev_end /\ system' = system
      BY DEF write_again
<1>2. /\ UpInv /\ f \in Files /\ Inode \in Inodes /\ Inode = dinode[f]
      /\ disk \in [Blocks -> [Words -> Nat \cup Files]]
      BY <1>1, WritingFacts DEF Inode, Typed
<1>3. Placed(block_freemap, dinode, disk, failed)
      BY <1>2 DEF UpInv
<1>4. Block(dinode[f], disk, "data", bn) = d
      BY <1>1, <1>2, MissingFacts
<1> HIDE DEF d, none
<1>5. d \in Blocks
      BY <1>1, <1>2, <1>3, <1>4, PlacedFacts, SpotFacts
<1>6. disk[d] \in [Words -> Nat \cup Files]
      BY <1>2, <1>5
<1>7. /\ Filled(disk[d]) \in [Words -> Nat \cup Files]
      /\ \A u \in Words : Filled(disk[d])[u] = IF InChunk(u) THEN f ELSE disk[d][u]
      BY <1>1, <1>6, FilledFacts
<1>8. /\ disk' \in [Blocks -> [Words -> Nat \cup Files]] /\ disk'[d] = Filled(disk[d])
      /\ \A b \in Blocks : b # d => disk'[b] = disk[b]
      BY <1>1, <1>2, <1>5, <1>7
<1>9. /\ \A b : b \notin none
      /\ none = {} /\ IsFiniteSet(none) /\ Cardinality(none) = 0
      BY FS_EmptySet DEF none
<1>10. /\ dinode'[f].i_indirect = dinode[f].i_indirect
       /\ dinode'[f].i_dindirect = dinode[f].i_dindirect
       /\ dinode'[f].i_block_nr = dinode[f].i_block_nr
       BY <1>1, <1>2, NextRoundSizes
<1>11. /\ Changes(block_freemap, dinode, disk, f, dinode'[f], disk', none, bn)
       /\ Block(dinode'[f], disk', "data", bn) = d
  <2>1. InAgain(dinode, disk, f, dinode'[f], disk', none, bn, d)
        BY <1>1, <1>2, <1>4, <1>8, <1>9, <1>10 DEF InAgain
  <2>. QED  BY <1>3, <2>1, AgainChange
<1>12. \A u \in Words : Word(disk', Block(dinode'[f], disk', "data", bn), u) =
         IF InChunk(u) THEN f ELSE Word(disk, Block(dinode[f], disk, "data", bn), u)
       BY <1>1, <1>4, <1>7, <1>8, <1>11 DEF Word
<1>13. /\ dev_end' \in 0 .. max_fs_blocks /\ dev_end <= dev_end' /\ system' = "up"
       BY <1>1, FileBlocksAssumption DEF BlocksInv, TypeOK, Writing
<1>14. /\ block_freemap' = block_freemap \cup none
       /\ used_block_count' = used_block_count + Cardinality(none)
       /\ Inode.block_count = Inode.block_count + Cardinality(none)
  <2>1. used_block_count \in Nat /\ Inode.block_count \in Nat
        BY <1>2, FileBlocksAssumption DEF BlocksInv, TypeOK, Inodes
  <2>. QED  BY <1>1, <1>9, <2>1
<1>. QED  BY <1>1, <1>2, <1>9, <1>11, <1>12, <1>13, <1>14, RoundInv

(* The write ends without a new block: either it has failed, or every block *)
(* is before the end of the file.                                           *)
LEMMA EndsInv ==
  ASSUME BlocksInv, Writing, io' = NoWrite, system' = "up",
         block_freemap' = block_freemap, used_block_count' = used_block_count,
         disk' = disk, written' = written, failed' \subseteq Files,
         dev_end' \in 0 .. max_fs_blocks, dev_end <= dev_end',
         Dangles(block_freemap, dinode, disk, failed, io.file, dinode', failed'),
         \A g \in Files \ {io.file} : dinode'[g] = dinode[g],
         dinode'[io.file].i_size <= NR_MAX_BLOCK * NR_INDIRECT_BLOCKS,
         \/ io.file \in failed'
         \/ \A n \in Logical : n * NR_INDIRECT_BLOCKS < dinode'[io.file].i_size
  PROVE  BlocksInv'
<1> DEFINE f == io.file
           top == NR_DIRECT_BLOCKS + NR_INDIRECT_BLOCKS
<1>1. /\ UpInv /\ f \in Files /\ Typed(block_freemap, dinode, disk)
      BY WritingFacts
<1>2. /\ Counted(block_freemap, dinode, disk, used_block_count)
      /\ written \in [Files -> SUBSET Nat] /\ Contents(dinode, disk, written)
      /\ Bounded(dinode) /\ Extents(dinode, disk, io, failed, dev_end)
      BY <1>1 DEF UpInv
<1>3. failed \subseteq failed'
      BY DEF Dangles
<1>4. /\ Placed(block_freemap, dinode', disk, failed')
      /\ Counted(block_freemap, dinode', disk, used_block_count)
      /\ \A g \in Files : \A n \in Logical :
           Block(dinode'[g], disk, "data", n) = Block(dinode[g], disk, "data", n)
      BY <1>2, DanglesPlaced
<1>5. Contents(dinode', disk', written')
      BY <1>2, <1>4 DEF Contents
<1>6. Bounded(dinode')
  <2>1. \A g \in Files \ {f} : dinode'[g].i_size <= NR_MAX_BLOCK * NR_INDIRECT_BLOCKS
        BY <1>2 DEF Bounded
  <2>. QED  BY <2>1 DEF Bounded
<1>7. top \in Logical /\ dev_end \in Nat /\ dev_end' \in Nat
      BY LogicalFacts, FileBlocksAssumption DEF Logical, BlocksInv, TypeOK
<1>8. Extents(dinode', disk', io', failed', dev_end')
  <2>1. SUFFICES ASSUME NEW g \in Files \ failed'
                 PROVE  /\ dinode'[g].i_dindirect <= dev_end'
                        /\ \A n \in Logical : Block(dinode'[g], disk', "data", n) # 0 =>
                             Begun(dinode', io', g, n)
                        /\ dinode'[g].i_dindirect # 0 => Begun(dinode', io', g, top)
        BY DEF Extents
  <2>2. /\ dinode[g].i_dindirect <= dev_end
        /\ \A n \in Logical : Block(dinode[g], disk, "data", n) # 0 => Begun(dinode, io, g, n)
        /\ dinode[g].i_dindirect # 0 => Begun(dinode, io, g, top)
        BY <1>2, <1>3 DEF Extents
  <2>3. dinode'[g].i_dindirect = dinode[g].i_dindirect /\ dinode[g].i_dindirect \in Nat
    <3>1. dinode[g] \in Inodes
          BY <1>1 DEF Typed
    <3>. QED  BY <3>1 DEF Dangles, Inodes
  <2>4. \A n \in Logical : Begun(dinode, io, g, n) => Begun(dinode', io', g, n)
    <3>1. CASE g = f
          BY <3>1 DEF Begun
    <3>2. CASE g # f
      <4>1. dinode'[g] = dinode[g]
            BY <3>2
      <4>. QED  BY <3>2, <4>1 DEF Begun
    <3>. QED  BY <3>1, <3>2
  <2>. QED  BY <1>4, <1>7, <2>2, <2>3, <2>4
<1>9. UpInv'
      BY <1>2, <1>4, <1>5, <1>6, <1>8 DEF UpInv, IsWrite
<1>. QED  BY <1>9, UpTypes

(* Writing behind the largest file leaves it with the largest size.         *)
LEMMA TooBigInv ==
  ASSUME BlocksInv, write_too_big
  PROVE  BlocksInv'
<1> DEFINE f == io.file
           b == NR_INDIRECT_BLOCKS
<1>1. /\ Writing /\ io.block_nr >= NR_MAX_BLOCK
      /\ dinode' = [dinode EXCEPT ![f].i_size = b * io.block_nr]
      /\ io' = NoWrite
      /\ block_freemap' = block_freemap /\ used_block_count' = used_block_count
      /\ disk' = disk /\ dev_end' = dev_end /\ system' = system
      /\ written' = written /\ failed' = failed
      BY DEF write_too_big, WriteEnds
<1>2. /\ UpInv /\ f \in Files /\ Typed(block_freemap, dinode, disk)
      /\ io.block_nr \in 0 .. NR_MAX_BLOCK
      BY <1>1, WritingFacts
<1>3. /\ b \in Nat \ {0} /\ NR_MAX_BLOCK \in Nat /\ io.block_nr = NR_MAX_BLOCK
      BY <1>1, <1>2, LogicalFacts, FileBlocksAssumption
<1>4. b * io.block_nr = NR_MAX_BLOCK * b /\ NR_MAX_BLOCK * b \in Nat
      BY <1>3
<1>5. dinode \in [Files -> Inodes] /\ dinode[f] \in Inodes
      BY <1>2 DEF Typed
<1>6. /\ dinode' \in [Files -> Inodes]
      /\ \A g \in Files \ {f} : dinode'[g] = dinode[g]
      /\ dinode'[f].i_size = NR_MAX_BLOCK * b
      /\ dinode'[f].i_indirect = dinode[f].i_indirect
      /\ dinode'[f].i_dindirect = dinode[f].i_dindirect
      /\ dinode'[f].i_block_nr = dinode[f].i_block_nr
      /\ dinode'[f].block_count = dinode[f].block_count
  <2>1. dinode' = [dinode EXCEPT ![f] = [dinode[f] EXCEPT !.i_size = NR_MAX_BLOCK * b]]
        BY <1>1, <1>4
  <2>2. [dinode[f] EXCEPT !.i_size = NR_MAX_BLOCK * b] \in Inodes
        BY <1>4, <1>5 DEF Inodes
  <2>3. dinode'[f] = [dinode[f] EXCEPT !.i_size = NR_MAX_BLOCK * b]
        BY <1>2, <1>5, <2>1
  <2>4. dinode' \in [Files -> Inodes] /\ \A g \in Files \ {f} : dinode'[g] = dinode[g]
        BY <1>5, <2>1, <2>2
  <2>. QED  BY <1>5, <2>3, <2>4 DEF Inodes
<1>7. Dangles(block_freemap, dinode, disk, failed, f, dinode', failed')
  <2>1. Placed(block_freemap, dinode, disk, failed)
        BY <1>2 DEF UpInv
  <2>. QED  BY <1>1, <1>2, <1>6, <2>1 DEF Dangles
<1>8. \A n \in Logical : n * b < dinode'[f].i_size
  <2> TAKE n \in Logical
  <2>1. n \in Nat /\ n + 1 \in Nat /\ n + 1 <= NR_MAX_BLOCK
        BY <1>3 DEF Logical
  <2>2. (n + 1) * b <= NR_MAX_BLOCK * b /\ NR_MAX_BLOCK * b \in Nat
        BY <1>3, <2>1, ProductGrows
  <2>3. (n + 1) * b = n * b + b /\ n * b \in Nat
        BY <1>3, <2>1, ProductGrows
  <2>. QED  BY <1>3, <1>6, <2>2, <2>3
<1>9. /\ system' = "up" /\ failed' \subseteq Files
      /\ dev_end' \in 0 .. max_fs_blocks /\ dev_end <= dev_end'
      BY <1>1, FileBlocksAssumption DEF BlocksInv, TypeOK, Writing
<1>10. dinode'[f].i_size <= NR_MAX_BLOCK * b
       BY <1>4, <1>6
<1>. QED  BY <1>1, <1>6, <1>7, <1>8, <1>9, <1>10, EndsInv

(* The process stops.                                                       *)
LEMMA StoppedInv ==
  ASSUME BlocksInv, system' # "up",
         system' \in {"exited", "corrupt", "unmark_failed", "blocks_left"},
         UNCHANGED << block_freemap, used_block_count, dinode, disk, dev_end, io, written, failed >>
  PROVE  BlocksInv'
BY DEF BlocksInv, TypeOK

(* A write begins.                                                          *)
LEMMA WriteInv ==
  ASSUME BlocksInv, NEW f \in Files, NEW start \in Starts, NEW size \in Sizes,
         cmd_write(f, start, size)
  PROVE  BlocksInv'
<1> DEFINE b == NR_INDIRECT_BLOCKS
<1>1. /\ system = "up" /\ io = NoWrite /\ start \div b < NR_MAX_BLOCK
      /\ io' = [file |-> f, block_nr |-> start \div b, block_ix |-> start % b,
                size |-> size, end |-> start + size]
      /\ block_freemap' = block_freemap /\ used_block_count' = used_block_count
      /\ dinode' = dinode /\ disk' = disk /\ dev_end' = dev_end /\ system' = system
      /\ written' = written /\ failed' = failed
      BY DEF cmd_write
<1>2. b \in Nat \ {0} /\ start \in Nat /\ size \in Nat \ {0} /\ NR_MAX_BLOCK \in Nat
      BY LogicalFacts, FileBlocksAssumption
<1> HIDE DEF b
<1>3. /\ start \div b \in 0 .. NR_MAX_BLOCK /\ start % b \in 0 .. b - 1
      /\ start = (start \div b) * b + (start % b)
  <2>1. /\ start \div b \in Nat /\ start % b \in 0 .. b - 1
        /\ start = (start \div b) * b + (start % b)
        BY <1>2, DivMod
  <2>. QED  BY <1>1, <1>2, <2>1
<1>4. IsWrite(io')
      BY <1>1, <1>2, <1>3 DEF IsWrite, Words, b
<1>5. UpInv
      BY <1>1 DEF BlocksInv
<1>6. NoFile \notin Files
      BY FileBlocksAssumption
<1>7. Extents(dinode', disk', io', failed', dev_end')
  <2>1. \A g \in Files : \A n : Begun(dinode, io, g, n) => Begun(dinode', io', g, n)
        BY <1>1, <1>6 DEF Begun, NoWrite
  <2>. QED  BY <1>1, <1>5, <2>1 DEF UpInv, Extents
<1>8. UpInv'
      BY <1>1, <1>4, <1>5, <1>7 DEF UpInv
<1>9. dev_end' \in 0 .. max_fs_blocks /\ failed' \subseteq Files
      BY <1>1 DEF BlocksInv, TypeOK
<1>. QED  BY <1>1, <1>8, <1>9, UpTypes

(* An allocation fails, and frees what it got.                              *)
LEMMA FailsInv ==
  ASSUME BlocksInv, allocate_fails
  PROVE  BlocksInv'
<1> DEFINE f == io.file
           bn == io.block_nr
           taken == FreeBlocks(Left)
           dangles == IsIndirect(bn) /\ Left = 1
<1>1. /\ Writing /\ bn \in Logical /\ Left < MissingIndexBlocks + 1
      /\ failed' = failed \cup {f} /\ io' = NoWrite /\ written' = written
      /\ disk' = [b \in Blocks |-> IF b \in taken THEN Zero ELSE disk[b]]
      /\ Reach(taken) /\ StopIfDangling(taken)
      /\ block_freemap' = block_freemap /\ used_block_count' = used_block_count
      /\ dinode' = IF dangles THEN [dinode EXCEPT ![f].i_indirect = FreeBlock(1)] ELSE dinode
      BY DEF allocate_fails, NoSpace, Allocating, WriteEnds, Freed
<1>2. /\ UpInv /\ f \in Files /\ Typed(block_freemap, dinode, disk) /\ Inode = dinode[f]
      /\ Placed(block_freemap, dinode, disk, failed)
      BY <1>1, WritingFacts DEF UpInv, Inode
<1>3. /\ block_freemap \subseteq 1 .. max_fs_blocks /\ dinode[f] \in Inodes
      /\ dinode \in [Files -> Inodes] /\ disk \in [Blocks -> [Words -> Nat \cup Files]]
      /\ system = "up" /\ dev_end \in 0 .. max_fs_blocks /\ failed \subseteq Files
      BY <1>1, <1>2 DEF Typed, BlocksInv, TypeOK, Writing
<1>4. /\ Left = max_fs_blocks - Cardinality(block_freemap) /\ Left \in Nat
      /\ MissingIndexBlocks \in 0 .. 2
      /\ IsIndirect(bn) => MissingIndexBlocks = IF dinode[f].i_indirect = 0 THEN 1 ELSE 0
      BY <1>1, <1>2, MissingFacts
<1>5. /\ \A i \in 1 .. Left : FreeBlock(i) \in (1 .. max_fs_blocks) \ block_freemap
      /\ \A b : b \in taken <=> \E i \in 1 .. Left : b = FreeBlock(i)
  <2>1. Left <= max_fs_blocks - Cardinality(block_freemap)
        BY <1>4
  <2>. QED  BY <1>3, <1>4, <2>1, FreeBlocksFacts
<1> HIDE DEF taken
<1>6. taken \in SUBSET ((1 .. max_fs_blocks) \ block_freemap) /\ taken \in SUBSET (1 .. max_fs_blocks)
      BY <1>5
<1>7. /\ system' \in {"up", "corrupt"}
      /\ system' = "up" => \A b \in taken : Fresh(block_freemap, dinode, b)
      BY <1>1, <1>3, <1>6, FreshBlocks
<1>8. /\ dev_end' \in 0 .. max_fs_blocks /\ dev_end <= dev_end'
      BY <1>1, <1>3, <1>6, ReachFacts
<1>9. dangles => /\ FreeBlock(1) \in taken /\ FreeBlock(1) \in Nat
                 /\ dinode[f].i_indirect = 0
  <2> HAVE dangles
  <2>1. 1 \in 1 .. Left /\ MissingIndexBlocks = 1
        BY <1>1, <1>4
  <2>2. FreeBlock(1) \in taken /\ dinode[f].i_indirect = 0
        BY <1>4, <1>5, <2>1
  <2>3. \A b \in taken : b \in Nat
        BY <1>6, FileBlocksAssumption
  <2>. QED  BY <2>2, <2>3
<1>10. /\ dinode' \in [Files -> Inodes]
       /\ \A g \in Files \ {f} : dinode'[g] = dinode[g]
       /\ dinode'[f].i_size = dinode[f].i_size
       /\ dinode'[f].i_dindirect = dinode[f].i_dindirect
       /\ dinode'[f].i_block_nr = dinode[f].i_block_nr
       /\ dinode'[f].block_count = dinode[f].block_count
       /\ dinode'[f].i_indirect = IF dangles THEN FreeBlock(1) ELSE dinode[f].i_indirect
  <2>1. CASE dangles
    <3>1. dinode' = [dinode EXCEPT ![f] = [dinode[f] EXCEPT !.i_indirect = FreeBlock(1)]]
          BY <1>1, <2>1
    <3>2. [dinode[f] EXCEPT !.i_indirect = FreeBlock(1)] \in Inodes
          BY <1>3, <1>9, <2>1 DEF Inodes
    <3>3. dinode'[f] = [dinode[f] EXCEPT !.i_indirect = FreeBlock(1)]
          BY <1>2, <1>3, <3>1
    <3>4. dinode' \in [Files -> Inodes] /\ \A g \in Files \ {f} : dinode'[g] = dinode[g]
          BY <1>3, <3>1, <3>2
    <3>. QED  BY <1>3, <2>1, <3>3, <3>4 DEF Inodes
  <2>2. CASE ~dangles
        BY <1>1, <1>3, <2>2
  <2>. QED  BY <2>1, <2>2
<1>11. failed' \subseteq Files
       BY <1>1, <1>2, <1>3
<1>12. CASE system' = "up"
  <2>1. \A b \in taken : Fresh(block_freemap, dinode, b) /\ disk[b] = Zero
        BY <1>2, <1>7, <1>12, PlacedFacts
  <2>2. disk' = disk
    <3>1. \A b \in Blocks : disk'[b] = disk[b]
          BY <1>1, <2>1
    <3>2. disk = [b \in Blocks |-> disk[b]] /\ disk' = [b \in Blocks |-> disk'[b]]
          BY <1>1, <1>3
    <3>. QED  BY <3>1, <3>2
  <2>3. f \in failed' /\ failed \subseteq failed'
        BY <1>1
  <2>4. Dangles(block_freemap, dinode, disk, failed, f, dinode', failed')
    <3>1. \/ dinode'[f].i_indirect = dinode[f].i_indirect
          \/ dinode[f].i_indirect = 0 /\ Fresh(block_freemap, dinode, dinode'[f].i_indirect)
          BY <1>9, <1>10, <2>1
    <3>2. \A g \in Files : /\ dinode'[g].i_dindirect = dinode[g].i_dindirect
                           /\ dinode'[g].i_block_nr = dinode[g].i_block_nr
                           /\ dinode'[g].block_count = dinode[g].block_count
                           /\ g # f => dinode'[g].i_indirect = dinode[g].i_indirect
          BY <1>10
    <3>. QED  BY <1>2, <1>10, <2>3, <3>1, <3>2 DEF Dangles
  <2>5. dinode'[f].i_size <= NR_MAX_BLOCK * NR_INDIRECT_BLOCKS
        BY <1>2, <1>10 DEF UpInv, Bounded
  <2>. QED  BY <1>1, <1>8, <1>10, <1>11, <1>12, <2>2, <2>3, <2>4, <2>5, EndsInv
<1>13. CASE system' # "up"
  <2>1. disk' \in [Blocks -> [Words -> Nat \cup Files]]
        BY <1>1, <1>3, ZeroFacts
  <2>2. io'.file \in Files \cup {NoFile} /\ io'.size \in Nat /\ io'.block_ix \in Words
        BY <1>1, LogicalFacts DEF NoWrite
  <2>. QED  BY <1>1, <1>7, <1>8, <1>10, <1>11, <1>13, <2>1, <2>2 DEF BlocksInv, TypeOK
<1>. QED  BY <1>12, <1>13

(* It fails below a new double indirect block, which stays.                 *)
LEMMA FailsBelowInv ==
  ASSUME BlocksInv, allocate_fails_below
  PROVE  BlocksInv'
<1> DEFINE f == io.file
           bn == io.block_nr
           new == FreeBlocks(1)
           top == FreeBlock(1)
<1>1. /\ Writing /\ bn \in Logical /\ IsDouble(bn) /\ Inode.i_dindirect = 0 /\ Left = 1
      /\ failed' = failed \cup {f} /\ io' = NoWrite /\ written' = written
      /\ block_freemap' = block_freemap \cup new
      /\ used_block_count' = used_block_count + Cardinality(new)
      /\ StopIfDangling(new)
      /\ dinode' = [dinode EXCEPT ![f].i_dindirect = top, ![f].block_count = @ + 1]
      /\ disk' = disk /\ dev_end' = dev_end
      BY DEF allocate_fails_below, NoSpace, Allocating, WriteEnds, KeepsDouble, Allocate
<1>2. /\ UpInv /\ f \in Files /\ Typed(block_freemap, dinode, disk) /\ Inode = dinode[f]
      BY <1>1, WritingFacts DEF Inode
<1>3. /\ block_freemap \subseteq 1 .. max_fs_blocks /\ dinode[f] \in Inodes
      /\ dinode \in [Files -> Inodes] /\ disk \in [Blocks -> [Words -> Nat \cup Files]]
      /\ system = "up" /\ dev_end \in 0 .. max_fs_blocks /\ failed \subseteq Files
      BY <1>1, <1>2 DEF Typed, BlocksInv, TypeOK, Writing
<1>4. /\ Placed(block_freemap, dinode, disk, failed)
      /\ Counted(block_freemap, dinode, disk, used_block_count)
      /\ written \in [Files -> SUBSET Nat] /\ Contents(dinode, disk, written)
      /\ Bounded(dinode) /\ Extents(dinode, disk, io, failed, dev_end)
      BY <1>2 DEF UpInv
<1>5. /\ top \in (1 .. max_fs_blocks) \ block_freemap
      /\ \A b : b \in new <=> b = top
      /\ IsFiniteSet(new) /\ Cardinality(new) = 1
  <2>1. 1 \in Nat /\ 1 <= max_fs_blocks - Cardinality(block_freemap)
        BY <1>1, MissingFacts
  <2>2. /\ \A i \in 1 .. 1 : FreeBlock(i) \in (1 .. max_fs_blocks) \ block_freemap
        /\ \A b : b \in new <=> \E i \in 1 .. 1 : b = FreeBlock(i)
        /\ IsFiniteSet(new) /\ Cardinality(new) = 1
        BY <1>3, <2>1, FreeBlocksFacts
  <2>3. 1 .. 1 = {1}
        OBVIOUS
  <2>. QED  BY <2>2, <2>3
<1> HIDE DEF new, top
<1>6. new \in SUBSET ((1 .. max_fs_blocks) \ block_freemap) /\ top \in Nat
      BY <1>5, FileBlocksAssumption
<1>7. /\ system' \in {"up", "corrupt"}
      /\ system' = "up" => Fresh(block_freemap, dinode, top)
      BY <1>1, <1>3, <1>5, <1>6, FreshBlocks
<1>8. /\ dinode' \in [Files -> Inodes]
      /\ \A g \in Files \ {f} : dinode'[g] = dinode[g]
      /\ dinode'[f].i_size = dinode[f].i_size
      /\ dinode'[f].i_indirect = dinode[f].i_indirect
      /\ dinode'[f].i_dindirect = top
      /\ dinode'[f].i_block_nr = dinode[f].i_block_nr
      /\ dinode'[f].block_count = dinode[f].block_count + 1
  <2> DEFINE in == [dinode[f] EXCEPT !.i_dindirect = top, !.block_count = dinode[f].block_count + 1]
  <2>1. dinode' = [dinode EXCEPT ![f] = in]
        BY <1>1, <1>2, <1>3
  <2>2. /\ in \in Inodes /\ in.i_size = dinode[f].i_size /\ in.i_indirect = dinode[f].i_indirect
        /\ in.i_dindirect = top /\ in.i_block_nr = dinode[f].i_block_nr
        /\ in.block_count = dinode[f].block_count + 1
    <3>1. dinode[f].block_count + 1 \in Nat
          BY <1>3 DEF Inodes
    <3>. QED  BY <1>3, <1>6, <3>1 DEF Inodes
  <2> HIDE DEF in
  <2>. QED  BY <1>2, <1>3, <2>1, <2>2
<1>9. failed' \subseteq Files /\ f \in failed' /\ failed \subseteq failed'
      BY <1>1, <1>2, <1>3
<1>10. CASE system' = "up"
  <2>1. Fresh(block_freemap, dinode, top)
        BY <1>7, <1>10
  <2>2. /\ Changes(block_freemap, dinode, disk, f, dinode'[f], disk, new, -1)
        /\ \A n \in Logical : Block(dinode'[f], disk, "data", n) = Block(dinode[f], disk, "data", n)
    <3>1. InBelow(block_freemap, dinode, f, dinode'[f], new, top)
          BY <1>1, <1>2, <1>5, <1>8, <2>1 DEF InBelow
    <3>. QED  BY <1>4, <3>1, BelowChange
  <2>3. Changed(block_freemap, dinode, disk, failed, f, block_freemap', dinode', disk, new, -1)
        BY <1>1, <1>2, <1>4, <1>8, <2>2 DEF Changed
  <2>4. Placed(block_freemap', dinode', disk, failed)
        BY <2>3, ChangePlaced
  <2>5. Counted(block_freemap', dinode', disk, used_block_count')
    <3>1. dinode'[f].block_count = dinode[f].block_count + Cardinality(new)
          BY <1>5, <1>8
    <3>2. used_block_count' = used_block_count + Cardinality(new)
          BY <1>1
    <3>3. Counted(block_freemap', dinode', disk, used_block_count + Cardinality(new))
          BY <1>4, <1>5, <2>3, <3>1, ChangeCounted
    <3>. QED  BY <3>2, <3>3
  <2>6. Placed(block_freemap', dinode', disk', failed')
    <3>1. Dangles(block_freemap', dinode', disk, failed, f, dinode', failed')
          BY <1>2, <1>8, <1>9, <2>4 DEF Dangles
    <3>. QED  BY <1>1, <3>1, DanglesPlaced
  <2>7. Contents(dinode', disk', written')
    <3>1. \A g \in Files : \A n \in Logical, u \in Words :
            Word(disk, Block(dinode'[g], disk, "data", n), u) =
              Word(disk, Block(dinode[g], disk, "data", n), u)
      <4>1. \A n \in Logical : n # -1
            BY LogicalFacts
      <4>. QED  BY <2>3, <4>1, ChangeContents
    <3>2. disk' = disk /\ written' = written
          BY <1>1
    <3>. QED  BY <1>4, <3>1, <3>2 DEF Contents
  <2>8. Bounded(dinode')
        BY <1>4, <1>8 DEF Bounded
  <2>9. Extents(dinode', disk', io', failed', dev_end')
        BY <1>1, <1>4, <1>8, <1>9 DEF Extents, Begun
  <2>10. UpInv'
         BY <1>1, <1>4, <2>5, <2>6, <2>7, <2>8, <2>9 DEF UpInv, IsWrite
  <2>11. dev_end' \in 0 .. max_fs_blocks
         BY <1>1, <1>3
  <2>. QED  BY <1>9, <1>10, <2>10, <2>11, UpTypes
<1>11. CASE system' # "up"
  <2>1. io'.file \in Files \cup {NoFile} /\ io'.size \in Nat /\ io'.block_ix \in Words
        BY <1>1, LogicalFacts DEF NoWrite
  <2>2. used_block_count' \in 0 .. max_fs_blocks
    <3>1. Left = max_fs_blocks - used_block_count /\ used_block_count \in 0 .. max_fs_blocks
          BY DEF Left, BlocksInv, TypeOK
    <3>. QED  BY <1>1, <1>5, <3>1, FileBlocksAssumption
  <2>3. block_freemap' \subseteq 1 .. max_fs_blocks
        BY <1>1, <1>3, <1>6
  <2>. QED  BY <1>1, <1>3, <1>7, <1>8, <1>9, <1>11, <2>1, <2>2, <2>3 DEF BlocksInv, TypeOK
<1>. QED  BY <1>10, <1>11

-----------------------------------------------------------------------------
(* Removing a file                                                          *)

(* What rm frees stands in the file.                                        *)
LEMMA FreedSpots ==
  ASSUME NEW in
  PROVE  \A b \in FreedBlocks(in) : b # 0 /\ \E k, n : IsSpot(k, n) /\ Block(in, disk, k, n) = b
<1>1. \A b, i : Entry(b, i) = Word(disk, b, i)
      BY DEF Entry, Word
<1>2. ASSUME NEW b \in FreedDirect(in)
      PROVE  b # 0 /\ \E k, n : IsSpot(k, n) /\ Block(in, disk, k, n) = b
  <2>1. b # 0 /\ \E i \in Logical : IsDirect(i) /\ b = in.i_block_nr[i]
        BY <1>2 DEF FreedDirect
  <2>2. PICK i \in Logical : IsDirect(i) /\ b = in.i_block_nr[i]
        BY <2>1
  <2>3. Block(in, disk, "data", i) = b
        BY <2>2, DirectBlock
  <2>. QED  BY <2>1, <2>3, SpotFacts
<1>3. ASSUME NEW b \in FreedIndirect(in)
      PROVE  b # 0 /\ \E k, n : IsSpot(k, n) /\ Block(in, disk, k, n) = b
  <2>1. b # 0 /\ (\/ b = in.i_indirect
                  \/ \E i \in Logical : IsIndirect(i) /\ b = Word(disk, in.i_indirect, Offset(i)))
        BY <1>1, <1>3 DEF FreedIndirect
  <2>2. CASE b = in.i_indirect
        BY <2>1, <2>2, SpotFacts, BlockCases
  <2>3. CASE \E i \in Logical : IsIndirect(i) /\ b = Word(disk, in.i_indirect, Offset(i))
    <3>1. PICK i \in Logical : IsIndirect(i) /\ b = Word(disk, in.i_indirect, Offset(i))
          BY <2>3
    <3>2. Block(in, disk, "data", i) = b
          BY <3>1, IndirectBlock
    <3>. QED  BY <2>1, <3>2, SpotFacts
  <2>. QED  BY <2>1, <2>2, <2>3
<1>4. ASSUME NEW b \in FreedDouble(in)
      PROVE  b # 0 /\ \E k, n : IsSpot(k, n) /\ Block(in, disk, k, n) = b
  <2>1. b # 0 /\ (\/ b = in.i_dindirect
                  \/ \E i \in Words : b = Word(disk, in.i_dindirect, i)
                  \/ \E i \in Logical : IsDouble(i) /\
                       b = Word(disk, Word(disk, in.i_dindirect, Page(i)), PageOffset(i)))
        BY <1>1, <1>4 DEF FreedDouble
  <2>2. CASE b = in.i_dindirect
        BY <2>1, <2>2, SpotFacts, BlockCases
  <2>3. CASE \E i \in Words : b = Word(disk, in.i_dindirect, i)
    <3>1. PICK i \in Words : b = Word(disk, in.i_dindirect, i)
          BY <2>3
    <3>2. Block(in, disk, "page", i) = b
          BY <3>1, PageBlock
    <3>. QED  BY <2>1, <3>2, SpotFacts
  <2>4. CASE \E i \in Logical : IsDouble(i) /\
               b = Word(disk, Word(disk, in.i_dindirect, Page(i)), PageOffset(i))
    <3>1. PICK i \in Logical :
            IsDouble(i) /\ b = Word(disk, Word(disk, in.i_dindirect, Page(i)), PageOffset(i))
          BY <2>4
    <3>2. Block(in, disk, "page", Page(i)) = Word(disk, in.i_dindirect, Page(i))
          BY PageBlock
    <3>3. Block(in, disk, "data", i) = b
          BY <3>1, <3>2, DoubleBlock
    <3>. QED  BY <2>1, <3>3, SpotFacts
  <2>. QED  BY <2>1, <2>2, <2>3, <2>4
<1>. QED  BY <1>2, <1>3, <1>4 DEF FreedBlocks

(* A file is removed.                                                       *)
LEMMA RemoveInv ==
  ASSUME BlocksInv, NEW f \in Files, cmd_rm(f)
  PROVE  BlocksInv'
<1> DEFINE R == FreedBlocks(dinode[f])
<1>1. /\ system = "up" /\ io = NoWrite
      /\ R \subseteq block_freemap /\ dinode[f].block_count = Cardinality(R)
      /\ block_freemap' = block_freemap \ R
      /\ used_block_count' = used_block_count - Cardinality(R)
      /\ disk' = [b \in Blocks |-> IF b \in R THEN Zero ELSE disk[b]]
      /\ dinode' = [dinode EXCEPT ![f] = EmptyInode]
      /\ written' = [written EXCEPT ![f] = {}]
      /\ failed' = failed \ {f}
      /\ dev_end' = dev_end /\ io' = io /\ system' = system
      BY DEF cmd_rm, UnmarksFree, LeavesBlocks
<1>2. UpInv
      BY <1>1 DEF BlocksInv
<1>3. /\ Placed(block_freemap, dinode, disk, failed)
      /\ Counted(block_freemap, dinode, disk, used_block_count)
      /\ written \in [Files -> SUBSET Nat] /\ Contents(dinode, disk, written)
      /\ Bounded(dinode) /\ Extents(dinode, disk, io, failed, dev_end)
      BY <1>2 DEF UpInv
<1>4. /\ Typed(block_freemap, dinode, disk)
      /\ block_freemap \subseteq 1 .. max_fs_blocks
      /\ dinode \in [Files -> Inodes] /\ disk \in [Blocks -> [Words -> Nat \cup Files]]
      BY <1>3 DEF Placed, Typed
<1>5. \A b \in R : b # 0 /\ \E k, n : IsSpot(k, n) /\ Block(dinode[f], disk, k, n) = b
      BY FreedSpots
<1>6. dinode[f].i_indirect # 0 => dinode[f].i_indirect \in R
      BY DEF FreedBlocks, FreedIndirect
<1> HIDE DEF R
<1>7. R = BlocksOf(block_freemap, dinode[f], disk)
  <2> DEFINE S == BlocksOf(block_freemap, dinode[f], disk)
  <2>1. IsFiniteSet(S)
        BY <1>4, FreemapFinite
  <2>2. R \in SUBSET S
        BY <1>1, <1>5 DEF BlocksOf
  <2>3. Cardinality(S) = Cardinality(R)
        BY <1>1, <1>3 DEF Counted
  <2> HIDE DEF S
  <2>4. S = R
        BY <2>1, <2>2, <2>3, FS_Subset
  <2>. QED  BY <2>4 DEF S
<1>8. /\ dinode' \in [Files -> Inodes] /\ dinode'[f] = EmptyInode
      /\ \A g \in Files \ {f} : dinode'[g] = dinode[g]
      BY <1>1, <1>4, EmptyFile
<1>9. /\ disk' \in [Blocks -> [Words -> Nat \cup Files]]
      /\ \A b \in Blocks : disk'[b] = IF b \in R THEN Zero ELSE disk[b]
      BY <1>1, <1>4, ZeroFacts
<1>10. Removed(block_freemap, dinode, disk, failed, f, R, dinode', disk')
       BY <1>3, <1>6, <1>7, <1>8, <1>9 DEF Removed
<1>11. /\ Placed(block_freemap', dinode', disk', failed')
       /\ Counted(block_freemap', dinode', disk', used_block_count - Cardinality(R))
       /\ OthersKeep(dinode, disk, f, dinode', disk')
  <2>1. block_freemap' = block_freemap \ R
        BY <1>1
  <2>2. failed' = failed \ {f}
        BY <1>1
  <2>3. Placed(block_freemap', dinode', disk', failed')
        BY <1>10, <2>1, <2>2, RemovedPlaced
  <2>4. Counted(block_freemap', dinode', disk', used_block_count - Cardinality(R))
    <3>1. Counted(block_freemap, dinode, disk, used_block_count)
          BY <1>3
    <3>. QED  BY <1>10, <2>1, <2>2, <3>1, RemovedPlaced
  <2>5. OthersKeep(dinode, disk, f, dinode', disk')
        BY <1>10, <2>1, <2>2, RemovedPlaced
  <2>. QED  BY <2>3, <2>4, <2>5
<1>12. /\ written' \in [Files -> SUBSET Nat] /\ written'[f] = {}
       /\ \A g \in Files \ {f} : written'[g] = written[g]
       BY <1>1, <1>3
<1>13. Contents(dinode', disk', written')
  <2>1. \A g \in Files \ {f} : \A n \in Logical, u \in Words :
          Word(disk', Block(dinode'[g], disk', "data", n), u) =
            IF n * NR_INDIRECT_BLOCKS + u \in written'[g] THEN g ELSE 0
        BY <1>3, <1>11, <1>12 DEF Contents, OthersKeep
  <2>2. \A n \in Logical, u \in Words :
          Word(disk', Block(dinode'[f], disk', "data", n), u) =
            IF n * NR_INDIRECT_BLOCKS + u \in written'[f] THEN f ELSE 0
        BY <1>11, <1>12 DEF OthersKeep, Word
  <2>. QED  BY <2>1, <2>2 DEF Contents
<1>14. NR_MAX_BLOCK * NR_INDIRECT_BLOCKS \in Nat /\ dev_end \in 0 .. max_fs_blocks
       /\ max_fs_blocks \in Nat
       BY LogicalFacts, FileBlocksAssumption DEF BlocksInv, TypeOK
<1>15. Bounded(dinode')
       BY <1>3, <1>8, <1>14, EmptyFile DEF Bounded
<1>16. Extents(dinode', disk', io', failed', dev_end')
  <2>1. SUFFICES ASSUME NEW g \in Files, g \notin failed'
                 PROVE  /\ dinode'[g].i_dindirect <= dev_end'
                        /\ \A n \in Logical : Block(dinode'[g], disk', "data", n) # 0 =>
                             Begun(dinode', io', g, n)
                        /\ dinode'[g].i_dindirect # 0 =>
                             Begun(dinode', io', g, NR_DIRECT_BLOCKS + NR_INDIRECT_BLOCKS)
        BY DEF Extents
  <2>2. CASE g = f
        BY <1>1, <1>8, <1>11, <1>14, <2>2, EmptyFile DEF OthersKeep
  <2>3. CASE g # f
    <3>1. g \notin failed /\ dinode'[g] = dinode[g] /\ dev_end' = dev_end /\ io' = io
          BY <1>1, <1>8, <2>1, <2>3
    <3>2. \A n : Begun(dinode', io', g, n) <=> Begun(dinode, io, g, n)
          BY <3>1 DEF Begun
    <3>. QED  BY <1>3, <1>11, <2>3, <3>1, <3>2 DEF Extents, OthersKeep
  <2>. QED  BY <2>2, <2>3
<1>17. UpInv'
       BY <1>1, <1>2, <1>11, <1>12, <1>13, <1>15, <1>16 DEF UpInv
<1>18. failed' \subseteq Files /\ dev_end' \in 0 .. max_fs_blocks /\ system' = "up"
       BY <1>1, <1>14 DEF BlocksInv, TypeOK
<1>. QED  BY <1>17, <1>18, UpTypes

-----------------------------------------------------------------------------
(* The theorems                                                             *)

(* The invariant holds at first.                                            *)
LEMMA BlocksInvInit ==
  ASSUME Init
  PROVE  BlocksInv
<1>1. /\ block_freemap = {} /\ used_block_count = 0
      /\ dinode = [f \in Files |-> EmptyInode] /\ disk = [b \in Blocks |-> Zero]
      /\ dev_end = 0 /\ io = NoWrite /\ system = "up"
      /\ written = [f \in Files |-> {}] /\ failed = {}
      BY DEF Init
<1>2. max_fs_blocks \in Nat /\ NR_MAX_BLOCK * NR_INDIRECT_BLOCKS \in Nat
      BY LogicalFacts, FileBlocksAssumption
<1>3. Typed(block_freemap, dinode, disk)
      BY <1>1, EmptyFile, ZeroFacts DEF Typed
<1>4. TypeOK
      BY <1>1, <1>2, <1>3, LogicalFacts DEF TypeOK, NoWrite, Typed
<1>5. \A f \in Files : dinode[f] = EmptyInode
      BY <1>1
<1>6. \A f \in Files : \A k, n : IsSpot(k, n) => Block(dinode[f], disk, k, n) = 0
      BY <1>5, EmptyFile
<1>7. Placed(block_freemap, dinode, disk, failed)
      BY <1>1, <1>3, <1>6 DEF Placed, Sound, Unique, Covered, Emptied
<1>8. Counted(block_freemap, dinode, disk, used_block_count)
  <2>1. Cardinality({}) = 0
        BY FS_EmptySet
  <2>2. \A f \in Files : BlocksOf(block_freemap, dinode[f], disk) = {}
        BY <1>1 DEF BlocksOf
  <2>. QED  BY <1>1, <1>5, <2>1, <2>2, EmptyFile DEF Counted
<1>9. Contents(dinode, disk, written)
  <2>1. SUFFICES ASSUME NEW f \in Files, NEW n \in Logical, NEW u \in Words
                 PROVE  Word(disk, Block(dinode[f], disk, "data", n), u) =
                          IF n * NR_INDIRECT_BLOCKS + u \in written[f] THEN f ELSE 0
        BY DEF Contents
  <2>2. Block(dinode[f], disk, "data", n) = 0 /\ written[f] = {}
        BY <1>1, <1>6, SpotFacts
  <2>. QED  BY <2>2 DEF Word
<1>10. Bounded(dinode)
       BY <1>2, <1>5, EmptyFile DEF Bounded
<1>11. Extents(dinode, disk, io, failed, dev_end)
       BY <1>1, <1>5, <1>6, SpotFacts, EmptyFile DEF Extents
<1>12. written \in [Files -> SUBSET Nat] /\ IsWrite(io)
       BY <1>1 DEF IsWrite
<1>13. UpInv
       BY <1>7, <1>8, <1>9, <1>10, <1>11, <1>12 DEF UpInv
<1>. QED  BY <1>4, <1>13 DEF BlocksInv

(* Every step keeps it.                                                     *)
LEMMA BlocksInvNext ==
  ASSUME BlocksInv, [Next]_vars
  PROVE  BlocksInv'
<1>1. ASSUME NEW f \in Files, NEW start \in Starts, NEW size \in Sizes, cmd_write(f, start, size)
      PROVE  BlocksInv'
      BY <1>1, WriteInv
<1>2. ASSUME write_round PROVE BlocksInv'
  <2>1. ASSUME write_unreadable PROVE BlocksInv'
        BY <2>1, StoppedInv DEF write_unreadable
  <2>. QED  BY <1>2, <2>1, TooBigInv, AgainInv, DirectInv, IndirectInv, DoubleInv,
               FailsInv, FailsBelowInv
            DEF write_round
<1>3. ASSUME NEW f \in Files, cmd_rm(f) PROVE BlocksInv'
      BY <1>3, RemoveInv
<1>4. ASSUME NEW f \in Files, cmd_rm_stops(f) PROVE BlocksInv'
  <2>1. system' # "up" /\ system' \in {"exited", "corrupt", "unmark_failed", "blocks_left"}
        BY <1>4 DEF cmd_rm_stops
  <2>. QED  BY <1>4, <2>1, StoppedInv DEF cmd_rm_stops
<1>5. ASSUME UNCHANGED vars PROVE BlocksInv'
  <2>1. TypeOK' <=> TypeOK
        BY <1>5 DEF vars, TypeOK
  <2>2. UpInv' <=> UpInv
        BY <1>5 DEF vars, UpInv
  <2>3. system' = system
        BY <1>5 DEF vars
  <2>. QED  BY <2>1, <2>2, <2>3 DEF BlocksInv
<1>. QED  BY <1>1, <1>2, <1>3, <1>4, <1>5 DEF Next

(* The blocks in use, the inodes and the index blocks agree, in every state *)
(* that testfs has not stopped in.                                          *)
THEOREM BlocksInvariant == Spec => []BlocksInv
<1>1. Init => BlocksInv
      BY BlocksInvInit
<1>2. BlocksInv /\ [Next]_vars => BlocksInv'
      BY BlocksInvNext
<1>. QED  BY <1>1, <1>2, PTL DEF Spec

(* The freemap never runs past the limit of the file system, and all that   *)
(* is kept of files, blocks and the write in progress has its type.         *)
THEOREM BlocksTypeOK == Spec => []TypeOK
<1>1. BlocksInv => TypeOK
      BY DEF BlocksInv
<1>. QED  BY <1>1, BlocksInvariant, PTL

(* PhysicalBlock finds the block of a logical block.                        *)
LEMMA PhysicalFacts ==
  ASSUME NEW in
  PROVE  /\ \A b, i : Entry(b, i) = Word(disk, b, i)
         /\ \A n \in Logical : PhysicalBlock(in, n) = Block(in, disk, "data", n)
<1>1. \A b, i : Entry(b, i) = Word(disk, b, i)
      BY DEF Entry, Word
<1>2. ASSUME NEW n \in Logical
      PROVE  PhysicalBlock(in, n) = Block(in, disk, "data", n)
  <2>1. \/ IsDirect(n) /\ ~IsIndirect(n) /\ ~IsDouble(n)
        \/ ~IsDirect(n) /\ IsIndirect(n) /\ ~IsDouble(n)
        \/ ~IsDirect(n) /\ ~IsIndirect(n) /\ IsDouble(n)
        BY LogicalFacts
  <2>2. Block(in, disk, "data", n) = DataAt(in, disk, n)
        BY DEF Block
  <2>. QED  BY <1>1, <2>1, <2>2 DEF DataAt, PhysicalBlock
<1>. QED  BY <1>1, <1>2

(* The pointers of a file are what stands in its spots.                     *)
LEMMA PointerFacts ==
  ASSUME NEW f \in Files
  PROVE  \A p : p \in Pointers(f) <=>
           \E k, n : IsSpot(k, n) /\ p = << f, k, n, Block(dinode[f], disk, k, n) >>
<1> DEFINE in == dinode[f]
<1>1. \A p : p \in Pointers(f) <=>
        \/ \E n \in Logical : p = << f, "data", n, PhysicalBlock(in, n) >>
        \/ p = << f, "indirect", 0, in.i_indirect >>
        \/ p = << f, "double", 0, in.i_dindirect >>
        \/ \E i \in Words : p = << f, "page", i, Entry(in.i_dindirect, i) >>
      BY DEF Pointers
<1>2. /\ \A n \in Logical : PhysicalBlock(in, n) = Block(in, disk, "data", n)
      /\ in.i_indirect = Block(in, disk, "indirect", 0)
      /\ in.i_dindirect = Block(in, disk, "double", 0)
      /\ \A i \in Words : Entry(in.i_dindirect, i) = Block(in, disk, "page", i)
  <2>1. \A n \in Logical : PhysicalBlock(in, n) = Block(in, disk, "data", n)
        BY PhysicalFacts
  <2>2. \A i \in Words : Entry(in.i_dindirect, i) = Block(in, disk, "page", i)
        BY PhysicalFacts, PageBlock
  <2>3. /\ in.i_indirect = Block(in, disk, "indirect", 0)
        /\ in.i_dindirect = Block(in, disk, "double", 0)
        BY BlockCases
  <2>. QED  BY <2>1, <2>2, <2>3
<1> HIDE DEF in
<1>3. \A p : p \in Pointers(f) <=>
        \/ \E n \in Logical : p = << f, "data", n, Block(in, disk, "data", n) >>
        \/ p = << f, "indirect", 0, Block(in, disk, "indirect", 0) >>
        \/ p = << f, "double", 0, Block(in, disk, "double", 0) >>
        \/ \E i \in Words : p = << f, "page", i, Block(in, disk, "page", i) >>
      BY <1>1, <1>2
<1>4. ASSUME NEW p
      PROVE  (\E k, n : IsSpot(k, n) /\ p = << f, k, n, Block(in, disk, k, n) >>) <=>
        \/ \E n \in Logical : p = << f, "data", n, Block(in, disk, "data", n) >>
        \/ p = << f, "indirect", 0, Block(in, disk, "indirect", 0) >>
        \/ p = << f, "double", 0, Block(in, disk, "double", 0) >>
        \/ \E i \in Words : p = << f, "page", i, Block(in, disk, "page", i) >>
      BY SpotFacts
<1>. QED  BY <1>3, <1>4 DEF in

(* What uses a block in use is one place, so there are as many.             *)
LEMMA UsesCounted ==
  ASSUME NEW T, NEW S, IsFiniteSet(S),
         \A p \in T : p[4] \in S, \A b \in S : \E p \in T : p[4] = b,
         \A p, q \in T : p[4] = q[4] => p = q
  PROVE  Cardinality(T) = Cardinality(S)
<1> DEFINE F == [b \in S |-> CHOOSE p \in T : p[4] = b]
<1>1. \A b \in S : F[b] \in T /\ F[b][4] = b
      OBVIOUS
<1>2. F \in [S -> T]
      BY <1>1
<1> HIDE DEF F
<1>3. \A b, c \in S : F[b] = F[c] => b = c
      BY <1>1
<1>4. \A p \in T : \E b \in S : F[b] = p
      BY <1>1
<1>. QED  BY <1>2, <1>3, <1>4, SameSize

(* The invariant says all that is counted: uses and blocks are one to one.  *)
LEMMA AccountedFacts ==
  ASSUME BlocksInv
  PROVE  BlocksAccounted
<1> SUFFICES ASSUME system = "up" PROVE
      LET uses == UNION {Uses(f) : f \in Files} IN
      /\ {p[4] : p \in uses} = block_freemap
      /\ Cardinality(uses) = Cardinality(block_freemap)
      /\ used_block_count = Cardinality(block_freemap)
      /\ \A f \in Files :
           /\ \A p \in Pointers(f) \ Uses(f) : p[4] # 0 => p[2] = "indirect" /\ f \in failed
           /\ dinode[f].block_count = Cardinality(Uses(f))
    BY DEF BlocksAccounted
<1> DEFINE uses == UNION {Uses(f) : f \in Files}
           at(f, k, n) == Block(dinode[f], disk, k, n)
<1>1. /\ Placed(block_freemap, dinode, disk, failed)
      /\ Counted(block_freemap, dinode, disk, used_block_count)
      BY DEF BlocksInv, UpInv
<1>2. /\ Sound(block_freemap, dinode, disk, failed) /\ Unique(dinode, disk)
      /\ Covered(block_freemap, dinode, disk) /\ Typed(block_freemap, dinode, disk)
      /\ \A b \in block_freemap : b # 0
      BY <1>1, FileBlocksAssumption DEF Placed, Typed
<1>3. \A f \in Files : \A p : p \in Uses(f) <=>
        \E k, n : IsSpot(k, n) /\ p = << f, k, n, at(f, k, n) >> /\ at(f, k, n) \in block_freemap
  <2> TAKE f \in Files
  <2>1. \A p : p \in Pointers(f) <=> \E k, n : IsSpot(k, n) /\ p = << f, k, n, at(f, k, n) >>
        BY PointerFacts
  <2> HIDE DEF at
  <2>2. \A k, n : << f, k, n, at(f, k, n) >>[4] = at(f, k, n)
        OBVIOUS
  <2>3. \A p : p \in Uses(f) <=> p \in Pointers(f) /\ p[4] \in block_freemap
        BY DEF Uses
  <2>. QED  BY <2>1, <2>2, <2>3
<1>4. \A p : p \in uses <=> \E f \in Files : p \in Uses(f)
      OBVIOUS
<1>5. \A f, g \in Files : \A p \in Uses(f), q \in Uses(g) : p[4] = q[4] => p = q
  <2> SUFFICES ASSUME NEW f \in Files, NEW g \in Files, NEW p \in Uses(f), NEW q \in Uses(g),
                      p[4] = q[4]
               PROVE  p = q
      OBVIOUS
  <2>1. PICK k, n : IsSpot(k, n) /\ p = << f, k, n, at(f, k, n) >> /\ at(f, k, n) \in block_freemap
        BY <1>3
  <2>2. PICK j, m : IsSpot(j, m) /\ q = << g, j, m, at(g, j, m) >> /\ at(g, j, m) \in block_freemap
        BY <1>3
  <2>3. p[4] = at(f, k, n) /\ q[4] = at(g, j, m)
        BY <2>1, <2>2
  <2>4. f = g /\ k = j /\ n = m
        BY <1>2, <2>1, <2>2, <2>3 DEF Unique
  <2>. QED  BY <2>1, <2>2, <2>4
<1>6. \A f \in Files : \A p \in Uses(f) : p[4] \in BlocksOf(block_freemap, dinode[f], disk)
                                          /\ p[4] \in block_freemap
  <2> TAKE f \in Files
  <2> TAKE p \in Uses(f)
  <2>1. PICK k, n : IsSpot(k, n) /\ p = << f, k, n, at(f, k, n) >> /\ at(f, k, n) \in block_freemap
        BY <1>3
  <2>2. p[4] = at(f, k, n)
        BY <2>1
  <2>. QED  BY <2>1, <2>2 DEF BlocksOf
<1>7. \A f \in Files : \A b \in block_freemap : \A k, n :
        IsSpot(k, n) /\ at(f, k, n) = b => \E p \in Uses(f) : p[4] = b
  <2> SUFFICES ASSUME NEW f \in Files, NEW b \in block_freemap, NEW k, NEW n,
                      IsSpot(k, n), at(f, k, n) = b
               PROVE  \E p \in Uses(f) : p[4] = b
      OBVIOUS
  <2>1. << f, k, n, at(f, k, n) >> \in Uses(f) /\ << f, k, n, at(f, k, n) >>[4] = b
        BY <1>3
  <2>. QED  BY <2>1
<1>8. IsFiniteSet(block_freemap) /\
      \A f \in Files : IsFiniteSet(BlocksOf(block_freemap, dinode[f], disk))
      BY <1>2, FreemapFinite
<1>9. \A f \in Files : dinode[f].block_count = Cardinality(Uses(f))
  <2> TAKE f \in Files
  <2> DEFINE S == BlocksOf(block_freemap, dinode[f], disk)
             T == Uses(f)
  <2>1. IsFiniteSet(S) /\ \A p \in T : p[4] \in S
        BY <1>6, <1>8
  <2>2. \A b \in S : \E p \in T : p[4] = b
        BY <1>7 DEF BlocksOf
  <2>3. \A p, q \in T : p[4] = q[4] => p = q
        BY <1>5
  <2> HIDE DEF S, T
  <2>4. Cardinality(T) = Cardinality(S)
        BY <2>1, <2>2, <2>3, UsesCounted
  <2>. QED  BY <1>1, <2>4 DEF Counted, S, T
<1>10. \A b \in block_freemap : \E p \in uses : p[4] = b
  <2> TAKE b \in block_freemap
  <2>1. PICK f \in Files : \E k, n : IsSpot(k, n) /\ at(f, k, n) = b
        BY <1>2 DEF Covered
  <2>. QED  BY <1>4, <1>7, <2>1
<1>11. \A p \in uses : p[4] \in block_freemap
       BY <1>4, <1>6
<1>12. \A p, q \in uses : p[4] = q[4] => p = q
       BY <1>4, <1>5
<1>13. \A f \in Files : \A p \in Pointers(f) \ Uses(f) : p[4] # 0 => p[2] = "indirect" /\ f \in failed
  <2> SUFFICES ASSUME NEW f \in Files, NEW p \in Pointers(f) \ Uses(f), p[4] # 0
               PROVE  p[2] = "indirect" /\ f \in failed
      OBVIOUS
  <2>1. PICK k, n : IsSpot(k, n) /\ p = << f, k, n, at(f, k, n) >>
        BY PointerFacts
  <2>2. p[4] = at(f, k, n) /\ p[2] = k
        BY <2>1
  <2>3. at(f, k, n) \notin block_freemap
        BY <1>3, <2>1
  <2>. QED  BY <1>2, <2>1, <2>2, <2>3 DEF Sound
<1> HIDE DEF uses
<1>14. Cardinality(uses) = Cardinality(block_freemap)
       BY <1>8, <1>10, <1>11, <1>12, UsesCounted
<1>15. {p[4] : p \in uses} = block_freemap
       BY <1>10, <1>11
<1>16. used_block_count = Cardinality(block_freemap)
       BY <1>1 DEF Counted
<1>. QED  BY <1>9, <1>13, <1>14, <1>15, <1>16 DEF uses

(* Every block in use belongs to one file, and has one place in it; nothing *)
(* but a pointer left by a failed allocation names a free block; and the    *)
(* counts of the file system and of each file are what they count.          *)
THEOREM BlocksAreAccounted == Spec => []BlocksAccounted
<1>1. BlocksInv => BlocksAccounted
      BY AccountedFacts
<1>. QED  BY <1>1, BlocksInvariant, PTL

(* Every word of a file reads as what was written there, or zero.           *)
LEMMA WordsRead ==
  ASSUME BlocksInv, system = "up", NEW f \in Files, NEW n \in Nat, NEW u \in Words, NEW a,
         a = n * NR_INDIRECT_BLOCKS + u, a < dinode[f].i_size
  PROVE  Entry(PhysicalBlock(dinode[f], n), u) = IF a \in written[f] THEN f ELSE 0
<1> DEFINE b == NR_INDIRECT_BLOCKS
<1>1. Contents(dinode, disk, written) /\ dinode[f].i_size <= NR_MAX_BLOCK * b
      BY DEF BlocksInv, UpInv, Bounded
<1>2. /\ b \in Nat \ {0} /\ NR_MAX_BLOCK \in Nat /\ u \in 0 .. b - 1
      /\ dinode[f].i_size \in Nat
      BY LogicalFacts, FileBlocksAssumption DEF Words, BlocksInv, TypeOK, Inodes
<1>3. n * b \in Nat /\ NR_MAX_BLOCK * b \in Nat
      BY <1>2
<1>4. n < NR_MAX_BLOCK
  <2>1. SUFFICES ASSUME NR_MAX_BLOCK <= n PROVE FALSE
        BY <1>2
  <2>2. NR_MAX_BLOCK * b <= n * b
        BY <1>2, <2>1, ProductGrows
  <2>. QED  BY <1>1, <1>2, <1>3, <2>2
<1>5. n \in Logical
      BY <1>2, <1>4 DEF Logical
<1>6. Entry(PhysicalBlock(dinode[f], n), u) = Word(disk, Block(dinode[f], disk, "data", n), u)
      BY <1>5, PhysicalFacts
<1>. QED  BY <1>1, <1>5, <1>6 DEF Contents

(* What cmd_read finds, from the contents of the blocks.                    *)
LEMMA ReadFacts ==
  ASSUME BlocksInv
  PROVE  ReadsBack
<1> SUFFICES ASSUME system = "up", NEW f \in Files, NEW start \in Starts, NEW size,
                    size = dinode[f].i_size - start, size > 0
             PROVE  testfs_read_data(dinode[f], start, size) =
                      [j \in 0 .. size - 1 |-> IF start + j \in written[f] THEN f ELSE 0]
    BY DEF ReadsBack
<1> DEFINE b == NR_INDIRECT_BLOCKS
           n == start \div b
           ix == start % b
           first == b - ix
           q(j) == (j - first) \div b
           r(j) == (j - first) % b
<1>1. b \in Nat \ {0} /\ start \in Nat /\ dinode[f].i_size \in Nat /\ Words = 0 .. b - 1
      BY FileBlocksAssumption DEF BlocksInv, TypeOK, Inodes, Words
<1>2. testfs_read_data(dinode[f], start, size) =
        [j \in 0 .. size - 1 |-> IF j < first THEN Entry(PhysicalBlock(dinode[f], n), ix + j)
                                 ELSE Entry(PhysicalBlock(dinode[f], n + 1 + q(j)), r(j))]
      BY DEF testfs_read_data
<1> HIDE DEF b
<1>3. n \in Nat /\ ix \in 0 .. b - 1 /\ start = n * b + ix /\ n * b \in Nat
  <2>1. n \in Nat /\ ix \in 0 .. b - 1 /\ start = n * b + ix
        BY <1>1, DivMod
  <2> HIDE DEF n, ix
  <2>. QED  BY <1>1, <2>1
<1> HIDE DEF n, ix
<1>4. ASSUME NEW j \in 0 .. size - 1, j < first
      PROVE  Entry(PhysicalBlock(dinode[f], n), ix + j) = IF start + j \in written[f] THEN f ELSE 0
  <2>1. j \in Nat /\ start + j < dinode[f].i_size
        BY <1>1
  <2>2. ix + j \in Words /\ start + j = n * b + (ix + j)
        BY <1>1, <1>3, <1>4, <2>1
  <2>. QED  BY <1>3, <2>1, <2>2, WordsRead DEF b
<1>5. ASSUME NEW j \in 0 .. size - 1, ~(j < first)
      PROVE  Entry(PhysicalBlock(dinode[f], n + 1 + q(j)), r(j)) =
               IF start + j \in written[f] THEN f ELSE 0
  <2>1. j \in Nat /\ start + j < dinode[f].i_size
        BY <1>1
  <2>2. j - first \in Nat
        BY <1>1, <1>3, <1>5, <2>1
  <2>3. q(j) \in Nat /\ r(j) \in 0 .. b - 1 /\ j - first = q(j) * b + r(j)
        BY <1>1, <2>2, DivMod
  <2> DEFINE m == n + 1 + q(j)
             u == r(j)
             k == q(j)
  <2>4. k \in Nat /\ u \in 0 .. b - 1 /\ j - first = k * b + u /\ m = n + 1 + k
        BY <2>3
  <2> HIDE DEF m, u, k
  <2>5. m \in Nat /\ m * b = n * b + b + k * b /\ k * b \in Nat
        BY <1>1, <1>3, <2>4
  <2>6. start + j = m * b + u
        BY <1>1, <1>3, <2>1, <2>4, <2>5
  <2>7. Entry(PhysicalBlock(dinode[f], m), u) = IF start + j \in written[f] THEN f ELSE 0
        BY <1>1, <2>1, <2>4, <2>5, <2>6, WordsRead DEF b
  <2>. QED  BY <2>7 DEF m, u
<1> HIDE DEF q, r, first
<1>6. \A j \in 0 .. size - 1 :
        (IF j < first THEN Entry(PhysicalBlock(dinode[f], n), ix + j)
                      ELSE Entry(PhysicalBlock(dinode[f], n + 1 + q(j)), r(j))) =
          IF start + j \in written[f] THEN f ELSE 0
      BY <1>4, <1>5
<1>. QED  BY <1>2, <1>6

(* What is read is what was written to this file since it was created, and  *)
(* zero everywhere else, whatever its blocks held before.                   *)
THEOREM FilesReadBack == Spec => []ReadsBack
<1>1. BlocksInv => ReadsBack
      BY ReadFacts
<1>. QED  BY <1>1, BlocksInvariant, PTL

(* A block that starts before the end of the file is before EndBlock.       *)
LEMMA EndBlockFacts ==
  ASSUME NEW in \in Inodes, NEW n \in Nat, n * NR_INDIRECT_BLOCKS < in.i_size
  PROVE  EndBlock(in) \in Nat /\ n < EndBlock(in)
<1> DEFINE b == NR_INDIRECT_BLOCKS
           s == in.i_size
           q == (s + b - 1) \div b
           r == (s + b - 1) % b
<1>1. b \in Nat \ {0} /\ s \in Nat /\ EndBlock(in) = q
      BY FileBlocksAssumption DEF Inodes, EndBlock
<1> HIDE DEF b, s
<1>2. s + b - 1 \in Nat
      BY <1>1
<1>3. q \in Nat /\ r \in 0 .. b - 1 /\ s + b - 1 = q * b + r
      BY <1>1, <1>2, DivMod
<1>4. n * b < s
      BY DEF b, s
<1> HIDE DEF q, r
<1>5. SUFFICES ASSUME q <= n PROVE FALSE
      BY <1>1, <1>3
<1>6. q * b <= n * b /\ q * b \in Nat /\ n * b \in Nat
      BY <1>1, <1>3, <1>5, ProductGrows
<1>. QED  BY <1>1, <1>3, <1>4, <1>6

(* rm finds every block of a file that no write has failed on.              *)
LEMMA FreedAll ==
  ASSUME BlocksInv, system = "up", io = NoWrite, NEW f \in Files, f \notin failed,
         NEW k, NEW n, IsSpot(k, n), Block(dinode[f], disk, k, n) # 0
  PROVE  Block(dinode[f], disk, k, n) \in FreedBlocks(dinode[f])
<1> DEFINE in == dinode[f]
           top == NR_DIRECT_BLOCKS + NR_INDIRECT_BLOCKS
<1>1. /\ in \in Inodes /\ Logical \subseteq Nat /\ top \in Nat
      /\ \A m \in Logical : Block(in, disk, "data", m) # 0 => Begun(dinode, io, f, m)
      /\ in.i_dindirect # 0 => Begun(dinode, io, f, top)
      BY LogicalFacts, FileBlocksAssumption DEF BlocksInv, TypeOK, UpInv, Extents
<1>2. \A m \in Nat : Begun(dinode, io, f, m) => EndBlock(in) \in Nat /\ m < EndBlock(in)
  <2> SUFFICES ASSUME NEW m \in Nat, Begun(dinode, io, f, m)
               PROVE  EndBlock(in) \in Nat /\ m < EndBlock(in)
      OBVIOUS
  <2>1. m * NR_INDIRECT_BLOCKS < in.i_size
        BY FileBlocksAssumption DEF Begun, NoWrite
  <2>. QED  BY <1>1, <2>1, EndBlockFacts
<1>3. \A b, i : Entry(b, i) = Word(disk, b, i)
      BY PhysicalFacts
<1>4. in.i_dindirect # 0 => ~(EndBlock(in) < top)
      BY <1>1, <1>2
<1>5. CASE k = "data"
  <2>1. n \in Logical /\ n \in Nat /\ Block(in, disk, "data", n) # 0
    <3>1. n \in Logical
          BY <1>5 DEF IsSpot
    <3>. QED  BY <1>1, <1>5, <3>1
  <2>2. n < EndBlock(in) /\ EndBlock(in) \in Nat
        BY <1>1, <1>2, <2>1
  <2>3. CASE IsDirect(n)
    <3>1. Block(in, disk, "data", n) = in.i_block_nr[n]
          BY <2>1, <2>3, DirectBlock
    <3>2. in.i_block_nr[n] \in FreedDirect(in)
          BY <2>1, <2>2, <2>3, <3>1 DEF FreedDirect
    <3>. QED  BY <1>5, <3>1, <3>2 DEF FreedBlocks
  <2>4. CASE IsIndirect(n)
    <3>1. Block(in, disk, "data", n) = Entry(in.i_indirect, Offset(n))
          BY <1>3, <2>1, <2>4, IndirectBlock
    <3>2. Entry(in.i_indirect, Offset(n)) \in FreedIndirect(in)
          BY <2>1, <2>2, <2>4, <3>1 DEF FreedIndirect
    <3>. QED  BY <1>5, <3>1, <3>2 DEF FreedBlocks
  <2>5. CASE IsDouble(n)
    <3>1. Block(in, disk, "data", n) = Entry(Entry(in.i_dindirect, Page(n)), PageOffset(n))
          BY <1>3, <2>1, <2>5, DoubleBlock, PageBlock
    <3>2. ~(EndBlock(in) < top)
          BY <1>1, <2>1, <2>2, <2>5 DEF IsDouble
    <3>3. Entry(Entry(in.i_dindirect, Page(n)), PageOffset(n)) \in FreedDouble(in)
          BY <2>1, <2>5, <3>1, <3>2 DEF FreedDouble
    <3>. QED  BY <1>5, <3>1, <3>3 DEF FreedBlocks
  <2>. QED  BY <2>1, <2>3, <2>4, <2>5, LogicalFacts
<1>6. CASE k = "indirect"
  <2>1. Block(in, disk, k, n) = in.i_indirect
        BY <1>6, SpotFacts, BlockCases
  <2>. QED  BY <2>1 DEF FreedBlocks, FreedIndirect
<1>7. CASE k = "double"
  <2>1. Block(in, disk, k, n) = in.i_dindirect
        BY <1>7, SpotFacts, BlockCases
  <2>. QED  BY <1>4, <2>1 DEF FreedBlocks, FreedDouble
<1>8. CASE k = "page"
  <2>1. n \in Words /\ Block(in, disk, k, n) = Entry(in.i_dindirect, n)
        BY <1>3, <1>8, SpotFacts, PageBlock
  <2>2. in.i_dindirect # 0
        BY <1>3, <2>1 DEF Word
  <2>3. Entry(in.i_dindirect, n) \in FreedDouble(in)
        BY <1>4, <2>1, <2>2 DEF FreedDouble
  <2>. QED  BY <2>1, <2>3 DEF FreedBlocks
<1>. QED  BY <1>5, <1>6, <1>7, <1>8, SpotFacts

(* So none of the assertions of rm stops testfs.                            *)
LEMMA RemovesFacts ==
  ASSUME BlocksInv, NEW f \in Files \ failed, cmd_rm_stops(f)
  PROVE  FALSE
<1> DEFINE in == dinode[f]
           R == FreedBlocks(in)
           S == BlocksOf(block_freemap, in, disk)
<1>1. system = "up" /\ io = NoWrite /\ system' # "up"
      BY DEF cmd_rm_stops
<1>2. /\ Sound(block_freemap, dinode, disk, failed) /\ in.i_dindirect <= dev_end
      /\ in.block_count = Cardinality(S) /\ in \in Inodes /\ dev_end \in Nat
      /\ \A b \in block_freemap : b # 0
      BY <1>1, FileBlocksAssumption
         DEF BlocksInv, UpInv, Extents, Placed, Counted, TypeOK
<1>3. \A b \in R : b # 0 /\ \E k, n : IsSpot(k, n) /\ Block(in, disk, k, n) = b
      BY FreedSpots
<1>4. \A k, n : IsSpot(k, n) /\ Block(in, disk, k, n) # 0 => Block(in, disk, k, n) \in R
      BY <1>1, FreedAll
<1>5. R \subseteq block_freemap
      BY <1>2, <1>3 DEF Sound
<1>6. R = S
      BY <1>2, <1>3, <1>4, <1>5 DEF BlocksOf
<1>7. ~UnmarksFree(in) /\ ~LeavesBlocks(in)
      BY <1>2, <1>5, <1>6 DEF UnmarksFree, LeavesBlocks
<1>8. ~EndsDevice(in)
      BY <1>2 DEF EndsDevice, Inodes
<1>9. system' = "up"
      BY <1>7, <1>8 DEF cmd_rm_stops
<1>. QED  BY <1>1, <1>9

(* A file that no write failed on is removed with all its blocks: no        *)
(* assertion of bitmap_unmark or testfs_remove_inode fails.                 *)
THEOREM FilesRemovedWhole == Spec => RemovesWhole
<1>1. BlocksInv => \A f \in Files \ failed : ~cmd_rm_stops(f)
      BY RemovesFacts
<1>2. BlocksInv /\ [Next]_vars => [\A f \in Files \ failed : ~cmd_rm_stops(f)]_vars
      BY <1>1
<1>. QED  BY <1>2, BlocksInvariant, PTL DEF Spec, RemovesWhole

=============================================================================
