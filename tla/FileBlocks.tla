----------------------------- MODULE FileBlocks -----------------------------
(***************************************************************************)
(* The blocks of the files of src/fs: the block freemap (super.c), and how *)
(* write and rm find, allocate and free the blocks of an inode             *)
(* (read_write.c, inode.c).                                                *)
(*                                                                         *)
(* A block holds NR_INDIRECT_BLOCKS words; a word is a block number in an  *)
(* index block and a piece of data in a data block.  Data are the name of  *)
(* the file that wrote them, so that data of another file show.  Blocks    *)
(* are counted from 1 at data_blocks_start, and 0 is no block.             *)
(*                                                                         *)
(* testfs serves one command at a time.  Each round of the loop of         *)
(* testfs_write_data, which fills one block, is a step.                    *)
(***************************************************************************)
EXTENDS Integers, FiniteSets, FiniteSetsExt

CONSTANTS
  Files,
  NR_DIRECT_BLOCKS,
  NR_INDIRECT_BLOCKS,
  max_fs_blocks,       \* how many blocks may be in use
  freemap_bits,        \* how many the freemap has room for
  Starts, Sizes,       \* where a program writes, and how much, in words
  NoFile               \* no write is going on

ASSUME FileBlocksAssumption ==
  /\ IsFiniteSet(Files) /\ NoFile \notin Files /\ Files \cap Nat = {}
  /\ NR_DIRECT_BLOCKS \in Nat /\ NR_INDIRECT_BLOCKS \in Nat \ {0}
  /\ max_fs_blocks \in Nat /\ freemap_bits \in Nat /\ max_fs_blocks <= freemap_bits
  /\ Starts \subseteq Nat /\ Sizes \subseteq Nat \ {0}

VARIABLES
  block_freemap,     \* the blocks in use
  used_block_count,
  dinode,            \* the inode of each file
  disk,              \* what each block holds
  dev_end,           \* the last block the device file reaches
  io,                \* locals of the testfs_write_data in progress
  system,            \* up, or why testfs has stopped
  written,           \* history: the words that were written to a file
  failed             \* history: files that a write found no space for

vars == << block_freemap, used_block_count, dinode, disk, dev_end, io, system,
           written, failed >>

Blocks == 1 .. freemap_bits
Words == 0 .. NR_INDIRECT_BLOCKS - 1
Zero == [u \in Words |-> 0]

NR_MAX_BLOCK ==
  NR_DIRECT_BLOCKS + NR_INDIRECT_BLOCKS + NR_INDIRECT_BLOCKS * NR_INDIRECT_BLOCKS
Logical == 0 .. NR_MAX_BLOCK - 1

EmptyInode == [i_block_nr  |-> [i \in 0 .. NR_DIRECT_BLOCKS - 1 |-> 0],
               i_indirect  |-> 0,
               i_dindirect |-> 0,
               block_count |-> 0,
               i_size      |-> 0]

NoWrite == [file |-> NoFile, block_nr |-> 0, block_ix |-> 0, size |-> 0, end |-> 0]

Init ==
  /\ block_freemap = {}
  /\ used_block_count = 0
  /\ dinode = [f \in Files |-> EmptyInode]
  /\ disk = [b \in Blocks |-> Zero]
  /\ dev_end = 0
  /\ io = NoWrite
  /\ system = "up"
  /\ written = [f \in Files |-> {}]
  /\ failed = {}

-----------------------------------------------------------------------------
(* Finding a block *)

IsDirect(n) == n < NR_DIRECT_BLOCKS
IsIndirect(n) == n \in NR_DIRECT_BLOCKS .. NR_DIRECT_BLOCKS + NR_INDIRECT_BLOCKS - 1
IsDouble(n) == n >= NR_DIRECT_BLOCKS + NR_INDIRECT_BLOCKS

(* The indexes of logical block n in the index blocks that lead to it.      *)
Offset(n) == n - NR_DIRECT_BLOCKS
Page_offByOne(n) ==                    \* mutant: the indirect blocks are not skipped
  (n - NR_DIRECT_BLOCKS) % NR_INDIRECT_BLOCKS

Page(n) == (n - NR_DIRECT_BLOCKS - NR_INDIRECT_BLOCKS) \div NR_INDIRECT_BLOCKS
PageOffset(n) == (n - NR_DIRECT_BLOCKS - NR_INDIRECT_BLOCKS) % NR_INDIRECT_BLOCKS

Entry(b, i) == IF b = 0 THEN 0 ELSE disk[b][i]

(* testfs_read_block: the block of logical block n, or 0.                   *)
PhysicalBlock(in, n) ==
  CASE IsDirect(n)   -> in.i_block_nr[n]
    [] IsIndirect(n) -> Entry(in.i_indirect, Offset(n))
    [] IsDouble(n)   -> Entry(Entry(in.i_dindirect, Page(n)), PageOffset(n))

(* read_blocks stops the process at a block behind the end of the device.   *)
Unreadable(in, n) == IsDouble(n) /\ in.i_dindirect > dev_end

(* testfs_read_data takes what is left of the first block, then whole       *)
(* blocks.  cmd_read asks for no more than the file has.                    *)
testfs_read_data(in, start, size) ==
  LET n == start \div NR_INDIRECT_BLOCKS
      ix == start % NR_INDIRECT_BLOCKS
      first == NR_INDIRECT_BLOCKS - ix
  IN  [j \in 0 .. size - 1 |->
         IF j < first THEN Entry(PhysicalBlock(in, n), ix + j)
         ELSE Entry(PhysicalBlock(in, n + 1 + (j - first) \div NR_INDIRECT_BLOCKS),
                    (j - first) % NR_INDIRECT_BLOCKS)]

-----------------------------------------------------------------------------
(* Allocating blocks *)

Left_offByOne ==                       \* mutant: > instead of >=
  max_fs_blocks - used_block_count + 1

Left == max_fs_blocks - used_block_count

(* The k-th block that bitmap_alloc will find.                              *)
FreeBlock(k) ==
  CHOOSE b \in Blocks \ block_freemap :
    Cardinality({c \in Blocks \ block_freemap : c < b}) = k - 1

FreeBlocks(k) == {FreeBlock(i) : i \in 1 .. k}

(* A pointer that testfs_allocate_block leaves behind.  The model stops     *)
(* when its block is allocated again: one block is then an index block of   *)
(* one file and something else too.                                         *)
Dangling == {dinode[f].i_indirect : f \in Files} \ (block_freemap \cup {0})

StopIfDangling(new) ==
  system' = IF new \cap Dangling = {} THEN system ELSE "corrupt"

Allocate(new) ==
  /\ block_freemap' = block_freemap \cup new
  /\ used_block_count' = used_block_count + Cardinality(new)
  /\ StopIfDangling(new)

Reach(new) == dev_end' = Max({dev_end} \cup new)

-----------------------------------------------------------------------------
(* cmd_write *)

(* A write behind the largest possible file does nothing, and does not even *)
(* fail: the error is returned without its sign.                            *)
cmd_write(f, start, size) ==
  /\ system = "up" /\ io = NoWrite
  /\ start \div NR_INDIRECT_BLOCKS < NR_MAX_BLOCK
  /\ io' = [file     |-> f,
            block_nr |-> start \div NR_INDIRECT_BLOCKS,
            block_ix |-> start % NR_INDIRECT_BLOCKS,
            size     |-> size,
            end      |-> start + size]
  /\ UNCHANGED << block_freemap, used_block_count, dinode, disk, dev_end, system,
                  written, failed >>

Writing == system = "up" /\ io # NoWrite
Inode == dinode[io.file]

WriteEnds == io' = NoWrite

(* How many words go into the current block.                                *)
Chunk == IF io.block_ix + io.size > NR_INDIRECT_BLOCKS
         THEN NR_INDIRECT_BLOCKS - io.block_ix
         ELSE io.size

Filled(content) ==
  [u \in Words |-> IF u \in io.block_ix .. io.block_ix + Chunk - 1 THEN io.file ELSE content[u]]

(* The end of a round: the block is written, and the next one is begun, or  *)
(* the write ends and the size grows.                                       *)
NextRound(in) ==
  LET last == io.block_ix + io.size <= NR_INDIRECT_BLOCKS IN
  /\ io' = IF last THEN NoWrite
           ELSE [io EXCEPT !.block_nr = @ + 1, !.block_ix = 0, !.size = @ - Chunk]
  /\ dinode' = [dinode EXCEPT ![io.file] =
                  IF last THEN [in EXCEPT !.i_size = Max({@, io.end})] ELSE in]
  /\ written' = [written EXCEPT ![io.file] = @ \cup
                   {io.block_nr * NR_INDIRECT_BLOCKS + u :
                      u \in io.block_ix .. io.block_ix + Chunk - 1}]
  /\ UNCHANGED failed

write_too_big ==
  /\ Writing
  /\ io.block_nr >= NR_MAX_BLOCK
  /\ dinode' = [dinode EXCEPT ![io.file].i_size = NR_INDIRECT_BLOCKS * io.block_nr]
  /\ WriteEnds
  /\ UNCHANGED << block_freemap, used_block_count, disk, dev_end, system, written, failed >>

write_unreadable ==
  /\ Writing
  /\ io.block_nr \in Logical /\ Unreadable(Inode, io.block_nr)
  /\ system' = "exited"
  /\ UNCHANGED << block_freemap, used_block_count, dinode, disk, dev_end, io, written, failed >>

(* The block exists. *)
write_again ==
  /\ Writing
  /\ io.block_nr \in Logical /\ ~Unreadable(Inode, io.block_nr)
  /\ LET b == PhysicalBlock(Inode, io.block_nr) IN
       /\ b # 0
       /\ disk' = [disk EXCEPT ![b] = Filled(@)]
  /\ NextRound(Inode)
  /\ UNCHANGED << block_freemap, used_block_count, dev_end, system >>

-----------------------------------------------------------------------------
(* testfs_allocate_block, for a block that does not exist                   *)

Allocating == /\ Writing
              /\ io.block_nr \in Logical /\ ~Unreadable(Inode, io.block_nr)
              /\ PhysicalBlock(Inode, io.block_nr) = 0

(* The index blocks it has to allocate before the block itself.             *)
MissingIndexBlocks ==
  CASE IsDirect(io.block_nr)   -> 0
    [] IsIndirect(io.block_nr) -> IF Inode.i_indirect = 0 THEN 1 ELSE 0
    [] IsDouble(io.block_nr)   -> IF Inode.i_dindirect = 0 THEN 2
                                  ELSE IF Entry(Inode.i_dindirect, Page(io.block_nr)) = 0 THEN 1
                                  ELSE 0

New == FreeBlocks(MissingIndexBlocks + 1)
Data == FreeBlock(MissingIndexBlocks + 1)

Grown == [Inode EXCEPT !.block_count = @ + MissingIndexBlocks + 1]

(* An index block that is new starts from zero. *)
Index(b) == IF b \in New THEN Zero ELSE disk[b]

GetsBlocks ==
  /\ Left >= MissingIndexBlocks + 1
  /\ Allocate(New)
  /\ Reach(New)

allocate_direct ==
  /\ Allocating /\ IsDirect(io.block_nr)
  /\ GetsBlocks
  /\ disk' = [disk EXCEPT ![Data] = Filled(Zero)]
  /\ NextRound([Grown EXCEPT !.i_block_nr[io.block_nr] = Data])

allocate_indirect ==
  /\ Allocating /\ IsIndirect(io.block_nr)
  /\ GetsBlocks
  /\ LET t == IF Inode.i_indirect = 0 THEN FreeBlock(1) ELSE Inode.i_indirect IN
       /\ disk' = [disk EXCEPT ![t] = [Index(t) EXCEPT ![Offset(io.block_nr)] = Data],
                               ![Data] = Filled(Zero)]
       /\ NextRound([Grown EXCEPT !.i_indirect = t])

allocate_double ==
  /\ Allocating /\ IsDouble(io.block_nr)
  /\ GetsBlocks
  /\ LET p == Page(io.block_nr)
         top == IF Inode.i_dindirect = 0 THEN FreeBlock(1) ELSE Inode.i_dindirect
         page == IF MissingIndexBlocks = 0 THEN Entry(top, p)
                 ELSE FreeBlock(MissingIndexBlocks)
     IN  /\ disk' = [disk EXCEPT ![top] = [Index(top) EXCEPT ![p] = page],
                                 ![page] = [Index(page) EXCEPT ![PageOffset(io.block_nr)] = Data],
                                 ![Data] = Filled(Zero)]
         /\ NextRound([Grown EXCEPT !.i_dindirect = top])

(* No space for all that is missing.  What could be allocated is freed, and *)
(* zeroed, but for two cases:                                               *)
(*   - the pointer to a new indirect block stays, though the block is freed; *)
(*   - a new double indirect block stays, unwritten, when there is none for *)
(*     the index block below it.                                            *)
(* Blocks that earlier rounds allocated behind the end of the file stay.    *)
NoSpace ==
  /\ Allocating
  /\ Left < MissingIndexBlocks + 1
  /\ failed' = failed \cup {io.file}
  /\ WriteEnds
  /\ UNCHANGED written

Freed(taken) ==
  /\ disk' = [b \in Blocks |-> IF b \in taken THEN Zero ELSE disk[b]]
  /\ Reach(taken)
  /\ StopIfDangling(taken)
  /\ UNCHANGED << block_freemap, used_block_count >>

KeepsDouble == IsDouble(io.block_nr) /\ Inode.i_dindirect = 0 /\ Left = 1

allocate_fails_counted ==              \* mutant: block_count is not reduced again
  /\ NoSpace /\ ~KeepsDouble
  /\ Freed(FreeBlocks(Left))
  /\ dinode' = [dinode EXCEPT ![io.file].block_count = @ + Left]

allocate_fails ==
  /\ NoSpace /\ ~KeepsDouble
  /\ Freed(FreeBlocks(Left))
  /\ dinode' = IF IsIndirect(io.block_nr) /\ Left = 1
               THEN [dinode EXCEPT ![io.file].i_indirect = FreeBlock(1)]
               ELSE dinode

allocate_fails_below ==
  /\ NoSpace /\ KeepsDouble
  /\ Allocate(FreeBlocks(1))
  /\ dinode' = [dinode EXCEPT ![io.file].i_dindirect = FreeBlock(1),
                              ![io.file].block_count = @ + 1]
  /\ UNCHANGED << disk, dev_end >>

write_round ==
  \/ write_too_big \/ write_unreadable \/ write_again
  \/ allocate_direct \/ allocate_indirect \/ allocate_double
  \/ allocate_fails \/ allocate_fails_below

-----------------------------------------------------------------------------
(* cmd_rm, which is testfs_free_blocks and zeroes the inode.  The file is   *)
(* created again, empty, when it is next written.                           *)

EndBlock(in) == (in.i_size + NR_INDIRECT_BLOCKS - 1) \div NR_INDIRECT_BLOCKS

(* The blocks it frees: up to the size of the file, and the index blocks.   *)
FreedDirect(in) ==
  {in.i_block_nr[i] : i \in {n \in Logical : IsDirect(n) /\ n < EndBlock(in)}} \ {0}

FreedIndirect(in) ==
  ({in.i_indirect} \cup
   {Entry(in.i_indirect, Offset(n)) : n \in {m \in Logical : IsIndirect(m) /\ m < EndBlock(in)}})
  \ {0}

FreedDouble_data(in) ==                \* mutant: the pages stay
  IF EndBlock(in) < NR_DIRECT_BLOCKS + NR_INDIRECT_BLOCKS THEN {}
  ELSE ({in.i_dindirect} \cup
        {Entry(Entry(in.i_dindirect, Page(n)), PageOffset(n)) : n \in {m \in Logical : IsDouble(m)}})
       \ {0}

FreedDouble(in) ==
  IF EndBlock(in) < NR_DIRECT_BLOCKS + NR_INDIRECT_BLOCKS THEN {}
  ELSE ({in.i_dindirect} \cup
        {Entry(in.i_dindirect, i) : i \in Words} \cup
        {Entry(Entry(in.i_dindirect, Page(n)), PageOffset(n)) : n \in {m \in Logical : IsDouble(m)}})
       \ {0}

FreedBlocks(in) == FreedDirect(in) \cup FreedIndirect(in) \cup FreedDouble(in)

(* bitmap_unmark asserts that the block was in use; testfs_remove_inode     *)
(* asserts that no block is left.                                           *)
UnmarksFree(in) == ~(FreedBlocks(in) \subseteq block_freemap)
LeavesBlocks(in) == in.block_count # Cardinality(FreedBlocks(in))
EndsDevice(in) == FreedDouble(in) # {} /\ in.i_dindirect > dev_end

cmd_rm_stops(f) ==
  /\ system = "up" /\ io = NoWrite
  /\ system' = CASE UnmarksFree(dinode[f])  -> "unmark_failed"
                 [] ~UnmarksFree(dinode[f]) /\ EndsDevice(dinode[f]) -> "exited"
                 [] ~UnmarksFree(dinode[f]) /\ ~EndsDevice(dinode[f])
                      /\ LeavesBlocks(dinode[f]) -> "blocks_left"
                 [] OTHER -> "up"
  /\ system' # "up"
  /\ UNCHANGED << block_freemap, used_block_count, dinode, disk, dev_end, io, written, failed >>

cmd_rm(f) ==
  LET in == dinode[f] IN
  /\ system = "up" /\ io = NoWrite
  /\ ~UnmarksFree(in) /\ ~EndsDevice(in) /\ ~LeavesBlocks(in)
  /\ block_freemap' = block_freemap \ FreedBlocks(in)
  /\ used_block_count' = used_block_count - Cardinality(FreedBlocks(in))
  /\ disk' = [b \in Blocks |-> IF b \in FreedBlocks(in) THEN Zero ELSE disk[b]]
  /\ dinode' = [dinode EXCEPT ![f] = EmptyInode]
  /\ written' = [written EXCEPT ![f] = {}]
  /\ failed' = failed \ {f}
  /\ UNCHANGED << dev_end, io, system >>

-----------------------------------------------------------------------------
Next ==
  \/ \E f \in Files, start \in Starts, size \in Sizes : cmd_write(f, start, size)
  \/ write_round
  \/ \E f \in Files : cmd_rm(f) \/ cmd_rm_stops(f)

Spec == Init /\ [][Next]_vars

-----------------------------------------------------------------------------
(* Properties *)

Inodes == [i_block_nr : [0 .. NR_DIRECT_BLOCKS - 1 -> Nat], i_indirect : Nat,
           i_dindirect : Nat, block_count : Nat, i_size : Nat]

(* The freemap never runs past the limit of the file system. *)
TypeOK ==
  /\ block_freemap \subseteq 1 .. max_fs_blocks
  /\ used_block_count \in 0 .. max_fs_blocks
  /\ dinode \in [Files -> Inodes]
  /\ disk \in [Blocks -> [Words -> Nat \cup Files]]
  /\ dev_end \in 0 .. max_fs_blocks
  /\ io.file \in Files \cup {NoFile} /\ io.size \in Nat /\ io.block_ix \in Words
  /\ system \in {"up", "exited", "corrupt", "unmark_failed", "blocks_left"}
  /\ failed \subseteq Files

(* Where a block number can stand in a file.                                *)
Pointers(f) ==
  LET in == dinode[f] IN
  {<< f, "data", n, PhysicalBlock(in, n) >> : n \in Logical} \cup
  {<< f, "indirect", 0, in.i_indirect >>, << f, "double", 0, in.i_dindirect >>} \cup
  {<< f, "page", i, Entry(in.i_dindirect, i) >> : i \in Words}

Uses(f) == {p \in Pointers(f) : p[4] \in block_freemap}

(* Every block in use belongs to one file, and has one place in it; nothing *)
(* but a pointer left by a failed allocation names a block that is free;    *)
(* and the counts of the file system and of each file are what they count.  *)
BlocksAccounted ==
  system = "up" =>
    LET uses == UNION {Uses(f) : f \in Files} IN
    /\ {p[4] : p \in uses} = block_freemap
    /\ Cardinality(uses) = Cardinality(block_freemap)
    /\ used_block_count = Cardinality(block_freemap)
    /\ \A f \in Files :
         /\ \A p \in Pointers(f) \ Uses(f) : p[4] # 0 => p[2] = "indirect" /\ f \in failed
         /\ dinode[f].block_count = Cardinality(Uses(f))

(* What cmd_read finds is what was written to this file since it was        *)
(* created, and zero everywhere else: in holes and in the rest of new       *)
(* blocks, whatever these blocks held before.                               *)
ReadsBack ==
  system = "up" =>
    \A f \in Files, start \in Starts :
      LET size == dinode[f].i_size - start IN
      size > 0 /\ (\A n \in Logical : ~Unreadable(dinode[f], n)) =>
        testfs_read_data(dinode[f], start, size) =
          [j \in 0 .. size - 1 |-> IF start + j \in written[f] THEN f ELSE 0]

(* A file that no write failed on is removed with all its blocks.           *)
RemovesWhole ==
  [][\A f \in Files \ failed : ~cmd_rm_stops(f)]_vars

-----------------------------------------------------------------------------
(* What the assertions of the code say and a write that fails breaks        *)

(* "assert((b->v[ix] & mask) != 0)" in bitmap_unmark: a block that is freed *)
(* was in use.                                                              *)
FreedBlocksWereUsed == system # "unmark_failed"

=============================================================================
