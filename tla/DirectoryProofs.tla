--------------------------- MODULE DirectoryProofs ---------------------------
(***************************************************************************)
(* What Directory guarantees for every set of names, every number of       *)
(* inodes and every sequence of commands and sessions: the directories     *)
(* are a tree, references are counted, and memory agrees with the disk.    *)
(***************************************************************************)
EXTENDS Directory, SequenceFacts

Dirents == [name : AnyName, nr : Nrs \cup {INVALID_INODE_NR}]

(* Between commands the inodes in memory are copies of those on disk.       *)
CopiesInv ==
  \A nr \in Nrs : IF inode[nr].i_count = 0 THEN inode[nr] = NotInMemory
                  ELSE inode[nr].in = itable[nr]

(* The inodes in use have a type, and only directories have entries, as     *)
(* many as their size says.                                                 *)
DiskInv(free, table, ents) ==
  \A nr \in Nrs :
    /\ table[nr].i_size = Len(ents[nr])
    /\ table[nr].i_type # "dir" => ents[nr] = << >>
    /\ nr \in free <=> table[nr].i_type # "none"

(* The entries of a directory that were not removed, by position.           *)
Alive(s) == {i \in 1 .. Len(s) : s[i].nr # INVALID_INODE_NR}

(* Entry i of directory d names inode nr, other than by . and ..            *)
NamesAt(ents, d, i, nr) ==
  d \in Nrs /\ i \in Alive(ents[d]) /\ ents[d][i].name \in Names /\ ents[d][i].nr = nr

(* The entries of each directory: no name twice, and . and .. are there.    *)
EntriesOf(d, type, s) ==
  /\ \A i, j \in Alive(s) : s[i].name = s[j].name => i = j
  /\ \A i \in Alive(s) : s[i].name = "." => s[i].nr = d
  /\ type = "dir" => \A dots \in {".", ".."} : \E i \in Alive(s) : s[i].name = dots

EntriesInv(table, ents) == \A d \in Nrs : EntriesOf(d, table[d].i_type, ents[d])

(* The tree: what is named is in use, is not the root, and is named in one  *)
(* place, to which .. leads back; and all in use but the root is named.     *)
TreeInv(free, table, ents) ==
  /\ table[0].i_type = "dir"
  /\ \A i \in Alive(ents[0]) : ents[0][i].name = ".." => ents[0][i].nr = 0
  /\ \A nr, d, i : NamesAt(ents, d, i, nr) =>
       /\ nr \in free \ {0}
       /\ \A e, j : NamesAt(ents, e, j, nr) => e = d /\ j = i
       /\ \A j \in Alive(ents[nr]) : ents[nr][j].name = ".." => ents[nr][j].nr = d
  /\ \A nr \in free \ {0} : \E d, i : NamesAt(ents, d, i, nr)

(* The disk, whatever is in memory.                                         *)
OnDisk(free, table, ents) ==
  DiskInv(free, table, ents) /\ EntriesInv(table, ents) /\ TreeInv(free, table, ents)

(* A session: the current directory is one, and references are counted.     *)
SessionInv ==
  /\ system = "up" => itable[cur_dir].i_type = "dir"
  /\ system = "closed" => \A nr \in Nrs : inode[nr] = NotInMemory /\ leaked[nr] = 0
  /\ ReferencesCounted

DirInv ==
  /\ TypeOK /\ dirents \in [Nrs -> Seq(Dirents)]
  /\ CopiesInv /\ SessionInv
  /\ OnDisk(inode_freemap, itable, dirents)

-----------------------------------------------------------------------------
(* What the commands read                                                   *)

(* The constants. *)
LEMMA NrFacts ==
  /\ Nrs \subseteq Nat /\ 0 \in Nrs /\ INVALID_INODE_NR \notin Nrs
  /\ 0 .. NR_INODES - 1 \subseteq Nrs /\ IsFiniteSet(Nrs)
  /\ MaxLeaks \in Nat /\ "." \notin Names /\ ".." \notin Names
BY DirectoryAssumption, FS_Interval DEF Nrs, INVALID_INODE_NR

(* The least of some numbers.                                               *)
LEMMA MinFacts ==
  ASSUME NEW S \in SUBSET Nat, S # {}
  PROVE  Min(S) \in S /\ \A y \in S : Min(S) <= y
BY LeastNumber DEF Min

(* What a command sees is what the disk has.                                *)
LEMMA SeenFacts ==
  ASSUME DirInv, NEW d \in Nrs
  PROVE  /\ Content(d) = itable[d] /\ Entries(d) = dirents[d]
         /\ IsDir(d) <=> itable[d].i_type = "dir"
         /\ dirents[d] \in Seq(Dirents) /\ Len(dirents[d]) \in Nat
         /\ DOMAIN dirents[d] = 1 .. Len(dirents[d])
         /\ Live(d) = Alive(dirents[d]) /\ Alive(dirents[d]) \subseteq Nat
         /\ \A i \in Alive(dirents[d]) : dirents[d][i].nr \in Nrs /\ dirents[d][i].name \in AnyName
<1>1. Content(d) = itable[d]
      BY DEF DirInv, CopiesInv, Content, TypeOK
<1>2. dirents[d] \in Seq(Dirents) /\ itable[d].i_size = Len(dirents[d])
      BY DEF DirInv, OnDisk, DiskInv
<1>3. Len(dirents[d]) \in Nat /\ DOMAIN dirents[d] = 1 .. Len(dirents[d])
      BY <1>2, LenProperties
<1>4. Entries(d) = dirents[d]
  <2>1. PICK s \in Seq(Dirents) : s = dirents[d]
        BY <1>2
  <2>2. SubSeq(s, 1, Len(s)) = s
        BY SubSeqFull
  <2>. QED  BY <1>1, <1>2, <2>1, <2>2 DEF Entries
<1>5. \A i \in 1 .. Len(dirents[d]) : dirents[d][i] \in Dirents
      BY <1>2, ElementOfSeq
<1>. QED  BY <1>1, <1>2, <1>3, <1>4, <1>5 DEF IsDir, Live, Alive, Dirents

(* What a name leads to.                                                    *)
LEMMA LookupFacts ==
  ASSUME DirInv, NEW d \in Nrs, NEW name, Named(d, name) # {}
  PROVE  /\ Min(Named(d, name)) \in Alive(dirents[d])
         /\ dirents[d][Min(Named(d, name))].name = name
         /\ Lookup(d, name) = dirents[d][Min(Named(d, name))].nr
         /\ Lookup(d, name) \in Nrs
<1>1. Entries(d) = dirents[d] /\ Live(d) = Alive(dirents[d]) /\ Alive(dirents[d]) \subseteq Nat
      /\ \A i \in Alive(dirents[d]) : dirents[d][i].nr \in Nrs
      BY SeenFacts
<1>2. Named(d, name) \subseteq Alive(dirents[d])
      /\ \A i \in Named(d, name) : dirents[d][i].name = name
      BY <1>1 DEF Named
<1>3. Min(Named(d, name)) \in Named(d, name)
      BY <1>1, <1>2, MinFacts
<1>. QED  BY <1>1, <1>2, <1>3 DEF Lookup

-----------------------------------------------------------------------------
(* Inodes in memory                                                         *)

Memory == [Nrs -> [in : Inodes, i_count : Nat, dirty : BOOLEAN]]

(* A reference more.                                                        *)
LEMMA GetFacts ==
  ASSUME itable \in [Nrs -> Inodes], NEW mem \in Memory, NEW nr \in Nrs
  PROVE  LET m == testfs_get_inode(mem, nr)
         IN  /\ m \in Memory
             /\ m[nr].i_count = mem[nr].i_count + 1
             /\ m[nr].in = IF mem[nr].i_count = 0 THEN itable[nr] ELSE mem[nr].in
             /\ \A k \in Nrs \ {nr} : m[k] = mem[k]
<1> DEFINE m == testfs_get_inode(mem, nr)
<1>1. mem[nr] \in [in : Inodes, i_count : Nat, dirty : BOOLEAN]
      BY DEF Memory
<1>2. CASE mem[nr].i_count > 0
  <2>1. m = [mem EXCEPT ![nr].i_count = @ + 1]
        BY <1>2 DEF testfs_get_inode, Memory
  <2>. QED  BY <1>1, <1>2, <2>1 DEF Memory
<1>3. CASE mem[nr].i_count = 0
  <2>1. m = [mem EXCEPT ![nr] = [in |-> itable[nr], i_count |-> 1, dirty |-> FALSE]]
        BY <1>3 DEF testfs_get_inode, Memory
  <2>. QED  BY <1>1, <1>3, <2>1 DEF Memory
<1>. QED  BY <1>1, <1>2, <1>3

(* A reference less.                                                        *)
LEMMA PutFacts ==
  ASSUME NEW mem \in Memory, NEW nr \in Nrs, mem[nr].i_count > 0
  PROVE  LET m == testfs_put_inode(mem, nr)
         IN  /\ m \in Memory
             /\ m[nr].i_count = mem[nr].i_count - 1
             /\ m[nr].i_count = 0 => m[nr] = NotInMemory
             /\ m[nr].i_count > 0 => m[nr].in = mem[nr].in
             /\ \A k \in Nrs \ {nr} : m[k] = mem[k]
<1> DEFINE m == testfs_put_inode(mem, nr)
<1>1. NotInMemory \in [in : Inodes, i_count : Nat, dirty : BOOLEAN] /\ NotInMemory.i_count = 0
      BY DEF NotInMemory, NoInode, Inodes
<1>2. mem[nr] \in [in : Inodes, i_count : Nat, dirty : BOOLEAN]
      BY DEF Memory
<1>3. CASE mem[nr].i_count = 1
  <2>1. m = [mem EXCEPT ![nr] = NotInMemory]
        BY <1>3 DEF testfs_put_inode, Memory
  <2>. QED  BY <1>1, <1>3, <2>1 DEF Memory
<1>4. CASE mem[nr].i_count # 1
  <2>1. m = [mem EXCEPT ![nr].i_count = @ - 1]
        BY <1>4 DEF testfs_put_inode, Memory
  <2>. QED  BY <1>2, <1>4, <2>1 DEF Memory
<1>. QED  BY <1>3, <1>4

-----------------------------------------------------------------------------
(* Commands that do not change the disk                                     *)

(* The tree is only on the disk.                                            *)
LEMMA TreeStays ==
  ASSUME DirInv, UNCHANGED << inode_freemap, itable, dirents >>
  PROVE  OnDisk(inode_freemap, itable, dirents)'
BY DEF DirInv

(* The stop of the process at an assertion.                                 *)
LEMMA StopsStep == ASSUME DirInv, NEW nrs, Stops(nrs) PROVE DirInv'
<1>1. /\ UNCHANGED << inode_freemap, itable, dirents, inode, cur_dir, leaked >>
      /\ system' = "dirty_put"
      BY DEF Stops
<1>2. OnDisk(inode_freemap, itable, dirents)'
      BY <1>1, TreeStays
<1>3. TypeOK' /\ (dirents \in [Nrs -> Seq(Dirents)])'
      BY <1>1 DEF DirInv, TypeOK
<1>4. CopiesInv' /\ SessionInv'
      BY <1>1 DEF DirInv, CopiesInv, SessionInv, ReferencesCounted
<1>. QED  BY <1>2, <1>3, <1>4 DEF DirInv

(* testfs_ls of a file keeps its reference.                                 *)
LEMMA LsFileStep == ASSUME DirInv, NEW name \in Names, cmd_ls_file(name) PROVE DirInv'
<1> DEFINE nr == Lookup(cur_dir, name)
<1>1. /\ system = "up" /\ Named(cur_dir, name) # {} /\ ~IsDir(nr) /\ leaked[nr] < MaxLeaks
      /\ inode' = testfs_get_inode(inode, nr)
      /\ leaked' = [leaked EXCEPT ![nr] = @ + 1]
      /\ UNCHANGED << inode_freemap, itable, dirents, cur_dir, system >>
      BY DEF cmd_ls_file
<1>2. /\ cur_dir \in Nrs /\ inode \in Memory /\ itable \in [Nrs -> Inodes]
      /\ leaked \in [Nrs -> 0 .. MaxLeaks]
      BY DEF DirInv, TypeOK, Memory
<1>3. nr \in Nrs
      BY <1>1, <1>2, LookupFacts
<1> HIDE DEF nr
<1>4. /\ inode' \in Memory /\ inode'[nr].i_count = inode[nr].i_count + 1
      /\ inode'[nr].in = IF inode[nr].i_count = 0 THEN itable[nr] ELSE inode[nr].in
      /\ \A k \in Nrs \ {nr} : inode'[k] = inode[k]
      BY <1>1, <1>2, <1>3, GetFacts
<1>5. /\ leaked' \in [Nrs -> 0 .. MaxLeaks] /\ leaked'[nr] = leaked[nr] + 1
      /\ \A k \in Nrs \ {nr} : leaked'[k] = leaked[k]
      BY <1>1, <1>2, <1>3, NrFacts
<1>6. TypeOK' /\ (dirents \in [Nrs -> Seq(Dirents)])'
      BY <1>1, <1>4, <1>5 DEF DirInv, TypeOK, Memory
<1>7. CopiesInv'
  <2>1. \A k \in Nrs : IF inode[k].i_count = 0 THEN inode[k] = NotInMemory
                       ELSE inode[k].in = itable[k]
        BY DEF DirInv, CopiesInv
  <2>2. inode'[nr].in = itable[nr] /\ inode'[nr].i_count # 0
    <3>1. inode[nr].i_count \in Nat
          BY <1>2, <1>3 DEF Memory
    <3>. QED  BY <1>3, <1>4, <2>1, <3>1
  <2>. QED  BY <1>1, <1>3, <1>4, <2>1, <2>2 DEF CopiesInv
<1>8. SessionInv'
  <2>1. system' = "up" /\ itable'[cur_dir'].i_type = "dir"
        BY <1>1 DEF DirInv, SessionInv
  <2>2. ReferencesCounted'
    <3>1. \A k \in Nrs : inode[k].i_count = leaked[k] + (IF k = cur_dir THEN 1 ELSE 0)
          BY <1>1 DEF DirInv, SessionInv, ReferencesCounted
    <3>2. nr # cur_dir => inode'[nr].i_count = leaked'[nr]
          BY <1>2, <1>3, <1>4, <1>5, <3>1
    <3>3. nr = cur_dir => inode'[nr].i_count = leaked'[nr] + 1
          BY <1>2, <1>3, <1>4, <1>5, <3>1, NrFacts DEF Memory
    <3>4. \A k \in Nrs \ {nr} :
            inode'[k].i_count = leaked'[k] + (IF k = cur_dir' THEN 1 ELSE 0)
          BY <1>1, <1>4, <1>5, <3>1
    <3>. QED  BY <1>1, <1>2, <1>3, <1>5, <3>2, <3>3, <3>4, NrFacts DEF ReferencesCounted
  <2>. QED  BY <2>1, <2>2 DEF SessionInv
<1>. QED  BY <1>1, <1>6, <1>7, <1>8, TreeStays DEF DirInv

(* cd takes the new directory before it gives the old one back.             *)
LEMMA CdStep == ASSUME DirInv, NEW name \in AnyName, cmd_cd(name) PROVE DirInv'
<1>1. CASE PutsDirty({cur_dir})
      BY <1>1, StopsStep DEF cmd_cd
<1>2. CASE ~PutsDirty({cur_dir})
  <2> DEFINE nr == Lookup(cur_dir, name)
             mem == testfs_get_inode(inode, nr)
  <2>1. /\ system = "up" /\ Named(cur_dir, name) # {} /\ IsDir(nr)
        /\ inode' = testfs_put_inode(mem, cur_dir)
        /\ cur_dir' = nr
        /\ UNCHANGED << inode_freemap, itable, dirents, system, leaked >>
        BY <1>2 DEF cmd_cd
  <2>2. /\ cur_dir \in Nrs /\ inode \in Memory /\ itable \in [Nrs -> Inodes]
        /\ leaked \in [Nrs -> 0 .. MaxLeaks]
        BY DEF DirInv, TypeOK, Memory
  <2>3. nr \in Nrs
        BY <2>1, <2>2, LookupFacts
  <2>4. itable[nr].i_type = "dir"
        BY <2>1, <2>3, SeenFacts
  <2> HIDE DEF nr
  <2>5. /\ mem \in Memory /\ mem[nr].i_count = inode[nr].i_count + 1
        /\ mem[nr].in = IF inode[nr].i_count = 0 THEN itable[nr] ELSE inode[nr].in
        /\ \A k \in Nrs \ {nr} : mem[k] = inode[k]
        BY <2>1, <2>2, <2>3, GetFacts
  <2> HIDE DEF mem
  <2>6. \A k \in Nrs : /\ inode[k].i_count = leaked[k] + (IF k = cur_dir THEN 1 ELSE 0)
                       /\ leaked[k] \in Nat /\ inode[k].i_count \in Nat
        BY <2>1, <2>2, NrFacts DEF DirInv, SessionInv, ReferencesCounted, Memory
  <2>7. mem[cur_dir].i_count > 0
        BY <2>2, <2>3, <2>5, <2>6
  <2>8. /\ inode' \in Memory /\ inode'[cur_dir].i_count = mem[cur_dir].i_count - 1
        /\ inode'[cur_dir].i_count = 0 => inode'[cur_dir] = NotInMemory
        /\ inode'[cur_dir].i_count > 0 => inode'[cur_dir].in = mem[cur_dir].in
        /\ \A k \in Nrs \ {cur_dir} : inode'[k] = mem[k]
        BY <2>1, <2>2, <2>5, <2>7, PutFacts
  <2>9. TypeOK' /\ (dirents \in [Nrs -> Seq(Dirents)])'
        BY <2>1, <2>3, <2>8 DEF DirInv, TypeOK, Memory
  <2>10. \A k \in Nrs : mem[k].i_count > 0 => mem[k].in = itable[k]
    <3>1. \A k \in Nrs : inode[k].i_count = 0 \/ inode[k].in = itable[k]
          BY DEF DirInv, CopiesInv
    <3>2. mem[nr].in = itable[nr]
          BY <2>3, <2>5, <3>1
    <3>3. \A k \in Nrs \ {nr} : mem[k].i_count # 0 => mem[k].in = itable[k]
          BY <2>5, <3>1
    <3>. QED  BY <3>2, <3>3
  <2>11. CopiesInv'
    <3>1. mem[nr].i_count # 0
          BY <2>3, <2>5, <2>6
    <3>2. \A k \in Nrs \ {nr} : mem[k].i_count = 0 => mem[k] = NotInMemory
          BY <2>5 DEF DirInv, CopiesInv
    <3>3. \A k \in Nrs \ {cur_dir} : mem[k].i_count = 0 => mem[k] = NotInMemory
          BY <3>1, <3>2
    <3>4. \A k \in Nrs : mem[k].i_count \in Nat /\ inode'[k].i_count \in Nat
          BY <2>5, <2>8 DEF Memory
    <3>. QED  BY <2>1, <2>2, <2>7, <2>8, <2>10, <3>3, <3>4 DEF CopiesInv
  <2>12. ReferencesCounted'
    <3>1. \A k \in Nrs : inode'[k].i_count = leaked[k] + (IF k = nr THEN 1 ELSE 0)
          BY <2>2, <2>3, <2>5, <2>6, <2>8
    <3>. QED  BY <2>1, <3>1 DEF ReferencesCounted
  <2>13. SessionInv'
        BY <2>1, <2>4, <2>12 DEF SessionInv
  <2>. QED  BY <2>1, <2>9, <2>11, <2>13, TreeStays DEF DirInv
<1>. QED  BY <1>1, <1>2

(* The end of a session, in which nothing may be left in memory.            *)
LEMMA QuitStep == ASSUME DirInv, cmd_quit PROVE DirInv'
<1>1. CASE PutsDirty({cur_dir})
      BY <1>1, StopsStep DEF cmd_quit
<1>2. CASE ~PutsDirty({cur_dir})
  <2>1. /\ system = "up" /\ inode' = testfs_put_inode(inode, cur_dir)
        /\ system' = IF \A nr \in Nrs : inode'[nr] = NotInMemory THEN "closed" ELSE "inodes_left"
        /\ UNCHANGED << inode_freemap, itable, dirents, cur_dir, leaked >>
        BY <1>2 DEF cmd_quit, testfs_close_super_block
  <2>2. /\ cur_dir \in Nrs /\ inode \in Memory
        /\ leaked \in [Nrs -> 0 .. MaxLeaks]
        BY DEF DirInv, TypeOK, Memory
  <2>3. \A k \in Nrs : /\ inode[k].i_count = leaked[k] + (IF k = cur_dir THEN 1 ELSE 0)
                       /\ leaked[k] \in Nat /\ inode[k].i_count \in Nat
        BY <2>1, <2>2, NrFacts DEF DirInv, SessionInv, ReferencesCounted, Memory
  <2>4. /\ inode' \in Memory /\ inode'[cur_dir].i_count = inode[cur_dir].i_count - 1
        /\ inode'[cur_dir].i_count = 0 => inode'[cur_dir] = NotInMemory
        /\ inode'[cur_dir].i_count > 0 => inode'[cur_dir].in = inode[cur_dir].in
        /\ \A k \in Nrs \ {cur_dir} : inode'[k] = inode[k]
        BY <2>1, <2>2, <2>3, PutFacts
  <2>5. TypeOK' /\ (dirents \in [Nrs -> Seq(Dirents)])'
        BY <2>1, <2>4 DEF DirInv, TypeOK, Memory
  <2>6. CopiesInv'
        BY <2>1, <2>2, <2>3, <2>4 DEF DirInv, CopiesInv, Memory
  <2>7. \A k \in Nrs : inode'[k].i_count = leaked[k]
        BY <2>2, <2>3, <2>4
  <2>8. SessionInv'
    <3>1. system' # "up" /\ NotInMemory.i_count = 0
          BY <2>1 DEF NotInMemory
    <3>2. system' = "closed" => \A k \in Nrs : inode'[k] = NotInMemory
          BY <2>1
    <3>3. system' = "closed" => \A k \in Nrs : leaked[k] = 0
          BY <2>7, <3>1, <3>2
    <3>. QED  BY <2>1, <3>1, <3>2, <3>3 DEF SessionInv, ReferencesCounted
  <2>. QED  BY <2>1, <2>5, <2>6, <2>8, TreeStays DEF DirInv
<1>. QED  BY <1>1, <1>2

(* The next session starts in the root directory.                           *)
LEMMA OpenStep == ASSUME DirInv, testfs_init_super_block PROVE DirInv'
<1>1. /\ system = "closed" /\ system' = "up" /\ inode' = testfs_get_inode(inode, 0)
      /\ cur_dir' = 0 /\ UNCHANGED << inode_freemap, itable, dirents, leaked >>
      BY DEF testfs_init_super_block
<1>2. inode \in Memory /\ itable \in [Nrs -> Inodes] /\ leaked \in [Nrs -> 0 .. MaxLeaks]
      BY DEF DirInv, TypeOK, Memory
<1>3. \A k \in Nrs : inode[k] = NotInMemory /\ leaked[k] = 0 /\ inode[k].i_count = 0
  <2>1. \A k \in Nrs : inode[k] = NotInMemory /\ leaked[k] = 0
        BY <1>1 DEF DirInv, SessionInv
  <2>2. NotInMemory.i_count = 0
        BY DEF NotInMemory
  <2>. QED  BY <2>1, <2>2
<1>4. /\ inode' \in Memory /\ inode'[0].i_count = 1 /\ inode'[0].in = itable[0]
      /\ \A k \in Nrs \ {0} : inode'[k] = inode[k]
      BY <1>1, <1>2, <1>3, GetFacts, NrFacts
<1>5. TypeOK' /\ (dirents \in [Nrs -> Seq(Dirents)])'
      BY <1>1, <1>4, NrFacts DEF DirInv, TypeOK, Memory
<1>6. CopiesInv'
      BY <1>1, <1>3, <1>4 DEF CopiesInv
<1>7. SessionInv'
      BY <1>1, <1>3, <1>4 DEF DirInv, OnDisk, TreeInv, SessionInv, ReferencesCounted
<1>. QED  BY <1>1, <1>5, <1>6, <1>7, TreeStays DEF DirInv

(* A directory that finds no space is left dirty.                           *)
LEMMA CreateFailsStep == ASSUME DirInv, NEW name \in Names, create_fails(name) PROVE DirInv'
<1>1. /\ system = "up" /\ inode' = [inode EXCEPT ![cur_dir].dirty = TRUE]
      /\ UNCHANGED << inode_freemap, itable, dirents, cur_dir, system, leaked >>
      BY DEF create_fails
<1>2. cur_dir \in Nrs /\ inode \in Memory /\ leaked \in [Nrs -> 0 .. MaxLeaks]
      BY DEF DirInv, TypeOK, Memory
<1>3. /\ inode' \in Memory
      /\ \A k \in Nrs : inode'[k].i_count = inode[k].i_count /\ inode'[k].in = inode[k].in
      /\ \A k \in Nrs \ {cur_dir} : inode'[k] = inode[k]
      BY <1>1, <1>2 DEF Memory
<1>4. inode[cur_dir].i_count # 0
      BY <1>1, <1>2, NrFacts DEF DirInv, SessionInv, ReferencesCounted
<1>5. TypeOK' /\ (dirents \in [Nrs -> Seq(Dirents)])'
      BY <1>1, <1>3 DEF DirInv, TypeOK, Memory
<1>6. CopiesInv'
      BY <1>1, <1>2, <1>3, <1>4 DEF DirInv, CopiesInv
<1>7. SessionInv'
      BY <1>1, <1>3 DEF DirInv, SessionInv, ReferencesCounted
<1>. QED  BY <1>1, <1>5, <1>6, <1>7, TreeStays DEF DirInv

-----------------------------------------------------------------------------
(* create and mkdir                                                         *)

(* The entries of a directory have their types.                             *)
LEMMA DirentsTyped ==
  ASSUME NEW f \in [Nrs -> Seq(Dirents)]
  PROVE  \A d \in Nrs : \A i \in DOMAIN f[d] :
           f[d][i] \in [name : AnyName, nr : Nrs \cup {INVALID_INODE_NR}]
<1> SUFFICES ASSUME NEW d \in Nrs, NEW i \in DOMAIN f[d]
             PROVE  f[d][i] \in Dirents
    BY DEF Dirents
<1>1. f[d] \in Seq(Dirents)
      OBVIOUS
<1>2. DOMAIN f[d] = 1 .. Len(f[d])
      BY <1>1, LenProperties
<1>. QED  BY <1>1, <1>2, ElementOfSeq

(* A new inode was in no use.                                               *)
LEMMA NewInodeFacts ==
  ASSUME DirInv, NEW nr \in NewInode
  PROVE  /\ nr \in Nrs /\ nr \in 0 .. NR_INODES - 1 /\ nr \notin inode_freemap
         /\ nr # 0 /\ itable[nr].i_type = "none" /\ dirents[nr] = << >>
         /\ system = "up" => nr # cur_dir
<1>1. Free # {} /\ Min(Free) < NR_INODES /\ nr = Min(Free)
  <2>1. NR_INODES \in Nat /\ Free \in SUBSET Nat
        BY NrFacts, DirectoryAssumption DEF Free
  <2>2. Free # {} /\ nr = Min(Free) /\ ~(Min(Free) >= NR_INODES)
        BY DEF NewInode
  <2>3. Min(Free) \in Nat
        BY <2>1, <2>2, MinFacts
  <2>. QED  BY <2>1, <2>2, <2>3
<1>2. nr \in Nrs /\ nr \notin inode_freemap
      BY <1>1, NrFacts, MinFacts DEF Free
<1>3. itable[nr].i_type = "none" /\ dirents[nr] = << >>
      BY <1>2 DEF DirInv, OnDisk, DiskInv
<1>4. itable[0].i_type = "dir" /\ (system = "up" => itable[cur_dir].i_type = "dir")
      BY DEF DirInv, OnDisk, TreeInv, SessionInv
<1>. QED  BY <1>1, <1>2, <1>3, <1>4, NrFacts, DirectoryAssumption

(* The place of a new entry is that of a removed one, or the end.           *)
LEMMA PlaceFacts ==
  ASSUME DirInv, NEW d \in Nrs, NEW name,
         NEW p, p = Place(d, name), NEW n, n = Len(dirents[d]), NEW z, z = Added(n, d, name)
  PROVE  /\ p \in Nat \ {0} /\ p \notin Alive(dirents[d]) /\ n \in Nat /\ z \in Nat
         /\ 1 .. z = (1 .. n) \cup {p}
<1>1. /\ Entries(d) = dirents[d] /\ n \in Nat /\ DOMAIN dirents[d] = 1 .. n
      /\ Live(d) = Alive(dirents[d])
      BY SeenFacts
<1>2. Alive(dirents[d]) \subseteq 1 .. n
      BY DEF Alive
<1>3. CASE Reusable(d, name) # {}
  <2>1. Reusable(d, name) \subseteq 1 .. n /\ Reusable(d, name) \cap Alive(dirents[d]) = {}
        BY <1>1 DEF Reusable
  <2>2. p \in Reusable(d, name)
        BY <1>1, <1>3, <2>1, MinFacts DEF Place
  <2>3. p \in 1 .. n /\ z = n
        BY <1>1, <2>1, <2>2 DEF Added
  <2>. QED  BY <1>1, <2>1, <2>2, <2>3
<1>4. CASE Reusable(d, name) = {}
  <2>1. p = n + 1 /\ z = p
        BY <1>1, <1>4 DEF Place, Added
  <2>. QED  BY <1>1, <1>2, <2>1
<1>. QED  BY <1>3, <1>4

(* The outcome of create: nr is the new inode, in its content, p the place  *)
(* of the entry, and dir the content of the current directory.              *)
Created(name, type, nr, p, in, dir) ==
  /\ p \notin Alive(dirents[cur_dir]) /\ 1 .. dir.i_size = (1 .. Len(dirents[cur_dir])) \cup {p}
  /\ in.i_type = type /\ in.i_size = IF type = "dir" THEN 2 ELSE 0
  /\ dir.i_type = "dir"
  /\ system = "up" /\ inode_freemap' = inode_freemap \cup {nr}
  /\ dirents' = [dirents EXCEPT
                   ![nr] = IF type = "dir" THEN << Entry(".", nr), Entry("..", cur_dir) >>
                           ELSE << >>,
                   ![cur_dir] = [i \in 1 .. dir.i_size |->
                                   IF i = p THEN Entry(name, nr)
                                   ELSE dirents[cur_dir][i]]]
  /\ itable' = [itable EXCEPT ![nr] = in, ![cur_dir] = dir]
  /\ inode' = Clean(testfs_put_inode([testfs_get_inode(inode, nr) EXCEPT
                                        ![nr].in = in, ![cur_dir].in = dir], nr),
                    cur_dir)
  /\ \A i \in Alive(dirents[cur_dir]) : dirents[cur_dir][i].name # name
  /\ UNCHANGED << cur_dir, system, leaked >>

(* What create writes to the disk.                                          *)
LEMMA CreateWrites ==
  ASSUME DirInv, NEW name \in Names, NEW type \in {"file", "dir"}, create(name, type)
  PROVE  \E nr \in NewInode, p \in Nat \ {0}, in \in Inodes, dir \in Inodes :
           Created(name, type, nr, p, in, dir)
<1> DEFINE p == Place(cur_dir, name)
           n == Len(dirents[cur_dir])
           z == Added(n, cur_dir, name)
           new(nr) == IF type = "dir" THEN << Entry(".", nr), Entry("..", cur_dir) >> ELSE << >>
           in == [i_type |-> type, i_size |-> IF type = "dir" THEN 2 ELSE 0]
           dir == [itable[cur_dir] EXCEPT !.i_size = z]
<1>1. cur_dir \in Nrs /\ system = "up" /\ Creatable(cur_dir, name)
      BY DEF DirInv, TypeOK, create
<1>2. /\ Content(cur_dir) = itable[cur_dir] /\ Entries(cur_dir) = dirents[cur_dir]
      /\ Live(cur_dir) = Alive(dirents[cur_dir])
      BY <1>1, SeenFacts
<1>3. itable[cur_dir] \in Inodes /\ itable[cur_dir].i_type = "dir" /\ itable[cur_dir].i_size = n
      BY <1>1 DEF DirInv, OnDisk, TypeOK, SessionInv, DiskInv
<1>4. [Content(cur_dir) EXCEPT !.i_size = Added(@, cur_dir, name)] = dir
      BY <1>2, <1>3
<1>5. \A nr : [i_type |-> type, i_size |-> Len(new(nr))] = in
  <2>1. \A nr : Len(<< Entry(".", nr), Entry("..", cur_dir) >>) = 2 /\ Len(<< >>) = 0
        OBVIOUS
  <2>. QED  BY <2>1
<1>6. \A i \in Alive(dirents[cur_dir]) : dirents[cur_dir][i].name # name
      BY <1>1, <1>2 DEF Creatable, Named
<1>7. /\ p \in Nat \ {0} /\ p \notin Alive(dirents[cur_dir])
      /\ z \in Nat /\ 1 .. z = (1 .. n) \cup {p}
  <2>1. p = Place(cur_dir, name) /\ n = Len(dirents[cur_dir]) /\ z = Added(n, cur_dir, name)
        OBVIOUS
  <2> HIDE DEF p, n, z
  <2>. QED  BY <1>1, <2>1, PlaceFacts
<1>8. in \in Inodes /\ dir \in Inodes /\ dir.i_type = "dir" /\ dir.i_size = z
      /\ in.i_type = type /\ in.i_size = IF type = "dir" THEN 2 ELSE 0
      BY <1>3, <1>7 DEF Inodes
<1>9. PICK nr \in NewInode :
        /\ inode_freemap' = inode_freemap \cup {nr}
        /\ dirents' = [dirents EXCEPT
                         ![nr] = new(nr),
                         ![cur_dir] = [i \in 1 .. dir.i_size |->
                                         IF i = p THEN Entry(name, nr)
                                         ELSE dirents[cur_dir][i]]]
        /\ itable' = [itable EXCEPT ![nr] = in, ![cur_dir] = dir]
        /\ inode' = Clean(testfs_put_inode([testfs_get_inode(inode, nr) EXCEPT
                                              ![nr].in = in, ![cur_dir].in = dir], nr), cur_dir)
  <2>1. PICK nr \in NewInode :
          LET newdir == [Content(cur_dir) EXCEPT !.i_size = Added(@, cur_dir, name)]
              newin == [i_type |-> type, i_size |-> Len(new(nr))]
          IN  /\ inode_freemap' = inode_freemap \cup {nr}
              /\ dirents' = [dirents EXCEPT
                               ![nr] = new(nr),
                               ![cur_dir] = [i \in 1 .. newdir.i_size |->
                                               IF i = Place(cur_dir, name) THEN Entry(name, nr)
                                               ELSE Entries(cur_dir)[i]]]
              /\ itable' = [itable EXCEPT ![nr] = newin, ![cur_dir] = newdir]
              /\ inode' = Clean(testfs_put_inode([testfs_get_inode(inode, nr) EXCEPT
                                                    ![nr].in = newin, ![cur_dir].in = newdir],
                                                 nr), cur_dir)
        BY DEF create
  <2>2. [i_type |-> type, i_size |-> Len(new(nr))] = in
        BY <1>5
  <2> HIDE DEF dir, in, p, new
  <2>. QED  BY <1>2, <1>4, <2>1, <2>2 DEF p
<1>10. UNCHANGED << cur_dir, system, leaked >>
       BY DEF create
<1> HIDE DEF dir, in, p, new
<1>11. Created(name, type, nr, p, in, dir)
       BY <1>1, <1>6, <1>7, <1>8, <1>9, <1>10 DEF Created, new
<1>. QED  BY <1>7, <1>8, <1>11

(* Tables and entries before and after: nr is new, and its entry is at      *)
(* place p of directory c, where no other was.                              *)
Grown(free, t, f, free2, t2, f2, name, type, c, nr, p) ==
  /\ free \subseteq Nrs /\ free2 = free \cup {nr} /\ OnDisk(free, t, f)
  /\ name \in Names /\ type \in {"file", "dir"}
  /\ c \in Nrs /\ t[c].i_type = "dir"
  /\ nr \in Nrs \ {0, c} /\ nr \notin free /\ f[nr] = << >>
  /\ \A k \in Nrs \ {nr, c} : t2[k] = t[k] /\ f2[k] = f[k]
  /\ t2[nr].i_type = type /\ t2[nr].i_size = Len(f2[nr])
  /\ t2[c].i_type = "dir" /\ t2[c].i_size = Len(f2[c])
  /\ p \notin Alive(f[c]) /\ Alive(f2[c]) = Alive(f[c]) \cup {p}
  /\ f2[c][p] = Entry(name, nr)
  /\ \A i \in Alive(f[c]) : f2[c][i] = f[c][i] /\ f[c][i].name # name
  /\ type = "dir" => /\ Alive(f2[nr]) = {1, 2}
                     /\ f2[nr][1] = Entry(".", nr) /\ f2[nr][2] = Entry("..", c)
  /\ type # "dir" => Alive(f2[nr]) = {} /\ f2[nr] = << >>

(* The entries after create.                                                *)
LEMMA CreateEntries ==
  ASSUME DirInv, NEW name \in Names, NEW type \in {"file", "dir"},
         NEW nr \in NewInode, NEW p \in Nat \ {0}, NEW in \in Inodes, NEW dir \in Inodes,
         Created(name, type, nr, p, in, dir)
  PROVE  /\ itable' \in [Nrs -> Inodes] /\ dirents' \in [Nrs -> Seq(Dirents)]
         /\ itable'[nr] = in /\ itable'[cur_dir] = dir
         /\ \A k \in Nrs \ {nr, cur_dir} : itable'[k] = itable[k]
         /\ Grown(inode_freemap, itable, dirents, inode_freemap', itable', dirents', name, type,
                  cur_dir, nr, p)
<1> DEFINE n == Len(dirents[cur_dir])
           new == IF type = "dir" THEN << Entry(".", nr), Entry("..", cur_dir) >> ELSE << >>
           old == [i \in 1 .. dir.i_size |->
                     IF i = p THEN Entry(name, nr) ELSE dirents[cur_dir][i]]
<1>1. /\ system = "up" /\ p \notin Alive(dirents[cur_dir]) /\ 1 .. dir.i_size = (1 .. n) \cup {p}
       /\ in.i_size = IF type = "dir" THEN 2 ELSE 0
       BY DEF Created
<1>2. /\ dirents' = [dirents EXCEPT ![nr] = new, ![cur_dir] = old]
       /\ itable' = [itable EXCEPT ![nr] = in, ![cur_dir] = dir]
       BY DEF Created
<1>3. /\ nr \in Nrs /\ nr \in 0 .. NR_INODES - 1 /\ nr \notin inode_freemap
      /\ nr # 0 /\ itable[nr].i_type = "none" /\ dirents[nr] = << >> /\ nr # cur_dir
      BY <1>1, NewInodeFacts
<1>4. /\ cur_dir \in Nrs /\ inode_freemap \subseteq 0 .. NR_INODES - 1
      /\ itable \in [Nrs -> Inodes] /\ dirents \in [Nrs -> Seq(Dirents)]
      BY DEF DirInv, TypeOK
<1>5. /\ dir.i_size \in Nat /\ n \in Nat /\ Entry(name, nr) \in Dirents
      /\ Entry(".", nr) \in Dirents /\ Entry("..", cur_dir) \in Dirents
      /\ \A i \in 1 .. n : dirents[cur_dir][i] \in Dirents
  <2>1. dirents[cur_dir] \in Seq(Dirents)
        BY <1>4
  <2>2. n \in Nat /\ \A i \in 1 .. n : dirents[cur_dir][i] \in Dirents
        BY <2>1, LenProperties, ElementOfSeq
  <2>. QED  BY <1>3, <1>4, <2>2 DEF Inodes, Entry, Dirents, AnyName
<1>6. old \in Seq(Dirents) /\ Len(old) = dir.i_size
  <2>1. old \in [1 .. dir.i_size -> Dirents]
        BY <1>1, <1>5
  <2>2. old \in Seq(Dirents) /\ DOMAIN old = 1 .. dir.i_size
        BY <1>5, <2>1, SeqDef
  <2>. QED  BY <1>5, <2>2, LenProperties
<1>7. /\ new \in Seq(Dirents) /\ Len(new) = in.i_size
      /\ type = "dir" => new[1] = Entry(".", nr) /\ new[2] = Entry("..", cur_dir)
  <2>1. CASE type = "dir"
    <3>1. new = << Entry(".", nr), Entry("..", cur_dir) >>
          BY <2>1
    <3>. QED  BY <1>5, <1>1, <2>1, <3>1
  <2>2. CASE type # "dir"
    <3>1. new = << >>
          BY <2>2
    <3>. QED  BY <1>1, <2>2, <3>1
  <2>. QED  BY <2>1, <2>2
<1>8. /\ dirents' \in [Nrs -> Seq(Dirents)]
      /\ dirents'[nr] = new /\ dirents'[cur_dir] = old
      /\ \A k \in Nrs \ {nr, cur_dir} : dirents'[k] = dirents[k]
  <2> HIDE DEF new, old
  <2>. QED  BY <1>3, <1>4, <1>6, <1>7, <1>2
<1>9. /\ itable' \in [Nrs -> Inodes] /\ itable'[nr] = in /\ itable'[cur_dir] = dir
      /\ \A k \in Nrs \ {nr, cur_dir} : itable'[k] = itable[k]
      BY <1>3, <1>4, <1>2
<1>10. /\ Len(dirents'[cur_dir]) = dir.i_size /\ dirents'[cur_dir][p] = Entry(name, nr)
      /\ \A i \in 1 .. n : i # p => dirents'[cur_dir][i] = dirents[cur_dir][i]
  <2>1. p \in 1 .. dir.i_size /\ \A i \in 1 .. n : i \in 1 .. dir.i_size
        BY <1>1
  <2>. QED  BY <1>6, <1>8, <2>1
<1>11. /\ Alive(dirents'[cur_dir]) = Alive(dirents[cur_dir]) \cup {p}
      /\ \A i \in Alive(dirents[cur_dir]) : dirents'[cur_dir][i] = dirents[cur_dir][i]
  <2>1. Entry(name, nr).nr # INVALID_INODE_NR
        BY <1>3, NrFacts DEF Entry
  <2>. QED  BY <1>4, <1>10, <1>1, <2>1 DEF Alive
<1>12. /\ type = "dir" => /\ Alive(dirents'[nr]) = {1, 2}
                          /\ dirents'[nr][1] = Entry(".", nr)
                          /\ dirents'[nr][2] = Entry("..", cur_dir)
       /\ type # "dir" => Alive(dirents'[nr]) = {} /\ dirents'[nr] = << >>
  <2>1. CASE type = "dir"
    <3>1. /\ dirents'[nr][1] = Entry(".", nr) /\ dirents'[nr][2] = Entry("..", cur_dir)
          /\ Len(dirents'[nr]) = 2
          BY <1>7, <1>8, <2>1
    <3>2. Entry(".", nr).nr = nr /\ Entry("..", cur_dir).nr = cur_dir
          BY DEF Entry
    <3>. QED  BY <1>3, <1>4, <2>1, <3>1, <3>2, NrFacts DEF Alive
  <2>2. CASE type # "dir"
    <3>1. dirents'[nr] = << >> /\ Len(<< >>) = 0
          BY <1>8, <2>2
    <3>2. 1 .. 0 = {}
          OBVIOUS
    <3>. QED  BY <2>2, <3>1, <3>2 DEF Alive
  <2>. QED  BY <2>1, <2>2
<1>13. in.i_type = type /\ dir.i_type = "dir"
       /\ \A i \in Alive(dirents[cur_dir]) : dirents[cur_dir][i].name # name
       BY DEF Created
<1> HIDE DEF new, old
<1>14. Grown(inode_freemap, itable, dirents, inode_freemap', itable', dirents', name, type,
             cur_dir, nr, p)
  <2>1. /\ inode_freemap \subseteq Nrs /\ inode_freemap' = inode_freemap \cup {nr}
        /\ OnDisk(inode_freemap, itable, dirents) /\ itable[cur_dir].i_type = "dir"
        BY <1>1, <1>4, NrFacts DEF Created, DirInv, SessionInv
  <2>. QED  BY <1>1, <1>3, <1>4, <1>7, <1>8, <1>9, <1>10, <1>11, <1>12, <1>13, <2>1 DEF Grown
<1>. QED  BY <1>8, <1>9, <1>14

(* A new inode, and an entry for it in a directory where its name was not.  *)
LEMMA CreateTree ==
  ASSUME NEW free, NEW t, NEW f, NEW free2, NEW t2, NEW f2,
         NEW name, NEW type, NEW c, NEW nr, NEW p,
         Grown(free, t, f, free2, t2, f2, name, type, c, nr, p)
  PROVE  OnDisk(free2, t2, f2)
<1> USE DEF Grown
<1>1. Alive(f[nr]) = {}
       BY DEF Alive
<1>2. DiskInv(free2, t2, f2)
  <2>1. t[c].i_type = "dir" /\ c \in free
        BY DEF OnDisk, DiskInv
  <2>2. /\ t2[nr].i_size = Len(f2[nr])
        /\ t2[nr].i_type # "dir" => f2[nr] = << >>
        /\ nr \in free2 /\ t2[nr].i_type # "none"
        OBVIOUS
  <2>3. /\ t2[c].i_size = Len(f2[c])
        /\ t2[c].i_type = "dir" /\ c \in free2
        BY <2>1
  <2>4. \A k \in Nrs \ {nr, c} :
          /\ t2[k].i_size = Len(f2[k])
          /\ t2[k].i_type # "dir" => f2[k] = << >>
          /\ k \in free2 <=> t2[k].i_type # "none"
        BY DEF OnDisk, DiskInv
  <2>. QED  BY <2>2, <2>3, <2>4 DEF DiskInv
<1>3. Entry(name, nr).name = name /\ Entry(name, nr).nr = nr
      /\ Entry(".", nr).name = "." /\ Entry(".", nr).nr = nr
      /\ Entry("..", c).name = ".." /\ Entry("..", c).nr = c
       BY DEF Entry
<1>4. name # "." /\ name # ".." /\ "." \notin Names /\ ".." \notin Names
       BY NrFacts
<1>5. EntriesInv(t2, f2)
  <2>1. \A d \in Nrs \ {nr, c} : EntriesOf(d, t2[d].i_type, f2[d])
        BY DEF OnDisk, EntriesInv
  <2>2. EntriesOf(nr, type, f2[nr])
    <3>1. CASE type = "dir"
          BY <1>3, <3>1 DEF EntriesOf
    <3>2. CASE type # "dir"
          BY <3>2 DEF EntriesOf
    <3>. QED  BY <3>1, <3>2
  <2>3. /\ \A i, j \in Alive(f[c]) : f[c][i].name = f[c][j].name => i = j
        /\ \A i \in Alive(f[c]) : f[c][i].name = "." => f[c][i].nr = c
        /\ \A dots \in {".", ".."} : \E i \in Alive(f[c]) : f[c][i].name = dots
        BY DEF OnDisk, EntriesInv, EntriesOf
  <2> DEFINE s == f2[c]
             o == f[c]
  <2>4. \A i \in Alive(s) : i = p \/ (i \in Alive(o) /\ i # p /\ s[i] = o[i])
        OBVIOUS
  <2>5. p \in Alive(s) /\ s[p].name = name /\ s[p].nr = nr
        BY <1>3
  <2>6. \A i \in Alive(o) : i \in Alive(s) /\ s[i] = o[i] /\ o[i].name # name
        OBVIOUS
  <2> HIDE DEF s, o
  <2>7. \A i, j \in Alive(s) : s[i].name = s[j].name => i = j
        BY <2>3, <2>4, <2>5, <2>6 DEF o
  <2>8. \A i \in Alive(s) : s[i].name = "." => s[i].nr = c
        BY <1>4, <2>3, <2>4, <2>5 DEF o
  <2>9. \A dots \in {".", ".."} : \E i \in Alive(s) : s[i].name = dots
        BY <2>3, <2>6 DEF o
  <2>10. EntriesOf(c, t2[c].i_type, f2[c])
         BY <2>7, <2>8, <2>9 DEF EntriesOf, s
  <2>. QED  BY <2>1, <2>2, <2>10 DEF EntriesInv
<1>6. \A d, i, k : NamesAt(f2, d, i, k) <=> (NamesAt(f, d, i, k) \/ (d = c /\ i = p /\ k = nr))
  <2> TAKE d, i, k
  <2>1. CASE d \notin Nrs
        BY <2>1 DEF NamesAt
  <2>2. CASE d = nr
        BY <1>1, <1>3, <1>4, <2>2 DEF NamesAt
  <2>3. CASE d = c
    <3>1. NamesAt(f, d, i, k) <=> (i \in Alive(f[c]) /\ f[c][i].name \in Names
                                /\ f[c][i].nr = k)
          BY <2>3 DEF NamesAt
    <3>2. NamesAt(f2, d, i, k) <=> (i \in Alive(f2[c]) /\ f2[c][i].name \in Names
                                 /\ f2[c][i].nr = k)
          BY <2>3 DEF NamesAt
    <3>. QED  BY <1>3, <2>3, <3>1, <3>2
  <2>4. CASE d \in Nrs \ {nr, c}
        BY <2>4 DEF NamesAt
  <2>. QED  BY <2>1, <2>2, <2>3, <2>4
<1>7. /\ t[0].i_type = "dir"
      /\ \A i \in Alive(f[0]) : f[0][i].name = ".." => f[0][i].nr = 0
      /\ \A k, d, i : NamesAt(f, d, i, k) =>
           /\ k \in free \ {0}
           /\ \A e, j : NamesAt(f, e, j, k) => e = d /\ j = i
           /\ \A j \in Alive(f[k]) : f[k][j].name = ".." => f[k][j].nr = d
      /\ \A k \in free \ {0} : \E d, i : NamesAt(f, d, i, k)
      BY DEF OnDisk, TreeInv
<1>8. TreeInv(free2, t2, f2)
  <2>1. t2[0].i_type = "dir"
        BY <1>7, NrFacts
  <2>2. \A k \in Nrs \ {nr} : \A j \in Alive(f2[k]) : f2[k][j].name = ".." =>
          j \in Alive(f[k]) /\ f[k][j] = f2[k][j]
    <3>1. \A j \in Alive(f2[c]) : f2[c][j].name = ".." =>
            j \in Alive(f[c]) /\ f[c][j] = f2[c][j]
          BY <1>3, <1>4
    <3>2. \A k \in Nrs \ {nr, c} : f2[k] = f[k]
          OBVIOUS
    <3> HIDE DEF Grown
    <3>. QED  BY <3>1, <3>2
  <2>3. \A j \in Alive(f2[0]) : f2[0][j].name = ".." => f2[0][j].nr = 0
        BY <1>7, <2>2, NrFacts
  <2>4. \A d, i : ~NamesAt(f, d, i, nr)
        BY <1>7
  <2>5. ASSUME NEW k, NEW d, NEW i, NamesAt(f2, d, i, k)
        PROVE  /\ k \in free2 \ {0}
               /\ \A e, j : NamesAt(f2, e, j, k) => e = d /\ j = i
               /\ \A j \in Alive(f2[k]) : f2[k][j].name = ".." => f2[k][j].nr = d
    <3>1. CASE k = nr
      <4>1. d = c /\ i = p
        <5>1. NamesAt(f, d, i, nr) \/ (d = c /\ i = p)
              BY <1>6, <2>5, <3>1
        <5>. QED  BY <2>4, <5>1
      <4>2. \A j \in Alive(f2[nr]) : f2[nr][j].name = ".." => f2[nr][j].nr = c
            BY <1>3
      <4>. QED  BY <1>6, <2>4, <3>1, <4>1, <4>2
    <3>2. CASE k # nr
      <4>1. NamesAt(f, d, i, k)
            BY <1>6, <2>5, <3>2
      <4>2. k \in free \ {0} /\ k \in Nrs
            BY <1>7, <4>1, NrFacts
      <4>3. \A j \in Alive(f2[k]) : f2[k][j].name = ".." => f2[k][j].nr = d
            BY <1>7, <2>2, <3>2, <4>1, <4>2
      <4>. QED  BY <1>6, <1>7, <3>2, <4>1, <4>2, <4>3
    <3>. QED  BY <3>1, <3>2
  <2>6. \A k \in free2 \ {0} : \E d, i : NamesAt(f2, d, i, k)
        BY <1>6, <1>7
  <2>. QED  BY <2>1, <2>3, <2>5, <2>6 DEF TreeInv
<1>. QED  BY <1>2, <1>5, <1>8 DEF OnDisk

(* Synchronizing an inode changes neither its content nor its references.   *)
LEMMA CleanFacts ==
  ASSUME NEW mem \in Memory, NEW nr \in Nrs
  PROVE  LET m == Clean(mem, nr)
         IN  /\ m \in Memory
             /\ \A k \in Nrs : m[k].i_count = mem[k].i_count /\ m[k].in = mem[k].in
             /\ \A k \in Nrs \ {nr} : m[k] = mem[k]
<1> DEFINE m == Clean(mem, nr)
<1>1. mem[nr] \in [in : Inodes, i_count : Nat, dirty : BOOLEAN]
      BY DEF Memory
<1>. QED  BY <1>1 DEF Clean, Memory

(* create writes both inodes, in memory as on disk, and puts the new one.   *)
LEMMA CreateMemory ==
  ASSUME DirInv, NEW name, NEW type, NEW nr \in Nrs \ {cur_dir}, NEW p,
         NEW in \in Inodes, NEW dir \in Inodes, Created(name, type, nr, p, in, dir),
         itable' \in [Nrs -> Inodes], itable'[nr] = in, itable'[cur_dir] = dir,
         \A k \in Nrs \ {nr, cur_dir} : itable'[k] = itable[k]
  PROVE  /\ inode' \in Memory /\ CopiesInv'
         /\ \A k \in Nrs : inode'[k].i_count = inode[k].i_count
<1> DEFINE m1 == testfs_get_inode(inode, nr)
           m2 == [m1 EXCEPT ![nr].in = in, ![cur_dir].in = dir]
           m3 == testfs_put_inode(m2, nr)
<1>1. inode \in Memory /\ itable \in [Nrs -> Inodes] /\ cur_dir \in Nrs
      BY DEF DirInv, TypeOK, Memory
<1>2. \A k \in Nrs : IF inode[k].i_count = 0 THEN inode[k] = NotInMemory
                     ELSE inode[k].in = itable[k]
      BY DEF DirInv, CopiesInv
<1>3. inode[cur_dir].i_count # 0 /\ \A k \in Nrs : inode[k].i_count \in Nat
      BY <1>1, NrFacts DEF Created, DirInv, TypeOK, SessionInv, ReferencesCounted
<1>4. m1 \in Memory /\ m1[nr].i_count = inode[nr].i_count + 1
      /\ \A k \in Nrs \ {nr} : m1[k] = inode[k]
      BY <1>1, GetFacts
<1>5. inode' = Clean(m3, cur_dir)
      BY DEF Created
<1> HIDE DEF m1
<1>6. /\ m2 \in Memory /\ m2[nr].in = in /\ m2[cur_dir].in = dir
      /\ \A k \in Nrs : m2[k].i_count = m1[k].i_count
      /\ \A k \in Nrs \ {nr, cur_dir} : m2[k] = m1[k]
  <2>1. \A k \in Nrs : m1[k] \in [in : Inodes, i_count : Nat, dirty : BOOLEAN]
        BY <1>4 DEF Memory
  <2>2. /\ m2[nr] = [m1[nr] EXCEPT !.in = in]
        /\ m2[cur_dir] = [m1[cur_dir] EXCEPT !.in = dir]
        /\ \A k \in Nrs \ {nr, cur_dir} : m2[k] = m1[k]
        /\ DOMAIN m2 = Nrs /\ m2 = [k \in Nrs |-> m2[k]]
        BY <1>1, <1>4 DEF Memory
  <2>3. \A k \in Nrs : m2[k] \in [in : Inodes, i_count : Nat, dirty : BOOLEAN]
        BY <1>1, <2>1, <2>2
  <2> HIDE DEF m2
  <2>4. m2 \in Memory
        BY <2>2, <2>3 DEF Memory
  <2>. QED  BY <1>1, <2>1, <2>2, <2>4
<1> HIDE DEF m2
<1>7. /\ m3 \in Memory /\ m3[nr].i_count = inode[nr].i_count
      /\ m3[nr].i_count = 0 => m3[nr] = NotInMemory
      /\ m3[nr].i_count > 0 => m3[nr].in = in
      /\ \A k \in Nrs \ {nr} : m3[k] = m2[k]
  <2>1. m2[nr].i_count > 0 /\ m2[nr].i_count - 1 = inode[nr].i_count
        BY <1>3, <1>4, <1>6
  <2>. QED  BY <1>6, <2>1, PutFacts
<1> HIDE DEF m3
<1>8. /\ inode' \in Memory
      /\ \A k \in Nrs : inode'[k].i_count = m3[k].i_count /\ inode'[k].in = m3[k].in
      /\ \A k \in Nrs \ {cur_dir} : inode'[k] = m3[k]
  <2>1. m3 \in Memory
        BY <1>7
  <2>. QED  BY <1>1, <1>5, <2>1, CleanFacts
<1>9. \A k \in Nrs : inode'[k].i_count = inode[k].i_count
  <2>1. \A k \in Nrs \ {nr} : m3[k].i_count = inode[k].i_count
        BY <1>4, <1>6, <1>7
  <2>. QED  BY <1>7, <1>8, <2>1
<1>10. \A k \in Nrs : IF inode'[k].i_count = 0 THEN inode'[k] = NotInMemory
                      ELSE inode'[k].in = itable'[k]
  <2>1. inode'[nr].i_count = 0 => inode'[nr] = NotInMemory
        BY <1>7, <1>8
  <2>2. inode'[nr].i_count # 0 => inode'[nr].in = itable'[nr]
    <3>1. m3[nr].i_count \in Nat
          BY <1>7 DEF Memory
    <3>. QED  BY <1>7, <1>8, <3>1
  <2>3. inode'[cur_dir].i_count # 0 /\ inode'[cur_dir].in = itable'[cur_dir]
        BY <1>1, <1>3, <1>6, <1>7, <1>8, <1>9
  <2>4. \A k \in Nrs \ {nr, cur_dir} : inode'[k] = inode[k] /\ itable'[k] = itable[k]
        BY <1>4, <1>6, <1>7, <1>8
  <2>. QED  BY <1>2, <2>1, <2>2, <2>3, <2>4
<1>. QED  BY <1>8, <1>9, <1>10 DEF CopiesInv

(* create and mkdir.                                                        *)
LEMMA CreateStep ==
  ASSUME DirInv, NEW name \in Names, NEW type \in {"file", "dir"}, create(name, type)
  PROVE  DirInv'
<1>1. PICK nr \in NewInode, p \in Nat \ {0}, in \in Inodes, dir \in Inodes :
        Created(name, type, nr, p, in, dir)
      BY CreateWrites
<1>2. /\ nr \in Nrs /\ nr \in 0 .. NR_INODES - 1 /\ nr \notin inode_freemap
      /\ nr # 0 /\ dirents[nr] = << >> /\ nr # cur_dir
      BY <1>1, NewInodeFacts DEF Created
<1>3. /\ cur_dir \in Nrs /\ inode_freemap \subseteq 0 .. NR_INODES - 1
      /\ itable[cur_dir].i_type = "dir" /\ OnDisk(inode_freemap, itable, dirents)
      BY <1>1 DEF Created, DirInv, TypeOK, SessionInv
<1>4. /\ itable' \in [Nrs -> Inodes] /\ dirents' \in [Nrs -> Seq(Dirents)]
      /\ itable'[nr] = in /\ itable'[cur_dir] = dir
      /\ \A k \in Nrs \ {nr, cur_dir} : itable'[k] = itable[k]
      /\ Grown(inode_freemap, itable, dirents, inode_freemap', itable', dirents', name, type,
               cur_dir, nr, p)
      BY <1>1, CreateEntries
<1>5. /\ inode' \in Memory /\ CopiesInv'
      /\ \A k \in Nrs : inode'[k].i_count = inode[k].i_count
  <2>1. nr \in Nrs \ {cur_dir}
        BY <1>2
  <2>. QED  BY <1>1, <1>4, <2>1, CreateMemory
<1>6. OnDisk(inode_freemap', itable', dirents')
      BY <1>4, CreateTree
<1>7. inode_freemap' \subseteq 0 .. NR_INODES - 1 /\ UNCHANGED << cur_dir, system, leaked >>
      /\ system = "up" /\ dir.i_type = "dir"
      BY <1>1, <1>2, <1>3 DEF Created
<1>8. TypeOK'
  <2>1. \A d \in Nrs : \A i \in DOMAIN dirents'[d] :
          dirents'[d][i] \in [name : AnyName, nr : Nrs \cup {INVALID_INODE_NR}]
        BY <1>4, DirentsTyped
  <2>. QED  BY <1>4, <1>5, <1>7, <2>1 DEF DirInv, TypeOK, Memory
<1>9. SessionInv'
  <2>1. itable'[cur_dir'].i_type = "dir"
        BY <1>4, <1>7
  <2>2. ReferencesCounted'
        BY <1>5, <1>7 DEF DirInv, SessionInv, ReferencesCounted
  <2>. QED  BY <1>7, <2>1, <2>2 DEF SessionInv
<1>. QED  BY <1>4, <1>5, <1>6, <1>8, <1>9 DEF DirInv

-----------------------------------------------------------------------------
(* rm                                                                       *)

(* Tables and entries before and after: nr is removed, and so is its entry, *)
(* at place q of directory c.                                               *)
Shrunk(free, t, f, free2, t2, f2, c, nr, q) ==
  /\ free \subseteq Nrs /\ free2 = free \ {nr} /\ OnDisk(free, t, f)
  /\ c \in Nrs /\ t[c].i_type = "dir" /\ nr \in Nrs \ {c}
  /\ q \in Alive(f[c]) /\ f[c][q].name \in Names /\ f[c][q].nr = nr
  /\ \A i \in Alive(f[nr]) : f[nr][i].name \in {".", ".."}
  /\ \A k \in Nrs \ {nr, c} : t2[k] = t[k] /\ f2[k] = f[k]
  /\ t2[nr] = NoInode /\ f2[nr] = << >>
  /\ t2[c] = t[c] /\ Len(f2[c]) = Len(f[c]) /\ Alive(f2[c]) = Alive(f[c]) \ {q}
  /\ \A i \in Alive(f2[c]) : f2[c][i] = f[c][i]

(* What is removed was a leaf of the tree.                                  *)
LEMMA RemoveTree ==
  ASSUME NEW free, NEW t, NEW f, NEW free2, NEW t2, NEW f2, NEW c, NEW nr, NEW q,
         Shrunk(free, t, f, free2, t2, f2, c, nr, q)
  PROVE  OnDisk(free2, t2, f2)
<1> USE DEF Shrunk
<1>1. NoInode.i_type = "none" /\ NoInode.i_size = 0 /\ Len(<< >>) = 0
      BY DEF NoInode
<1>2. Alive(f2[nr]) = {}
  <2>1. 1 .. 0 = {}
        OBVIOUS
  <2>. QED  BY <1>1, <2>1 DEF Alive
<1>3. "." \notin Names /\ ".." \notin Names
      BY NrFacts
<1>4. \A d, i, k : NamesAt(f2, d, i, k) => /\ NamesAt(f, d, i, k) /\ ~(d = c /\ i = q)
                                         /\ d # nr
  <2> TAKE d, i, k
  <2> HAVE NamesAt(f2, d, i, k)
  <2>1. d \in Nrs /\ i \in Alive(f2[d]) /\ f2[d][i].name \in Names /\ f2[d][i].nr = k
        BY DEF NamesAt
  <2>2. d # nr
        BY <1>2, <2>1
  <2>3. CASE d = c
        BY <2>1, <2>2, <2>3 DEF NamesAt
  <2>4. CASE d # c
        BY <2>1, <2>2, <2>4 DEF NamesAt
  <2>. QED  BY <2>2, <2>3, <2>4
<1>5. \A d, i, k : NamesAt(f, d, i, k) => (d = c /\ i = q) \/ NamesAt(f2, d, i, k)
  <2> TAKE d, i, k
  <2> HAVE NamesAt(f, d, i, k)
  <2>1. d \in Nrs /\ i \in Alive(f[d]) /\ f[d][i].name \in Names /\ f[d][i].nr = k
        BY DEF NamesAt
  <2>2. d # nr
        BY <1>3, <2>1
  <2>3. CASE d = c
        BY <2>1, <2>2, <2>3 DEF NamesAt
  <2>4. CASE d # c
        BY <2>1, <2>2, <2>4 DEF NamesAt
  <2>. QED  BY <2>3, <2>4
<1>6. NamesAt(f, c, q, nr)
      BY DEF NamesAt
<1>7. /\ t[0].i_type = "dir"
      /\ \A i \in Alive(f[0]) : f[0][i].name = ".." => f[0][i].nr = 0
      /\ \A k, d, i : NamesAt(f, d, i, k) =>
           /\ k \in free \ {0}
           /\ \A e, j : NamesAt(f, e, j, k) => e = d /\ j = i
           /\ \A j \in Alive(f[k]) : f[k][j].name = ".." => f[k][j].nr = d
      /\ \A k \in free \ {0} : \E d, i : NamesAt(f, d, i, k)
      BY DEF OnDisk, TreeInv
<1>8. nr \in free \ {0}
      BY <1>6, <1>7
<1>9. \A k \in Nrs \ {nr} : Alive(f2[k]) \subseteq Alive(f[k])
                            /\ \A j \in Alive(f2[k]) : f2[k][j] = f[k][j]
      OBVIOUS
<1>10. DiskInv(free2, t2, f2)
  <2>1. \A k \in Nrs : /\ t[k].i_size = Len(f[k])
                       /\ t[k].i_type # "dir" => f[k] = << >>
                       /\ k \in free <=> t[k].i_type # "none"
        BY DEF OnDisk, DiskInv
  <2>2. t2[nr].i_size = Len(f2[nr]) /\ f2[nr] = << >> /\ nr \notin free2 /\ t2[nr].i_type = "none"
        BY <1>1
  <2>3. t2[c].i_size = Len(f2[c]) /\ t2[c].i_type = "dir" /\ c \in free2
        BY <2>1
  <2>4. \A k \in Nrs \ {nr, c} : t2[k] = t[k] /\ f2[k] = f[k] /\ (k \in free2 <=> k \in free)
        OBVIOUS
  <2>. QED  BY <2>1, <2>2, <2>3, <2>4 DEF DiskInv
<1>11. EntriesInv(t2, f2)
  <2>1. \A d \in Nrs : EntriesOf(d, t[d].i_type, f[d])
        BY DEF OnDisk, EntriesInv
  <2>2. \A d \in Nrs \ {nr, c} : EntriesOf(d, t2[d].i_type, f2[d])
        BY <2>1
  <2>3. EntriesOf(nr, t2[nr].i_type, f2[nr])
        BY <1>1, <1>2 DEF EntriesOf
  <2>4. EntriesOf(c, t2[c].i_type, f2[c])
    <3>1. EntriesOf(c, "dir", f[c])
          BY <2>1
    <3>2. \A dots \in {".", ".."} : \E i \in Alive(f2[c]) : f2[c][i].name = dots
      <4> TAKE dots \in {".", ".."}
      <4>1. PICK i \in Alive(f[c]) : f[c][i].name = dots
            BY <3>1 DEF EntriesOf
      <4>2. i # q
            BY <1>3, <4>1
      <4>. QED  BY <4>1, <4>2
    <3>. QED  BY <3>1, <3>2 DEF EntriesOf
  <2>. QED  BY <2>2, <2>3, <2>4 DEF EntriesInv
<1>12. TreeInv(free2, t2, f2)
  <2>1. t2[0].i_type = "dir"
        BY <1>7, <1>8, NrFacts
  <2>2. \A j \in Alive(f2[0]) : f2[0][j].name = ".." => f2[0][j].nr = 0
        BY <1>7, <1>8, <1>9, NrFacts
  <2>3. ASSUME NEW k, NEW d, NEW i, NamesAt(f2, d, i, k)
        PROVE  /\ k \in free2 \ {0}
               /\ \A e, j : NamesAt(f2, e, j, k) => e = d /\ j = i
               /\ \A j \in Alive(f2[k]) : f2[k][j].name = ".." => f2[k][j].nr = d
    <3>1. NamesAt(f, d, i, k) /\ ~(d = c /\ i = q)
          BY <1>4, <2>3
    <3>2. k # nr
          BY <1>6, <1>7, <3>1
    <3>3. k \in free \ {0} /\ k \in Nrs
          BY <1>7, <3>1
    <3>4. \A j \in Alive(f2[k]) : f2[k][j].name = ".." => f2[k][j].nr = d
          BY <1>7, <1>9, <3>1, <3>2, <3>3
    <3>5. \A e, j : NamesAt(f2, e, j, k) => e = d /\ j = i
          BY <1>4, <1>7, <3>1
    <3>. QED  BY <3>2, <3>3, <3>4, <3>5
  <2>4. \A k \in free2 \ {0} : \E d, i : NamesAt(f2, d, i, k)
    <3> TAKE k \in free2 \ {0}
    <3>1. PICK d, i : NamesAt(f, d, i, k)
          BY <1>7
    <3>2. ~(d = c /\ i = q)
          BY <3>1 DEF NamesAt
    <3>. QED  BY <1>5, <3>1, <3>2
  <2>. QED  BY <2>1, <2>2, <2>3, <2>4 DEF TreeInv
<1>. QED  BY <1>10, <1>11, <1>12 DEF OnDisk

(* What rm writes to the disk.                                              *)
LEMMA RemoveEntries ==
  ASSUME DirInv, NEW name, cmd_rm(name),
         NEW nr, nr = Lookup(cur_dir, name), NEW q, q = Min(Named(cur_dir, name)),
         name \in AnyName
  PROVE  /\ itable' \in [Nrs -> Inodes] /\ dirents' \in [Nrs -> Seq(Dirents)]
         /\ Shrunk(inode_freemap, itable, dirents, inode_freemap', itable', dirents',
                   cur_dir, nr, q)
<1>1. /\ system = "up" /\ name \notin {".", ".."} /\ Named(cur_dir, name) # {}
      /\ Removable(nr) /\ inode_freemap' = inode_freemap \ {nr}
      BY DEF cmd_rm, CanBeRemoved
<1>2. /\ dirents' = [dirents EXCEPT ![cur_dir][q].nr = INVALID_INODE_NR, ![nr] = << >>]
      /\ itable' = [itable EXCEPT ![nr] = NoInode, ![cur_dir] = Content(cur_dir)]
      BY DEF cmd_rm
<1>3. /\ cur_dir \in Nrs /\ itable \in [Nrs -> Inodes] /\ dirents \in [Nrs -> Seq(Dirents)]
      /\ inode_freemap \subseteq 0 .. NR_INODES - 1
      BY DEF DirInv, TypeOK
<1>4. itable[cur_dir].i_type = "dir" /\ OnDisk(inode_freemap, itable, dirents)
      BY <1>1 DEF DirInv, SessionInv
<1>5. /\ q \in Alive(dirents[cur_dir]) /\ dirents[cur_dir][q].name = name
      /\ dirents[cur_dir][q].nr = nr /\ nr \in Nrs
      BY <1>1, <1>3, LookupFacts
<1>6. name \in Names
      BY <1>1 DEF AnyName
<1>7. \A i \in Alive(dirents[nr]) : dirents[nr][i].name \in {".", ".."}
  <2>1. /\ Live(nr) = Alive(dirents[nr]) /\ Entries(nr) = dirents[nr]
        /\ IsDir(nr) <=> itable[nr].i_type = "dir"
        BY <1>5, SeenFacts
  <2>2. CASE itable[nr].i_type = "dir"
        BY <1>1, <2>1, <2>2 DEF Removable
  <2>3. CASE itable[nr].i_type # "dir"
    <3>1. dirents[nr] = << >> /\ Len(<< >>) = 0
          BY <1>4, <1>5, <2>3 DEF OnDisk, DiskInv
    <3>2. 1 .. 0 = {}
          OBVIOUS
    <3>. QED  BY <3>1, <3>2 DEF Alive
  <2>. QED  BY <2>2, <2>3
<1>8. nr # cur_dir
      BY <1>5, <1>6, <1>7, NrFacts
<1>9. Content(cur_dir) = itable[cur_dir]
      BY <1>3, SeenFacts
<1>10. NoInode \in Inodes
       BY DEF NoInode, Inodes
<1>11. /\ itable' \in [Nrs -> Inodes] /\ itable'[nr] = NoInode
       /\ \A k \in Nrs \ {nr} : itable'[k] = itable[k]
       BY <1>2, <1>3, <1>5, <1>8, <1>9, <1>10
<1> DEFINE s == dirents[cur_dir]
           s2 == [s EXCEPT ![q] = [name |-> name, nr |-> INVALID_INODE_NR]]
<1>12. s \in Seq(Dirents) /\ Len(s) \in Nat /\ q \in 1 .. Len(s) /\ DOMAIN s = 1 .. Len(s)
       BY <1>3, <1>5, LenProperties DEF Alive
<1>13. s[q] = [name |-> name, nr |-> nr]
  <2>1. s[q] \in Dirents
        BY <1>12, ElementOfSeq
  <2>. QED  BY <1>5, <2>1 DEF Dirents
<1>14. s2 \in Seq(Dirents) /\ Len(s2) = Len(s)
  <2>1. [name |-> name, nr |-> INVALID_INODE_NR] \in Dirents
        BY <1>6 DEF Dirents, AnyName
  <2>. QED  BY <1>12, <2>1, ExceptSeq
<1>15. dirents' = [[dirents EXCEPT ![cur_dir] = s2] EXCEPT ![nr] = << >>]
  <2>1. [s EXCEPT ![q].nr = INVALID_INODE_NR] = s2
        BY <1>12, <1>13
  <2>2. dirents' = [[dirents EXCEPT ![cur_dir] = [s EXCEPT ![q].nr = INVALID_INODE_NR]]
                      EXCEPT ![nr] = << >>]
        BY <1>2, <1>3
  <2>. QED  BY <2>1, <2>2
<1> HIDE DEF s2
<1>16. /\ dirents' \in [Nrs -> Seq(Dirents)]
       /\ dirents'[nr] = << >> /\ dirents'[cur_dir] = s2
       /\ \A k \in Nrs \ {nr, cur_dir} : dirents'[k] = dirents[k]
  <2>1. s2 \in Seq(Dirents) /\ << >> \in Seq(Dirents)
        BY <1>14
  <2>. QED  BY <1>3, <1>5, <1>8, <1>15, <2>1
<1>17. Alive(s2) = Alive(s) \ {q} /\ \A i \in Alive(s2) : s2[i] = s[i]
       BY <1>12, <1>14 DEF Alive, s2
<1>18. inode_freemap \subseteq Nrs
       BY <1>3, NrFacts
<1> HIDE DEF s
<1>19. Shrunk(inode_freemap, itable, dirents, inode_freemap', itable', dirents', cur_dir, nr, q)
       BY <1>1, <1>3, <1>4, <1>5, <1>6, <1>7, <1>8, <1>11, <1>14, <1>16, <1>17, <1>18
       DEF Shrunk, s
<1>. QED  BY <1>11, <1>16, <1>19

(* rm zeroes the inode on the disk, and what a leaked reference keeps of it *)
(* in memory.                                                               *)
LEMMA RemoveStep == ASSUME DirInv, NEW name \in AnyName, cmd_rm(name) PROVE DirInv'
<1> DEFINE nr == Lookup(cur_dir, name)
           q == Min(Named(cur_dir, name))
           z == Zeroed(inode, nr)
<1>1. /\ itable' \in [Nrs -> Inodes] /\ dirents' \in [Nrs -> Seq(Dirents)]
      /\ Shrunk(inode_freemap, itable, dirents, inode_freemap', itable', dirents',
                cur_dir, nr, q)
      BY RemoveEntries
<1>2. /\ system = "up" /\ inode' = Clean(z, cur_dir)
      /\ UNCHANGED << cur_dir, system, leaked >>
      BY DEF cmd_rm
<1> HIDE DEF nr, q, z
<1>3. OnDisk(inode_freemap', itable', dirents')
      BY <1>1, RemoveTree
<1>4. /\ inode_freemap' = inode_freemap \ {nr} /\ nr \in Nrs \ {cur_dir} /\ cur_dir \in Nrs
      /\ itable'[nr] = NoInode /\ \A k \in Nrs \ {nr} : itable'[k] = itable[k]
      BY <1>1 DEF Shrunk
<1>5. inode \in Memory /\ inode_freemap \subseteq 0 .. NR_INODES - 1
      BY DEF DirInv, TypeOK, Memory
<1>6. /\ z \in Memory
      /\ \A k \in Nrs : z[k].i_count = inode[k].i_count
      /\ \A k \in Nrs \ {nr} : z[k] = inode[k]
      /\ IF inode[nr].i_count = 0 THEN z[nr] = inode[nr] ELSE z[nr].in = NoInode
  <2>1. inode[nr] \in [in : Inodes, i_count : Nat, dirty : BOOLEAN] /\ NoInode \in Inodes
        BY <1>4, <1>5 DEF Memory, NoInode, Inodes
  <2>2. CASE inode[nr].i_count = 0
        BY <1>5, <2>2 DEF z, Zeroed
  <2>3. CASE inode[nr].i_count # 0
    <3>1. z = [inode EXCEPT ![nr].in = NoInode]
          BY <2>3 DEF z, Zeroed
    <3>. QED  BY <1>4, <1>5, <2>1, <2>3, <3>1 DEF Memory
  <2>. QED  BY <2>2, <2>3
<1>7. /\ inode' \in Memory
      /\ \A k \in Nrs : inode'[k].i_count = z[k].i_count /\ inode'[k].in = z[k].in
      /\ \A k \in Nrs \ {cur_dir} : inode'[k] = z[k]
  <2>1. inode' = Clean(z, cur_dir) /\ cur_dir \in Nrs /\ z \in Memory
        BY <1>2, <1>4, <1>6
  <2>. QED  BY <2>1, CleanFacts
<1>8. \A k \in Nrs : inode'[k].i_count = inode[k].i_count
      BY <1>6, <1>7
<1>9. CopiesInv'
  <2>1. \A k \in Nrs : IF inode[k].i_count = 0 THEN inode[k] = NotInMemory
                       ELSE inode[k].in = itable[k]
        BY DEF DirInv, CopiesInv
  <2>2. inode[cur_dir].i_count # 0
    <3>1. inode[cur_dir].i_count = leaked[cur_dir] + 1 /\ leaked[cur_dir] \in 0 .. MaxLeaks
          BY <1>2, <1>4 DEF DirInv, TypeOK, SessionInv, ReferencesCounted
    <3>. QED  BY <3>1, NrFacts
  <2>3. inode'[cur_dir].i_count # 0 /\ inode'[cur_dir].in = itable'[cur_dir]
        BY <1>4, <1>6, <1>7, <1>8, <2>1, <2>2
  <2>4. IF inode'[nr].i_count = 0 THEN inode'[nr] = NotInMemory ELSE inode'[nr].in = itable'[nr]
        BY <1>4, <1>6, <1>7, <1>8, <2>1
  <2>5. \A k \in Nrs \ {nr, cur_dir} : inode'[k] = inode[k] /\ itable'[k] = itable[k]
        BY <1>4, <1>6, <1>7
  <2>. QED  BY <2>1, <2>3, <2>4, <2>5 DEF CopiesInv
<1>10. TypeOK'
  <2>1. \A d \in Nrs : \A i \in DOMAIN dirents'[d] :
          dirents'[d][i] \in [name : AnyName, nr : Nrs \cup {INVALID_INODE_NR}]
        BY <1>1, DirentsTyped
  <2>. QED  BY <1>1, <1>2, <1>4, <1>5, <1>7, <2>1 DEF DirInv, TypeOK, Memory
<1>11. SessionInv'
  <2>1. itable'[cur_dir'].i_type = "dir"
        BY <1>2, <1>4 DEF DirInv, SessionInv
  <2>2. ReferencesCounted'
        BY <1>2, <1>8 DEF DirInv, SessionInv, ReferencesCounted
  <2>. QED  BY <1>2, <2>1, <2>2 DEF SessionInv
<1>. QED  BY <1>1, <1>3, <1>9, <1>10, <1>11 DEF DirInv

-----------------------------------------------------------------------------
(* The invariant                                                            *)

(* mktestfs makes a root directory, and testfs opens it.                    *)
LEMMA InitInv == ASSUME Init PROVE DirInv
<1> DEFINE root == << Entry(".", 0), Entry("..", 0) >>
<1>1. /\ inode_freemap = {0} /\ cur_dir = 0 /\ system = "up"
      /\ itable = [nr \in Nrs |-> IF nr = 0 THEN [i_type |-> "dir", i_size |-> 2] ELSE NoInode]
      /\ dirents = [nr \in Nrs |-> IF nr = 0 THEN root ELSE << >>]
      /\ inode = [nr \in Nrs |-> IF nr = 0 THEN [in |-> itable[0], i_count |-> 1, dirty |-> FALSE]
                                 ELSE NotInMemory]
      /\ leaked = [nr \in Nrs |-> 0]
      BY DEF Init
<1>2. /\ Entry(".", 0) \in Dirents /\ Entry("..", 0) \in Dirents
      /\ Entry(".", 0).name = "." /\ Entry("..", 0).name = ".."
      /\ Entry(".", 0).nr = 0 /\ Entry("..", 0).nr = 0 /\ 0 # INVALID_INODE_NR
      BY NrFacts DEF Entry, Dirents, AnyName
<1>3. root \in Seq(Dirents) /\ Len(root) = 2 /\ root[1] = Entry(".", 0) /\ root[2] = Entry("..", 0)
      BY <1>2
<1>4. << >> \in Seq(Dirents) /\ Len(<< >>) = 0
      OBVIOUS
<1> HIDE DEF root
<1>5. /\ dirents \in [Nrs -> Seq(Dirents)] /\ dirents[0] = root
      /\ \A k \in Nrs \ {0} : dirents[k] = << >>
      BY <1>1, <1>3, <1>4, NrFacts
<1>6. /\ itable[0] = [i_type |-> "dir", i_size |-> 2] /\ itable \in [Nrs -> Inodes]
      /\ \A k \in Nrs \ {0} : itable[k] = NoInode
      /\ NoInode = [i_type |-> "none", i_size |-> 0] /\ NoInode \in Inodes
      BY <1>1, NrFacts DEF Inodes, NoInode
<1>7. /\ inode[0] = [in |-> itable[0], i_count |-> 1, dirty |-> FALSE] /\ inode \in Memory
      /\ \A k \in Nrs \ {0} : inode[k] = NotInMemory
      /\ NotInMemory = [in |-> NoInode, i_count |-> 0, dirty |-> FALSE]
      BY <1>1, <1>6, NrFacts DEF Memory, NotInMemory
<1>8. Alive(dirents[0]) = {1, 2} /\ \A k \in Nrs \ {0} : Alive(dirents[k]) = {}
  <2>1. Alive(root) = {1, 2}
        BY <1>2, <1>3 DEF Alive
  <2>2. 1 .. 0 = {}
        OBVIOUS
  <2>3. Alive(<< >>) = {}
        BY <1>4, <2>2 DEF Alive
  <2>. QED  BY <1>5, <2>1, <2>3
<1>9. TypeOK
  <2>1. \A d \in Nrs : \A i \in DOMAIN dirents[d] :
          dirents[d][i] \in [name : AnyName, nr : Nrs \cup {INVALID_INODE_NR}]
        BY <1>5, DirentsTyped
  <2>2. 0 \in 0 .. NR_INODES - 1 /\ leaked \in [Nrs -> 0 .. MaxLeaks]
        BY <1>1, NrFacts, DirectoryAssumption
  <2>. QED  BY <1>1, <1>6, <1>7, <2>1, <2>2, NrFacts DEF TypeOK, Memory
<1>10. CopiesInv
       BY <1>7, <1>6 DEF CopiesInv
<1>11. DiskInv(inode_freemap, itable, dirents)
       BY <1>1, <1>3, <1>4, <1>5, <1>6 DEF DiskInv
<1>12. EntriesInv(itable, dirents)
  <2>1. EntriesOf(0, itable[0].i_type, dirents[0])
        BY <1>2, <1>3, <1>5, <1>8 DEF EntriesOf
  <2>2. \A d \in Nrs \ {0} : EntriesOf(d, itable[d].i_type, dirents[d])
        BY <1>6, <1>8 DEF EntriesOf
  <2>. QED  BY <2>1, <2>2 DEF EntriesInv
<1>13. TreeInv(inode_freemap, itable, dirents)
  <2>1. \A d, i, k : ~NamesAt(dirents, d, i, k)
    <3> SUFFICES ASSUME NEW d, NEW i, NEW k, NamesAt(dirents, d, i, k) PROVE FALSE
        OBVIOUS
    <3>1. d \in Nrs /\ i \in Alive(dirents[d]) /\ dirents[d][i].name \in Names
          BY DEF NamesAt
    <3>2. d = 0 /\ (i = 1 \/ i = 2)
          BY <1>8, <3>1
    <3>. QED  BY <1>2, <1>3, <1>5, <3>1, <3>2, NrFacts
  <2>2. \A i \in Alive(dirents[0]) : dirents[0][i].nr = 0
        BY <1>2, <1>3, <1>5, <1>8
  <2>. QED  BY <1>1, <1>6, <2>1, <2>2 DEF TreeInv
<1>14. SessionInv
  <2>1. \A nr \in Nrs : inode[nr].i_count = leaked[nr] + (IF nr = cur_dir THEN 1 ELSE 0)
        BY <1>1, <1>7
  <2>. QED  BY <1>1, <1>6, <2>1 DEF SessionInv, ReferencesCounted
<1>. QED  BY <1>5, <1>9, <1>10, <1>11, <1>12, <1>13, <1>14 DEF DirInv, OnDisk

(* Every command, and every end and beginning of a session.                 *)
LEMMA NextInv == ASSUME DirInv, [Next]_vars PROVE DirInv'
<1>1. CASE UNCHANGED vars
  <2>1. /\ UNCHANGED << inode_freemap, itable, dirents >>
        /\ UNCHANGED << inode, cur_dir, system, leaked >>
        BY <1>1 DEF vars
  <2>2. OnDisk(inode_freemap, itable, dirents)'
        BY <2>1, TreeStays
  <2>3. TypeOK' /\ (dirents \in [Nrs -> Seq(Dirents)])'
        BY <2>1 DEF DirInv, TypeOK
  <2>4. CopiesInv' /\ SessionInv'
        BY <2>1 DEF DirInv, CopiesInv, SessionInv, ReferencesCounted
  <2>. QED  BY <2>2, <2>3, <2>4 DEF DirInv
<1>2. CASE \E name \in Names, type \in {"file", "dir"} : create(name, type)
      BY <1>2, CreateStep
<1>3. CASE \E name \in Names : create_fails(name)
      BY <1>3, CreateFailsStep
<1>4. CASE \E name \in Names : cmd_ls_file(name)
      BY <1>4, LsFileStep
<1>5. CASE \E name \in AnyName : cmd_cd(name)
      BY <1>5, CdStep
<1>6. CASE \E name \in AnyName : cmd_rm(name)
      BY <1>6, RemoveStep
<1>7. CASE \E name \in AnyName : cmd_stat_stops(name)
      BY <1>7, StopsStep DEF cmd_stat_stops
<1>8. CASE \E name \in AnyName, recursive \in BOOLEAN : cmd_ls_stops(name, recursive)
      BY <1>8, StopsStep DEF cmd_ls_stops
<1>9. CASE cmd_quit
      BY <1>9, QuitStep
<1>10. CASE testfs_init_super_block
       BY <1>10, OpenStep
<1>. QED  BY <1>1, <1>2, <1>3, <1>4, <1>5, <1>6, <1>7, <1>8, <1>9, <1>10 DEF Next

(* The inductive invariant holds after any sequence of commands and         *)
(* sessions.                                                                *)
THEOREM DirectoryInvariant == Spec => []DirInv
<1>1. DirInv /\ [Next]_vars => DirInv'
      BY NextInv
<1>. QED  BY <1>1, InitInv, PTL DEF Spec

(* Where an inode is named, in terms of the disk.                           *)
LEMMA PlacesFacts ==
  ASSUME DirInv, NEW nr \in Nrs
  PROVE  \A x : x \in Places(nr) <=> \E d, i : x = << d, i >> /\ NamesAt(dirents, d, i, nr)
<1>1. \A d \in Nrs : Entries(d) = dirents[d] /\ Live(d) = Alive(dirents[d])
                     /\ (IsDir(d) <=> itable[d].i_type = "dir")
      BY SeenFacts
<1>2. inode_freemap \subseteq Nrs
      BY NrFacts DEF DirInv, TypeOK
<1>3. \A d, i : NamesAt(dirents, d, i, nr) => d \in Dirs
  <2> TAKE d, i
  <2> HAVE NamesAt(dirents, d, i, nr)
  <2>1. d \in Nrs /\ i \in Alive(dirents[d])
        BY DEF NamesAt
  <2>2. /\ itable[d].i_type # "dir" => dirents[d] = << >>
        /\ d \in inode_freemap <=> itable[d].i_type # "none"
        BY <2>1 DEF DirInv, OnDisk, DiskInv
  <2>3. dirents[d] # << >>
    <3>1. 1 .. 0 = {} /\ Len(<< >>) = 0
          OBVIOUS
    <3>. QED  BY <2>1, <3>1 DEF Alive
  <2>. QED  BY <1>1, <2>1, <2>2, <2>3 DEF Dirs
<1>4. \A d \in Dirs : d \in Nrs
      BY <1>2 DEF Dirs
<1>5. \A d \in Dirs : \A i :
        (i \in Live(d) /\ Entries(d)[i].nr = nr /\ Entries(d)[i].name \in Names)
          <=> NamesAt(dirents, d, i, nr)
      BY <1>1, <1>4 DEF NamesAt
<1> DEFINE At(d) == {i \in Live(d) : Entries(d)[i].nr = nr /\ Entries(d)[i].name \in Names}
<1>6. \A x : x \in Places(nr) <=> \E d \in Dirs : \E i \in At(d) : x = << d, i >>
      BY DEF Places
<1>7. \A d \in Dirs : \A i : i \in At(d) <=> NamesAt(dirents, d, i, nr)
      BY <1>5
<1> HIDE DEF At
<1>. QED  BY <1>3, <1>6, <1>7

(* The tree that commands see is the tree on the disk.                      *)
LEMMA TreeSeen == ASSUME DirInv PROVE TreeIsSound
<1>1. /\ \A k, d, i : NamesAt(dirents, d, i, k) =>
           /\ k \in inode_freemap \ {0}
           /\ \A e, j : NamesAt(dirents, e, j, k) => e = d /\ j = i
           /\ \A j \in Alive(dirents[k]) : dirents[k][j].name = ".." => dirents[k][j].nr = d
      /\ \A k \in inode_freemap \ {0} : \E d, i : NamesAt(dirents, d, i, k)
      /\ \A i \in Alive(dirents[0]) : dirents[0][i].name = ".." => dirents[0][i].nr = 0
      BY DEF DirInv, OnDisk, TreeInv
<1>2. inode_freemap \subseteq Nrs
      BY NrFacts DEF DirInv, TypeOK
<1>3. \A k \in inode_freemap \ {0} : \E d, i : Places(k) = {<< d, i >>} /\ NamesAt(dirents, d, i, k)
  <2> TAKE k \in inode_freemap \ {0}
  <2>1. PICK d, i : NamesAt(dirents, d, i, k)
        BY <1>1
  <2>2. \A x : x \in Places(k) <=> x = << d, i >>
        BY <1>1, <1>2, <2>1, PlacesFacts
  <2>3. Places(k) = {<< d, i >>}
        BY <2>2
  <2>. QED  BY <2>1, <2>3
<1>4. ASSUME NEW k \in Nrs, k \notin inode_freemap \ {0}
      PROVE  Places(k) = {}
      BY <1>1, <1>4, PlacesFacts
<1>5. \A k \in Nrs : Cardinality(Places(k)) = IF k \in inode_freemap \ {0} THEN 1 ELSE 0
  <2>1. (\A x : Cardinality({x}) = 1) /\ Cardinality({}) = 0
        BY FS_Singleton, FS_EmptySet
  <2>2. \A k \in Nrs : k \in inode_freemap \ {0} => Cardinality(Places(k)) = 1
        BY <1>3, <2>1
  <2>3. \A k \in Nrs : k \notin inode_freemap \ {0} => Cardinality(Places(k)) = 0
        BY <1>4, <2>1
  <2>. QED  BY <2>2, <2>3
<1>6. \A k \in Nrs : k \in inode_freemap <=> Content(k).i_type # "none"
      BY SeenFacts DEF DirInv, OnDisk, DiskInv
<1>7. ASSUME NEW d \in Dirs
      PROVE  /\ Named(d, ".") # {} /\ Lookup(d, ".") = d
             /\ Named(d, "..") # {}
             /\ Lookup(d, "..") = IF d = 0 THEN 0 ELSE (CHOOSE p \in Places(d) : TRUE)[1]
  <2>1. d \in Nrs /\ d \in inode_freemap /\ IsDir(d)
        BY <1>2, <1>7 DEF Dirs
  <2>2. /\ Entries(d) = dirents[d] /\ Live(d) = Alive(dirents[d])
        /\ itable[d].i_type = "dir"
        BY <2>1, SeenFacts
  <2>3. EntriesOf(d, "dir", dirents[d])
        BY <2>1, <2>2 DEF DirInv, OnDisk, EntriesInv
  <2>4. Named(d, ".") # {} /\ Named(d, "..") # {}
        BY <2>2, <2>3 DEF Named, EntriesOf
  <2>5. Lookup(d, ".") = d
        BY <2>1, <2>3, <2>4, LookupFacts DEF EntriesOf
  <2>6. \E j \in Alive(dirents[d]) : dirents[d][j].name = ".." /\ dirents[d][j].nr = Lookup(d, "..")
        BY <2>1, <2>4, LookupFacts
  <2>7. d = 0 => Lookup(d, "..") = 0
        BY <1>1, <2>6
  <2>8. ASSUME d # 0
        PROVE  Lookup(d, "..") = (CHOOSE p \in Places(d) : TRUE)[1]
    <3>1. PICK e, i : Places(d) = {<< e, i >>} /\ NamesAt(dirents, e, i, d)
          BY <1>3, <2>1, <2>8
    <3>2. Lookup(d, "..") = e
          BY <1>1, <2>6, <3>1
    <3>3. (CHOOSE p \in Places(d) : TRUE) = << e, i >>
      <4>1. << e, i >> \in Places(d) /\ \A x \in Places(d) : x = << e, i >>
            BY <3>1
      <4>2. (CHOOSE p \in Places(d) : TRUE) \in Places(d)
            BY <4>1
      <4>. QED  BY <4>1, <4>2
    <3>4. << e, i >>[1] = e
          OBVIOUS
    <3>. QED  BY <3>2, <3>3, <3>4
  <2>. QED  BY <2>4, <2>5, <2>7, <2>8
<1>. QED  BY <1>5, <1>6, <1>7 DEF TreeIsSound

(* No name twice.                                                           *)
LEMMA NamesSeen == ASSUME DirInv PROVE NamesUnique
<1> SUFFICES ASSUME NEW d \in Dirs, NEW name \in AnyName
             PROVE  Cardinality(Named(d, name)) <= 1
    BY DEF NamesUnique
<1>1. d \in Nrs
      BY NrFacts DEF Dirs, DirInv, TypeOK
<1>2. Entries(d) = dirents[d] /\ Live(d) = Alive(dirents[d])
      BY <1>1, SeenFacts
<1>3. \A i, j \in Named(d, name) : i = j
      BY <1>1, <1>2 DEF Named, DirInv, OnDisk, EntriesInv, EntriesOf
<1>4. CASE Named(d, name) = {}
      BY <1>4, FS_EmptySet
<1>5. CASE Named(d, name) # {}
  <2>1. PICK i : Named(d, name) = {i}
        BY <1>3, <1>5
  <2>2. Cardinality({i}) = 1
        BY FS_Singleton
  <2>. QED  BY <2>1, <2>2
<1>. QED  BY <1>4, <1>5

(* Every entry, inode and reference is of its type, and no inode is used    *)
(* that the inode table has no room for.                                    *)
THEOREM DirectoryTypeOK == Spec => []TypeOK
BY DirectoryInvariant, PTL DEF DirInv

(* The directories are a tree: testfs_dir_name_to_inode_nr finds an inode   *)
(* in one place, .. leads back to it, no name is there twice, and the       *)
(* current directory exists, whatever is removed and created again.         *)
THEOREM DirectoriesSound == Spec => []DirectoriesAreSound
<1>1. DirInv => CurDirLives
  <2>1. ASSUME DirInv, system = "up" PROVE cur_dir \in Dirs
    <3>1. cur_dir \in Nrs /\ itable[cur_dir].i_type = "dir"
          BY <2>1 DEF DirInv, TypeOK, SessionInv
    <3>2. cur_dir \in inode_freemap
          BY <2>1, <3>1 DEF DirInv, OnDisk, DiskInv
    <3>. QED  BY <2>1, <3>1, <3>2, SeenFacts DEF Dirs
  <2>. QED  BY <2>1 DEF CurDirLives
<1>2. DirInv => DirectoriesAreSound
      BY <1>1, TreeSeen, NamesSeen DEF DirectoriesAreSound
<1>. QED  BY <1>2, DirectoryInvariant, PTL

(* testfs_get_inode and testfs_put_inode balance, but for what cmd_ls_file  *)
(* leaks, however an inode was removed and its number used again.           *)
THEOREM DirectoryReferences == Spec => []ReferencesCounted
<1>1. DirInv => ReferencesCounted
      BY DEF DirInv, SessionInv
<1>. QED  BY <1>1, DirectoryInvariant, PTL

(* What testfs_sync_inode has written is what is in memory.                 *)
THEOREM DirectoryMemory == Spec => []MemoryIsDisk
<1>1. DirInv => MemoryIsDisk
      BY DEF DirInv, CopiesInv, MemoryIsDisk
<1>. QED  BY <1>1, DirectoryInvariant, PTL

=============================================================================
