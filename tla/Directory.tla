----------------------------- MODULE Directory ------------------------------
(***************************************************************************)
(* The directories of src/fs (dir.c), the inode table and the inodes in    *)
(* memory (inode.c), and a session of testfs that ends and begins again    *)
(* (testfs.c, super.c).                                                    *)
(*                                                                         *)
(* A directory is a sequence of entries, and its i_size counts them.  The  *)
(* entries are written to blocks at once; the inode in memory is written   *)
(* to the inode table when it is synchronized.  The blocks themselves are  *)
(* the subject of FileBlocks: here, adding an entry at the end of a        *)
(* directory may find no space.                                            *)
(*                                                                         *)
(* testfs serves one command at a time, so a command is a step.  Commands  *)
(* that take a reference, give it back and change nothing have no action   *)
(* of their own: cmd_pwd, cmd_read, and all that fail before a change.     *)
(***************************************************************************)
EXTENDS Integers, Sequences, FiniteSets, FiniteSetsExt

CONSTANTS
  Names,
  NameLen,        \* NameLen[n]: the length of a name
  NR_INODES,      \* how many the inode table has room for
  freemap_bits,   \* how many the inode freemap has room for
  MaxLeaks        \* bound: references to an inode that are lost

ASSUME DirectoryAssumption ==
  /\ IsFiniteSet(Names) /\ {".", ".."} \cap Names = {}
  /\ NR_INODES \in Nat \ {0} /\ freemap_bits \in Nat /\ NR_INODES <= freemap_bits
  /\ MaxLeaks \in Nat

VARIABLES
  inode_freemap,  \* the inodes in use
  itable,         \* the inode table on disk
  dirents,        \* the entries in the blocks of each directory
  inode,          \* inodes in memory: content, references, dirty flag
  cur_dir,        \* the inode number of the current directory
  system,         \* up, closed, or why testfs has stopped
  leaked          \* history: references that a command did not give back

vars == << inode_freemap, itable, dirents, inode, cur_dir, system, leaked >>

Nrs == 0 .. freemap_bits - 1
INVALID_INODE_NR == -1

NoInode == [i_type |-> "none", i_size |-> 0]
NotInMemory == [in |-> NoInode, i_count |-> 0, dirty |-> FALSE]

Entry(name, nr) == [name |-> name, nr |-> nr]

(* mktestfs has made the root directory, and testfs has opened it. *)
Init ==
  /\ inode_freemap = {0}
  /\ itable = [nr \in Nrs |-> IF nr = 0 THEN [i_type |-> "dir", i_size |-> 2] ELSE NoInode]
  /\ dirents = [nr \in Nrs |-> IF nr = 0 THEN << Entry(".", 0), Entry("..", 0) >> ELSE << >>]
  /\ inode = [nr \in Nrs |-> IF nr = 0 THEN [in |-> itable[0], i_count |-> 1, dirty |-> FALSE]
                             ELSE NotInMemory]
  /\ cur_dir = 0
  /\ system = "up"
  /\ leaked = [nr \in Nrs |-> 0]

-----------------------------------------------------------------------------
(* Inodes in memory, as functions of what is in memory *)

testfs_get_inode(mem, nr) ==
  IF mem[nr].i_count > 0 THEN [mem EXCEPT ![nr].i_count = @ + 1]
  ELSE [mem EXCEPT ![nr] = [in |-> itable[nr], i_count |-> 1, dirty |-> FALSE]]

testfs_put_inode(mem, nr) ==
  IF mem[nr].i_count = 1 THEN [mem EXCEPT ![nr] = NotInMemory]
  ELSE [mem EXCEPT ![nr].i_count = @ - 1]

Clean(mem, nr) == [mem EXCEPT ![nr].dirty = FALSE]

(* What a command sees of an inode. *)
Content(nr) == IF inode[nr].i_count > 0 THEN inode[nr].in ELSE itable[nr]
IsDir(nr) == Content(nr).i_type = "dir"

-----------------------------------------------------------------------------
(* Entries of a directory *)

Entries(d) == SubSeq(dirents[d], 1, Content(d).i_size)

Live(d) == {i \in DOMAIN Entries(d) : Entries(d)[i].nr # INVALID_INODE_NR}
Named(d, name) == {i \in Live(d) : Entries(d)[i].name = name}

(* testfs_dir_name_to_inode_nr, for a name that is there. *)
Lookup(d, name) == Entries(d)[Min(Named(d, name))].nr

Len_of(name) == CASE name = "." -> 1 [] name = ".." -> 2 [] OTHER -> NameLen[name]

(* testfs_add_dirent takes the first removed entry with a name as long, or  *)
(* the end of the directory.                                                *)
Reusable(d, name) ==
  {i \in DOMAIN Entries(d) : /\ i \notin Live(d)
                             /\ Len_of(Entries(d)[i].name) = Len_of(name)}

Place(d, name) ==
  IF Reusable(d, name) # {} THEN Min(Reusable(d, name)) ELSE Len(Entries(d)) + 1

-----------------------------------------------------------------------------
(* create and mkdir *)

Free == Nrs \ inode_freemap

NewInode_offByOne ==                   \* mutant: one inode more than there are
  IF Free = {} \/ Min(Free) > NR_INODES THEN {} ELSE {Min(Free)}

NewInode == IF Free = {} \/ Min(Free) >= NR_INODES THEN {} ELSE {Min(Free)}

Added(size, d, name) == IF Place(d, name) > size THEN Place(d, name) ELSE size

(* The new name is checked before it is added. *)
Creatable(d, name) == Named(d, name) = {}

create(name, type) ==
  /\ system = "up"
  /\ Creatable(cur_dir, name)
  /\ \E nr \in NewInode :
       LET new == IF type = "dir" THEN << Entry(".", nr), Entry("..", cur_dir) >> ELSE << >>
           in == [i_type |-> type, i_size |-> Len(new)]
           dir == [Content(cur_dir) EXCEPT !.i_size = Added(@, cur_dir, name)]
           mem == testfs_get_inode(inode, nr)
       IN  /\ inode_freemap' = inode_freemap \cup {nr}
           /\ dirents' = [dirents EXCEPT
                            ![nr] = new,
                            ![cur_dir] = [i \in 1 .. dir.i_size |->
                                            IF i = Place(cur_dir, name) THEN Entry(name, nr)
                                            ELSE Entries(cur_dir)[i]]]
           /\ itable' = [itable EXCEPT ![nr] = in, ![cur_dir] = dir]
           /\ inode' = Clean(testfs_put_inode([mem EXCEPT ![nr].in = in, ![cur_dir].in = dir], nr),
                             cur_dir)
  /\ UNCHANGED << cur_dir, system, leaked >>

(* No space for the entry: the new inode is removed again.  The directory   *)
(* is left dirty when an index block was allocated and freed for it.        *)
create_fails(name) ==
  /\ system = "up"
  /\ Creatable(cur_dir, name) /\ NewInode # {}
  /\ Reusable(cur_dir, name) = {}
  /\ inode' = [inode EXCEPT ![cur_dir].dirty = TRUE]
  /\ UNCHANGED << inode_freemap, itable, dirents, cur_dir, system, leaked >>

-----------------------------------------------------------------------------
(* rm *)

(* testfs_remove_dirent does not remove . and .. *)
CanBeRemoved(name) == name \notin {".", ".."}

(* testfs_remove_dirent_allowed: a directory has to be empty. *)
Removable_full(nr) == TRUE             \* mutant: directories are not looked into

Removable(nr) ==
  IsDir(nr) => \A i \in Live(nr) : Entries(nr)[i].name \in {".", ".."}

(* testfs_remove_inode zeroes the inode on disk, and in memory if another  *)
(* reference keeps it there.                                                *)
Zeroed_onDisk(mem, nr) == mem          \* mutant: only on disk

Zeroed(mem, nr) == IF mem[nr].i_count = 0 THEN mem ELSE [mem EXCEPT ![nr].in = NoInode]

cmd_rm(name) ==
  /\ system = "up"
  /\ CanBeRemoved(name)
  /\ Named(cur_dir, name) # {}
  /\ LET nr == Lookup(cur_dir, name) IN
       /\ Removable(nr)
       /\ dirents' = [dirents EXCEPT ![cur_dir][Min(Named(cur_dir, name))].nr = INVALID_INODE_NR,
                                     ![nr] = << >>]
       /\ inode_freemap' = inode_freemap \ {nr}
       /\ itable' = [itable EXCEPT ![nr] = NoInode, ![cur_dir] = Content(cur_dir)]
       /\ inode' = Clean(Zeroed(inode, nr), cur_dir)
  /\ UNCHANGED << cur_dir, system, leaked >>

-----------------------------------------------------------------------------
(* Commands that visit inodes, and take and put a reference to each *)

(* The inodes of the entries that testfs_ls goes through, and with lsr      *)
(* those below, but not through . and .. again.                             *)
Listed(d) == {Entries(d)[i].nr : i \in Live(d)}

Below[n \in Nat] ==
  [d \in Nrs |-> {d} \cup IF n = 0 \/ ~IsDir(d) THEN {}
                          ELSE UNION {Below[n - 1][Entries(d)[i].nr] :
                                        i \in {j \in Live(d) : Entries(d)[j].name \in Names}}]

Visited(nr, recursive) ==
  LET dirs == IF recursive THEN Below[freemap_bits][nr] ELSE {nr} IN
  dirs \cup UNION {Listed(d) : d \in {e \in dirs : IsDir(e)}}

(* testfs_put_inode asserts that what it puts is not dirty. *)
PutsDirty(nrs) == \E nr \in nrs : inode[nr].dirty

AnyName == Names \cup {".", ".."}

cmd_ls_file(name) ==
  /\ system = "up"
  /\ Named(cur_dir, name) # {}
  /\ LET nr == Lookup(cur_dir, name) IN
       /\ ~IsDir(nr)
       /\ leaked[nr] < MaxLeaks
       /\ inode' = testfs_get_inode(inode, nr)
       /\ leaked' = [leaked EXCEPT ![nr] = @ + 1]
  /\ UNCHANGED << inode_freemap, itable, dirents, cur_dir, system >>

Stops(nrs) ==
  /\ PutsDirty(nrs)
  /\ system' = "dirty_put"
  /\ UNCHANGED << inode_freemap, itable, dirents, inode, cur_dir, leaked >>

cmd_ls_stops(name, recursive) ==
  /\ system = "up"
  /\ Named(cur_dir, name) # {} /\ IsDir(Lookup(cur_dir, name))
  /\ PutsDirty(Nrs) /\ Stops(Visited(Lookup(cur_dir, name), recursive))

cmd_stat_stops(name) ==
  /\ system = "up"
  /\ Named(cur_dir, name) # {}
  /\ Stops({Lookup(cur_dir, name)})

cmd_cd_forgets(name) ==                \* mutant: the old directory is not put
  /\ system = "up"
  /\ Named(cur_dir, name) # {} /\ IsDir(Lookup(cur_dir, name))
  /\ IF PutsDirty({cur_dir}) THEN Stops({cur_dir})
     ELSE /\ inode' = testfs_get_inode(inode, Lookup(cur_dir, name))
          /\ cur_dir' = Lookup(cur_dir, name)
          /\ UNCHANGED << inode_freemap, itable, dirents, system, leaked >>

cmd_cd(name) ==
  /\ system = "up"
  /\ Named(cur_dir, name) # {} /\ IsDir(Lookup(cur_dir, name))
  /\ IF PutsDirty({cur_dir}) THEN Stops({cur_dir})
     ELSE /\ inode' = testfs_put_inode(testfs_get_inode(inode, Lookup(cur_dir, name)), cur_dir)
          /\ cur_dir' = Lookup(cur_dir, name)
          /\ UNCHANGED << inode_freemap, itable, dirents, system, leaked >>

-----------------------------------------------------------------------------
(* The end of a session, and the next one *)

(* No inode may be left in memory. *)
testfs_close_super_block(mem) ==
  IF \A nr \in Nrs : mem[nr] = NotInMemory THEN "closed" ELSE "inodes_left"

cmd_quit ==
  /\ system = "up"
  /\ IF PutsDirty({cur_dir}) THEN Stops({cur_dir})
     ELSE /\ inode' = testfs_put_inode(inode, cur_dir)
          /\ system' = testfs_close_super_block(inode')
          /\ UNCHANGED << inode_freemap, itable, dirents, cur_dir, leaked >>

testfs_init_super_block ==
  /\ system = "closed"
  /\ system' = "up"
  /\ inode' = testfs_get_inode(inode, 0)
  /\ cur_dir' = 0
  /\ UNCHANGED << inode_freemap, itable, dirents, leaked >>

-----------------------------------------------------------------------------
Next ==
  \/ \E name \in Names :
       \/ \E type \in {"file", "dir"} : create(name, type)
       \/ create_fails(name) \/ cmd_ls_file(name)
  \/ \E name \in AnyName :
       \/ cmd_cd(name) \/ cmd_rm(name) \/ cmd_stat_stops(name)
       \/ \E recursive \in BOOLEAN : cmd_ls_stops(name, recursive)
  \/ cmd_quit \/ testfs_init_super_block

Spec == Init /\ [][Next]_vars

-----------------------------------------------------------------------------
(* Properties *)

Inodes == [i_type : {"none", "file", "dir"}, i_size : Nat]

(* No inode is used that the inode table has no room for. *)
TypeOK ==
  /\ inode_freemap \subseteq 0 .. NR_INODES - 1
  /\ itable \in [Nrs -> Inodes]
  /\ \A d \in Nrs : \A i \in DOMAIN dirents[d] :
       dirents[d][i] \in [name : AnyName, nr : Nrs \cup {INVALID_INODE_NR}]
  /\ inode \in [Nrs -> [in : Inodes, i_count : Nat, dirty : BOOLEAN]]
  /\ cur_dir \in Nrs
  /\ system \in {"up", "closed", "dirty_put", "inodes_left"}
  /\ leaked \in [Nrs -> 0 .. MaxLeaks]

Dirs == {d \in inode_freemap : IsDir(d)}

(* Where an inode is named, other than by . and .. *)
Places(nr) ==
  UNION {{d} \X {i \in Live(d) : Entries(d)[i].nr = nr /\ Entries(d)[i].name \in Names} :
           d \in Dirs}

(* The file system is a tree, in a session and between sessions: each inode *)
(* in use but the root is named in one place, nothing else is named, and .. *)
(* leads back to the directory where a directory is named.  cmd_pwd, which *)
(* goes up by .. and looks for where it came from, relies on it.            *)
TreeIsSound ==
  /\ \A nr \in Nrs :
       Cardinality(Places(nr)) = IF nr \in inode_freemap \ {0} THEN 1 ELSE 0
  /\ \A nr \in Nrs : nr \in inode_freemap <=> Content(nr).i_type # "none"
  /\ \A d \in Dirs :
       /\ Named(d, ".") # {} /\ Lookup(d, ".") = d
       /\ Named(d, "..") # {}
       /\ Lookup(d, "..") = IF d = 0 THEN 0 ELSE (CHOOSE p \in Places(d) : TRUE)[1]

(* A directory has no two entries of the same name, however its removed    *)
(* entries are used again.                                                  *)
NamesUnique == \A d \in Dirs : \A name \in AnyName : Cardinality(Named(d, name)) <= 1

(* The current directory exists, whatever is removed and created again.     *)
CurDirLives == system = "up" => cur_dir \in Dirs

(* All of it, after any sequence of commands and sessions.                 *)
DirectoriesAreSound == TreeIsSound /\ NamesUnique /\ CurDirLives

(* Between commands, what is in memory is the current directory, and what  *)
(* commands have leaked, with as many references as that.                   *)
ReferencesCounted ==
  system = "up" =>
    \A nr \in Nrs : inode[nr].i_count = leaked[nr] + (IF nr = cur_dir THEN 1 ELSE 0)

(* An inode in memory that is not dirty is what the disk has, so that the  *)
(* next session finds what this one has left.                               *)
MemoryIsDisk ==
  \A nr \in Nrs : inode[nr].i_count > 0 /\ ~inode[nr].dirty => inode[nr].in = itable[nr]

=============================================================================
