------------------------------ MODULE FileCache ------------------------------
(***************************************************************************)
(* The file cache of src/webserver/server_thread.c (Cache_lookup,          *)
(* Cache_insert, Cache_evict) and the requests that use it                 *)
(* (do_server_request).                                                    *)
(*                                                                         *)
(* A request looks its file up; a hit pins the block, a miss reads the     *)
(* file.  It sends the file without the lock, and then calls Cache_insert, *)
(* which unpins the block when the file is in the cache - whether or not   *)
(* this request pinned it - and else inserts the file, after evicting      *)
(* blocks from the bottom of the list when there is no room.  What is done *)
(* under the lock is one step, but for the loop of Cache_evict, of which   *)
(* each round is a step.                                                   *)
(*                                                                         *)
(* Not here: the buckets of the hash table (it is the map from names to    *)
(* blocks that HashTable_find sees before the table first grows), and the  *)
(* files' contents.  The size of a file may differ from read to read.      *)
(***************************************************************************)
EXTENDS Integers, Sequences, FiniteSets, SequencesExt, FiniteSetsExt

CONSTANTS
  Workers,         \* the threads that serve requests
  Files,           \* names of files
  None,            \* the owner of a free lock
  FileSizes,       \* FileSizes[n]: the sizes file n has over time
  iTotalSize       \* max_cache_size

ASSUME CacheAssumption ==
  /\ IsFiniteSet(Files) /\ IsFiniteSet(Workers)
  /\ None \notin Workers
  /\ FileSizes \in [Files -> SUBSET Nat]
  /\ iTotalSize \in Nat

VARIABLES
  nameList,      \* m_pNameList: names of the cached files, the top one first
  table,         \* m_pFileTable: the block of each cached file
  iCurrentSize,
  nPinned,       \* how many blocks are pinned, as the cache counts
  lock,          \* m_lFileTableLock: the worker inside, or None
  pc,            \* idle, read, send, evict
  file,          \* what the worker serves: name, size, and whether it was a hit
  amount,        \* what Cache_evict still has to free
  missedTwice    \* history: files that two requests missed at the same time

vars == << nameList, table, iCurrentSize, nPinned, lock, pc, file, amount, missedTwice >>

Blocks == [pin : Int, size : Nat]
NoFile == [name |-> None, size |-> 0, hit |-> FALSE]

Init ==
  /\ nameList = << >>
  /\ table = << >>
  /\ iCurrentSize = 0
  /\ nPinned = 0
  /\ lock = None
  /\ pc = [w \in Workers |-> "idle"]
  /\ file = [w \in Workers |-> NoFile]
  /\ amount = 0
  /\ missedTwice = {}

-----------------------------------------------------------------------------
Cached == DOMAIN table
Cacheable(size) == size < iTotalSize \div 2
Bottom == Last(nameList)
List_put(n) == << n >> \o nameList
List_pull == Front(nameList)
Place(n) == CHOOSE i \in DOMAIN nameList : nameList[i] = n
List_pmovetop(n) == << n >> \o RemoveAt(nameList, Place(n))

(* Who reads file n after a miss, or sends it.                              *)
Missing(n) == {w \in Workers : pc[w] \in {"read", "send"} /\ file[w].name = n /\ ~file[w].hit}

(* The worker is done with its request.                                     *)
Done(w) ==
  /\ pc' = [pc EXCEPT ![w] = "idle"]
  /\ file' = [file EXCEPT ![w] = NoFile]

-----------------------------------------------------------------------------
(* A request for file n arrives, and Cache_lookup finds it. At that point   *)
(* the size of the request's file is still 0.                               *)
Cache_lookup_uncounted(w, n) ==   \* mutant: m_nPinned of the cache is forgotten
  /\ pc[w] = "idle" /\ lock = None
  /\ Cacheable(0) /\ n \in Cached
  /\ table' = [table EXCEPT ![n].pin = @ + 1]
  /\ nameList' = List_pmovetop(n)
  /\ pc' = [pc EXCEPT ![w] = "send"]
  /\ file' = [file EXCEPT ![w] = [name |-> n, size |-> table[n].size, hit |-> TRUE]]
  /\ UNCHANGED << iCurrentSize, nPinned, lock, amount, missedTwice >>

Cache_lookup(w, n) ==
  /\ pc[w] = "idle" /\ lock = None
  /\ Cacheable(0) /\ n \in Cached
  /\ table' = [table EXCEPT ![n].pin = @ + 1]
  /\ nPinned' = IF table[n].pin = 0 THEN nPinned + 1 ELSE nPinned
  /\ nameList' = List_pmovetop(n)
  /\ pc' = [pc EXCEPT ![w] = "send"]
  /\ file' = [file EXCEPT ![w] = [name |-> n, size |-> table[n].size, hit |-> TRUE]]
  /\ UNCHANGED << iCurrentSize, lock, amount, missedTwice >>

Cache_lookup_miss(w, n) ==
  /\ pc[w] = "idle" /\ lock = None
  /\ ~(Cacheable(0) /\ n \in Cached)
  /\ missedTwice' = IF Missing(n) = {} THEN missedTwice ELSE missedTwice \cup {n}
  /\ pc' = [pc EXCEPT ![w] = "read"]
  /\ file' = [file EXCEPT ![w].name = n]
  /\ UNCHANGED << nameList, table, iCurrentSize, nPinned, lock, amount >>

request_readfile(w) ==
  /\ pc[w] = "read"
  /\ \E s \in FileSizes[file[w].name] : file' = [file EXCEPT ![w].size = s]
  /\ pc' = [pc EXCEPT ![w] = "send"]
  /\ UNCHANGED << nameList, table, iCurrentSize, nPinned, lock, amount, missedTwice >>

(* There is no such file, or it may not be served.                          *)
request_readfile_fails(w) ==
  /\ pc[w] = "read"
  /\ Done(w)
  /\ UNCHANGED << nameList, table, iCurrentSize, nPinned, lock, amount, missedTwice >>

-----------------------------------------------------------------------------
(* Cache_insert: each case starts with the file sent and the lock free.     *)
Inserting(w) == pc[w] = "send" /\ lock = None

HasRoom(size) == iTotalSize - iCurrentSize >= size

(* The file is too big, or Cache_evict refuses before it evicts anything.   *)
Cache_insert_uncached(w) ==
  LET f == file[w] IN
  /\ Inserting(w)
  /\ \/ ~Cacheable(f.size)
     \/ f.name \notin Cached /\ ~HasRoom(f.size) /\ f.size \notin 1 .. iTotalSize
  /\ Done(w)
  /\ UNCHANGED << nameList, table, iCurrentSize, nPinned, lock, amount, missedTwice >>

Cache_insert_keepsPin(w) ==       \* mutant: the pin count itself stays
  LET n == file[w].name IN
  /\ Inserting(w)
  /\ Cacheable(file[w].size) /\ n \in Cached
  /\ nPinned' = IF table[n].pin = 1 THEN nPinned - 1 ELSE nPinned
  /\ Done(w)
  /\ UNCHANGED << nameList, table, iCurrentSize, lock, amount, missedTwice >>

Cache_insert_unpin(w) ==
  LET n == file[w].name IN
  /\ Inserting(w)
  /\ Cacheable(file[w].size) /\ n \in Cached
  /\ table' = [table EXCEPT ![n].pin = @ - 1]
  /\ nPinned' = IF table[n].pin = 1 THEN nPinned - 1 ELSE nPinned
  /\ Done(w)
  /\ UNCHANGED << nameList, iCurrentSize, lock, amount, missedTwice >>

(* The end of Cache_insert, which adds the block on top of the list.        *)
AddBlock(f) ==
  /\ table' = [n \in Cached \cup {f.name} |->
                 IF n = f.name THEN [pin |-> 0, size |-> f.size] ELSE table[n]]
  /\ nameList' = List_put(f.name)
  /\ iCurrentSize' = iCurrentSize + f.size

Cache_insert(w) ==
  LET f == file[w] IN
  /\ Inserting(w)
  /\ Cacheable(f.size) /\ f.name \notin Cached /\ HasRoom(f.size)
  /\ AddBlock(f)
  /\ Done(w)
  /\ UNCHANGED << nPinned, lock, amount, missedTwice >>

Cache_insert_evict(w) ==
  LET f == file[w] IN
  /\ Inserting(w)
  /\ Cacheable(f.size) /\ f.name \notin Cached /\ ~HasRoom(f.size)
  /\ f.size \in 1 .. iTotalSize
  /\ lock' = w
  /\ amount' = f.size
  /\ pc' = [pc EXCEPT ![w] = "evict"]
  /\ UNCHANGED << nameList, table, iCurrentSize, nPinned, file, missedTwice >>

-----------------------------------------------------------------------------
(* Cache_evict, a round at a time                                           *)
Evicting(w) == pc[w] = "evict" /\ amount > 0 /\ nameList # << >>

Cache_evict_noGiveUp(w) ==        \* mutant: the test that all are pinned is gone
  /\ Evicting(w)
  /\ table[Bottom].pin > 0
  /\ nameList' = List_pmovetop(Bottom)
  /\ UNCHANGED << table, iCurrentSize, nPinned, lock, pc, file, amount, missedTwice >>

(* A pinned block goes to the top; if all are pinned the file stays out.    *)
Cache_evict_pinned(w) ==
  /\ Evicting(w)
  /\ table[Bottom].pin > 0
  /\ nameList' = List_pmovetop(Bottom)
  /\ \/ /\ nPinned = Len(nameList)
        /\ lock' = None
        /\ amount' = 0
        /\ Done(w)
     \/ /\ nPinned # Len(nameList)
        /\ UNCHANGED << lock, pc, file, amount >>
  /\ UNCHANGED << table, iCurrentSize, nPinned, missedTwice >>

Cache_evict_keepsSize(w) ==       \* mutant: the current size is not reduced
  /\ Evicting(w)
  /\ table[Bottom].pin <= 0
  /\ amount' = amount - table[Bottom].size
  /\ nameList' = List_pull
  /\ table' = [n \in Cached \ {Bottom} |-> table[n]]
  /\ UNCHANGED << iCurrentSize, nPinned, lock, pc, file, missedTwice >>

Cache_evict(w) ==
  /\ Evicting(w)
  /\ table[Bottom].pin <= 0
  /\ amount' = amount - table[Bottom].size
  /\ iCurrentSize' = iCurrentSize - table[Bottom].size
  /\ nameList' = List_pull
  /\ table' = [n \in Cached \ {Bottom} |-> table[n]]
  /\ UNCHANGED << nPinned, lock, pc, file, missedTwice >>

Cache_evict_done(w) ==
  /\ pc[w] = "evict" /\ amount <= 0
  /\ AddBlock(file[w])
  /\ lock' = None
  /\ amount' = 0
  /\ Done(w)
  /\ UNCHANGED << nPinned, missedTwice >>

-----------------------------------------------------------------------------
Insert(w) ==
  \/ Cache_insert_uncached(w) \/ Cache_insert_unpin(w)
  \/ Cache_insert(w) \/ Cache_insert_evict(w)

Evict(w) == Cache_evict_pinned(w) \/ Cache_evict(w) \/ Cache_evict_done(w)

Read(w) == request_readfile(w) \/ request_readfile_fails(w)

Request(w) == \E n \in Files : Cache_lookup(w, n) \/ Cache_lookup_miss(w, n)

Next == \E w \in Workers : Request(w) \/ Read(w) \/ Insert(w) \/ Evict(w)

Spec == Init /\ [][Next]_vars

(* A thread that holds the lock goes on.  Nothing else is assumed: requests *)
(* need not come, and a mutex may keep a thread waiting for ever.           *)
Fairness == \A w \in Workers : WF_vars(Evict(w))

FairSpec == Spec /\ Fairness

-----------------------------------------------------------------------------
(* Properties *)

TypeOK ==
  /\ nameList \in Seq(Files)
  /\ Cached \subseteq Files /\ table \in [Cached -> Blocks]
  /\ iCurrentSize \in Nat
  /\ nPinned \in Nat
  /\ lock \in Workers \cup {None}
  /\ pc \in [Workers -> {"idle", "read", "send", "evict"}]
  /\ file \in [Workers -> [name : Files \cup {None}, size : Nat, hit : BOOLEAN]]
  /\ amount \in Int
  /\ missedTwice \subseteq Files

(* Whatever interleaving of hits, misses of one file and evictions led     *)
(* here, the two indexes of the cache agree: the list has each block of the *)
(* table once and no other; the current size is the size of its files and  *)
(* within the bound; and the count of pinned blocks, by which Cache_evict   *)
(* gives up, is right even when a block's own count has gone below zero.    *)
CacheAccounted ==
  /\ IsInjective(nameList) /\ ToSet(nameList) = Cached
  /\ iCurrentSize = SumFunction([n \in Cached |-> table[n].size])
  /\ iCurrentSize <= iTotalSize
  /\ nPinned = Cardinality({n \in Cached : table[n].pin > 0})

Hits(n) == {w \in Workers : pc[w] = "send" /\ file[w].name = n /\ file[w].hit}

(* No pin leaks: a block is pinned at most by the requests that send it, so *)
(* one that nobody sends can be evicted.                                    *)
NoPinLeaks == \A n \in Cached : table[n].pin <= Cardinality(Hits(n))

(* A file that was found in the cache stays there while it is sent.  This   *)
(* is so for the files that no two requests ever missed at the same time:   *)
(* the second one takes a pin away that it never had.                       *)
SentFilesStay ==
  \A n \in Files \ missedTwice :
    Hits(n) # {} => n \in Cached /\ table[n].pin = Cardinality(Hits(n))

(* Both together: the pins in the cache are those of the requests that     *)
(* send, but for what a second miss of the same file took away.             *)
PinsMatchSenders == NoPinLeaks /\ SentFilesStay

(* Cache_evict, which goes round in the list of blocks with the lock held,  *)
(* always comes to an end.                                                  *)
EvictEnds == \A w \in Workers : lock = w ~> lock # w

=============================================================================
