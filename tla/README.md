# Verification of the ECE344 operating-systems labs

This directory holds TLA+ models of the programs under `src/`, the TLC runs that
check them on small instances, and TLAPS proofs of the results that hold for every
instance. Names of variables, functions and error codes are those of the C code.

## 1. The system and its parts

| Part | Source | State | Operations | Hard behaviour |
|---|---|---|---|---|
| User-level threads | `threads/thread.c` | ready queue, exit queue, index of identifiers, status word and saved context of each thread | create, stub, yield, exit, sleep, wakeup, destroy a wait queue | preemption by a timer signal between any two calls and inside `wait_queue_destroy`; `getcontext` returns twice; identifiers are reused; failing allocations |
| Timer interrupts | `threads/interrupt.c` | signal mask of the CPU and of each saved context | switch on and off, the handler | the handler yields; a wrong mask after a switch stops preemption |
| Locks and condition variables | `threads/thread.c` | status and recorded holder of a lock, wait queues | acquire, release, destroy, wait, signal, broadcast | lost wakeups, barging, exits of holders, release and destruction by others |
| Request pool | `webserver/server_thread.c`, `server.c` | list of connections, one mutex, two condition variables | `server_request` (main thread), `request_stub` (workers) | producers and consumers, one signal per item, spurious wakeups, size 0 |
| File cache | `webserver/server_thread.c` | list by recency, hash table by name, pins, sizes, one mutex | lookup, insert, evict | the lock is not held while a file is read and sent; concurrent misses of one file |
| Hash table | `webserver/server_thread.c` | buckets of a main and a sub buffer, counts, a cursor | insert, find, delete, grow | pairs are moved a few at a time while the table is in use |
| Linked lists | `webserver/server_thread.c`, `warmup/wc.c` | links, ends and size | push, put, pop, pull, insert, delete, look, move to the top, concatenate | pointers at the ends, calls at positions that there are not |
| Web server | `webserver/server.c`, `request.c`, `server_thread.c`, `common.c` | connections, descriptors, file data and buffers, the request each thread serves | accept, parse, read a file, send, close, free | partial writes, descriptors that are used again, buffers shared with the cache, clients that are gone |
| Clients | `webserver/client.c`, `client_simple.c`, `fileset.c` | connection, what was received | connect, send, receive, check | one failed assertion ends all threads of a process |
| Blocks of files | `fs/read_write.c`, `super.c`, `bitmap.c`, `block.c`, `inode.c` | block freemap, count of used blocks, inodes, contents of the blocks | `cmd_write`, `testfs_read_data`, `cmd_rm` | allocation that fails halfway, the change from direct to indirect blocks, reuse of blocks |
| Directories and inodes in memory | `fs/dir.c`, `inode.c`, `file.c`, `testfs.c` | entries, inode freemap, table of referenced inodes | create, mkdir, cd, ls, rm, stat | references on early returns, creation that fails halfway |
| Warm-up programs | `warmup/` | a sorted list of points, a word counter with its table | add, remove, delete duplicates; count | sequential; pointers at the ends, order of equal distances, words that share a bucket |
| Copy of the threads | `webserver/os-086/` | as `threads/` | as `threads/` | identical to the original |

They interact as follows. The timer handler calls `thread_yield`. Locks and condition
variables call `thread_sleep` and `thread_wakeup` and rely on the signal being
blocked; `cv_destroy` calls `wait_queue_destroy`, and neither blocks it. In the web server the main thread hands connections to the pool, a worker
takes one and serves it, and serving it calls the cache before and after the file is
read and sent. Clients and server share nothing but connections. Pool, cache and hash
table are made of linked lists. The web server uses pthreads, not the user-level threads.

What makes each part correct:

* threads: the thread on top of the ready queue is the one that runs; no live thread
  is in two queues or in none, and a freed control block in no queue but the one that is
  being destroyed; the status word of a thread without the CPU agrees with
  where it is; a call gives back the interrupt state it found; nobody starves;
* locks: mutual exclusion, nobody sleeps on a free lock, `cv_wait` releases and sleeps
  in one step;
* pool: the bound, first come first served, each connection once, no lost wakeup;
* cache: list and table agree, sizes and pins are counted right, a file that is being
  sent stays, eviction ends;
* blocks of files: a block in use belongs to one place of one file, the counts are
  right, what is read is what was written and zero elsewhere, a removed file leaves
  nothing;
* directories: the entries form a tree of the inodes in use, names are unique, a
  command gives back the references it takes, and the inode table agrees with memory;
* web server: each client is sent the whole answer to its own request and nothing else,
  no descriptor is closed under a connection that still uses it, file data live as long
  as somebody sends or caches them, and everyone is answered;
* hash table: no pair is lost or doubled while it is moved, and one that was not moved to
  a wrong bucket is found;
* linked lists: the links are a sequence, at both ends and in the middle;
* sorted list: the links are a list, and each call takes the point that is first, last or
  n-th in the order that the header documents;
* word counter: each word has one line with its count.

## 2. Modules

| Module | Models |
|---|---|
| `Threads` | `thread.c` lines 56-579 and 705-831 with `interrupt.c` |
| `Sync` | EXTENDS `Threads`: locks and condition variables, `thread.c` 581-698 |
| `Sockets` | the connections and the server's descriptors, as `common.c` uses them |
| `WebClient` | EXTENDS `Sockets`: `client.c` and other clients |
| `WebServer` | EXTENDS `Sockets`: the accept loop, the two handlers, `request.c` |
| `Web` | composes `WebClient` and `WebServer` |
| `RequestService` | abstract: a FIFO service without lock or wakeup |
| `RequestPool` | `server_request`, `request_stub` and the accept loop; refines `RequestService` |
| `SequenceFacts` | lemmas about sequences, prefixes and least elements that the proofs share |
| `ThreadsProofs` | EXTENDS `Sync`, `SequenceFacts`: theorems about `Threads` and about `Sync` |
| `RequestPoolProofs` | theorems about `RequestPool` |
| `FileCacheProofs` | theorems about `FileCache` |
| `WebProofs` | theorems about `Web` |
| `FileBlocksProofs` | theorems about `FileBlocks` |
| `DirectoryProofs` | theorems about `Directory` |
| `HashTableProofs` | theorems about `HashTable` |
| `FileCache` | `Cache_lookup`, `Cache_insert`, `Cache_evict` and `do_server_request` |
| `FileBlocks` | `read_write.c` and what it uses of `super.c`, `bitmap.c`, `block.c`, `inode.c`; `cmd_write`, `cmd_rm` |
| `Directory` | `dir.c`, the rest of `inode.c`, sessions of `testfs.c` |
| `HashTable` | the hash table of `server_thread.c` |
| `ListSequences` | abstract: sequences with calls at both ends and at a position |
| `Lists` | `List` of `server_thread.c` and `Linkedlist` of `wc.c` with their links; refines `ListSequences` |
| `PointBag` | abstract: a bag of points and its order, no links |
| `SortedPoints` | `sorted_points.c` at the level of its pointers; refines `PointBag` |
| `WordCount` | `wc_init` character by character, its table, `wc_output` |
| `Structures` | composes `HashTable`, `Lists`, `SortedPoints` and `WordCount` for one run |
| `MC*` | values of constants for TLC |

Operators named `X_something` that stand before `X` with a comment "mutant" are
faulty variants of `X`; no specification uses them. Each property of each run is
known to fail when one of them takes the place of `X`.

### Threads

One thread executes at a time, `running`. A call blocks the timer signal first, so it
is one step up to the point where it gives the CPU away (`wait_queue_destroy` does not
block it, see below). That point is
`getcontext(own); ... setcontext(next)`; when the thread gets the CPU back, control is
again behind `getcontext`, and the code asks the status word whether this is the
first or the second return. The model keeps exactly that: `pc[t]` is the label behind
`getcontext`, and the operators `YieldAny`, `YieldTid` and `Sleep` are the code behind
it, used by the first call and by the resumption alike. If a status word were wrong a
resumed call would switch a second time, as the C code would. `frame[t]` holds the C
locals that survive the switch (the saved interrupt state, `want_tid` or `control_id`)
and, for the properties, who got the CPU.

The signal mask is `interrupts`. A saved context carries a mask that blocks the timer,
so `SwitchTo` leaves it blocked, and each resumed call or `thread_stub` unblocks it as
the code does. The handler may run wherever the mask lets it, also in the first
instruction of `thread_stub` after the mask is opened. Between calls nothing of the
package changes, so preempting only between steps loses nothing. `thread_id` reads the
top of the ready queue without blocking the signal, but the caller is on top whenever
it executes, so it reads itself. The create functions of queues and condition variables
call `malloc` with the signal open; the allocator is outside the model.

`wait_queue_destroy` leaves the signal as it finds it. Each instruction of its loop is a
step (`destroy_test`, `destroy_top`, `destroy_free`, `destroy_pop`), `destroying[t]` says
which queue a thread destroys and which instruction is next, and the handler may come
between any two of them. So others sleep on the queue, wake it, or destroy the destroyer
while the block that `thread_free` has freed is still the top of the queue. Such a block
has the status `"Freed"` until it is popped; its identifier stays taken, as in the code.
`thread_free` itself is one step: between its three calls of `free` nobody can tell which
of them has been made. When a wakeup meets the loop between `Queue_top` and
`thread_free`, the thread that is about to be freed has left the queue (`"stray"`). A
program calls `wait_queue_destroy` for a queue once; what creates a queue in the freed
memory finds it empty.

Undefined behaviour is a choice over what the build may do: `free` of a pointer that
`malloc` did not return aborts or goes on (`InvalidFree`); a thread whose stack could
not be allocated crashes at its first instruction. The model stops (`system = "lost"`)
where the package starts to work on the wrong control block: when `thread_exit` is
called with the caller's own identifier, so that the package takes another thread for
the caller; when a wakeup makes a freed block ready; and when `wait_queue_destroy` frees
a thread that was woken meanwhile, or a block for the second time.

### Sync

The wait queue of a lock or condition variable is named by it. `Acquire` is the loop of
`lock_acquire`, entered from the call, from a return of `thread_sleep`, and from
`cv_wait`. A thread that asks for a held lock while no other thread is ready spins with
the timer blocked, as `thread_sleep` returns at once; the model has that state. A thread
may ask for a lock that it holds; it then waits for itself. `inside` and `orphaned` are
history variables: the locks whose acquisition has returned to a thread, and the locks
whose holder died before it released them.

The pointer to a holder outlives the thread. `Gone` is that of a thread in the exit queue,
whose block is never freed; `Dangling` is one to a block that was freed by
`wait_queue_destroy` or `thread_exit`. `malloc` may give that memory to a new thread, which
the lock then records as its holder, so that `cv_wait` and `cv_signal` of that thread pass
their test: `HolderRecords` is the choice at each creation. It allows any subset of the
dangling records, which is more than one allocation can bring about, because which
block a record points to is not kept.

`lock_destroy` frees a queue with its sleepers with the signal blocked, so it is one step
(`FreeSleepers`). `cv_destroy` does not block it: it begins `wait_queue_destroy`, whose
steps are those of `Threads`, and `cv_wait`, `cv_signal` and `cv_broadcast` of others come
between them. Neither checks what the header asks for; a destroyed lock or condition
variable is in the state of a new one.

### RequestPool and RequestService

A critical section is one step (`server_request`, `request_stub`), taking the mutex and
waiting are steps of their own, and a woken thread goes back to the mutex and tests its
condition again. Connections are numbered in the order of `accept`. The refinement maps
the pool to the queue and the workers' connections to the servers; the connection that
the main thread still holds has not arrived yet.

### Sockets, WebClient, WebServer and Web

A connection (`conn`) carries one request and one response; a response is a header and
then single bytes, so that a client may read any part of it at a time. The server sees a
connection through a descriptor in `fdTable`, and `accept` gives out the lowest one that
is free, as the system does; so a descriptor that was closed is used again at once, and a
handler that closed twice would close somebody else's connection. `rio_write` is one
round of the loop of that name: `write` takes any part of what is left. When the client
is gone, a write may be taken or end the server. A connection that is closed with input
that was not read is reset, and the client may lose the rest of its answer: `request.c`
refuses other methods than GET before it read the headers (`unread`).

In `WebClient` a client of `client.c` knows length and checksum of each file from the
file set, and compares both, and the checksum it computes, with what it received. If that
fails, or the server is gone, its process ends with all its threads. `client_killed` is
the environment: a process is killed while it waits for answers.

In `WebServer`, `step[s]` is the place of thread `s` in `do_server_request` or
`do_server_request_nocache`; without worker threads the main thread serves, and accepts
nothing meanwhile. The pool is the service of `RequestService`, which `RequestPool`
implements. The cache is abstracted to the file data it points to: it may drop any of
them while a file is inserted, and may take a file or not; when it does is the matter of
`FileCache`. What this module is about is memory. `file_data` and `file_buf` are the heap:
a hit shares the buffer of the cached file data, a miss allocates one, the handler
without a cache frees both after it closed the connection, the other one keeps them. An
error page is one byte. `Answer` in `Web` is the definition of what a client should get.

### FileCache

`pc` says whether a worker is idle, reads after a miss, sends, or runs the loop of
`Cache_evict`, in which each round is a step so that its end can be asked about. A
block has a pin count and a size; the list is a sequence of names. Lookups and inserts
are single steps as they hold the lock from end to end. `missedTwice` is history.

### FileBlocks

`testfs` is sequential, and what is hard is the state that a failure in the middle
leaves behind. A block holds `NR_INDIRECT_BLOCKS` words; a word is a block number in an
index block and a piece of data in a data block, the name of the file that wrote it.
`io` holds the locals of the `testfs_write_data` in progress. Each round of its loop
fills one block and is one step: `write_again` when the block exists, `allocate_direct`,
`allocate_indirect`, `allocate_double` when it has to be allocated with the index blocks
that lead to it, and `allocate_fails`, `allocate_fails_below` when there is no space for
all of them. Removing is one step, and `cmd_rm_stops` is the case that an assertion
(`bitmap_unmark`, `testfs_remove_inode`) or a read beyond the end of the device file
stops the process; `system` says which. `dev_end` is the last block that was ever
written, as a read behind it ends the process.

A failed write may leave a pointer to a block that was freed (section 6). Once that
block is allocated again it has two meanings; the model stops there (`"corrupt"`), and
the properties speak of a running system. `written` and `failed` are histories: the
words written to a file, and the files that a write failed on. Names are those of the
files, so a removed file is created again by its next write.

### Directory

`testfs` serves one command at a time, so a command is a step. `dirents` are the entries
of each directory in its blocks, which are written at once; an inode is on disk in
`itable` and, while somebody holds a reference, in memory in `inode`, with its count and
dirty flag. Whether there is space for one more entry depends on blocks, which are the
subject of `FileBlocks`; here it is a choice (`create_fails`). A creation that fails
leaves the directory dirty when an index block was allocated for it, and the next
command that puts that directory fails the assertion of `testfs_put_inode`
(`"dirty_put"`). `cmd_ls_file` keeps its reference; the history `leaked` counts such
references for each inode, at most `MaxLeaks` of one, and at the end of the session they
fail the assertion of `inode.c:43` (`"inodes_left"`). `cmd_quit` and `testfs_init_super_block` end a session and begin the
next one from what is on disk.

### HashTable

Insertions and deletions are steps. A buffer has its buckets as sequences, its size, its
count and the cursor of `HashTable_reallocate`. A pair is its key. `owed` is a history:
how often a key was inserted and not deleted; it exceeds 1 after a key that could not be
found was inserted again. Moving a bucket moves all its pairs to where the first one
belongs, so a pair may end in a wrong bucket, and may come back into reach at the next
growth. `strayed` records that this has happened, and `FindsWhatItHolds` speaks of the
time before. Counts are not reduced by deletions, as in the code, so the table grows
under churn.

### Lists and ListSequences

`List` keeps its elements by pointers, and a linker lives as long as its element is in
the list; so in the model the linker stands for the element too. `list` has the two ends
and the size of each list, `cell` the two links of each allocated linker, and `last` the
last call, its list, its position and what it returned. The two implementations have the
same layout and differ in details (`Linkedlist_insertat` behind the last element,
`Linkedlist_deleteat` at the ends), so their calls are actions of one module and may be
mixed. A null pointer that is followed, or a linker that could not be allocated, ends the
process (`"crashed"`). The refinement walks the links from the start; `ListSequences`
says when a call may fail and when it may end the process.

### SortedPoints and PointBag

A linker has an address, and `linker` is the memory: the point and the two links of each
allocated linker. A call is a step, and each round of the loop of `sp_delete_duplicates`
is one, because a pointer that is wrong between rounds is what could be hard to see.
`ret` keeps the last call, its index, its status and the point it stored. `Float` is the
narrowing of distances in `point_compare`; the instance has two points whose distances
become equal by it. The refinement forgets the links: the bag of the points in the list is
the abstract state, with the same call, index and result. `PointBag` has the order of
`sorted_points.h`, by exact distances, and no narrowing: `Take` gives the one point whose
records cover the position that the call asks for, and an index that there is not gives
nothing. The instance has points whose order narrowing leaves as it is: the refinement
holds of them, and would not of two points whose order it inverts (section 6).

### WordCount

A character is a step of the loop of `wc_init`. The state is its locals (`counter`,
`word_size`, `source_pointer`) and the buckets, in which a word is found by walking from
the front. The real first buffer has 2^30 buckets and grows at 2^29 pairs; a text that an
`int` counts has no room for so many different words, so the table never grows. `Buckets`
scales it down, with the `Seed` of the hash, so that different words share buckets. A word
is what stands between spaces, the beginning and the end of the text
(`WordPlaces`). `WordsBeforeSpacesAreCounted` asks at each character for the count of the
text up to the last space; `EveryWordIsCounted` asks at the end for that of the whole text,
which the code does not give (section 6).

### Structures

The structures are sequential and do not interact, so one run does for all: `part` says
which one a behaviour exercises. The states of the run are the sum, not the product.

## 3. Runs

Every run ends within five minutes on two cores.

| Run | Instance | Shows |
|---|---|---|
| `Threads_safety` | 3 identifiers, 1 wait queue, 1 exited block, all calls and failures, `wait_queue_destroy` preempted | type, one place per thread and the running one on top, status words, interrupt state, results of resumed calls, FIFO wakeups |
| `Sync_safety` | 3 threads, 2 locks (symmetric), 1 condition variable that is destroyed too, exits, sections with interrupts off | mutual exclusion, atomic `cv_wait` |
| `Sync_liveness` | 3 threads that yield to each other, 1 lock, 1 condition variable; releases by others, destroyed locks and condition variables, no exits | no sleeper on a free lock; sleepers on a lock whose holder lives and does not wait for itself are woken, a free lock that somebody is about to test is taken, and a ready thread runs |
| `RequestPool_service` | 3 workers, 2 slots, 6 connections, 2 spurious wakeups | all properties of the pool, and that it implements `RequestService` |
| `FileCache_requests` | 3 workers, 3 files of changing size, room for two | list, table, sizes and pins agree; pins and senders; evictions end |
| `Web_experiment` | 3 clients in 2 processes, 3 connections, 2 workers or none, 1 slot, with and without cache, 1 kill | everyone is sent the answer to its own request; descriptors and buffers are not mixed up; everyone is answered |
| `FileBlocks_write` | 2 files (symmetric), 5 blocks, 1 direct block, 2 words in a block | owners and counts, contents, removal |
| `Directory_session` | 3 names (2 of one length, symmetric), 3 inodes, 1 lost reference to an inode | a tree with unique names and a current directory, references counted, memory agrees with disk |
| `Data_structures` | 5 keys, 3 in one bucket, buffers of 4 to 32; 2 lists and a sorted list with 5 addresses (symmetric), 5 points; texts of up to 6 characters, 4 buckets | the table loses and doubles nothing while it grows and finds what was not moved to a wrong bucket, the lists implement `ListSequences`, the points `PointBag`, words with a space behind them are counted |
| `Threads_destroy`, `FileBlocks_double_free`, `Words_last` | small ones that show it | a departure from the documentation or an assertion, see section 6 |

Bounds and why they are enough:

* `THREAD_MAX_THREADS = 3` gives a ready queue with a top, a middle and an end, and
  identifiers that run out and are reused. `MaxExits` bounds the exit queue, which the
  code only ever pushes to.
* `Sync_liveness` leaves out `exit_self` to end in time. Holders still die, when a lock or a
  condition variable is destroyed under them; exits of holders are in `Sync_safety`.
* Two locks let one thread sleep on the second while it holds the first; one condition
  variable suffices because condition variables do not interact.
* Three workers and two slots let the pool be full, empty and between with several
  sleepers of both kinds. `MaxConnections` and `MaxSpurious` bound counters; the proofs
  need neither.
* In the cache two of the bigger files fit, three workers can pin both and insert a
  third. A size of 0 and a size at the limit of what is cached are included.
* `Sync_safety` and `Sync_liveness` view states without what calls returned
  (`WithoutResults`): no action and none of their properties reads it, and each step that
  fairness speaks of changes something else too, so two states that differ in it have the
  same future. `Sync_safety` blocks the timer of a program only around calls of locks.
* A file has 1 direct, 2 indirect and 4 double indirect blocks, so each kind begins and
  ends within reach. `Starts` begin in the first block, in the middle of the indirect
  ones, in the double indirect ones and in the last page; a write of 4 words touches
  two or three blocks and crosses from one kind to the next. Five blocks hold one file
  with a double indirect block and a bit of another, so that each of the allocations of
  a round fails in some state. The freemap has two bits more, to tell the limit from
  its size.
* Three names of two lengths let a removed entry be used again by another name, or not.
  Three inodes are the root, a directory and what is in it; the freemap has room for one
  more, to tell its limit from that of the table. (Four inodes and two names were tried
  too.)
* In the hash table `INCREMENTSIZE`, `SCALEFACTOR` and `MOVECOUNT` are constants of at
  least 2 (4096, 2 and 2 in the code); from 4 buckets three growths happen, so a sub
  buffer is filled, emptied and freed, and `MaxSize` bounds the growth. The load factor of
  a half is fixed.
* Five addresses give a sorted list with both ends and a middle, where duplicates can
  stand at either end and next to each other, and two lists that are both long enough to
  be concatenated. Points and lists are never at work together, so their addresses are
  one symmetric set.
* Texts have two letters whose one-letter words share a bucket, spaces and tabs; six
  characters hold three words.
* In `Web_experiment` two requests overlap in all ways, and a third finds descriptors and
  buffers that were used before. One thread asks twice beside another client, or both
  threads of one process ask once. The files are one of two bytes and an empty one, which
  has no buffer; the others are a name that is refused and a method that is. One slot lets
  the main thread wait with a connection in hand. `MaxConnections` and `MaxKills` are
  bounds.

`CHECK_DEADLOCK FALSE` stands where the system may stop: a process that exited or
crashed, threads that all wait, a bounded number of connections, a `testfs` that an
assertion stopped, a table at the bound on its growth, a list whose process is gone, a
text at its end, clients that are done.
`FileCache` is checked for deadlock.

Fairness:

* Threads and locks (`SyncFairness`): the CPU executes (weak fairness of the package's own
  steps); the timer, re-armed by each handler, is delivered again and again while the signal
  is unblocked again and again (strong fairness of the handler); a thread that is inside a
  lock and runs again and again releases it.
  Acquiring is *not* promised: a release wakes all waiters, and one may lose each race.
  A thread in `wait_queue_destroy` goes on although the timer may interrupt each of its
  steps (strong fairness of `DestroyStep`): a time slice is long against an instruction.
* Web: each client, the main thread and each thread that serves a request goes on while it
  can (they block on each other only through reads, writes and the pool), and some worker
  takes what is in the pool. Kills and evictions need not happen. `EveryoneIsAnswered`
  speaks of runs in which no process is killed, as a write to a client that is gone may
  end the server.
* RequestPool: a thread that can go on goes on; a free mutex goes to some thread that
  wants it, no matter which. Clients need not connect.
* FileCache: only that a thread inside the lock goes on.

## 4. Proofs

The run of a component and the theorems about it state the same definitions: TLC checks
them on the instances of section 3, the prover for every value of the constants that the
assumptions of the modules admit (`ConstantsAssumption`, `SyncAssumption`, ...; TLC
evaluates them in the runs). Each invariant below was checked by TLC before it was
proved. A proof of a component has one lemma for each action.

| component | theorems | inductive invariant |
|---|---|---|
| threads | `ThreadsTypeOK`, `ThreadsOnePlace`, `ThreadsStatus`, `ThreadsInterrupts`, `ThreadsReturns`, `ThreadsOrder` | `ThreadsInv` |
| locks | `SyncMutualExclusion`, `SyncNobodyWaits`, `SyncCvWait`, `SyncOnePlace` | `SyncInv` |
| request pool | `TypeCorrect`, `MutexIsOwned`, `PoolIsBounded`, `NoSlotOverlooked`, `NoRequestOverlooked`, `ConnectionsAccounted`, `PoolImplementsService` | `LockInv`, `PoolInv`, `OnceInv` |
| file cache | `CacheTypeOK`, `CacheCounts`, `CachePins` | `CacheInv` |
| web server | `WebTypeOK`, `WebDescriptors`, `WebMemory`, `WebAnswers` | `WebInv` |
| blocks of files | `BlocksTypeOK`, `BlocksAreAccounted`, `FilesReadBack`, `FilesRemovedWhole` | `BlocksInv` |
| directories | `DirectoryTypeOK`, `DirectoriesSound`, `DirectoryReferences`, `DirectoryMemory` | `DirInv` |
| hash table | `HashTableIsMap` | `TableInv` |

### Threads

For every number of identifiers, every set of wait queues and every set of calls that the
program makes. `OnePlacePerThread` speaks of places, that is of pairs of a queue and a
position; `QueuesInv` says the same of sets (no thread twice in a queue, queues disjoint,
the live threads are those in some queue), which each queue operation changes in a way
that a lemma of `SequenceFacts` states. That alone is not inductive:

* `RunningInv`: the thread with the CPU finds the status its label needs. Without it a
  resumed call could switch again, and the thread would be queued twice.
* `FrameInv`: what a call saved in its locals (interrupt state, the thread that got the
  CPU) is still what its mask and its later answer need.
* `IndexInv`: live threads and freed blocks have an identifier, so that a new thread never
  takes the identifier of one that lives or is still in a queue.
* `DestroyInv`: no freed block is ready; in a wait queue only the top can be freed; no two
  threads destroy one queue; and a thread before `thread_free` or `Queue_pop` has a
  queue that is not empty, whose top, before `Queue_pop`, is the freed block. Without the
  second part a sleep or a wakeup in the middle of `wait_queue_destroy` could leave a freed
  block behind a live thread, and `Queue_pop` would take the wrong one.

The package's steps are proved for any label that a call may return to (`Labels` and
`CallerLabels`), so that the proofs about `Sync` cite the same lemmas for calls made by
locks.
`ThreadsReturns` and `ThreadsOrder` are action properties. The first needs `FrameInv`; the
second goes through each operation that takes a thread out of a wait queue.

### Sync

`SyncInv` adds to `ThreadsInv` what ties the three records of a lock together: the word
`m_eStatus`, the holder it names and the threads that believe to be inside.
`RecordsInv` says that only a locked lock has sleepers and that its holder is a
thread inside it, or that its holder died (`orphaned`) and some record of it is left.
`DestroysCvs` says that only queues of condition variables are destroyed step by step: a
lock that is being destroyed is seen by nobody. `CallsInv` says which lock and condition variable
a thread in the middle of `lock_acquire` or `cv_wait` will go on with; `CvWaitIsAtomic` is
part of the induction, as a thread that could run behind the release of `cv_wait`
would find the caller in no queue.

`SyncOnePlace`, `SyncNobodyWaits` and `SyncCvWait` need nothing of the program: they hold of
releases by others, recursive acquisitions, dead holders whose memory is used again, and
of queues destroyed under their sleepers. `SyncMutualExclusion` is
for programs that call neither `release_any` (a release by a thread that does not hold the
lock) nor `lock_destroy`, as `lock_release` and `lock_destroy` check neither; this is the
condition under which the run `Sync_safety` checks it, and its hypothesis.

### RequestPool

`RequestPoolProofs` is about every finite, non-empty set of workers, every
`max_requests` (zero included) and every number of connections and of spurious wakeups.

* `TypeCorrect`, `MutexIsOwned`: the inductive invariant is `LockInv`, which adds to
  `TypeOK` and `MutexOwned` where a thread may be and that this tells what it has in
  hand (`InHand`).
* `PoolIsBounded`, `NoSlotOverlooked`, `NoRequestOverlooked`: together inductive
  (`PoolInv`) relative to `LockInv`. The bound needs that the main thread, the only
  producer, tests `==` on a size that never passed the limit. `RequestsAnnounced`
  counts: while a worker sleeps, the connections in the pool are at most as many as the
  workers on their way to the mutex. A push adds one connection and wakes one sleeper;
  a worker leaves the mutex only with a connection, or when the pool is empty. The
  lemma for each action does the counting with the cardinality facts of
  `FiniteSetTheorems`.
* `ConnectionsAccounted`: `OnceInv` splits `EachConnectionOnce` into parts that the
  solver can handle: no two threads have the same connection, pooled ones are in
  nobody's hand and not served, the pool is increasing, none is forgotten.
* `PoolImplementsService`: the safety part of the refinement. Each step that moves a
  thread about the mutex stutters, `server_request` is `Arrive` (it needs the bound),
  `request_stub` is `Take`, `do_server_request` is `Finish`.

### FileCache

For all finite sets of workers and files, any sizes of files and any size of the cache.
`CacheAccounted` says that the list, the table and `iCurrentSize` agree. `iCurrentSize` is
a sum over a set that changes, so the first part of the module shows what adding,
removing and changing one summand does to a sum. An induction over the set is out of the
prover's reach; these lemmas take a smallest set for which the claim fails, which
the well-foundedness of the natural numbers gives, and refute it.
`CachePins` needs more than itself: `RequestOK` says which requests hold the lock, have a
file in hand and got it from the cache, and `PinsOf` that a file which no two requests
missed at the same time is in the hands of at most one request without a pin, and only
while it is not cached. Evictions leave a state in the middle of `Cache_insert`; there the
new file is still outside (`pc = "evict"`), which is why the two indexes agree even then.

### Web

For every finite set of clients, every finite, non-empty set of worker threads, every
table of files and with or without cache, pool and threads. `WebAssumption` says that a
name that a client asks for is one the server serves or refuses. `WebInv` has a part for
each theorem and one that all share:

* `PoolInv` says where a connection is: accepted, in the pool, with one thread, or done;
  no two threads have the same.
* `DescInv`, on which `WebDescriptors` rests, ties both directions of the descriptor
  table: an open descriptor is that of a connection that is not done, and a connection
  keeps its descriptor until its own handler closed it. One direction alone is not
  inductive, as `close` frees a number that the next `accept` takes.
* `MemInv`, on which `WebMemory` rests, says who owns a piece of file data in each step
  of a handler (`ThreadMemory`), that the cache owns what it keeps, and that an
  allocation belongs to a connection past the step that makes it.
* `ClientInv` and `AnswersInv`: what a client has read, what is on its way and what its
  handler has yet to write make together its answer (`ClientOK`, `Reply`). `WebAnswers`
  follows for a connection that is done. It needs the other parts: that the
  descriptor is still that of the client, and that the data are those of the file.

### FileBlocks

For every finite set of files, any number of blocks, of direct blocks (also none) and of
words in a block, and any positions and sizes of writes. `FileBlocksAssumption` says that
the freemap has a bit for each block and that files are no numbers, so that data and
block numbers can be told apart. The properties of `FileBlocks` walk from the inode to
the blocks; the proof speaks of *spots*, the places in which a block number can stand (a
logical block, the indirect, the double indirect or a page of it) and of the `Block` that
a spot names. `BlocksInv` holds `TypeOK` and, while `testfs` runs, these parts:

* `Placed`, on which all else rests. `Sound`: a spot names a block in use, or it is the
  indirect spot of a file that a write failed on. `Unique`: no block stands in two spots,
  not even one that was freed. `Covered`: a block in use stands in a spot. `Emptied`: a
  free block is zero, unless such a left pointer names it. Without `Emptied` the others
  are not inductive: an old index block that is allocated again would bring its old
  numbers back.
* `Counted`: `used_block_count` and the count of each inode are the numbers of blocks.
* `Contents`: a data block holds the words that were written and zero elsewhere; a file
  has no words written where it has no block.
* `IsWrite` and `Bounded`: the write in progress and the sizes are within what an inode
  can address.
* `Extents`: a file that no write failed on has blocks only before its end or where the
  write in progress has been, a double indirect block only if it is that long, and that
  block lies within the device file. `RemovesWhole` needs it, as `cmd_rm` looks for blocks
  only up to the end of the file.

The allocations of a round differ in which index blocks they make, but all add blocks to
one file: `Changed` says so, one lemma for each part of the invariant shows that such a
change keeps it, and each allocation is an instance. The failed allocation that leaves a
pointer (`Dangles`) and the removal (`Removed`) are the other two kinds of change.
`FilesRemovedWhole` shows that the blocks a removal frees are those of the file, so that
they are in use and as many as the inode counts. The proofs compare numbers of blocks by
bijections and unions, as they cannot count a set by induction.

### Directory

For every finite set of names, any number of inodes and any sequence of commands and
sessions. `DirectoryAssumption` says that no name is `.` or `..` and that the inode
freemap has a bit for each inode of the table. `DirInv` joins

* `OnDisk`, which is about the disk alone and holds between sessions too: `DiskInv` ties
  the freemap, the types and the sizes, `EntriesInv` says that no directory has a name
  twice and that `.` and `..` are there, and `TreeInv` that each inode in use but the root
  is named once, and that `..` of it leads to where that is. `DirectoriesAreSound` follows
  from it;
* `CopiesInv`, from which `MemoryIsDisk` follows: between commands an inode in memory is a
  copy of the one on disk. A command that fails halfway may leave the dirty flag set, but
  no content that differs;
* `SessionInv` with `ReferencesCounted`: the current directory is one, and each inode has
  one reference if it is the current directory, and one for each that was leaked.

That `cmd_rm` removes only an empty directory keeps the tree: the entries of a removed
inode would otherwise be named by nothing. `cmd_cd` to a parent relies on `..` naming a
directory, which `TreeInv` says of the directory above.

### HashTable

For every finite set of keys and every hash, any first size, growth and number of moved
buckets from 2 on, and any sequence of insertions and deletions. When the table grows the
code frees the old sub buffer and whatever is still in it. `HashTableIsMap` says that
nothing is: `Ahead` counts, while the sub buffer has used buckets, four times the pairs
counted in both buffers and twice the used buckets, against three times its size. An
insertion adds one pair and moves two buckets, so that the sum does not grow; a main
buffer of twice the size can be half full only when no bucket is left (`Loads`). The rest
of `TableInv` is what this needs. `Counts`: the count of a buffer, which a deletion leaves
alone, is not below its pairs, so that what a move subtracts from it is there. The cursor
is not beyond a used bucket. The table grows as soon as half of its size is reached, so
that the next sub buffer begins ahead.

A reallocation is `MOVECOUNT` rounds, a function that `HashTable` defines recursively on
the rounds. Its existence and what it has done after n rounds (`Moved`) are shown by the
least n for which the claim fails, and not by an induction. Where pairs stand is a set of
positions (`StandIn`), so that replacing a bucket changes their number by the difference
of two buckets (`ReplaceSize`).

### Only model-checked

* All liveness (`ReadyThreadRuns`, `LockWaitersWake`, `EveryConnectionServed`,
  `EvictEnds`, `EveryoneIsAnswered` and the fair part of `ImplementsService`): the prover
  does not reach fairness and `ENABLED`.
* `Lists` and `SortedPoints`, with their refinements of `ListSequences` and `PointBag`, and
  `WordCount`. The sequence that the links form, the points that a walk passes and the
  words of a text are recursions over data. What they compute for every input would need
  an induction, which is beyond the prover.

## 5. Not modelled

* In `FileCache` the hash table is the map from names to blocks that `HashTable` shows it
  to be before it first grows (2048 insertions). The lists of the pool, the cache and the
  hash table are the sequences that `Lists` shows them to be. The queues of `thread.c`
  are sequences in `Threads`; their links are not modelled.
* In `WebServer`: `server_init` with neither threads nor requests, which leaves the
  pointer to the cache uninitialised (`max_requests > 0` is assumed); clients that end
  before they sent a whole request, after which `request_init` reads an uninitialised
  buffer and `request_read_headers` never sees an empty line (`request.c:64`); the
  text of headers and of error pages; which names and sizes `fileset.c` chooses.
* `List_free`, `Linkedlist_free`, `HashTable_free` and `wc_destroy`, which only end a
  structure, and the variants of calls that differ in not freeing the element.
* The hash table of `wc.c` is an older copy of the other one; its growth, which no text
  reaches, is not modelled again. `webserver/os-086` is a copy of `threads/`.
* `warmup/fact.c`, `point_translate` and the greeting keep no state. The stack that
  `thread_create` builds is machine detail. `mktestfs.c` is the initial state of the file
  system. Parsing of `testfs` commands, output and the test programs are left out.

## 6. Where the code departs from its documentation

Shown by runs:

* `Threads_destroy`: `wait_queue_destroy` does not check that the queue is empty
  (`thread.h:91`), and as it can be preempted between `thread_free` and `Queue_pop`, a
  wakeup can put the freed control block on the ready queue (`thread.c:492`);
* `FileBlocks_double_free`: a write that finds space for a new indirect block but not for
  the block behind it keeps the pointer to the freed indirect block, and removing the file
  fails the assertion of `bitmap_unmark` (`bitmap.c:123`);
* `Words_last`: `wc_init` does not count the last word of a text that does not end in a
  space (`wc.h:13-21`).

Seen in the models, without a run of their own:

* threads: `thread_exit(THREAD_SELF)` of thread 0 as the last thread never returns
  `THREAD_NONE` but follows a null pointer (`thread.h:78-81`); a missing stack goes unnoticed (`thread.h:44`); destroying a thread by
  identifier frees an invalid address (`thread.h:73`); `thread_yield(THREAD_ANY)` returns
  the caller's identifier (`thread.h:54`); `thread_exit` with the caller's own identifier
  breaks "top thread of the ready queue is the thread that is running" (`thread.c:56`);
  exited threads are kept in the exit queue for the life of the process (`thread.h:69`);
  `lock_destroy` frees sleepers instead of checking that the lock is available
  (`thread.h:118`); `lock_release` does not check its caller
  (`thread.h:125`).
* web server: `max_requests = 0` is accepted, and with workers the main thread then waits
  for ever with its first connection (`server.c:42`). A write to a client that is gone may
  end the server. File data and buffers of hits and of evicted blocks are never freed
  while there is a cache. `List_movetop` at the last of several positions ends the process,
  and so does a push without memory. In the cache the second of two requests that missed the
  same file takes away a pin it never had, so that a block may be evicted while it is sent; `SentFilesStay` therefore excludes
  such files. The buffer itself is not freed by an eviction, so the response is still
  right. The hash table moves a whole bucket to where its first key belongs, so that its
  other keys are no longer found (`server_thread.c:821`); `FindsWhatItHolds` in `TableIsMap`
  therefore speaks of tables in which no pair has strayed.
* file system: a write behind the largest file counts as successful (`read_write.c:239`);
  a write that fails in a later round leaves blocks behind the size of the file, and
  removing the file fails the assertion of `testfs_remove_inode` (`inode.c:224`); `ls` of
  a file keeps a reference (`dir.c:311`), which fails the assertion at the end of the
  session; a directory left dirty by a failed creation stops the next command that puts it
  (`inode.c:166`).
* warm-up: `point_compare` compares distances as `float`, so that points whose distances
  are closer than that are ordered by x (`sorted_points.h:21-24`); `sp_add_point` uses the
  new point before it checks that there is one, where 0 is promised
  (`sorted_points.h:17-18`); `wc_init` reads to the terminator, not to `size`
  (`wc.h:9-10`); `Linkedlist_insertat` at the last position appends.

## 7. Plan

In this order, the most important behaviour first:

1. done: the models `Threads`, `Sync`, `RequestService`, `RequestPool`, `FileCache`,
   `Sockets`, `WebClient`, `WebServer`, `Web`, `FileBlocks`, `Directory`, `HashTable`,
   `ListSequences`, `Lists`, `PointBag`, `SortedPoints`, `WordCount`, `Structures`;
2. done: the proofs about threads, locks, request pool, file cache, web server, blocks of
   files, directories and the hash table;
3. left: the queues of `thread.c` with their links, refining the sequences of `Threads`;
4. left: `Directory` over the blocks of `FileBlocks`, so that the choice of
   `create_fails` becomes a condition.
