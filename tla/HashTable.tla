----------------------------- MODULE HashTable ------------------------------
(***************************************************************************)
(* The hash table of src/webserver/server_thread.c.  It grows without a    *)
(* pause: a new buffer of twice the size becomes the main one, the old one *)
(* becomes the sub buffer, and every insertion moves some of its buckets.  *)
(*                                                                         *)
(* The cache, its only user, looks a key up before it inserts it, and      *)
(* deletes keys that it inserted.  A pair is its key here: what a key      *)
(* stands for is never read by the table.                                  *)
(***************************************************************************)
EXTENDS Integers, Sequences, FiniteSets, SequencesExt, FiniteSetsExt

CONSTANTS
  Keys,
  Hash,          \* Hash[k]: the hash of k before it is cut to the table's size
  INCREMENTSIZE, \* size of the first buffer
  SCALEFACTOR,
  MOVECOUNT,     \* how many buckets an insertion moves
  MaxSize        \* bound: no insertions once the main buffer is larger

ASSUME HashTableAssumption ==
  /\ IsFiniteSet(Keys)
  /\ Hash \in [Keys -> Nat]
  /\ INCREMENTSIZE \in Nat /\ SCALEFACTOR \in Nat /\ MOVECOUNT \in Nat
  /\ INCREMENTSIZE >= 2 /\ SCALEFACTOR >= 2 /\ MOVECOUNT >= 2

VARIABLES
  main,       \* m_pMainBuffer
  sub,        \* m_pSubBuffer, NoBuffer until the table grows
  owed,       \* history: how often a key was inserted and not deleted
  strayed     \* history: whether a pair was ever moved to a wrong bucket

tableVars == << main, sub, owed, strayed >>

BucketBuffer_new(size) ==
  [m_pList            |-> [i \in 0 .. size - 1 |-> << >>],
   m_iSize            |-> size,
   m_iBucketNumber    |-> 0,
   m_iReallocateCursor |-> 0]

NoBuffer == BucketBuffer_new(0)

TableInit ==
  /\ main = BucketBuffer_new(INCREMENTSIZE)
  /\ sub = NoBuffer
  /\ owed = [k \in Keys |-> 0]
  /\ strayed = FALSE

-----------------------------------------------------------------------------
(* HashTable_strHash: sizes are powers of two, so that & masks to the rest. *)
Home(k, buffer) == Hash[k] % buffer.m_iSize

BucketBuffer_find(buffer, k) ==
  /\ buffer # NoBuffer
  /\ k \in Range(buffer.m_pList[Home(k, buffer)])

HashTable_find(k) == BucketBuffer_find(main, k) \/ BucketBuffer_find(sub, k)

(* List_delete and List_push on a bucket; Lists has them with their links.  *)
Bucket_delete(bucket, k) == RemoveFirst(bucket, k)

(* The count of a buffer is not reduced. *)
BucketBuffer_delete(buffer, k) ==
  [buffer EXCEPT !.m_pList[Home(k, buffer)] = Bucket_delete(@, k)]

(* It may fail to find a key that stands in the wrong bucket. *)
HashTable_delete(k) ==
  /\ owed[k] > 0
  /\ main' = IF BucketBuffer_find(main, k) THEN BucketBuffer_delete(main, k) ELSE main
  /\ sub' = IF ~BucketBuffer_find(main, k) /\ BucketBuffer_find(sub, k)
            THEN BucketBuffer_delete(sub, k) ELSE sub
  /\ owed' = IF HashTable_find(k) THEN [owed EXCEPT ![k] = @ - 1] ELSE owed
  /\ UNCHANGED strayed

-----------------------------------------------------------------------------
(* HashTable_insert *)

Bucket_push(bucket, k) == Append(bucket, k)

Pushed(buffer, k) ==
  [buffer EXCEPT !.m_pList[Home(k, buffer)] = Bucket_push(@, k), !.m_iBucketNumber = @ + 1]

(* The buckets that HashTable_reallocate comes to.                          *)
Waiting(buffer) ==
  {i \in buffer.m_iReallocateCursor .. buffer.m_iSize - 1 : buffer.m_pList[i] # << >>}

(* It moves a bucket as a whole to where its first key belongs.             *)
BucketSent(buffer, i, last) ==
  [buffer EXCEPT !.m_pList[i] = << >>, !.m_iBucketNumber = @ - Len(buffer.m_pList[i]),
                 !.m_iReallocateCursor = IF last THEN i ELSE @]

BucketReceived(buffer, bucket) ==
  [buffer EXCEPT !.m_pList[Home(bucket[1], buffer)] = @ \o bucket,
                 !.m_iBucketNumber = @ + Len(bucket)]

MoveBucket_offByOne(t, last) ==        \* mutant: the cursor passes a bucket it did not move
  LET i == Min(Waiting(t.sub)) IN
  [main |-> BucketReceived(t.main, t.sub.m_pList[i]),
   sub |-> [BucketSent(t.sub, i, last) EXCEPT !.m_iReallocateCursor = IF last THEN i + 2 ELSE @]]

MoveBucket(t, last) ==
  LET i == Min(Waiting(t.sub)) IN
  [main |-> BucketReceived(t.main, t.sub.m_pList[i]), sub |-> BucketSent(t.sub, i, last)]

(* The buffers when it has moved n buckets, or all there are.  The cursor   *)
(* follows the last of MOVECOUNT buckets, and stays if there are less.      *)
HashTable_reallocate(before) ==
  LET moved[n \in 0 .. MOVECOUNT] ==
        IF n = 0 THEN before
        ELSE LET t == moved[n - 1] IN
             IF Waiting(t.sub) = {} THEN t ELSE MoveBucket(t, n = MOVECOUNT)
  IN  moved[MOVECOUNT]

(* A load factor of a half, which the insertion has just reached. *)
Overloaded(buffer) == buffer.m_iSize <= 2 * buffer.m_iBucketNumber

AtHome(b) == \A i \in DOMAIN b.m_pList : \A k \in Range(b.m_pList[i]) : Home(k, b) = i

(* When the table grows, whatever is left in the old sub buffer is freed.  *)
HashTable_insert(k) ==
  /\ main.m_iSize <= MaxSize
  /\ ~HashTable_find(k)
  /\ owed' = [owed EXCEPT ![k] = @ + 1]
  /\ LET t == HashTable_reallocate([main |-> Pushed(main, k), sub |-> sub]) IN
       /\ strayed' = (strayed \/ ~AtHome(t.main))
       /\ IF Overloaded(t.main)
          THEN /\ sub' = t.main
               /\ main' = BucketBuffer_new(SCALEFACTOR * main.m_iSize)
          ELSE main' = t.main /\ sub' = t.sub

-----------------------------------------------------------------------------
TableNext == \E k \in Keys : HashTable_insert(k) \/ HashTable_delete(k)

TableSpec == TableInit /\ [][TableNext]_tableVars

-----------------------------------------------------------------------------
(* Properties *)

BucketBuffer(b) ==
  /\ b.m_iSize \in Nat /\ b.m_iBucketNumber \in Nat /\ b.m_iReallocateCursor \in 0 .. b.m_iSize
  /\ DOMAIN b.m_pList = 0 .. b.m_iSize - 1
  /\ \A i \in DOMAIN b.m_pList : Range(b.m_pList[i]) \subseteq Keys

(* The counts of the buffers, unsigned in the code, do not wrap. *)
CountsKept == BucketBuffer(main) /\ BucketBuffer(sub)

(* Where pairs of a key stand, by bucket and position.                      *)
Standing(k, b) ==
  UNION {{i} \X {n \in DOMAIN b.m_pList[i] : b.m_pList[i][n] = k} : i \in DOMAIN b.m_pList}

Copies(k, b) == Cardinality(Standing(k, b))

(* No pair is lost or doubled: what was inserted and not deleted is in the *)
(* table once, however insertions, deletions and moves alternate.  In      *)
(* particular the old buffer is empty by the time it is freed, because two *)
(* buckets move while one pair is added.                                   *)
PairsKept == \A k \in Keys : Copies(k, main) + Copies(k, sub) = owed[k]

(* As long as every pair was moved to the bucket of its key, the table is  *)
(* the map it promises: it finds what it holds, and holds it once.  The    *)
(* cache relies on it.                                                      *)
FindsWhatItHolds ==
  ~strayed => \A k \in Keys : owed[k] = IF HashTable_find(k) THEN 1 ELSE 0

(* The table is the map of the pairs it was given, however insertions,     *)
(* deletions and moves between its two buffers alternate.                  *)
TableIsMap == CountsKept /\ PairsKept /\ FindsWhatItHolds

=============================================================================
