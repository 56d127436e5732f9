-------------------------- MODULE RequestPoolProofs --------------------------
(***************************************************************************)
(* What RequestPool guarantees for every number of worker threads, every   *)
(* pool size and every number of connections.                              *)
(***************************************************************************)
EXTENDS RequestPool, FiniteSetTheorems, TLAPS

(* Where a thread is tells whether it has a connection in hand; the main    *)
(* thread has the one it accepted last.                                     *)
InHand ==
  /\ pc[Main] \in {"accept", "lock", "locked", "wait"}
  /\ connfd[Main] = IF pc[Main] = "accept" THEN 0 ELSE accepted
  /\ pc[Main] # "accept" => accepted > 0
  /\ \A w \in Workers : /\ pc[w] \in {"serve", "lock", "locked", "wait"}
                        /\ connfd[w] # 0 <=> pc[w] = "serve"

(* The facts about the threads and the lock, each inductive with TypeOK.    *)
LockInv == TypeOK /\ MutexOwned /\ InHand

(* The type invariant: every reachable state has the types that TypeOK      *)
(* gives the pool, the mutex, the threads and the connections in hand.      *)
LEMMA InitLockInv == Init => LockInv
<1> SUFFICES ASSUME Init PROVE LockInv
    OBVIOUS
<1> USE PoolAssumption DEF Init, AllThreads, Connections
<1>1. TypeOK
      BY DEF TypeOK
<1>2. MutexOwned
      BY DEF MutexOwned
<1>3. InHand
      BY DEF InHand
<1>. QED  BY <1>1, <1>2, <1>3 DEF LockInv

(* A signal sends at most one waiting thread of S back to the mutex and     *)
(* changes nothing else of the threads' positions c.                        *)
LEMMA SignalWakesWaiter ==
  ASSUME NEW S \in SUBSET AllThreads, TypeOK,
         NEW c \in [AllThreads -> {"accept", "serve", "lock", "locked", "wait"}],
         \A p \in S : pc[p] = "wait" => c[p] = "wait",
         pthread_cond_signal(S, c)
  PROVE  /\ pc' \in [AllThreads -> {"accept", "serve", "lock", "locked", "wait"}]
         /\ \A p \in AllThreads : pc'[p] = c[p] \/ (p \in S /\ c[p] = "wait" /\ pc'[p] = "lock")
         /\ \A p \in AllThreads \ S : pc'[p] = c[p]
BY DEF pthread_cond_signal, Waiting

-----------------------------------------------------------------------------
(* Every step preserves LockInv. *)
LEMMA NextLockInv == LockInv /\ [Next]_vars => LockInv'
<1> SUFFICES ASSUME LockInv, [Next]_vars PROVE LockInv'
    OBVIOUS
<1> USE PoolAssumption DEF LockInv, Connections
<1> DEFINE Labels == {"accept", "serve", "lock", "locked", "wait"}
<1>1. CASE accept
      BY <1>1 DEF accept, TypeOK, MutexOwned, InHand, AllThreads
<1>3. CASE server_request_wait
      BY <1>3 DEF server_request_wait, pthread_cond_wait, TypeOK, MutexOwned,
                  InHand, AllThreads
<1>4. CASE server_request
  <2> DEFINE c == [pc EXCEPT ![Main] = "accept"]
  <2>1. /\ pc' \in [AllThreads -> Labels]
        /\ \A p \in AllThreads : pc'[p] = c[p] \/ (p \in Workers /\ c[p] = "wait" /\ pc'[p] = "lock")
        /\ \A p \in AllThreads \ Workers : pc'[p] = c[p]
    <3>1. /\ c \in [AllThreads -> Labels]
          /\ \A p \in Workers : pc[p] = "wait" => c[p] = "wait"
          /\ Workers \in SUBSET AllThreads
          BY DEF TypeOK, AllThreads
    <3>2. pthread_cond_signal(Workers, c)
          BY <1>4 DEF server_request
    <3> HIDE DEF c
    <3>. QED  BY <3>1, <3>2, SignalWakesWaiter, Zenon
  <2>2. connfd[Main] \in Connections /\ m_pRequestPool' \in Seq(Connections)
        BY <1>4 DEF server_request, TypeOK, InHand, AllThreads
  <2>3. /\ pc[Main] = "locked" /\ m_pRequestLock = Main /\ m_pRequestLock' = None
        /\ connfd' = [connfd EXCEPT ![Main] = 0]
        /\ UNCHANGED << accepted, served, spurious >>
        BY <1>4 DEF server_request, MutexOwned, AllThreads
  <2>4. TypeOK'
        BY <2>1, <2>2, <2>3 DEF TypeOK, AllThreads
  <2>5. MutexOwned' /\ InHand'
        BY <2>1, <2>3 DEF TypeOK, MutexOwned, InHand, AllThreads
  <2>. QED  BY <2>4, <2>5
<1>5. ASSUME NEW w \in Workers, request_stub_wait(w) PROVE LockInv'
      BY <1>5 DEF request_stub_wait, pthread_cond_wait, TypeOK, MutexOwned,
                  InHand, AllThreads
<1>6. ASSUME NEW w \in Workers, request_stub(w) PROVE LockInv'
  <2> DEFINE c == [pc EXCEPT ![w] = "serve"]
  <2>1. /\ pc' \in [AllThreads -> Labels]
        /\ \A p \in AllThreads : pc'[p] = c[p] \/ (p \in {Main} /\ c[p] = "wait" /\ pc'[p] = "lock")
        /\ \A p \in AllThreads \ {Main} : pc'[p] = c[p]
    <3>1. /\ c \in [AllThreads -> Labels]
          /\ \A p \in {Main} : pc[p] = "wait" => c[p] = "wait"
          /\ {Main} \in SUBSET AllThreads
          BY DEF TypeOK, AllThreads
    <3>2. pthread_cond_signal({Main}, c)
          BY <1>6 DEF request_stub
    <3> HIDE DEF c
    <3>3. TypeOK
          OBVIOUS
    <3>. QED  BY ONLY <3>1, <3>2, <3>3, SignalWakesWaiter
  <2>2. Head(m_pRequestPool) \in Connections /\ m_pRequestPool' \in Seq(Connections)
        BY <1>6 DEF request_stub, TypeOK
  <2>3. /\ pc[w] = "locked" /\ m_pRequestLock = w /\ m_pRequestLock' = None
        /\ connfd' = [connfd EXCEPT ![w] = Head(m_pRequestPool)]
        /\ UNCHANGED << accepted, served, spurious >>
        BY <1>6 DEF request_stub, MutexOwned, AllThreads
  <2>4. TypeOK'
        BY <2>1, <2>2, <2>3 DEF TypeOK, AllThreads
  <2>5. MutexOwned' /\ InHand'
        BY <2>1, <2>2, <2>3 DEF TypeOK, MutexOwned, InHand, AllThreads
  <2>. QED  BY <2>4, <2>5
<1>7. ASSUME NEW w \in Workers, do_server_request(w) PROVE LockInv'
      BY <1>7 DEF do_server_request, TypeOK, MutexOwned, InHand, AllThreads
<1>8. ASSUME NEW p \in AllThreads, pthread_mutex_lock(p) PROVE LockInv'
      BY <1>8 DEF pthread_mutex_lock, TypeOK, MutexOwned, InHand, AllThreads
<1>9. ASSUME NEW p \in AllThreads, spurious_wakeup(p) PROVE LockInv'
      BY <1>9 DEF spurious_wakeup, TypeOK, MutexOwned, InHand, AllThreads
<1>10. CASE UNCHANGED vars
      BY <1>10 DEF vars, TypeOK, MutexOwned, InHand
<1>. QED
  BY <1>1, <1>3, <1>4, <1>5, <1>6, <1>7, <1>8, <1>9, <1>10
  DEF Next, MainStep, WorkerStep

(* The variables keep their types and the mutex has the owner the threads   *)
(* think it has, whatever the schedule and the spurious wakeups.            *)
THEOREM TypeCorrect == Spec => []TypeOK
<1>1. Spec => []LockInv
      BY InitLockInv, NextLockInv, PTL DEF Spec
<1>2. LockInv => TypeOK
      BY DEF LockInv
<1>. QED  BY <1>1, <1>2, PTL

(* At most one thread is inside the mutex.                                  *)
THEOREM MutexIsOwned == Spec => []MutexOwned
<1>1. Spec => []LockInv
      BY InitLockInv, NextLockInv, PTL DEF Spec
<1>2. LockInv => MutexOwned
      BY DEF LockInv
<1>. QED  BY <1>1, <1>2, PTL

-----------------------------------------------------------------------------
(* The three facts about the pool and the sleepers.  RequestsAnnounced is   *)
(* stronger than what it is for (no connection rests while all sleep): only *)
(* the count of workers on their way survives every step.                   *)
PoolInv == PoolBounded /\ SlotsAnnounced /\ RequestsAnnounced

(* server_init leaves an empty pool and nobody waiting.                     *)
LEMMA InitPoolInv == Init => PoolInv
<1> SUFFICES ASSUME Init PROVE PoolInv
    OBVIOUS
<1>1. PoolBounded
      BY PoolAssumption DEF Init, PoolBounded
<1>2. \A p \in AllThreads : pc[p] # "wait"
      BY DEF Init
<1>3. SlotsAnnounced
      BY <1>2 DEF SlotsAnnounced, AllThreads
<1>4. RequestsAnnounced
      BY <1>2 DEF RequestsAnnounced, Waiting, AllThreads
<1>. QED  BY <1>1, <1>3, <1>4 DEF PoolInv

(* The workers on their way are finitely many, and so are any others.       *)
LEMMA OnTheWayFinite ==
  ASSUME NEW S \in SUBSET Workers
  PROVE  IsFiniteSet(S) /\ Cardinality(S) \in Nat
BY PoolAssumption, FS_Subset, FS_CardinalityType

(* Putting a connection into the pool: the signal sends a waiting worker on *)
(* its way, unless none waits.                                              *)
LEMMA RequestAnnounces ==
  ASSUME LockInv, PoolInv, server_request
  PROVE  PoolInv'
<1> USE PoolAssumption
<1> DEFINE c == [pc EXCEPT ![Main] = "accept"]
<1>1. /\ pc[Main] = "locked" /\ pc[Main] # "wait"
      /\ Len(m_pRequestPool) # max_requests
      /\ Len(m_pRequestPool') = Len(m_pRequestPool) + 1
      /\ Len(m_pRequestPool) \in Nat
      BY DEF server_request, LockInv, TypeOK
<1>2. \/ Waiting(Workers) = {} /\ pc' = c
      \/ \E w \in Waiting(Workers) : pc' = [c EXCEPT ![w] = "lock"]
      BY DEF server_request, pthread_cond_signal
<1>3. PoolBounded'
      BY <1>1 DEF PoolInv, PoolBounded
<1>4. pc'[Main] = "accept"
      BY <1>2 DEF Waiting, LockInv, TypeOK, AllThreads
<1>5. SlotsAnnounced'
      BY <1>4 DEF SlotsAnnounced
<1>6. RequestsAnnounced'
  <2>1. CASE Waiting(Workers) = {}
    <3>1. Waiting(Workers)' = {}
          BY <1>2, <2>1 DEF Waiting, LockInv, TypeOK, AllThreads
    <3>. QED  BY <3>1 DEF RequestsAnnounced
  <2>2. ASSUME NEW w \in Waiting(Workers), pc' = [c EXCEPT ![w] = "lock"]
        PROVE  RequestsAnnounced'
    <3>1. w \in Workers /\ w \notin OnTheWay /\ OnTheWay' = OnTheWay \cup {w}
          BY <2>2 DEF Waiting, OnTheWay, LockInv, TypeOK, AllThreads
    <3>2. Cardinality(OnTheWay') = Cardinality(OnTheWay) + 1
          BY <3>1, OnTheWayFinite, FS_AddElement DEF OnTheWay
    <3>3. Len(m_pRequestPool) <= Cardinality(OnTheWay)
          BY <2>2 DEF PoolInv, RequestsAnnounced
    <3>4. Cardinality(OnTheWay) \in Nat
          BY OnTheWayFinite DEF OnTheWay
    <3>. QED  BY <1>1, <3>2, <3>3, <3>4 DEF RequestsAnnounced
  <2>. QED  BY <1>2, <2>1, <2>2
<1>. QED  BY <1>3, <1>5, <1>6 DEF PoolInv

(* Taking one: the worker leaves the way together with its connection, and  *)
(* the signal finds the main thread if that waits for the slot.             *)
LEMMA TakeAnnounces ==
  ASSUME LockInv, PoolInv, NEW w \in Workers, request_stub(w)
  PROVE  PoolInv'
<1> USE PoolAssumption
<1> DEFINE c == [pc EXCEPT ![w] = "serve"]
<1>1. /\ pc[w] = "locked"
      /\ Len(m_pRequestPool') = Len(m_pRequestPool) - 1
      /\ Len(m_pRequestPool) \in Nat
      BY DEF request_stub, LockInv, TypeOK
<1>2. \/ Waiting({Main}) = {} /\ pc' = c
      \/ \E p \in Waiting({Main}) : pc' = [c EXCEPT ![p] = "lock"]
      BY DEF request_stub, pthread_cond_signal
<1>3. /\ pc'[Main] # "wait"
      /\ \A v \in Workers : pc'[v] = IF v = w THEN "serve" ELSE pc[v]
      BY <1>2 DEF Waiting, LockInv, TypeOK, AllThreads
<1>4. PoolBounded' /\ SlotsAnnounced'
      BY <1>1, <1>3 DEF PoolInv, PoolBounded, SlotsAnnounced
<1>5. RequestsAnnounced'
  <2> SUFFICES ASSUME Waiting(Workers)' # {}
               PROVE  Len(m_pRequestPool') <= Cardinality(OnTheWay')
      BY DEF RequestsAnnounced
  <2>1. Waiting(Workers) # {}
        BY <1>3 DEF Waiting
  <2>2. w \in OnTheWay /\ OnTheWay' = OnTheWay \ {w}
        BY <1>1, <1>3 DEF OnTheWay
  <2>3. Cardinality(OnTheWay') = Cardinality(OnTheWay) - 1
    <3>1. IsFiniteSet(OnTheWay)
          BY OnTheWayFinite DEF OnTheWay
    <3>. QED  BY ONLY <2>2, <3>1, FS_RemoveElement
  <2>4. Len(m_pRequestPool) <= Cardinality(OnTheWay) /\ Cardinality(OnTheWay) \in Nat
        BY <2>1, OnTheWayFinite DEF PoolInv, RequestsAnnounced, OnTheWay
  <2>. QED  BY <1>1, <2>3, <2>4
<1>. QED  BY <1>4, <1>5 DEF PoolInv

(* A thread that comes back to the mutex by itself only joins the way.      *)
LEMMA ComingBackKeepsPool ==
  ASSUME LockInv, PoolInv, NEW p \in AllThreads,
         pc[p] \in {"serve", "wait"}, pc' = [pc EXCEPT ![p] = "lock"],
         UNCHANGED m_pRequestPool
  PROVE  PoolInv'
<1> USE PoolAssumption
<1>1. PoolBounded' /\ SlotsAnnounced'
      BY DEF PoolInv, PoolBounded, SlotsAnnounced, LockInv, TypeOK, AllThreads
<1>2. OnTheWay \subseteq OnTheWay' /\ OnTheWay' \subseteq Workers
      BY DEF OnTheWay, LockInv, TypeOK, AllThreads
<1>3. Cardinality(OnTheWay) <= Cardinality(OnTheWay')
      BY <1>2, OnTheWayFinite, FS_Subset
<1>4. Waiting(Workers)' \subseteq Waiting(Workers)
      BY DEF Waiting, LockInv, TypeOK, AllThreads
<1>5. RequestsAnnounced'
  <2>1. Cardinality(OnTheWay) \in Nat /\ Cardinality(OnTheWay') \in Nat
        BY <1>2, OnTheWayFinite DEF OnTheWay
  <2>2. Len(m_pRequestPool) \in Nat
        BY DEF LockInv, TypeOK
  <2>. QED  BY <1>3, <1>4, <2>1, <2>2 DEF PoolInv, RequestsAnnounced
<1>. QED  BY <1>1, <1>5 DEF PoolInv

(* A step of the main thread or of a worker keeps the bound and overlooks   *)
(* nobody who waits.                                                        *)
LEMMA NextPoolInv == LockInv /\ PoolInv /\ [Next]_vars => PoolInv'
<1> SUFFICES ASSUME LockInv, PoolInv, [Next]_vars PROVE PoolInv'
    OBVIOUS
<1> USE PoolAssumption
<1> DEFINE Untouched == /\ OnTheWay' = OnTheWay
                        /\ Waiting(Workers)' = Waiting(Workers)
                        /\ m_pRequestPool' = m_pRequestPool
                        /\ pc'[Main] = "wait" =>
                              pc[Main] = "wait" \/ Len(m_pRequestPool) = max_requests
<1>0. ASSUME Untouched PROVE PoolInv'
      BY <1>0 DEF PoolInv, PoolBounded, SlotsAnnounced, RequestsAnnounced
<1>1. CASE accept \/ server_request_wait
  <2>1. Untouched
        BY <1>1 DEF accept, server_request_wait, pthread_cond_wait,
                    Waiting, OnTheWay, LockInv, TypeOK, AllThreads
  <2>. QED  BY <1>0, <2>1
<1>2. CASE server_request
      BY <1>2, RequestAnnounces
<1>3. ASSUME NEW w \in Workers, request_stub_wait(w) PROVE PoolInv'
  <2>1. m_pRequestPool' = << >> /\ m_pRequestPool = << >>
        BY <1>3 DEF request_stub_wait, pthread_cond_wait
  <2>2. pc'[Main] = pc[Main] /\ OnTheWay' \subseteq Workers
        BY <1>3 DEF request_stub_wait, pthread_cond_wait, OnTheWay, LockInv, TypeOK, AllThreads
  <2>3. Cardinality(OnTheWay') \in Nat
        BY <2>2, OnTheWayFinite
  <2>. QED  BY <2>1, <2>2, <2>3 DEF PoolInv, PoolBounded, SlotsAnnounced, RequestsAnnounced
<1>4. ASSUME NEW w \in Workers, request_stub(w) PROVE PoolInv'
      BY <1>4, TakeAnnounces
<1>5. ASSUME NEW w \in Workers, do_server_request(w) PROVE PoolInv'
  <2>1. /\ w \in AllThreads /\ pc[w] \in {"serve", "wait"}
        /\ pc' = [pc EXCEPT ![w] = "lock"] /\ UNCHANGED m_pRequestPool
        BY <1>5 DEF do_server_request, AllThreads
  <2>. QED  BY <2>1, ComingBackKeepsPool
<1>6. ASSUME NEW p \in AllThreads, spurious_wakeup(p) PROVE PoolInv'
  <2>1. /\ pc[p] \in {"serve", "wait"}
        /\ pc' = [pc EXCEPT ![p] = "lock"] /\ UNCHANGED m_pRequestPool
        BY <1>6 DEF spurious_wakeup
  <2>. QED  BY <2>1, ComingBackKeepsPool
<1>7. ASSUME NEW p \in AllThreads, pthread_mutex_lock(p) PROVE PoolInv'
  <2>1. Untouched
        BY <1>7 DEF pthread_mutex_lock, Waiting, OnTheWay, LockInv, TypeOK, AllThreads
  <2>. QED  BY <1>0, <2>1
<1>8. CASE UNCHANGED vars
  <2>1. Untouched
        BY <1>8 DEF vars, Waiting, OnTheWay
  <2>. QED  BY <1>0, <2>1
<1>. QED
  BY <1>1, <1>2, <1>3, <1>4, <1>5, <1>6, <1>7, <1>8 DEF Next, MainStep, WorkerStep

(* The invariants of the mutex and of the pool hold together.               *)
LEMMA PoolInvariant == Spec => [](LockInv /\ PoolInv)
BY InitLockInv, NextLockInv, InitPoolInv, NextPoolInv, PTL DEF Spec

(* The pool never exceeds max_requests.                                     *)
THEOREM PoolIsBounded == Spec => []PoolBounded
<1>1. PoolInv => PoolBounded
      BY DEF PoolInv
<1>. QED  BY <1>1, PoolInvariant, PTL

(* No wakeup of a worker is lost: while a worker waits, there are at least  *)
(* as many workers on their way to the pool as connections in it.           *)
THEOREM NoRequestOverlooked == Spec => []RequestsAnnounced
<1>1. PoolInv => RequestsAnnounced
      BY DEF PoolInv
<1>. QED  BY <1>1, PoolInvariant, PTL

(* No wakeup of the main thread is lost: it waits only for a full pool.     *)
THEOREM NoSlotOverlooked == Spec => []SlotsAnnounced
<1>1. PoolInv => SlotsAnnounced
      BY DEF PoolInv
<1>. QED  BY <1>1, PoolInvariant, PTL

-----------------------------------------------------------------------------
(* EachConnectionOnce, element by element, and with what makes it           *)
(* inductive: nothing is numbered above `accepted', so the connection the   *)
(* main thread has in hand is younger than all others.                      *)
InHandOnce ==
  \A p, q \in AllThreads : connfd[p] # 0 /\ connfd[p] = connfd[q] => p = q

PoolOnce ==
  \A i \in 1 .. Len(m_pRequestPool) :
    /\ m_pRequestPool[i] \in 1 .. accepted
    /\ m_pRequestPool[i] \notin served
    /\ \A p \in AllThreads : m_pRequestPool[i] # connfd[p]

PoolOrdered ==
  \A i, j \in 1 .. Len(m_pRequestPool) : i < j => m_pRequestPool[i] < m_pRequestPool[j]

HandOnce ==
  \A p \in AllThreads : connfd[p] # 0 => connfd[p] \in 1 .. accepted /\ connfd[p] \notin served

NoneForgotten ==
  /\ served \subseteq 1 .. accepted
  /\ \A n \in 1 .. accepted :
       \/ n \in served
       \/ \E p \in AllThreads : connfd[p] = n
       \/ \E i \in 1 .. Len(m_pRequestPool) : m_pRequestPool[i] = n

OnceInv == InHandOnce /\ PoolOnce /\ PoolOrdered /\ HandOnce /\ NoneForgotten

(* At the start there is no connection.                                     *)
LEMMA InitOnceInv == Init => OnceInv
BY PoolAssumption
   DEF Init, OnceInv, InHandOnce, PoolOnce, PoolOrdered, HandOnce, NoneForgotten, AllThreads

(* Accepting a connection: its number is new.                               *)
LEMMA AcceptOnce == ASSUME LockInv, OnceInv, accept PROVE OnceInv'
<1> USE PoolAssumption
<1>1. /\ accepted \in Nat /\ accepted' = accepted + 1
      /\ \A p \in AllThreads : connfd'[p] = IF p = Main THEN accepted + 1 ELSE connfd[p]
      /\ UNCHANGED << m_pRequestPool, served >>
      BY DEF accept, LockInv, TypeOK, AllThreads
<1>2. connfd[Main] = 0
      BY DEF accept, LockInv, InHand
<1>3. InHandOnce' /\ HandOnce' /\ PoolOnce' /\ PoolOrdered'
  <2>1. InHandOnce'
        BY <1>1 DEF OnceInv, InHandOnce, HandOnce
  <2>2. HandOnce'
        BY <1>1 DEF OnceInv, HandOnce, NoneForgotten
  <2>3. PoolOnce'
        BY <1>1 DEF OnceInv, PoolOnce
  <2>4. PoolOrdered'
        BY <1>1 DEF OnceInv, PoolOrdered
  <2>. QED  BY <2>1, <2>2, <2>3, <2>4
<1>4. NoneForgotten'
      BY <1>1, <1>2 DEF OnceInv, NoneForgotten, AllThreads
<1>. QED  BY <1>3, <1>4 DEF OnceInv

(* The main thread's connection goes to the end of the pool.                *)
LEMMA PushOnce == ASSUME LockInv, OnceInv, server_request PROVE OnceInv'
<1> USE PoolAssumption
<1> DEFINE n == connfd[Main]
           len == Len(m_pRequestPool)
<1>1. /\ n = accepted /\ n \in Nat \ {0} /\ len \in Nat
      /\ \A p \in AllThreads : connfd'[p] = IF p = Main THEN 0 ELSE connfd[p]
      /\ UNCHANGED << accepted, served >>
      BY DEF server_request, LockInv, TypeOK, InHand, AllThreads
<1>2. /\ Len(m_pRequestPool') = len + 1
      /\ \A i \in 1 .. len : m_pRequestPool'[i] = m_pRequestPool[i]
      /\ m_pRequestPool'[len + 1] = n
      BY DEF server_request, LockInv, TypeOK
<1>3. Main \in AllThreads
      BY DEF AllThreads
<1>4. \A i \in 1 .. len : m_pRequestPool[i] \in Nat /\ m_pRequestPool[i] < n
      BY <1>1, <1>3 DEF OnceInv, PoolOnce
<1>5. n \notin served
      BY <1>1, <1>3 DEF OnceInv, HandOnce
<1>6. \A p \in AllThreads : connfd'[p] # n
      BY <1>1, <1>3 DEF OnceInv, InHandOnce
<1>7. InHandOnce' /\ HandOnce'
      BY <1>1 DEF OnceInv, InHandOnce, HandOnce
<1>8. PoolOnce'
  <2> SUFFICES ASSUME NEW i \in 1 .. len + 1
               PROVE  /\ m_pRequestPool'[i] \in 1 .. accepted
                      /\ m_pRequestPool'[i] \notin served
                      /\ \A p \in AllThreads : m_pRequestPool'[i] # connfd'[p]
      BY <1>1, <1>2 DEF PoolOnce
  <2>1. CASE i = len + 1
        BY <1>1, <1>2, <1>5, <1>6, <2>1
  <2>2. CASE i \in 1 .. len
        BY <1>1, <1>2, <1>4, <2>2 DEF OnceInv, PoolOnce
  <2>. QED  BY <1>1, <2>1, <2>2
<1>9. PoolOrdered'
      BY <1>1, <1>2, <1>4 DEF OnceInv, PoolOrdered
<1>10. NoneForgotten'
      BY <1>1, <1>2 DEF OnceInv, NoneForgotten
<1>. QED  BY <1>7, <1>8, <1>9, <1>10 DEF OnceInv

(* A worker gets the oldest connection of the pool.                         *)
LEMMA TakeOnce ==
  ASSUME LockInv, OnceInv, NEW w \in Workers, request_stub(w) PROVE OnceInv'
<1> USE PoolAssumption
<1> DEFINE n == m_pRequestPool[1]
           len == Len(m_pRequestPool)
<1>1. /\ len \in Nat /\ len >= 1
      /\ n \in 1 .. accepted /\ n \notin served
      /\ \A p \in AllThreads : connfd[p] # n
      BY DEF request_stub, LockInv, TypeOK, OnceInv, PoolOnce
<1>2. /\ w \in AllThreads /\ connfd[w] = 0
      /\ \A p \in AllThreads : connfd'[p] = IF p = w THEN n ELSE connfd[p]
      /\ UNCHANGED << accepted, served >>
      BY DEF request_stub, LockInv, TypeOK, InHand, AllThreads
<1>3. /\ Len(m_pRequestPool') = len - 1
      /\ \A i \in 1 .. len - 1 : m_pRequestPool'[i] = m_pRequestPool[i + 1]
      BY <1>1 DEF request_stub, LockInv, TypeOK
<1>4. InHandOnce' /\ HandOnce'
      BY <1>1, <1>2 DEF OnceInv, InHandOnce, HandOnce
<1>5. \A i \in 2 .. len : n # m_pRequestPool[i]
      BY <1>1 DEF OnceInv, PoolOnce, PoolOrdered
<1>6. PoolOnce' /\ PoolOrdered'
  <2>1. ASSUME NEW i \in 1 .. len - 1
        PROVE  /\ m_pRequestPool'[i] \in 1 .. accepted
               /\ m_pRequestPool'[i] \notin served
               /\ \A p \in AllThreads : connfd'[p] # m_pRequestPool'[i]
    <3>1. i + 1 \in 2 .. len /\ m_pRequestPool'[i] = m_pRequestPool[i + 1]
          BY <1>1, <1>3
    <3>2. /\ m_pRequestPool[i + 1] \in 1 .. accepted
          /\ m_pRequestPool[i + 1] \notin served
          /\ \A p \in AllThreads : connfd[p] # m_pRequestPool[i + 1]
          BY <1>1, <3>1 DEF OnceInv, PoolOnce
    <3>3. n # m_pRequestPool[i + 1]
          BY <1>5, <3>1
    <3>. QED  BY <1>2, <3>1, <3>2, <3>3
  <2>2. PoolOnce'
        BY <1>2, <1>3, <2>1 DEF PoolOnce
  <2>3. ASSUME NEW i \in 1 .. len - 1, NEW j \in 1 .. len - 1, i < j
        PROVE  m_pRequestPool'[i] < m_pRequestPool'[j]
    <3>1. i + 1 \in 1 .. len /\ j + 1 \in 1 .. len /\ i + 1 < j + 1
          BY <1>1, <2>3
    <3>2. m_pRequestPool[i + 1] < m_pRequestPool[j + 1]
          BY <3>1 DEF OnceInv, PoolOrdered
    <3>. QED  BY <1>3, <3>2
  <2>4. PoolOrdered'
        BY <1>3, <2>3 DEF PoolOrdered
  <2>. QED  BY <2>2, <2>4
<1>7. NoneForgotten'
  <2> SUFFICES ASSUME NEW m \in 1 .. accepted
               PROVE  \/ m \in served
                      \/ \E p \in AllThreads : connfd'[p] = m
                      \/ \E i \in 1 .. len - 1 : m_pRequestPool'[i] = m
      BY <1>2, <1>3 DEF OnceInv, NoneForgotten
  <2>1. CASE m \in served
        BY <2>1
  <2>2. ASSUME NEW p \in AllThreads, connfd[p] = m
        PROVE  \E q \in AllThreads : connfd'[q] = m
        BY <1>2, <2>2
  <2>3. ASSUME NEW i \in 1 .. len, m_pRequestPool[i] = m
        PROVE  \/ \E p \in AllThreads : connfd'[p] = m
               \/ \E j \in 1 .. len - 1 : m_pRequestPool'[j] = m
    <3>1. CASE i = 1
          BY <1>2, <2>3, <3>1
    <3>2. CASE i # 1
      <4>1. i - 1 \in 1 .. len - 1 /\ m_pRequestPool'[i - 1] = m
            BY <1>1, <1>3, <2>3, <3>2
      <4>. QED  BY <4>1
    <3>. QED  BY <3>1, <3>2
  <2>. QED  BY <2>1, <2>2, <2>3 DEF OnceInv, NoneForgotten
<1>. QED  BY <1>4, <1>6, <1>7 DEF OnceInv

(* Serving a connection: it goes from the worker's hand to the served.      *)
LEMMA ServeOnce ==
  ASSUME LockInv, OnceInv, NEW w \in Workers, do_server_request(w) PROVE OnceInv'
<1> USE PoolAssumption
<1>1. /\ w \in AllThreads /\ connfd[w] # 0
      /\ \A p \in AllThreads : connfd'[p] = IF p = w THEN 0 ELSE connfd[p]
      /\ served' = served \cup {connfd[w]}
      /\ UNCHANGED << accepted, m_pRequestPool >>
      BY DEF do_server_request, LockInv, TypeOK, InHand, AllThreads
<1>2. connfd[w] \in 1 .. accepted
      BY <1>1 DEF OnceInv, HandOnce
<1>3. InHandOnce' /\ HandOnce'
      BY <1>1 DEF OnceInv, InHandOnce, HandOnce
<1>4. PoolOnce' /\ PoolOrdered'
  <2>1. \A i \in 1 .. Len(m_pRequestPool) : m_pRequestPool[i] \in 1 .. accepted
        BY DEF OnceInv, PoolOnce
  <2>2. accepted \in Nat
        BY DEF LockInv, TypeOK
  <2>. QED  BY <1>1, <2>1, <2>2 DEF OnceInv, PoolOnce, PoolOrdered
<1>5. NoneForgotten'
      BY <1>1, <1>2 DEF OnceInv, NoneForgotten
<1>. QED  BY <1>3, <1>4, <1>5 DEF OnceInv

(* A step moves a connection from one place to the next.                    *)
LEMMA NextOnceInv == LockInv /\ OnceInv /\ [Next]_vars => OnceInv'
<1> SUFFICES ASSUME LockInv, OnceInv, [Next]_vars PROVE OnceInv'
    OBVIOUS
<1> DEFINE Untouched == UNCHANGED << m_pRequestPool, connfd, accepted, served >>
<1>0. ASSUME Untouched PROVE OnceInv'
      BY <1>0 DEF OnceInv, InHandOnce, PoolOnce, PoolOrdered, HandOnce, NoneForgotten
<1>1. CASE accept
      BY <1>1, AcceptOnce
<1>3. CASE server_request_wait
      BY <1>0, <1>3 DEF server_request_wait, pthread_cond_wait
<1>4. CASE server_request
      BY <1>4, PushOnce
<1>5. ASSUME NEW w \in Workers, request_stub_wait(w) PROVE OnceInv'
      BY <1>0, <1>5 DEF request_stub_wait, pthread_cond_wait
<1>6. ASSUME NEW w \in Workers, request_stub(w) PROVE OnceInv'
      BY <1>6, TakeOnce
<1>7. ASSUME NEW w \in Workers, do_server_request(w) PROVE OnceInv'
      BY <1>7, ServeOnce
<1>8. ASSUME NEW p \in AllThreads, pthread_mutex_lock(p) \/ spurious_wakeup(p) PROVE OnceInv'
      BY <1>0, <1>8 DEF pthread_mutex_lock, spurious_wakeup
<1>9. CASE UNCHANGED vars
      BY <1>0, <1>9 DEF vars
<1>. QED
  BY <1>1, <1>3, <1>4, <1>5, <1>6, <1>7, <1>8, <1>9 DEF Next, MainStep, WorkerStep

(* The parts together are the property that the runs check.                 *)
LEMMA OnceMeansEachConnectionOnce == LockInv /\ OnceInv => EachConnectionOnce
<1> SUFFICES ASSUME LockInv, OnceInv PROVE EachConnectionOnce
    OBVIOUS
<1> DEFINE pooled == {m_pRequestPool[i] : i \in DOMAIN m_pRequestPool}
           inHand == {p \in AllThreads : connfd[p] # 0}
           held   == {connfd[p] : p \in inHand}
<1>0. DOMAIN m_pRequestPool = 1 .. Len(m_pRequestPool)
      BY DEF LockInv, TypeOK
<1>1. \A p, q \in inHand : connfd[p] = connfd[q] => p = q
      BY DEF OnceInv, InHandOnce
<1>2. pooled \cap held = {} /\ pooled \cap served = {}
      BY <1>0 DEF OnceInv, PoolOnce
<1>3. held \cap served = {}
      BY DEF OnceInv, HandOnce
<1>4. pooled \cup held \cup served \subseteq 1 .. accepted
      BY <1>0 DEF OnceInv, PoolOnce, HandOnce, NoneForgotten
<1>5. 1 .. accepted \subseteq pooled \cup held \cup served
      BY <1>0 DEF OnceInv, NoneForgotten, LockInv, TypeOK
<1>6. \A i, j \in DOMAIN m_pRequestPool : i < j => m_pRequestPool[i] < m_pRequestPool[j]
      BY <1>0 DEF OnceInv, PoolOrdered
<1>. QED  BY <1>1, <1>2, <1>3, <1>4, <1>5, <1>6 DEF EachConnectionOnce

(* No step of the system puts a connection in two places.                   *)
LEMMA OnceInvariant == Spec => [](LockInv /\ OnceInv)
BY InitLockInv, NextLockInv, InitOnceInv, NextOnceInv, PTL DEF Spec

(* Every accepted connection is in exactly one place, and the pool is in    *)
(* the order of arrival: none is lost, none is served twice.                *)
THEOREM ConnectionsAccounted == Spec => []EachConnectionOnce
BY OnceInvariant, OnceMeansEachConnectionOnce, PTL

-----------------------------------------------------------------------------
(* The refinement.  The connection that the main thread still has in hand   *)
(* has not arrived yet for the abstract service.                            *)

(* The steps that only move threads around the mutex stutter.               *)
LEMMA Stutter ==
  ASSUME UNCHANGED << m_pRequestPool, connfd, accepted, served >>
  PROVE  UNCHANGED Service!absVars
BY DEF Service!absVars

(* A connection that the main thread still holds has not arrived.           *)
LEMMA AcceptStutters == ASSUME LockInv, accept PROVE UNCHANGED Service!absVars
<1> USE PoolAssumption
<1>1. Main \in AllThreads /\ accepted \in Nat /\ connfd \in [AllThreads -> Connections \cup {0}]
      BY DEF LockInv, TypeOK, AllThreads
<1>2. connfd[Main] = 0 /\ connfd'[Main] = accepted + 1
      BY <1>1 DEF accept, LockInv, InHand
<1>3. (IF connfd'[Main] = 0 THEN accepted' ELSE accepted' - 1) = accepted
      BY <1>1, <1>2 DEF accept
<1>4. [w \in Workers |-> connfd'[w]] = [w \in Workers |-> connfd[w]]
      BY <1>1 DEF accept, AllThreads
<1>5. UNCHANGED << m_pRequestPool, served >>
      BY DEF accept
<1>. QED  BY <1>2, <1>3, <1>4, <1>5 DEF Service!absVars

(* Putting a connection into the pool is its arrival.                       *)
LEMMA RequestArrives == ASSUME LockInv, PoolBounded, server_request PROVE Service!Arrive
<1> USE PoolAssumption
<1>1. /\ Main \in AllThreads /\ accepted \in 0 .. MaxConnections
      /\ connfd \in [AllThreads -> Connections \cup {0}]
      /\ Len(m_pRequestPool) \in Nat
      BY DEF LockInv, TypeOK, AllThreads
<1>2. connfd[Main] = accepted /\ accepted > 0 /\ connfd'[Main] = 0
      BY <1>1 DEF server_request, LockInv, InHand
<1>3. (IF connfd'[Main] = 0 THEN accepted' ELSE accepted' - 1) = accepted
      BY <1>2 DEF server_request
<1>4. [w \in Workers |-> connfd'[w]] = [w \in Workers |-> connfd[w]]
      BY <1>1 DEF server_request, AllThreads
<1>5. Len(m_pRequestPool) < max_requests
      BY <1>1 DEF server_request, PoolBounded
<1>6. m_pRequestPool' = Append(m_pRequestPool, accepted) /\ served' = served
      BY <1>2 DEF server_request
<1>. QED  BY <1>1, <1>2, <1>3, <1>4, <1>5, <1>6 DEF Service!Arrive

(* A worker that leaves the mutex with a connection took the oldest one.    *)
LEMMA StubTakes ==
  ASSUME LockInv, NEW w \in Workers, request_stub(w) PROVE Service!Take(w)
<1> USE PoolAssumption
<1>1. /\ w \in AllThreads /\ Main \in AllThreads /\ w # Main
      /\ connfd \in [AllThreads -> Connections \cup {0}]
      BY DEF LockInv, TypeOK, AllThreads
<1>2. connfd[w] = 0 /\ connfd'[Main] = connfd[Main] /\ accepted' = accepted
      BY <1>1 DEF request_stub, LockInv, InHand
<1>3. [v \in Workers |-> connfd'[v]] =
        [[v \in Workers |-> connfd[v]] EXCEPT ![w] = Head(m_pRequestPool)]
      BY <1>1 DEF request_stub, AllThreads
<1>4. m_pRequestPool # << >> /\ m_pRequestPool' = Tail(m_pRequestPool) /\ served' = served
      BY DEF request_stub
<1>. QED  BY <1>1, <1>2, <1>3, <1>4 DEF Service!Take

(* do_server_request ends a request of the service.                         *)
LEMMA RequestFinishes ==
  ASSUME LockInv, NEW w \in Workers, do_server_request(w) PROVE Service!Finish(w)
<1> USE PoolAssumption
<1>1. /\ w \in AllThreads /\ Main \in AllThreads /\ w # Main
      /\ connfd \in [AllThreads -> Connections \cup {0}]
      BY DEF LockInv, TypeOK, AllThreads
<1>2. connfd[w] # 0 /\ connfd'[Main] = connfd[Main] /\ accepted' = accepted
      BY <1>1 DEF do_server_request, LockInv, InHand
<1>3. [v \in Workers |-> connfd'[v]] = [[v \in Workers |-> connfd[v]] EXCEPT ![w] = 0]
      BY <1>1 DEF do_server_request, AllThreads
<1>4. m_pRequestPool' = m_pRequestPool /\ served' = served \cup {connfd[w]}
      BY DEF do_server_request
<1>. QED  BY <1>1, <1>2, <1>3, <1>4 DEF Service!Finish

(* The pool, its mutex and its two condition variables do what the abstract *)
(* service does and nothing else.                                           *)
THEOREM PoolImplementsService == Spec => Service!AbsSpec
<1> USE PoolAssumption
<1>1. Init => Service!AbsInit
      BY DEF Init, Service!AbsInit, AllThreads
<1>2. LockInv /\ PoolBounded /\ [Next]_vars => [Service!AbsNext]_(Service!absVars)
  <2> SUFFICES ASSUME LockInv, PoolBounded, [Next]_vars
               PROVE  [Service!AbsNext]_(Service!absVars)
      OBVIOUS
  <2>1. CASE accept
        BY <2>1, AcceptStutters
  <2>3. CASE server_request_wait
        BY <2>3, Stutter DEF server_request_wait, pthread_cond_wait
  <2>4. CASE server_request
        BY <2>4, RequestArrives DEF Service!AbsNext
  <2>5. ASSUME NEW w \in Workers, request_stub_wait(w)
        PROVE  [Service!AbsNext]_(Service!absVars)
        BY <2>5, Stutter DEF request_stub_wait, pthread_cond_wait
  <2>6. ASSUME NEW w \in Workers, request_stub(w)
        PROVE  [Service!AbsNext]_(Service!absVars)
        BY <2>6, StubTakes DEF Service!AbsNext
  <2>7. ASSUME NEW w \in Workers, do_server_request(w)
        PROVE  [Service!AbsNext]_(Service!absVars)
        BY <2>7, RequestFinishes DEF Service!AbsNext
  <2>8. ASSUME NEW p \in AllThreads, pthread_mutex_lock(p) \/ spurious_wakeup(p)
        PROVE  [Service!AbsNext]_(Service!absVars)
        BY <2>8, Stutter DEF pthread_mutex_lock, spurious_wakeup
  <2>9. CASE UNCHANGED vars
        BY <2>9, Stutter DEF vars
  <2>. QED
    BY <2>1, <2>3, <2>4, <2>5, <2>6, <2>7, <2>8, <2>9 DEF Next, MainStep, WorkerStep
<1>3. PoolInv => PoolBounded
      BY DEF PoolInv
<1>. QED  BY <1>1, <1>2, <1>3, PoolInvariant, PTL DEF Spec, Service!AbsSpec

=============================================================================
