----------------------------- MODULE RequestPool -----------------------------
(***************************************************************************)
(* The bounded request pool of src/webserver/server_thread.c: the main     *)
(* thread accepts connections (server.c) and puts them into the pool, the  *)
(* worker threads take them out and serve them.  One mutex protects the    *)
(* pool; two condition variables announce requests and free slots.         *)
(*                                                                         *)
(* What a thread does while it holds the mutex is one step; taking the     *)
(* mutex, waiting and being woken are steps of their own.  A thread that   *)
(* pthread_cond_wait has woken must take the mutex again and then tests    *)
(* its condition again, which is where a thread at "lock" continues.       *)
(*                                                                         *)
(* There is at least one worker thread; with none, server_request calls    *)
(* do_server_request at once and uses neither the pool nor the mutex.      *)
(***************************************************************************)
EXTENDS Integers, Sequences, FiniteSets

CONSTANTS
  Workers,         \* the nr_threads worker threads
  Main,            \* the thread that accepts connections
  None,            \* the owner of a free mutex
  max_requests,    \* the size of the pool
  MaxConnections,  \* bound: how many connections the clients open
  MaxSpurious      \* bound: how often pthread_cond_wait returns unsignalled

ASSUME PoolAssumption ==
  /\ IsFiniteSet(Workers) /\ Workers # {}
  /\ Main \notin Workers
  /\ None \notin Workers \cup {Main}
  /\ max_requests \in Nat
  /\ MaxConnections \in Nat
  /\ MaxSpurious \in Nat

AllThreads == Workers \cup {Main}

VARIABLES
  m_pRequestPool,  \* the connections that wait, oldest first
  m_pRequestLock,  \* the thread that owns the mutex, or None
  pc,              \* accept (Main), serve (workers), lock, locked, wait
  connfd,          \* the connection a thread has in hand, or 0
  accepted,        \* how many connections were accepted; numbered from 1
  served,          \* the connections that were served
  spurious         \* how many spurious wakeups there were

vars == << m_pRequestPool, m_pRequestLock, pc, connfd, accepted, served, spurious >>

Init ==
  /\ m_pRequestPool = << >>
  /\ m_pRequestLock = None
  /\ pc = [p \in AllThreads |-> IF p = Main THEN "accept" ELSE "lock"]
  /\ connfd = [p \in AllThreads |-> 0]
  /\ accepted = 0
  /\ served = {}
  /\ spurious = 0

-----------------------------------------------------------------------------
Waiting(S) == {p \in S : pc[p] = "wait"}

pthread_cond_signal_lost(S, c) == pc' = c   \* mutant: nobody is woken

(* The caller goes on at `c'; one thread of S that waits, if there is one,   *)
(* goes back to the mutex.                                                  *)
pthread_cond_signal(S, c) ==
  \/ /\ Waiting(S) = {}
     /\ pc' = c
  \/ \E p \in Waiting(S) : pc' = [c EXCEPT ![p] = "lock"]

pthread_mutex_lock(p) ==
  /\ pc[p] = "lock"
  /\ m_pRequestLock = None
  /\ m_pRequestLock' = p
  /\ pc' = [pc EXCEPT ![p] = "locked"]
  /\ UNCHANGED << m_pRequestPool, connfd, accepted, served, spurious >>

spurious_wakeup(p) ==
  /\ spurious < MaxSpurious
  /\ spurious' = spurious + 1
  /\ pc[p] = "wait"
  /\ pc' = [pc EXCEPT ![p] = "lock"]
  /\ UNCHANGED << m_pRequestPool, m_pRequestLock, connfd, accepted, served >>

(* pthread_cond_wait releases the mutex and waits in one step.              *)
pthread_cond_wait(p) ==
  /\ pc' = [pc EXCEPT ![p] = "wait"]
  /\ m_pRequestLock' = None
  /\ UNCHANGED << m_pRequestPool, connfd, accepted, served, spurious >>

-----------------------------------------------------------------------------
(* The main thread *)

accept ==
  /\ pc[Main] = "accept"
  /\ accepted < MaxConnections
  /\ accepted' = accepted + 1
  /\ connfd' = [connfd EXCEPT ![Main] = accepted + 1]
  /\ pc' = [pc EXCEPT ![Main] = "lock"]
  /\ UNCHANGED << m_pRequestPool, m_pRequestLock, served, spurious >>

server_request_wait ==
  /\ pc[Main] = "locked"
  /\ Len(m_pRequestPool) = max_requests
  /\ pthread_cond_wait(Main)

server_request_if ==        \* mutant: `if' instead of `for' around the wait
  /\ pc[Main] = "locked"
  /\ m_pRequestPool' = Append(m_pRequestPool, connfd[Main])
  /\ connfd' = [connfd EXCEPT ![Main] = 0]
  /\ pthread_cond_signal(Workers, [pc EXCEPT ![Main] = "accept"])
  /\ m_pRequestLock' = None
  /\ UNCHANGED << accepted, served, spurious >>

server_request ==
  /\ pc[Main] = "locked"
  /\ Len(m_pRequestPool) # max_requests
  /\ m_pRequestPool' = Append(m_pRequestPool, connfd[Main])
  /\ connfd' = [connfd EXCEPT ![Main] = 0]
  /\ pthread_cond_signal(Workers, [pc EXCEPT ![Main] = "accept"])
  /\ m_pRequestLock' = None
  /\ UNCHANGED << accepted, served, spurious >>

-----------------------------------------------------------------------------
(* A worker thread *)

request_stub_wait(w) ==
  /\ pc[w] = "locked"
  /\ m_pRequestPool = << >>
  /\ pthread_cond_wait(w)

request_stub_newest(w) ==   \* mutant: takes the connection that came last
  /\ pc[w] = "locked"
  /\ m_pRequestPool # << >>
  /\ connfd' = [connfd EXCEPT ![w] = m_pRequestPool[Len(m_pRequestPool)]]
  /\ m_pRequestPool' = SubSeq(m_pRequestPool, 1, Len(m_pRequestPool) - 1)
  /\ pthread_cond_signal({Main}, [pc EXCEPT ![w] = "serve"])
  /\ m_pRequestLock' = None
  /\ UNCHANGED << accepted, served, spurious >>

request_stub_noPop(w) ==    \* mutant: the connection stays in the pool
  /\ pc[w] = "locked"
  /\ m_pRequestPool # << >>
  /\ connfd' = [connfd EXCEPT ![w] = Head(m_pRequestPool)]
  /\ pthread_cond_signal({Main}, [pc EXCEPT ![w] = "serve"])
  /\ m_pRequestLock' = None
  /\ UNCHANGED << m_pRequestPool, accepted, served, spurious >>

request_stub_unread(w) ==   \* mutant: pops without reading the connection
  /\ pc[w] = "locked"
  /\ m_pRequestPool # << >>
  /\ m_pRequestPool' = Tail(m_pRequestPool)
  /\ pthread_cond_signal({Main}, [pc EXCEPT ![w] = "serve"])
  /\ m_pRequestLock' = None
  /\ UNCHANGED << connfd, accepted, served, spurious >>

request_stub(w) ==
  /\ pc[w] = "locked"
  /\ m_pRequestPool # << >>
  /\ connfd' = [connfd EXCEPT ![w] = Head(m_pRequestPool)]
  /\ m_pRequestPool' = Tail(m_pRequestPool)
  /\ pthread_cond_signal({Main}, [pc EXCEPT ![w] = "serve"])
  /\ m_pRequestLock' = None
  /\ UNCHANGED << accepted, served, spurious >>

(* Outside the mutex; ends in a response or in an error, and always ends.   *)
do_server_request(w) ==
  /\ pc[w] = "serve"
  /\ served' = served \cup {connfd[w]}
  /\ connfd' = [connfd EXCEPT ![w] = 0]
  /\ pc' = [pc EXCEPT ![w] = "lock"]
  /\ UNCHANGED << m_pRequestPool, m_pRequestLock, accepted, spurious >>

-----------------------------------------------------------------------------
MainStep == accept \/ server_request_wait \/ server_request

WorkerStep(w) == request_stub_wait(w) \/ request_stub(w) \/ do_server_request(w)

Next ==
  \/ MainStep
  \/ \E w \in Workers : WorkerStep(w)
  \/ \E p \in AllThreads : pthread_mutex_lock(p) \/ spurious_wakeup(p)

Spec == Init /\ [][Next]_vars

(* A thread that does not wait for the mutex or a signal goes on; a free    *)
(* mutex goes to one of the threads that want it, no matter which.  Nothing *)
(* forces a client to connect.                                              *)
Fairness ==
  /\ WF_vars(server_request_wait \/ server_request)
  /\ \A w \in Workers : WF_vars(WorkerStep(w))
  /\ WF_vars(\E p \in AllThreads : pthread_mutex_lock(p))

FairSpec == Spec /\ Fairness

-----------------------------------------------------------------------------
(* Properties *)

Connections == 1 .. MaxConnections

TypeOK ==
  /\ m_pRequestPool \in Seq(Connections)
  /\ m_pRequestLock \in AllThreads \cup {None}
  /\ pc \in [AllThreads -> {"accept", "serve", "lock", "locked", "wait"}]
  /\ connfd \in [AllThreads -> Connections \cup {0}]
  /\ accepted \in 0 .. MaxConnections
  /\ served \in SUBSET Connections
  /\ spurious \in 0 .. MaxSpurious

(* Only the owner of the mutex is inside, and a thread leaves the mutex     *)
(* behind when it waits or serves.                                          *)
MutexOwned == \A p \in AllThreads : pc[p] = "locked" <=> m_pRequestLock = p

(* The pool never holds more than max_requests connections, although the    *)
(* main thread tests with == and not with >=.                               *)
PoolBounded == Len(m_pRequestPool) <= max_requests

(* No lost wakeup of workers: while one waits, every connection in the pool *)
(* has a worker of its own on the way to it.  (A signal is sent for each    *)
(* connection, so no connection rests in the pool while all workers sleep.) *)
OnTheWay == {w \in Workers : pc[w] \in {"lock", "locked"}}

RequestsAnnounced ==
  Waiting(Workers) # {} => Len(m_pRequestPool) <= Cardinality(OnTheWay)

(* No lost wakeup of the main thread: it waits only while the pool is full. *)
SlotsAnnounced == pc[Main] = "wait" => Len(m_pRequestPool) = max_requests

(* A connection is in one place: with the main thread, in the pool, with    *)
(* one worker, or served; and the pool is in the order of arrival.          *)
EachConnectionOnce ==
  LET inHand == {p \in AllThreads : connfd[p] # 0}
      pooled == {m_pRequestPool[i] : i \in DOMAIN m_pRequestPool}
      held   == {connfd[p] : p \in inHand}
  IN  /\ \A p, q \in inHand : connfd[p] = connfd[q] => p = q
      /\ pooled \cap held = {} /\ pooled \cap served = {} /\ held \cap served = {}
      /\ pooled \cup held \cup served = 1 .. accepted
      /\ \A i, j \in DOMAIN m_pRequestPool :
           i < j => m_pRequestPool[i] < m_pRequestPool[j]

(* Every accepted connection is served.                                     *)
EveryConnectionServed == \A c \in Connections : accepted >= c ~> c \in served

(* The pool implements the service: it is the abstract queue, and the rest  *)
(* of its state is hidden.                                                  *)
Service ==
  INSTANCE RequestService WITH
    Servers  <- Workers,
    Capacity <- max_requests,
    Arrivals <- MaxConnections,
    arrived  <- IF connfd[Main] = 0 THEN accepted ELSE accepted - 1,
    queue    <- m_pRequestPool,
    serving  <- [w \in Workers |-> connfd[w]],
    done     <- served

ImplementsService == Service!AbsFairSpec

=============================================================================
