-------------------------------- MODULE Sync --------------------------------
(***************************************************************************)
(* The blocking locks and condition variables of src/threads/thread.c,     *)
(* built on thread_sleep and thread_wakeup and run under the preemptive    *)
(* scheduler of Threads.  The wait queue of a lock or of a condition       *)
(* variable is named by the lock or the condition variable itself.         *)
(***************************************************************************)
EXTENDS Threads

CONSTANTS
  Locks,
  Cvs,
  NULL,     \* no holder
  Gone,     \* a holder whose control block is in the exit queue
  Dangling  \* a holder whose control block was given back to malloc

ASSUME SyncAssumption ==
  /\ Locks \cup Cvs = WaitQueues
  /\ Locks \cap Cvs = {}
  /\ CallerLabels = {"acquire", "cv_sleep", "cv_woken"}
  /\ Calls \cap {"sleep", "wakeup_one", "wakeup_all", "queue_destroy"} = {}
  /\ {NULL, Gone, Dangling} \cap Tid = {}
  /\ NULL # Gone /\ NULL # Dangling /\ Gone # Dangling

VARIABLES
  m_eStatus,        \* per lock: "Free" or "Locked"
  m_pLockedThread,  \* per lock: the holder it records
  outer,            \* locals of the lock_acquire or cv_wait a thread is in
  inside,           \* history: the locks whose acquisition returned to a thread
  orphaned          \* history: the locks whose holder died

syncVars == << m_eStatus, m_pLockedThread, outer, inside, orphaned >>
allVars == << vars, syncVars >>

NoCall == [lock |-> NoQueue, cv |-> NoQueue, enabled |-> FALSE]

SyncInit ==
  /\ Init
  /\ m_eStatus = [l \in Locks |-> "Free"]
  /\ m_pLockedThread = [l \in Locks |-> NULL]
  /\ outer = [t \in Tid |-> NoCall]
  /\ inside = [t \in Tid |-> {}]
  /\ orphaned = {}

-----------------------------------------------------------------------------
Held(l) == m_pLockedThread[l] = Current /\ m_eStatus[l] = "Locked"

lock_rest == << destroying, system, wake_rest >>

Acquire_ifNotFor(t, l, c) ==           \* mutant: tests the status only once
  \/ /\ m_eStatus[l] = "Free" \/ pc[t] = "acquire"
     /\ m_eStatus' = [m_eStatus EXCEPT ![l] = "Locked"]
     /\ m_pLockedThread' = [m_pLockedThread EXCEPT ![l] = Current]
     /\ inside' = [inside EXCEPT ![t] = @ \cup {l}]
     /\ interrupts' = c.enabled
     /\ pc' = [pc EXCEPT ![t] = "user"]
     /\ outer' = [outer EXCEPT ![t] = NoCall]
     /\ UNCHANGED << thread_ReadyQueue, m_eThreadStatus, wait_queue, running,
                     frame, ret, orphaned, lock_rest >>
  \/ /\ m_eStatus[l] = "Locked" /\ pc[t] # "acquire"
     /\ Len(thread_ReadyQueue) > 1
     /\ Sleep(t, SleepFrame(l, FALSE, "acquire"))
     /\ outer' = [outer EXCEPT ![t] = c]
     /\ UNCHANGED << m_eStatus, m_pLockedThread, inside, orphaned >>

(* The loop of lock_acquire, first test or later one.  thread_sleep returns *)
(* at once to the only ready thread, so that thread spins here, with the    *)
(* timer blocked.                                                           *)
Acquire(t, l, c) ==
  \/ /\ m_eStatus[l] = "Free"
     /\ m_eStatus' = [m_eStatus EXCEPT ![l] = "Locked"]
     /\ m_pLockedThread' = [m_pLockedThread EXCEPT ![l] = Current]
     /\ inside' = [inside EXCEPT ![t] = @ \cup {l}]
     /\ interrupts' = c.enabled
     /\ pc' = [pc EXCEPT ![t] = "user"]
     /\ outer' = [outer EXCEPT ![t] = NoCall]
     /\ UNCHANGED << thread_ReadyQueue, m_eThreadStatus, wait_queue, running,
                     frame, ret, orphaned, lock_rest >>
  \/ /\ m_eStatus[l] = "Locked"
     /\ Len(thread_ReadyQueue) > 1
     /\ Sleep(t, SleepFrame(l, FALSE, "acquire"))
     /\ outer' = [outer EXCEPT ![t] = c]
     /\ UNCHANGED << m_eStatus, m_pLockedThread, inside, orphaned >>
  \/ /\ m_eStatus[l] = "Locked"
     /\ Len(thread_ReadyQueue) = 1
     /\ pc' = [pc EXCEPT ![t] = "acquire"]
     /\ interrupts' = FALSE
     /\ outer' = [outer EXCEPT ![t] = c]
     /\ UNCHANGED << thread_ReadyQueue, m_eThreadStatus, wait_queue, running,
                     frame, ret, m_eStatus, m_pLockedThread, inside, orphaned,
                     lock_rest >>

(* Nothing stops a thread that asks for a lock it holds: it waits for itself.*)
lock_acquire(t) ==
  /\ MayCall(t, "acquire")
  /\ \E l \in Locks :
       Acquire(t, l, [lock |-> l, cv |-> NoQueue, enabled |-> interrupts])

acquire_again(t) ==
  /\ Executing(t, "acquire")
  /\ Acquire(t, outer[t].lock, outer[t])

Release_wakesOne(t, l) ==              \* mutant: wakes one waiter, not all
  /\ m_eStatus' = [m_eStatus EXCEPT ![l] = "Free"]
  /\ m_pLockedThread' = [m_pLockedThread EXCEPT ![l] = NULL]
  /\ Wake(l, IF wait_queue[l] = << >> THEN 0 ELSE 1)
  /\ inside' = [inside EXCEPT ![t] = @ \ {l}]
  /\ orphaned' = orphaned \ {l}

Release_wakesNone(t, l) ==             \* mutant: wakes nobody
  /\ m_eStatus' = [m_eStatus EXCEPT ![l] = "Free"]
  /\ m_pLockedThread' = [m_pLockedThread EXCEPT ![l] = NULL]
  /\ Wake(l, 0)
  /\ inside' = [inside EXCEPT ![t] = @ \ {l}]
  /\ orphaned' = orphaned \ {l}

(* lock_release frees the lock and wakes all who wait for it; it does not   *)
(* look at the caller.                                                      *)
Release(t, l) ==
  /\ m_eStatus' = [m_eStatus EXCEPT ![l] = "Free"]
  /\ m_pLockedThread' = [m_pLockedThread EXCEPT ![l] = NULL]
  /\ Wake(l, Len(wait_queue[l]))
  /\ inside' = [inside EXCEPT ![t] = @ \ {l}]
  /\ orphaned' = orphaned \ {l}

lock_release(t) ==
  /\ MayCall(t, "release")
  /\ \E l \in inside[t] : Release(t, l)
  /\ UNCHANGED << running, pc, frame, interrupts, ret, outer, wake_rest >>

lock_release_any(t) ==
  /\ MayCall(t, "release_any")
  /\ \E l \in Locks : Release(t, l)
  /\ UNCHANGED << running, pc, frame, interrupts, ret, outer, wake_rest >>

(* What becomes of the record of a holder that dies in this step.           *)
ForgetDead(holder) ==
  LET orphans == {l \in Locks : holder[l] \in Tid \ Live'}
      stale   == IF thread_ExitQueue' = thread_ExitQueue THEN Dangling ELSE Gone
  IN
  /\ m_pLockedThread' = [l \in Locks |-> IF l \in orphans THEN stale ELSE holder[l]]
  /\ orphaned' = {l \in orphaned : holder[l] # NULL} \cup orphans
  /\ outer' = [u \in Tid |-> IF u \in Live' THEN outer[u] ELSE NoCall]
  /\ inside' = [u \in Tid |-> IF u \in Live' THEN inside[u] ELSE {}]

(* wait_queue_destroy with the signal blocked: the loop is one step. *)
FreeSleepers(q) ==
  LET sleepers == ToSet(wait_queue[q]) IN
  /\ \/ /\ sleepers \ {0} # {} /\ "abort" \in InvalidFree
        /\ system' = "crashed"
     \/ /\ sleepers \subseteq {0} \/ "return" \in InvalidFree
        /\ UNCHANGED system
  /\ wait_queue' = [wait_queue EXCEPT ![q] = << >>]
  /\ m_eThreadStatus' = [t \in Tid |-> IF t \in sleepers THEN "none" ELSE m_eThreadStatus[t]]
  /\ pc' = [t \in Tid |-> IF t \in sleepers THEN "none" ELSE pc[t]]
  /\ frame' = [t \in Tid |-> IF t \in sleepers THEN NoFrame ELSE frame[t]]

(* lock_destroy frees the threads that wait for the lock, then the lock.  A *)
(* lock that is created in its memory is like new.                          *)
lock_destroy(t) ==
  /\ MayCall(t, "lock_destroy")
  /\ \E l \in Locks :
       /\ m_eStatus[l] = "Locked"
       /\ m_eStatus' = [m_eStatus EXCEPT ![l] = "Free"]
       /\ FreeSleepers(l)
       /\ ForgetDead([m_pLockedThread EXCEPT ![l] = NULL])
  /\ UNCHANGED << thread_ReadyQueue, running, interrupts, destroying, ret, wake_rest >>

(* cv_destroy does not block the signal: the loop of wait_queue_destroy     *)
(* goes on in the steps of Threads, between those of other threads.         *)
cv_destroy(t) ==
  /\ MayCall(t, "cv_destroy")
  /\ \E c \in Cvs : BeginDestroy(t, c)
  /\ UNCHANGED syncVars

-----------------------------------------------------------------------------
cv_wait_unprotected(t) ==              \* mutant: interrupts stay on
  /\ MayCall(t, "cv_wait")
  /\ \E c \in Cvs, l \in Locks :
       /\ Held(l)
       /\ Release(t, l)
       /\ outer' = [outer EXCEPT ![t] = [lock |-> l, cv |-> c, enabled |-> interrupts]]
  /\ pc' = [pc EXCEPT ![t] = "cv_sleep"]
  /\ UNCHANGED << running, frame, interrupts, ret, wake_rest >>

(* cv_wait: release, sleep, acquire, with interrupts off from end to end;   *)
(* it does nothing when the caller does not hold the lock.                  *)
cv_wait(t) ==
  /\ MayCall(t, "cv_wait")
  /\ \E c \in Cvs, l \in Locks :
       /\ Held(l)
       /\ Release(t, l)
       /\ outer' = [outer EXCEPT ![t] = [lock |-> l, cv |-> c, enabled |-> interrupts]]
  /\ interrupts' = FALSE
  /\ pc' = [pc EXCEPT ![t] = "cv_sleep"]
  /\ UNCHANGED << running, frame, ret, wake_rest >>

(* The thread_sleep of cv_wait; the only ready thread does not sleep. *)
cv_sleep(t) ==
  /\ Executing(t, "cv_sleep")
  /\ \/ /\ Len(thread_ReadyQueue) > 1
        /\ Sleep(t, SleepFrame(outer[t].cv, FALSE, "cv_woken"))
     \/ /\ Len(thread_ReadyQueue) = 1
        /\ pc' = [pc EXCEPT ![t] = "cv_woken"]
        /\ UNCHANGED << thread_ReadyQueue, m_eThreadStatus, wait_queue, running,
                        frame, interrupts, ret, lock_rest >>
  /\ UNCHANGED syncVars

cv_woken(t) ==
  /\ Executing(t, "cv_woken")
  /\ Acquire(t, outer[t].lock, outer[t])

cv_signal(t) ==
  /\ \E c \in Cvs, l \in Locks :
       /\ Held(l)
       /\ \/ MayCall(t, "cv_signal") /\ Wake(c, IF wait_queue[c] = << >> THEN 0 ELSE 1)
          \/ MayCall(t, "cv_broadcast") /\ Wake(c, Len(wait_queue[c]))
  /\ UNCHANGED << running, pc, frame, interrupts, ret, wake_rest, syncVars >>

-----------------------------------------------------------------------------
(* The control block of a new thread may be in memory that was freed: a     *)
(* lock that still records a freed thread then records the new one.  Which  *)
(* of the freed blocks a lock records is not kept.                          *)
HolderRecords ==
  {m_pLockedThread} \cup
  {[l \in Locks |-> IF l \in again THEN t ELSE m_pLockedThread[l]] :
     again \in SUBSET {l \in Locks : m_pLockedThread[l] = Dangling}, t \in Live' \ Live}

(* A step of Threads. *)
ThreadsStep(step) ==
  /\ step
  /\ \E holder \in HolderRecords : ForgetDead(holder)
  /\ UNCHANGED m_eStatus

LockStep(t) ==
  \/ lock_acquire(t) \/ lock_release(t) \/ lock_release_any(t) \/ lock_destroy(t)
  \/ cv_wait(t) \/ cv_signal(t) \/ cv_destroy(t)

LockKernelStep(t) == acquire_again(t) \/ cv_sleep(t) \/ cv_woken(t)

SyncNext ==
  \E t \in Tid :
    \/ ThreadsStep(ProgramStep(t)) \/ ThreadsStep(KernelStep(t))
    \/ ThreadsStep(interrupts_set(t)) \/ ThreadsStep(interrupt_handler(t))
    \/ LockStep(t) \/ LockKernelStep(t)

SyncSpec == SyncInit /\ [][SyncNext]_allVars

(* A thread with the CPU executes; the timer signal is delivered again and  *)
(* again; a thread that is inside a lock leaves it; and the timer leaves    *)
(* the threads the time to go on with wait_queue_destroy.                   *)
SyncFairness ==
  /\ WF_allVars(\E t \in Tid : LockKernelStep(t) \/ ThreadsStep(KernelStep(t)))
  /\ SF_allVars(\E t \in Tid : ThreadsStep(interrupt_handler(t)))
  /\ SF_allVars(\E t \in Tid : ThreadsStep(DestroyStep(t)))
  /\ \A t \in Tid : SF_allVars(lock_release(t))

SyncFairSpec == SyncSpec /\ SyncFairness

-----------------------------------------------------------------------------
(* Properties *)

(* At most one thread is between the return of lock_acquire (or cv_wait)    *)
(* and its release of the lock, and the lock records that thread.           *)
MutualExclusion ==
  \A l \in Locks : \A t \in Tid :
    l \in inside[t] => /\ \A u \in Tid \ {t} : l \notin inside[u]
                       /\ m_eStatus[l] = "Locked"
                       /\ m_pLockedThread[l] = t

(* No lost wakeup: nobody sleeps on a free lock, and a lock is taken only   *)
(* while a thread is inside it, or when a thread died inside it: then its   *)
(* waiters sleep for ever, because lock_release is never called.            *)
NobodyWaitsForAFreeLock ==
  \A l \in Locks :
    /\ wait_queue[l] # << >> => m_eStatus[l] = "Locked"
    /\ m_eStatus[l] = "Locked" =>
         l \in orphaned \/ \E t \in Tid : l \in inside[t]

(* The release and the sleep of cv_wait are one step for every other        *)
(* thread: whoever holds the lock next finds the waiter in the queue.       *)
CvWaitIsAtomic ==
  \A t \in Live :
    /\ pc[t] = "cv_sleep" =>
         /\ running = t
         /\ \A l \in Locks : m_eStatus[l] = "Locked" => l # outer[t].lock
    /\ \A c \in Cvs :
         t \in ToSet(wait_queue[c]) => frame[t].back = "cv_woken" /\ outer[t].cv = c

(* The ready threads that are about to test the lock again. *)
Testing(l) ==
  {t \in ToSet(thread_ReadyQueue) : outer[t].lock = l /\ pc[t] # "cv_sleep"}

WaitsForItself(l) == \E t \in Tid : m_pLockedThread[l] = t /\ outer[t].lock = l

(* Waiters get their chance at the lock: those that sleep on it are woken   *)
(* eventually, unless its holder died or asked for the lock again; and a    *)
(* free lock that somebody is about to test again is taken, by him or by    *)
(* another.                                                                 *)
LockWaitersWake ==
  \A l \in Locks :
    /\ wait_queue[l] # << >> ~>
         wait_queue[l] = << >> \/ l \in orphaned \/ WaitsForItself(l) \/ system # "up"
    /\ m_eStatus[l] = "Free" /\ Testing(l) # {} ~>
         m_eStatus[l] = "Locked" \/ Testing(l) = {} \/ system # "up"

=============================================================================
