------------------------------- MODULE MCSync -------------------------------
(* Instances of Sync for TLC. *)
EXTENDS Sync

LockLabels == {"acquire", "cv_sleep", "cv_woken"}

(* Threads are created, lock, wait, signal and exit, and are preempted.     *)
LockCalls == {"create", "exit_self", "acquire", "release", "cv_wait", "cv_signal",
              "cv_broadcast"}

(* The same program, with interrupts switched off around some of its calls, *)
(* and the condition variable destroyed while others wait for it.           *)
LockMasked == LockCalls \cup {"interrupts_off", "cv_destroy"}

(* States without the results of calls: no action depends on them.          *)
WithoutResults ==
  << thread_ReadyQueue, thread_ExitQueue, thread_ReadyQueue_index, m_eThreadStatus,
     wait_queue, running, pc,
     [t \in Tid |-> << frame[t].enabled, frame[t].wq, frame[t].back >>],
     interrupts, masked, badStack, destroying, system, syncVars >>

(* No action prefers a lock. *)
LockSymmetry == Permutations(Locks)

(* The same program, releasing and destroying what it does not hold.        *)
LockMisuse == LockCalls \cup {"release_any", "lock_destroy", "cv_destroy"}

(* Misuse by threads that do not exit and prefer each other.                *)
EndlessMisuse == (LockMisuse \cup {"yield_tid"}) \ {"exit_self"}

=============================================================================
