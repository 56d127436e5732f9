----------------------------- MODULE MCThreads -----------------------------
(* Instances of Threads for TLC. *)
EXTENDS Threads

(* Everything but the calls of Sync. *)
ThreadCalls ==
  CallNames \ {"acquire", "release", "release_any", "lock_destroy", "cv_destroy",
               "cv_wait", "cv_signal", "cv_broadcast"}

(* One thread destroys a queue that another one wakes. *)
Destroying == {"create", "sleep", "wakeup_one", "queue_destroy"}

=============================================================================
