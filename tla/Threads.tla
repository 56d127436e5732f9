------------------------------ MODULE Threads ------------------------------
(***************************************************************************)
(* The user-level thread package of src/threads/thread.c, driven by the    *)
(* timer signal of src/threads/interrupt.c.                                *)
(*                                                                         *)
(* One CPU executes the thread `running'.  A call of the package runs with *)
(* the timer signal blocked, so it is one step up to the point where it    *)
(* gives the CPU away; only wait_queue_destroy leaves the signal as it is, *)
(* and its loop is a step for each instruction.  The code gives the CPU    *)
(* away with the pair getcontext / setcontext: control comes back to the   *)
(* instruction AFTER getcontext, where the code tests m_eThreadStatus to   *)
(* find out whether it is there for the first or for the second time. That *)
(* instruction is a label of `pc', and the operator that models the code   *)
(* behind it is used both by the call and by the resumption.               *)
(***************************************************************************)
EXTENDS Integers, Sequences, SequencesExt

CONSTANTS
  THREAD_MAX_THREADS,  \* the size of thread_ReadyQueue_index
  WaitQueues,          \* the wait queues the program has created
  NoQueue,             \* the NULL wait queue
  Calls,               \* the calls the program makes
  MaxExits,            \* bound: how many control blocks the exit queue may hold
  Failures,            \* which of the allocations may fail: "malloc", "stack"
  InvalidFree,         \* what free() does with a pointer malloc never returned
  CallerLabels         \* labels of calls that are built on thread_sleep

CallNames ==
  { "create", "yield_self", "yield_any", "yield_tid", "exit_own", "exit_tid",
    "exit_any", "exit_self", "exit_code", "sleep", "sleep_null", "wakeup_one",
    "wakeup_all", "queue_destroy", "interrupts_off", "acquire", "release",
    "release_any", "lock_destroy", "cv_destroy", "cv_wait", "cv_signal",
    "cv_broadcast" }

ASSUME ConstantsAssumption ==
  /\ THREAD_MAX_THREADS \in Nat \ {0}
  /\ NoQueue \notin WaitQueues
  /\ Calls \subseteq CallNames
  /\ MaxExits \in Nat
  /\ Failures \subseteq {"malloc", "stack"}
  /\ InvalidFree \subseteq {"abort", "return"}
  /\ InvalidFree # {}

-----------------------------------------------------------------------------
(* Identifiers and the error codes of thread.h *)

Tid == 0 .. THREAD_MAX_THREADS - 1

THREAD_ANY      == -1
THREAD_SELF     == -2
THREAD_INVALID  == -3
THREAD_NONE     == -4
THREAD_NOMORE   == -5
THREAD_NOMEMORY == -6

TidArgs == THREAD_INVALID .. THREAD_MAX_THREADS   \* what a program may pass

VARIABLES
  thread_ReadyQueue,       \* the ready threads, the running one first
  thread_ExitQueue,        \* how many exited threads still own their memory
  thread_ReadyQueue_index, \* the identifiers in use
  m_eThreadStatus,
  wait_queue,              \* each wait queue, the longest waiting thread first
  running,                 \* the thread whose instructions the CPU executes
  pc,                      \* where each thread is, or continues when resumed
  frame,                   \* the locals of a call that gave the CPU away
  interrupts,              \* is the timer signal unblocked on the CPU?
  masked,                  \* threads whose own code switched interrupts off
  badStack,                \* threads that were given the stack NULL + 8
  destroying,              \* how far a thread is in wait_queue_destroy
  ret,                     \* the call that returned last, and its result
  system                   \* "up", "exited" (exit(0)), "crashed" or "lost"

vars == << thread_ReadyQueue, thread_ExitQueue, thread_ReadyQueue_index,
           m_eThreadStatus, wait_queue, running, pc, frame, interrupts, masked,
           badStack, destroying, ret, system >>

Status == {"none", "New", "Run", "Idle", "Sleep", "Freed"}

(* Labels: a thread is nowhere, at the first instruction of thread_stub, in *)
(* the program, behind a getcontext (named after the call), in the exit     *)
(* sequence of thread_stub, in the loop of wait_queue_destroy, or in a call *)
(* that is built on thread_sleep.                                           *)
Contexts == {"yield_any", "handler", "yield_tid", "sleep"}

Labels == {"none", "stub", "user", "stub_exit", "destroy"} \cup Contexts \cup CallerLabels

NoFrame == [enabled |-> FALSE, tid |-> THREAD_NONE, ran |-> THREAD_NONE,
            wq |-> NoQueue, back |-> "user"]

(* The instruction of wait_queue_destroy that comes next: the test of the   *)
(* loop, Queue_top, thread_free or Queue_pop.  At "stray" it is thread_free,*)
(* but the thread that Queue_top returned has left the queue.               *)
Instructions == {"none", "test", "top", "free", "stray", "pop"}

NoDestroy == [wq |-> NoQueue, at |-> "none"]

-----------------------------------------------------------------------------
(* Queue: a singly linked list with a size, from the top to the end.        *)

Queue_push(q, t) == Append(q, t)

Queue_pop(q) == Tail(q)

Queue_top(q) == Head(q)

Queue_movetop_fromOne(q, pos) ==       \* mutant: counts positions from one
  IF pos <= 0 \/ pos >= Len(q) THEN q
  ELSE << q[pos] >> \o SubSeq(q, 1, pos - 1) \o SubSeq(q, pos + 1, Len(q))

Queue_movetop(q, pos) ==
  IF pos <= 0 \/ pos >= Len(q) THEN q
  ELSE << q[pos + 1] >> \o SubSeq(q, 1, pos) \o SubSeq(q, pos + 2, Len(q))

Current == Queue_top(thread_ReadyQueue)

Position(tid) ==            \* counted from 0, as the loop of thread_yield does
  (CHOOSE i \in DOMAIN thread_ReadyQueue : thread_ReadyQueue[i] = tid) - 1

Live == {t \in Tid : m_eThreadStatus[t] \notin {"none", "Freed"}}

(* Threads whose control block was freed while a queue still points to it. *)
Freed == {t \in Tid : m_eThreadStatus[t] = "Freed"}

Executing(t, label) == system = "up" /\ running = t /\ pc[t] = label

MayCall(t, call) == Executing(t, "user") /\ call \in Calls

ReturnAtOnce(call, val) ==
  /\ ret' = [call |-> call, val |-> val]
  /\ UNCHANGED << running, pc, frame, interrupts >>

ReturnResumed_unblocks(t, val) ==      \* mutant: interrupts_set(1) on return
  /\ ret' = [call |-> pc[t], val |-> val]
  /\ pc' = [pc EXCEPT ![t] = frame[t].back]
  /\ interrupts' = TRUE
  /\ frame' = [frame EXCEPT ![t] = NoFrame]
  /\ UNCHANGED running

(* The call finishes after its thread got the CPU back.  A handler returns  *)
(* through sigreturn, which unblocks the signal again.                      *)
ReturnResumed(t, val) ==
  /\ ret' = [call |-> pc[t], val |-> val]
  /\ pc' = [pc EXCEPT ![t] = frame[t].back]
  /\ interrupts' = (frame[t].enabled \/ pc[t] = "handler")
  /\ frame' = [frame EXCEPT ![t] = NoFrame]
  /\ UNCHANGED running

(* getcontext ... setcontext(next): t stays behind at `label'. Every saved   *)
(* context carries a signal mask that blocks the timer.                     *)
SwitchTo(t, next, label, f) ==
  /\ running' = next
  /\ interrupts' = FALSE
  /\ pc' = [pc EXCEPT ![t] = label]
  /\ frame' = [frame EXCEPT ![t] = [f EXCEPT !.ran = next]]
  /\ UNCHANGED ret

-----------------------------------------------------------------------------
Init ==
  /\ thread_ReadyQueue = << 0 >>
  /\ thread_ExitQueue = 0
  /\ thread_ReadyQueue_index = {0}
  /\ m_eThreadStatus = [t \in Tid |-> IF t = 0 THEN "Run" ELSE "none"]
  /\ wait_queue = [q \in WaitQueues |-> << >>]
  /\ running = 0
  /\ pc = [t \in Tid |-> IF t = 0 THEN "user" ELSE "none"]
  /\ frame = [t \in Tid |-> NoFrame]
  /\ interrupts = TRUE
  /\ masked = {}
  /\ badStack = {}
  /\ destroying = [t \in Tid |-> NoDestroy]
  /\ ret = [call |-> "none", val |-> 0]
  /\ system = "up"

-----------------------------------------------------------------------------
(* thread_create *)

FreeIds_offByOne ==                    \* mutant: <= instead of <
  {i \in 1 .. THREAD_MAX_THREADS : i \notin thread_ReadyQueue_index}

FreeIds == {i \in 1 .. THREAD_MAX_THREADS - 1 : i \notin thread_ReadyQueue_index}

thread_create_nomemory(t) ==
  /\ MayCall(t, "create")
  /\ "malloc" \in Failures
  /\ ReturnAtOnce("create", THREAD_NOMEMORY)
  /\ UNCHANGED << thread_ReadyQueue, thread_ExitQueue, thread_ReadyQueue_index,
                  m_eThreadStatus, wait_queue, masked, badStack, destroying, system >>

thread_create_nomore(t) ==
  /\ MayCall(t, "create")
  /\ FreeIds = {}
  /\ ReturnAtOnce("create", THREAD_NOMORE)
  /\ UNCHANGED << thread_ReadyQueue, thread_ExitQueue, thread_ReadyQueue_index,
                  m_eThreadStatus, wait_queue, masked, badStack, destroying, system >>

(* The stack pointer is aligned before it is compared with NULL, so a       *)
(* failed allocation goes unnoticed.                                        *)
thread_create(t) ==
  /\ MayCall(t, "create")
  /\ \E id \in FreeIds :
       /\ \A other \in FreeIds : id <= other
       /\ thread_ReadyQueue_index' = thread_ReadyQueue_index \cup {id}
       /\ m_eThreadStatus' = [m_eThreadStatus EXCEPT ![id] = "New"]
       /\ thread_ReadyQueue' = Queue_push(thread_ReadyQueue, id)
       /\ pc' = [pc EXCEPT ![id] = "stub"]
       /\ badStack' \in {badStack \ {id}}
                        \cup (IF "stack" \in Failures THEN {badStack \cup {id}} ELSE {})
       /\ ret' = [call |-> "create", val |-> id]
  /\ UNCHANGED << thread_ExitQueue, wait_queue, running, frame, interrupts,
                  masked, destroying, system >>

(* A new thread starts here with the mask of thread_create.                 *)
thread_stub(t) ==
  /\ Executing(t, "stub")
  /\ \/ /\ t \in badStack
        /\ system' = "crashed"
        /\ UNCHANGED << pc, interrupts >>
     \/ /\ t \notin badStack
        /\ interrupts' = TRUE
        /\ pc' = [pc EXCEPT ![t] = "user"]
        /\ UNCHANGED system
  /\ UNCHANGED << thread_ReadyQueue, thread_ExitQueue, thread_ReadyQueue_index,
                  m_eThreadStatus, wait_queue, running, frame, masked, badStack, destroying, ret >>

-----------------------------------------------------------------------------
(* thread_yield *)

thread_yield_rest ==
  << thread_ExitQueue, thread_ReadyQueue_index, wait_queue, masked, badStack, destroying, system >>

FirstTime == m_eThreadStatus[Current] \in {"Run", "New"}

(* THREAD_SELF, an argument below it, an own or an unknown identifier: the  *)
(* caller goes on.                                                          *)
thread_yield_stays(t) ==
  /\ \/ /\ MayCall(t, "yield_self")
        /\ ReturnAtOnce("yield_self", Current)
     \/ /\ MayCall(t, "yield_any")
        /\ Len(thread_ReadyQueue) = 1
        /\ ReturnAtOnce("yield_any", THREAD_NONE)
     \/ /\ MayCall(t, "yield_tid")
        /\ \E tid \in TidArgs \ {THREAD_ANY, THREAD_SELF} :
             \/ /\ tid = Current
                /\ ReturnAtOnce("yield_tid", tid)
             \/ /\ tid \notin ToSet(thread_ReadyQueue)
                /\ ReturnAtOnce("yield_tid", THREAD_INVALID)
  /\ UNCHANGED << thread_ReadyQueue, m_eThreadStatus, thread_yield_rest >>

YieldAny_staysIdle(t, label, f) ==     \* mutant: status not set to Run again
  \/ /\ FirstTime
     /\ m_eThreadStatus' = [m_eThreadStatus EXCEPT ![Current] = "Idle"]
     /\ thread_ReadyQueue' = Queue_push(Queue_pop(thread_ReadyQueue), Current)
     /\ SwitchTo(t, Queue_top(thread_ReadyQueue'), label, f)
     /\ UNCHANGED thread_yield_rest
  \/ /\ ~FirstTime
     /\ ReturnResumed(t, Current)
     /\ UNCHANGED << thread_ReadyQueue, m_eThreadStatus, thread_yield_rest >>

(* Behind the getcontext of thread_yield(THREAD_ANY). *)
YieldAny(t, label, f) ==
  \/ /\ FirstTime
     /\ m_eThreadStatus' = [m_eThreadStatus EXCEPT ![Current] = "Idle"]
     /\ thread_ReadyQueue' = Queue_push(Queue_pop(thread_ReadyQueue), Current)
     /\ SwitchTo(t, Queue_top(thread_ReadyQueue'), label, f)
     /\ UNCHANGED thread_yield_rest
  \/ /\ ~FirstTime
     /\ m_eThreadStatus' = [m_eThreadStatus EXCEPT ![Current] = "Run"]
     /\ ReturnResumed(t, Current)
     /\ UNCHANGED << thread_ReadyQueue, thread_yield_rest >>

thread_yield_any(t) ==
  /\ MayCall(t, "yield_any")
  /\ Len(thread_ReadyQueue) > 1
  /\ YieldAny(t, "yield_any", [NoFrame EXCEPT !.enabled = interrupts])

(* The timer signal, wherever it is not blocked: interrupt_handler calls    *)
(* thread_yield(THREAD_ANY).                                                *)
interrupt_handler(t) ==
  /\ Executing(t, pc[t])
  /\ interrupts
  /\ Len(thread_ReadyQueue) > 1
  /\ YieldAny(t, "handler", [NoFrame EXCEPT !.back = pc[t]])

resume_yield_any(t) ==
  /\ \/ Executing(t, "yield_any")
     \/ Executing(t, "handler")
  /\ YieldAny(t, pc[t], frame[t])

(* Behind the getcontext of thread_yield(tid). *)
YieldTid(t, f) ==
  \/ /\ FirstTime
     /\ f.tid \in ToSet(thread_ReadyQueue)
     /\ m_eThreadStatus' = [m_eThreadStatus EXCEPT ![Current] = "Idle"]
     /\ thread_ReadyQueue' =
          Queue_push(Queue_movetop(Queue_pop(thread_ReadyQueue), Position(f.tid) - 1), Current)
     /\ SwitchTo(t, f.tid, "yield_tid", f)
     /\ UNCHANGED thread_yield_rest
  \/ /\ ~FirstTime
     /\ m_eThreadStatus' = [m_eThreadStatus EXCEPT ![Current] = "Run"]
     /\ ReturnResumed(t, f.tid)
     /\ UNCHANGED << thread_ReadyQueue, thread_yield_rest >>

thread_yield_tid(t) ==
  /\ MayCall(t, "yield_tid")
  /\ \E tid \in ToSet(thread_ReadyQueue) \ {Current} :
       YieldTid(t, [enabled |-> interrupts, tid |-> tid, ran |-> THREAD_NONE,
                    wq |-> NoQueue, back |-> "user"])

resume_yield_tid(t) ==
  /\ Executing(t, "yield_tid")
  /\ YieldTid(t, frame[t])

-----------------------------------------------------------------------------
(* thread_exit *)

(* The caller destroys the thread tid, which it is not itself.              *)
Destroy(tid) ==
  /\ thread_ReadyQueue' = RemoveAt(thread_ReadyQueue, Position(tid) + 1)
  /\ thread_ReadyQueue_index' = thread_ReadyQueue_index \ {tid}
  /\ m_eThreadStatus' = [m_eThreadStatus EXCEPT ![tid] = "none"]
  /\ pc' = [pc EXCEPT ![tid] = "none"]
  /\ frame' = [frame EXCEPT ![tid] = NoFrame]
  /\ masked' = masked \ {tid}
  /\ destroying' = [destroying EXCEPT ![tid] = NoDestroy]

thread_exit_fails(t) ==
  /\ \/ /\ MayCall(t, "exit_code")
        /\ ReturnAtOnce("exit_code", THREAD_INVALID)
     \/ /\ MayCall(t, "exit_tid")
        /\ \E tid \in TidArgs :
             /\ tid >= 0
             /\ tid \notin ToSet(thread_ReadyQueue)
        /\ ReturnAtOnce("exit_tid", THREAD_INVALID)
     \/ /\ MayCall(t, "exit_any")
        /\ Len(thread_ReadyQueue) = 1
        /\ ReturnAtOnce("exit_any", THREAD_NONE)
  /\ UNCHANGED << thread_ReadyQueue, thread_ExitQueue, thread_ReadyQueue_index,
                  m_eThreadStatus, wait_queue, masked, badStack, destroying, system >>

(* The stack of a created thread is freed at the address malloc returned    *)
(* plus 8; thread 0 has no stack.                                           *)
thread_exit_tid(t) ==
  /\ MayCall(t, "exit_tid")
  /\ \E tid \in ToSet(thread_ReadyQueue) \ {Current} :
       /\ Destroy(tid)
       /\ ret' = [call |-> "exit_tid", val |-> tid]
       /\ \/ /\ tid # 0 /\ "abort" \in InvalidFree
             /\ system' = "crashed"
          \/ /\ tid = 0 \/ "return" \in InvalidFree
             /\ UNCHANGED system
  /\ UNCHANGED << thread_ExitQueue, wait_queue, running, interrupts, badStack >>

(* thread_exit with the caller's own identifier: the caller leaves the      *)
(* ready queue and goes on executing.  The package identifies the caller    *)
(* with the top of the ready queue, so from here on every call works on     *)
(* another thread's control block: the model stops.                         *)
thread_exit_own(t) ==
  /\ MayCall(t, "exit_own")
  /\ thread_ExitQueue < MaxExits
  /\ thread_ReadyQueue' = Queue_pop(thread_ReadyQueue)
  /\ thread_ReadyQueue_index' = thread_ReadyQueue_index \ {Current}
  /\ thread_ExitQueue' = thread_ExitQueue + 1
  /\ ReturnAtOnce("exit_own", Current)
  /\ system' = "lost"
  /\ UNCHANGED << m_eThreadStatus, wait_queue, masked, badStack, destroying >>

(* THREAD_ANY destroys the last thread of the ready queue.                  *)
thread_exit_any(t) ==
  /\ MayCall(t, "exit_any")
  /\ Len(thread_ReadyQueue) > 1
  /\ thread_ExitQueue < MaxExits
  /\ Destroy(Last(thread_ReadyQueue))
  /\ thread_ExitQueue' = thread_ExitQueue + 1
  /\ ret' = [call |-> "exit_any", val |-> Last(thread_ReadyQueue)]
  /\ UNCHANGED << wait_queue, running, interrupts, badStack, system >>

(* THREAD_SELF, called by the program or by thread_stub when fn returns.    *)
thread_exit_self(t) ==
  /\ MayCall(t, "exit_self")
  /\ Len(thread_ReadyQueue) > 1
  /\ thread_ExitQueue < MaxExits
  /\ thread_ReadyQueue_index' = thread_ReadyQueue_index \ {Current}
  /\ thread_ExitQueue' = thread_ExitQueue + 1
  /\ thread_ReadyQueue' = Queue_pop(thread_ReadyQueue)
  /\ running' = Queue_top(thread_ReadyQueue')
  /\ interrupts' = FALSE
  /\ m_eThreadStatus' = [m_eThreadStatus EXCEPT ![t] = "none"]
  /\ pc' = [pc EXCEPT ![t] = "none"]
  /\ masked' = masked \ {t}
  /\ UNCHANGED << wait_queue, frame, badStack, destroying, ret, system >>

(* The last ready thread exits.  Thread 0 loops on the size of the READY    *)
(* queue while it pops the EXIT queue, until a NULL pointer or an invalid   *)
(* free stops the process; any other thread frees itself, its stack at an   *)
(* address malloc never returned, and sees THREAD_NONE.                     *)
thread_exit_last(t) ==
  /\ MayCall(t, "exit_self")
  /\ Len(thread_ReadyQueue) = 1
  /\ \/ /\ t = 0 \/ "abort" \in InvalidFree
        /\ system' = "crashed"
        /\ UNCHANGED << pc, ret >>
     \/ /\ t # 0 /\ "return" \in InvalidFree
        /\ ret' = [call |-> "exit_self", val |-> THREAD_NONE]
        /\ pc' = [pc EXCEPT ![t] = "stub_exit"]
        /\ UNCHANGED system
  /\ UNCHANGED << thread_ReadyQueue, thread_ExitQueue, thread_ReadyQueue_index,
                  m_eThreadStatus, wait_queue, running, frame, interrupts,
                  masked, badStack, destroying >>

thread_stub_exit(t) ==
  /\ Executing(t, "stub_exit")
  /\ system' = "exited"
  /\ UNCHANGED << thread_ReadyQueue, thread_ExitQueue, thread_ReadyQueue_index,
                  m_eThreadStatus, wait_queue, running, pc, frame, interrupts,
                  masked, badStack, destroying, ret >>

-----------------------------------------------------------------------------
(* thread_sleep and thread_wakeup *)

thread_sleep_rest ==
  << thread_ExitQueue, thread_ReadyQueue_index, masked, badStack, destroying, system >>

(* Behind the getcontext of thread_sleep. *)
Sleep(t, f) ==
  \/ /\ FirstTime
     /\ thread_ReadyQueue' = Queue_pop(thread_ReadyQueue)
     /\ m_eThreadStatus' = [m_eThreadStatus EXCEPT ![Current] = "Sleep"]
     /\ wait_queue' = [wait_queue EXCEPT ![f.wq] = Queue_push(@, Current)]
     /\ SwitchTo(t, Queue_top(thread_ReadyQueue'), "sleep", f)
     /\ UNCHANGED thread_sleep_rest
  \/ /\ ~FirstTime
     /\ m_eThreadStatus' = [m_eThreadStatus EXCEPT
                              ![Current] = IF @ = "Idle" THEN "Run" ELSE @]
     /\ ReturnResumed(t, f.tid)
     /\ UNCHANGED << thread_ReadyQueue, wait_queue, thread_sleep_rest >>

SleepFrame_top(q, enabled, back) ==    \* mutant: remembers the caller
  [enabled |-> enabled, tid |-> thread_ReadyQueue[1], ran |-> THREAD_NONE,
   wq |-> q, back |-> back]

(* The caller remembers the second ready thread as the one that will run.   *)
SleepFrame(q, enabled, back) ==
  [enabled |-> enabled, tid |-> thread_ReadyQueue[2], ran |-> THREAD_NONE,
   wq |-> q, back |-> back]

thread_sleep_fails(t) ==
  /\ \/ /\ MayCall(t, "sleep_null")
        /\ ReturnAtOnce("sleep_null", THREAD_INVALID)
     \/ /\ MayCall(t, "sleep")
        /\ Len(thread_ReadyQueue) = 1
        /\ ReturnAtOnce("sleep", THREAD_NONE)
  /\ UNCHANGED << thread_ReadyQueue, m_eThreadStatus, wait_queue, thread_sleep_rest >>

thread_sleep(t) ==
  /\ MayCall(t, "sleep")
  /\ Len(thread_ReadyQueue) > 1
  /\ \E q \in WaitQueues : Sleep(t, SleepFrame(q, interrupts, "user"))

resume_sleep(t) ==
  /\ Executing(t, "sleep")
  /\ Sleep(t, frame[t])

Woken(q, n) == ToSet(SubSeq(wait_queue[q], 1, n))

(* A wakeup does not know that the queue is being destroyed: it may take    *)
(* the thread that Queue_top has just returned, or a block that is already  *)
(* freed.  From then on the package runs on memory that malloc may have     *)
(* given to another thread: the model stops.                                *)
WakeDoomed(q, n) ==
  /\ destroying' =
       [t \in Tid |-> IF n > 0 /\ destroying[t] = [wq |-> q, at |-> "free"]
                      THEN [wq |-> q, at |-> "stray"] ELSE destroying[t]]
  /\ system' = IF Woken(q, n) \cap Freed = {} THEN system ELSE "lost"

Wake_keepsStatus(q, n) ==              \* mutant: status stays Sleep
  /\ thread_ReadyQueue' = thread_ReadyQueue \o SubSeq(wait_queue[q], 1, n)
  /\ wait_queue' = [wait_queue EXCEPT ![q] = SubSeq(@, n + 1, Len(@))]
  /\ WakeDoomed(q, n)
  /\ UNCHANGED m_eThreadStatus

Wake_lastFirst(q, n) ==                \* mutant: wakes from the end
  /\ thread_ReadyQueue' = thread_ReadyQueue \o SubSeq(Reverse(wait_queue[q]), 1, n)
  /\ wait_queue' = [wait_queue EXCEPT ![q] = SubSeq(@, 1, Len(@) - n)]
  /\ WakeDoomed(q, n)
  /\ m_eThreadStatus' =
       [t \in Tid |-> IF t \in ToSet(SubSeq(Reverse(wait_queue[q]), 1, n))
                      THEN "Idle" ELSE m_eThreadStatus[t]]

(* The first n waiting threads move to the end of the ready queue. *)
Wake(q, n) ==
  /\ thread_ReadyQueue' = thread_ReadyQueue \o SubSeq(wait_queue[q], 1, n)
  /\ wait_queue' = [wait_queue EXCEPT ![q] = SubSeq(@, n + 1, Len(@))]
  /\ m_eThreadStatus' =
       [t \in Tid |-> IF t \in Woken(q, n) \ Freed THEN "Idle" ELSE m_eThreadStatus[t]]
  /\ WakeDoomed(q, n)

wake_rest == << thread_ExitQueue, thread_ReadyQueue_index, masked, badStack >>

thread_wakeup(t) ==
  /\ \E q \in WaitQueues :
       \/ /\ MayCall(t, "wakeup_one")
          /\ LET n == IF wait_queue[q] = << >> THEN 0 ELSE 1
             IN  Wake(q, n) /\ ReturnAtOnce("wakeup_one", n)
       \/ /\ MayCall(t, "wakeup_all")
          /\ LET n == Len(wait_queue[q])
             IN  Wake(q, n) /\ ReturnAtOnce("wakeup_all", n)
  /\ UNCHANGED wake_rest

-----------------------------------------------------------------------------
(* wait_queue_destroy                                                       *)

destroy_rest ==
  << thread_ReadyQueue, thread_ExitQueue, thread_ReadyQueue_index, running,
     interrupts, masked, badStack, ret >>

BeginDestroy(t, q) ==
  /\ \A u \in Tid : destroying[u].wq # q
  /\ pc' = [pc EXCEPT ![t] = "destroy"]
  /\ destroying' = [destroying EXCEPT ![t] = [wq |-> q, at |-> "test"]]
  /\ UNCHANGED << m_eThreadStatus, wait_queue, frame, system, destroy_rest >>

(* The call leaves the timer signal as it is, so the loop can be preempted  *)
(* between any two of its instructions, while others sleep on the queue and *)
(* wake it.  A program destroys a queue once; a queue that is created in    *)
(* its memory is like an empty one.                                         *)
wait_queue_destroy(t) ==
  /\ MayCall(t, "queue_destroy")
  /\ \E q \in WaitQueues : BeginDestroy(t, q)

DestroyAt(t, at) == Executing(t, "destroy") /\ destroying[t].at = at

destroy_test(t) ==
  /\ DestroyAt(t, "test")
  /\ \/ /\ wait_queue[destroying[t].wq] # << >>
        /\ destroying' = [destroying EXCEPT ![t].at = "top"]
        /\ UNCHANGED pc
     \/ /\ wait_queue[destroying[t].wq] = << >>
        /\ destroying' = [destroying EXCEPT ![t] = NoDestroy]
        /\ pc' = [pc EXCEPT ![t] = "user"]
  /\ UNCHANGED << m_eThreadStatus, wait_queue, frame, system, destroy_rest >>

(* Queue_top follows the start of the list without a test.                  *)
destroy_top(t) ==
  /\ DestroyAt(t, "top")
  /\ \/ /\ wait_queue[destroying[t].wq] # << >>
        /\ destroying' = [destroying EXCEPT ![t].at = "free"]
        /\ UNCHANGED system
     \/ /\ wait_queue[destroying[t].wq] = << >>
        /\ system' = "crashed"
        /\ UNCHANGED destroying
  /\ UNCHANGED << m_eThreadStatus, wait_queue, pc, frame, destroy_rest >>

(* thread_free: the thread is no more, but stays in the queue and in the    *)
(* index.  The stack of a created thread is freed at an invalid address.    *)
destroy_free(t) ==
  /\ DestroyAt(t, "free")
  /\ LET top == Queue_top(wait_queue[destroying[t].wq]) IN
     /\ top \notin Freed
     /\ \/ /\ top # 0 /\ "abort" \in InvalidFree
           /\ system' = "crashed"
        \/ /\ top = 0 \/ "return" \in InvalidFree
           /\ UNCHANGED system
     /\ m_eThreadStatus' = [m_eThreadStatus EXCEPT ![top] = "Freed"]
     /\ pc' = [pc EXCEPT ![top] = "none"]
     /\ frame' = [frame EXCEPT ![top] = NoFrame]
     /\ destroying' = [destroying EXCEPT ![t].at = "pop"]
  /\ UNCHANGED << wait_queue, destroy_rest >>

(* thread_free of a thread that was woken meanwhile, or of one that another *)
(* call of wait_queue_destroy has freed before its thread was destroyed.    *)
destroy_free_wrong(t) ==
  /\ \/ DestroyAt(t, "stray")
     \/ /\ DestroyAt(t, "free")
        /\ Queue_top(wait_queue[destroying[t].wq]) \in Freed
  /\ system' = "lost"
  /\ UNCHANGED << m_eThreadStatus, wait_queue, pc, frame, destroying, destroy_rest >>

destroy_pop_last(t) ==                 \* mutant: pops the wrong end
  /\ DestroyAt(t, "pop")
  /\ wait_queue' = [wait_queue EXCEPT ![destroying[t].wq] = Front(@)]
  /\ m_eThreadStatus' =
       [m_eThreadStatus EXCEPT ![Queue_top(wait_queue[destroying[t].wq])] = "none"]
  /\ destroying' = [destroying EXCEPT ![t].at = "test"]
  /\ UNCHANGED << pc, frame, system, destroy_rest >>

destroy_pop(t) ==
  /\ DestroyAt(t, "pop")
  /\ wait_queue' = [wait_queue EXCEPT ![destroying[t].wq] = Queue_pop(@)]
  /\ m_eThreadStatus' =
       [m_eThreadStatus EXCEPT ![Queue_top(wait_queue[destroying[t].wq])] = "none"]
  /\ destroying' = [destroying EXCEPT ![t].at = "test"]
  /\ UNCHANGED << pc, frame, system, destroy_rest >>

DestroyStep(t) ==
  \/ destroy_test(t) \/ destroy_top(t) \/ destroy_free(t)
  \/ destroy_free_wrong(t) \/ destroy_pop(t)

-----------------------------------------------------------------------------
(* The program brackets a section with interrupts_off and interrupts_set,   *)
(* as test_wakeup_thread does around thread_sleep.                          *)

interrupts_off(t) ==
  /\ MayCall(t, "interrupts_off")
  /\ t \notin masked
  /\ interrupts' = FALSE
  /\ masked' = masked \cup {t}
  /\ UNCHANGED << thread_ReadyQueue, thread_ExitQueue, thread_ReadyQueue_index,
                  m_eThreadStatus, wait_queue, running, pc, frame, badStack, destroying,
                  ret, system >>

interrupts_set(t) ==
  /\ Executing(t, "user")
  /\ t \in masked
  /\ interrupts' = TRUE
  /\ masked' = masked \ {t}
  /\ UNCHANGED << thread_ReadyQueue, thread_ExitQueue, thread_ReadyQueue_index,
                  m_eThreadStatus, wait_queue, running, pc, frame, badStack, destroying,
                  ret, system >>

-----------------------------------------------------------------------------
(* What the program calls, and what the package does by itself.             *)

ProgramStep(t) ==
  \/ thread_create_nomemory(t) \/ thread_create_nomore(t) \/ thread_create(t)
  \/ thread_yield_stays(t) \/ thread_yield_any(t) \/ thread_yield_tid(t)
  \/ thread_exit_fails(t) \/ thread_exit_tid(t) \/ thread_exit_own(t)
  \/ thread_exit_any(t) \/ thread_exit_self(t) \/ thread_exit_last(t)
  \/ thread_sleep_fails(t) \/ thread_sleep(t) \/ thread_wakeup(t)
  \/ wait_queue_destroy(t) \/ interrupts_off(t)

KernelStep(t) ==
  \/ thread_stub(t) \/ thread_stub_exit(t)
  \/ resume_yield_any(t) \/ resume_yield_tid(t) \/ resume_sleep(t)
  \/ DestroyStep(t)

Next ==
  \E t \in Tid :
    ProgramStep(t) \/ KernelStep(t) \/ interrupts_set(t) \/ interrupt_handler(t)

Spec == Init /\ [][Next]_vars

-----------------------------------------------------------------------------
(* Properties *)

(* Every variable has its type: the sizes of the C arrays bound the queues. *)
TypeOK ==
  /\ thread_ReadyQueue \in Seq(Tid)
  /\ thread_ExitQueue \in 0 .. MaxExits
  /\ thread_ReadyQueue_index \subseteq Tid
  /\ m_eThreadStatus \in [Tid -> Status]
  /\ wait_queue \in [WaitQueues -> Seq(Tid)]
  /\ running \in Tid
  /\ pc \in [Tid -> Labels]
  /\ frame \in [Tid -> [enabled : BOOLEAN, tid : Int, ran : Int,
                        wq : WaitQueues \cup {NoQueue}, back : Labels]]
  /\ interrupts \in BOOLEAN
  /\ masked \subseteq Tid
  /\ badStack \subseteq Tid
  /\ destroying \in [Tid -> [wq : WaitQueues \cup {NoQueue}, at : Instructions]]
  /\ ret \in [call : CallNames \cup Contexts \cup {"none"}, val : Int]
  /\ system \in {"up", "exited", "crashed", "lost"}

Occurrences(t, s) == {i \in DOMAIN s : s[i] = t}

Places(t) ==
  {<< NoQueue, i >> : i \in Occurrences(t, thread_ReadyQueue)} \cup
  UNION {{<< q, i >> : i \in Occurrences(t, wait_queue[q])} : q \in WaitQueues}

(* A live thread is in the ready queue or in one wait queue, once, and in   *)
(* the index (a control block in two queues runs twice, one in no queue     *)
(* never runs again).  Of the blocks that are freed, one can still be in a  *)
(* queue: the top of a wait queue that is being destroyed.  And the "top    *)
(* thread of the ready queue is the thread that is running" (thread.c:56):  *)
(* thread_id, yield, sleep and the locks all rely on it.                    *)
OnePlacePerThread ==
  system = "up" =>
    /\ thread_ReadyQueue # << >> /\ Current = running
    /\ Live \subseteq thread_ReadyQueue_index
    /\ \A t \in Tid : IF t \in Live \cup Freed THEN \E p \in Places(t) : Places(t) = {p}
                                            ELSE Places(t) = {}
    /\ \A t \in Freed : \E q \in WaitQueues :
         wait_queue[q] # << >> /\ Queue_top(wait_queue[q]) = t

(* The status word is what a resumed call tells "first time here" from      *)
(* "resumed" by, so for a thread without the CPU it must agree with the     *)
(* place the thread is in and the label it will continue at.                *)
StatusMatchesPlace ==
  \A t \in Live \ {running} :
    /\ (m_eThreadStatus[t] = "Sleep") <=> (\E q \in WaitQueues : t \in ToSet(wait_queue[q]))
    /\ (m_eThreadStatus[t] = "New") <=> (pc[t] = "stub")
    /\ m_eThreadStatus[t] # "Run"
    /\ pc[t] \in Contexts \cup {"stub"}

(* A call gives the program back the interrupt state it was called with, by *)
(* whatever path and after however many switches; while the package works   *)
(* the signal is blocked, but for wait_queue_destroy, which leaves it.      *)
InterruptsRestored ==
  system = "up" =>
    IF pc[running] \in {"user", "destroy"}
    THEN interrupts = (running \notin masked)
    ELSE pc[running] # "stub_exit" => ~interrupts

(* A yield to an identifier and a sleep return the thread that was given    *)
(* the CPU, also when the caller comes back much later through another      *)
(* thread.                                                                  *)
ReturnsWhoRan ==
  [][\A t \in Tid :
       pc[t] \in {"yield_tid", "sleep"} /\ pc'[t] # pc[t] /\ t \in Live'
         => ret' = [call |-> pc[t], val |-> frame[t].ran]]_vars

(* Threads become ready in the order they went to sleep.                    *)
Before(a, b, s) == \E i, j \in DOMAIN s : i < j /\ s[i] = a /\ s[j] = b

WokenInOrder ==
  [][\A q \in WaitQueues : \A a, b \in Tid :
       /\ Before(a, b, wait_queue[q])
       /\ b \in ToSet(thread_ReadyQueue')
       => Before(a, b, thread_ReadyQueue')]_vars

(* Nobody starves: with the timer running every ready thread gets the CPU,  *)
(* whatever the others call, unless it is destroyed or the process ends.    *)
ReadyThreadRuns ==
  \A t \in Tid :
    t \in ToSet(thread_ReadyQueue) ~>
      running = t \/ t \notin Live \/ system # "up"

-----------------------------------------------------------------------------
(* What thread.h promises and the code does not do: a run that TLC refutes. *)

(* The ready queue is a "Global Ready queue for threads" (thread.c:56), and *)
(* wait_queue_destroy is to "check that the queue is empty" (thread.h:91):  *)
(* no memory that was given back to malloc is ever made ready.              *)
FreedBlocksNeverReady == ToSet(thread_ReadyQueue) \cap Freed = {}

=============================================================================
