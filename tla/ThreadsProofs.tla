---------------------------- MODULE ThreadsProofs ----------------------------
(***************************************************************************)
(* What Threads guarantees for every number of identifiers and of wait     *)
(* queues, whatever the program calls and whenever the timer interrupts it,*)
(* and what Sync adds for every number of locks and condition variables.   *)
(*                                                                         *)
(* The invariant is proved for the steps of the package one by one, so     *)
(* that the second part can cite them for the package under locks.         *)
(***************************************************************************)
EXTENDS Sync, SequenceFacts

Frames == [enabled : BOOLEAN, tid : Int, ran : Int,
           wq : WaitQueues \cup {NoQueue}, back : Labels]

Ready == ToSet(thread_ReadyQueue)
Waiting(q) == ToSet(wait_queue[q])

(* OnePlacePerThread, said of sets and not of places.                       *)
QueuesInv ==
  /\ thread_ReadyQueue # << >> /\ Head(thread_ReadyQueue) = running
  /\ Once(thread_ReadyQueue)
  /\ \A q \in WaitQueues : Once(wait_queue[q]) /\ Ready \cap Waiting(q) = {}
  /\ \A q, r \in WaitQueues : q # r => Waiting(q) \cap Waiting(r) = {}
  /\ \A t \in Tid :
       t \in Live \cup Freed <=> t \in Ready \/ \E q \in WaitQueues : t \in Waiting(q)

(* What a thread finds in the queue that it destroys: the block that it has *)
(* freed is still the top, and no other thread destroys the queue too.      *)
DestroyInv ==
  /\ Ready \cap Freed = {}
  /\ \A q \in WaitQueues : \A t \in Waiting(q) \cap Freed : t = Head(wait_queue[q])
  /\ \A t \in Tid : destroying[t].at # "none" =>
       /\ destroying[t].wq \in WaitQueues
       /\ \A u \in Tid : destroying[u].at # "none" /\ destroying[u].wq = destroying[t].wq
                         => u = t
  /\ \A t \in Tid : destroying[t].at \in {"free", "pop"} => wait_queue[destroying[t].wq] # << >>
  /\ \A t \in Tid : destroying[t].at = "pop" => Head(wait_queue[destroying[t].wq]) \in Freed

(* Who has a control block has an identifier, and a dead thread is nowhere. *)
IndexInv ==
  /\ Live \cup Freed \subseteq thread_ReadyQueue_index
  /\ masked \subseteq thread_ReadyQueue_index
  /\ \A t \in Tid \ Live : pc[t] = "none"
  /\ \A t \in Tid : pc[t] = "stub" => t \notin masked

(* Where a thread goes on when a call is done. *)
AfterCall ==
  {"user", "destroy", "stub_exit"} \cup (CallerLabels \ (Contexts \cup {"none", "stub"}))

(* The running thread finds the status that its label needs: only a thread  *)
(* that returns from a switch may see neither Run nor New.                  *)
RunningInv ==
  \/ pc[running] \in Contexts /\ m_eThreadStatus[running] = "Idle"
  \/ pc[running] = "stub" /\ m_eThreadStatus[running] = "New"
  \/ pc[running] \in AfterCall /\ m_eThreadStatus[running] \in {"Run", "New"}

(* What a call saved before it gave the CPU away: the interrupt state that  *)
(* belongs to the program, and the thread that got the CPU.                 *)
FrameInv ==
  \A t \in Tid : pc[t] \in Contexts =>
    /\ frame[t].back \in AfterCall
    /\ frame[t].back \in {"user", "destroy"} =>
         (frame[t].enabled \/ pc[t] = "handler" <=> t \notin masked)
    /\ frame[t].back \notin {"user", "destroy", "stub_exit"} =>
         ~frame[t].enabled /\ pc[t] # "handler"
    /\ pc[t] \in {"yield_tid", "sleep"} => frame[t].tid = frame[t].ran

UpInv ==
  QueuesInv /\ DestroyInv /\ IndexInv /\ RunningInv /\ FrameInv /\ InterruptsRestored

(* The inductive invariant: in a process that has ended only the types and  *)
(* the status words are worth knowing.                                      *)
ThreadsInv == TypeOK /\ StatusMatchesPlace /\ (system = "up" => UpInv)

-----------------------------------------------------------------------------
(* What the steps need                                                      *)

(* The invariant holds at the start. *)
LEMMA InitThreads == Init => ThreadsInv
<1> SUFFICES ASSUME Init PROVE ThreadsInv
    OBVIOUS
<1>1. THREAD_MAX_THREADS \in Nat \ {0} /\ 0 \in Tid /\ NoQueue \notin WaitQueues
      BY ConstantsAssumption DEF Tid
<1>2. /\ << 0 >> \in Seq(Tid) /\ << 0 >> # << >> /\ Head(<< 0 >>) = 0
      /\ Once(<< 0 >>) /\ ToSet(<< 0 >>) = {0}
      BY <1>1 DEF Once, ToSet
<1>3. << >> \in Seq(Tid) /\ Once(<< >>) /\ ToSet(<< >>) = {}
      BY DEF Once, ToSet
<1>4. TypeOK
      BY <1>1, <1>2, <1>3, ConstantsAssumption
      DEF Init, TypeOK, Status, Labels, NoFrame, NoDestroy, Instructions, CallNames,
          Contexts, THREAD_NONE
<1>5. Live = {0} /\ Freed = {}
      BY <1>1 DEF Init, Live, Freed
<1>6. QueuesInv /\ DestroyInv
      BY <1>1, <1>2, <1>3, <1>5 DEF Init, QueuesInv, DestroyInv, NoDestroy, Ready, Waiting
<1>7. UpInv /\ StatusMatchesPlace
      BY <1>1, <1>5, <1>6
      DEF Init, UpInv, IndexInv, RunningInv, FrameInv, InterruptsRestored,
          StatusMatchesPlace, AfterCall, Contexts
<1>. QED  BY <1>4, <1>7 DEF ThreadsInv

(* Reading of the invariant in a process that is up.                        *)
LEMMA UpFacts ==
  ASSUME ThreadsInv, system = "up"
  PROVE  /\ thread_ReadyQueue \in Seq(Tid) /\ thread_ReadyQueue # << >>
         /\ Once(thread_ReadyQueue) /\ Len(thread_ReadyQueue) \in Nat \ {0}
         /\ Current = running /\ running \in Tid
         /\ running \in Ready /\ running \in Live
         /\ Ready \subseteq Live /\ Live \subseteq Tid
         /\ Freed \subseteq Tid /\ Freed \cap Live = {}
         /\ \A q \in WaitQueues : /\ wait_queue[q] \in Seq(Tid) /\ Once(wait_queue[q])
                                  /\ Waiting(q) \subseteq Live \cup Freed
                                  /\ Ready \cap Waiting(q) = {}
         /\ \A q, r \in WaitQueues : q # r => Waiting(q) \cap Waiting(r) = {}
<1>1. thread_ReadyQueue \in Seq(Tid) /\ wait_queue \in [WaitQueues -> Seq(Tid)]
      BY DEF ThreadsInv, TypeOK
<1>2. QueuesInv /\ DestroyInv
      BY DEF ThreadsInv, UpInv
<1>3. Len(thread_ReadyQueue) \in Nat \ {0} /\ running \in Ready /\ Ready \subseteq Tid
      BY <1>1, <1>2, ToSetOfSeq, LenProperties DEF QueuesInv, Ready
<1>4. ASSUME NEW q \in WaitQueues PROVE wait_queue[q] \in Seq(Tid) /\ Waiting(q) \subseteq Tid
      BY <1>1, ToSetOfSeq DEF Waiting
<1>5. \A q \in WaitQueues : Waiting(q) \subseteq Live \cup Freed
      BY <1>2, <1>4 DEF QueuesInv
<1>6. Ready \subseteq Live
      BY <1>2, <1>3 DEF QueuesInv, DestroyInv
<1>7. Live \subseteq Tid /\ Freed \subseteq Tid /\ Freed \cap Live = {}
      BY DEF Live, Freed
<1>. QED
      BY <1>1, <1>2, <1>3, <1>4, <1>5, <1>6, <1>7 DEF QueuesInv, Current, Queue_top

(* A step that leaves the wait queues alone, and makes no freed block ready.*)
LEMMA DestroyKept ==
  ASSUME DestroyInv, Freed' = Freed, Ready' \cap Freed = {},
         UNCHANGED << wait_queue, destroying >>
  PROVE  DestroyInv'
  BY DEF DestroyInv, Waiting

(* A call that returns at once: only its result changes.                    *)
LEMMA AnswerStep ==
  ASSUME ThreadsInv, system = "up", ret' \in [call : CallNames \cup Contexts \cup {"none"}, val : Int],
         UNCHANGED << thread_ReadyQueue, thread_ExitQueue, thread_ReadyQueue_index,
                      m_eThreadStatus, wait_queue, running, pc, frame, interrupts,
                      masked, badStack, destroying, system >>
  PROVE  ThreadsInv'
<1>1. TypeOK'
      BY DEF ThreadsInv, TypeOK
<1>2. StatusMatchesPlace'
      BY DEF ThreadsInv, StatusMatchesPlace, Live
<1>3. QueuesInv' /\ IndexInv' /\ DestroyInv'
      BY DEF ThreadsInv, UpInv, QueuesInv, DestroyInv, IndexInv, Live, Freed, Ready, Waiting
<1>4. RunningInv' /\ FrameInv' /\ InterruptsRestored'
      BY DEF ThreadsInv, UpInv, RunningInv, FrameInv, InterruptsRestored
<1>. QED  BY <1>1, <1>2, <1>3, <1>4 DEF ThreadsInv, UpInv

-----------------------------------------------------------------------------
(* The steps of the package                                                 *)

(* A thread is created: its identifier was in no queue.                     *)
LEMMA CreateStep ==
  ASSUME ThreadsInv, NEW t \in Tid, thread_create(t)
  PROVE  ThreadsInv'
<1>1. PICK id \in FreeIds :
        /\ thread_ReadyQueue_index' = thread_ReadyQueue_index \cup {id}
        /\ m_eThreadStatus' = [m_eThreadStatus EXCEPT ![id] = "New"]
        /\ thread_ReadyQueue' = Append(thread_ReadyQueue, id)
        /\ pc' = [pc EXCEPT ![id] = "stub"]
        /\ badStack' \in {badStack \ {id}, badStack \cup {id}}
        /\ ret' = [call |-> "create", val |-> id]
      BY DEF thread_create, Queue_push
<1>2. /\ system = "up" /\ running = t /\ pc[t] = "user"
      /\ UNCHANGED << thread_ExitQueue, wait_queue, running, frame, interrupts,
                      masked, destroying, system >>
      BY DEF thread_create, MayCall, Executing
<1>3. id \in Tid /\ id \in Int /\ id \notin thread_ReadyQueue_index
      BY <1>1, ConstantsAssumption DEF FreeIds, Tid
<1>4. /\ TypeOK /\ UpInv /\ StatusMatchesPlace
      /\ id \notin Live /\ id \notin Freed /\ id # running /\ id \notin masked /\ id \notin Ready
      /\ \A q \in WaitQueues : id \notin Waiting(q)
      BY <1>2, <1>3, UpFacts DEF ThreadsInv, UpInv, IndexInv
<1>5. /\ thread_ReadyQueue' \in Seq(Tid) /\ thread_ReadyQueue' # << >>
      /\ Ready' = Ready \cup {id} /\ Once(thread_ReadyQueue')
      /\ Head(thread_ReadyQueue') = running
      BY <1>1, <1>2, <1>3, <1>4, AppendOnce, UpFacts DEF Ready, Current, Queue_top
<1>6. Live' = Live \cup {id} /\ Freed' = Freed
      BY <1>1, <1>3, <1>4 DEF Live, Freed, TypeOK
<1>7. TypeOK'
      BY <1>1, <1>2, <1>3, <1>4, <1>5 DEF TypeOK, Status, Labels, CallNames
<1>8. StatusMatchesPlace'
      BY <1>1, <1>2, <1>3, <1>4, <1>6 DEF StatusMatchesPlace, TypeOK, Waiting
<1>9. QueuesInv'
  <2>1. \A u \in Tid :
          u \in Live' \cup Freed' <=> u \in Ready' \/ \E q \in WaitQueues : u \in Waiting(q)
        BY <1>3, <1>4, <1>5, <1>6 DEF UpInv, QueuesInv
  <2>2. \A q \in WaitQueues : Once(wait_queue[q]) /\ Ready' \cap Waiting(q) = {}
        BY <1>4, <1>5 DEF UpInv, QueuesInv
  <2>3. \A q, r \in WaitQueues : q # r => Waiting(q) \cap Waiting(r) = {}
        BY <1>4 DEF UpInv, QueuesInv
  <2>. QED  BY <1>2, <1>5, <2>1, <2>2, <2>3 DEF QueuesInv, Waiting
<1>10. IndexInv'
      BY <1>1, <1>2, <1>3, <1>4, <1>6 DEF UpInv, IndexInv, TypeOK
<1>11. RunningInv' /\ FrameInv' /\ InterruptsRestored'
      BY <1>1, <1>2, <1>3, <1>4
      DEF UpInv, RunningInv, FrameInv, InterruptsRestored, TypeOK, Contexts
<1>12. DestroyInv'
      BY <1>2, <1>4, <1>5, <1>6, UpFacts, DestroyKept DEF UpInv
<1>. QED  BY <1>7, <1>8, <1>9, <1>10, <1>11, <1>12 DEF ThreadsInv, UpInv

(* The first instruction of a new thread unblocks the timer, or the process *)
(* dies of a bad stack.                                                     *)
LEMMA StubStep ==
  ASSUME ThreadsInv, NEW t \in Tid, thread_stub(t)
  PROVE  ThreadsInv'
<1>1. /\ system = "up" /\ running = t /\ pc[t] = "stub"
      /\ UNCHANGED << thread_ReadyQueue, thread_ExitQueue, thread_ReadyQueue_index,
                      m_eThreadStatus, wait_queue, running, frame, masked, badStack, destroying, ret >>
      /\ \/ system' = "crashed" /\ UNCHANGED << pc, interrupts >>
         \/ system' = "up" /\ interrupts' = TRUE /\ pc' = [pc EXCEPT ![t] = "user"]
      BY DEF thread_stub, Executing
<1>2. TypeOK /\ UpInv /\ StatusMatchesPlace
      BY <1>1 DEF ThreadsInv
<1>3. TypeOK'
      BY <1>1, <1>2 DEF TypeOK, Labels
<1>4. StatusMatchesPlace'
      BY <1>1, <1>2 DEF StatusMatchesPlace, Live, TypeOK
<1>5. ASSUME system' = "up" PROVE UpInv'
  <2>1. interrupts' = TRUE /\ pc' = [pc EXCEPT ![t] = "user"]
        BY <1>1, <1>5
  <2>2. QueuesInv' /\ DestroyInv' /\ t \in Live
        BY <1>1, <1>2, UpFacts
        DEF UpInv, QueuesInv, DestroyInv, Live, Freed, Ready, Waiting
  <2>3. IndexInv'
        BY <1>1, <1>2, <2>1, <2>2 DEF UpInv, IndexInv, Live, Freed, TypeOK
  <2>4. RunningInv'
        BY <1>1, <1>2, <2>1 DEF UpInv, RunningInv, TypeOK, Contexts, AfterCall
  <2>5. FrameInv'
        BY <1>1, <1>2, <2>1 DEF UpInv, FrameInv, TypeOK, Contexts
  <2>6. InterruptsRestored'
        BY <1>1, <1>2, <2>1 DEF UpInv, IndexInv, InterruptsRestored, TypeOK
  <2>. QED  BY <2>2, <2>3, <2>4, <2>5, <2>6 DEF UpInv
<1>. QED  BY <1>3, <1>4, <1>5 DEF ThreadsInv

(* The program brackets a section with interrupts_off and interrupts_set.   *)
LEMMA BracketStep ==
  ASSUME ThreadsInv, NEW t \in Tid, interrupts_off(t) \/ interrupts_set(t)
  PROVE  ThreadsInv'
<1>1. /\ system = "up" /\ running = t /\ pc[t] = "user"
      /\ UNCHANGED << thread_ReadyQueue, thread_ExitQueue, thread_ReadyQueue_index,
                      m_eThreadStatus, wait_queue, running, pc, frame, badStack, destroying, ret, system >>
      /\ \/ interrupts' = FALSE /\ masked' = masked \cup {t}
         \/ interrupts' = TRUE /\ masked' = masked \ {t}
      BY DEF interrupts_off, interrupts_set, MayCall, Executing
<1>2. TypeOK /\ UpInv /\ StatusMatchesPlace /\ t \in Live
      BY <1>1, UpFacts DEF ThreadsInv
<1>3. TypeOK' /\ StatusMatchesPlace'
      BY <1>1, <1>2 DEF TypeOK, StatusMatchesPlace, Live
<1>4. QueuesInv' /\ DestroyInv'
      BY <1>1, <1>2 DEF UpInv, QueuesInv, DestroyInv, Live, Freed, Ready, Waiting
<1>5. IndexInv' /\ RunningInv' /\ InterruptsRestored'
      BY <1>1, <1>2 DEF UpInv, IndexInv, RunningInv, InterruptsRestored, Live, Freed
<1>6. FrameInv'
      BY <1>1, <1>2 DEF UpInv, FrameInv, Contexts
<1>. QED  BY <1>3, <1>4, <1>5, <1>6 DEF ThreadsInv, UpInv

(* A ready thread without the CPU either starts or returns from a switch.   *)
LEMMA NextRuns ==
  ASSUME ThreadsInv, system = "up", NEW u \in Ready, u # running
  PROVE  \/ pc[u] = "stub" /\ m_eThreadStatus[u] = "New"
         \/ pc[u] \in Contexts /\ m_eThreadStatus[u] = "Idle"
<1>1. u \in Live \ {running} /\ \A q \in WaitQueues : u \notin Waiting(q)
      BY UpFacts
<1>2. m_eThreadStatus[u] \in Status \ {"none", "Freed"}
      BY <1>1 DEF Live, ThreadsInv, TypeOK
<1>. QED  BY <1>1, <1>2 DEF ThreadsInv, StatusMatchesPlace, Status, Waiting

(* What holds of the running thread after the CPU has been given away, and  *)
(* of what the caller left in its frame.                                    *)
LEMMA SwitchKeeps ==
  ASSUME ThreadsInv, system = "up", NEW t \in Tid, running = t,
         NEW next \in Ready, next # t,
         NEW label \in Contexts, NEW f \in Frames,
         f.back \in AfterCall,
         f.back \in {"user", "destroy"} => (f.enabled \/ label = "handler" <=> t \notin masked),
         f.back \notin {"user", "destroy", "stub_exit"} => ~f.enabled /\ label # "handler",
         label \in {"yield_tid", "sleep"} => f.tid = next,
         NEW st \in Status, m_eThreadStatus' = [m_eThreadStatus EXCEPT ![t] = st],
         SwitchTo(t, next, label, f), masked' = masked
  PROVE  /\ pc' \in [Tid -> Labels] /\ frame' \in [Tid -> Frames] /\ next \in Tid
         /\ m_eThreadStatus' \in [Tid -> Status]
         /\ RunningInv' /\ FrameInv' /\ InterruptsRestored'
<1>1. /\ running' = next /\ interrupts' = FALSE
      /\ pc' = [pc EXCEPT ![t] = label]
      /\ frame' = [frame EXCEPT ![t] = [f EXCEPT !.ran = next]]
      BY DEF SwitchTo
<1>2. /\ pc \in [Tid -> Labels] /\ frame \in [Tid -> Frames]
      /\ m_eThreadStatus \in [Tid -> Status]
      BY DEF ThreadsInv, TypeOK, Frames
<1>3. next \in Tid /\ next \in Int
      BY UpFacts DEF Tid
<1> DEFINE g == [f EXCEPT !.ran = next]
<1>4. /\ g \in Frames /\ g.ran = next /\ g.back = f.back /\ g.tid = f.tid
      /\ g.enabled = f.enabled
      BY <1>3 DEF Frames
<1> HIDE DEF g
<1>5. /\ pc' \in [Tid -> Labels] /\ frame' \in [Tid -> Frames]
      /\ m_eThreadStatus' \in [Tid -> Status]
      BY <1>1, <1>2, <1>4 DEF g, Labels
<1>6. pc'[next] = pc[next] /\ m_eThreadStatus'[next] = m_eThreadStatus[next]
      BY <1>1, <1>2, <1>3
<1>7. \/ pc[next] = "stub" /\ m_eThreadStatus[next] = "New"
      \/ pc[next] \in Contexts /\ m_eThreadStatus[next] = "Idle"
      BY NextRuns
<1>8. RunningInv' /\ InterruptsRestored'
      BY <1>1, <1>6, <1>7 DEF RunningInv, InterruptsRestored, Contexts
<1>9. FrameInv
      BY DEF ThreadsInv, UpInv
<1>10. FrameInv'
  <2> SUFFICES ASSUME NEW u \in Tid, pc'[u] \in Contexts
               PROVE  /\ frame'[u].back \in AfterCall
                      /\ frame'[u].back \in {"user", "destroy"} =>
                           (frame'[u].enabled \/ pc'[u] = "handler" <=> u \notin masked)
                      /\ frame'[u].back \notin {"user", "destroy", "stub_exit"} =>
                           ~frame'[u].enabled /\ pc'[u] # "handler"
                      /\ pc'[u] \in {"yield_tid", "sleep"} => frame'[u].tid = frame'[u].ran
      BY DEF FrameInv
  <2>1. CASE u = t
    <3>1. frame'[u] = g /\ pc'[u] = label
          BY <1>1, <1>2, <2>1 DEF g
    <3>. QED  BY <1>4, <2>1, <3>1
  <2>2. CASE u # t
    <3>1. frame'[u] = frame[u] /\ pc'[u] = pc[u]
          BY <1>1, <1>2, <2>2
    <3>. QED  BY <1>9, <3>1 DEF FrameInv
  <2>. QED  BY <2>1, <2>2
<1>. QED  BY <1>3, <1>5, <1>8, <1>10

(* A yield: the caller stays ready and another ready thread gets the CPU.   *)
LEMMA YieldStep ==
  ASSUME ThreadsInv, system = "up", NEW t \in Tid, running = t,
         NEW next \in Ready, next # t,
         NEW label \in Contexts, NEW f \in Frames,
         f.back \in AfterCall,
         f.back \in {"user", "destroy"} => (f.enabled \/ label = "handler" <=> t \notin masked),
         f.back \notin {"user", "destroy", "stub_exit"} => ~f.enabled /\ label # "handler",
         label \in {"yield_tid", "sleep"} => f.tid = next,
         m_eThreadStatus' = [m_eThreadStatus EXCEPT ![t] = "Idle"],
         SwitchTo(t, next, label, f), UNCHANGED thread_yield_rest,
         thread_ReadyQueue' \in Seq(Tid), thread_ReadyQueue' # << >>,
         Once(thread_ReadyQueue'), Head(thread_ReadyQueue') = next, Ready' = Ready
  PROVE  ThreadsInv'
<1>1. /\ UNCHANGED << thread_ExitQueue, thread_ReadyQueue_index, wait_queue, masked,
                      badStack, destroying, system, ret >>
      /\ running' = next /\ interrupts' = FALSE
      /\ pc' = [pc EXCEPT ![t] = label]
      BY DEF SwitchTo, thread_yield_rest
<1>2. TypeOK /\ QueuesInv /\ DestroyInv /\ IndexInv /\ StatusMatchesPlace
      BY DEF ThreadsInv, UpInv
<1>3. /\ pc' \in [Tid -> Labels] /\ frame' \in [Tid -> Frames] /\ next \in Tid
      /\ m_eThreadStatus' \in [Tid -> Status]
      /\ RunningInv' /\ FrameInv' /\ InterruptsRestored'
      BY <1>1, SwitchKeeps DEF Status
<1>4. t \in Live /\ t \in Ready /\ \A q \in WaitQueues : t \notin Waiting(q)
      BY UpFacts
<1>5. Live' = Live /\ Freed' = Freed
      BY <1>2, <1>4 DEF Live, Freed, TypeOK
<1>6. TypeOK'
      BY <1>1, <1>2, <1>3 DEF TypeOK, Frames
<1>7. QueuesInv'
      BY <1>1, <1>2, <1>5 DEF QueuesInv, Waiting
<1>10. DestroyInv'
      BY <1>1, <1>2, <1>5, DestroyKept DEF DestroyInv
<1>8. IndexInv'
      BY <1>1, <1>2, <1>4, <1>5 DEF IndexInv, TypeOK, Contexts
<1>9. StatusMatchesPlace'
      BY <1>1, <1>2, <1>4, <1>5 DEF StatusMatchesPlace, TypeOK, Contexts, Waiting
<1>. QED  BY <1>1, <1>3, <1>6, <1>7, <1>8, <1>9, <1>10 DEF ThreadsInv, UpInv

(* A call that gave the CPU away finishes.                                  *)
LEMMA ResumedStep ==
  ASSUME ThreadsInv, system = "up", NEW t \in Tid, running = t,
         pc[t] \in Contexts, NEW val \in Int, ReturnResumed(t, val),
         m_eThreadStatus' = [m_eThreadStatus EXCEPT ![t] = "Run"],
         UNCHANGED << thread_ReadyQueue, wait_queue, thread_ExitQueue,
                      thread_ReadyQueue_index, masked, badStack, destroying, system >>
  PROVE  ThreadsInv'
<1>1. /\ ret' = [call |-> pc[t], val |-> val]
      /\ pc' = [pc EXCEPT ![t] = frame[t].back]
      /\ interrupts' = (frame[t].enabled \/ pc[t] = "handler")
      /\ frame' = [frame EXCEPT ![t] = NoFrame]
      /\ UNCHANGED running
      BY DEF ReturnResumed
<1>2. TypeOK /\ QueuesInv /\ DestroyInv /\ IndexInv /\ StatusMatchesPlace /\ FrameInv
      BY DEF ThreadsInv, UpInv
<1>3. /\ frame[t].back \in AfterCall /\ frame[t].back \in Labels
      /\ frame[t].back \notin Contexts /\ frame[t].back \notin {"none", "stub"}
      /\ frame[t].enabled \in BOOLEAN
      BY <1>2 DEF FrameInv, TypeOK, AfterCall, Contexts
<1>4. t \in Live
      BY UpFacts
<1>5. Live' = Live /\ Freed' = Freed
      BY <1>2, <1>4 DEF Live, Freed, TypeOK
<1>6. NoFrame \in Frames
      BY DEF NoFrame, Frames, Labels, THREAD_NONE
<1>7. TypeOK'
  <2>1. ret' \in [call : CallNames \cup Contexts \cup {"none"}, val : Int]
        BY <1>1
  <2>2. pc' \in [Tid -> Labels] /\ m_eThreadStatus' \in [Tid -> Status] /\ interrupts' \in BOOLEAN
        BY <1>1, <1>2, <1>3 DEF TypeOK, Status
  <2>3. frame' \in [Tid -> Frames]
        BY <1>1, <1>2, <1>6 DEF TypeOK, Frames
  <2>. QED  BY <1>1, <1>2, <2>1, <2>2, <2>3 DEF TypeOK, Frames
<1>8. QueuesInv' /\ DestroyInv'
      BY <1>1, <1>2, <1>5 DEF QueuesInv, DestroyInv, Ready, Waiting
<1>9. IndexInv'
      BY <1>1, <1>2, <1>3, <1>4, <1>5 DEF IndexInv, TypeOK
<1>10. StatusMatchesPlace'
      BY <1>1, <1>2, <1>5 DEF StatusMatchesPlace, TypeOK
<1>11. RunningInv' /\ InterruptsRestored'
      BY <1>1, <1>2, <1>3
      DEF RunningInv, InterruptsRestored, TypeOK, AfterCall, FrameInv
<1>12. FrameInv'
  <2> SUFFICES ASSUME NEW u \in Tid, pc'[u] \in Contexts
               PROVE  u # t /\ pc'[u] = pc[u] /\ frame'[u] = frame[u]
      BY <1>1, <1>2 DEF FrameInv
  <2>. QED  BY <1>1, <1>2, <1>3 DEF TypeOK
<1>. QED  BY <1>7, <1>8, <1>9, <1>10, <1>11, <1>12 DEF ThreadsInv, UpInv

(* The place of a ready thread in the queue. *)
LEMMA PositionFinds ==
  ASSUME ThreadsInv, system = "up", NEW tid \in Ready
  PROVE  /\ Position(tid) + 1 \in 1 .. Len(thread_ReadyQueue)
         /\ thread_ReadyQueue[Position(tid) + 1] = tid
         /\ tid # running => Position(tid) >= 1
<1>1. /\ thread_ReadyQueue \in Seq(Tid) /\ Len(thread_ReadyQueue) \in Nat
      /\ DOMAIN thread_ReadyQueue = 1 .. Len(thread_ReadyQueue)
      /\ thread_ReadyQueue[1] = running
      BY UpFacts, LenProperties, ToSetOfSeq DEF Current, Queue_top
<1>2. \E i \in DOMAIN thread_ReadyQueue : thread_ReadyQueue[i] = tid
      BY DEF Ready, ToSet
<1> DEFINE k == CHOOSE i \in DOMAIN thread_ReadyQueue : thread_ReadyQueue[i] = tid
<1>3. k \in 1 .. Len(thread_ReadyQueue) /\ thread_ReadyQueue[k] = tid
      BY <1>1, <1>2
<1>4. Position(tid) = k - 1
      BY DEF Position
<1> HIDE DEF k
<1>5. Position(tid) + 1 = k
      BY <1>1, <1>3, <1>4
<1>6. tid # running => k # 1
      BY <1>1, <1>3
<1>. QED  BY <1>1, <1>3, <1>4, <1>5, <1>6

(* thread_yield(THREAD_ANY): the running thread goes to the end.            *)
LEMMA YieldAnyQueue ==
  ASSUME ThreadsInv, system = "up", Len(thread_ReadyQueue) > 1,
         NEW r, r = Queue_push(Queue_pop(thread_ReadyQueue), Current)
  PROVE  /\ r \in Seq(Tid) /\ r # << >> /\ Once(r) /\ ToSet(r) = Ready
         /\ Queue_top(r) \in Ready /\ Queue_top(r) # running
<1> DEFINE s == thread_ReadyQueue
           u == Tail(s)
<1>1. s \in Seq(Tid) /\ s # << >> /\ Once(s) /\ Head(s) = running /\ running \in Tid
      BY UpFacts DEF Current, Queue_top
<1>2. /\ u \in Seq(Tid) /\ Once(u) /\ ToSet(u) = ToSet(s) \ {running}
      /\ running \in ToSet(s) /\ u # << >>
      BY <1>1, TailOnce
<1>3. r = Append(u, running)
      BY <1>1 DEF Queue_push, Queue_pop, Current, Queue_top
<1> HIDE DEF u, s
<1>4. /\ r \in Seq(Tid) /\ r # << >> /\ Once(r)
      /\ ToSet(r) = ToSet(u) \cup {running} /\ Head(r) = Head(u)
      BY <1>1, <1>2, <1>3, AppendOnce
<1>5. Head(u) \in ToSet(u)
      BY <1>2, ToSetOfSeq
<1>. QED  BY <1>1, <1>2, <1>4, <1>5 DEF Queue_top, Ready, s

(* thread_yield(tid): the named thread comes first, the running one last.   *)
LEMMA YieldTidQueue ==
  ASSUME ThreadsInv, system = "up", NEW tid \in Ready, tid # running,
         NEW r, r = Queue_push(Queue_movetop(Queue_pop(thread_ReadyQueue),
                                             Position(tid) - 1), Current)
  PROVE  /\ r \in Seq(Tid) /\ r # << >> /\ Once(r) /\ ToSet(r) = Ready
         /\ Queue_top(r) = tid
<1> DEFINE s == thread_ReadyQueue
           u == Tail(s)
           p == Position(tid)
           v == Queue_movetop(u, p - 1)
<1>1. s \in Seq(Tid) /\ s # << >> /\ Once(s) /\ Head(s) = running /\ running \in Tid
      BY UpFacts DEF Current, Queue_top
<1>2. /\ u \in Seq(Tid) /\ Once(u) /\ ToSet(u) = ToSet(s) \ {running}
      /\ running \in ToSet(s) /\ Len(u) = Len(s) - 1 /\ Len(s) \in Nat
      /\ \A i \in 1 .. Len(u) : u[i] = s[i + 1]
      BY <1>1, TailOnce, HeadTailProperties, LenProperties
<1>3. p + 1 \in 1 .. Len(s) /\ s[p + 1] = tid /\ p >= 1 /\ p \in Int
  <2>1. p + 1 \in 1 .. Len(s) /\ s[p + 1] = tid /\ p >= 1
        BY PositionFinds
  <2>2. p \in Int
    <3>1. DOMAIN s = 1 .. Len(s) /\ \E i \in DOMAIN s : s[i] = tid
          BY <1>1, LenProperties DEF Ready, ToSet
    <3>. QED  BY <3>1 DEF Position
  <2>. QED  BY <2>1, <2>2
<1> HIDE DEF p
<1>4. p \in 1 .. Len(u) /\ u[p] = tid
      BY <1>2, <1>3
<1>5. r = Append(v, running)
      BY <1>1 DEF Queue_push, Queue_pop, Current, Queue_top, p
<1>6. /\ v \in Seq(Tid) /\ Once(v) /\ ToSet(v) = ToSet(u)
      /\ v # << >> /\ Head(v) = tid
  <2>1. CASE p = 1
    <3>1. v = u
          BY <1>3, <2>1 DEF Queue_movetop
    <3>2. u # << >> /\ Head(u) = tid
          BY <1>2, <1>4, <2>1, LenProperties, EmptySeq, ToSetOfSeq
    <3>. QED  BY <1>2, <3>1, <3>2
  <2>2. CASE p > 1
    <3> DEFINE h == << u[p] >>
               a == SubSeq(u, 1, p - 1)
               b == SubSeq(u, p + 1, Len(u))
    <3>0. Len(u) \in Nat /\ \A i \in 1 .. Len(u) : u[i] \in Tid
          BY <1>2, LenProperties
    <3>1. /\ p - 1 + 1 = p /\ p - 1 + 2 = p + 1
          /\ ~(p - 1 <= 0 \/ p - 1 >= Len(u))
          BY <1>3, <1>4, <2>2, <3>0
    <3>2. v = (h \o a) \o b
          BY <3>1 DEF Queue_movetop
    <3>3. h \in Seq(Tid) /\ a \in Seq(Tid) /\ b \in Seq(Tid)
      <4>1. h \in Seq(Tid)
            BY <1>4, <3>0
      <4>2. a \in Seq(Tid)
        <5>1. 1 \in Int /\ p - 1 \in Int /\ \A i \in 1 .. p - 1 : u[i] \in Tid
              BY <1>3, <1>4, <3>0
        <5>. QED  BY <5>1, SubSeqProperties
      <4>3. b \in Seq(Tid)
        <5>1. p + 1 \in Int /\ Len(u) \in Int /\ \A i \in p + 1 .. Len(u) : u[i] \in Tid
              BY <1>3, <1>4, <3>0
        <5>. QED  BY <5>1, SubSeqProperties
      <4>. QED  BY <4>1, <4>2, <4>3
    <3>4. a \o b = RemoveAt(u, p)
          BY DEF RemoveAt
    <3> HIDE DEF h, a, b, v
    <3>5. v = h \o (a \o b)
          BY <3>2, <3>3, ConcatAssociative
    <3> HIDE DEF u
    <3>6. v = << u[p] >> \o RemoveAt(u, p)
          BY <3>4, <3>5 DEF h
    <3>. QED  BY <1>2, <1>4, <3>6, MoveOnce
  <2>. QED  BY <1>3, <2>1, <2>2
<1> HIDE DEF v, u, s
<1>7. /\ r \in Seq(Tid) /\ r # << >> /\ Once(r)
      /\ ToSet(r) = ToSet(v) \cup {running} /\ Head(r) = Head(v)
  <2>1. v \in Seq(Tid) /\ Once(v) /\ v # << >> /\ running \in Tid /\ running \notin ToSet(v)
        BY <1>1, <1>2, <1>6
  <2>. QED  BY ONLY <1>5, <2>1, AppendOnce
<1>. QED  BY <1>1, <1>2, <1>6, <1>7 DEF Queue_top, Ready, s

(* The status word tells "first time here" from "resumed".                  *)
LEMMA FirstOrResumed ==
  ASSUME ThreadsInv, system = "up"
  PROVE  /\ pc[running] \in AfterCall => FirstTime
         /\ pc[running] \in Contexts => ~FirstTime /\ m_eThreadStatus[running] = "Idle"
         /\ pc[running] \in {"user", "destroy"} => interrupts = (running \notin masked)
         /\ interrupts /\ pc[running] \in Labels => pc[running] \in {"user", "destroy", "stub_exit"}
<1>1. RunningInv /\ InterruptsRestored /\ Current = running
      BY UpFacts DEF ThreadsInv, UpInv
<1>. QED  BY <1>1 DEF RunningInv, InterruptsRestored, FirstTime, AfterCall, Contexts

(* thread_yield(THREAD_ANY), called by the program or by the timer.         *)
LEMMA YieldAnyStep ==
  ASSUME ThreadsInv, NEW t \in Tid,
         thread_yield_any(t) \/ interrupt_handler(t) \/ resume_yield_any(t)
  PROVE  ThreadsInv'
<1>1. system = "up" /\ running = t /\ Current = t
      BY UpFacts DEF thread_yield_any, interrupt_handler, resume_yield_any, MayCall, Executing
<1>2. TypeOK
      BY DEF ThreadsInv
<1>3. ASSUME NEW label \in {"yield_any", "handler"}, NEW f \in Frames,
             f.back \in {"user", "destroy", "stub_exit"},
             f.back \in {"user", "destroy"} => (f.enabled \/ label = "handler" <=> t \notin masked),
             FirstTime, Len(thread_ReadyQueue) > 1, YieldAny(t, label, f)
      PROVE  ThreadsInv'
  <2> DEFINE r == Queue_push(Queue_pop(thread_ReadyQueue), Current)
             next == Queue_top(r)
  <2>1. /\ m_eThreadStatus' = [m_eThreadStatus EXCEPT ![t] = "Idle"]
        /\ thread_ReadyQueue' = r
        /\ SwitchTo(t, next, label, f)
        /\ UNCHANGED thread_yield_rest
        BY <1>1, <1>3 DEF YieldAny
  <2>2. /\ r \in Seq(Tid) /\ r # << >> /\ Once(r) /\ ToSet(r) = Ready
        /\ next \in Ready /\ next # t
        BY <1>1, <1>3, YieldAnyQueue
  <2>3. /\ label \in Contexts /\ f.back \in AfterCall
        /\ f.back \notin {"user", "destroy", "stub_exit"} => ~f.enabled /\ label # "handler"
        /\ label \in {"yield_tid", "sleep"} => f.tid = next
        BY <1>3 DEF Contexts, AfterCall
  <2>4. /\ thread_ReadyQueue' \in Seq(Tid) /\ thread_ReadyQueue' # << >>
        /\ Once(thread_ReadyQueue') /\ Head(thread_ReadyQueue') = next /\ Ready' = Ready
        BY <2>1, <2>2 DEF Queue_top, Ready
  <2> HIDE DEF r, next
  <2>. QED  BY <1>1, <1>3, <2>1, <2>2, <2>3, <2>4, YieldStep
<1>4. CASE thread_yield_any(t)
  <2> DEFINE f == [NoFrame EXCEPT !.enabled = interrupts]
  <2>1. /\ pc[t] = "user" /\ Len(thread_ReadyQueue) > 1 /\ YieldAny(t, "yield_any", f)
        BY <1>4 DEF thread_yield_any, MayCall, Executing
  <2>2. f \in Frames /\ f.back = "user" /\ f.enabled = interrupts
    <3>1. interrupts \in BOOLEAN /\ NoFrame \in Frames /\ NoFrame.back = "user"
          BY <1>2 DEF NoFrame, Frames, Labels, THREAD_NONE, TypeOK
    <3>. QED  BY <3>1 DEF Frames
  <2>3. FirstTime /\ interrupts = (t \notin masked)
        BY <1>1, <2>1, FirstOrResumed DEF AfterCall
  <2> HIDE DEF f
  <2>. QED  BY <1>3, <2>1, <2>2, <2>3
<1>5. CASE interrupt_handler(t)
  <2> DEFINE f == [NoFrame EXCEPT !.back = pc[t]]
  <2>1. interrupts /\ Len(thread_ReadyQueue) > 1 /\ YieldAny(t, "handler", f)
        BY <1>5 DEF interrupt_handler
  <2>2. pc[t] \in {"user", "destroy", "stub_exit"} /\ FirstTime
        BY <1>1, <1>2, <2>1, FirstOrResumed DEF TypeOK, AfterCall
  <2>3. f \in Frames /\ f.back = pc[t]
    <3>1. pc[t] \in Labels /\ NoFrame \in Frames
          BY <1>2 DEF NoFrame, Frames, Labels, THREAD_NONE, TypeOK
    <3>. QED  BY <3>1 DEF Frames
  <2>4. pc[t] \in {"user", "destroy"} => t \notin masked
        BY <1>1, <2>1, FirstOrResumed
  <2> HIDE DEF f
  <2>. QED  BY <1>3, <2>1, <2>2, <2>3, <2>4
<1>6. CASE resume_yield_any(t)
  <2>1. pc[t] \in {"yield_any", "handler"} /\ YieldAny(t, pc[t], frame[t])
        BY <1>6 DEF resume_yield_any, Executing
  <2>2. ~FirstTime /\ pc[t] \in Contexts
        BY <1>1, <2>1, FirstOrResumed DEF Contexts
  <2>3. /\ m_eThreadStatus' = [m_eThreadStatus EXCEPT ![t] = "Run"]
        /\ ReturnResumed(t, t)
        /\ UNCHANGED << thread_ReadyQueue, thread_yield_rest >>
        BY <1>1, <2>1, <2>2 DEF YieldAny
  <2>4. t \in Int
        BY DEF Tid
  <2>. QED  BY <1>1, <2>2, <2>3, <2>4, ResumedStep DEF thread_yield_rest
<1>. QED  BY <1>4, <1>5, <1>6

(* thread_yield(tid). *)
LEMMA YieldTidStep ==
  ASSUME ThreadsInv, NEW t \in Tid, thread_yield_tid(t) \/ resume_yield_tid(t)
  PROVE  ThreadsInv'
<1>1. system = "up" /\ running = t /\ Current = t
      BY UpFacts DEF thread_yield_tid, resume_yield_tid, MayCall, Executing
<1>2. TypeOK
      BY DEF ThreadsInv
<1>3. CASE thread_yield_tid(t)
  <2>1. PICK tid \in Ready \ {t} :
          YieldTid(t, [enabled |-> interrupts, tid |-> tid, ran |-> THREAD_NONE,
                       wq |-> NoQueue, back |-> "user"])
        BY <1>1, <1>3 DEF thread_yield_tid, Ready
  <2> DEFINE f == [enabled |-> interrupts, tid |-> tid, ran |-> THREAD_NONE,
                   wq |-> NoQueue, back |-> "user"]
             r == Queue_push(Queue_movetop(Queue_pop(thread_ReadyQueue),
                                           Position(tid) - 1), Current)
  <2>2. tid \in Tid /\ tid \in Int
        BY <1>1, <2>1, UpFacts DEF Tid
  <2>3. /\ f \in Frames /\ f.back = "user" /\ f.enabled = interrupts /\ f.tid = tid
        BY <1>2, <2>2 DEF Frames, Labels, THREAD_NONE, TypeOK
  <2>4. FirstTime /\ interrupts = (t \notin masked)
        BY <1>1, <1>3, FirstOrResumed DEF AfterCall, thread_yield_tid, MayCall, Executing
  <2> HIDE DEF f
  <2>5. /\ m_eThreadStatus' = [m_eThreadStatus EXCEPT ![t] = "Idle"]
        /\ thread_ReadyQueue' = r
        /\ SwitchTo(t, tid, "yield_tid", f)
        /\ UNCHANGED thread_yield_rest
        BY <1>1, <2>1, <2>3, <2>4 DEF YieldTid, f
  <2>6. /\ r \in Seq(Tid) /\ r # << >> /\ Once(r) /\ ToSet(r) = Ready
        /\ Queue_top(r) = tid
        BY <1>1, <2>1, YieldTidQueue
  <2>7. /\ "yield_tid" \in Contexts /\ f.back \in AfterCall
        /\ f.back \notin {"user", "destroy", "stub_exit"} => ~f.enabled /\ "yield_tid" # "handler"
        /\ f.back \in {"user", "destroy"} => (f.enabled \/ "yield_tid" = "handler" <=> t \notin masked)
        BY <2>3, <2>4 DEF Contexts, AfterCall
  <2>8. /\ thread_ReadyQueue' \in Seq(Tid) /\ thread_ReadyQueue' # << >>
        /\ Once(thread_ReadyQueue') /\ Head(thread_ReadyQueue') = tid /\ Ready' = Ready
        BY <2>5, <2>6 DEF Queue_top, Ready
  <2> HIDE DEF r
  <2>. QED  BY <1>1, <2>1, <2>3, <2>5, <2>7, <2>8, YieldStep
<1>4. CASE resume_yield_tid(t)
  <2>1. pc[t] = "yield_tid" /\ YieldTid(t, frame[t])
        BY <1>4 DEF resume_yield_tid, Executing
  <2>2. ~FirstTime /\ pc[t] \in Contexts /\ frame[t].tid \in Int
        BY <1>1, <1>2, <2>1, FirstOrResumed DEF Contexts, TypeOK
  <2>3. /\ m_eThreadStatus' = [m_eThreadStatus EXCEPT ![t] = "Run"]
        /\ ReturnResumed(t, frame[t].tid)
        /\ UNCHANGED << thread_ReadyQueue, thread_yield_rest >>
        BY <1>1, <2>1, <2>2 DEF YieldTid
  <2>. QED  BY <1>1, <2>2, <2>3, ResumedStep DEF thread_yield_rest
<1>. QED  BY <1>3, <1>4

(* The running thread moves on in its own code or in wait_queue_destroy: no *)
(* thread is affected.                                                      *)
LEMMA LoopStep ==
  ASSUME ThreadsInv, system = "up", NEW l \in Labels \cap AfterCall,
         pc[running] \in AfterCall,
         pc' = [pc EXCEPT ![running] = l], interrupts' \in BOOLEAN,
         l \in {"user", "destroy"} => interrupts' = (running \notin masked),
         l \notin {"user", "destroy", "stub_exit"} => ~interrupts',
         ret' \in [call : CallNames \cup Contexts \cup {"none"}, val : Int],
         UNCHANGED << thread_ReadyQueue, thread_ExitQueue, thread_ReadyQueue_index,
                      m_eThreadStatus, wait_queue, running, frame, masked, badStack, system >>,
         destroying' \in [Tid -> [wq : WaitQueues \cup {NoQueue}, at : Instructions]],
         DestroyInv'
  PROVE  ThreadsInv'
<1>1. TypeOK /\ QueuesInv /\ IndexInv /\ StatusMatchesPlace /\ RunningInv /\ FrameInv
      BY DEF ThreadsInv, UpInv
<1>2. running \in Tid /\ running \in Live /\ l \notin Contexts /\ l # "none" /\ l # "stub"
      BY UpFacts DEF AfterCall, Contexts
<1>3. TypeOK'
      BY <1>1 DEF TypeOK
<1>4. StatusMatchesPlace'
      BY <1>1, <1>2 DEF StatusMatchesPlace, Live, TypeOK
<1>5. QueuesInv' /\ IndexInv'
      BY <1>1, <1>2 DEF QueuesInv, IndexInv, Live, Freed, Ready, Waiting, TypeOK
<1>6. RunningInv' /\ InterruptsRestored'
      BY <1>1, <1>2 DEF RunningInv, InterruptsRestored, TypeOK, AfterCall, Contexts
<1>7. FrameInv'
  <2> SUFFICES ASSUME NEW u \in Tid, pc'[u] \in Contexts
               PROVE  pc'[u] = pc[u]
      BY <1>1 DEF FrameInv
  <2>. QED  BY <1>1, <1>2 DEF TypeOK
<1>. QED  BY <1>3, <1>4, <1>5, <1>6, <1>7 DEF ThreadsInv, UpInv

(* The running thread moves on in its own code: no thread is affected.      *)
LEMMA LocalStep ==
  ASSUME ThreadsInv, system = "up", NEW l \in Labels \cap AfterCall,
         pc[running] \in AfterCall,
         pc' = [pc EXCEPT ![running] = l], interrupts' \in BOOLEAN,
         l \in {"user", "destroy"} => interrupts' = (running \notin masked),
         l \notin {"user", "destroy", "stub_exit"} => ~interrupts',
         ret' \in [call : CallNames \cup Contexts \cup {"none"}, val : Int],
         UNCHANGED << thread_ReadyQueue, thread_ExitQueue, thread_ReadyQueue_index,
                      m_eThreadStatus, wait_queue, running, frame, masked, badStack, destroying, system >>
  PROVE  ThreadsInv'
<1>1. DestroyInv' /\ destroying' \in [Tid -> [wq : WaitQueues \cup {NoQueue}, at : Instructions]]
      BY DEF ThreadsInv, UpInv, TypeOK, DestroyInv, Freed, Ready, Waiting
<1>. QED  BY <1>1, LoopStep

(* thread_sleep: the caller goes to the end of a wait queue.                *)
LEMMA SleepStep ==
  ASSUME ThreadsInv, system = "up", NEW t \in Tid, running = t, pc[t] \in AfterCall,
         Len(thread_ReadyQueue) > 1, NEW q \in WaitQueues,
         NEW enabled \in BOOLEAN, NEW back \in Labels \cap AfterCall,
         back \in {"user", "destroy"} => enabled = (t \notin masked),
         back \notin {"user", "destroy", "stub_exit"} => ~enabled,
         Sleep(t, SleepFrame(q, enabled, back))
  PROVE  ThreadsInv'
<1> DEFINE f == SleepFrame(q, enabled, back)
           s == thread_ReadyQueue
           next == Head(Tail(s))
<1>1. TypeOK /\ QueuesInv /\ DestroyInv /\ IndexInv /\ StatusMatchesPlace
      BY DEF ThreadsInv, UpInv
<1>2. /\ s \in Seq(Tid) /\ s # << >> /\ Once(s) /\ Head(s) = t /\ Current = t
      /\ t \in Live /\ t \in Ready /\ Live \subseteq Tid /\ t \notin Freed
      /\ \A r \in WaitQueues : /\ wait_queue[r] \in Seq(Tid) /\ Once(wait_queue[r])
                               /\ t \notin Waiting(r)
      BY UpFacts DEF Current, Queue_top
<1>3. /\ Tail(s) \in Seq(Tid) /\ Once(Tail(s)) /\ ToSet(Tail(s)) = Ready \ {t}
      /\ Tail(s) # << >> /\ next = s[2]
      BY <1>2, TailOnce DEF Ready
<1>4. next \in Ready /\ next # t
  <2>1. next \in ToSet(Tail(s))
        BY <1>3, ToSetOfSeq
  <2>. QED  BY <1>3, <2>1
<1>5. FirstTime
      BY FirstOrResumed
<1>6. next \in Tid
      BY <1>4, UpFacts
<1>19. \A u \in Tid : u \in Int
      BY DEF Tid
<1>7. f \in Frames /\ f.wq = q /\ f.back = back /\ f.enabled = enabled /\ f.tid = next
      BY <1>3, <1>6, <1>19 DEF SleepFrame, Frames, THREAD_NONE
<1> HIDE DEF f, next, s
<1>8. /\ thread_ReadyQueue' = Tail(s)
      /\ m_eThreadStatus' = [m_eThreadStatus EXCEPT ![t] = "Sleep"]
      /\ wait_queue' = [wait_queue EXCEPT ![q] = Append(wait_queue[q], t)]
      /\ SwitchTo(t, next, "sleep", f)
      /\ UNCHANGED thread_sleep_rest
      BY <1>2, <1>5, <1>7 DEF Sleep, f, s, next, Queue_pop, Queue_push, Queue_top
<1>9. /\ UNCHANGED << thread_ExitQueue, thread_ReadyQueue_index, masked, badStack, destroying, system, ret >>
      /\ running' = next /\ interrupts' = FALSE /\ pc' = [pc EXCEPT ![t] = "sleep"]
      BY <1>8 DEF SwitchTo, thread_sleep_rest
<1>10. /\ pc' \in [Tid -> Labels] /\ frame' \in [Tid -> Frames] /\ next \in Tid
       /\ m_eThreadStatus' \in [Tid -> Status]
       /\ RunningInv' /\ FrameInv' /\ InterruptsRestored'
  <2>1. /\ "sleep" \in Contexts /\ "Sleep" \in Status
        /\ f.back \in {"user", "destroy"} => (f.enabled \/ "sleep" = "handler" <=> t \notin masked)
        /\ f.back \notin {"user", "destroy", "stub_exit"} => ~f.enabled /\ "sleep" # "handler"
        /\ f.back \in AfterCall
        BY <1>7 DEF Contexts, Status
  <2>. QED  BY <1>4, <1>7, <1>8, <1>9, <2>1, SwitchKeeps
<1>11. Live' = Live /\ Freed' = Freed
      BY <1>1, <1>2, <1>8 DEF Live, Freed, TypeOK
<1>12. wait_queue' \in [WaitQueues -> Seq(Tid)]
      BY <1>1, <1>8 DEF TypeOK
<1>13. ASSUME NEW r \in WaitQueues
       PROVE  /\ Waiting(r)' = IF r = q THEN Waiting(r) \cup {t} ELSE Waiting(r)
              /\ Once(wait_queue'[r]) /\ wait_queue'[r] \in Seq(Tid)
              /\ wait_queue[r] # << >> => /\ wait_queue'[r] # << >>
                                          /\ Head(wait_queue'[r]) = Head(wait_queue[r])
  <2>1. CASE r = q
    <3>1. wait_queue'[r] = Append(wait_queue[r], t)
          BY <1>1, <1>8, <2>1 DEF TypeOK
    <3>2. wait_queue[r] \in Seq(Tid) /\ Once(wait_queue[r]) /\ t \in Tid /\ t \notin ToSet(wait_queue[r])
          BY <1>2 DEF Waiting
    <3>. QED  BY <2>1, <3>1, <3>2, AppendOnce DEF Waiting
  <2>2. CASE r # q
    <3>1. wait_queue'[r] = wait_queue[r]
          BY <1>1, <1>8, <2>2 DEF TypeOK
    <3>. QED  BY <1>2, <2>2, <3>1 DEF Waiting
  <2>. QED  BY <2>1, <2>2
<1>14. Ready' = Ready \ {t}
      BY <1>3, <1>8 DEF Ready
<1>15. TypeOK'
      BY <1>1, <1>3, <1>8, <1>9, <1>10, <1>12 DEF TypeOK, Frames
<1>16. QueuesInv'
  <2>1. thread_ReadyQueue' # << >> /\ Head(thread_ReadyQueue') = running' /\ Once(thread_ReadyQueue')
        BY <1>3, <1>8, <1>9 DEF next
  <2>2. ASSUME NEW r \in WaitQueues
        PROVE  Once(wait_queue'[r]) /\ Ready' \cap Waiting(r)' = {}
        BY <1>1, <1>13, <1>14 DEF QueuesInv
  <2>3. ASSUME NEW p \in WaitQueues, NEW r \in WaitQueues, p # r
        PROVE  Waiting(p)' \cap Waiting(r)' = {}
        BY <1>1, <1>2, <1>13, <2>3 DEF QueuesInv
  <2>4. ASSUME NEW u \in Tid
        PROVE  u \in Live' \cup Freed' <=> u \in Ready' \/ \E r \in WaitQueues : u \in Waiting(r)'
        BY <1>1, <1>2, <1>11, <1>13, <1>14 DEF QueuesInv
  <2>. QED  BY <2>1, <2>2, <2>3, <2>4 DEF QueuesInv
<1>17. IndexInv'
      BY <1>1, <1>2, <1>9, <1>11 DEF IndexInv, TypeOK
<1>20. DestroyInv'
  <2>1. Ready' \cap Freed' = {}
        BY <1>1, <1>11, <1>14 DEF DestroyInv
  <2>2. ASSUME NEW r \in WaitQueues, NEW u \in Waiting(r)' \cap Freed'
        PROVE  u = Head(wait_queue'[r])
    <3>1. u \in Waiting(r) /\ u \in Freed
          BY <1>2, <1>11, <1>13, <2>2
    <3>2. wait_queue[r] # << >>
          BY <1>2, <3>1, ToSetOfSeq DEF Waiting
    <3>. QED  BY <1>1, <1>13, <3>1, <3>2 DEF DestroyInv
  <2>. QED  BY <1>1, <1>9, <1>11, <1>13, <2>1, <2>2 DEF DestroyInv
<1>18. StatusMatchesPlace'
  <2> SUFFICES ASSUME NEW u \in Live, u # next
               PROVE  /\ (m_eThreadStatus'[u] = "Sleep") <=> (\E r \in WaitQueues : u \in Waiting(r)')
                      /\ (m_eThreadStatus'[u] = "New") <=> (pc'[u] = "stub")
                      /\ m_eThreadStatus'[u] # "Run"
                      /\ pc'[u] \in Contexts \cup {"stub"}
      BY <1>9, <1>11 DEF StatusMatchesPlace, Waiting
  <2>1. CASE u = t
    <3>1. m_eThreadStatus'[u] = "Sleep" /\ pc'[u] = "sleep"
          BY <1>1, <1>2, <1>8, <1>9, <2>1 DEF TypeOK
    <3>2. u \in Waiting(q)'
          BY <1>13, <2>1
    <3>. QED  BY <3>1, <3>2 DEF Contexts
  <2>2. CASE u # t
    <3>1. m_eThreadStatus'[u] = m_eThreadStatus[u] /\ pc'[u] = pc[u] /\ u \in Tid
          BY <1>1, <1>2, <1>8, <1>9, <2>2 DEF TypeOK
    <3>2. \A r \in WaitQueues : u \in Waiting(r)' <=> u \in Waiting(r)
          BY <1>13, <2>2
    <3>. QED  BY <1>1, <2>2, <3>1, <3>2 DEF StatusMatchesPlace, Waiting
  <2>. QED  BY <2>1, <2>2
<1>. QED  BY <1>9, <1>10, <1>15, <1>16, <1>17, <1>18, <1>20 DEF ThreadsInv, UpInv

(* The call of thread_sleep by the program, and its return.                 *)
LEMMA ProgramSleepStep ==
  ASSUME ThreadsInv, NEW t \in Tid, thread_sleep(t) \/ resume_sleep(t)
  PROVE  ThreadsInv'
<1>1. system = "up" /\ running = t /\ Current = t /\ TypeOK
      BY UpFacts DEF thread_sleep, resume_sleep, MayCall, Executing, ThreadsInv
<1>2. CASE thread_sleep(t)
  <2>1. PICK q \in WaitQueues : Sleep(t, SleepFrame(q, interrupts, "user"))
        BY <1>2 DEF thread_sleep
  <2>2. pc[t] = "user" /\ Len(thread_ReadyQueue) > 1
        BY <1>2 DEF thread_sleep, MayCall, Executing
  <2>3. interrupts = (t \notin masked) /\ interrupts \in BOOLEAN
        BY <1>1, <2>2, FirstOrResumed DEF TypeOK
  <2>4. "user" \in Labels \cap AfterCall
        BY DEF Labels, AfterCall
  <2>. QED  BY <1>1, <2>1, <2>2, <2>3, <2>4, SleepStep
<1>3. CASE resume_sleep(t)
  <2>1. pc[t] = "sleep" /\ Sleep(t, frame[t])
        BY <1>3 DEF resume_sleep, Executing
  <2>2. /\ ~FirstTime /\ m_eThreadStatus[t] = "Idle"
        /\ pc[t] \in Contexts /\ frame[t].tid \in Int
        BY <1>1, <2>1, FirstOrResumed DEF Contexts, TypeOK
  <2>3. /\ m_eThreadStatus' = [m_eThreadStatus EXCEPT ![t] = "Run"]
        /\ ReturnResumed(t, frame[t].tid)
        /\ UNCHANGED << thread_ReadyQueue, wait_queue, thread_sleep_rest >>
        BY <1>1, <2>1, <2>2 DEF Sleep
  <2>. QED  BY <1>1, <2>2, <2>3, ResumedStep DEF thread_sleep_rest
<1>. QED  BY <1>2, <1>3

(* A ready thread other than the running one is destroyed.                  *)
LEMMA DestroyOtherStep ==
  ASSUME ThreadsInv, system = "up", NEW tid \in Ready, tid # running, Destroy(tid),
         thread_ExitQueue' \in 0 .. MaxExits, system' \in {"up", "crashed"},
         ret' \in [call : CallNames \cup Contexts \cup {"none"}, val : Int],
         UNCHANGED << wait_queue, running, interrupts, badStack >>
  PROVE  ThreadsInv'
<1> DEFINE s == thread_ReadyQueue
           k == Position(tid) + 1
<1>1. TypeOK /\ QueuesInv /\ DestroyInv /\ IndexInv /\ StatusMatchesPlace /\ RunningInv
      /\ FrameInv /\ InterruptsRestored
      BY DEF ThreadsInv, UpInv
<1>2. /\ s \in Seq(Tid) /\ s # << >> /\ Once(s) /\ Head(s) = running
      /\ running \in Tid /\ tid \in Tid /\ Live \subseteq Tid /\ tid \in Live /\ tid \notin Freed
      /\ \A q \in WaitQueues : tid \notin Waiting(q)
      BY UpFacts DEF Current, Queue_top
<1>3. k \in 1 .. Len(s) /\ s[k] = tid /\ k > 1
  <2>1. k \in 1 .. Len(s) /\ s[k] = tid
        BY PositionFinds
  <2>2. k # 1
        BY <1>2, <2>1
  <2>. QED  BY <2>1, <2>2
<1> HIDE DEF k, s
<1>4. /\ thread_ReadyQueue' = RemoveAt(s, k)
      /\ thread_ReadyQueue_index' = thread_ReadyQueue_index \ {tid}
      /\ m_eThreadStatus' = [m_eThreadStatus EXCEPT ![tid] = "none"]
      /\ pc' = [pc EXCEPT ![tid] = "none"]
      /\ frame' = [frame EXCEPT ![tid] = NoFrame]
      /\ masked' = masked \ {tid}
      /\ destroying' = [destroying EXCEPT ![tid] = NoDestroy]
      BY DEF Destroy, s, k
<1>5. /\ thread_ReadyQueue' \in Seq(Tid) /\ Once(thread_ReadyQueue')
      /\ Ready' = Ready \ {tid}
      /\ thread_ReadyQueue' # << >> /\ Head(thread_ReadyQueue') = running
      BY <1>2, <1>3, <1>4, RemoveOnce DEF Ready, s
<1>6. Live' = Live \ {tid} /\ Freed' = Freed
      BY <1>1, <1>2, <1>4 DEF Live, Freed, TypeOK
<1>7. NoFrame \in Frames
      BY DEF NoFrame, Frames, Labels, THREAD_NONE
<1>8. TypeOK'
  <2>1. /\ pc' \in [Tid -> Labels] /\ m_eThreadStatus' \in [Tid -> Status]
        /\ frame' \in [Tid -> Frames]
        BY <1>1, <1>4, <1>7 DEF TypeOK, Labels, Status, Frames
  <2>2. destroying' \in [Tid -> [wq : WaitQueues \cup {NoQueue}, at : Instructions]]
        BY <1>1, <1>4 DEF TypeOK, NoDestroy, Instructions
  <2>. QED  BY <1>1, <1>4, <1>5, <2>1, <2>2 DEF TypeOK, Frames
<1>9. StatusMatchesPlace'
      BY <1>1, <1>4, <1>6 DEF StatusMatchesPlace, TypeOK, Live
<1>10. QueuesInv'
      BY <1>1, <1>2, <1>5, <1>6 DEF QueuesInv, Waiting
<1>14. DestroyInv'
  <2>1. \A u \in Tid : destroying'[u].at # "none" => destroying'[u] = destroying[u]
        BY <1>1, <1>4 DEF TypeOK, NoDestroy
  <2>2. Ready' \cap Freed' = {} /\ \A q \in WaitQueues : Waiting(q)' = Waiting(q)
        BY <1>1, <1>5, <1>6 DEF DestroyInv, Waiting
  <2>. QED  BY <1>1, <1>6, <2>1, <2>2 DEF DestroyInv
<1>11. IndexInv'
  <2>1. \A u \in Tid \ Live' : pc'[u] = "none"
        BY <1>1, <1>4, <1>6 DEF IndexInv, TypeOK
  <2>. QED  BY <1>1, <1>2, <1>4, <1>6, <2>1 DEF IndexInv, TypeOK
<1>12. RunningInv' /\ InterruptsRestored'
      BY <1>1, <1>2, <1>4 DEF RunningInv, InterruptsRestored, TypeOK
<1>13. FrameInv'
  <2> SUFFICES ASSUME NEW u \in Tid, pc'[u] \in Contexts
               PROVE  /\ pc'[u] = pc[u] /\ frame'[u] = frame[u]
                      /\ u \notin masked' <=> u \notin masked
      BY <1>1 DEF FrameInv
  <2>1. u # tid
        BY <1>1, <1>4 DEF TypeOK, Contexts
  <2>. QED  BY <1>1, <1>4, <2>1 DEF TypeOK
<1>. QED  BY <1>8, <1>9, <1>10, <1>11, <1>12, <1>13, <1>14 DEF ThreadsInv, UpInv

(* thread_exit of another thread. *)
LEMMA ExitOtherStep ==
  ASSUME ThreadsInv, NEW t \in Tid, thread_exit_tid(t) \/ thread_exit_any(t)
  PROVE  ThreadsInv'
<1>1. system = "up" /\ running = t /\ Current = t /\ TypeOK
      BY UpFacts DEF thread_exit_tid, thread_exit_any, MayCall, Executing, ThreadsInv
<1>2. \A u \in Tid : u \in Int
      BY DEF Tid
<1>3. Ready \subseteq Tid
      BY <1>1, UpFacts
<1>4. CASE thread_exit_tid(t)
  <2>1. PICK tid \in Ready \ {t} :
          /\ Destroy(tid) /\ ret' = [call |-> "exit_tid", val |-> tid]
          /\ system' \in {"up", "crashed"}
        BY <1>1, <1>4 DEF thread_exit_tid, Ready
  <2>2. UNCHANGED << thread_ExitQueue, wait_queue, running, interrupts, badStack >>
        BY <1>4 DEF thread_exit_tid
  <2>3. /\ ret' \in [call : CallNames \cup Contexts \cup {"none"}, val : Int]
        /\ thread_ExitQueue' \in 0 .. MaxExits
        BY <1>1, <1>2, <1>3, <2>1, <2>2 DEF CallNames, TypeOK
  <2>. QED  BY <1>1, <2>1, <2>2, <2>3, DestroyOtherStep
<1>5. CASE thread_exit_any(t)
  <2> DEFINE last == thread_ReadyQueue[Len(thread_ReadyQueue)]
  <2>1. /\ Destroy(last) /\ ret' = [call |-> "exit_any", val |-> last]
        /\ Len(thread_ReadyQueue) > 1 /\ thread_ExitQueue < MaxExits
        /\ thread_ExitQueue' = thread_ExitQueue + 1
        /\ UNCHANGED << wait_queue, running, interrupts, badStack, system >>
        BY <1>5 DEF thread_exit_any, Last
  <2>2. last \in Ready /\ last # t
    <3>1. /\ Len(thread_ReadyQueue) \in Nat /\ thread_ReadyQueue[1] = t
          /\ DOMAIN thread_ReadyQueue = 1 .. Len(thread_ReadyQueue)
          /\ Once(thread_ReadyQueue)
          BY <1>1, UpFacts, LenProperties, ToSetOfSeq DEF Queue_top, Current
    <3>2. /\ Len(thread_ReadyQueue) \in 1 .. Len(thread_ReadyQueue)
          /\ 1 \in 1 .. Len(thread_ReadyQueue)
          /\ Len(thread_ReadyQueue) # 1
          BY <2>1, <3>1
    <3>. QED  BY <3>1, <3>2 DEF Once, Ready, ToSet
  <2> HIDE DEF last
  <2>3. /\ ret' \in [call : CallNames \cup Contexts \cup {"none"}, val : Int]
        /\ thread_ExitQueue' \in 0 .. MaxExits
    <3>1. MaxExits \in Nat /\ thread_ExitQueue \in 0 .. MaxExits
          BY <1>1, ConstantsAssumption DEF TypeOK
    <3>. QED  BY <1>2, <1>3, <2>1, <2>2, <3>1 DEF CallNames
  <2>. QED  BY <1>1, <2>1, <2>2, <2>3, DestroyOtherStep
<1>. QED  BY <1>4, <1>5

(* thread_exit(THREAD_SELF) while others are ready.                         *)
LEMMA ExitSelfStep ==
  ASSUME ThreadsInv, NEW t \in Tid, thread_exit_self(t)
  PROVE  ThreadsInv'
<1> DEFINE s == thread_ReadyQueue
           next == Head(Tail(s))
<1>1. system = "up" /\ running = t /\ Current = t /\ Len(s) > 1 /\ pc[t] = "user"
      /\ thread_ExitQueue < MaxExits
      BY UpFacts DEF thread_exit_self, MayCall, Executing
<1>2. TypeOK /\ QueuesInv /\ DestroyInv /\ IndexInv /\ StatusMatchesPlace /\ RunningInv
      /\ FrameInv
      BY <1>1 DEF ThreadsInv, UpInv
<1>3. /\ s \in Seq(Tid) /\ s # << >> /\ Once(s) /\ Head(s) = t
      /\ t \in Ready /\ t \in Live /\ Live \subseteq Tid /\ Ready \subseteq Tid /\ t \notin Freed
      /\ \A q \in WaitQueues : t \notin Waiting(q)
      BY <1>1, UpFacts DEF Current, Queue_top
<1>4. /\ Tail(s) \in Seq(Tid) /\ Once(Tail(s)) /\ ToSet(Tail(s)) = Ready \ {t}
      /\ Tail(s) # << >>
      BY <1>1, <1>3, TailOnce DEF Ready
<1>5. next \in Ready /\ next # t /\ next \in Tid
  <2>1. next \in ToSet(Tail(s))
        BY <1>4, ToSetOfSeq
  <2>. QED  BY <1>3, <1>4, <2>1
<1>6. /\ thread_ReadyQueue' = Tail(s) /\ running' = next /\ interrupts' = FALSE
      /\ thread_ReadyQueue_index' = thread_ReadyQueue_index \ {t}
      /\ thread_ExitQueue' = thread_ExitQueue + 1
      /\ m_eThreadStatus' = [m_eThreadStatus EXCEPT ![t] = "none"]
      /\ pc' = [pc EXCEPT ![t] = "none"]
      /\ masked' = masked \ {t}
      /\ UNCHANGED << wait_queue, frame, badStack, destroying, ret, system >>
      BY <1>1 DEF thread_exit_self, Queue_pop, Queue_top
<1> HIDE DEF s, next
<1>7. Live' = Live \ {t} /\ Ready' = Ready \ {t} /\ Freed' = Freed
      BY <1>2, <1>3, <1>4, <1>6 DEF Live, Freed, TypeOK, Ready
<1>8. \/ pc[next] = "stub" /\ m_eThreadStatus[next] = "New"
      \/ pc[next] \in Contexts /\ m_eThreadStatus[next] = "Idle"
      BY <1>1, <1>5, NextRuns
<1>9. TypeOK'
  <2>1. /\ pc' \in [Tid -> Labels] /\ m_eThreadStatus' \in [Tid -> Status]
        BY <1>2, <1>6 DEF TypeOK, Labels, Status
  <2>2. thread_ExitQueue' \in 0 .. MaxExits
    <3>1. MaxExits \in Nat /\ thread_ExitQueue \in 0 .. MaxExits
          BY <1>2, ConstantsAssumption DEF TypeOK
    <3>. QED  BY <1>1, <1>6, <3>1
  <2>. QED  BY <1>2, <1>4, <1>5, <1>6, <2>1, <2>2 DEF TypeOK
<1>10. StatusMatchesPlace'
      BY <1>1, <1>2, <1>6, <1>7 DEF StatusMatchesPlace, TypeOK, Live
<1>11. QueuesInv'
      BY <1>2, <1>3, <1>4, <1>6, <1>7 DEF QueuesInv, Waiting, next
<1>15. DestroyInv'
      BY <1>2, <1>6, <1>7, DestroyKept DEF DestroyInv
<1>12. IndexInv'
  <2>1. \A u \in Tid \ Live' : pc'[u] = "none"
        BY <1>2, <1>6, <1>7 DEF IndexInv, TypeOK
  <2>. QED  BY <1>2, <1>3, <1>6, <1>7, <2>1 DEF IndexInv, TypeOK
<1>13. RunningInv' /\ InterruptsRestored'
      BY <1>2, <1>5, <1>6, <1>8 DEF RunningInv, InterruptsRestored, TypeOK, Contexts
<1>14. FrameInv'
  <2> SUFFICES ASSUME NEW u \in Tid, pc'[u] \in Contexts
               PROVE  pc'[u] = pc[u] /\ (u \notin masked' <=> u \notin masked)
      BY <1>2, <1>6 DEF FrameInv
  <2>1. u # t
        BY <1>2, <1>6 DEF TypeOK, Contexts
  <2>. QED  BY <1>2, <1>6, <2>1 DEF TypeOK
<1>. QED  BY <1>9, <1>10, <1>11, <1>12, <1>13, <1>14, <1>15 DEF ThreadsInv, UpInv

(* The last ready thread exits, the exit sequence ends the process, or a    *)
(* thread exits under its own identifier.                                   *)
LEMMA ExitEndsStep ==
  ASSUME ThreadsInv, NEW t \in Tid,
         thread_exit_last(t) \/ thread_stub_exit(t) \/ thread_exit_own(t)
  PROVE  ThreadsInv'
<1>1. system = "up" /\ running = t /\ Current = t /\ TypeOK /\ StatusMatchesPlace
      BY UpFacts
      DEF thread_exit_last, thread_stub_exit, thread_exit_own, MayCall, Executing, ThreadsInv
<1>2. t \in Int
      BY DEF Tid
<1>3. ASSUME system' \in {"exited", "crashed"},
             UNCHANGED << thread_ReadyQueue, thread_ExitQueue, thread_ReadyQueue_index,
                          m_eThreadStatus, wait_queue, running, pc, frame, interrupts,
                          masked, badStack, destroying, ret >>
      PROVE  ThreadsInv'
      BY <1>1, <1>3 DEF ThreadsInv, TypeOK, StatusMatchesPlace, Live
<1>4. CASE thread_exit_last(t)
  <2>1. /\ pc[t] = "user"
        /\ UNCHANGED << thread_ReadyQueue, thread_ExitQueue, thread_ReadyQueue_index,
                        m_eThreadStatus, wait_queue, running, frame, interrupts,
                        masked, badStack, destroying >>
        /\ \/ system' = "crashed" /\ UNCHANGED << pc, ret >>
           \/ /\ ret' = [call |-> "exit_self", val |-> THREAD_NONE]
              /\ pc' = [pc EXCEPT ![t] = "stub_exit"]
              /\ UNCHANGED system
        BY <1>4 DEF thread_exit_last, MayCall, Executing
  <2>2. CASE system' = "crashed" /\ UNCHANGED << pc, ret >>
        BY <1>3, <2>1, <2>2
  <2>3. CASE /\ ret' = [call |-> "exit_self", val |-> THREAD_NONE]
             /\ pc' = [pc EXCEPT ![t] = "stub_exit"]
             /\ UNCHANGED system
    <3>1. /\ "stub_exit" \in Labels \cap AfterCall /\ pc[running] \in AfterCall
          /\ interrupts' \in BOOLEAN
          /\ ret' \in [call : CallNames \cup Contexts \cup {"none"}, val : Int]
          BY <1>1, <2>1, <2>3 DEF Labels, AfterCall, TypeOK, CallNames, THREAD_NONE
    <3>. QED  BY <1>1, <2>1, <2>3, <3>1, LocalStep
  <2>. QED  BY <2>1, <2>2, <2>3
<1>5. CASE thread_stub_exit(t)
      BY <1>3, <1>5 DEF thread_stub_exit
<1>6. CASE thread_exit_own(t)
  <2>1. /\ thread_ExitQueue < MaxExits
        /\ thread_ReadyQueue' = Tail(thread_ReadyQueue)
        /\ thread_ReadyQueue_index' = thread_ReadyQueue_index \ {t}
        /\ thread_ExitQueue' = thread_ExitQueue + 1
        /\ ret' = [call |-> "exit_own", val |-> t]
        /\ system' = "lost"
        /\ UNCHANGED << m_eThreadStatus, wait_queue, masked, badStack, destroying, running, pc,
                        frame, interrupts >>
        BY <1>1, <1>6 DEF thread_exit_own, ReturnAtOnce, Queue_pop
  <2>2. thread_ExitQueue' \in 0 .. MaxExits
    <3>1. MaxExits \in Nat /\ thread_ExitQueue \in 0 .. MaxExits
          BY <1>1, ConstantsAssumption DEF TypeOK
    <3>. QED  BY <2>1, <3>1
  <2>3. thread_ReadyQueue' \in Seq(Tid)
        BY <1>1, <2>1, UpFacts, TailOnce
  <2>4. ret' \in [call : CallNames \cup Contexts \cup {"none"}, val : Int]
        BY <1>2, <2>1 DEF CallNames
  <2>5. TypeOK'
        BY <1>1, <2>1, <2>2, <2>3, <2>4 DEF TypeOK
  <2>6. StatusMatchesPlace'
        BY <1>1, <2>1 DEF StatusMatchesPlace, Live
  <2>. QED  BY <2>1, <2>5, <2>6 DEF ThreadsInv
<1>. QED  BY <1>4, <1>5, <1>6

(* The first n threads of a wait queue become ready.                        *)
LEMMA WakeStep ==
  ASSUME ThreadsInv, system = "up", NEW q \in WaitQueues, NEW n \in 0 .. Len(wait_queue[q]),
         Wake(q, n), NEW l \in Labels \cap AfterCall, pc[running] \in AfterCall,
         pc' = [pc EXCEPT ![running] = l], interrupts' \in BOOLEAN,
         l \in {"user", "destroy"} => interrupts' = (running \notin masked),
         l \notin {"user", "destroy", "stub_exit"} => ~interrupts',
         ret' \in [call : CallNames \cup Contexts \cup {"none"}, val : Int],
         UNCHANGED << running, frame, wake_rest >>
  PROVE  ThreadsInv'
<1> DEFINE s == thread_ReadyQueue
           w == wait_queue[q]
           a == SubSeq(w, 1, n)
           b == SubSeq(w, n + 1, Len(w))
<1>1. /\ TypeOK /\ QueuesInv /\ DestroyInv /\ IndexInv /\ StatusMatchesPlace /\ RunningInv
      /\ FrameInv
      /\ UNCHANGED << thread_ExitQueue, thread_ReadyQueue_index, masked, badStack >>
      BY DEF ThreadsInv, UpInv, wake_rest
<1>2. /\ s \in Seq(Tid) /\ s # << >> /\ Once(s) /\ Head(s) = running
      /\ running \in Ready /\ running \in Tid /\ running \in Live
      /\ Live \subseteq Tid /\ Ready \subseteq Tid
      /\ w \in Seq(Tid) /\ Once(w) /\ Waiting(q) \subseteq Live \cup Freed
      /\ running \notin Freed
      /\ \A r \in WaitQueues : running \notin Waiting(r)
      BY UpFacts DEF Current, Queue_top
<1>3. /\ a \in Seq(Tid) /\ b \in Seq(Tid) /\ Once(a) /\ Once(b)
      /\ ToSet(a) \cap ToSet(b) = {} /\ ToSet(a) \cup ToSet(b) = Waiting(q)
  <2>1. n \in 0 .. Len(w) /\ Waiting(q) = ToSet(w)
        BY DEF Waiting
  <2> HIDE DEF w
  <2>2. a = SubSeq(w, 1, n) /\ b = SubSeq(w, n + 1, Len(w))
        OBVIOUS
  <2> HIDE DEF a, b
  <2>3. w \in Seq(Tid) /\ Once(w)
        BY <1>2
  <2>. QED  BY ONLY <2>1, <2>2, <2>3, SplitOnce
<1>4. /\ thread_ReadyQueue' = s \o a
      /\ wait_queue' = [wait_queue EXCEPT ![q] = b]
      /\ m_eThreadStatus' =
           [u \in Tid |-> IF u \in ToSet(a) \ Freed THEN "Idle" ELSE m_eThreadStatus[u]]
      /\ destroying' = [u \in Tid |-> IF n > 0 /\ destroying[u] = [wq |-> q, at |-> "free"]
                                     THEN [wq |-> q, at |-> "stray"] ELSE destroying[u]]
      /\ system' = IF ToSet(a) \cap Freed = {} THEN "up" ELSE "lost"
      BY DEF Wake, Woken, WakeDoomed
<1> HIDE DEF s, w, a, b
<1>5. /\ s \o a \in Seq(Tid) /\ ToSet(s \o a) = Ready \cup ToSet(a)
      /\ Once(s \o a) /\ s \o a # << >> /\ Head(s \o a) = running
  <2>1. ToSet(s) = Ready /\ ToSet(s) \cap ToSet(a) = {}
        BY <1>1, <1>3 DEF QueuesInv, Ready, s
  <2>. QED  BY <1>2, <1>3, <2>1, ConcatOnce
<1>6. ASSUME NEW r \in WaitQueues
      PROVE  /\ Waiting(r)' = IF r = q THEN ToSet(b) ELSE Waiting(r)
             /\ Once(wait_queue'[r])
  <2>1. wait_queue'[r] = IF r = q THEN b ELSE wait_queue[r]
        BY <1>1, <1>4 DEF TypeOK
  <2>. QED  BY <1>1, <1>3, <2>1 DEF Waiting, QueuesInv
<1>7. Ready' = Ready \cup ToSet(a)
      BY <1>4, <1>5 DEF Ready
<1>8. ToSet(a) \subseteq Live \cup Freed /\ ToSet(a) \subseteq Tid /\ Freed \cap Live = {}
      BY <1>2, <1>3, UpFacts
<1>9. Live' = Live /\ Freed' = Freed
      BY <1>4, <1>8 DEF Live, Freed
<1>10. TypeOK'
  <2>1. /\ wait_queue' \in [WaitQueues -> Seq(Tid)] /\ m_eThreadStatus' \in [Tid -> Status]
        BY <1>1, <1>3, <1>4 DEF TypeOK, Status
  <2>2. pc' \in [Tid -> Labels]
        BY <1>1 DEF TypeOK
  <2>3. thread_ReadyQueue' \in Seq(Tid)
        BY <1>4, <1>5
  <2>4. destroying' \in [Tid -> [wq : WaitQueues \cup {NoQueue}, at : Instructions]]
        BY <1>1, <1>4 DEF TypeOK, Instructions
  <2>. QED  BY <1>1, <1>4, <2>1, <2>2, <2>3, <2>4 DEF TypeOK
<1>11. QueuesInv'
  <2>1. thread_ReadyQueue' # << >> /\ Head(thread_ReadyQueue') = running' /\ Once(thread_ReadyQueue')
        BY <1>4, <1>5
  <2>2. ASSUME NEW r \in WaitQueues
        PROVE  Once(wait_queue'[r]) /\ Ready' \cap Waiting(r)' = {}
        BY <1>1, <1>3, <1>6, <1>7 DEF QueuesInv
  <2>3. ASSUME NEW p \in WaitQueues, NEW r \in WaitQueues, p # r
        PROVE  Waiting(p)' \cap Waiting(r)' = {}
        BY <1>1, <1>3, <1>6, <2>3 DEF QueuesInv
  <2>4. ASSUME NEW u \in Tid
        PROVE  u \in Live' \cup Freed' <=> u \in Ready' \/ \E r \in WaitQueues : u \in Waiting(r)'
    <3>1. u \in Live \cup Freed <=> u \in Ready \/ \E r \in WaitQueues : u \in Waiting(r)
          BY <1>1 DEF QueuesInv
    <3>2. (\E r \in WaitQueues : u \in Waiting(r)) =>
             u \in ToSet(a) \/ \E r \in WaitQueues : u \in Waiting(r)'
          BY <1>3, <1>6
    <3>3. (\E r \in WaitQueues : u \in Waiting(r)') => \E r \in WaitQueues : u \in Waiting(r)
          BY <1>3, <1>6
    <3>. QED  BY <1>7, <1>8, <1>9, <3>1, <3>2, <3>3
  <2>. QED  BY <2>1, <2>2, <2>3, <2>4 DEF QueuesInv
<1>12. l \notin Contexts /\ l # "none" /\ l # "stub"
      BY DEF AfterCall, Contexts
<1>13. IndexInv'
      BY <1>1, <1>2, <1>8, <1>9, <1>12 DEF IndexInv, TypeOK
<1>14. RunningInv' /\ InterruptsRestored'
  <2>1. m_eThreadStatus'[running] = m_eThreadStatus[running] /\ pc'[running] = l
        BY <1>1, <1>2, <1>3, <1>4 DEF TypeOK
  <2>. QED  BY <1>1, <2>1 DEF RunningInv, InterruptsRestored, AfterCall, Contexts
<1>15. FrameInv'
  <2> SUFFICES ASSUME NEW u \in Tid, pc'[u] \in Contexts
               PROVE  pc'[u] = pc[u]
      BY <1>1 DEF FrameInv
  <2>. QED  BY <1>1, <1>2, <1>12 DEF TypeOK
<1>17. ASSUME system' = "up" PROVE DestroyInv'
  <2>1. ToSet(a) \cap Freed = {}
        BY <1>4, <1>17
  <2>2. Ready' \cap Freed' = {}
        BY <1>1, <1>7, <1>9, <2>1 DEF DestroyInv
  <2>3. n > 0 => w # << >> /\ Head(w) \in ToSet(a)
    <3> SUFFICES ASSUME n > 0 PROVE w # << >> /\ Head(w) \in ToSet(a)
        OBVIOUS
    <3>1. n \in 1 .. Len(w) /\ w \in Seq(Tid) /\ Len(w) \in Nat
          BY <1>2, LenProperties DEF w
    <3>2. w # << >> /\ Head(w) = w[1]
          BY <3>1, EmptySeq, ToSetOfSeq
    <3>3. a \in Seq(Tid) /\ Len(a) = n /\ a[1] = w[1]
      <4>1. a = SubSeq(w, 1, n) /\ Once(w)
            BY <1>2 DEF a, w
      <4>2. n \in 0 .. Len(w) /\ 1 \in 1 .. n
            BY <3>1
      <4>. QED  BY <3>1, <4>1, <4>2, SplitOnce
    <3>4. 1 \in 1 .. Len(a)
          BY <3>1, <3>3
    <3>. QED  BY <3>2, <3>3, <3>4, ToSetOfSeq
  <2>4. n > 0 => Waiting(q) \cap Freed = {} /\ \A u \in Tid : destroying[u].wq = q => destroying[u].at # "pop"
        BY <1>1, <2>1, <2>3 DEF DestroyInv, w
  <2>5. n = 0 => wait_queue' = wait_queue /\ destroying' = destroying
    <3>1. ASSUME n = 0 PROVE b = w
          BY <1>2, <3>1, SplitOnce, SubSeqFull DEF b, w
    <3>. QED  BY <1>1, <1>4, <3>1 DEF TypeOK, w
  <2>6. CASE n = 0
        BY <1>1, <1>9, <2>2, <2>5, <2>6 DEF DestroyInv, Waiting
  <2>7. CASE n > 0
    <3>1. ASSUME NEW r \in WaitQueues, NEW u \in Waiting(r)' \cap Freed'
          PROVE  u = Head(wait_queue'[r])
          BY <1>1, <1>3, <1>4, <1>6, <1>9, <2>4, <2>7, <3>1 DEF DestroyInv, TypeOK
    <3>2. ASSUME NEW u \in Tid
          PROVE  /\ destroying'[u].wq = destroying[u].wq
                 /\ destroying'[u].at # "none" <=> destroying[u].at # "none"
                 /\ destroying'[u].at \in {"free", "pop"} =>
                      destroying'[u].at = destroying[u].at /\ destroying[u].wq # q
      <4>1. destroying[u] = [wq |-> destroying[u].wq, at |-> destroying[u].at]
            BY <1>1 DEF TypeOK
      <4>2. destroying'[u] = IF destroying[u] = [wq |-> q, at |-> "free"]
                             THEN [wq |-> q, at |-> "stray"] ELSE destroying[u]
            BY <1>4, <2>7
      <4>. QED  BY <2>4, <2>7, <4>1, <4>2
    <3>3. \A r \in WaitQueues : r # q => wait_queue'[r] = wait_queue[r]
          BY <1>1, <1>4 DEF TypeOK
    <3>. QED  BY <1>1, <1>9, <2>2, <3>1, <3>2, <3>3 DEF DestroyInv
  <2>. QED  BY <2>6, <2>7
<1>16. StatusMatchesPlace'
  <2> SUFFICES ASSUME NEW u \in Live, u # running
               PROVE  /\ (m_eThreadStatus'[u] = "Sleep") <=> (\E r \in WaitQueues : u \in Waiting(r)')
                      /\ (m_eThreadStatus'[u] = "New") <=> (pc'[u] = "stub")
                      /\ m_eThreadStatus'[u] # "Run"
                      /\ pc'[u] \in Contexts \cup {"stub"}
      BY <1>1, <1>9 DEF StatusMatchesPlace, Waiting
  <2>1. u \in Tid /\ pc'[u] = pc[u]
        BY <1>1, <1>2 DEF TypeOK
  <2>2. /\ (m_eThreadStatus[u] = "Sleep") <=> (\E r \in WaitQueues : u \in Waiting(r))
        /\ (m_eThreadStatus[u] = "New") <=> (pc[u] = "stub")
        /\ m_eThreadStatus[u] # "Run"
        /\ pc[u] \in Contexts \cup {"stub"}
        BY <1>1 DEF StatusMatchesPlace, Waiting
  <2>3. CASE u \in ToSet(a)
    <3>1. m_eThreadStatus'[u] = "Idle"
          BY <1>4, <1>8, <2>1, <2>3
    <3>2. u \in Waiting(q) /\ m_eThreadStatus[u] = "Sleep"
          BY <1>3, <2>2, <2>3
    <3>3. \A r \in WaitQueues : u \notin Waiting(r)'
          BY <1>1, <1>3, <1>6, <2>3, <3>2 DEF QueuesInv
    <3>. QED  BY <2>1, <2>2, <3>1, <3>2, <3>3
  <2>4. CASE u \notin ToSet(a)
    <3>1. m_eThreadStatus'[u] = m_eThreadStatus[u]
          BY <1>4, <2>1, <2>4
    <3>2. \A r \in WaitQueues : u \in Waiting(r)' <=> u \in Waiting(r)
          BY <1>3, <1>6, <2>4
    <3>. QED  BY <2>1, <2>2, <3>1, <3>2
  <2>. QED  BY <2>3, <2>4
<1>. QED  BY <1>10, <1>11, <1>13, <1>14, <1>15, <1>16, <1>17 DEF ThreadsInv, UpInv

(* thread_wakeup. *)
LEMMA ProgramWakeStep ==
  ASSUME ThreadsInv, NEW t \in Tid, thread_wakeup(t)
  PROVE  ThreadsInv'
<1>1. system = "up" /\ running = t /\ pc[t] = "user" /\ TypeOK
      BY DEF thread_wakeup, MayCall, Executing, ThreadsInv
<1>2. PICK q \in WaitQueues :
        \E n \in {0, 1, Len(wait_queue[q])} :
          /\ n = 1 => wait_queue[q] # << >>
          /\ Wake(q, n)
          /\ \E c \in {"wakeup_one", "wakeup_all"} : ReturnAtOnce(c, n)
  <2>1. PICK q \in WaitQueues :
          \/ LET n == IF wait_queue[q] = << >> THEN 0 ELSE 1
             IN  Wake(q, n) /\ ReturnAtOnce("wakeup_one", n)
          \/ LET n == Len(wait_queue[q])
             IN  Wake(q, n) /\ ReturnAtOnce("wakeup_all", n)
        BY DEF thread_wakeup
  <2>2. Len(wait_queue[q]) = 1 => wait_queue[q] # << >>
    <3>1. wait_queue[q] \in Seq(Tid)
          BY <1>1, UpFacts
    <3>2. wait_queue[q] = << >> => Len(wait_queue[q]) = 0
          OBVIOUS
    <3>. QED  BY <3>2
  <2>. QED  BY <2>1, <2>2
<1>3. wait_queue[q] \in Seq(Tid) /\ Len(wait_queue[q]) \in Nat
      BY <1>1, UpFacts, LenProperties
<1>7. PICK n \in {0, 1, Len(wait_queue[q])} :
        /\ n = 1 => wait_queue[q] # << >>
        /\ Wake(q, n)
        /\ \E c \in {"wakeup_one", "wakeup_all"} : ReturnAtOnce(c, n)
      BY <1>2
<1>4. n \in 0 .. Len(wait_queue[q]) /\ n \in Int
      BY <1>3, <1>7, EmptySeq
<1>5. /\ UNCHANGED << running, pc, frame, interrupts, wake_rest >>
      /\ ret' \in [call : CallNames \cup Contexts \cup {"none"}, val : Int]
      BY <1>4, <1>7 DEF thread_wakeup, ReturnAtOnce, CallNames
<1>6. /\ "user" \in Labels \cap AfterCall /\ pc[running] \in AfterCall
      /\ pc' = [pc EXCEPT ![running] = "user"] /\ interrupts' \in BOOLEAN
      /\ interrupts' = (running \notin masked)
      BY <1>1, <1>5, FirstOrResumed DEF Labels, AfterCall, TypeOK
<1>. QED  BY <1>1, <1>4, <1>5, <1>6, <1>7, WakeStep

(* wait_queue_destroy begins: nobody else destroys the queue.               *)
LEMMA BeginDestroyStep ==
  ASSUME ThreadsInv, NEW t \in Tid, Executing(t, "user"),
         NEW q \in WaitQueues, BeginDestroy(t, q)
  PROVE  ThreadsInv'
<1>1. /\ system = "up" /\ running = t /\ pc[t] = "user"
      /\ pc' = [pc EXCEPT ![t] = "destroy"]
      /\ destroying' = [destroying EXCEPT ![t] = [wq |-> q, at |-> "test"]]
      /\ \A u \in Tid : destroying[u].wq # q
      /\ UNCHANGED << thread_ReadyQueue, thread_ExitQueue, thread_ReadyQueue_index,
                      m_eThreadStatus, wait_queue, running, frame, interrupts, masked,
                      badStack, ret, system >>
      BY DEF BeginDestroy, destroy_rest, Executing
<1>2. TypeOK /\ DestroyInv
      BY <1>1 DEF ThreadsInv, UpInv
<1>3. /\ "destroy" \in Labels \cap AfterCall /\ pc[running] \in AfterCall
      /\ interrupts' \in BOOLEAN /\ interrupts' = (running \notin masked)
      /\ ret' \in [call : CallNames \cup Contexts \cup {"none"}, val : Int]
      BY <1>1, <1>2, FirstOrResumed DEF Labels, AfterCall, TypeOK
<1>4. destroying' \in [Tid -> [wq : WaitQueues \cup {NoQueue}, at : Instructions]]
      BY <1>1, <1>2 DEF TypeOK, Instructions
<1>5. DestroyInv'
  <2>1. Ready' \cap Freed' = {} /\ Freed' = Freed
        BY <1>1, <1>2 DEF DestroyInv, Ready, Freed
  <2>2. \A u \in Tid : destroying'[u] = IF u = t THEN [wq |-> q, at |-> "test"] ELSE destroying[u]
        BY <1>1, <1>2 DEF TypeOK
  <2>. QED  BY <1>1, <1>2, <2>1, <2>2 DEF DestroyInv, Waiting
<1>. QED  BY <1>1, <1>3, <1>4, <1>5, LoopStep

(* The loop tests the queue, and reads its top.                             *)
LEMMA DestroyLoopStep ==
  ASSUME ThreadsInv, NEW t \in Tid, destroy_test(t) \/ destroy_top(t)
  PROVE  ThreadsInv'
<1> DEFINE wq == destroying[t].wq
<1>1. /\ system = "up" /\ running = t /\ pc[t] = "destroy" /\ destroying[t].at \in {"test", "top"}
      /\ UNCHANGED << thread_ReadyQueue, thread_ExitQueue, thread_ReadyQueue_index,
                      m_eThreadStatus, wait_queue, running, frame, interrupts, masked,
                      badStack, ret >>
      /\ \/ /\ wait_queue[wq] # << >> /\ UNCHANGED << pc, system >>
            /\ \E at \in {"top", "free"} : destroying' = [destroying EXCEPT ![t].at = at]
         \/ /\ destroying' = [destroying EXCEPT ![t] = NoDestroy] /\ UNCHANGED system
            /\ pc' = [pc EXCEPT ![t] = "user"]
         \/ system' = "crashed" /\ UNCHANGED << pc, destroying >>
      BY DEF destroy_test, destroy_top, DestroyAt, destroy_rest, Executing
<1>2. TypeOK /\ DestroyInv /\ StatusMatchesPlace
      BY <1>1 DEF ThreadsInv, UpInv
<1>3. CASE system' = "crashed" /\ UNCHANGED << pc, destroying >>
      BY <1>1, <1>2, <1>3 DEF ThreadsInv, TypeOK, StatusMatchesPlace, Live
<1>4. ASSUME NEW d \in [wq : WaitQueues \cup {NoQueue}, at : Instructions],
             d = NoDestroy \/ (wait_queue[wq] # << >> /\ d.wq = wq /\ d.at \in {"top", "free"}),
             destroying' = [destroying EXCEPT ![t] = d],
             NEW l \in {"user", "destroy"}, pc' = [pc EXCEPT ![t] = l], UNCHANGED system
      PROVE  ThreadsInv'
  <2>1. destroying' \in [Tid -> [wq : WaitQueues \cup {NoQueue}, at : Instructions]]
        BY <1>2, <1>4 DEF TypeOK
  <2>2. DestroyInv'
    <3>1. Ready' \cap Freed' = {} /\ Freed' = Freed
          BY <1>1, <1>2 DEF DestroyInv, Ready, Freed
    <3>2. \A u \in Tid : destroying'[u] = IF u = t THEN d ELSE destroying[u]
          BY <1>2, <1>4 DEF TypeOK
    <3>3. d.at # "none" => d.wq = wq /\ wait_queue[wq] # << >> /\ d.at # "pop"
          BY <1>4 DEF NoDestroy
    <3>. QED  BY <1>1, <1>2, <3>1, <3>2, <3>3 DEF DestroyInv, Waiting
  <2>3. /\ l \in Labels \cap AfterCall /\ pc[running] \in AfterCall
        /\ interrupts' \in BOOLEAN /\ interrupts' = (running \notin masked)
        /\ ret' \in [call : CallNames \cup Contexts \cup {"none"}, val : Int]
        BY <1>1, <1>2, FirstOrResumed DEF Labels, AfterCall, TypeOK
  <2>. QED  BY <1>1, <1>4, <2>1, <2>2, <2>3, LoopStep
<1>5. CASE /\ wait_queue[wq] # << >> /\ UNCHANGED << pc, system >>
           /\ \E at \in {"top", "free"} : destroying' = [destroying EXCEPT ![t].at = at]
  <2>1. PICK at \in {"top", "free"} : destroying' = [destroying EXCEPT ![t].at = at]
        BY <1>5
  <2>2. destroying[t] \in [wq : WaitQueues \cup {NoQueue}, at : Instructions]
        BY <1>2 DEF TypeOK
  <2>3. destroying' = [destroying EXCEPT ![t] = [wq |-> wq, at |-> at]]
    <3>1. [destroying[t] EXCEPT !.at = at] = [wq |-> wq, at |-> at]
          BY <2>2
    <3>. QED  BY <2>1, <3>1
  <2>4. pc' = [pc EXCEPT ![t] = "destroy"]
        BY <1>1, <1>2, <1>5 DEF TypeOK
  <2>5. [wq |-> wq, at |-> at] \in [wq : WaitQueues \cup {NoQueue}, at : Instructions]
        BY <2>2 DEF Instructions
  <2>. QED  BY <1>4, <1>5, <2>3, <2>4, <2>5
<1>6. CASE /\ destroying' = [destroying EXCEPT ![t] = NoDestroy] /\ UNCHANGED system
           /\ pc' = [pc EXCEPT ![t] = "user"]
  <2>1. NoDestroy \in [wq : WaitQueues \cup {NoQueue}, at : Instructions]
        BY DEF NoDestroy, Instructions
  <2>. QED  BY <1>4, <1>6, <2>1
<1>. QED  BY <1>1, <1>3, <1>5, <1>6

(* thread_free: the top of the queue is no thread any more, but stays there.*)
LEMMA DestroyFreeStep ==
  ASSUME ThreadsInv, NEW t \in Tid, destroy_free(t)
  PROVE  ThreadsInv' /\ \E top \in Live \ {running} :
           /\ top \notin Ready /\ Live' = Live \ {top} /\ pc' = [pc EXCEPT ![top] = "none"]
           /\ frame' = [frame EXCEPT ![top] = NoFrame]
           /\ top \in Waiting(destroying[t].wq) /\ destroying[t].wq \in WaitQueues
<1> DEFINE wq  == destroying[t].wq
           top == Head(wait_queue[wq])
<1>1. /\ system = "up" /\ running = t /\ pc[t] = "destroy" /\ destroying[t].at = "free"
      /\ top \notin Freed /\ system' \in {"up", "crashed"}
      /\ m_eThreadStatus' = [m_eThreadStatus EXCEPT ![top] = "Freed"]
      /\ pc' = [pc EXCEPT ![top] = "none"]
      /\ frame' = [frame EXCEPT ![top] = NoFrame]
      /\ destroying' = [destroying EXCEPT ![t].at = "pop"]
      /\ UNCHANGED << thread_ReadyQueue, thread_ExitQueue, thread_ReadyQueue_index,
                      wait_queue, running, interrupts, masked, badStack, ret >>
      BY DEF destroy_free, DestroyAt, destroy_rest, Executing, Queue_top
<1>2. /\ TypeOK /\ QueuesInv /\ DestroyInv /\ IndexInv /\ StatusMatchesPlace /\ RunningInv
      /\ FrameInv /\ InterruptsRestored
      BY <1>1 DEF ThreadsInv, UpInv
<1>3. wq \in WaitQueues /\ wait_queue[wq] # << >>
      BY <1>1, <1>2 DEF DestroyInv
<1>4. top \in Waiting(wq)
      BY <1>2, <1>3, ToSetOfSeq DEF TypeOK, Waiting
<1>5. top \in Live /\ top \in Tid /\ top \notin Ready /\ top # running
      BY <1>1, <1>3, <1>4, UpFacts
<1> HIDE DEF top
<1>6. Live' = Live \ {top} /\ Freed' = Freed \cup {top} /\ Ready' = Ready
      BY <1>1, <1>2, <1>5 DEF Live, Freed, TypeOK, Ready
<1>7. \A u \in Tid : destroying'[u] =
        IF u = t THEN [wq |-> wq, at |-> "pop"] ELSE destroying[u]
      BY <1>1, <1>2 DEF TypeOK
<1>8. TypeOK'
  <2>1. /\ pc' \in [Tid -> Labels] /\ m_eThreadStatus' \in [Tid -> Status]
        /\ frame' \in [Tid -> Frames]
    <3>1. NoFrame \in Frames
          BY DEF NoFrame, Frames, Labels, THREAD_NONE
    <3>. QED  BY <1>1, <1>2, <3>1 DEF TypeOK, Labels, Status, Frames
  <2>2. destroying' \in [Tid -> [wq : WaitQueues \cup {NoQueue}, at : Instructions]]
    <3>1. [wq |-> wq, at |-> "pop"] \in [wq : WaitQueues \cup {NoQueue}, at : Instructions]
          BY <1>3 DEF Instructions
    <3>2. destroying' = [u \in Tid |-> destroying'[u]]
          BY <1>1, <1>2 DEF TypeOK
    <3>. QED  BY <1>2, <1>7, <3>1, <3>2 DEF TypeOK
  <2>. QED  BY <1>1, <1>2, <2>1, <2>2 DEF TypeOK, Frames
<1>9. StatusMatchesPlace'
  <2>1. \A u \in Live' : u \in Live /\ u \in Tid /\ m_eThreadStatus'[u] = m_eThreadStatus[u] /\ pc'[u] = pc[u]
        BY <1>1, <1>2, <1>6 DEF TypeOK, Live
  <2>. QED  BY <1>1, <1>2, <2>1 DEF StatusMatchesPlace
<1>10. QueuesInv' /\ IndexInv'
  <2>1. \A u \in Tid \ Live' : pc'[u] = "none"
        BY <1>1, <1>2, <1>6 DEF IndexInv, TypeOK
  <2>2. Live' \cup Freed' = Live \cup Freed
        BY <1>5, <1>6
  <2>3. \A u \in Tid : pc'[u] = "stub" => pc[u] = "stub"
        BY <1>1, <1>2 DEF TypeOK
  <2>. QED  BY <1>1, <1>2, <1>6, <2>1, <2>2, <2>3 DEF QueuesInv, IndexInv, Waiting
<1>11. DestroyInv'
  <2>1. \A r \in WaitQueues : top \in Waiting(r) => r = wq
        BY <1>2, <1>3, <1>4 DEF QueuesInv
  <2>2. Ready' \cap Freed' = {}
        BY <1>2, <1>5, <1>6 DEF DestroyInv
  <2>3. \A r \in WaitQueues : \A u \in Waiting(r) \cap Freed' : u = Head(wait_queue[r])
        BY <1>2, <1>6, <2>1 DEF DestroyInv, top
  <2>4. \A u \in Tid : /\ destroying'[u].wq = destroying[u].wq
                       /\ destroying'[u].at # "none" => destroying[u].at # "none"
                       /\ destroying'[u].at \in {"free", "pop"} => destroying[u].at \in {"free", "pop"}
        BY <1>1, <1>7
  <2>5. \A u \in Tid : destroying'[u].at = "pop" => Head(wait_queue[destroying[u].wq]) \in Freed'
        BY <1>2, <1>6, <1>7 DEF DestroyInv, top
  <2>. QED  BY <1>1, <1>2, <2>2, <2>3, <2>4, <2>5 DEF DestroyInv, Waiting
<1>12. RunningInv' /\ InterruptsRestored'
      BY <1>1, <1>2, <1>5 DEF RunningInv, InterruptsRestored, TypeOK
<1>13. FrameInv'
  <2> SUFFICES ASSUME NEW u \in Tid, pc'[u] \in Contexts
               PROVE  pc'[u] = pc[u] /\ frame'[u] = frame[u]
      BY <1>1, <1>2 DEF FrameInv
  <2>1. u # top
        BY <1>1, <1>2 DEF TypeOK, Contexts
  <2>. QED  BY <1>1, <1>2, <2>1 DEF TypeOK
<1>. QED  BY <1>1, <1>3, <1>4, <1>5, <1>6, <1>8, <1>9, <1>10, <1>11, <1>12, <1>13 DEF ThreadsInv, UpInv

(* Queue_pop: the freed block leaves the queue.                             *)
LEMMA DestroyPopStep ==
  ASSUME ThreadsInv, NEW t \in Tid, destroy_pop(t)
  PROVE  /\ ThreadsInv' /\ Live' = Live
         /\ \A r \in WaitQueues : Waiting(r)' \subseteq Waiting(r)
         /\ \A r \in WaitQueues : r # destroying[t].wq => wait_queue'[r] = wait_queue[r]
         /\ destroying[t].wq \in WaitQueues
<1> DEFINE wq  == destroying[t].wq
           w   == wait_queue[wq]
           top == Head(w)
<1>1. /\ system = "up" /\ running = t /\ pc[t] = "destroy" /\ destroying[t].at = "pop"
      /\ wait_queue' = [wait_queue EXCEPT ![wq] = Tail(w)]
      /\ m_eThreadStatus' = [m_eThreadStatus EXCEPT ![top] = "none"]
      /\ destroying' = [destroying EXCEPT ![t].at = "test"]
      /\ UNCHANGED << thread_ReadyQueue, thread_ExitQueue, thread_ReadyQueue_index,
                      running, pc, frame, interrupts, masked, badStack, ret, system >>
      BY DEF destroy_pop, DestroyAt, destroy_rest, Executing, Queue_top, Queue_pop
<1>2. /\ TypeOK /\ QueuesInv /\ DestroyInv /\ IndexInv /\ StatusMatchesPlace /\ RunningInv
      /\ FrameInv /\ InterruptsRestored
      BY <1>1 DEF ThreadsInv, UpInv
<1>3. wq \in WaitQueues /\ w # << >> /\ top \in Freed /\ w \in Seq(Tid) /\ Once(w)
      BY <1>1, <1>2 DEF DestroyInv, QueuesInv, TypeOK
<1>4. Tail(w) \in Seq(Tid) /\ Once(Tail(w)) /\ ToSet(Tail(w)) = Waiting(wq) \ {top} /\ top \in Waiting(wq)
      BY <1>3, TailOnce DEF Waiting
<1> HIDE DEF top, w
<1>5. top \in Tid /\ top \notin Live /\ top # running
      BY <1>1, <1>3, UpFacts
<1>6. Live' = Live /\ Freed' = Freed \ {top} /\ Ready' = Ready
      BY <1>1, <1>2, <1>3, <1>5 DEF Live, Freed, TypeOK, Ready
<1>7. \A u \in Tid : destroying'[u] =
        IF u = t THEN [wq |-> wq, at |-> "test"] ELSE destroying[u]
      BY <1>1, <1>2 DEF TypeOK
<1>8. ASSUME NEW r \in WaitQueues
      PROVE  /\ wait_queue'[r] = IF r = wq THEN Tail(w) ELSE wait_queue[r]
             /\ Waiting(r)' = Waiting(r) \ {top} /\ Once(wait_queue'[r])
  <2>1. wait_queue'[r] = IF r = wq THEN Tail(w) ELSE wait_queue[r]
        BY <1>1, <1>2 DEF TypeOK
  <2>2. r # wq => top \notin Waiting(r)
        BY <1>2, <1>3, <1>4 DEF QueuesInv
  <2>. QED  BY <1>2, <1>4, <2>1, <2>2 DEF Waiting, QueuesInv
<1>9. TypeOK'
  <2>1. /\ m_eThreadStatus' \in [Tid -> Status] /\ wait_queue' \in [WaitQueues -> Seq(Tid)]
        BY <1>1, <1>2, <1>4 DEF TypeOK, Status
  <2>2. destroying' \in [Tid -> [wq : WaitQueues \cup {NoQueue}, at : Instructions]]
    <3>1. [wq |-> wq, at |-> "test"] \in [wq : WaitQueues \cup {NoQueue}, at : Instructions]
          BY <1>3 DEF Instructions
    <3>2. destroying' = [u \in Tid |-> destroying'[u]]
          BY <1>1, <1>2 DEF TypeOK
    <3>. QED  BY <1>2, <1>7, <3>1, <3>2 DEF TypeOK
  <2>. QED  BY <1>1, <1>2, <2>1, <2>2 DEF TypeOK
<1>10. StatusMatchesPlace'
  <2> SUFFICES ASSUME NEW u \in Live, u # running
               PROVE  /\ (m_eThreadStatus'[u] = "Sleep") <=> (\E r \in WaitQueues : u \in Waiting(r)')
                      /\ (m_eThreadStatus'[u] = "New") <=> (pc'[u] = "stub")
                      /\ m_eThreadStatus'[u] # "Run"
                      /\ pc'[u] \in Contexts \cup {"stub"}
      BY <1>1, <1>6 DEF StatusMatchesPlace, Waiting
  <2>1. u # top /\ m_eThreadStatus'[u] = m_eThreadStatus[u] /\ pc'[u] = pc[u]
        BY <1>1, <1>2, <1>5 DEF TypeOK, Live
  <2>2. \A r \in WaitQueues : u \in Waiting(r)' <=> u \in Waiting(r)
        BY <1>8, <2>1
  <2>. QED  BY <1>2, <2>1, <2>2 DEF StatusMatchesPlace, Waiting
<1>11. QueuesInv'
  <2>1. thread_ReadyQueue' # << >> /\ Head(thread_ReadyQueue') = running' /\ Once(thread_ReadyQueue')
        BY <1>1, <1>2 DEF QueuesInv
  <2>2. \A r \in WaitQueues : Once(wait_queue'[r]) /\ Ready' \cap Waiting(r)' = {}
        BY <1>2, <1>6, <1>8 DEF QueuesInv
  <2>3. \A r, v \in WaitQueues : r # v => Waiting(r)' \cap Waiting(v)' = {}
        BY <1>2, <1>8 DEF QueuesInv
  <2>4. ASSUME NEW u \in Tid
        PROVE  u \in Live' \cup Freed' <=> u \in Ready' \/ \E r \in WaitQueues : u \in Waiting(r)'
    <3>1. top \notin Ready
          BY <1>2, <1>3 DEF DestroyInv
    <3>. QED  BY <1>2, <1>5, <1>6, <1>8, <3>1 DEF QueuesInv
  <2>. QED  BY <2>1, <2>2, <2>3, <2>4 DEF QueuesInv
<1>12. DestroyInv'
  <2>1. Ready' \cap Freed' = {}
        BY <1>2, <1>6 DEF DestroyInv
  <2>2. ASSUME NEW r \in WaitQueues, NEW u \in Waiting(r)' \cap Freed'
        PROVE  u = Head(wait_queue'[r])
    <3>1. u \in Waiting(r) /\ u \in Freed /\ u # top
          BY <1>6, <1>8, <2>2
    <3>2. r # wq
          BY <1>2, <3>1 DEF DestroyInv, top, w
    <3>. QED  BY <1>2, <1>8, <3>1, <3>2 DEF DestroyInv
  <2>3. ASSUME NEW u \in Tid, destroying'[u].at # "none"
        PROVE  /\ destroying'[u].wq = destroying[u].wq /\ destroying[u].at # "none"
               /\ destroying[u].wq \in WaitQueues
        BY <1>1, <1>2, <1>7, <2>3 DEF DestroyInv
  <2>4. ASSUME NEW u \in Tid, destroying'[u].at \in {"free", "pop"}
        PROVE  /\ u # t /\ destroying'[u] = destroying[u] /\ destroying[u].wq # wq
               /\ wait_queue'[destroying[u].wq] = wait_queue[destroying[u].wq]
               /\ destroying[u].wq \in WaitQueues
        BY <1>1, <1>2, <1>7, <1>8, <2>4 DEF DestroyInv
  <2>5. ASSUME NEW u \in Tid, destroying'[u].at = "pop"
        PROVE  Head(wait_queue'[destroying'[u].wq]) \in Freed'
    <3>1. /\ Head(wait_queue[destroying[u].wq]) \in Freed /\ wait_queue[destroying[u].wq] # << >>
          /\ destroying[u].wq # wq /\ destroying[u].wq \in WaitQueues
          BY <1>2, <2>4, <2>5 DEF DestroyInv
    <3>2. Head(wait_queue[destroying[u].wq]) \in Waiting(destroying[u].wq)
          BY <1>2, <3>1, ToSetOfSeq DEF TypeOK, Waiting
    <3>3. Head(wait_queue[destroying[u].wq]) # top
          BY <1>2, <1>3, <1>4, <3>1, <3>2 DEF QueuesInv
    <3>. QED  BY <1>6, <2>4, <2>5, <3>1, <3>3
  <2>6. ASSUME NEW u \in Tid, NEW v \in Tid, destroying'[u].at # "none", destroying'[v].at # "none",
               destroying'[u].wq = destroying'[v].wq
        PROVE  v = u
        BY <1>2, <2>3, <2>6 DEF DestroyInv
  <2>7. \A u \in Tid : destroying'[u].at \in {"free", "pop"} => wait_queue'[destroying'[u].wq] # << >>
        BY <1>2, <2>4 DEF DestroyInv
  <2>8. \A u \in Tid : destroying'[u].at # "none" => destroying'[u].wq \in WaitQueues
        BY <2>3
  <2>. QED  BY <2>1, <2>2, <2>5, <2>6, <2>7, <2>8 DEF DestroyInv
<1>13. IndexInv' /\ RunningInv' /\ FrameInv' /\ InterruptsRestored'
  <2>1. m_eThreadStatus'[running] = m_eThreadStatus[running]
        BY <1>1, <1>2, <1>5 DEF TypeOK
  <2>. QED  BY <1>1, <1>2, <1>6, <2>1 DEF IndexInv, RunningInv, FrameInv, InterruptsRestored
<1>. QED  BY <1>1, <1>3, <1>6, <1>8, <1>9, <1>10, <1>11, <1>12, <1>13 DEF ThreadsInv, UpInv

(* thread_free of the wrong block: the process is lost.                     *)
LEMMA DestroyWrongStep ==
  ASSUME ThreadsInv, NEW t \in Tid, destroy_free_wrong(t)
  PROVE  ThreadsInv'
<1>1. /\ system = "up" /\ system' = "lost"
      /\ UNCHANGED << thread_ReadyQueue, thread_ExitQueue, thread_ReadyQueue_index,
                      m_eThreadStatus, wait_queue, running, pc, frame, interrupts,
                      masked, badStack, destroying, ret >>
      BY DEF destroy_free_wrong, DestroyAt, destroy_rest, Executing
<1>. QED  BY <1>1 DEF ThreadsInv, TypeOK, StatusMatchesPlace, Live

(* lock_destroy: the threads in a wait queue that nobody destroys are freed.*)
LEMMA FreeStep ==
  ASSUME ThreadsInv, system = "up", NEW q \in WaitQueues, FreeSleepers(q),
         \A u \in Tid : destroying[u].at # "none" => destroying[u].wq # q,
         UNCHANGED << thread_ReadyQueue, thread_ExitQueue, thread_ReadyQueue_index,
                      running, interrupts, masked, badStack, destroying, ret >>
  PROVE  ThreadsInv' /\ Live' = Live \ Waiting(q)
<1>1. /\ TypeOK /\ QueuesInv /\ DestroyInv /\ IndexInv /\ StatusMatchesPlace /\ RunningInv
      /\ FrameInv /\ InterruptsRestored
      BY DEF ThreadsInv, UpInv
<1>2. /\ system' \in {"up", "crashed"}
      /\ wait_queue' = [wait_queue EXCEPT ![q] = << >>]
      /\ m_eThreadStatus' =
           [u \in Tid |-> IF u \in Waiting(q) THEN "none" ELSE m_eThreadStatus[u]]
      /\ pc' = [u \in Tid |-> IF u \in Waiting(q) THEN "none" ELSE pc[u]]
      /\ frame' = [u \in Tid |-> IF u \in Waiting(q) THEN NoFrame ELSE frame[u]]
      BY DEF FreeSleepers, Waiting
<1>3. /\ running \in Tid /\ running \notin Waiting(q) /\ running \in Live
      /\ Waiting(q) \subseteq Live \cup Freed /\ Live \subseteq Tid /\ Ready \cap Waiting(q) = {}
      BY UpFacts
<1>4. Live' = Live \ Waiting(q) /\ Freed' = Freed \ Waiting(q)
      BY <1>2 DEF Live, Freed
<1>5. NoFrame \in Frames /\ << >> \in Seq(Tid) /\ ToSet(<< >>) = {} /\ Once(<< >>)
      BY DEF NoFrame, Frames, Labels, THREAD_NONE, ToSet, Once
<1>6. TypeOK'
  <2>1. /\ pc' \in [Tid -> Labels] /\ m_eThreadStatus' \in [Tid -> Status]
        /\ frame' \in [Tid -> Frames] /\ wait_queue' \in [WaitQueues -> Seq(Tid)]
        BY <1>1, <1>2, <1>5 DEF TypeOK, Labels, Status, Frames
  <2>. QED  BY <1>1, <1>2, <2>1 DEF TypeOK, Frames
<1>7. ASSUME NEW r \in WaitQueues
      PROVE  /\ Waiting(r)' = IF r = q THEN {} ELSE Waiting(r)
             /\ Once(wait_queue'[r])
  <2>1. wait_queue'[r] = IF r = q THEN << >> ELSE wait_queue[r]
        BY <1>1, <1>2 DEF TypeOK
  <2>. QED  BY <1>1, <1>5, <2>1 DEF Waiting, QueuesInv
<1>8. QueuesInv'
  <2>1. Ready' = Ready /\ Ready \cap Waiting(q) = {}
        BY <1>1 DEF Ready, QueuesInv
  <2>2. ASSUME NEW u \in Tid
        PROVE  u \in Live' \cup Freed' <=> u \in Ready' \/ \E r \in WaitQueues : u \in Waiting(r)'
    <3>1. u \in Live \cup Freed <=> u \in Ready \/ \E r \in WaitQueues : u \in Waiting(r)
          BY <1>1 DEF QueuesInv
    <3>2. (\E r \in WaitQueues : u \in Waiting(r)') <=>
             u \notin Waiting(q) /\ \E r \in WaitQueues : u \in Waiting(r)
          BY <1>1, <1>7 DEF QueuesInv
    <3>. QED  BY <1>4, <2>1, <3>1, <3>2
  <2>3. /\ \A r \in WaitQueues : Once(wait_queue'[r]) /\ Ready' \cap Waiting(r)' = {}
        /\ \A p, r \in WaitQueues : p # r => Waiting(p)' \cap Waiting(r)' = {}
        BY <1>1, <1>7, <2>1 DEF QueuesInv
  <2>. QED  BY <1>1, <2>2, <2>3 DEF QueuesInv
<1>9. IndexInv'
      BY <1>1, <1>2, <1>4 DEF IndexInv
<1>10. RunningInv' /\ InterruptsRestored'
      BY <1>1, <1>2, <1>3 DEF RunningInv, InterruptsRestored
<1>11. FrameInv'
  <2> SUFFICES ASSUME NEW u \in Tid, pc'[u] \in Contexts
               PROVE  pc'[u] = pc[u] /\ frame'[u] = frame[u]
      BY <1>1 DEF FrameInv
  <2>. QED  BY <1>2 DEF Contexts
<1>13. DestroyInv'
  <2>1. \A r \in WaitQueues : r # q => wait_queue'[r] = wait_queue[r]
        BY <1>1, <1>2 DEF TypeOK
  <2>2. Ready' \cap Freed' = {}
        BY <1>1, <1>4 DEF Ready, DestroyInv
  <2>3. ASSUME NEW r \in WaitQueues, NEW u \in Waiting(r)' \cap Freed'
        PROVE  u = Head(wait_queue'[r])
        BY <1>1, <1>4, <1>7, <2>1, <2>3 DEF DestroyInv
  <2>4. ASSUME NEW u \in Tid, destroying[u].at # "none"
        PROVE  /\ wait_queue'[destroying[u].wq] = wait_queue[destroying[u].wq]
               /\ destroying[u].wq # q
        BY <1>1, <2>1, <2>4 DEF DestroyInv
  <2>5. ASSUME NEW u \in Tid, destroying[u].at = "pop"
        PROVE  Head(wait_queue[destroying[u].wq]) \in Freed'
    <3>1. /\ destroying[u].wq \in WaitQueues /\ destroying[u].wq # q
          /\ Head(wait_queue[destroying[u].wq]) \in Freed
          /\ wait_queue[destroying[u].wq] # << >>
          BY <1>1, <2>4, <2>5 DEF DestroyInv
    <3>2. Head(wait_queue[destroying[u].wq]) \in Waiting(destroying[u].wq)
          BY <3>1, UpFacts, ToSetOfSeq DEF Waiting
    <3>. QED  BY <1>1, <1>4, <3>1, <3>2 DEF QueuesInv
  <2>. QED  BY <1>1, <2>2, <2>3, <2>4, <2>5 DEF DestroyInv
<1>12. StatusMatchesPlace'
  <2> SUFFICES ASSUME NEW u \in Live', u # running
               PROVE  /\ (m_eThreadStatus'[u] = "Sleep") <=> (\E r \in WaitQueues : u \in Waiting(r)')
                      /\ (m_eThreadStatus'[u] = "New") <=> (pc'[u] = "stub")
                      /\ m_eThreadStatus'[u] # "Run"
                      /\ pc'[u] \in Contexts \cup {"stub"}
      BY <1>1, <1>4 DEF StatusMatchesPlace, Waiting
  <2>1. /\ u \in Live /\ u \in Tid /\ u \notin Waiting(q)
        /\ m_eThreadStatus'[u] = m_eThreadStatus[u] /\ pc'[u] = pc[u]
        BY <1>2, <1>3, <1>4
  <2>2. \A r \in WaitQueues : u \in Waiting(r)' <=> u \in Waiting(r)
        BY <1>7, <2>1
  <2>. QED  BY <1>1, <2>1, <2>2 DEF StatusMatchesPlace, Waiting
<1>. QED  BY <1>4, <1>6, <1>8, <1>9, <1>10, <1>11, <1>12, <1>13 DEF ThreadsInv, UpInv

(* The calls that return at once with a result.                             *)
LEMMA AnswerSteps ==
  ASSUME ThreadsInv, NEW t \in Tid,
         \/ thread_create_nomemory(t) \/ thread_create_nomore(t) \/ thread_yield_stays(t)
         \/ thread_exit_fails(t) \/ thread_sleep_fails(t)
  PROVE  /\ ThreadsInv'
         /\ UNCHANGED << thread_ReadyQueue, m_eThreadStatus, wait_queue, pc >>
<1>1. system = "up" /\ Current = running /\ running = t
  <2>1. system = "up" /\ running = t
        BY DEF thread_create_nomemory, thread_create_nomore, thread_yield_stays,
               thread_exit_fails, thread_sleep_fails, MayCall, Executing
  <2>. QED  BY <2>1, UpFacts
<1>2. \A u \in Tid \cup TidArgs : u \in Int
      BY ConstantsAssumption DEF Tid, TidArgs, THREAD_INVALID
<1>3. /\ UNCHANGED << thread_ReadyQueue, thread_ExitQueue, thread_ReadyQueue_index,
                      m_eThreadStatus, wait_queue, running, pc, frame, interrupts,
                      masked, badStack, destroying, system >>
      /\ \E c \in CallNames, v \in Tid \cup TidArgs \cup
              {THREAD_NOMEMORY, THREAD_NOMORE, THREAD_NONE, THREAD_INVALID} :
           ret' = [call |-> c, val |-> v]
  <2>1. CASE thread_create_nomemory(t) \/ thread_create_nomore(t)
        BY <2>1 DEF thread_create_nomemory, thread_create_nomore, ReturnAtOnce, CallNames
  <2>2. CASE thread_yield_stays(t)
        BY <1>1, <2>2 DEF thread_yield_stays, thread_yield_rest, ReturnAtOnce, CallNames
  <2>3. CASE thread_exit_fails(t)
        BY <2>3 DEF thread_exit_fails, ReturnAtOnce, CallNames
  <2>4. CASE thread_sleep_fails(t)
        BY <2>4 DEF thread_sleep_fails, thread_sleep_rest, ReturnAtOnce, CallNames
  <2>. QED  BY <2>1, <2>2, <2>3, <2>4
<1>4. ret' \in [call : CallNames \cup Contexts \cup {"none"}, val : Int]
      BY <1>2, <1>3 DEF THREAD_NOMEMORY, THREAD_NOMORE, THREAD_NONE, THREAD_INVALID
<1>. QED  BY <1>1, <1>3, <1>4, AnswerStep

(* Every step of the package keeps the invariant.                           *)
LEMMA PackageStep ==
  ASSUME ThreadsInv, NEW t \in Tid,
         ProgramStep(t) \/ KernelStep(t) \/ interrupts_set(t) \/ interrupt_handler(t)
  PROVE  ThreadsInv'
<1>1. CASE wait_queue_destroy(t)
      BY <1>1, BeginDestroyStep DEF wait_queue_destroy, MayCall
<1>. QED
      BY <1>1, AnswerSteps, CreateStep, StubStep, BracketStep, YieldAnyStep, YieldTidStep,
         ProgramSleepStep, ProgramWakeStep, ExitOtherStep, ExitSelfStep, ExitEndsStep,
         DestroyLoopStep, DestroyFreeStep, DestroyPopStep, DestroyWrongStep
      DEF ProgramStep, KernelStep, DestroyStep

-----------------------------------------------------------------------------
(* The theorems                                                             *)

(* The inductive invariant of the package.                                  *)
THEOREM ThreadsInvariant == Spec => []ThreadsInv
<1>1. ThreadsInv /\ [Next]_vars => ThreadsInv'
  <2> SUFFICES ASSUME ThreadsInv, [Next]_vars PROVE ThreadsInv'
      OBVIOUS
  <2>1. CASE Next
        BY <2>1, PackageStep DEF Next
  <2>2. CASE UNCHANGED vars
    <3>1. TypeOK' /\ StatusMatchesPlace'
          BY <2>2 DEF ThreadsInv, TypeOK, StatusMatchesPlace, Live, vars
    <3>2. system' = system /\ (UpInv => UpInv')
          BY <2>2 DEF UpInv, QueuesInv, DestroyInv, IndexInv, RunningInv, FrameInv,
                      InterruptsRestored, Ready, Waiting, Live, Freed, vars
    <3>. QED  BY <3>1, <3>2 DEF ThreadsInv
  <2>. QED  BY <2>1, <2>2
<1>. QED  BY <1>1, InitThreads, PTL DEF Spec

(* Every variable has its type: the queues hold thread identifiers only and *)
(* every control block is at a label of the code.                           *)
THEOREM ThreadsTypeOK == Spec => []TypeOK
<1>1. ThreadsInv => TypeOK
      BY DEF ThreadsInv
<1>. QED  BY <1>1, ThreadsInvariant, PTL

(* The status word of a thread without the CPU agrees with the queue it is  *)
(* in and with the label it will continue at.                               *)
THEOREM ThreadsStatus == Spec => []StatusMatchesPlace
<1>1. ThreadsInv => StatusMatchesPlace
      BY DEF ThreadsInv
<1>. QED  BY <1>1, ThreadsInvariant, PTL

(* A call gives back the interrupt state it was called with, and works with *)
(* the signal blocked.                                                      *)
THEOREM ThreadsInterrupts == Spec => []InterruptsRestored
<1>1. ThreadsInv => InterruptsRestored
      BY DEF ThreadsInv, UpInv, InterruptsRestored
<1>. QED  BY <1>1, ThreadsInvariant, PTL

(* Where an element of a sequence without repetition stands.                *)
LEMMA OneOccurrence ==
  ASSUME NEW T, NEW s \in Seq(T), Once(s), NEW x
  PROVE  /\ x \in ToSet(s) => \E i \in DOMAIN s : Occurrences(x, s) = {i}
         /\ x \notin ToSet(s) => Occurrences(x, s) = {}
<1>1. DOMAIN s = 1 .. Len(s)
      BY LenProperties
<1>. QED  BY <1>1 DEF Occurrences, ToSet, Once

(* Sound queues give every thread one place.                                *)
LEMMA PlacesFollow == ThreadsInv => OnePlacePerThread
<1> SUFFICES ASSUME ThreadsInv, system = "up",  NEW t \in Tid
             PROVE  /\ t \in Live \cup Freed => \E p \in Places(t) : Places(t) = {p}
                    /\ t \notin Live \cup Freed => Places(t) = {}
  <2>1. ThreadsInv /\ system = "up" =>
          /\ thread_ReadyQueue # << >> /\ Current = running
          /\ Live \subseteq thread_ReadyQueue_index
        BY UpFacts DEF ThreadsInv, UpInv, IndexInv
  <2>2. ASSUME ThreadsInv, system = "up", NEW u \in Freed
        PROVE  \E q \in WaitQueues : wait_queue[q] # << >> /\ Queue_top(wait_queue[q]) = u
    <3>1. PICK q \in WaitQueues : u \in Waiting(q)
          BY <2>2, UpFacts DEF ThreadsInv, UpInv, QueuesInv, DestroyInv
    <3>2. u = Head(wait_queue[q])
          BY <2>2, <3>1 DEF ThreadsInv, UpInv, DestroyInv
    <3>3. wait_queue[q] # << >>
          BY <3>1 DEF Waiting, ToSet
    <3>. QED  BY <3>2, <3>3 DEF Queue_top
  <2>. QED  BY <2>1, <2>2 DEF OnePlacePerThread
<1>1. /\ thread_ReadyQueue \in Seq(Tid) /\ Once(thread_ReadyQueue) /\ Ready \subseteq Live
      /\ \A q \in WaitQueues : /\ wait_queue[q] \in Seq(Tid) /\ Once(wait_queue[q])
                               /\ Waiting(q) \subseteq Live \cup Freed
                               /\ Ready \cap Waiting(q) = {}
      /\ \A q, r \in WaitQueues : q # r => Waiting(q) \cap Waiting(r) = {}
      BY UpFacts
<1>2. t \in Live \cup Freed => t \in Ready \/ \E q \in WaitQueues : t \in Waiting(q)
      BY DEF ThreadsInv, UpInv, QueuesInv
<1>3. /\ t \in Ready => \E i \in DOMAIN thread_ReadyQueue :
                           Occurrences(t, thread_ReadyQueue) = {i}
      /\ t \notin Ready => Occurrences(t, thread_ReadyQueue) = {}
      BY <1>1, OneOccurrence DEF Ready
<1>4. \A q \in WaitQueues :
        /\ t \in Waiting(q) => \E i \in DOMAIN wait_queue[q] : Occurrences(t, wait_queue[q]) = {i}
        /\ t \notin Waiting(q) => Occurrences(t, wait_queue[q]) = {}
      BY <1>1, OneOccurrence DEF Waiting
<1>5. CASE t \in Ready
  <2>1. PICK i : Occurrences(t, thread_ReadyQueue) = {i}
        BY <1>3, <1>5
  <2>2. \A q \in WaitQueues : Occurrences(t, wait_queue[q]) = {}
        BY <1>1, <1>4, <1>5
  <2>3. Places(t) = {<< NoQueue, i >>}
        BY <2>1, <2>2 DEF Places
  <2>. QED  BY <1>1, <1>5, <2>3
<1>6. CASE t \notin Ready /\ \E q \in WaitQueues : t \in Waiting(q)
  <2>1. PICK q \in WaitQueues : t \in Waiting(q)
        BY <1>6
  <2>2. PICK i : Occurrences(t, wait_queue[q]) = {i}
        BY <1>4, <2>1
  <2>3. \A r \in WaitQueues : r # q => Occurrences(t, wait_queue[r]) = {}
        BY <1>1, <1>4, <2>1
  <2>4. Occurrences(t, thread_ReadyQueue) = {}
        BY <1>3, <1>6
  <2>5. Places(t) = {<< q, i >>}
        BY <2>2, <2>3, <2>4 DEF Places
  <2>. QED  BY <1>1, <2>1, <2>5
<1>7. CASE t \notin Ready /\ \A q \in WaitQueues : t \notin Waiting(q)
      BY <1>2, <1>3, <1>4, <1>7 DEF Places
<1>. QED  BY <1>5, <1>6, <1>7

(* A live thread is in one place, the running one at the top of the ready   *)
(* queue.                                                                   *)
THEOREM ThreadsOnePlace == Spec => []OnePlacePerThread
<1>. QED  BY PlacesFollow, ThreadsInvariant, PTL

(* Which thread's label a step may change. *)
LEMMA WhoMoves ==
  ASSUME ThreadsInv, NEW t \in Tid,
         ProgramStep(t) \/ KernelStep(t) \/ interrupts_set(t) \/ interrupt_handler(t),
         NEW u \in Tid, pc[u] \in {"yield_tid", "sleep"}, pc'[u] # pc[u], u \in Live'
  PROVE  /\ resume_yield_tid(t) \/ resume_sleep(t)
         /\ u = t /\ running = t /\ system = "up"
<1>1. system = "up" /\ running = t /\ Current = t
  <2>1. system = "up" /\ running = t
        BY DEF ProgramStep, KernelStep, thread_create_nomemory, thread_create_nomore,
               thread_create, thread_yield_stays, thread_yield_any, thread_yield_tid,
               thread_exit_fails, thread_exit_tid, thread_exit_own, thread_exit_any,
               thread_exit_self, thread_exit_last, thread_sleep_fails, thread_sleep,
               thread_wakeup, wait_queue_destroy, DestroyStep, destroy_test, destroy_top,
               destroy_free, destroy_free_wrong, destroy_pop, DestroyAt,
               interrupts_off, interrupts_set, interrupt_handler, thread_stub, thread_stub_exit, resume_yield_any,
               resume_yield_tid, resume_sleep, MayCall, Executing
  <2>. QED  BY <2>1, UpFacts
<1>2. TypeOK /\ IndexInv /\ Live = {v \in Tid : m_eThreadStatus[v] \notin {"none", "Freed"}}
      BY <1>1 DEF ThreadsInv, UpInv, Live
<1>3. ASSUME NEW l, pc' = [pc EXCEPT ![t] = l], pc[t] \notin {"yield_tid", "sleep"}
      PROVE  FALSE
      BY <1>2, <1>3 DEF TypeOK
<1>4. ASSUME UNCHANGED pc PROVE FALSE
      BY <1>4
<1>5. pc[t] = "user" => pc[t] \notin {"yield_tid", "sleep"}
      OBVIOUS
<1>6. CASE \/ thread_create_nomemory(t) \/ thread_create_nomore(t) \/ thread_yield_stays(t)
           \/ thread_exit_fails(t) \/ thread_sleep_fails(t)
      BY <1>4, <1>6, AnswerSteps
<1>7. CASE thread_create(t)
  <2>1. PICK id \in FreeIds : pc' = [pc EXCEPT ![id] = "stub"]
        BY <1>7 DEF thread_create
  <2>2. id \in Tid /\ id \notin thread_ReadyQueue_index
        BY ConstantsAssumption DEF FreeIds, Tid
  <2>3. pc[id] = "none"
        BY <1>2, <2>2 DEF IndexInv
  <2>4. pc'[u] = pc[u]
        BY <1>2, <2>1, <2>2, <2>3 DEF TypeOK
  <2>. QED  BY <2>4
<1>8. CASE thread_yield_any(t) \/ interrupt_handler(t) \/ resume_yield_any(t)
  <2>1. pc[t] \notin {"yield_tid", "sleep"}
    <3>1. interrupt_handler(t) => pc[t] \in {"user", "destroy", "stub_exit"}
          BY <1>1, <1>2, FirstOrResumed DEF interrupt_handler, TypeOK
    <3>. QED
          BY <1>8, <3>1 DEF thread_yield_any, resume_yield_any, MayCall, Executing
  <2>2. \E l : pc' = [pc EXCEPT ![t] = l]
        BY <1>8 DEF thread_yield_any, interrupt_handler, resume_yield_any, YieldAny,
                    SwitchTo, ReturnResumed
  <2>. QED  BY <1>3, <2>1, <2>2
<1>9. CASE thread_yield_tid(t)
  <2>1. \E l : pc' = [pc EXCEPT ![t] = l]
        BY <1>9 DEF thread_yield_tid, YieldTid, SwitchTo, ReturnResumed
  <2>. QED  BY <1>3, <1>5, <1>9, <2>1 DEF thread_yield_tid, MayCall, Executing
<1>10. CASE thread_sleep(t)
  <2>1. \E l : pc' = [pc EXCEPT ![t] = l]
        BY <1>10 DEF thread_sleep, Sleep, SwitchTo, ReturnResumed
  <2>. QED  BY <1>3, <1>5, <1>10, <2>1 DEF thread_sleep, MayCall, Executing
<1>11. ASSUME NEW tid \in Tid, pc' = [pc EXCEPT ![tid] = "none"],
              m_eThreadStatus' = [m_eThreadStatus EXCEPT ![tid] = "none"]
       PROVE  FALSE
      BY <1>2, <1>11 DEF TypeOK, Live
<1>12. CASE thread_exit_tid(t) \/ thread_exit_any(t)
  <2>1. \E tid \in Tid : Destroy(tid)
    <3>1. /\ thread_ReadyQueue \in Seq(Tid) /\ ToSet(thread_ReadyQueue) \subseteq Tid
          /\ Len(thread_ReadyQueue) \in Nat \ {0}
          BY <1>1, UpFacts DEF Ready
    <3>2. Last(thread_ReadyQueue) \in Tid
          BY <3>1 DEF Last
    <3>. QED  BY <1>12, <3>1, <3>2 DEF thread_exit_tid, thread_exit_any
  <2>. QED  BY <1>11, <2>1 DEF Destroy
<1>13. CASE thread_exit_self(t)
      BY <1>11, <1>13 DEF thread_exit_self
<1>14. CASE thread_exit_last(t)
  <2>1. UNCHANGED pc \/ pc' = [pc EXCEPT ![t] = "stub_exit"]
        BY <1>14 DEF thread_exit_last
  <2>. QED  BY <1>3, <1>4, <1>5, <1>14, <2>1 DEF thread_exit_last, MayCall, Executing
<1>15. CASE thread_stub(t)
  <2>1. UNCHANGED pc \/ pc' = [pc EXCEPT ![t] = "user"]
        BY <1>15 DEF thread_stub
  <2>. QED  BY <1>3, <1>4, <1>15, <2>1 DEF thread_stub, Executing
<1>16. CASE \/ thread_exit_own(t) \/ thread_wakeup(t) \/ interrupts_off(t)
            \/ interrupts_set(t) \/ thread_stub_exit(t)
      BY <1>4, <1>16 DEF thread_exit_own, thread_wakeup, interrupts_off, interrupts_set,
                         thread_stub_exit, ReturnAtOnce
<1>17. CASE wait_queue_destroy(t)
  <2>1. pc[t] = "user" /\ \E l : pc' = [pc EXCEPT ![t] = l]
        BY <1>17 DEF wait_queue_destroy, BeginDestroy, MayCall, Executing
  <2>. QED  BY <1>3, <1>5, <2>1
<1>19. CASE destroy_test(t) \/ destroy_top(t) \/ destroy_free_wrong(t) \/ destroy_pop(t)
  <2>1. pc[t] = "destroy" \/ UNCHANGED pc
        BY <1>19 DEF destroy_test, destroy_top, destroy_free_wrong, destroy_pop, DestroyAt,
                     Executing
  <2>2. UNCHANGED pc \/ \E l : pc' = [pc EXCEPT ![t] = l]
        BY <1>19 DEF destroy_test, destroy_top, destroy_free_wrong, destroy_pop
  <2>. QED  BY <1>3, <1>4, <2>1, <2>2
<1>20. CASE destroy_free(t)
  <2>1. PICK top \in Live : Live' = Live \ {top} /\ pc' = [pc EXCEPT ![top] = "none"]
        BY <1>20, DestroyFreeStep
  <2>. QED  BY <1>2, <2>1 DEF TypeOK
<1>18. CASE resume_yield_tid(t) \/ resume_sleep(t)
  <2>1. \E l : pc' = [pc EXCEPT ![t] = l]
        BY <1>18 DEF resume_yield_tid, resume_sleep, YieldTid, Sleep, SwitchTo, ReturnResumed
  <2>2. u = t
        BY <1>2, <2>1 DEF TypeOK
  <2>. QED  BY <1>1, <1>18, <2>2
<1>. QED
      BY <1>6, <1>7, <1>8, <1>9, <1>10, <1>12, <1>13, <1>14, <1>15, <1>16, <1>17, <1>18,
         <1>19, <1>20
      DEF ProgramStep, KernelStep, DestroyStep

(* A yield to an identifier and a sleep return the thread that was given    *)
(* the CPU, however much later the caller comes back.                       *)
THEOREM ThreadsReturns == Spec => ReturnsWhoRan
<1> DEFINE A == \A t \in Tid :
                  pc[t] \in {"yield_tid", "sleep"} /\ pc'[t] # pc[t] /\ t \in Live'
                    => ret' = [call |-> pc[t], val |-> frame[t].ran]
<1>1. ThreadsInv /\ [Next]_vars => [A]_vars
  <2> SUFFICES ASSUME ThreadsInv, Next,
                      NEW u \in Tid, pc[u] \in {"yield_tid", "sleep"},
                      pc'[u] # pc[u], u \in Live'
               PROVE  ret' = [call |-> pc[u], val |-> frame[u].ran]
      OBVIOUS
  <2>1. PICK t \in Tid :
          ProgramStep(t) \/ KernelStep(t) \/ interrupts_set(t) \/ interrupt_handler(t)
        BY DEF Next
  <2>2. /\ resume_yield_tid(t) \/ resume_sleep(t)
        /\ u = t /\ running = t /\ system = "up"
        BY <2>1, WhoMoves
  <2>3. ~FirstTime /\ pc[t] \in Contexts
        BY <2>2, FirstOrResumed DEF Contexts
  <2>4. frame[t].tid = frame[t].ran
        BY <2>2, <2>3 DEF ThreadsInv, UpInv, FrameInv
  <2>5. ReturnResumed(t, frame[t].tid)
        BY <2>2, <2>3 DEF resume_yield_tid, resume_sleep, YieldTid, Sleep
  <2>. QED  BY <2>2, <2>4, <2>5 DEF ReturnResumed
<1>. QED  BY <1>1, ThreadsInvariant, PTL DEF Spec, ReturnsWhoRan

(* Only thread_wakeup makes a thread ready that sleeps.                     *)
LEMMA WhoBecomesReady ==
  ASSUME ThreadsInv, NEW t \in Tid,
         ProgramStep(t) \/ KernelStep(t) \/ interrupts_set(t) \/ interrupt_handler(t),
         ~thread_wakeup(t)
  PROVE  system = "up" /\ ToSet(thread_ReadyQueue') \cap (Live \cup Freed) \subseteq Ready
<1>1. system = "up" /\ running = t /\ Current = t
  <2>1. system = "up" /\ running = t
        BY DEF ProgramStep, KernelStep, thread_create_nomemory, thread_create_nomore,
               thread_create, thread_yield_stays, thread_yield_any, thread_yield_tid,
               thread_exit_fails, thread_exit_tid, thread_exit_own, thread_exit_any,
               thread_exit_self, thread_exit_last, thread_sleep_fails, thread_sleep,
               wait_queue_destroy, DestroyStep, destroy_test, destroy_top,
               destroy_free, destroy_free_wrong, destroy_pop, DestroyAt,
               interrupts_off, interrupts_set, interrupt_handler, thread_stub, thread_stub_exit, resume_yield_any,
               resume_yield_tid, resume_sleep, MayCall, Executing
  <2>. QED  BY <2>1, UpFacts
<1>2. /\ thread_ReadyQueue \in Seq(Tid) /\ thread_ReadyQueue # << >>
      /\ Once(thread_ReadyQueue) /\ Ready = ToSet(thread_ReadyQueue)
      /\ Len(thread_ReadyQueue) \in Nat \ {0} /\ Ready \subseteq Tid
      BY <1>1, UpFacts DEF Ready
<1>3. ASSUME UNCHANGED thread_ReadyQueue PROVE ToSet(thread_ReadyQueue') \subseteq Ready
      BY <1>3 DEF Ready
<1>4. ASSUME thread_ReadyQueue' = Tail(thread_ReadyQueue)
      PROVE  ToSet(thread_ReadyQueue') \subseteq Ready
      BY <1>2, <1>4, TailOnce
<1>5. CASE \/ thread_create_nomemory(t) \/ thread_create_nomore(t) \/ thread_yield_stays(t)
           \/ thread_exit_fails(t) \/ thread_sleep_fails(t)
      BY <1>1, <1>3, <1>5, AnswerSteps
<1>6. CASE thread_create(t)
  <2>1. PICK id \in FreeIds : thread_ReadyQueue' = Append(thread_ReadyQueue, id)
        BY <1>6 DEF thread_create, Queue_push
  <2>2. id \in Tid /\ id \notin thread_ReadyQueue_index
        BY ConstantsAssumption DEF FreeIds, Tid
  <2>3. id \notin Live \cup Freed
        BY <1>1, <2>2 DEF ThreadsInv, UpInv, IndexInv
  <2>. QED  BY <1>1, <1>2, <2>1, <2>2, <2>3, AppendOnce
<1>7. CASE \/ thread_yield_any(t) \/ interrupt_handler(t) \/ resume_yield_any(t)
  <2>1. \/ UNCHANGED thread_ReadyQueue
        \/ /\ thread_ReadyQueue' = Queue_push(Queue_pop(thread_ReadyQueue), Current)
           /\ FirstTime
        BY <1>7 DEF thread_yield_any, interrupt_handler, resume_yield_any, YieldAny
  <2>2. CASE /\ thread_ReadyQueue' = Queue_push(Queue_pop(thread_ReadyQueue), Current)
             /\ FirstTime
    <3>1. ~resume_yield_any(t)
          BY <1>1, <2>2, FirstOrResumed DEF resume_yield_any, Executing, Contexts
    <3>2. Len(thread_ReadyQueue) > 1
          BY <1>7, <3>1 DEF thread_yield_any, interrupt_handler
    <3>. QED  BY <1>1, <2>2, <3>2, YieldAnyQueue
  <2>. QED  BY <1>1, <1>3, <2>1, <2>2
<1>8. CASE thread_yield_tid(t) \/ resume_yield_tid(t)
  <2>1. \/ UNCHANGED thread_ReadyQueue
        \/ \E tid \in Ready \ {Current} :
             thread_ReadyQueue' = Queue_push(Queue_movetop(Queue_pop(thread_ReadyQueue),
                                                           Position(tid) - 1), Current)
    <3>1. CASE thread_yield_tid(t)
          BY <3>1 DEF thread_yield_tid, YieldTid, Ready
    <3>2. CASE resume_yield_tid(t)
      <4>1. ~FirstTime
            BY <1>1, <3>2, FirstOrResumed DEF resume_yield_tid, Executing, Contexts
      <4>. QED  BY <3>2, <4>1 DEF resume_yield_tid, YieldTid
    <3>. QED  BY <1>8, <3>1, <3>2
  <2>. QED  BY <1>1, <1>3, <2>1, YieldTidQueue
<1>9. CASE thread_sleep(t) \/ resume_sleep(t)
  <2>1. UNCHANGED thread_ReadyQueue \/ thread_ReadyQueue' = Tail(thread_ReadyQueue)
        BY <1>9 DEF thread_sleep, resume_sleep, Sleep, Queue_pop
  <2>. QED  BY <1>1, <1>3, <1>4, <2>1
<1>10. CASE thread_exit_self(t) \/ thread_exit_own(t)
      BY <1>1, <1>4, <1>10 DEF thread_exit_self, thread_exit_own, Queue_pop
<1>11. CASE thread_exit_tid(t) \/ thread_exit_any(t)
  <2>1. \E tid \in Ready : Destroy(tid)
    <3>1. Last(thread_ReadyQueue) \in Ready
          BY <1>2, LenProperties DEF Last, ToSet
    <3>. QED  BY <1>11, <3>1 DEF thread_exit_tid, thread_exit_any, Ready
  <2>2. PICK tid \in Ready : thread_ReadyQueue' = RemoveAt(thread_ReadyQueue, Position(tid) + 1)
        BY <2>1 DEF Destroy
  <2>3. Position(tid) + 1 \in 1 .. Len(thread_ReadyQueue)
        BY <1>1, PositionFinds
  <2>. QED  BY <1>1, <1>2, <2>2, <2>3, RemoveOnce
<1>12. CASE \/ thread_exit_last(t) \/ wait_queue_destroy(t) \/ interrupts_off(t)
            \/ interrupts_set(t) \/ thread_stub(t) \/ thread_stub_exit(t) \/ DestroyStep(t)
      BY <1>1, <1>3, <1>12
      DEF thread_exit_last, wait_queue_destroy, BeginDestroy, DestroyStep, destroy_test,
          destroy_top, destroy_free, destroy_free_wrong, destroy_pop, destroy_rest,
          interrupts_off, interrupts_set, thread_stub, thread_stub_exit
<1>. QED
      BY <1>5, <1>6, <1>7, <1>8, <1>9, <1>10, <1>11, <1>12 DEF ProgramStep, KernelStep

(* Who stands before another one in a queue without repetition does so in   *)
(* any first part of it that has the other one, and behind other threads.   *)
LEMMA BeforeInPart ==
  ASSUME NEW T, NEW s \in Seq(T), NEW w \in Seq(T), Once(w), NEW n \in 0 .. Len(w),
         NEW a, NEW b, Before(a, b, w), b \in ToSet(SubSeq(w, 1, n))
  PROVE  Before(a, b, s \o SubSeq(w, 1, n))
<1> DEFINE p == SubSeq(w, 1, n)
           c == s \o p
<1>1. /\ p \in Seq(T) /\ Len(p) = n /\ \A i \in 1 .. n : p[i] = w[i]
      BY SplitOnce
<1> HIDE DEF p
<1>2. /\ DOMAIN w = 1 .. Len(w) /\ DOMAIN p = 1 .. n /\ Len(w) \in Nat /\ Len(s) \in Nat
      BY <1>1, LenProperties
<1>3. PICK i \in 1 .. Len(w), j \in 1 .. Len(w) : i < j /\ w[i] = a /\ w[j] = b
      BY <1>2 DEF Before
<1>4. PICK k \in 1 .. n : p[k] = b
      BY <1>2 DEF ToSet, p
<1>5. k \in 1 .. Len(w) /\ w[k] = b
      BY <1>1, <1>2, <1>4
<1>6. k = j
      BY <1>3, <1>5 DEF Once
<1>7. i \in 1 .. n /\ p[i] = a /\ i < k
      BY <1>1, <1>2, <1>3, <1>4, <1>6
<1>8. /\ c \in Seq(T) /\ Len(c) = Len(s) + n
      /\ \A m \in 1 .. Len(s) + n : c[m] = IF m <= Len(s) THEN s[m] ELSE p[m - Len(s)]
      BY <1>1, ConcatProperties
<1>9. DOMAIN c = 1 .. Len(s) + n
      BY <1>8, LenProperties
<1> HIDE DEF c
<1>10. \A m \in 1 .. n : Len(s) + m \in 1 .. Len(s) + n /\ c[Len(s) + m] = p[m]
  <2> TAKE m \in 1 .. n
  <2>1. /\ Len(s) + m \in 1 .. Len(s) + n /\ ~(Len(s) + m <= Len(s))
        /\ Len(s) + m - Len(s) = m
        BY <1>2
  <2>. QED  BY <1>8, <2>1
<1>11. Len(s) + i < Len(s) + k
      BY <1>2, <1>4, <1>7
<1>12. Before(a, b, c)
      BY <1>4, <1>7, <1>9, <1>10, <1>11 DEF Before
<1>. QED  BY <1>12 DEF c, p

(* Threads become ready in the order they went to sleep.                    *)
THEOREM ThreadsOrder == Spec => WokenInOrder
<1> DEFINE A == \A q \in WaitQueues : \A a, b \in Tid :
                  /\ Before(a, b, wait_queue[q])
                  /\ b \in ToSet(thread_ReadyQueue')
                  => Before(a, b, thread_ReadyQueue')
<1>1. ThreadsInv /\ [Next]_vars => [A]_vars
  <2> SUFFICES ASSUME ThreadsInv, Next,
                      NEW q \in WaitQueues, NEW a \in Tid, NEW b \in Tid,
                      Before(a, b, wait_queue[q]), b \in ToSet(thread_ReadyQueue')
               PROVE  Before(a, b, thread_ReadyQueue')
      OBVIOUS
  <2>1. PICK t \in Tid :
          ProgramStep(t) \/ KernelStep(t) \/ interrupts_set(t) \/ interrupt_handler(t)
        BY DEF Next
  <2>2. b \in Waiting(q)
        BY DEF Before, Waiting, ToSet
  <2>3. CASE ~thread_wakeup(t)
    <3>1. system = "up" /\ b \in Live \cup Freed => b \in Ready
          BY <2>1, <2>3, WhoBecomesReady
    <3>2. system = "up" => b \in Live \cup Freed /\ b \notin Ready
          BY <2>2, UpFacts
    <3>. QED  BY <2>1, <2>3, <3>1, <3>2, WhoBecomesReady
  <2>4. CASE thread_wakeup(t)
    <3>1. system = "up"
          BY <2>4 DEF thread_wakeup, MayCall, Executing
    <3>2. /\ thread_ReadyQueue \in Seq(Tid) /\ Ready \cap Waiting(q) = {}
          /\ \A r \in WaitQueues : wait_queue[r] \in Seq(Tid) /\ Once(wait_queue[r])
          /\ \A r \in WaitQueues : r # q => Waiting(r) \cap Waiting(q) = {}
          BY <3>1, UpFacts
    <3>3. PICK r \in WaitQueues : \E n \in {0, 1, Len(wait_queue[r])} :
            /\ n = 1 => wait_queue[r] # << >>
            /\ Wake(r, n)
      <4>1. PICK r \in WaitQueues :
              \/ Wake(r, IF wait_queue[r] = << >> THEN 0 ELSE 1)
              \/ Wake(r, Len(wait_queue[r]))
            BY <2>4 DEF thread_wakeup
      <4>2. wait_queue[r] = << >> => Len(wait_queue[r]) = 0
            OBVIOUS
      <4>. QED  BY <4>1, <4>2
    <3>4. PICK n \in {0, 1, Len(wait_queue[r])} :
            (n = 1 => wait_queue[r] # << >>) /\ Wake(r, n)
          BY <3>3
    <3>5. n \in 0 .. Len(wait_queue[r])
      <4>1. wait_queue[r] \in Seq(Tid) /\ Len(wait_queue[r]) \in Nat
            BY <3>2, LenProperties
      <4>. QED  BY <3>4, <4>1, EmptySeq
    <3> DEFINE p == SubSeq(wait_queue[r], 1, n)
    <3>6. thread_ReadyQueue' = thread_ReadyQueue \o p
          BY <3>4 DEF Wake
    <3>7. p \in Seq(Tid) /\ ToSet(p) \subseteq Waiting(r)
          BY <3>2, <3>5, SplitOnce DEF Waiting
    <3>8. b \in Ready \cup ToSet(p)
      <4> HIDE DEF p
      <4>. QED  BY <3>2, <3>6, <3>7, ConcatOnce DEF Ready
    <3>9. b \in ToSet(p) /\ r = q
          BY <2>2, <3>2, <3>7, <3>8
    <3>. QED  BY <3>2, <3>5, <3>6, <3>9, BeforeInPart
  <2>. QED  BY <2>3, <2>4
<1>. QED  BY <1>1, ThreadsInvariant, PTL DEF Spec, WokenInOrder

-----------------------------------------------------------------------------
(* Locks and condition variables: the package keeps its own invariant under *)
(* them; on top of it an invariant relates what a lock records, who         *)
(* believes to hold it, and the call that a thread is in.                   *)

OuterCalls == [lock : Locks \cup {NoQueue}, cv : Cvs \cup {NoQueue}, enabled : BOOLEAN]

SyncTypeOK ==
  /\ m_eStatus \in [Locks -> {"Free", "Locked"}]
  /\ m_pLockedThread \in [Locks -> Tid \cup {NULL, Gone, Dangling}]
  /\ outer \in [Tid -> OuterCalls]
  /\ inside \in [Tid -> SUBSET Locks]
  /\ orphaned \subseteq Locks

(* Only a locked lock is waited for, and the thread it records believes to  *)
(* hold it unless the holder died; then some record of it is left.          *)
RecordsInv ==
  \A l \in Locks :
    /\ wait_queue[l] # << >> => m_eStatus[l] = "Locked"
    /\ m_eStatus[l] = "Locked" =>
         \/ l \in orphaned
         \/ m_pLockedThread[l] \in Tid /\ l \in inside[m_pLockedThread[l]]
    /\ l \in orphaned => m_pLockedThread[l] # NULL

(* Only the queues of condition variables are destroyed step by step.       *)
DestroysCvs == \A t \in Tid : destroying[t].at # "none" => destroying[t].wq \in Cvs

(* The label a thread continues at in the program, or in a call that is     *)
(* built on thread_sleep.                                                   *)
Pending(t) == IF pc[t] \in Contexts THEN frame[t].back ELSE pc[t]

(* What a thread inside lock_acquire or cv_wait has saved of its call.      *)
CallsInv ==
  \A t \in Live :
    /\ Pending(t) \in {"acquire", "cv_sleep", "cv_woken"} =>
         outer[t].lock \in Locks /\ outer[t].enabled = (t \notin masked)
    /\ pc[t] = "cv_sleep" => outer[t].cv \in Cvs
    /\ pc[t] \in Contexts => frame[t].back # "cv_sleep"

SyncInv ==
  ThreadsInv /\ SyncTypeOK /\ RecordsInv /\ CallsInv /\ DestroysCvs /\ CvWaitIsAtomic

-----------------------------------------------------------------------------
(* What a step of the package does to a thread under the locks              *)

(* Nothing that the locks read of the thread u changes. *)
Same(u) ==
  /\ pc'[u] = pc[u] /\ frame'[u] = frame[u]
  /\ (u \in masked') <=> (u \in masked)
  /\ (u \in Live') <=> (u \in Live)

Stays(u) ==
  /\ u \in Live /\ u \in Live'
  /\ (u \in masked') <=> (u \in masked)

(* Where a thread goes on after a call of the package by the program.       *)
AfterProgram == {"user", "destroy", "stub_exit"}

(* What may become of the thread u in a step of the running thread t.       *)
Effect(t, u) ==
  \/ Same(u)
  \/ u \notin Live' /\ pc'[u] = "none"
  \/ pc'[u] = "stub" /\ u \notin Live \cup Freed
  \/ u = t /\ u \in Live' /\ pc'[u] = "user"
  \/ u = t /\ u \in Live' /\ pc'[u] = "stub_exit"
  \/ u = t /\ Stays(u) /\ pc'[u] \in Contexts /\ frame'[u].back \in AfterProgram
  \/ u = t /\ Stays(u) /\ pc[u] \in Contexts /\ pc'[u] = frame[u].back

(* A step of the package begins to destroy no other queue.                  *)
LEMMA DestroysKept ==
  ASSUME ThreadsInv, DestroysCvs, NEW t \in Tid,
         ProgramStep(t) \/ KernelStep(t) \/ interrupts_set(t) \/ interrupt_handler(t)
  PROVE  DestroysCvs'
<1>1. Calls \cap {"sleep", "wakeup_one", "wakeup_all", "queue_destroy"} = {}
      BY SyncAssumption
<1>2. destroying \in [Tid -> [wq : WaitQueues \cup {NoQueue}, at : Instructions]]
      BY DEF ThreadsInv, TypeOK
<1>3. CASE \E tid : destroying' = [destroying EXCEPT ![tid] = NoDestroy]
      BY <1>2, <1>3 DEF DestroysCvs, NoDestroy
<1>4. CASE \E at \in Instructions : destroying' = [destroying EXCEPT ![t].at = at]
           /\ destroying[t].at # "none"
      BY <1>2, <1>4 DEF DestroysCvs
<1>5. CASE UNCHANGED destroying
      BY <1>5 DEF DestroysCvs
<1>6. CASE DestroyStep(t)
      BY <1>3, <1>4, <1>5, <1>6
      DEF DestroyStep, destroy_test, destroy_top, destroy_free, destroy_free_wrong,
          destroy_pop, DestroyAt, Instructions
<1>7. CASE thread_exit_tid(t) \/ thread_exit_any(t)
      BY <1>3, <1>7 DEF thread_exit_tid, thread_exit_any, Destroy
<1>8. ~thread_sleep(t) /\ ~thread_wakeup(t) /\ ~wait_queue_destroy(t)
      BY <1>1 DEF thread_sleep, thread_wakeup, wait_queue_destroy, MayCall
<1>9. CASE ~DestroyStep(t) /\ ~thread_exit_tid(t) /\ ~thread_exit_any(t)
  <2>1. CASE KernelStep(t) \/ interrupts_set(t) \/ interrupt_handler(t)
        BY <1>5, <1>9, <2>1
        DEF KernelStep, thread_stub, thread_stub_exit, resume_yield_any, resume_yield_tid,
            resume_sleep, YieldAny, YieldTid, Sleep, thread_yield_rest, thread_sleep_rest,
            interrupts_set, interrupt_handler
  <2>2. CASE ProgramStep(t)
        BY <1>5, <1>8, <1>9, <2>2
        DEF ProgramStep, thread_create_nomemory, thread_create_nomore, thread_create,
            thread_yield_stays, thread_yield_any, thread_yield_tid, thread_exit_fails,
            thread_exit_own, thread_exit_self, thread_exit_last, thread_sleep_fails,
            interrupts_off, YieldAny, YieldTid, thread_yield_rest, thread_sleep_rest
  <2>. QED  BY <2>1, <2>2
<1>. QED  BY <1>6, <1>7, <1>9

(* The package under the locks calls neither thread_sleep nor thread_wakeup *)
(* for the program, and never runs a thread that is inside a lock call.     *)
LEMMA PackageEffect ==
  ASSUME ThreadsInv, DestroysCvs, NEW t \in Tid,
         ProgramStep(t) \/ KernelStep(t) \/ interrupts_set(t) \/ interrupt_handler(t)
  PROVE  /\ system = "up" /\ running = t /\ t \in Live
         /\ pc[t] \notin {"acquire", "cv_sleep", "cv_woken"}
         /\ \A r \in WaitQueues : \/ wait_queue'[r] = wait_queue[r]
                                  \/ r \in Cvs /\ ToSet(wait_queue'[r]) \subseteq Waiting(r)
         /\ \A u \in Tid : Effect(t, u)
         /\ DestroysCvs'
<1>1. /\ system = "up" /\ running = t
      /\ pc[t] \in AfterProgram \cup {"stub"} \cup Contexts \/ interrupts
      /\ pc[t] \in Labels
  <2>1. system = "up" /\ running = t
        BY DEF ProgramStep, KernelStep, thread_create_nomemory, thread_create_nomore,
               thread_create, thread_yield_stays, thread_yield_any, thread_yield_tid,
               thread_exit_fails, thread_exit_tid, thread_exit_own, thread_exit_any,
               thread_exit_self, thread_exit_last, thread_sleep_fails, thread_sleep,
               thread_wakeup, wait_queue_destroy, DestroyStep, destroy_test, destroy_top,
               destroy_free, destroy_free_wrong, destroy_pop, DestroyAt,
               interrupts_off, interrupts_set, interrupt_handler, thread_stub,
               thread_stub_exit, resume_yield_any, resume_yield_tid, resume_sleep,
               MayCall, Executing
  <2>2. pc[t] \in AfterProgram \cup {"stub"} \cup Contexts \/ interrupts
        BY DEF ProgramStep, KernelStep, thread_create_nomemory, thread_create_nomore,
               thread_create, thread_yield_stays, thread_yield_any, thread_yield_tid,
               thread_exit_fails, thread_exit_tid, thread_exit_own, thread_exit_any,
               thread_exit_self, thread_exit_last, thread_sleep_fails, thread_sleep,
               thread_wakeup, wait_queue_destroy, DestroyStep, destroy_test, destroy_top,
               destroy_free, destroy_free_wrong, destroy_pop, DestroyAt,
               interrupts_off, interrupts_set, interrupt_handler, thread_stub,
               thread_stub_exit, resume_yield_any, resume_yield_tid, resume_sleep,
               MayCall, Executing, Contexts, AfterProgram
  <2>. QED  BY <2>1, <2>2 DEF ThreadsInv, TypeOK
<1>2. /\ Current = t /\ t \in Live /\ t \in Ready /\ Ready \subseteq Tid
      /\ thread_ReadyQueue \in Seq(Tid) /\ Len(thread_ReadyQueue) \in Nat \ {0}
      /\ pc[t] \in AfterProgram \cup {"stub"} \cup Contexts
      BY <1>1, UpFacts, FirstOrResumed DEF AfterProgram
<1>3. /\ TypeOK /\ IndexInv
      /\ Live = {v \in Tid : m_eThreadStatus[v] \notin {"none", "Freed"}}
      /\ Freed = {v \in Tid : m_eThreadStatus[v] = "Freed"}
      BY <1>1 DEF ThreadsInv, UpInv, Live, Freed
<1>4. pc[t] \notin {"acquire", "cv_sleep", "cv_woken"}
      BY <1>2 DEF Contexts, AfterProgram
<1>5. Calls \cap {"sleep", "wakeup_one", "wakeup_all", "queue_destroy"} = {}
      BY SyncAssumption
<1> SUFFICES
      /\ \A r \in WaitQueues : \/ wait_queue'[r] = wait_queue[r]
                               \/ r \in Cvs /\ ToSet(wait_queue'[r]) \subseteq Waiting(r)
      /\ \A u \in Tid : Effect(t, u)
      BY <1>1, <1>2, <1>4, DestroysKept
<1>6. ASSUME UNCHANGED << wait_queue, pc, frame, masked, m_eThreadStatus >>
      PROVE  UNCHANGED wait_queue /\ \A u \in Tid : Effect(t, u)
      BY <1>3, <1>6 DEF Effect, Same, Live
<1>7. ASSUME NEW l \in {"user", "stub_exit"}, pc' = [pc EXCEPT ![t] = l],
             UNCHANGED << wait_queue, frame, masked, m_eThreadStatus >>
      PROVE  UNCHANGED wait_queue /\ \A u \in Tid : Effect(t, u)
      BY <1>2, <1>3, <1>7 DEF Effect, Same, Live, TypeOK
<1>8. ASSUME NEW v \in Ready, pc' = [pc EXCEPT ![v] = "none"],
             m_eThreadStatus' = [m_eThreadStatus EXCEPT ![v] = "none"],
             UNCHANGED frame \/ frame' = [frame EXCEPT ![v] = NoFrame],
             masked' = masked \ {v}, UNCHANGED wait_queue
      PROVE  UNCHANGED wait_queue /\ \A u \in Tid : Effect(t, u)
      BY <1>2, <1>3, <1>8 DEF Effect, Same, Live, TypeOK
<1>9. ASSUME NEW st \in {"Idle", "Run"},
             m_eThreadStatus' = [m_eThreadStatus EXCEPT ![t] = st],
             UNCHANGED << wait_queue, masked >>,
             \E g : frame' = [frame EXCEPT ![t] = g],
             \E l : pc' = [pc EXCEPT ![t] = l],
             \/ pc'[t] \in Contexts /\ frame'[t].back \in AfterProgram
             \/ pc[t] \in Contexts /\ pc'[t] = frame[t].back
      PROVE  UNCHANGED wait_queue /\ \A u \in Tid : Effect(t, u)
      BY <1>2, <1>3, <1>9 DEF Effect, Same, Stays, Live, TypeOK
<1>10. CASE \/ thread_create_nomemory(t) \/ thread_create_nomore(t) \/ thread_yield_stays(t)
            \/ thread_exit_fails(t) \/ thread_sleep_fails(t)
  <2>1. UNCHANGED << wait_queue, pc, frame, masked, m_eThreadStatus >>
        BY <1>10 DEF thread_create_nomemory, thread_create_nomore, thread_yield_stays,
                     thread_exit_fails, thread_sleep_fails, ReturnAtOnce,
                     thread_yield_rest, thread_sleep_rest
  <2>. QED  BY <1>1, <1>2, <1>4, <1>6, <2>1
<1>11. CASE thread_create(t)
  <2>1. PICK id \in FreeIds :
          /\ m_eThreadStatus' = [m_eThreadStatus EXCEPT ![id] = "New"]
          /\ pc' = [pc EXCEPT ![id] = "stub"]
        BY <1>11 DEF thread_create
  <2>2. id \in Tid /\ id \notin Live \cup Freed
        BY <1>3, ConstantsAssumption DEF FreeIds, Tid, IndexInv
  <2>3. UNCHANGED << wait_queue, frame, masked >>
        BY <1>11 DEF thread_create
  <2>4. \A u \in Tid : Effect(t, u)
        BY <1>3, <2>1, <2>2, <2>3 DEF Effect, Same, Live, TypeOK
  <2>. QED  BY <1>1, <1>2, <1>4, <2>3, <2>4
<1>12. CASE interrupts_off(t) \/ interrupts_set(t)
  <2>1. /\ pc[t] = "user" /\ UNCHANGED << wait_queue, pc, frame, m_eThreadStatus >>
        /\ masked' = masked \cup {t} \/ masked' = masked \ {t}
        BY <1>12 DEF interrupts_off, interrupts_set, MayCall, Executing
  <2>2. \A u \in Tid : Effect(t, u)
        BY <1>2, <1>3, <2>1 DEF Effect, Same, Live
  <2>. QED  BY <1>1, <1>2, <1>4, <2>1, <2>2
<1>13. CASE thread_yield_any(t) \/ interrupt_handler(t)
  <2>1. PICK label \in Contexts, f \in Frames :
          YieldAny(t, label, f) /\ FirstTime /\ f.back \in AfterProgram
    <3>1. CASE thread_yield_any(t)
      <4>1. pc[t] = "user" /\ YieldAny(t, "yield_any", [NoFrame EXCEPT !.enabled = interrupts])
            BY <3>1 DEF thread_yield_any, MayCall, Executing
      <4>2. interrupts \in BOOLEAN /\ NoFrame \in Frames /\ NoFrame.back = "user"
            BY <1>3 DEF NoFrame, Frames, Labels, THREAD_NONE, TypeOK
      <4>3. /\ [NoFrame EXCEPT !.enabled = interrupts] \in Frames
            /\ [NoFrame EXCEPT !.enabled = interrupts].back = "user"
            BY <4>2 DEF Frames
      <4>4. FirstTime /\ "yield_any" \in Contexts
            BY <1>1, <4>1, FirstOrResumed DEF AfterCall, Contexts
      <4>. QED  BY <4>1, <4>3, <4>4 DEF AfterProgram
    <3>2. CASE interrupt_handler(t)
      <4>1. YieldAny(t, "handler", [NoFrame EXCEPT !.back = pc[t]]) /\ interrupts
            BY <3>2 DEF interrupt_handler
      <4>2. pc[t] \in Labels /\ NoFrame \in Frames
            BY <1>3 DEF NoFrame, Frames, Labels, THREAD_NONE, TypeOK
      <4>3. /\ [NoFrame EXCEPT !.back = pc[t]] \in Frames
            /\ [NoFrame EXCEPT !.back = pc[t]].back = pc[t]
            BY <4>2 DEF Frames
      <4>4. FirstTime /\ "handler" \in Contexts /\ pc[t] \in AfterProgram
            BY <1>1, <4>1, <4>2, FirstOrResumed DEF AfterCall, AfterProgram, Contexts
      <4>. QED  BY <4>1, <4>3, <4>4
    <3>. QED  BY <1>13, <3>1, <3>2
  <2> DEFINE next == Queue_top(thread_ReadyQueue')
  <2>2. /\ m_eThreadStatus' = [m_eThreadStatus EXCEPT ![t] = "Idle"]
        /\ SwitchTo(t, next, label, f) /\ UNCHANGED << wait_queue, masked >>
        BY <1>2, <2>1 DEF YieldAny, thread_yield_rest
  <2>3. [f EXCEPT !.ran = next].back = f.back
        BY <2>1 DEF Frames
  <2>4. /\ frame' = [frame EXCEPT ![t] = [f EXCEPT !.ran = next]]
        /\ pc' = [pc EXCEPT ![t] = label]
        BY <2>2 DEF SwitchTo
  <2>5. pc'[t] \in Contexts /\ frame'[t].back \in AfterProgram
        BY <1>3, <2>1, <2>3, <2>4 DEF TypeOK
  <2> HIDE DEF next
  <2>6. UNCHANGED wait_queue /\ \A u \in Tid : Effect(t, u)
        BY <1>9, <2>2, <2>4, <2>5
  <2>. QED  BY <1>1, <1>2, <1>4, <2>6
<1>14. CASE thread_yield_tid(t)
  <2>1. PICK tid \in Ready \ {t} :
          YieldTid(t, [enabled |-> interrupts, tid |-> tid, ran |-> THREAD_NONE,
                       wq |-> NoQueue, back |-> "user"])
        BY <1>2, <1>14 DEF thread_yield_tid, Ready
  <2> DEFINE f == [enabled |-> interrupts, tid |-> tid, ran |-> THREAD_NONE,
                   wq |-> NoQueue, back |-> "user"]
  <2>2. tid \in Tid /\ \A u \in Tid : u \in Int
        BY <1>2, <2>1 DEF Tid
  <2>3. f \in Frames /\ f.back = "user" /\ f.tid = tid
        BY <1>3, <2>2 DEF Frames, Labels, THREAD_NONE, TypeOK
  <2>4. FirstTime
        BY <1>1, <1>14, FirstOrResumed DEF AfterCall, thread_yield_tid, MayCall, Executing
  <2> HIDE DEF f
  <2>5. /\ m_eThreadStatus' = [m_eThreadStatus EXCEPT ![t] = "Idle"]
        /\ SwitchTo(t, tid, "yield_tid", f) /\ UNCHANGED << wait_queue, masked >>
        BY <1>2, <2>1, <2>3, <2>4 DEF YieldTid, thread_yield_rest, f
  <2>6. [f EXCEPT !.ran = tid].back = f.back
        BY <2>3 DEF Frames
  <2>7. /\ frame' = [frame EXCEPT ![t] = [f EXCEPT !.ran = tid]]
        /\ pc' = [pc EXCEPT ![t] = "yield_tid"]
        BY <2>5 DEF SwitchTo
  <2>8. pc'[t] \in Contexts /\ frame'[t].back \in AfterProgram
        BY <1>3, <2>3, <2>6, <2>7 DEF TypeOK, Contexts, AfterProgram
  <2>9. UNCHANGED wait_queue /\ \A u \in Tid : Effect(t, u)
        BY <1>9, <2>5, <2>7, <2>8
  <2>. QED  BY <1>1, <1>2, <1>4, <2>9
<1>15. CASE resume_yield_any(t) \/ resume_yield_tid(t) \/ resume_sleep(t)
  <2>1. pc[t] \in Contexts
        BY <1>15 DEF resume_yield_any, resume_yield_tid, resume_sleep, Executing, Contexts
  <2>2. ~FirstTime /\ m_eThreadStatus[t] = "Idle"
        BY <1>1, <2>1, FirstOrResumed
  <2>3. /\ m_eThreadStatus' = [m_eThreadStatus EXCEPT ![t] = "Run"]
        /\ \E val : ReturnResumed(t, val)
        /\ UNCHANGED << wait_queue, masked >>
    <3>1. CASE resume_yield_any(t) \/ resume_yield_tid(t)
          BY <1>2, <2>2, <3>1
          DEF resume_yield_any, resume_yield_tid, YieldAny, YieldTid, thread_yield_rest
    <3>2. CASE resume_sleep(t)
          BY <1>2, <2>2, <3>2 DEF resume_sleep, Sleep, thread_sleep_rest
    <3>. QED  BY <1>15, <3>1, <3>2
  <2>4. /\ frame' = [frame EXCEPT ![t] = NoFrame]
        /\ pc' = [pc EXCEPT ![t] = frame[t].back]
        BY <2>3 DEF ReturnResumed
  <2>5. pc'[t] = frame[t].back
        BY <1>3, <2>4 DEF TypeOK
  <2>6. UNCHANGED wait_queue /\ \A u \in Tid : Effect(t, u)
        BY <1>9, <2>1, <2>3, <2>4, <2>5
  <2>. QED  BY <1>1, <1>2, <1>4, <2>6
<1>16. CASE thread_exit_tid(t) \/ thread_exit_any(t)
  <2>1. /\ \E v \in Ready : Destroy(v)
        /\ UNCHANGED wait_queue
    <3>1. Last(thread_ReadyQueue) \in Ready
          BY <1>2, LenProperties DEF Last, Ready, ToSet
    <3>. QED  BY <1>16, <3>1 DEF thread_exit_tid, thread_exit_any, Ready
  <2>2. UNCHANGED wait_queue /\ \A u \in Tid : Effect(t, u)
        BY <1>8, <2>1 DEF Destroy
  <2>. QED  BY <1>1, <1>2, <1>4, <2>2
<1>17. CASE thread_exit_self(t)
  <2>1. UNCHANGED wait_queue /\ \A u \in Tid : Effect(t, u)
        BY <1>2, <1>8, <1>17 DEF thread_exit_self
  <2>. QED  BY <1>1, <1>2, <1>4, <2>1
<1>18. CASE thread_exit_last(t) \/ thread_stub(t)
  <2>1. /\ UNCHANGED << wait_queue, frame, masked, m_eThreadStatus >>
        /\ UNCHANGED pc \/ \E l \in {"user", "stub_exit"} : pc' = [pc EXCEPT ![t] = l]
        BY <1>18 DEF thread_exit_last, thread_stub
  <2>2. UNCHANGED wait_queue /\ \A u \in Tid : Effect(t, u)
        BY <1>6, <1>7, <2>1
  <2>. QED  BY <1>1, <1>2, <1>4, <2>2
<1>19. CASE thread_exit_own(t) \/ thread_stub_exit(t)
  <2>1. UNCHANGED << wait_queue, pc, frame, masked, m_eThreadStatus >>
        BY <1>19 DEF thread_exit_own, thread_stub_exit, ReturnAtOnce
  <2>. QED  BY <1>1, <1>2, <1>4, <1>6, <2>1
<1>20. CASE destroy_test(t) \/ destroy_top(t) \/ destroy_free_wrong(t)
  <2>1. /\ UNCHANGED << wait_queue, frame, masked, m_eThreadStatus >>
        /\ UNCHANGED pc \/ pc' = [pc EXCEPT ![t] = "user"]
        BY <1>20 DEF destroy_test, destroy_top, destroy_free_wrong, destroy_rest
  <2>2. UNCHANGED wait_queue /\ \A u \in Tid : Effect(t, u)
        BY <1>6, <1>7, <2>1
  <2>. QED  BY <2>2
<1>21. CASE destroy_free(t)
  <2>1. PICK top \in Live \ {running} :
          /\ Live' = Live \ {top} /\ pc' = [pc EXCEPT ![top] = "none"]
          /\ frame' = [frame EXCEPT ![top] = NoFrame]
        BY <1>21, DestroyFreeStep
  <2>2. UNCHANGED << wait_queue, masked >>
        BY <1>21 DEF destroy_free, destroy_rest
  <2>3. \A u \in Tid : Effect(t, u)
        BY <1>3, <2>1, <2>2 DEF Effect, Same, TypeOK
  <2>. QED  BY <2>2, <2>3
<1>22. CASE destroy_pop(t)
  <2>1. UNCHANGED << pc, frame, masked >> /\ destroying[t].at = "pop"
        BY <1>22 DEF destroy_pop, destroy_rest, DestroyAt
  <2>2. /\ Live' = Live /\ destroying[t].wq \in Cvs
        /\ \A r \in WaitQueues : ToSet(wait_queue'[r]) \subseteq Waiting(r)
        /\ \A r \in WaitQueues : r # destroying[t].wq => wait_queue'[r] = wait_queue[r]
        BY <1>22, <2>1, DestroyPopStep DEF Waiting, DestroysCvs
  <2>3. \A u \in Tid : Effect(t, u)
        BY <2>1, <2>2 DEF Effect, Same
  <2>. QED  BY <2>2, <2>3
<1>23. ~thread_sleep(t) /\ ~thread_wakeup(t) /\ ~wait_queue_destroy(t)
      BY <1>5 DEF thread_sleep, thread_wakeup, wait_queue_destroy, MayCall
<1>. QED
      BY <1>10, <1>11, <1>12, <1>13, <1>14, <1>15, <1>16, <1>17, <1>18, <1>19, <1>20,
         <1>21, <1>22, <1>23
      DEF ProgramStep, KernelStep, DestroyStep

(* What happens to the queues when a thread goes to sleep.                  *)
LEMMA SleepEffect ==
  ASSUME ThreadsInv, system = "up", NEW t \in Tid, running = t, pc[t] \in AfterCall,
         Len(thread_ReadyQueue) > 1, NEW q \in WaitQueues,
         NEW enabled \in BOOLEAN, NEW back \in Labels,
         Sleep(t, SleepFrame(q, enabled, back))
  PROVE  /\ wait_queue' = [wait_queue EXCEPT ![q] = Append(@, t)]
         /\ pc' = [pc EXCEPT ![t] = "sleep"]
         /\ \E g \in Frames : g.back = back /\ frame' = [frame EXCEPT ![t] = g]
         /\ UNCHANGED << masked, destroying >>
         /\ Live' = Live
<1> DEFINE f == SleepFrame(q, enabled, back)
           next == Head(Tail(thread_ReadyQueue))
           g == [f EXCEPT !.ran = next]
<1>1. /\ FirstTime /\ Current = t /\ thread_ReadyQueue \in Seq(Tid) /\ t \in Live
      /\ Once(thread_ReadyQueue) /\ thread_ReadyQueue # << >>
      /\ m_eThreadStatus \in [Tid -> Status]
      BY UpFacts, FirstOrResumed DEF ThreadsInv, TypeOK
<1>2. \A u \in Tid : u \in Int
      BY DEF Tid
<1>3. thread_ReadyQueue[2] \in Tid /\ next \in Tid
  <2>1. next = thread_ReadyQueue[2] /\ Tail(thread_ReadyQueue) \in Seq(Tid)
        /\ Tail(thread_ReadyQueue) # << >>
        BY <1>1, TailOnce
  <2>. QED  BY <2>1, HeadTailProperties
<1>4. f \in Frames /\ f.back = back /\ f.wq = q
      BY <1>2, <1>3 DEF SleepFrame, Frames, THREAD_NONE
<1> HIDE DEF f, next
<1>5. g \in Frames /\ g.back = back
      BY <1>2, <1>3, <1>4 DEF Frames
<1>6. /\ m_eThreadStatus' = [m_eThreadStatus EXCEPT ![t] = "Sleep"]
      /\ wait_queue' = [wait_queue EXCEPT ![q] = Append(@, t)]
      /\ SwitchTo(t, next, "sleep", f)
      /\ UNCHANGED thread_sleep_rest
      BY <1>1, <1>4 DEF Sleep, f, next, Queue_pop, Queue_push, Queue_top
<1>7. pc' = [pc EXCEPT ![t] = "sleep"] /\ frame' = [frame EXCEPT ![t] = g]
      BY <1>6 DEF SwitchTo
<1>8. Live' = Live
      BY <1>1, <1>6 DEF Live
<1>. QED  BY <1>5, <1>6, <1>7, <1>8 DEF thread_sleep_rest

(* What happens to the queues when threads are woken.                       *)
LEMMA WakeEffect ==
  ASSUME ThreadsInv, system = "up", NEW q \in WaitQueues,
         NEW n \in 0 .. Len(wait_queue[q]), Wake(q, n)
  PROVE  /\ Live' = Live
         /\ \A r \in WaitQueues : r # q => wait_queue'[r] = wait_queue[r]
         /\ ToSet(wait_queue'[q]) \subseteq Waiting(q)
         /\ n = Len(wait_queue[q]) => wait_queue'[q] = << >>
         /\ DestroysCvs => DestroysCvs'
<1> DEFINE w == wait_queue[q]
<1>1. /\ w \in Seq(Tid) /\ Once(w) /\ Waiting(q) \subseteq Live \cup Freed
      /\ Live \subseteq Tid /\ wait_queue \in [WaitQueues -> Seq(Tid)]
      /\ Waiting(q) = ToSet(w)
      BY UpFacts DEF ThreadsInv, TypeOK, Waiting
<1>2. /\ wait_queue' = [wait_queue EXCEPT ![q] = SubSeq(w, n + 1, Len(w))]
      /\ m_eThreadStatus' =
           [u \in Tid |-> IF u \in ToSet(SubSeq(w, 1, n)) \ Freed THEN "Idle"
                          ELSE m_eThreadStatus[u]]
      /\ destroying' =
           [u \in Tid |-> IF n > 0 /\ destroying[u] = [wq |-> q, at |-> "free"]
                          THEN [wq |-> q, at |-> "stray"] ELSE destroying[u]]
      BY DEF Wake, WakeDoomed, Woken
<1>3. wait_queue'[q] = SubSeq(w, n + 1, Len(w))
      BY <1>1, <1>2
<1> HIDE DEF w
<1>4. n \in 0 .. Len(w) /\ Len(w) \in Nat /\ w \in Seq(Tid) /\ Once(w)
      BY <1>1, LenProperties DEF w
<1>5. /\ ToSet(SubSeq(w, 1, n)) \subseteq ToSet(w)
      /\ ToSet(SubSeq(w, n + 1, Len(w))) \subseteq ToSet(w)
      BY <1>4, SplitOnce
<1>6. Live' = Live
      BY <1>1, <1>2, <1>5 DEF Live, Freed
<1>7. DestroysCvs => DestroysCvs'
      BY <1>2 DEF DestroysCvs
<1>8. n = Len(w) => SubSeq(w, n + 1, Len(w)) = << >>
  <2>1. n + 1 \in Int /\ Len(w) \in Int /\ (n = Len(w) => Len(w) < n + 1)
        BY <1>4
  <2>. QED  BY <2>1, SubSeqEmpty
<1>. QED  BY <1>1, <1>2, <1>3, <1>5, <1>6, <1>7, <1>8 DEF w

-----------------------------------------------------------------------------
(* The invariant of the locks                                               *)

(* The invariant holds at the start.                                        *)
LEMMA InitSync == SyncInit => SyncInv /\ MutualExclusion
<1> SUFFICES ASSUME SyncInit PROVE SyncInv /\ MutualExclusion
    OBVIOUS
<1>1. ThreadsInv
      BY InitThreads DEF SyncInit
<1>2. SyncTypeOK /\ RecordsInv /\ MutualExclusion
      BY SyncAssumption DEF SyncInit, Init, SyncTypeOK, RecordsInv, MutualExclusion, NoCall, OuterCalls
<1>3. CallsInv /\ CvWaitIsAtomic /\ DestroysCvs
  <2>1. \A t \in Tid : pc[t] \in {"user", "none"}
        BY DEF SyncInit, Init
  <2>2. \A c \in Cvs : ToSet(wait_queue[c]) = {}
        BY SyncAssumption DEF SyncInit, Init, ToSet
  <2>3. \A t \in Tid : destroying[t].at = "none"
        BY DEF SyncInit, Init, NoDestroy
  <2>. QED
        BY <2>1, <2>2, <2>3
        DEF CallsInv, CvWaitIsAtomic, DestroysCvs, Pending, Contexts, Live
<1>. QED  BY <1>1, <1>2, <1>3 DEF SyncInv

(* The records of dead threads are forgotten, their own history with them.  *)
LEMMA Forgotten ==
  ASSUME SyncTypeOK, NEW holder \in [Locks -> Tid \cup {NULL, Gone, Dangling}],
         ForgetDead(holder), m_eStatus' \in [Locks -> {"Free", "Locked"}]
  PROVE  /\ SyncTypeOK'
         /\ \A u \in Live' : outer'[u] = outer[u] /\ inside'[u] = inside[u]
         /\ \A u \in Tid \ Live' : inside'[u] = {}
         /\ \A l \in Locks :
              /\ holder[l] \notin Tid \ Live' => m_pLockedThread'[l] = holder[l]
              /\ holder[l] \in Tid \ Live' => l \in orphaned'
              /\ l \in orphaned /\ holder[l] # NULL => l \in orphaned'
              /\ l \in orphaned' => m_pLockedThread'[l] # NULL
<1>1. Live' \subseteq Tid
      BY DEF Live
<1>2. NoCall \in OuterCalls
      BY DEF NoCall, OuterCalls
<1>3. \A l \in Locks : m_pLockedThread'[l] \in {holder[l], Gone, Dangling}
      BY DEF ForgetDead
<1>4. SyncTypeOK'
      BY <1>1, <1>2 DEF SyncTypeOK, ForgetDead
<1>5. /\ \A u \in Live' : outer'[u] = outer[u] /\ inside'[u] = inside[u]
      /\ \A u \in Tid \ Live' : inside'[u] = {}
      BY <1>1 DEF ForgetDead
<1>6. ASSUME NEW l \in Locks, l \in orphaned' PROVE m_pLockedThread'[l] # NULL
  <2>1. holder[l] # NULL
        BY <1>6, SyncAssumption DEF ForgetDead
  <2>. QED  BY <1>3, <2>1, SyncAssumption
<1>. QED  BY <1>4, <1>5, <1>6 DEF ForgetDead

(* A lock that records a freed block may come to record a new thread.       *)
LEMMA RecordsMayReturn ==
  ASSUME SyncTypeOK, NEW holder \in HolderRecords
  PROVE  /\ holder \in [Locks -> Tid \cup {NULL, Gone, Dangling}]
         /\ \A l \in Locks : \/ holder[l] = m_pLockedThread[l]
                             \/ m_pLockedThread[l] = Dangling /\ holder[l] \in Tid
<1>1. m_pLockedThread \in [Locks -> Tid \cup {NULL, Gone, Dangling}]
      BY DEF SyncTypeOK
<1>2. Live' \ Live \subseteq Tid
      BY DEF Live
<1>3. CASE holder = m_pLockedThread
      BY <1>1, <1>3
<1>4. CASE \E again \in SUBSET {l \in Locks : m_pLockedThread[l] = Dangling}, t \in Live' \ Live :
             holder = [l \in Locks |-> IF l \in again THEN t ELSE m_pLockedThread[l]]
      BY <1>1, <1>2, <1>4
<1>. QED  BY <1>3, <1>4 DEF HolderRecords

(* A step of the package.                                                   *)
LEMMA PackageUnderLocks ==
  ASSUME SyncInv, NEW t \in Tid,
         ProgramStep(t) \/ KernelStep(t) \/ interrupts_set(t) \/ interrupt_handler(t),
         NEW holder \in HolderRecords, ForgetDead(holder), UNCHANGED m_eStatus
  PROVE  SyncInv' /\ (MutualExclusion => MutualExclusion')
<1>1. /\ ThreadsInv /\ SyncTypeOK /\ RecordsInv /\ CallsInv /\ DestroysCvs
      /\ CvWaitIsAtomic
      BY DEF SyncInv
<1>2. ThreadsInv'
      BY <1>1, PackageStep
<1>3. /\ system = "up" /\ running = t /\ t \in Live
      /\ pc[t] \notin {"acquire", "cv_sleep", "cv_woken"}
      /\ \A r \in WaitQueues : \/ wait_queue'[r] = wait_queue[r]
                               \/ r \in Cvs /\ ToSet(wait_queue'[r]) \subseteq Waiting(r)
      /\ \A u \in Tid : Effect(t, u)
      /\ DestroysCvs'
      BY <1>1, PackageEffect
<1>4. /\ SyncTypeOK'
      /\ \A u \in Live' : outer'[u] = outer[u] /\ inside'[u] = inside[u]
      /\ \A u \in Tid \ Live' : inside'[u] = {}
      /\ \A l \in Locks :
           /\ holder[l] \notin Tid \ Live' => m_pLockedThread'[l] = holder[l]
           /\ holder[l] \in Tid \ Live' => l \in orphaned'
           /\ l \in orphaned /\ holder[l] # NULL => l \in orphaned'
           /\ l \in orphaned' => m_pLockedThread'[l] # NULL
           /\ \/ holder[l] = m_pLockedThread[l]
              \/ m_pLockedThread[l] = Dangling /\ holder[l] \in Tid
  <2>1. m_eStatus' \in [Locks -> {"Free", "Locked"}]
        BY <1>1 DEF SyncTypeOK
  <2>. QED  BY <1>1, <2>1, Forgotten, RecordsMayReturn
<1>5. RecordsInv'
  <2> SUFFICES ASSUME NEW l \in Locks
               PROVE  /\ wait_queue'[l] # << >> => m_eStatus'[l] = "Locked"
                      /\ m_eStatus'[l] = "Locked" =>
                           \/ l \in orphaned'
                           \/ m_pLockedThread'[l] \in Tid /\ l \in inside'[m_pLockedThread'[l]]
                      /\ l \in orphaned' => m_pLockedThread'[l] # NULL
      BY DEF RecordsInv
  <2>1. wait_queue'[l] = wait_queue[l]
        BY <1>3, SyncAssumption
  <2>2. l \in orphaned => l \in orphaned'
        BY <1>1, <1>4, SyncAssumption DEF RecordsInv
  <2>3. m_pLockedThread[l] \in Tid => holder[l] = m_pLockedThread[l]
        BY <1>4, SyncAssumption
  <2>. QED  BY <1>1, <1>4, <2>1, <2>2, <2>3 DEF RecordsInv
<1>6. /\ Live \subseteq Tid /\ Live' \subseteq Tid /\ t \in Ready /\ Freed \cap Live = {}
      /\ \A q \in WaitQueues : Waiting(q) \subseteq Live \cup Freed /\ Ready \cap Waiting(q) = {}
      BY <1>1, <1>3, UpFacts DEF Live
<1>7. ASSUME NEW u \in Tid, pc[u] \in Contexts
      PROVE  frame[u].back \in AfterCall /\ frame[u].back \notin Contexts
      BY <1>1, <1>3, <1>7 DEF ThreadsInv, UpInv, FrameInv, AfterCall, Contexts
<1>8. ASSUME NEW u \in Live', pc'[u] = "cv_sleep" PROVE u \in Live /\ pc[u] = "cv_sleep"
      BY <1>1, <1>3, <1>6, <1>8 DEF Effect, CallsInv, Same, Contexts
<1>9. \A u \in Live' : pc'[u] # "cv_sleep"
      BY <1>1, <1>3, <1>8 DEF CvWaitIsAtomic
<1>10. CallsInv'
  <2> SUFFICES ASSUME NEW u \in Live'
               PROVE  /\ Pending(u)' \in {"acquire", "cv_sleep", "cv_woken"} =>
                           outer'[u].lock \in Locks /\ outer'[u].enabled = (u \notin masked')
                      /\ pc'[u] \in Contexts => frame'[u].back # "cv_sleep"
      BY <1>6, <1>9 DEF CallsInv
  <2>1. Effect(t, u) /\ u \in Tid
        BY <1>3, <1>6
  <2>2. CASE Same(u)
        BY <1>1, <1>4, <2>2 DEF Same, Pending, CallsInv
  <2>3. CASE pc'[u] \in {"stub", "user", "stub_exit"}
        BY <2>3 DEF Pending, Contexts
  <2>4. CASE pc'[u] \in Contexts /\ frame'[u].back \in AfterProgram
        BY <2>4 DEF Pending, AfterProgram
  <2>5. CASE u = t /\ Stays(u) /\ pc[u] \in Contexts /\ pc'[u] = frame[u].back
    <3>1. pc'[u] \notin Contexts
          BY <1>7, <2>1, <2>5
    <3>2. Pending(u)' = Pending(u)
          BY <2>5, <3>1 DEF Pending
    <3>. QED  BY <1>1, <1>4, <2>5, <3>1, <3>2 DEF CallsInv, Stays
  <2>. QED  BY <2>1, <2>2, <2>3, <2>4, <2>5 DEF Effect
<1>11. CvWaitIsAtomic'
  <2>1. ASSUME NEW c \in Cvs, NEW u \in Live', u \in ToSet(wait_queue'[c])
        PROVE  frame'[u].back = "cv_woken" /\ outer'[u].cv = c
    <3>1. u \in Waiting(c) /\ c \in WaitQueues
          BY <1>3, <2>1, SyncAssumption DEF Waiting
    <3>2. u \in Live \cup Freed /\ u # t /\ u \in Tid
          BY <1>6, <3>1
    <3>3. Same(u) /\ u \in Live
          BY <1>3, <3>2 DEF Effect, Same
    <3>. QED  BY <1>1, <1>4, <3>1, <3>3 DEF CvWaitIsAtomic, Same, Waiting
  <2>. QED  BY <1>9, <2>1 DEF CvWaitIsAtomic
<1>12. ASSUME MutualExclusion PROVE MutualExclusion'
  <2> SUFFICES ASSUME NEW l \in Locks, NEW u \in Tid, l \in inside'[u]
               PROVE  /\ \A v \in Tid \ {u} : l \notin inside'[v]
                      /\ m_eStatus'[l] = "Locked"
                      /\ m_pLockedThread'[l] = u
      BY DEF MutualExclusion
  <2>1. u \in Live' /\ l \in inside[u] /\ \A v \in Tid : inside'[v] \subseteq inside[v]
        BY <1>4
  <2>2. m_pLockedThread[l] = u /\ m_eStatus[l] = "Locked" /\ holder[l] = u
        BY <1>4, <1>12, <2>1, SyncAssumption DEF MutualExclusion
  <2>. QED  BY <1>4, <1>12, <2>1, <2>2 DEF MutualExclusion
<1>. QED  BY <1>2, <1>3, <1>4, <1>5, <1>10, <1>11, <1>12 DEF SyncInv

(* A step of the running thread t in its own call: it is enough to look at  *)
(* t and at the queues.                                                     *)
LEMMA OwnCall ==
  ASSUME SyncInv, system = "up", NEW t \in Tid, running = t,
         Live' = Live, UNCHANGED masked,
         \A u \in Tid \ {t} : /\ pc'[u] = pc[u] /\ frame'[u] = frame[u]
                              /\ outer'[u] = outer[u],
         Pending(t)' \in {"acquire", "cv_sleep", "cv_woken"} =>
           outer'[t].lock \in Locks /\ outer'[t].enabled = (t \notin masked),
         pc'[t] = "cv_sleep" =>
           /\ outer'[t].cv \in Cvs /\ running' = t
           /\ \A l \in Locks : m_eStatus'[l] = "Locked" => l # outer'[t].lock,
         pc'[t] \in Contexts => frame'[t].back # "cv_sleep",
         \A c \in Cvs : ToSet(wait_queue'[c]) \subseteq Waiting(c) \cup
           {u \in {t} : frame'[t].back = "cv_woken" /\ outer'[t].cv = c}
  PROVE  CallsInv' /\ CvWaitIsAtomic'
<1>1. CallsInv /\ CvWaitIsAtomic /\ Live \subseteq Tid
      BY DEF SyncInv, Live
<1>2. t \in Ready /\ \A q \in WaitQueues : t \notin Waiting(q)
      BY UpFacts DEF SyncInv
<1>3. \A u \in Tid \ {t} : Pending(u)' = Pending(u)
      BY DEF Pending
<1>4. CallsInv'
      BY <1>1, <1>3 DEF CallsInv
<1>5. \A u \in Live \ {t} : pc'[u] # "cv_sleep"
      BY <1>1 DEF CvWaitIsAtomic
<1>6. ASSUME NEW c \in Cvs, NEW u \in Live, u \in ToSet(wait_queue'[c])
      PROVE  frame'[u].back = "cv_woken" /\ outer'[u].cv = c
  <2>1. c \in WaitQueues
        BY SyncAssumption
  <2>2. CASE u = t
        BY <1>2, <1>6, <2>1, <2>2
  <2>3. CASE u # t
        BY <1>1, <1>6, <2>3 DEF CvWaitIsAtomic, Waiting
  <2>. QED  BY <2>2, <2>3
<1>7. CvWaitIsAtomic'
      BY <1>5, <1>6 DEF CvWaitIsAtomic
<1>. QED  BY <1>4, <1>7

(* The loop of lock_acquire. *)
LEMMA AcquireStep ==
  ASSUME SyncInv, system = "up", NEW t \in Tid, running = t,
         pc[t] \in {"user", "acquire", "cv_woken"},
         NEW l \in Locks, NEW c \in OuterCalls, c.lock \in Locks,
         c.enabled = (t \notin masked), Acquire(t, l, c)
  PROVE  SyncInv' /\ (MutualExclusion => MutualExclusion')
<1>1. /\ ThreadsInv /\ SyncTypeOK /\ RecordsInv /\ TypeOK /\ DestroysCvs
      BY DEF SyncInv, ThreadsInv
<1>2. /\ Current = t /\ t \in Live /\ Live \subseteq Tid
      BY <1>1, UpFacts
<1>3. /\ pc[t] \in AfterCall
      /\ "user" \in Labels \cap AfterCall /\ "acquire" \in Labels \cap AfterCall
      /\ l \in WaitQueues /\ c.enabled \in BOOLEAN
      BY SyncAssumption DEF AfterCall, Labels, Contexts, OuterCalls
<1>4. ret \in [call : CallNames \cup Contexts \cup {"none"}, val : Int]
      BY <1>1 DEF TypeOK
<1>5. CASE /\ m_eStatus[l] = "Free"
           /\ m_eStatus' = [m_eStatus EXCEPT ![l] = "Locked"]
           /\ m_pLockedThread' = [m_pLockedThread EXCEPT ![l] = Current]
           /\ inside' = [inside EXCEPT ![t] = @ \cup {l}]
           /\ interrupts' = c.enabled
           /\ pc' = [pc EXCEPT ![t] = "user"]
           /\ outer' = [outer EXCEPT ![t] = NoCall]
           /\ UNCHANGED << thread_ReadyQueue, m_eThreadStatus, wait_queue, running,
                           frame, ret, orphaned, lock_rest >>
  <2>1. UNCHANGED << thread_ExitQueue, thread_ReadyQueue_index, masked, badStack,
                     destroying, system >>
        BY <1>5 DEF lock_rest, wake_rest
  <2>2. ThreadsInv'
        BY <1>1, <1>3, <1>4, <1>5, <2>1, LocalStep
  <2>3. SyncTypeOK'
        BY <1>1, <1>2, <1>5 DEF SyncTypeOK, NoCall, OuterCalls
  <2>4. RecordsInv'
        BY <1>1, <1>2, <1>5, SyncAssumption DEF RecordsInv, SyncTypeOK
  <2>5. CallsInv' /\ CvWaitIsAtomic'
    <3>1. Live' = Live /\ pc'[t] = "user" /\ Pending(t)' = "user"
          BY <1>1, <1>5 DEF Live, TypeOK, Pending, Contexts
    <3>2. \A u \in Tid \ {t} : /\ pc'[u] = pc[u] /\ frame'[u] = frame[u]
                               /\ outer'[u] = outer[u]
          BY <1>1, <1>5 DEF TypeOK, SyncTypeOK
    <3>3. \A d \in Cvs : ToSet(wait_queue'[d]) = Waiting(d)
          BY <1>5 DEF Waiting
    <3>. QED  BY <2>1, <3>1, <3>2, <3>3, OwnCall DEF Contexts
  <2>6. MutualExclusion => MutualExclusion'
        BY <1>1, <1>2, <1>5 DEF MutualExclusion, SyncTypeOK
  <2>7. DestroysCvs'
        BY <1>1, <2>1 DEF DestroysCvs
  <2>. QED  BY <2>2, <2>3, <2>4, <2>5, <2>6, <2>7 DEF SyncInv
<1>6. CASE /\ m_eStatus[l] = "Locked"
           /\ Len(thread_ReadyQueue) > 1
           /\ Sleep(t, SleepFrame(l, FALSE, "acquire"))
           /\ outer' = [outer EXCEPT ![t] = c]
           /\ UNCHANGED << m_eStatus, m_pLockedThread, inside, orphaned >>
  <2>1. ThreadsInv'
        BY <1>1, <1>3, <1>6, SleepStep
  <2>2. /\ wait_queue' = [wait_queue EXCEPT ![l] = Append(@, t)]
        /\ pc' = [pc EXCEPT ![t] = "sleep"]
        /\ \E g \in Frames : g.back = "acquire" /\ frame' = [frame EXCEPT ![t] = g]
        /\ UNCHANGED << masked, destroying >> /\ Live' = Live
        BY <1>1, <1>3, <1>6, SleepEffect
  <2>3. SyncTypeOK'
        BY <1>1, <1>6 DEF SyncTypeOK
  <2>4. RecordsInv'
    <3>1. \A k \in Locks \ {l} : wait_queue'[k] = wait_queue[k]
          BY <1>1, <2>2, SyncAssumption DEF TypeOK
    <3>. QED  BY <1>1, <1>6, <3>1 DEF RecordsInv
  <2>5. CallsInv' /\ CvWaitIsAtomic'
    <3>1. /\ pc'[t] = "sleep" /\ frame'[t].back = "acquire" /\ outer'[t] = c
          /\ pc'[t] \in Contexts
          BY <1>1, <1>6, <2>2 DEF TypeOK, SyncTypeOK, Contexts
    <3>2. \A u \in Tid \ {t} : /\ pc'[u] = pc[u] /\ frame'[u] = frame[u]
                               /\ outer'[u] = outer[u]
          BY <1>1, <1>6, <2>2 DEF TypeOK, SyncTypeOK
    <3>3. \A d \in Cvs : ToSet(wait_queue'[d]) = Waiting(d)
          BY <1>1, <2>2, SyncAssumption DEF Waiting, TypeOK
    <3>. QED  BY <2>2, <3>1, <3>2, <3>3, OwnCall
  <2>6. MutualExclusion => MutualExclusion'
        BY <1>6 DEF MutualExclusion
  <2>7. DestroysCvs'
        BY <1>1, <2>2 DEF DestroysCvs
  <2>. QED  BY <2>1, <2>3, <2>4, <2>5, <2>6, <2>7 DEF SyncInv
<1>7. CASE /\ m_eStatus[l] = "Locked"
           /\ pc' = [pc EXCEPT ![t] = "acquire"]
           /\ interrupts' = FALSE
           /\ outer' = [outer EXCEPT ![t] = c]
           /\ UNCHANGED << thread_ReadyQueue, m_eThreadStatus, wait_queue, running,
                           frame, ret, m_eStatus, m_pLockedThread, inside, orphaned,
                           lock_rest >>
  <2>1. UNCHANGED << thread_ExitQueue, thread_ReadyQueue_index, masked, badStack,
                     destroying, system >>
        BY <1>7 DEF lock_rest, wake_rest
  <2>2. ThreadsInv'
        BY <1>1, <1>3, <1>4, <1>7, <2>1, LocalStep
  <2>3. SyncTypeOK'
        BY <1>1, <1>7 DEF SyncTypeOK
  <2>4. RecordsInv'
        BY <1>1, <1>7 DEF RecordsInv
  <2>5. CallsInv' /\ CvWaitIsAtomic'
    <3>1. Live' = Live /\ pc'[t] = "acquire" /\ pc'[t] \notin Contexts /\ outer'[t] = c
          BY <1>1, <1>7 DEF Live, TypeOK, SyncTypeOK, Contexts
    <3>2. \A u \in Tid \ {t} : /\ pc'[u] = pc[u] /\ frame'[u] = frame[u]
                               /\ outer'[u] = outer[u]
          BY <1>1, <1>7 DEF TypeOK, SyncTypeOK
    <3>3. \A d \in Cvs : ToSet(wait_queue'[d]) = Waiting(d)
          BY <1>7 DEF Waiting
    <3>. QED  BY <2>1, <3>1, <3>2, <3>3, OwnCall
  <2>6. MutualExclusion => MutualExclusion'
        BY <1>7 DEF MutualExclusion
  <2>7. DestroysCvs'
        BY <1>1, <2>1 DEF DestroysCvs
  <2>. QED  BY <2>2, <2>3, <2>4, <2>5, <2>6, <2>7 DEF SyncInv
<1>. QED  BY <1>5, <1>6, <1>7 DEF Acquire

(* lock_acquire, called by the program, by cv_wait, or tried again.         *)
LEMMA AcquireSteps ==
  ASSUME SyncInv, NEW t \in Tid, lock_acquire(t) \/ acquire_again(t) \/ cv_woken(t)
  PROVE  SyncInv' /\ (MutualExclusion => MutualExclusion')
<1>1. /\ system = "up" /\ running = t /\ pc[t] \in {"user", "acquire", "cv_woken"}
      BY DEF lock_acquire, acquire_again, cv_woken, MayCall, Executing
<1>2. ThreadsInv /\ SyncTypeOK /\ CallsInv /\ TypeOK
      BY DEF SyncInv, ThreadsInv
<1>3. t \in Live
      BY <1>1, <1>2, UpFacts
<1>4. CASE lock_acquire(t)
  <2>1. PICK l \in Locks : Acquire(t, l, [lock |-> l, cv |-> NoQueue, enabled |-> interrupts])
        BY <1>4 DEF lock_acquire
  <2> DEFINE c == [lock |-> l, cv |-> NoQueue, enabled |-> interrupts]
  <2>2. pc[t] = "user"
        BY <1>4 DEF lock_acquire, MayCall, Executing
  <2>3. interrupts = (t \notin masked) /\ interrupts \in BOOLEAN
        BY <1>1, <1>2, <2>2, FirstOrResumed DEF TypeOK
  <2>4. c \in OuterCalls /\ c.lock = l /\ c.enabled = interrupts
        BY <2>3 DEF OuterCalls
  <2> HIDE DEF c
  <2>5. Acquire(t, l, c)
        BY <2>1 DEF c
  <2>. QED  BY <1>1, <2>3, <2>4, <2>5, AcquireStep
<1>5. CASE acquire_again(t) \/ cv_woken(t)
  <2>1. pc[t] \in {"acquire", "cv_woken"} /\ Acquire(t, outer[t].lock, outer[t])
        BY <1>5 DEF acquire_again, cv_woken, Executing
  <2>2. Pending(t) \in {"acquire", "cv_woken"}
        BY <2>1 DEF Pending, Contexts
  <2>3. outer[t] \in OuterCalls /\ outer[t].lock \in Locks /\ outer[t].enabled = (t \notin masked)
        BY <1>2, <1>3, <2>2 DEF CallsInv, SyncTypeOK
  <2>. QED  BY <1>1, <2>1, <2>3, AcquireStep
<1>. QED  BY <1>4, <1>5

(* The lock l is released by the running thread: all who wait for it are    *)
(* woken, and nothing else that the locks read changes.                     *)
LEMMA ReleaseStep ==
  ASSUME SyncInv, system = "up", NEW t \in Tid, running = t, pc[t] = "user",
         NEW l \in Locks, Release(t, l),
         NEW label \in {"user", "cv_sleep"}, pc' = [pc EXCEPT ![t] = label],
         interrupts' \in BOOLEAN, label = "user" => interrupts' = (t \notin masked),
         label = "cv_sleep" => ~interrupts',
         outer' \in [Tid -> OuterCalls], \A u \in Tid \ {t} : outer'[u] = outer[u],
         label = "cv_sleep" => /\ outer'[t].lock = l /\ outer'[t].cv \in Cvs
                               /\ outer'[t].enabled = (t \notin masked),
         UNCHANGED << running, frame, ret, wake_rest >>
  PROVE  /\ SyncInv'
         /\ MutualExclusion /\ (\A u \in Tid \ {t} : l \notin inside[u]) => MutualExclusion'
<1> DEFINE n == Len(wait_queue[l])
<1>1. /\ ThreadsInv /\ SyncTypeOK /\ RecordsInv /\ TypeOK /\ DestroysCvs
      BY DEF SyncInv, ThreadsInv
<1>2. /\ l \in WaitQueues /\ \A c \in Cvs : c \in WaitQueues /\ c # l
      /\ label \in Labels \cap AfterCall /\ pc[t] \in AfterCall
      /\ label \notin Contexts /\ (label \notin {"user", "stub_exit"} => label = "cv_sleep")
      BY SyncAssumption DEF AfterCall, Labels, Contexts
<1>3. n \in 0 .. Len(wait_queue[l])
  <2>1. wait_queue[l] \in Seq(Tid)
        BY <1>1, <1>2 DEF TypeOK
  <2>2. n \in Nat
        BY <2>1, LenProperties
  <2>. QED  BY <2>2
<1> HIDE DEF n
<1>4. /\ Wake(l, n) /\ inside' = [inside EXCEPT ![t] = @ \ {l}]
      /\ m_eStatus' = [m_eStatus EXCEPT ![l] = "Free"]
      /\ m_pLockedThread' = [m_pLockedThread EXCEPT ![l] = NULL]
      /\ orphaned' = orphaned \ {l}
      BY DEF Release, n
<1>5. /\ UNCHANGED masked
      /\ ret' \in [call : CallNames \cup Contexts \cup {"none"}, val : Int]
      BY <1>1 DEF wake_rest, TypeOK
<1>6. ThreadsInv'
      BY <1>1, <1>2, <1>3, <1>4, <1>5, WakeStep
<1>7. /\ Live' = Live
      /\ \A r \in WaitQueues : r # l => wait_queue'[r] = wait_queue[r]
      /\ wait_queue'[l] = << >> /\ DestroysCvs'
      BY <1>1, <1>2, <1>3, <1>4, WakeEffect DEF n
<1>8. SyncTypeOK'
      BY <1>1, <1>4 DEF SyncTypeOK
<1>9. RecordsInv'
  <2> SUFFICES ASSUME NEW k \in Locks
               PROVE  /\ wait_queue'[k] # << >> => m_eStatus'[k] = "Locked"
                      /\ m_eStatus'[k] = "Locked" =>
                           \/ k \in orphaned'
                           \/ m_pLockedThread'[k] \in Tid /\ k \in inside'[m_pLockedThread'[k]]
                      /\ k \in orphaned' => m_pLockedThread'[k] # NULL
      BY DEF RecordsInv
  <2>1. CASE k = l
        BY <1>1, <1>4, <1>7, <2>1 DEF SyncTypeOK
  <2>2. CASE k # l
    <3>1. /\ wait_queue'[k] = wait_queue[k] /\ m_eStatus'[k] = m_eStatus[k]
          /\ m_pLockedThread'[k] = m_pLockedThread[k] /\ (k \in orphaned' <=> k \in orphaned)
          /\ \A u \in Tid : k \in inside[u] => k \in inside'[u]
          BY <1>1, <1>4, <1>7, <2>2, SyncAssumption DEF SyncTypeOK
    <3>. QED  BY <1>1, <3>1 DEF RecordsInv
  <2>. QED  BY <2>1, <2>2
<1>10. CallsInv' /\ CvWaitIsAtomic'
  <2>1. pc'[t] = label /\ \A u \in Tid \ {t} : pc'[u] = pc[u]
        BY <1>1 DEF TypeOK
  <2>2. Pending(t)' = label /\ pc'[t] \notin Contexts
        BY <1>2, <2>1 DEF Pending
  <2>3. \A c \in Cvs : ToSet(wait_queue'[c]) = Waiting(c)
        BY <1>2, <1>7 DEF Waiting
  <2>4. \A k \in Locks : m_eStatus'[k] = "Locked" => k # l
        BY <1>1, <1>4 DEF SyncTypeOK
  <2>. QED  BY <1>5, <1>7, <2>1, <2>2, <2>3, <2>4, OwnCall
<1>11. ASSUME MutualExclusion, \A u \in Tid \ {t} : l \notin inside[u]
       PROVE  MutualExclusion'
  <2>1. \A u \in Tid : l \notin inside'[u] /\ inside'[u] \subseteq inside[u]
        BY <1>1, <1>4, <1>11 DEF SyncTypeOK
  <2>2. \A k \in Locks \ {l} : /\ m_eStatus'[k] = m_eStatus[k]
                               /\ m_pLockedThread'[k] = m_pLockedThread[k]
        BY <1>1, <1>4 DEF SyncTypeOK
  <2>. QED  BY <1>11, <2>1, <2>2 DEF MutualExclusion
<1>. QED  BY <1>6, <1>7, <1>8, <1>9, <1>10, <1>11 DEF SyncInv

(* lock_release and the first part of cv_wait.  Mutual exclusion survives a *)
(* release by whoever is inside the lock, and cv_wait looks at the record.  *)
LEMMA ReleaseSteps ==
  ASSUME SyncInv, NEW t \in Tid, lock_release(t) \/ lock_release_any(t) \/ cv_wait(t)
  PROVE  SyncInv' /\ (MutualExclusion /\ ~lock_release_any(t) => MutualExclusion')
<1>1. /\ system = "up" /\ running = t /\ pc[t] = "user"
      BY DEF lock_release, lock_release_any, cv_wait, MayCall, Executing
<1>2. ThreadsInv /\ SyncTypeOK /\ TypeOK
      BY DEF SyncInv, ThreadsInv
<1>3. interrupts = (t \notin masked) /\ interrupts \in BOOLEAN /\ Current = t
      BY <1>1, <1>2, FirstOrResumed, UpFacts DEF TypeOK
<1>4. CASE lock_release(t) \/ lock_release_any(t)
  <2>1. PICK l \in Locks : Release(t, l) /\ (~lock_release_any(t) => l \in inside[t])
        BY <1>2, <1>4 DEF lock_release, lock_release_any, SyncTypeOK
  <2>2. UNCHANGED << running, pc, frame, interrupts, ret, outer, wake_rest >>
        BY <1>4 DEF lock_release, lock_release_any
  <2>3. pc' = [pc EXCEPT ![t] = "user"] /\ outer' \in [Tid -> OuterCalls]
        BY <1>1, <1>2, <2>2 DEF TypeOK, SyncTypeOK
  <2>4. /\ SyncInv'
        /\ MutualExclusion /\ (\A u \in Tid \ {t} : l \notin inside[u]) => MutualExclusion'
        BY <1>1, <1>3, <2>1, <2>2, <2>3, ReleaseStep
  <2>5. MutualExclusion /\ l \in inside[t] => \A u \in Tid \ {t} : l \notin inside[u]
        BY DEF MutualExclusion
  <2>. QED  BY <2>1, <2>4, <2>5
<1>5. CASE cv_wait(t)
  <2>1. PICK c \in Cvs, l \in Locks :
          /\ Held(l)
          /\ Release(t, l)
          /\ outer' = [outer EXCEPT ![t] = [lock |-> l, cv |-> c, enabled |-> interrupts]]
        BY <1>5 DEF cv_wait
  <2> DEFINE o == [lock |-> l, cv |-> c, enabled |-> interrupts]
  <2>2. o \in OuterCalls /\ o.lock = l /\ o.cv = c /\ o.enabled = interrupts
        BY <1>3 DEF OuterCalls
  <2>3. outer' = [outer EXCEPT ![t] = o]
        BY <2>1
  <2> HIDE DEF o
  <2>4. /\ outer' \in [Tid -> OuterCalls] /\ outer'[t] = o
        /\ \A u \in Tid \ {t} : outer'[u] = outer[u]
        BY <1>2, <2>2, <2>3 DEF SyncTypeOK
  <2>5. /\ pc' = [pc EXCEPT ![t] = "cv_sleep"] /\ interrupts' = FALSE
        /\ UNCHANGED << running, frame, ret, wake_rest >>
        BY <1>5 DEF cv_wait
  <2>6. /\ SyncInv'
        /\ MutualExclusion /\ (\A u \in Tid \ {t} : l \notin inside[u]) => MutualExclusion'
        BY <1>1, <1>3, <2>1, <2>2, <2>4, <2>5, ReleaseStep
  <2>7. MutualExclusion => \A u \in Tid \ {t} : l \notin inside[u]
        BY <1>3, <2>1 DEF MutualExclusion, Held
  <2>. QED  BY <2>6, <2>7
<1>. QED  BY <1>4, <1>5

(* The sleep of cv_wait, which the only ready thread does not take.         *)
LEMMA CvSleepStep ==
  ASSUME SyncInv, NEW t \in Tid, cv_sleep(t)
  PROVE  SyncInv' /\ (MutualExclusion => MutualExclusion')
<1>1. /\ system = "up" /\ running = t /\ pc[t] = "cv_sleep" /\ UNCHANGED syncVars
      BY DEF cv_sleep, Executing
<1>2. /\ ThreadsInv /\ SyncTypeOK /\ RecordsInv /\ CallsInv /\ DestroysCvs
      /\ CvWaitIsAtomic /\ TypeOK
      BY DEF SyncInv, ThreadsInv
<1>3. t \in Live /\ Live \subseteq Tid
      BY <1>1, <1>2, UpFacts
<1>4. UNCHANGED << m_eStatus, m_pLockedThread, outer, inside, orphaned >>
      BY <1>1 DEF syncVars
<1>5. /\ outer[t].cv \in Cvs /\ outer[t].lock \in Locks
      /\ outer[t].enabled = (t \notin masked)
  <2>1. Pending(t) = "cv_sleep"
        BY <1>1 DEF Pending, Contexts
  <2>. QED  BY <1>1, <1>2, <1>3, <2>1 DEF CallsInv
<1>6. /\ outer[t].cv \in WaitQueues /\ outer[t].cv \notin Locks
      /\ pc[t] \in AfterCall /\ "cv_woken" \in Labels \cap AfterCall
      /\ "cv_woken" \notin {"user", "stub_exit"}
      BY <1>1, <1>5, SyncAssumption DEF AfterCall, Labels, Contexts
<1>7. SyncTypeOK'
      BY <1>2, <1>4 DEF SyncTypeOK
<1>8. MutualExclusion => MutualExclusion'
      BY <1>4 DEF MutualExclusion
<1>9. CASE /\ Len(thread_ReadyQueue) > 1
           /\ Sleep(t, SleepFrame(outer[t].cv, FALSE, "cv_woken"))
  <2>1. ThreadsInv'
        BY <1>1, <1>2, <1>6, <1>9, SleepStep
  <2>2. /\ wait_queue' = [wait_queue EXCEPT ![outer[t].cv] = Append(@, t)]
        /\ pc' = [pc EXCEPT ![t] = "sleep"]
        /\ \E g \in Frames : g.back = "cv_woken" /\ frame' = [frame EXCEPT ![t] = g]
        /\ UNCHANGED << masked, destroying >> /\ Live' = Live
        BY <1>1, <1>2, <1>6, <1>9, SleepEffect
  <2>3. RecordsInv'
    <3>1. \A k \in Locks : wait_queue'[k] = wait_queue[k]
          BY <1>2, <1>6, <2>2, SyncAssumption DEF TypeOK
    <3>. QED  BY <1>2, <1>4, <3>1 DEF RecordsInv
  <2>4. /\ pc'[t] = "sleep" /\ frame'[t].back = "cv_woken" /\ pc'[t] \in Contexts
        /\ \A u \in Tid \ {t} : pc'[u] = pc[u] /\ frame'[u] = frame[u]
        BY <1>2, <2>2 DEF TypeOK, Contexts
  <2>5. \A c \in Cvs : ToSet(wait_queue'[c]) \subseteq Waiting(c) \cup
          {u \in {t} : frame'[t].back = "cv_woken" /\ outer'[t].cv = c}
    <3> SUFFICES ASSUME NEW c \in Cvs
                 PROVE  ToSet(wait_queue'[c]) \subseteq Waiting(c) \cup
                          {u \in {t} : frame'[t].back = "cv_woken" /\ outer'[t].cv = c}
        OBVIOUS
    <3>1. c \in WaitQueues /\ wait_queue[c] \in Seq(Tid) /\ Once(wait_queue[c])
          BY <1>1, <1>2, UpFacts, SyncAssumption
    <3>2. CASE c = outer[t].cv
      <4>1. wait_queue'[c] = Append(wait_queue[c], t)
            BY <1>2, <1>6, <2>2, <3>2 DEF TypeOK
      <4>2. t \notin ToSet(wait_queue[c])
            BY <1>1, <1>2, <3>1, UpFacts DEF Waiting
      <4>3. ToSet(Append(wait_queue[c], t)) = Waiting(c) \cup {t}
            BY <3>1, <4>2, AppendOnce DEF Waiting
      <4>. QED  BY <1>4, <2>4, <3>2, <4>1, <4>3
    <3>3. CASE c # outer[t].cv
      <4>1. wait_queue'[c] = wait_queue[c]
            BY <1>2, <2>2, <3>1, <3>3 DEF TypeOK
      <4>. QED  BY <4>1 DEF Waiting
    <3>. QED  BY <3>2, <3>3
  <2>6. CallsInv' /\ CvWaitIsAtomic'
        BY <1>1, <1>4, <1>5, <2>2, <2>4, <2>5, OwnCall
  <2>7. DestroysCvs'
        BY <1>2, <2>2 DEF DestroysCvs
  <2>. QED  BY <1>7, <1>8, <2>1, <2>3, <2>6, <2>7 DEF SyncInv
<1>10. CASE /\ pc' = [pc EXCEPT ![t] = "cv_woken"]
            /\ UNCHANGED << thread_ReadyQueue, m_eThreadStatus, wait_queue, running,
                            frame, interrupts, ret, lock_rest >>
  <2>1. /\ UNCHANGED << thread_ExitQueue, thread_ReadyQueue_index, masked, badStack,
                        destroying, system >>
        /\ ret \in [call : CallNames \cup Contexts \cup {"none"}, val : Int]
        /\ interrupts = FALSE
    <3>1. InterruptsRestored /\ interrupts \in BOOLEAN
          BY <1>1, <1>2 DEF ThreadsInv, UpInv, TypeOK
    <3>. QED  BY <1>1, <1>2, <1>10, <3>1 DEF lock_rest, wake_rest, InterruptsRestored, TypeOK
  <2>2. ThreadsInv'
        BY <1>1, <1>2, <1>6, <1>10, <2>1, LocalStep
  <2>3. RecordsInv'
        BY <1>2, <1>4, <1>10 DEF RecordsInv
  <2>4. /\ Live' = Live /\ pc'[t] = "cv_woken" /\ pc'[t] \notin Contexts
        /\ \A u \in Tid \ {t} : pc'[u] = pc[u] /\ frame'[u] = frame[u]
        BY <1>2, <1>10 DEF TypeOK, Contexts, Live
  <2>5. \A c \in Cvs : ToSet(wait_queue'[c]) = Waiting(c)
        BY <1>10 DEF Waiting
  <2>6. CallsInv' /\ CvWaitIsAtomic'
        BY <1>1, <1>4, <1>5, <2>1, <2>4, <2>5, OwnCall
  <2>7. DestroysCvs'
        BY <1>2, <2>1 DEF DestroysCvs
  <2>. QED  BY <1>7, <1>8, <2>2, <2>3, <2>6, <2>7 DEF SyncInv
<1>. QED  BY <1>9, <1>10 DEF cv_sleep

(* cv_signal and cv_broadcast only make sleeping threads ready.             *)
LEMMA CvSignalStep ==
  ASSUME SyncInv, NEW t \in Tid, cv_signal(t)
  PROVE  SyncInv' /\ (MutualExclusion => MutualExclusion')
<1>1. /\ system = "up" /\ running = t /\ pc[t] = "user"
      /\ UNCHANGED << running, pc, frame, interrupts, ret, wake_rest, syncVars >>
      BY DEF cv_signal, MayCall, Executing
<1>2. /\ ThreadsInv /\ SyncTypeOK /\ RecordsInv /\ CallsInv /\ DestroysCvs
      /\ CvWaitIsAtomic /\ TypeOK
      BY DEF SyncInv, ThreadsInv
<1>3. /\ UNCHANGED << m_eStatus, m_pLockedThread, outer, inside, orphaned, masked >>
      /\ ret \in [call : CallNames \cup Contexts \cup {"none"}, val : Int]
      /\ interrupts = (t \notin masked) /\ interrupts \in BOOLEAN
      /\ pc' = [pc EXCEPT ![t] = "user"]
      BY <1>1, <1>2, FirstOrResumed DEF syncVars, wake_rest, TypeOK
<1>4. PICK c \in Cvs : \E n \in {0, 1, Len(wait_queue[c])} :
        (n = 1 => wait_queue[c] # << >>) /\ Wake(c, n)
  <2>1. PICK c \in Cvs : \/ Wake(c, IF wait_queue[c] = << >> THEN 0 ELSE 1)
                         \/ Wake(c, Len(wait_queue[c]))
        BY DEF cv_signal
  <2>2. wait_queue[c] = << >> => Len(wait_queue[c]) = 0
        OBVIOUS
  <2>. QED  BY <2>1, <2>2
<1>5. PICK n \in {0, 1, Len(wait_queue[c])} : (n = 1 => wait_queue[c] # << >>) /\ Wake(c, n)
      BY <1>4
<1>6. c \in WaitQueues /\ c \notin Locks
      BY SyncAssumption
<1>7. n \in 0 .. Len(wait_queue[c])
  <2>1. wait_queue[c] \in Seq(Tid) /\ Len(wait_queue[c]) \in Nat
        BY <1>2, <1>6, LenProperties DEF TypeOK
  <2>. QED  BY <1>5, <2>1, EmptySeq
<1>8. ThreadsInv'
  <2>1. "user" \in Labels \cap AfterCall
        BY DEF Labels, AfterCall
  <2>. QED  BY <1>1, <1>2, <1>3, <1>5, <1>6, <1>7, <2>1, WakeStep
<1>9. /\ Live' = Live
      /\ \A r \in WaitQueues : r # c => wait_queue'[r] = wait_queue[r]
      /\ ToSet(wait_queue'[c]) \subseteq Waiting(c) /\ DestroysCvs'
      BY <1>1, <1>2, <1>5, <1>6, <1>7, WakeEffect
<1>10. SyncTypeOK' /\ (MutualExclusion => MutualExclusion')
      BY <1>2, <1>3 DEF SyncTypeOK, MutualExclusion
<1>11. RecordsInv'
      BY <1>2, <1>3, <1>6, <1>9, SyncAssumption DEF RecordsInv
<1>12. CallsInv'
      BY <1>1, <1>2, <1>3, <1>9 DEF CallsInv, Pending
<1>13. CvWaitIsAtomic'
  <2>1. \A d \in Cvs : ToSet(wait_queue'[d]) \subseteq ToSet(wait_queue[d])
        BY <1>9, SyncAssumption DEF Waiting
  <2>. QED  BY <1>1, <1>2, <1>3, <1>9, <2>1 DEF CvWaitIsAtomic
<1>. QED  BY <1>8, <1>9, <1>10, <1>11, <1>12, <1>13 DEF SyncInv

(* lock_destroy: the threads that wait for the lock are freed in one step.  *)
LEMMA LockDestroyStep ==
  ASSUME SyncInv, NEW t \in Tid, lock_destroy(t)
  PROVE  SyncInv'
<1>1. /\ system = "up" /\ running = t /\ pc[t] = "user"
      /\ UNCHANGED << thread_ReadyQueue, thread_ExitQueue, thread_ReadyQueue_index,
                      running, interrupts, masked, badStack, destroying, ret >>
      BY DEF lock_destroy, MayCall, Executing, wake_rest
<1>2. /\ ThreadsInv /\ SyncTypeOK /\ RecordsInv /\ CallsInv /\ DestroysCvs
      /\ CvWaitIsAtomic /\ TypeOK
      BY DEF SyncInv, ThreadsInv
<1>3. PICK l \in Locks :
        /\ m_eStatus' = [m_eStatus EXCEPT ![l] = "Free"]
        /\ FreeSleepers(l)
        /\ ForgetDead([m_pLockedThread EXCEPT ![l] = NULL])
      BY DEF lock_destroy
<1> DEFINE holder == [m_pLockedThread EXCEPT ![l] = NULL]
<1>4. /\ holder \in [Locks -> Tid \cup {NULL, Gone, Dangling}] /\ holder[l] = NULL
      /\ \A k \in Locks : k # l => holder[k] = m_pLockedThread[k]
      /\ m_eStatus' \in [Locks -> {"Free", "Locked"}] /\ m_eStatus'[l] = "Free"
      /\ \A k \in Locks : k # l => m_eStatus'[k] = m_eStatus[k]
      /\ l \in WaitQueues /\ l \notin Cvs
      BY <1>2, <1>3, SyncAssumption DEF SyncTypeOK
<1>5. ForgetDead(holder)
      BY <1>3
<1> HIDE DEF holder
<1>6. ThreadsInv' /\ Live' = Live \ Waiting(l)
      BY <1>1, <1>2, <1>3, <1>4, FreeStep DEF DestroysCvs
<1>7. /\ SyncTypeOK'
      /\ \A u \in Live' : outer'[u] = outer[u] /\ inside'[u] = inside[u]
      /\ \A k \in Locks :
           /\ holder[k] \notin Tid \ Live' => m_pLockedThread'[k] = holder[k]
           /\ holder[k] \in Tid \ Live' => k \in orphaned'
           /\ k \in orphaned /\ holder[k] # NULL => k \in orphaned'
           /\ k \in orphaned' => m_pLockedThread'[k] # NULL
      BY <1>2, <1>4, <1>5, Forgotten
<1>8. /\ wait_queue' = [wait_queue EXCEPT ![l] = << >>]
      /\ pc' = [u \in Tid |-> IF u \in Waiting(l) THEN "none" ELSE pc[u]]
      /\ frame' = [u \in Tid |-> IF u \in Waiting(l) THEN NoFrame ELSE frame[u]]
      BY <1>3 DEF FreeSleepers, Waiting
<1>9. /\ wait_queue'[l] = << >> /\ \A r \in WaitQueues : r # l => wait_queue'[r] = wait_queue[r]
      /\ \A u \in Live' : u \in Live /\ u \in Tid /\ pc'[u] = pc[u] /\ frame'[u] = frame[u]
      BY <1>2, <1>4, <1>6, <1>8 DEF TypeOK, Live
<1>10. RecordsInv'
  <2> SUFFICES ASSUME NEW k \in Locks
               PROVE  /\ wait_queue'[k] # << >> => m_eStatus'[k] = "Locked"
                      /\ m_eStatus'[k] = "Locked" =>
                           \/ k \in orphaned'
                           \/ m_pLockedThread'[k] \in Tid /\ k \in inside'[m_pLockedThread'[k]]
                      /\ k \in orphaned' => m_pLockedThread'[k] # NULL
      BY DEF RecordsInv
  <2>1. CASE k = l
        BY <1>4, <1>7, <1>9, <2>1
  <2>2. CASE k # l
    <3>1. wait_queue'[k] = wait_queue[k] /\ m_eStatus'[k] = m_eStatus[k]
          BY <1>4, <1>9, <2>2, SyncAssumption
    <3>. QED  BY <1>2, <1>4, <1>7, <2>2, <3>1 DEF RecordsInv
  <2>. QED  BY <2>1, <2>2
<1>11. CallsInv' /\ DestroysCvs'
      BY <1>1, <1>2, <1>7, <1>9 DEF CallsInv, DestroysCvs, Pending
<1>12. CvWaitIsAtomic'
  <2>1. \A u \in Live' : pc'[u] # "cv_sleep"
        BY <1>1, <1>2, <1>9 DEF CvWaitIsAtomic
  <2>2. \A c \in Cvs : wait_queue'[c] = wait_queue[c]
        BY <1>4, <1>9, SyncAssumption
  <2>. QED  BY <1>2, <1>7, <1>9, <2>1, <2>2 DEF CvWaitIsAtomic
<1>. QED  BY <1>6, <1>7, <1>10, <1>11, <1>12 DEF SyncInv

(* cv_destroy only begins: wait_queue_destroy goes on in the package.       *)
LEMMA CvDestroyStep ==
  ASSUME SyncInv, NEW t \in Tid, cv_destroy(t)
  PROVE  SyncInv' /\ (MutualExclusion => MutualExclusion')
<1>1. PICK c \in Cvs : BeginDestroy(t, c)
      BY DEF cv_destroy
<1>2. /\ Executing(t, "user") /\ system = "up" /\ running = t /\ c \in WaitQueues
      BY SyncAssumption DEF cv_destroy, MayCall, Executing
<1>3. /\ ThreadsInv /\ SyncTypeOK /\ RecordsInv /\ DestroysCvs /\ TypeOK
      BY DEF SyncInv, ThreadsInv
<1>4. ThreadsInv'
      BY <1>1, <1>2, <1>3, BeginDestroyStep
<1>5. /\ UNCHANGED << m_eStatus, m_pLockedThread, outer, inside, orphaned >>
      /\ UNCHANGED << m_eThreadStatus, wait_queue, frame, masked >>
      /\ pc' = [pc EXCEPT ![t] = "destroy"]
      /\ destroying' = [destroying EXCEPT ![t] = [wq |-> c, at |-> "test"]]
      BY <1>1 DEF cv_destroy, syncVars, BeginDestroy, destroy_rest
<1>6. SyncTypeOK' /\ RecordsInv' /\ (MutualExclusion => MutualExclusion')
      BY <1>3, <1>5 DEF SyncTypeOK, RecordsInv, MutualExclusion
<1>7. DestroysCvs'
      BY <1>3, <1>5 DEF DestroysCvs, TypeOK
<1>8. CallsInv' /\ CvWaitIsAtomic'
  <2>1. /\ Live' = Live /\ pc'[t] = "destroy" /\ pc'[t] \notin Contexts
        /\ \A u \in Tid \ {t} : pc'[u] = pc[u]
        BY <1>3, <1>5 DEF TypeOK, Contexts, Live
  <2>2. \A d \in Cvs : ToSet(wait_queue'[d]) = Waiting(d)
        BY <1>5 DEF Waiting
  <2>3. Pending(t)' = "destroy"
        BY <2>1 DEF Pending
  <2>. QED  BY <1>2, <1>5, <2>1, <2>2, <2>3, OwnCall
<1>. QED  BY <1>4, <1>6, <1>7, <1>8 DEF SyncInv

-----------------------------------------------------------------------------
(* The theorems                                                             *)

(* Every step keeps the invariant, and mutual exclusion with it unless a    *)
(* program frees a lock from outside.                                       *)
LEMMA SyncStep ==
  ASSUME SyncInv, [SyncNext]_allVars
  PROVE  /\ SyncInv'
         /\ MutualExclusion /\ Calls \cap {"release_any", "lock_destroy"} = {}
              => MutualExclusion'
<1>1. CASE SyncNext
  <2>1. PICK t \in Tid :
          \/ ThreadsStep(ProgramStep(t)) \/ ThreadsStep(KernelStep(t))
          \/ ThreadsStep(interrupts_set(t)) \/ ThreadsStep(interrupt_handler(t))
          \/ LockStep(t) \/ LockKernelStep(t)
        BY <1>1 DEF SyncNext
  <2>2. CASE \/ ThreadsStep(ProgramStep(t)) \/ ThreadsStep(KernelStep(t))
             \/ ThreadsStep(interrupts_set(t)) \/ ThreadsStep(interrupt_handler(t))
        BY <2>2, PackageUnderLocks DEF ThreadsStep
  <2>3. CASE lock_acquire(t) \/ acquire_again(t) \/ cv_woken(t)
        BY <2>3, AcquireSteps
  <2>4. CASE lock_release(t) \/ lock_release_any(t) \/ cv_wait(t)
    <3>1. Calls \cap {"release_any", "lock_destroy"} = {} => ~lock_release_any(t)
          BY DEF lock_release_any, MayCall
    <3>. QED  BY <2>4, <3>1, ReleaseSteps
  <2>5. CASE lock_destroy(t)
    <3>1. Calls \cap {"release_any", "lock_destroy"} = {} => ~lock_destroy(t)
          BY DEF lock_destroy, MayCall
    <3>. QED  BY <2>5, <3>1, LockDestroyStep
  <2>8. CASE cv_destroy(t)
        BY <2>8, CvDestroyStep
  <2>6. CASE cv_sleep(t)
        BY <2>6, CvSleepStep
  <2>7. CASE cv_signal(t)
        BY <2>7, CvSignalStep
  <2>. QED
        BY <2>1, <2>2, <2>3, <2>4, <2>5, <2>6, <2>7, <2>8 DEF LockStep, LockKernelStep
<1>2. CASE UNCHANGED allVars
  <2>1. UNCHANGED vars /\ UNCHANGED << m_eStatus, m_pLockedThread, outer, inside, orphaned >>
        BY <1>2 DEF allVars, syncVars
  <2>2. UNCHANGED << thread_ReadyQueue, thread_ExitQueue, thread_ReadyQueue_index,
                     m_eThreadStatus, wait_queue, running, pc, frame, interrupts,
                     masked, badStack, destroying, ret, system >>
        BY <2>1 DEF vars
  <2>3. TypeOK' = TypeOK /\ StatusMatchesPlace' = StatusMatchesPlace
        BY <2>2 DEF TypeOK, StatusMatchesPlace, Live
  <2>4. UpInv' = UpInv
        BY <2>2 DEF UpInv, QueuesInv, DestroyInv, IndexInv, RunningInv, FrameInv,
                    InterruptsRestored, Live, Freed, Ready, Waiting
  <2>5. SyncTypeOK' = SyncTypeOK /\ RecordsInv' = RecordsInv
        BY <2>1, <2>2 DEF SyncTypeOK, RecordsInv
  <2>6. /\ CallsInv' = CallsInv /\ DestroysCvs' = DestroysCvs
        /\ CvWaitIsAtomic' = CvWaitIsAtomic
        BY <2>1, <2>2 DEF CallsInv, Pending, DestroysCvs, CvWaitIsAtomic, Live
  <2>7. MutualExclusion' = MutualExclusion
        BY <2>1 DEF MutualExclusion
  <2>. QED  BY <2>2, <2>3, <2>4, <2>5, <2>6, <2>7 DEF SyncInv, ThreadsInv
<1>. QED  BY <1>1, <1>2

(* The invariant of the package and the one of the locks hold together.     *)
THEOREM SyncInvariant == SyncSpec => []SyncInv
<1>1. SyncInit => SyncInv
      BY InitSync
<1>2. SyncInv /\ [SyncNext]_allVars => SyncInv'
      BY SyncStep
<1>. QED  BY <1>1, <1>2, PTL DEF SyncSpec

(* The package stays sound under the locks: each live thread has one place, *)
(* and that of the running thread is the top of the ready queue.            *)
THEOREM SyncOnePlace == SyncSpec => []OnePlacePerThread
<1>1. SyncInv => OnePlacePerThread
      BY PlacesFollow DEF SyncInv
<1>. QED  BY <1>1, SyncInvariant, PTL

(* No lost wakeup: nobody sleeps on a free lock, and a locked lock is held  *)
(* by a thread that can release it or by one that is no more.  The program  *)
(* may misuse the locks as it likes.                                        *)
THEOREM SyncNobodyWaits == SyncSpec => []NobodyWaitsForAFreeLock
<1>1. SyncInv => NobodyWaitsForAFreeLock
      BY DEF SyncInv, RecordsInv, NobodyWaitsForAFreeLock
<1>. QED  BY <1>1, SyncInvariant, PTL

(* The release and the sleep of cv_wait are one step for other threads.     *)
THEOREM SyncCvWait == SyncSpec => []CvWaitIsAtomic
<1>1. SyncInv => CvWaitIsAtomic
      BY DEF SyncInv
<1>. QED  BY <1>1, SyncInvariant, PTL

(* Mutual exclusion, for programs that release only what they acquired and  *)
(* destroy no locked lock: lock_release itself looks at neither.            *)
THEOREM SyncMutualExclusion ==
  ASSUME Calls \cap {"release_any", "lock_destroy"} = {}
  PROVE  SyncSpec => []MutualExclusion
<1>1. SyncInit => SyncInv /\ MutualExclusion
      BY InitSync
<1>2. SyncInv /\ MutualExclusion /\ [SyncNext]_allVars => SyncInv' /\ MutualExclusion'
      BY SyncStep
<1>. QED  BY <1>1, <1>2, PTL DEF SyncSpec

=============================================================================
