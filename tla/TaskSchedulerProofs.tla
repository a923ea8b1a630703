------------------------- MODULE TaskSchedulerProofs -------------------------
(***************************************************************************)
(* Proofs about the task scheduler for any set of tasks, handlers and       *)
(* threads, and about the agent executors, which its consumers run in the   *)
(* handler of runs, for any plans, toolkits and outcomes of tools.          *)
(***************************************************************************)
EXTENDS TaskScheduler, AgentPlanning, SequenceTheorems, FiniteSetTheorems,
        WellFoundedInduction, TLAPS

-----------------------------------------------------------------------------
(* Type correctness. *)

(* Whatever a handler does with a task, the locals and the histories of     *)
(* HandleTask_ keep their types.                                            *)
LEMMA VisitType ==
    ASSUME TypeOK, NEW th \in Threads, cur[th] \in Tasks, VisitHandler(th)
    PROVE  TypeOK'
<1>. DEFINE h == handlers[pos[th] + 1]
            Locals == /\ handled' \in [Threads -> BOOLEAN]
                      /\ hasException' \in [Threads -> BOOLEAN]
                      /\ calls' \in [Handlers \X Tasks -> Nat]
                      /\ reports' \subseteq Callback \X Tasks
<1>1. h \in Handlers
  BY DEF TypeOK, VisitHandler
<1>2. Locals
  <2>. HIDE DEF h
  <2>. USE DEF TypeOK, Callback
  <2>1. CASE Rejects(th, h)        BY <1>1, <2>1 DEF Rejects
  <2>2. CASE AcceptThrows(th, h)   BY <1>1, <2>2 DEF AcceptThrows
  <2>3. CASE HandleReturns(th, h)  BY <1>1, <2>3 DEF HandleReturns
  <2>4. CASE HandleThrows(th, h)   BY <1>1, <2>4 DEF HandleThrows
  <2>. QED  BY <2>1, <2>2, <2>3, <2>4 DEF VisitHandler, h
<1>3. pos' \in [Threads -> Nat]
  BY DEF TypeOK, VisitHandler
<1>4. UNCHANGED <<running, term, thread, cur, handlers, queue, enqueued, returned, discarded, finished>>
  BY DEF VisitHandler, queueVars
<1>. QED  BY <1>2, <1>3, <1>4 DEF TypeOK

(* A thread holds a task exactly while it is inside HandleTask_. *)
HandMatchesPC ==
    \A th \in Threads : cur[th] # NoTask <=> thread[th] = "handle"

(* Every call and every consumer step keeps the types, and a thread holds a *)
(* task exactly while it is inside HandleTask_.                             *)
LEMMA TypeStep ==
    ASSUME TypeOK, HandMatchesPC, [Next]_vars
    PROVE  TypeOK' /\ HandMatchesPC'
<1>. USE SchedulerAssumption
<1>1. ASSUME NEW h \in Handlers, RegisterHandler(h)
      PROVE  TypeOK' /\ HandMatchesPC'
  BY <1>1 DEF TypeOK, HandMatchesPC, RegisterHandler, localVars, queueVars, historyVars
<1>2. ASSUME NEW i \in 1..Len(handlers), RemoveHandler(i)
      PROVE  TypeOK' /\ HandMatchesPC'
  BY <1>2 DEF TypeOK, HandMatchesPC, RemoveHandler, localVars, queueVars, historyVars
<1>3. ASSUME NEW t \in Tasks, Enqueue(t)
      PROVE  TypeOK' /\ HandMatchesPC'
  BY <1>3 DEF TypeOK, HandMatchesPC, Enqueue, localVars, historyVars
<1>4. ASSUME NEW new \in SUBSET Threads, Start(new)
      PROVE  TypeOK' /\ HandMatchesPC'
  BY <1>4 DEF TypeOK, HandMatchesPC, Start, PC, localVars, queueVars, historyVars
<1>5. ASSUME NEW call \in {"Terminate", "Stop"}, BeginTerminate(call)
      PROVE  TypeOK' /\ HandMatchesPC'
  BY <1>5 DEF TypeOK, HandMatchesPC, BeginTerminate, localVars, queueVars, historyVars
<1>6. CASE FinishTerminate
  BY <1>6 DEF TypeOK, HandMatchesPC, FinishTerminate, localVars, historyVars
<1>7. ASSUME NEW th \in Threads, Consumer(th)
      PROVE  TypeOK' /\ HandMatchesPC'
  <2>1. CASE TestRunning(th)
    BY <2>1 DEF TypeOK, HandMatchesPC, TestRunning, PC, localVars, queueVars, historyVars
  <2>2. CASE Dequeue(th)
    BY <2>2 DEF TypeOK, HandMatchesPC, Dequeue, PC, historyVars
  <2>3. CASE DequeueTimeout(th)
    BY <2>3 DEF TypeOK, HandMatchesPC, DequeueTimeout, PC, localVars, queueVars, historyVars
  <2>4. CASE VisitHandler(th)
    <3>1. cur[th] \in Tasks
      BY <2>4 DEF VisitHandler, HandMatchesPC, TypeOK
    <3>2. TypeOK'
      BY <2>4, <3>1, VisitType
    <3>3. HandMatchesPC'
      BY <2>4 DEF VisitHandler, HandMatchesPC
    <3>. QED  BY <3>2, <3>3
  <2>5. CASE FinishTask(th)
    <3>1. cur[th] \in Tasks
      BY <2>5 DEF FinishTask, HandMatchesPC, TypeOK
    <3>. QED  BY <2>5, <3>1 DEF TypeOK, HandMatchesPC, FinishTask, PC, Callback, queueVars
  <2>. QED  BY <1>7, <2>1, <2>2, <2>3, <2>4, <2>5 DEF Consumer
<1>8. CASE UNCHANGED vars
  BY <1>8 DEF TypeOK, HandMatchesPC, vars, localVars, queueVars, historyVars
<1>. QED  BY <1>1, <1>2, <1>3, <1>4, <1>5, <1>6, <1>7, <1>8 DEF Next

(* The constructor establishes both.                                        *)
LEMMA TypeInit == Init => TypeOK /\ HandMatchesPC
<1>. SUFFICES ASSUME Init PROVE TypeOK /\ HandMatchesPC
  OBVIOUS
<1>1. handlers \in Seq(Handlers)
  BY DEF Init
<1>2. calls \in [Handlers \X Tasks -> Nat]
  BY DEF Init
<1>3. TypeOK
  BY <1>1, <1>2 DEF Init, TypeOK, PC
<1>4. HandMatchesPC
  BY DEF Init, HandMatchesPC
<1>. QED  BY <1>3, <1>4

(* Every reachable state of the scheduler is well typed, and a consumer    *)
(* holds a task exactly while it is inside HandleTask_.                    *)
THEOREM TypeCorrect == Spec => [](TypeOK /\ HandMatchesPC)
  BY TypeInit, TypeStep, PTL DEF Spec

-----------------------------------------------------------------------------
(* Conservation of tasks. *)

(* No step moves a task to a second place or drops it.                      *)
LEMMA ConservationStep ==
    ASSUME TypeOK, HandMatchesPC, TaskConservation, [Next]_vars
    PROVE  TaskConservation'
<1>. USE SchedulerAssumption DEF InHand
<1>1. ASSUME UNCHANGED <<cur, queue, enqueued, finished, returned, discarded>>
      PROVE  TaskConservation'
  BY <1>1 DEF TaskConservation
<1>2. ASSUME NEW t \in Tasks, Enqueue(t)
      PROVE  TaskConservation'
  BY <1>2 DEF TaskConservation, Enqueue, localVars, historyVars
<1>3. CASE FinishTerminate
  <2>1. InHand = {}
    BY <1>3 DEF FinishTerminate, HandMatchesPC
  <2>2. UNCHANGED <<cur, enqueued, finished>> /\ queue' = {}
    BY <1>3 DEF FinishTerminate, localVars, historyVars
  <2>3. returned' \cup discarded' = returned \cup discarded \cup queue
    BY <1>3 DEF FinishTerminate, TypeOK
  <2>. QED  BY <2>1, <2>2, <2>3 DEF TaskConservation
<1>4. ASSUME NEW th \in Threads, Dequeue(th)
      PROVE  TaskConservation'
  <2>1. PICK t \in queue : queue' = queue \ {t} /\ cur' = [cur EXCEPT ![th] = t]
    BY <1>4 DEF Dequeue
  <2>2. cur[th] = NoTask /\ t # NoTask
    BY <1>4 DEF Dequeue, HandMatchesPC, TypeOK
  <2>3. InHand' = InHand \cup {t}
    BY <2>1, <2>2 DEF TypeOK
  <2>4. UNCHANGED <<enqueued, finished, returned, discarded>>
    BY <1>4 DEF Dequeue, historyVars
  <2>5. \A th1, th2 \in Threads : cur'[th1] = cur'[th2] /\ cur'[th1] # NoTask => th1 = th2
    BY <2>1 DEF TaskConservation, TypeOK
  <2>6. /\ enqueued = queue \cup InHand \cup finished \cup returned \cup discarded
        /\ queue \cap InHand = {} /\ finished \cap (queue \cup InHand) = {}
        /\ (returned \cup discarded) \cap (queue \cup InHand \cup finished) = {}
    BY DEF TaskConservation
  <2>7. /\ queue' \cup InHand' = queue \cup InHand /\ queue' \cap InHand' = {}
    BY <2>1, <2>3, <2>6
  <2>. QED  BY <2>4, <2>5, <2>6, <2>7 DEF TaskConservation
<1>5. ASSUME NEW th \in Threads, FinishTask(th)
      PROVE  TaskConservation'
  <2>1. cur[th] # NoTask
    BY <1>5 DEF FinishTask, HandMatchesPC
  <2>2. InHand' = InHand \ {cur[th]} /\ cur[th] \in InHand
    BY <1>5, <2>1 DEF FinishTask, TypeOK, TaskConservation
  <2>3. UNCHANGED <<queue, enqueued, returned, discarded>> /\ finished' = finished \cup {cur[th]}
    BY <1>5 DEF FinishTask, queueVars
  <2>4. \A th1, th2 \in Threads : cur'[th1] = cur'[th2] /\ cur'[th1] # NoTask => th1 = th2
    BY <1>5 DEF FinishTask, TaskConservation, TypeOK
  <2>. HIDE DEF InHand
  <2>. QED  BY <2>2, <2>3, <2>4 DEF TaskConservation
<1>6. [Next]_vars =>
        \/ UNCHANGED <<cur, queue, enqueued, finished, returned, discarded>>
        \/ \E t \in Tasks : Enqueue(t)
        \/ FinishTerminate
        \/ \E th \in Threads : Dequeue(th) \/ FinishTask(th)
  BY DEF Next, Consumer, RegisterHandler, RemoveHandler, Start, BeginTerminate, TestRunning,
         DequeueTimeout, VisitHandler, vars, localVars, queueVars, historyVars
<1>. QED  BY <1>1, <1>2, <1>3, <1>4, <1>5, <1>6

(* No task is lost or handed out twice, for any number of tasks, handlers,  *)
(* consumer threads, Starts and shutdowns.                                  *)
THEOREM Conservation == Spec => []TaskConservation
<1>1. Init => TaskConservation
  BY DEF Init, TaskConservation, InHand
<1>2. TypeOK /\ HandMatchesPC /\ TaskConservation /\ [Next]_vars => TaskConservation'
  BY ConservationStep
<1>. QED  BY <1>1, <1>2, TypeCorrect, PTL DEF Spec

-----------------------------------------------------------------------------
(* Shutdown. *)

(* StoppedMeansJoined is inductive once a pending shutdown is known to keep *)
(* running_ down.                                                           *)
ShutdownInv == /\ term # "none" => ~running
               /\ StoppedMeansJoined

(* A shutdown drains only after the join, and only Start revives consumers. *)
LEMMA ShutdownStep ==
    ASSUME TypeOK, HandMatchesPC, HandMatchesPC', ShutdownInv, [Next]_vars
    PROVE  ShutdownInv'
<1>. DEFINE Gone == \A th \in Threads : thread[th] \in {"unborn", "exited"}
<1>1. ShutdownInv <=> (term # "none" => ~running) /\ (~running /\ term = "none" => Gone)
  BY DEF ShutdownInv, StoppedMeansJoined, HandMatchesPC
<1>2. ShutdownInv' <=> (term # "none" => ~running)' /\ (~running /\ term = "none" => Gone)'
  BY DEF ShutdownInv, StoppedMeansJoined, HandMatchesPC
<1>3. ASSUME NEW new \in SUBSET Threads, Start(new)
      PROVE  ShutdownInv'
  BY <1>1, <1>2, <1>3 DEF Start
<1>4. ASSUME NEW call \in {"Terminate", "Stop"}, BeginTerminate(call)
      PROVE  ShutdownInv'
  BY <1>1, <1>2, <1>4 DEF BeginTerminate
<1>5. CASE FinishTerminate
  BY <1>1, <1>2, <1>5 DEF FinishTerminate
<1>6. ASSUME NEW th \in Threads, Consumer(th)
      PROVE  ShutdownInv'
  <2>1. UNCHANGED <<running, term>> /\ thread[th] \notin {"unborn", "exited"}
    BY <1>6 DEF Consumer, TestRunning, Dequeue, DequeueTimeout, VisitHandler, FinishTask
  <2>. QED  BY <1>1, <1>2, <2>1
<1>7. ASSUME UNCHANGED <<running, term, thread>>
      PROVE  ShutdownInv'
  BY <1>1, <1>2, <1>7
<1>8. [Next]_vars =>
        \/ UNCHANGED <<running, term, thread>>
        \/ \E new \in SUBSET Threads : Start(new)
        \/ \E call \in {"Terminate", "Stop"} : BeginTerminate(call)
        \/ FinishTerminate
        \/ \E th \in Threads : Consumer(th)
  BY DEF Next, RegisterHandler, RemoveHandler, Enqueue, vars
<1>. QED  BY <1>3, <1>4, <1>5, <1>6, <1>7, <1>8

(* After Terminate or Stop has returned, and until the next Start, no       *)
(* consumer thread is alive and no task is in anybody's hands.              *)
THEOREM QuietAfterShutdown == Spec => []StoppedMeansJoined
<1>1. Init => ShutdownInv
  BY DEF Init, ShutdownInv, StoppedMeansJoined
<1>2. TypeOK /\ HandMatchesPC /\ (TypeOK /\ HandMatchesPC)' /\ ShutdownInv /\ [Next]_vars
        => ShutdownInv'
  BY ShutdownStep
<1>3. ShutdownInv => StoppedMeansJoined
  BY DEF ShutdownInv
<1>. QED  BY <1>1, <1>2, <1>3, TypeCorrect, PTL DEF Spec

-----------------------------------------------------------------------------
(* A handler runs at most once for a task. *)

(* No task counts a call before it is taken, a task in hand counts none for *)
(* the handlers its thread has yet to visit, and no handler is listed twice.*)
CallsInv ==
    /\ HandledOnce
    /\ \A t \in Tasks : t \notin enqueued \/ t \in queue =>
          \A h \in Handlers : calls[<<h, t>>] = 0
    /\ \A th \in Threads : cur[th] # NoTask =>
          \A i \in 1..Len(handlers) : i > pos[th] => calls[<<handlers[i], cur[th]>>] = 0
    /\ \A i, j \in 1..Len(handlers) : handlers[i] = handlers[j] => i = j

(* HandleTask_ goes through the handler list once per task, and no thread   *)
(* gets a task another thread has handled.                                  *)
LEMMA CallsStep ==
    ASSUME TypeOK, HandMatchesPC, TaskConservation, CallsInv, [Next]_vars
    PROVE  CallsInv'
<1>. USE SchedulerAssumption
<1>1. ASSUME UNCHANGED <<cur, pos, handlers, calls>>,
             queue' \subseteq queue, enqueued \subseteq enqueued'
      PROVE  CallsInv'
  BY <1>1 DEF CallsInv, HandledOnce
<1>2. ASSUME NEW t \in Tasks, Enqueue(t)
      PROVE  CallsInv'
  BY <1>2 DEF Enqueue, CallsInv, HandledOnce, TypeOK, localVars, historyVars
<1>3. ASSUME UNCHANGED <<cur, queue, enqueued, calls>>, NoTaskInFlight,
             \A i, j \in 1..Len(handlers') : handlers'[i] = handlers'[j] => i = j
      PROVE  CallsInv'
  BY <1>3 DEF CallsInv, HandledOnce, NoTaskInFlight, HandMatchesPC
<1>4. ASSUME NEW h \in Handlers, RegisterHandler(h)
      PROVE  CallsInv'
  <2>1. \A i, j \in 1..Len(handlers') : handlers'[i] = handlers'[j] => i = j
    BY <1>4 DEF RegisterHandler, CallsInv, TypeOK
  <2>. QED  BY <1>3, <1>4, <2>1 DEF RegisterHandler, localVars, queueVars, historyVars
<1>5. ASSUME NEW i \in 1..Len(handlers), RemoveHandler(i)
      PROVE  CallsInv'
  <2>0. /\ Len(handlers') = Len(handlers) - 1
        /\ \A k \in 1..Len(handlers') : handlers'[k] = handlers[IF k < i THEN k ELSE k + 1]
    BY <1>5 DEF RemoveHandler, TypeOK
  <2>1. \A k, l \in 1..Len(handlers') : handlers'[k] = handlers'[l] => k = l
    <3>. SUFFICES ASSUME NEW k \in 1..(Len(handlers) - 1), NEW l \in 1..(Len(handlers) - 1),
                         handlers'[k] = handlers'[l]
                  PROVE  k = l
      BY <2>0
    <3>. DEFINE up(n) == IF n < i THEN n ELSE n + 1
    <3>1. up(k) \in 1..Len(handlers) /\ up(l) \in 1..Len(handlers)
      BY DEF TypeOK
    <3>2. handlers[up(k)] = handlers[up(l)]
      BY <2>0
    <3>3. up(k) = up(l)
      BY <3>1, <3>2 DEF CallsInv
    <3>. QED  BY <3>3
  <2>. QED  BY <1>3, <1>5, <2>1 DEF RemoveHandler, localVars, queueVars, historyVars
<1>6. ASSUME NEW th \in Threads, Dequeue(th)
      PROVE  CallsInv'
  <2>1. PICK t \in queue : queue' = queue \ {t} /\ cur' = [cur EXCEPT ![th] = t]
    BY <1>6 DEF Dequeue
  <2>2. UNCHANGED <<handlers, enqueued, calls>> /\ pos' = [pos EXCEPT ![th] = 0]
    BY <1>6 DEF Dequeue, historyVars
  <2>3. \A u \in Tasks : (u \notin enqueued \/ u \in queue)' =>
          \A h \in Handlers : calls'[<<h, u>>] = 0
    BY <2>1, <2>2 DEF CallsInv
  <2>4. \A r \in Threads : cur'[r] # NoTask =>
          \A i \in 1..Len(handlers) : i > pos'[r] => calls[<<handlers[i], cur'[r]>>] = 0
    <3>1. \A i \in 1..Len(handlers) : calls[<<handlers[i], t>>] = 0
      BY DEF CallsInv, TypeOK
    <3>2. \A r \in Threads \ {th} : cur'[r] = cur[r] /\ pos'[r] = pos[r]
      BY <2>1, <2>2 DEF TypeOK
    <3>. QED  BY <2>1, <3>1, <3>2 DEF CallsInv, TypeOK
  <2>. QED  BY <2>2, <2>3, <2>4 DEF CallsInv, HandledOnce
<1>7. ASSUME NEW th \in Threads, FinishTask(th)
      PROVE  CallsInv'
  BY <1>7 DEF FinishTask, CallsInv, HandledOnce, TypeOK, queueVars
<1>8. ASSUME NEW th \in Threads, VisitHandler(th)
      PROVE  CallsInv'
  <2>. DEFINE h == handlers[pos[th] + 1]
              t == cur[th]
  <2>1. /\ UNCHANGED <<cur, handlers, queue, enqueued>>
        /\ pos' = [pos EXCEPT ![th] = @ + 1]
        /\ pos[th] + 1 \in 1..Len(handlers) /\ h \in Handlers
    BY <1>8 DEF VisitHandler, queueVars, TypeOK
  <2>2. t \in Tasks /\ t \in enqueued /\ t \notin queue
    BY <1>8 DEF VisitHandler, HandMatchesPC, TypeOK, TaskConservation, InHand
  <2>3. calls' = calls \/ calls' = [calls EXCEPT ![<<h, t>>] = @ + 1]
    <3>1. Rejects(th, h) \/ AcceptThrows(th, h) \/ HandleReturns(th, h) \/ HandleThrows(th, h)
      BY <1>8 DEF VisitHandler
    <3>. HIDE DEF h
    <3>2. CASE Rejects(th, h) \/ AcceptThrows(th, h)
      BY <3>2 DEF Rejects, AcceptThrows
    <3>3. CASE HandleReturns(th, h) \/ HandleThrows(th, h)
      BY <3>3, Zenon DEF HandleReturns, HandleThrows
    <3>. QED BY <3>1, <3>2, <3>3
  <2>4. calls[<<h, t>>] = 0
    <3>1. t # NoTask
      BY <1>8, <2>2 DEF VisitHandler, HandMatchesPC
    <3>2. pos[th] + 1 > pos[th]
      BY <2>1 DEF TypeOK
    <3>. QED BY <2>1, <3>1, <3>2 DEF CallsInv
  <2>5. HandledOnce'
    <3>. SUFFICES ASSUME NEW c \in Handlers \X Tasks PROVE calls'[c] <= 1
      BY DEF HandledOnce
    <3>1. calls[c] <= 1 /\ calls[c] \in Nat
      BY DEF CallsInv, HandledOnce, TypeOK
    <3>. HIDE DEF h, t
    <3>2. CASE c = <<h, t>>
      BY <2>3, <2>4, <3>1, <3>2 DEF TypeOK
    <3>3. CASE c # <<h, t>>
      BY <2>3, <3>1, <3>3 DEF TypeOK
    <3>. QED  BY <3>2, <3>3
  <2>6. \A u \in Tasks : (u \notin enqueued \/ u \in queue)' =>
          \A g \in Handlers : calls'[<<g, u>>] = 0
    BY <2>1, <2>2, <2>3 DEF CallsInv, TypeOK
  <2>7. ASSUME NEW r \in Threads, cur'[r] # NoTask, NEW i \in 1..Len(handlers'), i > pos'[r]
        PROVE  calls'[<<handlers'[i], cur'[r]>>] = 0
    <3>1. i > pos[r] /\ handlers[i] \in Handlers /\ cur[r] \in Tasks
      BY <2>1, <2>7 DEF TypeOK
    <3>2. calls[<<handlers[i], cur[r]>>] = 0
      BY <2>1, <2>7, <3>1 DEF CallsInv
    <3>3. <<handlers[i], cur[r]>> # <<h, t>>
      <4>1. CASE r = th
        BY <2>1, <2>7, <4>1 DEF CallsInv, TypeOK
      <4>2. CASE r # th
        BY <2>1, <2>7, <4>2 DEF TaskConservation
      <4>. QED  BY <4>1, <4>2
    <3>. QED  BY <2>1, <2>3, <3>1, <3>2, <3>3 DEF TypeOK
  <2>. QED  BY <2>1, <2>5, <2>6, <2>7 DEF CallsInv
<1>9. [Next]_vars =>
        \/ /\ UNCHANGED <<cur, pos, handlers, calls>>
           /\ queue' \subseteq queue /\ enqueued \subseteq enqueued'
        \/ \E t \in Tasks : Enqueue(t)
        \/ \E h \in Handlers : RegisterHandler(h)
        \/ \E i \in 1..Len(handlers) : RemoveHandler(i)
        \/ \E th \in Threads : Dequeue(th) \/ FinishTask(th) \/ VisitHandler(th)
  BY DEF Next, Consumer, Start, BeginTerminate, FinishTerminate, TestRunning,
         DequeueTimeout, vars, localVars, queueVars, historyVars
<1>. QED  BY <1>1, <1>2, <1>4, <1>5, <1>6, <1>7, <1>8, <1>9

(* Handle of one handler runs at most once for one task.                    *)
THEOREM AtMostOnce == Spec => []HandledOnce
<1>1. Init => CallsInv
  BY DEF Init, CallsInv, HandledOnce
<1>2. TypeOK /\ HandMatchesPC /\ TaskConservation /\ CallsInv /\ [Next]_vars => CallsInv'
  BY CallsStep
<1>3. CallsInv => HandledOnce
  BY DEF CallsInv
<1>. QED  BY <1>1, <1>2, <1>3, TypeCorrect, Conservation, PTL DEF Spec

-----------------------------------------------------------------------------
(* What the callbacks report. *)

Reported(c, t) == <<c, t>> \in reports

(* Nothing is reported about a task that no consumer took; about a task in  *)
(* hand, exactly what the two locals of HandleTask_ remember.               *)
ReportsInv ==
    /\ FinishedIsReported
    /\ \A t \in Tasks : t \notin enqueued \/ t \in queue =>
          \A c \in Callback : ~Reported(c, t)
    /\ \A th \in Threads : cur[th] # NoTask =>
          /\ ~Reported("OnUnhandledTask", cur[th])
          /\ Reported("OnHandledTask", cur[th]) \/ Reported("OnFailedTask", cur[th])
                <=> handled[th] \/ hasException[th]

(* The callbacks delivered so far agree with handled and has_exception of   *)
(* the thread that works on the task.                                       *)
LEMMA ReportsStep ==
    ASSUME TypeOK, HandMatchesPC, TaskConservation, ReportsInv, [Next]_vars
    PROVE  ReportsInv'
<1>. USE SchedulerAssumption DEF Reported
<1>1. ASSUME UNCHANGED <<cur, handled, hasException, finished, reports>>,
             queue' \subseteq queue, enqueued \subseteq enqueued'
      PROVE  ReportsInv'
  BY <1>1 DEF ReportsInv, FinishedIsReported
<1>2. ASSUME NEW t \in Tasks, Enqueue(t)
      PROVE  ReportsInv'
  BY <1>2 DEF Enqueue, ReportsInv, FinishedIsReported, localVars, historyVars
<1>3. ASSUME NEW th \in Threads, Dequeue(th)
      PROVE  ReportsInv'
  <2>1. PICK t \in queue : queue' = queue \ {t} /\ cur' = [cur EXCEPT ![th] = t]
    BY <1>3 DEF Dequeue
  <2>2. /\ UNCHANGED <<enqueued, finished, reports>>
        /\ handled' = [handled EXCEPT ![th] = FALSE]
        /\ hasException' = [hasException EXCEPT ![th] = FALSE]
    BY <1>3 DEF Dequeue, historyVars
  <2>3. \A c \in Callback : ~Reported(c, t)
    BY DEF ReportsInv, TypeOK
  <2>4. \A r \in Threads \ {th} : /\ cur'[r] = cur[r]
                                  /\ handled'[r] = handled[r] /\ hasException'[r] = hasException[r]
    BY <2>1, <2>2 DEF TypeOK
  <2>5. cur'[th] = t /\ ~handled'[th] /\ ~hasException'[th]
    BY <2>1, <2>2 DEF TypeOK
  <2>. QED  BY <2>1, <2>2, <2>3, <2>4, <2>5 DEF ReportsInv, FinishedIsReported, Callback
<1>4. ASSUME NEW th \in Threads, FinishTask(th)
      PROVE  ReportsInv'
  <2>0. PICK t, silent : t = cur[th] /\ silent = (~handled[th] /\ ~hasException[th])
    OBVIOUS
  <2>1. /\ UNCHANGED <<queue, enqueued, handled, hasException>>
        /\ cur' = [cur EXCEPT ![th] = NoTask]
        /\ finished' = finished \cup {t}
        /\ reports' = IF silent THEN reports \cup {<<"OnUnhandledTask", t>>} ELSE reports
    BY <1>4, <2>0 DEF FinishTask, queueVars
  <2>2. t \in Tasks /\ t # NoTask /\ t \in enqueued /\ t \notin queue /\ t \notin finished
    BY <1>4, <2>0 DEF FinishTask, HandMatchesPC, TypeOK, TaskConservation, InHand
  <2>3. \A u \in Tasks : u # t => \A c \in Callback : Reported(c, u)' <=> Reported(c, u)
    BY <2>1
  <2>4. /\ Reported("OnUnhandledTask", t)' <=> silent
        /\ Reported("OnHandledTask", t)' <=> Reported("OnHandledTask", t)
        /\ Reported("OnFailedTask", t)' <=> Reported("OnFailedTask", t)
        /\ Reported("OnHandledTask", t) \/ Reported("OnFailedTask", t) <=> ~silent
    BY <2>0, <2>1, <2>2 DEF ReportsInv
  <2>5. \A r \in Threads : cur'[r] # NoTask => r # th /\ cur'[r] = cur[r] /\ cur[r] # t
    BY <2>0, <2>1, <2>2 DEF TypeOK, TaskConservation
  <2>6. \A r \in Threads : cur'[r] # NoTask => cur[r] \in Tasks
    BY <2>5 DEF TypeOK
  <2>. HIDE DEF Reported
  <2>7. FinishedIsReported'
    <3>1. \A u \in finished : u \in Tasks /\ u # t
      BY <2>0, <2>2 DEF TypeOK
    <3>. QED  BY <2>1, <2>3, <2>4, <3>1 DEF ReportsInv, FinishedIsReported, Reported, Callback
  <2>8. \A u \in Tasks : (u \notin enqueued \/ u \in queue)' => \A c \in Callback : ~Reported(c, u)'
    BY <2>1, <2>2, <2>3 DEF ReportsInv
  <2>9. \A r \in Threads : (cur[r] # NoTask)' =>
          /\ ~Reported("OnUnhandledTask", cur[r])'
          /\ (Reported("OnHandledTask", cur[r]) \/ Reported("OnFailedTask", cur[r]))'
                <=> (handled[r] \/ hasException[r])'
    BY <2>1, <2>3, <2>5, <2>6 DEF ReportsInv, Callback, Reported
  <2>. QED  BY <2>7, <2>8, <2>9 DEF ReportsInv
<1>5. ASSUME NEW th \in Threads, VisitHandler(th)
      PROVE  ReportsInv'
  <2>0. PICK t : t = cur[th]
    OBVIOUS
  <2>1. UNCHANGED <<cur, queue, enqueued, finished>>
    BY <1>5, <2>0 DEF VisitHandler, queueVars
  <2>2. t \in Tasks /\ t # NoTask /\ t \in enqueued /\ t \notin queue /\ t \notin finished
    BY <1>5, <2>0 DEF VisitHandler, HandMatchesPC, TypeOK, TaskConservation, InHand
  <2>3. \/ UNCHANGED <<handled, hasException, reports>>
        \/ /\ \E c \in {"OnHandledTask", "OnFailedTask"} : reports' = reports \cup {<<c, t>>}
           /\ \/ handled' = [handled EXCEPT ![th] = TRUE]
              \/ hasException' = [hasException EXCEPT ![th] = TRUE]
           /\ \A r \in Threads \ {th} : handled'[r] = handled[r] /\ hasException'[r] = hasException[r]
    BY <1>5, <2>0 DEF VisitHandler, Rejects, AcceptThrows, HandleReturns, HandleThrows, TypeOK
  <2>4. CASE UNCHANGED <<handled, hasException, reports>>
    BY <2>1, <2>4 DEF ReportsInv, FinishedIsReported
  <2>5. CASE ~UNCHANGED <<handled, hasException, reports>>
    <3>1. PICK c \in {"OnHandledTask", "OnFailedTask"} : reports' = reports \cup {<<c, t>>}
      BY <2>3, <2>5
    <3>2. \A u \in Tasks : u # t => \A d \in Callback : Reported(d, u)' <=> Reported(d, u)
      BY <3>1
    <3>3. /\ handled'[th] \/ hasException'[th]
          /\ \A r \in Threads \ {th} : handled'[r] = handled[r] /\ hasException'[r] = hasException[r]
      BY <2>3, <2>5 DEF TypeOK
    <3>4. /\ Reported(c, t)'
          /\ Reported("OnUnhandledTask", t)' <=> Reported("OnUnhandledTask", t)
      BY <3>1
    <3>5. \A r \in Threads \ {th} : cur[r] # NoTask => cur[r] \in Tasks /\ cur[r] # t
      BY <2>0, <2>2 DEF TypeOK, TaskConservation
    <3>. HIDE DEF Reported
    <3>6. FinishedIsReported'
      <4>1. \A u \in finished : u \in Tasks /\ u # t
        BY <2>0, <2>2 DEF TypeOK
      <4>. QED  BY <2>1, <3>2, <4>1 DEF ReportsInv, FinishedIsReported, Reported, Callback
    <3>7. \A u \in Tasks : (u \notin enqueued \/ u \in queue)' => \A d \in Callback : ~Reported(d, u)'
      BY <2>1, <2>2, <3>2 DEF ReportsInv
    <3>8. \A r \in Threads : (cur[r] # NoTask)' =>
            /\ ~Reported("OnUnhandledTask", cur[r])'
            /\ (Reported("OnHandledTask", cur[r]) \/ Reported("OnFailedTask", cur[r]))'
                  <=> (handled[r] \/ hasException[r])'
      <4>1. ASSUME NEW r \in Threads \ {th}, cur[r] # NoTask
            PROVE  /\ ~Reported("OnUnhandledTask", cur[r])'
                   /\ (Reported("OnHandledTask", cur[r]) \/ Reported("OnFailedTask", cur[r]))'
                        <=> (handled[r] \/ hasException[r])'
        BY <2>1, <3>2, <3>3, <3>5, <4>1 DEF ReportsInv, Callback, Reported
      <4>2. /\ ~Reported("OnUnhandledTask", t)'
            /\ (Reported("OnHandledTask", t) \/ Reported("OnFailedTask", t))'
        BY <2>0, <2>2, <3>1, <3>4 DEF ReportsInv
      <4>. QED  BY <2>0, <2>1, <3>3, <4>1, <4>2 DEF Reported
    <3>. QED  BY <3>6, <3>7, <3>8 DEF ReportsInv
  <2>. QED  BY <2>4, <2>5
<1>6. [Next]_vars =>
        \/ /\ UNCHANGED <<cur, handled, hasException, finished, reports>>
           /\ queue' \subseteq queue /\ enqueued \subseteq enqueued'
        \/ \E t \in Tasks : Enqueue(t)
        \/ \E th \in Threads : Dequeue(th) \/ FinishTask(th) \/ VisitHandler(th)
  BY DEF Next, Consumer, Start, BeginTerminate, FinishTerminate, TestRunning, RegisterHandler,
         RemoveHandler, DequeueTimeout, vars, localVars, queueVars, historyVars
<1>. QED  BY <1>1, <1>2, <1>3, <1>4, <1>5, <1>6

(* Every finished task was reported, and as unhandled exactly when no       *)
(* handler took it and none threw.                                          *)
THEOREM ReportsAreExact == Spec => []FinishedIsReported
<1>1. Init => ReportsInv
  BY DEF Init, ReportsInv, FinishedIsReported, Reported
<1>2. TypeOK /\ HandMatchesPC /\ TaskConservation /\ ReportsInv /\ [Next]_vars => ReportsInv'
  BY ReportsStep
<1>3. ReportsInv => FinishedIsReported
  BY DEF ReportsInv
<1>. QED  BY <1>1, <1>2, <1>3, TypeCorrect, Conservation, PTL DEF Spec

-----------------------------------------------------------------------------
(* The thread pool implements the contract. *)

(* The refinement mapping in terms of the place a task is in.               *)
LEMMA StatusFacts ==
    ASSUME TaskConservation, NEW t \in Tasks
    PROVE  /\ t \in queue => StatusOf(t) = "pending"
           /\ t \in InHand => StatusOf(t) = "taken"
           /\ t \in finished => StatusOf(t) = "finished"
           /\ t \notin enqueued => StatusOf(t) = "new"
           /\ StatusOf(t) = "pending" => t \in queue
  BY DEF TaskConservation, StatusOf

(* The refinement mapping of Contract, under a name. *)
StatusMap == [t \in Tasks |-> StatusOf(t)]

(* Every step of the pool is one step of the contract or leaves it alone.   *)
LEMMA ContractStep ==
    ASSUME TypeOK, HandMatchesPC, TaskConservation, TaskConservation', [Next]_vars
    PROVE  [Contract!Next]_StatusMap
<1>. USE SchedulerAssumption
<1>1. ASSUME UNCHANGED <<cur, queue, finished, returned, discarded>>
      PROVE  UNCHANGED StatusMap
  BY <1>1 DEF StatusMap, StatusOf, InHand
<1>2. ASSUME NEW t \in Tasks, Enqueue(t)
      PROVE  Contract!Accept(t)
  <2>1. /\ UNCHANGED <<cur, finished, returned, discarded>>
        /\ t \notin enqueued /\ queue' = queue \cup {t}
    BY <1>2 DEF Enqueue, localVars, historyVars
  <2>2. InHand' = InHand
    BY <2>1 DEF InHand
  <2>3. StatusOf(t) = "new"
    BY <2>1, StatusFacts
  <2>4. \A u \in Tasks : StatusOf(u)' = IF u = t THEN "pending" ELSE StatusOf(u)
    <3>1. StatusOf(t)' = "pending"
      BY <2>1, <2>2 DEF StatusOf, TaskConservation
    <3>2. ASSUME NEW u \in Tasks, u # t
          PROVE  StatusOf(u)' = StatusOf(u)
      BY <2>1, <2>2, <3>2 DEF StatusOf
    <3>. QED  BY <3>1, <3>2
  <2>. QED  BY <2>3, <2>4 DEF Contract!Accept
<1>3. ASSUME NEW th \in Threads, Dequeue(th)
      PROVE  \E t \in Tasks : Contract!Take(t)
  <2>1. PICK t \in queue : queue' = queue \ {t} /\ cur' = [cur EXCEPT ![th] = t]
    BY <1>3 DEF Dequeue
  <2>2. UNCHANGED <<finished, returned, discarded>>
    BY <1>3 DEF Dequeue, historyVars
  <2>3. cur[th] = NoTask /\ t \in Tasks /\ t # NoTask
    BY <1>3 DEF Dequeue, HandMatchesPC, TypeOK
  <2>4. InHand' = InHand \cup {t}
    BY <2>1, <2>3 DEF TypeOK, InHand
  <2>5. StatusOf(t) = "pending"
    BY <2>3, StatusFacts
  <2>6. \A u \in Tasks : StatusOf(u)' = IF u = t THEN "taken" ELSE StatusOf(u)
    <3>1. StatusOf(t)' = "taken"
      BY <2>1, <2>2, <2>4 DEF StatusOf, TaskConservation
    <3>2. ASSUME NEW u \in Tasks, u # t
          PROVE  StatusOf(u)' = StatusOf(u)
      BY <2>1, <2>2, <2>4, <3>2 DEF StatusOf
    <3>. QED  BY <3>1, <3>2
  <2>7. Contract!Take(t)
    BY <2>3, <2>5, <2>6 DEF Contract!Take
  <2>. QED  BY <2>3, <2>7
<1>4. ASSUME NEW th \in Threads, FinishTask(th)
      PROVE  \E t \in Tasks : Contract!Finish(t)
  <2>1. PICK t : t = cur[th]
    OBVIOUS
  <2>2. t \in Tasks /\ t # NoTask
    BY <1>4, <2>1 DEF FinishTask, HandMatchesPC, TypeOK
  <2>3. /\ UNCHANGED <<queue, returned, discarded>>
        /\ finished' = finished \cup {t}
    BY <1>4, <2>1 DEF FinishTask, queueVars
  <2>4. InHand' = InHand \ {t} /\ t \in InHand
    BY <1>4, <2>1, <2>2 DEF FinishTask, TypeOK, TaskConservation, InHand
  <2>5. StatusOf(t) = "taken" /\ t \notin queue
    BY <2>2, <2>4, StatusFacts DEF TaskConservation
  <2>6. \A u \in Tasks : StatusOf(u)' = IF u = t THEN "finished" ELSE StatusOf(u)
    BY <2>3, <2>4, <2>5 DEF StatusOf
  <2>7. Contract!Finish(t)
    BY <2>2, <2>5, <2>6 DEF Contract!Finish
  <2>. QED  BY <2>2, <2>7
<1>5. CASE FinishTerminate
  <2>1. PICK how \in {"returned", "discarded"} :
            /\ how = "returned" => returned' = returned \cup queue /\ discarded' = discarded
            /\ how = "discarded" => discarded' = discarded \cup queue /\ returned' = returned
    BY <1>5 DEF FinishTerminate, TypeOK
  <2>2. UNCHANGED <<cur, finished>> /\ queue' = {}
    BY <1>5 DEF FinishTerminate, localVars, historyVars
  <2>3. InHand' = InHand
    BY <2>2 DEF InHand
  <2>4. \A u \in Tasks : StatusOf(u)' = IF u \in queue THEN how ELSE StatusOf(u)
    BY <2>1, <2>2, <2>3 DEF StatusOf, TaskConservation
  <2>5. \A u \in Tasks : StatusOf(u) = "pending" <=> u \in queue
    BY StatusFacts
  <2>6. Contract!Shutdown(how)
    BY <2>4, <2>5 DEF Contract!Shutdown
  <2>. QED  BY <2>6 DEF Contract!Next
<1>6. [Next]_vars =>
        \/ UNCHANGED <<cur, queue, finished, returned, discarded>>
        \/ \E t \in Tasks : Enqueue(t)
        \/ FinishTerminate
        \/ \E th \in Threads : Dequeue(th) \/ FinishTask(th)
  BY DEF Next, Consumer, RegisterHandler, RemoveHandler, Start, BeginTerminate, TestRunning,
         DequeueTimeout, VisitHandler, vars, localVars, queueVars, historyVars
<1>. QED  BY <1>1, <1>2, <1>3, <1>4, <1>5, <1>6 DEF Contract!Next

(* Every behaviour of the thread pool is a behaviour of TaskDelivery: the   *)
(* abstract contract the other components rely on.                          *)
THEOREM Refinement == Spec => ImplementsTaskDelivery
<1>1. Init => Contract!Init
  BY DEF Init, Contract!Init, StatusOf, InHand
<1>2. TypeOK /\ HandMatchesPC /\ TaskConservation /\ TaskConservation' /\ [Next]_vars
        => [Contract!Next]_StatusMap
  BY ContractStep
<1>. QED  BY <1>1, <1>2, TypeCorrect, Conservation, PTL
          DEF Spec, ImplementsTaskDelivery, Contract!Spec, StatusMap

-----------------------------------------------------------------------------
(* The agent executors.                                                     *)

(* A nonempty set of numbers has a least one.                               *)
LEMMA LeastNumber ==
    ASSUME NEW S \in SUBSET Nat, S # {}
    PROVE  \E n \in S : \A m \in S : n <= m
<1> DEFINE R == OpToRel(<, Nat)
<1>1. IsWellFoundedOn(R, Nat)
  BY NatLessThanWellFounded
<1>2. \A x, y \in Nat : y < x => <<y, x>> \in R
  BY DEF OpToRel
<1> HIDE DEF R
<1>3. PICK x \in S : \A y \in S : ~ (<<y, x>> \in R)
  BY <1>1, WFMin
<1>4. ASSUME NEW y \in S PROVE x <= y
  <2>1. x \in Nat /\ y \in Nat
    OBVIOUS
  <2>2. ~ (y < x)
    BY <2>1, <1>2, <1>3
  <2> QED BY <2>1, <2>2
<1> QED BY <1>3, <1>4

(* A set with 0 that is closed under successors has all numbers: the form   *)
(* of induction in which a property is a set.                               *)
LEMMA SetInduction ==
    ASSUME NEW S, 0 \in S, \A n \in Nat : n \in S => n + 1 \in S
    PROVE  Nat \subseteq S
<1> DEFINE T == Nat \ S
<1> SUFFICES ASSUME T # {} PROVE FALSE
  OBVIOUS
<1>1. PICK x \in T : \A y \in T : x <= y
  BY LeastNumber
<1>2. x \in Nat /\ x # 0 /\ x - 1 \in Nat /\ x - 1 \notin T
  BY <1>1
<1>3. x - 1 + 1 = x
  BY <1>2
<1> QED BY <1>1, <1>2, <1>3

(* The places before p.                                                     *)
Below(places, p) == {q \in places : q < p}

(* A finite set of places has one with k before it, for every k smaller     *)
(* than its size, by induction on k.                                        *)
LEMMA PlaceExists ==
    ASSUME NEW places \in SUBSET Nat, IsFiniteSet(places), NEW n \in Nat, n < Cardinality(places)
    PROVE  \E p \in places : Cardinality(Below(places, p)) = n
<1> DEFINE S == {k \in Nat : k < Cardinality(places) =>
                               \E p \in places : Cardinality(Below(places, p)) = k}
<1>1. Cardinality(places) \in Nat
  BY FS_CardinalityType
<1>2. 0 \in S
  <2> SUFFICES ASSUME 0 < Cardinality(places)
               PROVE  \E p \in places : Cardinality(Below(places, p)) = 0
    OBVIOUS
  <2>1. places # {}
    BY FS_EmptySet, <1>1
  <2>2. PICK p \in places : \A q \in places : p <= q
    BY <2>1, LeastNumber
  <2>3. Below(places, p) = {}
    <3>1. \A q \in places : q \in Nat /\ p \in Nat /\ ~ (q < p)
      BY <2>2
    <3> QED BY <3>1 DEF Below
  <2> QED BY <2>3, FS_EmptySet
<1>3. ASSUME NEW k \in Nat, k \in S PROVE k + 1 \in S
  <2> SUFFICES ASSUME k + 1 < Cardinality(places)
               PROVE  \E p \in places : Cardinality(Below(places, p)) = k + 1
    OBVIOUS
  <2>1. PICK p \in places : Cardinality(Below(places, p)) = k
    BY <1>1, <1>3
  <2> DEFINE B == Below(places, p)
             A == {q \in places : p < q}
  <2>2. IsFiniteSet(B) /\ p \notin B
    BY FS_Subset DEF Below
  <2>3. IsFiniteSet(B \cup {p}) /\ Cardinality(B \cup {p}) = k + 1
    BY <2>1, <2>2, FS_AddElement
  <2>4. A # {}
    <3>1. \A q \in places : q < p \/ q = p \/ p < q
      OBVIOUS
    <3>2. ASSUME A = {} PROVE places = B \cup {p}
      BY <3>1, <3>2 DEF Below
    <3>3. B \cup {p} # places
      BY <1>1, <2>3
    <3> QED BY <3>2, <3>3
  <2>5. PICK q \in A : \A x \in A : q <= x
    BY <2>4, LeastNumber
  <2>6. Below(places, q) = B \cup {p}
    <3>1. ASSUME NEW x \in places PROVE x < q <=> x < p \/ x = p
      <4>1. x \in Nat /\ p \in Nat /\ q \in Nat /\ p < q /\ (p < x => q <= x)
        BY <2>5
      <4> QED BY <4>1
    <3> QED BY <3>1 DEF Below
  <2> QED BY <2>3, <2>5, <2>6
<1> HIDE DEF S
<1>4. n \in S
  BY <1>2, <1>3, SetInduction
<1> QED BY <1>4 DEF S

(* Of two places the later has more before it.                              *)
LEMMA PlacesDiffer ==
    ASSUME NEW places \in SUBSET Nat, IsFiniteSet(places), NEW p \in places, NEW q \in places, p < q
    PROVE  Cardinality(Below(places, p)) < Cardinality(Below(places, q))
<1>1. IsFiniteSet(Below(places, p)) /\ IsFiniteSet(Below(places, q)) /\ p \notin Below(places, p)
  BY FS_Subset DEF Below
<1>2. Below(places, p) \cup {p} \in SUBSET Below(places, q)
  <2>1. ASSUME NEW x \in places, x < p PROVE x < q
    <3>1. x \in Nat /\ p \in Nat /\ q \in Nat
      OBVIOUS
    <3> QED BY <2>1, <3>1
  <2> QED BY <2>1 DEF Below
<1>3. Cardinality(Below(places, p) \cup {p}) = Cardinality(Below(places, p)) + 1
  BY <1>1, FS_AddElement
<1>4. Cardinality(Below(places, p) \cup {p}) <= Cardinality(Below(places, q))
  BY <1>1, <1>2, FS_Subset
<1>5. Cardinality(Below(places, p)) \in Nat /\ Cardinality(Below(places, q)) \in Nat
  BY <1>1, FS_CardinalityType
<1> QED BY <1>3, <1>4, <1>5

(* What is selected is what the places hold.                                *)
LEMMA SelectedIs ==
    ASSUME NEW s, NEW n \in Nat, NEW places \in SUBSET (1..n)
    PROVE  /\ \A i \in DOMAIN Selected(s, places) : \E p \in places : Selected(s, places)[i] = s[p]
           /\ \A p \in places : \E i \in DOMAIN Selected(s, places) : Selected(s, places)[i] = s[p]
           /\ Selected(s, places) = <<>> <=> places = {}
<1>1. IsFiniteSet(places) /\ places \in SUBSET Nat /\ Cardinality(places) \in Nat
  <2>1. IsFiniteSet(1..n)
    BY FS_Interval
  <2>2. IsFiniteSet(places)
    BY <2>1, FS_Subset
  <2> QED BY <2>2, FS_CardinalityType
<1> DEFINE c == Cardinality(places)
           Place(i) == CHOOSE p \in places : Cardinality(Below(places, p)) = i - 1
           f == Selected(s, places)
<1>2. f = [i \in 1..c |-> s[Place(i)]]
  BY DEF Selected, Below
<1>3. DOMAIN f = 1..c /\ \A i \in 1..c : f[i] = s[Place(i)]
  BY <1>2
<1>4. ASSUME NEW i \in 1..c
      PROVE  Place(i) \in places /\ Cardinality(Below(places, Place(i))) = i - 1
  <2>1. i - 1 \in Nat /\ i - 1 < c
    BY <1>1
  <2>2. \E p \in places : Cardinality(Below(places, p)) = i - 1
    BY <1>1, <2>1, PlaceExists
  <2> QED BY <2>2
<1> HIDE DEF Place
<1>5. ASSUME NEW p \in places PROVE \E i \in 1..c : Place(i) = p
  <2> DEFINE k == Cardinality(Below(places, p))
  <2>1. IsFiniteSet(Below(places, p)) /\ p \notin Below(places, p) /\ Below(places, p) \in SUBSET places
    BY <1>1, FS_Subset DEF Below
  <2>2. k \in Nat /\ k < c
    <3>1. k \in Nat /\ k <= c /\ (c = k => places = Below(places, p))
      BY <1>1, <2>1, FS_Subset, FS_CardinalityType
    <3> QED BY <1>1, <2>1, <3>1
  <2> HIDE DEF k
  <2>3. k + 1 \in 1..c /\ (k + 1) - 1 = k
    BY <1>1, <2>2
  <2>4. Place(k + 1) \in places /\ Cardinality(Below(places, Place(k + 1))) = k
    BY <1>4, <2>3
  <2>5. ~ (p < Place(k + 1)) /\ ~ (Place(k + 1) < p)
    <3>1. ASSUME p < Place(k + 1) PROVE FALSE
      <4>1. Cardinality(Below(places, p)) < Cardinality(Below(places, Place(k + 1)))
        BY <1>1, <2>4, <3>1, PlacesDiffer
      <4> QED BY <2>2, <2>4, <4>1 DEF k
    <3>2. ASSUME Place(k + 1) < p PROVE FALSE
      <4>1. Cardinality(Below(places, Place(k + 1))) < Cardinality(Below(places, p))
        BY <1>1, <2>4, <3>2, PlacesDiffer
      <4> QED BY <2>2, <2>4, <4>1 DEF k
    <3> QED BY <3>1, <3>2
  <2>6. p \in Nat /\ Place(k + 1) \in Nat
    BY <1>1, <2>4
  <2>7. Place(k + 1) = p
    BY <2>5, <2>6
  <2> QED BY <2>3, <2>7
<1>6. f = <<>> <=> places = {}
  <2>1. ASSUME f = <<>> PROVE places = {}
    <3>1. 1..c = {}
      BY <1>3, <2>1
    <3>2. c = 0
      BY <1>1, <3>1
    <3> QED BY <1>1, <3>2, FS_EmptySet
  <2>2. ASSUME places = {} PROVE f = <<>>
    <3>1. c = 0
      BY <2>2, FS_EmptySet
    <3>2. 1..c = {}
      BY <3>1
    <3> QED BY <1>2, <3>2
  <2> QED BY <2>1, <2>2
<1>7. \A i \in DOMAIN f : \E p \in places : f[i] = s[p]
  BY <1>3, <1>4
<1>8. \A p \in places : \E i \in DOMAIN f : f[i] = s[p]
  BY <1>3, <1>5
<1> QED BY <1>6, <1>7, <1>8

(* A task graph: tasks that depend on what their arguments refer to.        *)
GraphOK(g) ==
    /\ \E n \in Nat : DOMAIN g = 1..n
    /\ \A i \in DOMAIN g : DOMAIN g[i] = {"index", "name", "refs", "deps", "id", "result"}
    /\ \A i \in DOMAIN g :
         ~ IsJoin(g[i]) => g[i].deps = {Digit(g[i].refs[k]) : k \in DOMAIN g[i].refs}

(* Some task depends on nothing.                                            *)
Rooted(g) == \E i \in DOMAIN g : ~ IsJoin(g[i]) /\ g[i].deps = {}

(* A set of places has a last one.                                          *)
LEMMA GreatestNumber ==
    ASSUME NEW n \in Nat, NEW S \in SUBSET (1..n), S # {}
    PROVE  (CHOOSE x \in S : \A y \in S : x >= y) \in S
<1> DEFINE T == {n - x : x \in S}
<1>1. T \in SUBSET Nat /\ T # {}
  <2>1. \A x \in S : x \in 1..n /\ n - x \in Nat
    OBVIOUS
  <2>2. PICK x \in S : TRUE
    OBVIOUS
  <2>3. n - x \in T
    OBVIOUS
  <2> QED BY <2>1, <2>3
<1>2. PICK m \in T : \A t \in T : m <= t
  BY <1>1, LeastNumber
<1>3. PICK z \in S : m = n - z
  BY <1>2
<1>4. \A y \in S : z >= y
  <2> SUFFICES ASSUME NEW y \in S PROVE z >= y
    OBVIOUS
  <2>1. n - y \in T
    OBVIOUS
  <2>2. n - z <= n - y
    BY <1>2, <1>3, <2>1
  <2> QED BY <2>2
<1> QED BY <1>3, <1>4

(* Numbers that one task has are found again.                               *)
LEMMA TaskAtIs ==
    ASSUME NEW g, GraphOK(g), NEW j \in DOMAIN g, OwnNumber(g, g[j].index)
    PROVE  TaskAt(g, g[j].index) = g[j]
<1> DEFINE places == {i \in DOMAIN g : g[i].index = g[j].index}
<1>1. places = {j}
  BY DEF OwnNumber
<1>2. j \in Nat
  BY DEF GraphOK
<1>3. (CHOOSE i \in {j} : \A x \in {j} : i >= x) = j
  BY <1>2
<1> QED BY <1>1, <1>3 DEF TaskAt

(* The tasks that are ready, those with a result, and the first batch.      *)
LEMMA TasksAre ==
    ASSUME NEW g, GraphOK(g)
    PROVE  /\ \A i \in DOMAIN FindNextTasks(g) : \E p \in DOMAIN g :
                 /\ FindNextTasks(g)[i] = g[p] /\ ~ IsJoin(g[p]) /\ g[p].deps \subseteq Finished(g)
           /\ FindNextTasks(g) = <<>> => \A p \in DOMAIN g :
                 \/ IsJoin(g[p]) \/ g[p].result # NoResult \/ ~ (g[p].deps \subseteq Finished(g))
                 \/ ~ OwnNumber(g, g[p].index)
           /\ \A p \in DOMAIN g : ~ IsJoin(g[p]) /\ g[p].result # NoResult =>
                 /\ g[p] \in ToSet(BuildAgentScratchPad(g))
                 /\ BuildAgentScratchPad(g) # <<>>
           /\ FirstBatch(g) # <<>> => Rooted(g)
<1>1. PICK n \in Nat : DOMAIN g = 1..n
  BY DEF GraphOK
<1> DEFINE Ready == {i \in DOMAIN g : /\ ~ IsJoin(g[i]) /\ g[i].index \notin Finished(g)
                                     /\ g[i].deps \subseteq Finished(g)}
           Done == {i \in DOMAIN g : ~ IsJoin(g[i]) /\ g[i].result # NoResult}
           Roots == {i \in DOMAIN g : ~ IsJoin(g[i]) /\ g[i].deps = {}}
<1>2. Ready \in SUBSET (1..n) /\ Done \in SUBSET (1..n) /\ Roots \in SUBSET (1..n)
  BY <1>1
<1>3. ASSUME NEW i \in DOMAIN FindNextTasks(g)
      PROVE  \E p \in DOMAIN g : /\ FindNextTasks(g)[i] = g[p] /\ ~ IsJoin(g[p])
                                 /\ g[p].deps \subseteq Finished(g)
  <2>1. FindNextTasks(g) = Selected(g, Ready)
    BY DEF FindNextTasks
  <2>2. \E p \in Ready : Selected(g, Ready)[i] = g[p]
    BY <1>2, <1>3, <2>1, SelectedIs
  <2> QED BY <2>1, <2>2
<1>4. ASSUME FindNextTasks(g) = <<>>, NEW p \in DOMAIN g, ~ IsJoin(g[p]),
             g[p].deps \subseteq Finished(g), OwnNumber(g, g[p].index)
      PROVE  g[p].result # NoResult
  <2>1. FindNextTasks(g) = Selected(g, Ready)
    BY DEF FindNextTasks
  <2>2. Ready = {}
    BY <1>2, <1>4, <2>1, SelectedIs
  <2>3. g[p].index \in Finished(g)
    BY <1>4, <2>2
  <2>4. PICK q \in DOMAIN g : g[q].result # NoResult /\ g[q].index = g[p].index
    BY <2>3 DEF Finished
  <2>5. q = p
    BY <1>4, <2>4 DEF OwnNumber
  <2> QED BY <2>4, <2>5
<1>5. ASSUME NEW p \in DOMAIN g, ~ IsJoin(g[p]), g[p].result # NoResult
      PROVE  g[p] \in ToSet(BuildAgentScratchPad(g)) /\ BuildAgentScratchPad(g) # <<>>
  <2>1. BuildAgentScratchPad(g) = Selected(g, Done) /\ p \in Done
    BY <1>5 DEF BuildAgentScratchPad
  <2> HIDE DEF Done
  <2>2. \E i \in DOMAIN Selected(g, Done) : Selected(g, Done)[i] = g[p]
    BY <1>2, <2>1, SelectedIs
  <2>3. Selected(g, Done) # <<>>
    BY <1>2, <2>1, SelectedIs
  <2> QED BY <2>1, <2>2, <2>3 DEF ToSet
<1>6. ASSUME FirstBatch(g) # <<>> PROVE Rooted(g)
  <2> DEFINE ready == Selected(g, Roots)
  <2>1. FirstBatch(g) = [i \in DOMAIN ready |-> Call(ready[i], <<>>)]
    BY DEF FirstBatch
  <2> HIDE DEF ready
  <2>2. ready # <<>>
    <3>1. ASSUME ready = <<>> PROVE FirstBatch(g) = <<>>
      BY <2>1, <3>1
    <3> QED BY <1>6, <3>1
  <2>3. Roots # {}
    BY <1>2, <2>2, SelectedIs DEF ready
  <2> QED BY <2>3 DEF Rooted
<1> QED BY <1>3, <1>4, <1>5, <1>6

(* The actions of a plan.                                                   *)
Actions == [index : Nat, name : STRING, refs : Seq(Nat)]

LEMMA ClipType ==
    ASSUME NEW lines \in Seq(Actions), lines # <<>>
    PROVE  Clip(lines) \in Seq(Actions) /\ Len(Clip(lines)) \in Nat \ {0}
<1> DEFINE joins == {i \in DOMAIN lines : IsJoin(lines[i])}
<1>1. CASE joins = {}
  BY <1>1 DEF Clip
<1>2. CASE joins # {}
  <2> DEFINE first == CHOOSE i \in joins : \A j \in joins : i <= j
  <2>1. joins \in SUBSET Nat
    OBVIOUS
  <2>2. first \in joins
    BY <1>2, <2>1, LeastNumber
  <2>3. Clip(lines) = SubSeq(lines, 1, first)
    BY <1>2 DEF Clip
  <2>4. first \in 1..Len(lines)
    BY <2>2
  <2> HIDE DEF first
  <2>5. SubSeq(lines, 1, first) \in Seq(Actions) /\ Len(SubSeq(lines, 1, first)) = first
    BY <2>4
  <2> QED BY <2>3, <2>4, <2>5
<1> QED BY <1>1, <1>2

(* The parser makes a graph of a plan.                                      *)
LEMMA ParsedGraph ==
    ASSUME NEW lines \in Plans, lines # <<>>, NEW id
    PROVE  GraphOK(ParsePlan(lines, id))
<1> DEFINE c == Clip(lines)  n == Len(c)
           task(i) == [index |-> c[i].index, name |-> c[i].name, refs |-> c[i].refs,
                       deps |-> IF IsJoin(c[i]) THEN 1..(c[i].index - 1)
                                ELSE {Digit(c[i].refs[k]) : k \in DOMAIN c[i].refs},
                       id |-> id + i, result |-> NoResult]
           join == [index |-> n + 1, name |-> "join", refs |-> <<>>, deps |-> 1..n,
                    id |-> id + n + 1, result |-> NoResult]
           s == [i \in 1..n |-> task(i)]
           u == IF IsJoin(Last(c)) THEN <<>> ELSE <<join>>
           g == ParsePlan(lines, id)
<1>1. /\ c \in Seq(Actions) /\ n \in Nat \ {0} /\ DOMAIN c = 1..n
  <2>1. lines \in Seq(Actions)
    BY AgentPlanningAssumption DEF Actions
  <2>2. c \in Seq(Actions) /\ n \in Nat \ {0}
    BY <2>1, ClipType
  <2> QED BY <2>2
<1>3. g = s \o u
  BY DEF ParsePlan
<1> HIDE DEF c
<1>4. \A i \in 1..n : IsJoin(task(i)) <=> IsJoin(c[i])
  BY DEF IsJoin
<1>5. \A i \in 1..n : /\ DOMAIN task(i) = {"index", "name", "refs", "deps", "id", "result"}
                      /\ task(i).index = c[i].index
                      /\ ~ IsJoin(task(i)) =>
                           task(i).deps = {Digit(task(i).refs[k]) : k \in DOMAIN task(i).refs}
  BY <1>4
<1>6. /\ DOMAIN join = {"index", "name", "refs", "deps", "id", "result"}
      /\ join.index = n + 1 /\ IsJoin(join)
  BY DEF IsJoin
<1> HIDE DEF task, join
<1>7. /\ IsJoin(Last(c)) => DOMAIN g = 1..n
      /\ ~ IsJoin(Last(c)) => DOMAIN g = 1..(n + 1) /\ g[n + 1] = join
      /\ \A i \in 1..n : g[i] = task(i)
  <2> DEFINE X == {task(i) : i \in 1..n} \cup {join}
  <2>1. s \in Seq(X) /\ Len(s) = n /\ \A i \in 1..n : s[i] = task(i)
    <3>1. s \in [1..n -> X]
      OBVIOUS
    <3> QED BY <1>1, <3>1
  <2>2. CASE IsJoin(Last(c))
    <3>1. u = <<>> /\ s \o <<>> = s
      BY <2>1, <2>2
    <3> QED BY <1>1, <1>3, <2>1, <2>2, <3>1
  <2>3. CASE ~ IsJoin(Last(c))
    <3>1. u = <<join>> /\ <<join>> \in Seq(X)
      BY <2>3
    <3> HIDE DEF s, X
    <3>2. /\ Len(s \o <<join>>) = n + 1 /\ s \o <<join>> \in Seq(X)
          /\ \A i \in 1..n : (s \o <<join>>)[i] = s[i]
          /\ (s \o <<join>>)[n + 1] = join
      BY <1>1, <2>1, <3>1
    <3>3. DOMAIN (s \o <<join>>) = 1..(n + 1)
      BY <3>2
    <3> QED BY <1>3, <2>1, <2>3, <3>1, <3>2, <3>3
  <2> QED BY <2>2, <2>3
<1> HIDE DEF g, n
<1>8. ASSUME NEW i \in DOMAIN g
      PROVE  \/ i \in 1..n /\ g[i] = task(i)
             \/ ~ IsJoin(Last(c)) /\ i = n + 1 /\ g[i] = join
  BY <1>1, <1>7, <1>8
<1>9. \E m \in Nat : DOMAIN g = 1..m
  <2>1. n \in Nat /\ n + 1 \in Nat
    BY <1>1
  <2> QED BY <1>7, <2>1
<1>11. \A i \in DOMAIN g :
          /\ DOMAIN g[i] = {"index", "name", "refs", "deps", "id", "result"}
          /\ ~ IsJoin(g[i]) => g[i].deps = {Digit(g[i].refs[k]) : k \in DOMAIN g[i].refs}
  BY <1>5, <1>6, <1>8
<1>12. GraphOK(g)
  BY <1>9, <1>11 DEF GraphOK
<1> QED BY <1>12 DEF g

(* Results change nothing else of a graph.                                  *)
LEMMA ResultsKeep ==
    ASSUME NEW g, GraphOK(g), NEW messages
    PROVE  GraphOK(WithResults(g, messages)) /\ (Rooted(g) => Rooted(WithResults(g, messages)))
<1> DEFINE h == WithResults(g, messages)
<1>1. /\ DOMAIN h = DOMAIN g
      /\ \A i \in DOMAIN g : h[i] = g[i] \/ \E r : h[i] = [g[i] EXCEPT !.result = r]
  BY DEF WithResults
<1>2. ASSUME NEW i \in DOMAIN g
      PROVE  /\ DOMAIN h[i] = DOMAIN g[i] /\ h[i].index = g[i].index /\ h[i].name = g[i].name
             /\ h[i].refs = g[i].refs /\ h[i].deps = g[i].deps
  <2>1. DOMAIN g[i] = {"index", "name", "refs", "deps", "id", "result"}
    BY DEF GraphOK
  <2>2. ASSUME NEW r
        PROVE  LET x == [g[i] EXCEPT !.result = r]
               IN  /\ DOMAIN x = DOMAIN g[i] /\ x.index = g[i].index /\ x.name = g[i].name
                   /\ x.refs = g[i].refs /\ x.deps = g[i].deps
    BY <2>1
  <2>3. CASE h[i] = g[i]
    BY <2>3
  <2>4. ASSUME NEW r, h[i] = [g[i] EXCEPT !.result = r]
        PROVE  /\ DOMAIN h[i] = DOMAIN g[i] /\ h[i].index = g[i].index /\ h[i].name = g[i].name
               /\ h[i].refs = g[i].refs /\ h[i].deps = g[i].deps
    BY <2>2, <2>4, Zenon
  <2> QED BY <1>1, <2>3, <2>4
<1> HIDE DEF h
<1>3. \A i \in DOMAIN g : IsJoin(h[i]) <=> IsJoin(g[i])
  BY <1>2 DEF IsJoin
<1>4. GraphOK(h)
  <2>1. \A i \in DOMAIN h :
          ~ IsJoin(h[i]) => h[i].deps = {Digit(h[i].refs[k]) : k \in DOMAIN h[i].refs}
    BY <1>1, <1>2, <1>3 DEF GraphOK
  <2> QED BY <1>1, <1>2, <2>1 DEF GraphOK
<1>5. Rooted(g) => Rooted(h)
  BY <1>1, <1>2, <1>3 DEF Rooted
<1> QED BY <1>4, <1>5 DEF h

(* A requested task gets the results of the tasks that it names, where the  *)
(* numbers are not shared.                                                  *)
LEMMA RequestsAre ==
    ASSUME NEW g, GraphOK(g)
    PROVE  LET requests == BuildToolCallRequest(g, FindNextTasks(g))
           IN  \A i \in DOMAIN requests : \A k \in DOMAIN requests[i].inputs :
                  /\ requests[i].refs[k] < 10 /\ OwnNumber(g, requests[i].refs[k])
                  /\ OwnNumber(g, requests[i].index)
                  => \E j \in DOMAIN g :
                     /\ g[j].index = requests[i].refs[k]
                     /\ g[j].result = requests[i].inputs[k]
                     /\ g[j].result # NoResult
<1> DEFINE tasks == FindNextTasks(g)  requests == BuildToolCallRequest(g, tasks)
<1> SUFFICES ASSUME NEW i \in DOMAIN requests, NEW k \in DOMAIN requests[i].inputs,
                    requests[i].refs[k] < 10, OwnNumber(g, requests[i].refs[k]),
                    OwnNumber(g, requests[i].index)
             PROVE  \E j \in DOMAIN g : /\ g[j].index = requests[i].refs[k]
                                        /\ g[j].result = requests[i].inputs[k]
                                        /\ g[j].result # NoResult
  OBVIOUS
<1>1. i \in DOMAIN tasks
  BY DEF BuildToolCallRequest
<1>2. PICK p \in DOMAIN g : tasks[i] = g[p] /\ ~ IsJoin(g[p]) /\ g[p].deps \subseteq Finished(g)
  BY <1>1, TasksAre
<1> DEFINE t == TaskAt(g, tasks[i].index)
<1>A. requests[i] = Call(t, [x \in DOMAIN t.refs |-> TaskAt(g, Digit(t.refs[x])).result])
  BY <1>1 DEF BuildToolCallRequest
<1>B. t.index = g[p].index
  <2> DEFINE places == {x \in DOMAIN g : g[x].index = g[p].index}
             most == CHOOSE x \in places : \A y \in places : x >= y
  <2>1. p \in places /\ t = g[most]
    BY <1>2 DEF TaskAt
  <2>2. PICK n \in Nat : DOMAIN g = 1..n
    BY DEF GraphOK
  <2>3. places \in SUBSET (1..n) /\ places # {}
    BY <2>1, <2>2
  <2>4. most \in places
    BY <2>3, GreatestNumber
  <2> HIDE DEF most
  <2> QED BY <2>1, <2>4
<1>C. requests[i].index = g[p].index
  <2> HIDE DEF t
  <2> QED BY <1>A, <1>B DEF Call
<1>3. TaskAt(g, tasks[i].index) = g[p]
  <2>1. OwnNumber(g, g[p].index)
    BY <1>C
  <2> QED BY <1>2, <2>1, TaskAtIs
<1> HIDE DEF tasks, t
<1>4. requests[i] = Call(g[p], [x \in DOMAIN g[p].refs |-> TaskAt(g, Digit(g[p].refs[x])).result])
  BY <1>1, <1>3 DEF BuildToolCallRequest
<1>5. /\ requests[i].refs = g[p].refs
      /\ requests[i].inputs = [x \in DOMAIN g[p].refs |-> TaskAt(g, Digit(g[p].refs[x])).result]
  BY <1>4 DEF Call
<1> HIDE DEF requests
<1> DEFINE ref == g[p].refs[k]
<1>6. k \in DOMAIN g[p].refs /\ requests[i].refs[k] = ref
      /\ requests[i].inputs[k] = TaskAt(g, Digit(ref)).result
  BY <1>5
<1>7. Digit(ref) = ref
  BY <1>6 DEF Digit
<1>8. Digit(ref) \in Finished(g)
  BY <1>2, <1>6 DEF GraphOK
<1>9. PICK j \in DOMAIN g : g[j].result # NoResult /\ g[j].index = Digit(ref)
  BY <1>8 DEF Finished
<1>10. TaskAt(g, Digit(ref)) = g[j]
  <2>1. OwnNumber(g, g[j].index)
    BY <1>6, <1>7, <1>9
  <2> QED BY <1>9, <2>1, TaskAtIs
<1> QED BY <1>6, <1>7, <1>9, <1>10

(* The graph of the last step is well formed, and when its tasks are        *)
(* executed one of them depends on nothing.                                 *)
StepOK(step, pat) ==
    /\ DOMAIN step = {"kind", "calls", "done", "graph", "answer"}
    /\ GraphOK(step.graph)
    /\ pat = "llm_compiler" /\ step.calls # <<>> => Rooted(step.graph)
    /\ step.kind \in {"pause", "observation"} => step.calls # <<>>

RequestsOK(step) ==
    step.kind = "continuation" =>
        \A i \in DOMAIN step.calls : \A k \in DOMAIN step.calls[i].inputs :
            /\ step.calls[i].refs[k] < 10 /\ OwnNumber(step.graph, step.calls[i].refs[k])
            /\ OwnNumber(step.graph, step.calls[i].index)
            => \E j \in DOMAIN step.graph :
                /\ step.graph[j].index = step.calls[i].refs[k]
                /\ step.graph[j].result = step.calls[i].inputs[k]
                /\ step.graph[j].result # NoResult

AnswerOK(step) ==
    step.kind = "finish" /\ step.graph # <<>> => step.answer # "" /\
        \A i \in DOMAIN step.graph :
            \/ IsJoin(step.graph[i]) \/ step.graph[i] \in ToSet(BuildAgentScratchPad(step.graph))
            \/ step.graph[i].deps \ Finished(step.graph) # {}
            \/ ~ OwnNumber(step.graph, step.graph[i].index)

LastOK(step, pat) == StepOK(step, pat) /\ RequestsOK(step) /\ AnswerOK(step)
GivenUp(g) == NumbersApart(g) => BuildAgentScratchPad(g) # <<>>
PreviousOK == \E X : (\A g \in X : GivenUp(g)) /\ previous \in Seq(X)

AgentInv == LastOK(last, pattern) /\ PreviousOK /\ (futures # <<>> => last.calls # <<>>)

(* The invariant implies the property.                                      *)
LEMMA FollowedIs == AgentInv => PlanIsFollowed
<1> SUFFICES ASSUME AgentInv PROVE PlanIsFollowed
  OBVIOUS
<1>1. \A i \in DOMAIN previous : NumbersApart(previous[i]) => PlannerContext(previous)[i] # <<>>
  <2>1. PICK X : (\A g \in X : GivenUp(g)) /\ previous \in Seq(X)
    BY DEF AgentInv, PreviousOK
  <2> SUFFICES ASSUME NEW i \in DOMAIN previous, NumbersApart(previous[i])
               PROVE  PlannerContext(previous)[i] # <<>>
    OBVIOUS
  <2>2. GivenUp(previous[i])
    BY <2>1
  <2>3. PlannerContext(previous)[i] = BuildAgentScratchPad(previous[i])
    BY DEF PlannerContext
  <2> QED BY <2>2, <2>3 DEF GivenUp
<1>2. RequestsOK(last) /\ AnswerOK(last)
  BY DEF AgentInv, LastOK
<1> QED BY <1>1, <1>2 DEF PlanIsFollowed, RequestsOK, AnswerOK

(* What the first batch of a plan is called with.                           *)
LEMMA NoInputs ==
    ASSUME NEW g, NEW i \in DOMAIN FirstBatch(g)
    PROVE  DOMAIN FirstBatch(g)[i].inputs = {}
<1> DEFINE places == {p \in DOMAIN g : ~ IsJoin(g[p]) /\ g[p].deps = {}}
           ready == Selected(g, places)
<1>1. FirstBatch(g) = [p \in DOMAIN ready |-> Call(ready[p], <<>>)]
  BY DEF FirstBatch
<1> HIDE DEF ready
<1>2. FirstBatch(g)[i].inputs = <<>>
  BY <1>1 DEF Call
<1> QED BY <1>2

(* The empty step, an answer and a plan are steps like that.                *)
LEMMA NewSteps ==
           /\ LastOK(NoStep, pattern) /\ \A text : LastOK(Answered(text), pattern)
           /\ \A lines \in Plans : \A id : lines # <<>> =>
                LET g == ParsePlan(lines, id)
                IN  LastOK([NoStep EXCEPT !.kind = "continuation", !.graph = g,
                                          !.calls = FirstBatch(g)], pattern)
<1>1. GraphOK(<<>>)
  BY DEF GraphOK
<1>2. LastOK(NoStep, pattern) /\ \A text : LastOK(Answered(text), pattern)
  BY <1>1 DEF NoStep, Answered, LastOK, StepOK, RequestsOK, AnswerOK
<1>3. ASSUME NEW lines \in Plans, NEW id, lines # <<>>
      PROVE  LastOK([NoStep EXCEPT !.kind = "continuation", !.graph = ParsePlan(lines, id),
                                   !.calls = FirstBatch(ParsePlan(lines, id))], pattern)
  <2> DEFINE g == ParsePlan(lines, id)
             step == [NoStep EXCEPT !.kind = "continuation", !.graph = g, !.calls = FirstBatch(g)]
  <2>1. GraphOK(g)
    BY <1>3, ParsedGraph
  <2>2. FirstBatch(g) # <<>> => Rooted(g)
    BY <2>1, TasksAre
  <2>3. \A i \in DOMAIN FirstBatch(g) : DOMAIN FirstBatch(g)[i].inputs = {}
    BY NoInputs
  <2> HIDE DEF g
  <2>4. /\ DOMAIN step = {"kind", "calls", "done", "graph", "answer"} /\ step.graph = g
        /\ step.kind = "continuation" /\ step.calls = FirstBatch(g)
    BY DEF NoStep
  <2> HIDE DEF step
  <2>5. LastOK(step, pattern)
    BY <2>1, <2>2, <2>3, <2>4 DEF LastOK, StepOK, RequestsOK, AnswerOK
  <2> QED BY <2>5 DEF step, g
<1> QED BY <1>2, <1>3

(* What the executor observes.                                              *)
LEMMA ObserveKeeps ==
    ASSUME LastOK(last, pattern), last.calls # <<>>, UNCHANGED pattern, NEW messages,
           Observe(last, messages)
    PROVE  LastOK(last, pattern)' /\ last'.calls # <<>>
<1> DEFINE h == WithResults(last.graph, messages)
<1>1. DOMAIN last = {"kind", "calls", "done", "graph", "answer"} /\ GraphOK(last.graph)
  BY DEF LastOK, StepOK
<1>2. GraphOK(h) /\ (Rooted(last.graph) => Rooted(h))
  BY <1>1, ResultsKeep
<1> HIDE DEF h
<1> DEFINE seen == [last EXCEPT !.done = messages, !.graph = h]
<1>3. \/ last' = [seen EXCEPT !.kind = "pause"]
      \/ last' = [seen EXCEPT !.kind = "observation"]
  BY DEF Observe, Become, h
<1>4. /\ DOMAIN seen = {"kind", "calls", "done", "graph", "answer"}
      /\ seen.graph = h /\ seen.calls = last.calls
  BY <1>1
<1> HIDE DEF seen
<1>5. /\ DOMAIN last' = {"kind", "calls", "done", "graph", "answer"}
      /\ last'.graph = h /\ last'.calls = last.calls /\ last'.kind \in {"pause", "observation"}
  BY <1>3, <1>4
<1> QED BY <1>2, <1>5 DEF LastOK, StepOK, RequestsOK, AnswerOK

(* A change of the messages that are there, or of nothing.                  *)
LEMMA SameStep ==
    ASSUME LastOK(last, pattern), UNCHANGED pattern,
           \/ UNCHANGED last
           \/ \E d : last' = [last EXCEPT !.done = d]
    PROVE  LastOK(last, pattern)' /\ last'.calls = last.calls
<1>1. DOMAIN last = {"kind", "calls", "done", "graph", "answer"}
  BY DEF LastOK, StepOK
<1>2. /\ DOMAIN last' = DOMAIN last /\ last'.graph = last.graph /\ last'.calls = last.calls
      /\ last'.kind = last.kind /\ last'.answer = last.answer
  <2>1. CASE UNCHANGED last
    BY <2>1
  <2>2. ASSUME NEW d, last' = [last EXCEPT !.done = d]
        PROVE  /\ DOMAIN last' = DOMAIN last /\ last'.graph = last.graph
               /\ last'.calls = last.calls /\ last'.kind = last.kind /\ last'.answer = last.answer
    BY <1>1, <2>2
  <2> QED BY <2>1, <2>2
<1>3. StepOK(last, pattern)'
  BY <1>1, <1>2 DEF LastOK, StepOK
<1>4. RequestsOK(last)'
  BY <1>2 DEF LastOK, RequestsOK
<1>5. AnswerOK(last)'
  <2>1. AnswerOK(last)
    BY DEF LastOK
  <2> QED BY <1>2, <2>1, Zenon DEF AnswerOK
<1> QED BY <1>2, <1>3, <1>4, <1>5 DEF LastOK

(* A plan that is given up has a result to show.                            *)
LEMMA ScratchPadFilled ==
    ASSUME StepOK(last, pattern), pattern = "llm_compiler", last.kind = "observation",
           FindNextTasks(last.graph) = <<>>
    PROVE  GivenUp(last.graph)
<1> SUFFICES ASSUME NumbersApart(last.graph) PROVE BuildAgentScratchPad(last.graph) # <<>>
  BY DEF GivenUp
<1>1. GraphOK(last.graph) /\ Rooted(last.graph)
  BY DEF StepOK
<1>2. PICK p \in DOMAIN last.graph : ~ IsJoin(last.graph[p]) /\ last.graph[p].deps = {}
  BY <1>1 DEF Rooted
<1>3. last.graph[p].result # NoResult
  BY <1>1, <1>2, TasksAre DEF NumbersApart
<1> QED BY <1>1, <1>2, <1>3, TasksAre

(* The earlier plans and one more.                                          *)
LEMMA PreviousKeeps ==
    ASSUME PreviousOK, NEW e, GivenUp(e), previous' = Append(previous, e)
    PROVE  PreviousOK'
<1>1. PICK X : (\A g \in X : GivenUp(g)) /\ previous \in Seq(X)
  BY DEF PreviousOK
<1>2. previous \in Seq(X \cup {e})
  BY <1>1
<1>3. Append(previous, e) \in Seq(X \cup {e})
  BY <1>2
<1> QED BY <1>1, <1>3 DEF PreviousOK

(* Planning and planning again.                                             *)
LEMMA ThinkKeeps ==
    ASSUME AgentInv, NEW lines \in Plans \cup {<<>>}, NEW replanning \in BOOLEAN,
           Think(lines, replanning), Running,
           replanning => GivenUp(last.graph)
    PROVE  AgentInv'
<1>1. UNCHANGED <<pattern, futures>> /\ futures = <<>>
  BY DEF Think, Running
<1>2. PreviousOK'
  <2>1. CASE replanning
    BY <2>1, PreviousKeeps DEF Think, AgentInv
  <2>2. CASE ~ replanning
    BY <2>2 DEF Think, AgentInv, PreviousOK
  <2> QED BY <2>1, <2>2
<1>3. LastOK(last, pattern)'
  <2>1. CASE UNCHANGED last
    BY <1>1, <2>1, SameStep DEF AgentInv
  <2>2. ASSUME NEW text, last' = Answered(text) PROVE LastOK(last, pattern)'
    <3>1. LastOK(Answered(text), pattern)
      BY NewSteps
    <3> QED BY <1>1, <2>2, <3>1
  <2>3. CASE /\ lines # <<>>
             /\ last' = [NoStep EXCEPT !.kind = "continuation",
                                       !.graph = ParsePlan(lines, nextId),
                                       !.calls = FirstBatch(ParsePlan(lines, nextId))]
    <3>1. LastOK([NoStep EXCEPT !.kind = "continuation", !.graph = ParsePlan(lines, nextId),
                                !.calls = FirstBatch(ParsePlan(lines, nextId))], pattern)
      BY <2>3, NewSteps
    <3> QED BY <1>1, <2>3, <3>1
  <2> QED BY <2>1, <2>2, <2>3 DEF Think, Become, Fail
<1> QED BY <1>1, <1>2, <1>3 DEF AgentInv

(* The calls of a model's message, without a graph.                         *)
LEMMA ToolCallsOK ==
    ASSUME NEW requests, pattern # "llm_compiler",
           \A i \in DOMAIN requests : requests[i].inputs = <<>>
    PROVE  LastOK([NoStep EXCEPT !.kind = "continuation", !.calls = requests], pattern)
<1> DEFINE step == [NoStep EXCEPT !.kind = "continuation", !.calls = requests]
<1>1. /\ DOMAIN step = {"kind", "calls", "done", "graph", "answer"} /\ step.graph = <<>>
      /\ step.kind = "continuation" /\ step.calls = requests
  BY DEF NoStep
<1> HIDE DEF step
<1>2. GraphOK(<<>>)
  BY DEF GraphOK
<1>3. \A i \in DOMAIN requests : DOMAIN requests[i].inputs = {}
  OBVIOUS
<1>4. LastOK(step, pattern)
  BY <1>1, <1>2, <1>3 DEF LastOK, StepOK, RequestsOK, AnswerOK
<1> QED BY <1>4 DEF step

(* The other planners.                                                      *)
LEMMA PlannersKeep ==
    ASSUME AgentInv, PlanToolCalls \/ PlanAction
    PROVE  AgentInv'
<1>1. UNCHANGED <<pattern, futures, previous>> /\ futures = <<>> /\ pattern # "llm_compiler"
  BY DEF PlanToolCalls, PlanAction, Running
<1>2. \/ UNCHANGED last
      \/ \E text : last' = Answered(text)
      \/ \E requests : /\ last' = [NoStep EXCEPT !.kind = "continuation", !.calls = requests]
                       /\ \A i \in DOMAIN requests : requests[i].inputs = <<>>
  <2>1. CASE PlanToolCalls
    <3>1. PICK lines \in PlannerOutput :
            LET requests == [i \in DOMAIN lines |-> [id |-> nextId + i, name |-> lines[i].name,
                            index |-> lines[i].index, refs |-> <<>>, inputs |-> <<>>]]
            IN  IF lines = <<>> THEN \E text \in Texts : Become(Answered(text), "finished")
                ELSE Become([NoStep EXCEPT !.kind = "continuation", !.calls = requests], "running")
      BY <2>1 DEF PlanToolCalls
    <3> DEFINE requests == [i \in DOMAIN lines |-> [id |-> nextId + i, name |-> lines[i].name,
                            index |-> lines[i].index, refs |-> <<>>, inputs |-> <<>>]]
    <3>2. \A i \in DOMAIN requests : requests[i].inputs = <<>>
      OBVIOUS
    <3>3. \/ \E text : last' = Answered(text)
          \/ last' = [NoStep EXCEPT !.kind = "continuation", !.calls = requests]
      BY <3>1 DEF Become
    <3> HIDE DEF requests
    <3> QED BY <3>2, <3>3
  <2>2. CASE PlanAction
    <3>1. PICK o \in ReACTOutput :
            LET name == ParseReACT(o.lines, o.thought, o.answer)
                call == [id |-> nextId + 1, name |-> name, index |-> 1, refs |-> <<>>,
                         inputs |-> <<>>]
            IN  CASE name = "finish" -> Become(Answered("text"), "finished")
                  [] name = "illegal" -> Fail("illegal response")
                  [] OTHER -> Become([NoStep EXCEPT !.kind = "continuation", !.calls = <<call>>],
                                     "running")
      BY <2>2 DEF PlanAction
    <3> DEFINE name == ParseReACT(o.lines, o.thought, o.answer)
               call == [id |-> nextId + 1, name |-> name, index |-> 1, refs |-> <<>>,
                        inputs |-> <<>>]
               requests == <<call>>
    <3>2. \A i \in DOMAIN requests : requests[i].inputs = <<>>
      <4>1. call.inputs = <<>>
        OBVIOUS
      <4> HIDE DEF call
      <4> QED BY <4>1
    <3>3. \/ UNCHANGED last \/ \E text : last' = Answered(text)
          \/ last' = [NoStep EXCEPT !.kind = "continuation", !.calls = requests]
      <4> HIDE DEF name
      <4>1. CASE name = "finish"
        BY <3>1, <4>1 DEF Become, name
      <4>2. CASE name # "finish" /\ name = "illegal"
        BY <3>1, <4>2 DEF Fail, name
      <4>3. CASE name # "finish" /\ name # "illegal"
        BY <3>1, <4>3 DEF Become, name
      <4> QED BY <4>1, <4>2, <4>3
    <3> HIDE DEF requests
    <3> QED BY <3>2, <3>3
  <2> QED BY <2>1, <2>2
<1>3. LastOK(last, pattern)'
  <2>1. CASE UNCHANGED last
    BY <1>1, <2>1, SameStep DEF AgentInv
  <2>2. ASSUME NEW text, last' = Answered(text) PROVE LastOK(last, pattern)'
    <3>1. LastOK(Answered(text), pattern)
      BY NewSteps
    <3> QED BY <1>1, <2>2, <3>1
  <2>3. ASSUME NEW requests, last' = [NoStep EXCEPT !.kind = "continuation", !.calls = requests],
               \A i \in DOMAIN requests : requests[i].inputs = <<>>
        PROVE  LastOK(last, pattern)'
    <3>1. LastOK([NoStep EXCEPT !.kind = "continuation", !.calls = requests], pattern)
      BY <1>1, <2>3, ToolCallsOK
    <3> QED BY <1>1, <2>3, <3>1
  <2> QED BY <1>2, <2>1, <2>2, <2>3
<1> QED BY <1>1, <1>3 DEF AgentInv, PreviousOK

(* The worker.                                                              *)
LEMMA WorkerKeeps ==
    ASSUME AgentInv, ExecuteTools \/ Tools \/ Await \/ SubmitToolOutputs
    PROVE  AgentInv'
<1>1. UNCHANGED <<pattern, previous>>
  BY DEF ExecuteTools, Tools, RunTool, Await, SubmitToolOutputs
<1>2. CASE UNCHANGED last /\ (futures' # <<>> => last.calls # <<>>)
  BY <1>1, <1>2, SameStep DEF AgentInv, PreviousOK
<1>3. ASSUME NEW messages, Observe(last, messages), last.calls # <<>> PROVE AgentInv'
  <2>1. LastOK(last, pattern)' /\ last'.calls # <<>>
    BY <1>1, <1>3, ObserveKeeps DEF AgentInv
  <2> QED BY <1>1, <2>1 DEF AgentInv, PreviousOK
<1>4. ASSUME NEW d, last' = [last EXCEPT !.done = d], futures' # <<>> => futures # <<>>
      PROVE  AgentInv'
  <2>1. LastOK(last, pattern)' /\ last'.calls = last.calls
    BY <1>1, <1>4, SameStep DEF AgentInv
  <2> QED BY <1>1, <1>4, <2>1 DEF AgentInv, PreviousOK
<1>5. CASE ExecuteTools
  <2>1. CASE last.calls = <<>>
    BY <1>2, <1>5, <2>1 DEF ExecuteTools, Fail, Running
  <2>2. CASE last.calls # <<>>
    <3>1. \/ UNCHANGED last
          \/ Observe(last, <<>>)
      BY <1>5, <2>2 DEF ExecuteTools, Fail, InvokeFirst, InvokeAll
    <3> QED BY <1>2, <1>3, <2>2, <3>1
  <2> QED BY <2>1, <2>2
<1>6. CASE Tools
  <2>1. PICK i \in DOMAIN futures : RunTool(i)
    BY <1>6 DEF Tools
  <2>2. UNCHANGED last /\ futures # <<>>
    BY <2>1 DEF RunTool
  <2> QED BY <1>2, <2>2 DEF AgentInv
<1>7. CASE Await
  <2> DEFINE f == Head(futures)
             messages == Append(last.done, [id |-> f.id, result |-> f.result])
  <2>1. last.calls # <<>> /\ futures # <<>>
    BY <1>7 DEF Await, AgentInv
  <2>2. \/ UNCHANGED last
        \/ Observe(last, messages)
        \/ last' = [last EXCEPT !.done = messages]
    BY <1>7 DEF Await, Fail
  <2> QED BY <1>2, <1>3, <1>4, <2>1, <2>2
<1>8. CASE SubmitToolOutputs
  <2>1. futures' = futures /\ \E d : last' = [last EXCEPT !.done = d]
    BY <1>8 DEF SubmitToolOutputs
  <2> QED BY <1>4, <2>1
<1> QED BY <1>5, <1>6, <1>7, <1>8

(* After a pause the graph goes on, with the results of the client; after   *)
(* an observation, with the tasks that are ready.                           *)
LEMMA GraphGoesOn ==
    ASSUME AgentInv, LiftPause \/ ContinueGraph
    PROVE  AgentInv'
<1> DEFINE h == WithResults(last.graph, last.done)
           requests == BuildToolCallRequest(last.graph, FindNextTasks(last.graph))
           All == {"kind", "calls", "done", "graph", "answer"}
<1>1. UNCHANGED <<pattern, futures, previous>> /\ futures = <<>>
  BY DEF LiftPause, ContinueGraph, Running
<1>2. DOMAIN last = All /\ GraphOK(last.graph) /\ last.calls # <<>>
      /\ (pattern = "llm_compiler" => Rooted(last.graph))
  BY DEF LiftPause, ContinueGraph, AgentInv, LastOK, StepOK
<1>3. CASE LiftPause
  <2>1. last' = [last EXCEPT !.kind = "observation", !.graph = h]
    BY <1>3 DEF LiftPause, Become
  <2>2. GraphOK(h) /\ (Rooted(last.graph) => Rooted(h))
    BY <1>2, ResultsKeep
  <2> HIDE DEF h
  <2>3. DOMAIN last' = All /\ last'.graph = h /\ last'.calls = last.calls
        /\ last'.kind = "observation"
    BY <1>2, <2>1
  <2>4. LastOK(last, pattern)'
    BY <1>1, <1>2, <2>2, <2>3 DEF LastOK, StepOK, RequestsOK, AnswerOK
  <2> QED BY <1>1, <2>4 DEF AgentInv, PreviousOK
<1>4. CASE ContinueGraph
  <2>1. last' = [last EXCEPT !.kind = "continuation", !.done = <<>>, !.calls = requests]
    BY <1>4 DEF ContinueGraph, Become
  <2>2. \A i \in DOMAIN requests : \A k \in DOMAIN requests[i].inputs :
           /\ requests[i].refs[k] < 10 /\ OwnNumber(last.graph, requests[i].refs[k])
           /\ OwnNumber(last.graph, requests[i].index)
           => \E j \in DOMAIN last.graph :
              /\ last.graph[j].index = requests[i].refs[k]
              /\ last.graph[j].result = requests[i].inputs[k]
              /\ last.graph[j].result # NoResult
    BY <1>2, RequestsAre
  <2> HIDE DEF requests
  <2>3. DOMAIN last' = All /\ last'.graph = last.graph /\ last'.calls = requests
        /\ last'.kind = "continuation"
    BY <1>2, <2>1
  <2>4. StepOK(last, pattern)'
    BY <1>1, <1>2, <2>3 DEF StepOK
  <2>5. RequestsOK(last)'
    BY <2>2, <2>3 DEF RequestsOK
  <2>6. AnswerOK(last)'
    BY <2>3 DEF AnswerOK
  <2> QED BY <1>1, <2>4, <2>5, <2>6 DEF AgentInv, LastOK, PreviousOK
<1> QED BY <1>3, <1>4

(* The joiner is asked when no task is ready: it answers or plans again.    *)
LEMMA JoinKeeps ==
    ASSUME AgentInv, Join
    PROVE  AgentInv'
<1>1. /\ pattern = "llm_compiler" /\ Running /\ last.kind = "observation"
      /\ FindNextTasks(last.graph) = <<>>
  BY DEF Join
<1>2. StepOK(last, pattern) /\ GraphOK(last.graph)
  BY DEF AgentInv, LastOK, StepOK
<1>3. ASSUME NEW lines \in PlannerOutput, Think(lines, TRUE) PROVE AgentInv'
  <2>1. GivenUp(last.graph)
    BY <1>1, <1>2, ScratchPadFilled
  <2>2. lines \in Plans \cup {<<>>}
    BY DEF PlannerOutput
  <2> QED BY <1>1, <1>3, <2>1, <2>2, ThinkKeeps
<1>4. ASSUME NEW answer, answer # "", UNCHANGED <<pattern, futures, previous>>,
             last' = [last EXCEPT !.kind = "finish", !.answer = answer]
      PROVE  AgentInv'
  <2>1. /\ DOMAIN last' = {"kind", "calls", "done", "graph", "answer"}
        /\ last'.kind = "finish" /\ last'.answer = answer /\ last'.graph = last.graph
        /\ last'.calls = last.calls
    BY <1>2, <1>4 DEF StepOK
  <2>2. StepOK(last, pattern)'
    BY <1>2, <1>4, <2>1 DEF StepOK
  <2>3. RequestsOK(last)'
    BY <2>1 DEF RequestsOK
  <2>4. AnswerOK(last)'
    <3>1. ASSUME NEW i \in DOMAIN last.graph
          PROVE  \/ IsJoin(last.graph[i])
                 \/ last.graph[i] \in ToSet(BuildAgentScratchPad(last.graph))
                 \/ last.graph[i].deps \ Finished(last.graph) # {}
                 \/ ~ OwnNumber(last.graph, last.graph[i].index)
      BY <1>1, <1>2, TasksAre
    <3> QED BY <1>4, <2>1, <3>1 DEF AnswerOK
  <2> QED BY <1>1, <1>4, <2>2, <2>3, <2>4 DEF AgentInv, LastOK, PreviousOK, Running
<1>5. PICK o \in JoinerOutput :
         LET result == JoinerResult(o.action, o.answer)
         IN  \/ /\ ~ result.is_replan
                /\ Become([last EXCEPT !.kind = "finish", !.answer = result.answer], "finished")
                /\ UNCHANGED <<pattern, futures, previous, nextId, plans, blanks>>
             \/ /\ result.is_replan
                /\ \E lines \in PlannerOutput : Think(lines, TRUE)
  BY DEF Join
<1> DEFINE result == JoinerResult(o.action, o.answer)
<1>6. ~ result.is_replan => result.answer # ""
  BY DEF JoinerResult
<1> HIDE DEF result
<1>7. CASE /\ ~ result.is_replan
           /\ Become([last EXCEPT !.kind = "finish", !.answer = result.answer], "finished")
           /\ UNCHANGED <<pattern, futures, previous>>
  BY <1>4, <1>6, <1>7 DEF Become
<1>8. CASE \E lines \in PlannerOutput : Think(lines, TRUE)
  BY <1>3, <1>8
<1> QED BY <1>5, <1>7, <1>8 DEF result

(* The inductive invariant of the agent executors: the graph of the last    *)
(* step has tasks that depend on what they refer to, requests carry the     *)
(* results of the tasks they name wherever those numbers are not shared,    *)
(* and a graph that is carried out has a task that depends on nothing.      *)
THEOREM AgentInvariant == AgentSpec => []AgentInv
<1>1. AgentInit => AgentInv
  <2> SUFFICES ASSUME AgentInit PROVE AgentInv
    OBVIOUS
  <2>1. LastOK(last, pattern)
    BY NewSteps DEF AgentInit
  <2>2. previous \in Seq({}) /\ futures = <<>>
    BY DEF AgentInit
  <2>3. \A g \in {} : GivenUp(g)
    OBVIOUS
  <2> QED BY <2>1, <2>2, <2>3 DEF AgentInv, PreviousOK
<1>2. ASSUME AgentInv, AgentNext PROVE AgentInv'
  <2>1. CASE PlanTaskGraph
    <3>1. PICK lines \in PlannerOutput : Think(lines, FALSE)
      BY <2>1 DEF PlanTaskGraph
    <3>2. lines \in Plans \cup {<<>>} /\ Running
      BY <2>1 DEF PlanTaskGraph, PlannerOutput
    <3> QED BY <1>2, <3>1, <3>2, ThinkKeeps
  <2>2. CASE PlanToolCalls \/ PlanAction
    BY <1>2, <2>2, PlannersKeep
  <2>3. CASE ExecuteTools \/ Await \/ Tools \/ SubmitToolOutputs
    BY <1>2, <2>3, WorkerKeeps
  <2>4. CASE LiftPause \/ ContinueGraph
    BY <1>2, <2>4, GraphGoesOn
  <2>5. CASE Join
    BY <1>2, <2>5, JoinKeeps
  <2> QED BY <1>2, <2>1, <2>2, <2>3, <2>4, <2>5 DEF AgentNext, Executor
<1>3. ASSUME AgentInv, UNCHANGED agent PROVE AgentInv'
  <2>1. LastOK(last, pattern)' /\ last'.calls = last.calls
    BY <1>3, SameStep DEF agent, AgentInv
  <2> QED BY <1>3, <2>1 DEF agent, AgentInv, PreviousOK
<1> QED BY <1>1, <1>2, <1>3, PTL DEF AgentSpec

(* A requested task gets the results of the tasks that its arguments name,  *)
(* the joiner's answer is not empty and leaves only tasks that wait for a   *)
(* number without a result, and a plan that is given up has results: for    *)
(* any plans that a model may write, except where the parser's join or an   *)
(* action shares the number of another action, for any toolkits and any     *)
(* blank or failing tools.                                                  *)
THEOREM PlansAreFollowed == AgentSpec => []PlanIsFollowed
<1>1. AgentSpec => []AgentInv
  BY AgentInvariant
<1>2. AgentInv => PlanIsFollowed
  BY FollowedIs
<1> QED BY <1>1, <1>2, PTL

=============================================================================
