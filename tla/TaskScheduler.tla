---------------------------- MODULE TaskScheduler ----------------------------
(***************************************************************************)
(* ThreadPoolTaskScheduler<T> with its InProcessTaskQueue<T> and the        *)
(* handler list of BaseTaskScheduler<T>.                                   *)
(*                                                                         *)
(* Any thread of the application may call Enqueue, Start, Stop, Terminate,  *)
(* RegisterHandler and RemoveHandler; every consumer thread runs the loop   *)
(*     while (running_) if (queue_->Dequeue(task)) HandleTask_(task);       *)
(* The queue is moodycamel::BlockingConcurrentQueue, which orders the tasks *)
(* of one producer only; consumers may receive the tasks of different       *)
(* producers in any order, so the queue is a set here.                      *)
(*                                                                         *)
(* task_handlers_ and consumer_threads_ are plain vectors.  The callers in  *)
(* the repository change the first only while no task is in flight, and     *)
(* never run Start or a second Terminate beside a running Terminate; the    *)
(* guards marked [caller] say so.                                          *)
(***************************************************************************)
EXTENDS Naturals, Sequences, FiniteSets

CONSTANTS
    Tasks,               \* tasks that clients may enqueue (task_id is a fresh UUID)
    Handlers,            \* task handlers that may be registered
    Threads,             \* identities of the consumer threads ever spawned
    ConsumerThreadCount, \* threads spawned by one Start
    Accepts,             \* Accepts[h]: the tasks whose category handler h accepts
    NoTask

ASSUME SchedulerAssumption ==
    /\ ConsumerThreadCount \in Nat
    /\ Accepts \in [Handlers -> SUBSET Tasks]
    /\ NoTask \notin Tasks

VARIABLES
    running,      \* running_
    term,         \* "none", or which call is between running_ = false and Drain
    thread,       \* program counter of every consumer thread
    cur,          \* the task a thread is handling
    pos,          \* how many handlers of the list HandleTask_ has gone through
    handled,      \* HandleTask_'s local of that name
    hasException, \* HandleTask_'s local has_exception
    handlers,     \* task_handlers_
    queue,        \* q_
    enqueued,     \* history: the tasks ever given to Enqueue
    finished,     \* history: tasks HandleTask_ returned from
    returned,     \* history: tasks the future of Terminate delivered
    discarded,    \* history: tasks drained by Stop, which drops the future
    calls,        \* history: how often Handle of a handler ran for a task
    reports       \* history: callbacks delivered, <<callback, task>>

queueVars == <<queue, enqueued, returned, discarded>>
localVars == <<cur, pos, handled, hasException>>
historyVars == <<finished, calls, reports>>
vars == <<running, term, thread, localVars, handlers, queueVars, historyVars>>

PC == {"unborn", "test", "dequeue", "handle", "exited"}
Callback == {"OnHandledTask", "OnFailedTask", "OnUnhandledTask"}

TypeOK ==
    /\ running \in BOOLEAN
    /\ term \in {"none", "Terminate", "Stop"}
    /\ thread \in [Threads -> PC]
    /\ cur \in [Threads -> Tasks \cup {NoTask}]
    /\ pos \in [Threads -> Nat]
    /\ handled \in [Threads -> BOOLEAN]
    /\ hasException \in [Threads -> BOOLEAN]
    /\ handlers \in Seq(Handlers)
    /\ queue \subseteq Tasks /\ enqueued \subseteq Tasks
    /\ returned \subseteq Tasks /\ discarded \subseteq Tasks
    /\ finished \subseteq Tasks
    /\ calls \in [Handlers \X Tasks -> Nat]
    /\ reports \subseteq Callback \X Tasks

Init ==
    /\ running = FALSE /\ term = "none"
    /\ thread = [th \in Threads |-> "unborn"]
    /\ cur = [th \in Threads |-> NoTask]
    /\ pos = [th \in Threads |-> 0]
    /\ handled = [th \in Threads |-> FALSE]
    /\ hasException = [th \in Threads |-> FALSE]
    /\ handlers = <<>>
    /\ queue = {} /\ enqueued = {} /\ returned = {} /\ discarded = {}
    /\ finished = {} /\ reports = {}
    /\ calls = [c \in Handlers \X Tasks |-> 0]

-----------------------------------------------------------------------------
(* The application's side. *)

NoTaskInFlight == \A th \in Threads : thread[th] # "handle"

(* task_handlers_.push_back(handler); [caller] nobody iterates the vector. *)
RegisterHandler(h) ==
    /\ NoTaskInFlight
    /\ \A i \in 1..Len(handlers) : handlers[i] # h
    /\ handlers' = Append(handlers, h)
    /\ UNCHANGED <<running, term, thread, localVars, queueVars, historyVars>>

(* erase(itr): later handlers move down; [caller] nobody iterates the vector. *)
RemoveHandler(i) ==
    /\ NoTaskInFlight
    /\ handlers' = [k \in 1..(Len(handlers) - 1) |-> handlers[IF k < i THEN k ELSE k + 1]]
    /\ UNCHANGED <<running, term, thread, localVars, queueVars, historyVars>>

(* Accepted whether or not the scheduler runs. *)
Enqueue(t) ==
    /\ t \notin enqueued
    /\ queue' = queue \cup {t}
    /\ enqueued' = enqueued \cup {t}
    /\ UNCHANGED <<running, term, thread, localVars, handlers, returned, discarded, historyVars>>

(* Spawns ConsumerThreadCount more threads, also when it already runs;     *)
(* [caller] no Terminate is iterating consumer_threads_.                   *)
Start(new) ==
    /\ term = "none"
    /\ \A th \in new : thread[th] = "unborn"
    /\ running' = TRUE
    /\ thread' = [th \in Threads |-> IF th \in new THEN "test" ELSE thread[th]]
    /\ UNCHANGED <<term, localVars, handlers, queueVars, historyVars>>

(* First step of the async body: consumers are told to leave their loop.   *)
(* Stop() is the same call; the future it drops waits in its destructor.   *)
BeginTerminate(call) ==
    /\ term = "none"
    /\ term' = call
    /\ running' = FALSE
    /\ UNCHANGED <<thread, localVars, handlers, queueVars, historyVars>>

(* Mutant: the queue is drained without waiting for the consumers.         *)
FinishTerminateWithoutJoin ==
    /\ term # "none"
    /\ queue' = {}
    /\ returned' = IF term = "Terminate" THEN returned \cup queue ELSE returned
    /\ discarded' = IF term = "Stop" THEN discarded \cup queue ELSE discarded
    /\ term' = "none"
    /\ UNCHANGED <<running, thread, localVars, handlers, enqueued, historyVars>>

(* Every thread is joined, then the queue is drained.                      *)
FinishTerminate ==
    /\ term # "none"
    /\ \A th \in Threads : thread[th] \in {"unborn", "exited"}
    /\ queue' = {}
    /\ returned' = IF term = "Terminate" THEN returned \cup queue ELSE returned
    /\ discarded' = IF term = "Stop" THEN discarded \cup queue ELSE discarded
    /\ term' = "none"
    /\ UNCHANGED <<running, thread, localVars, handlers, enqueued, historyVars>>

-----------------------------------------------------------------------------
(* A consumer thread. *)

(* while (running_) *)
TestRunning(th) ==
    /\ thread[th] = "test"
    /\ thread' = [thread EXCEPT ![th] = IF running THEN "dequeue" ELSE "exited"]
    /\ UNCHANGED <<running, term, localVars, handlers, queueVars, historyVars>>

(* Mutant: running_ is tested again after the task left the queue.          *)
DequeueThenRecheck(th) ==
    /\ thread[th] = "dequeue"
    /\ \E t \in queue :
          /\ queue' = queue \ {t}
          /\ cur' = [cur EXCEPT ![th] = IF running THEN t ELSE NoTask]
    /\ thread' = [thread EXCEPT ![th] = IF running THEN "handle" ELSE "exited"]
    /\ pos' = [pos EXCEPT ![th] = 0]
    /\ handled' = [handled EXCEPT ![th] = FALSE]
    /\ hasException' = [hasException EXCEPT ![th] = FALSE]
    /\ UNCHANGED <<running, term, handlers, enqueued, returned, discarded, historyVars>>

(* wait_dequeue_timed delivers a task ...                                  *)
Dequeue(th) ==
    /\ thread[th] = "dequeue"
    /\ \E t \in queue :
          /\ queue' = queue \ {t}
          /\ cur' = [cur EXCEPT ![th] = t]
    /\ thread' = [thread EXCEPT ![th] = "handle"]
    /\ pos' = [pos EXCEPT ![th] = 0]
    /\ handled' = [handled EXCEPT ![th] = FALSE]
    /\ hasException' = [hasException EXCEPT ![th] = FALSE]
    /\ UNCHANGED <<running, term, handlers, enqueued, returned, discarded, historyVars>>

(* Mutant: an untimed wait_dequeue, which only a task can end.              *)
DequeueNeverTimesOut(th) ==
    /\ FALSE
    /\ thread' = [thread EXCEPT ![th] = "test"]
    /\ UNCHANGED <<running, term, localVars, handlers, queueVars, historyVars>>

(* Mutant: a timed-out consumer leaves its loop.                            *)
DequeueTimeoutEndsThread(th) ==
    /\ thread[th] = "dequeue"
    /\ queue = {}
    /\ thread' = [thread EXCEPT ![th] = "exited"]
    /\ UNCHANGED <<running, term, localVars, handlers, queueVars, historyVars>>

(* ... or gives up after its 3 s.                                          *)
DequeueTimeout(th) ==
    /\ thread[th] = "dequeue"
    /\ queue = {}
    /\ thread' = [thread EXCEPT ![th] = "test"]
    /\ UNCHANGED <<running, term, localVars, handlers, queueVars, historyVars>>

(* What one handler may do with the task in the hands of thread th.  Accept *)
(* and Handle may throw; what the callbacks throw is swallowed.             *)
Rejects(th, h) ==
    /\ cur[th] \notin Accepts[h]
    /\ UNCHANGED <<handled, hasException, calls, reports>>

AcceptThrows(th, h) ==
    /\ hasException' = [hasException EXCEPT ![th] = TRUE]
    /\ reports' = reports \cup {<<"OnFailedTask", cur[th]>>}
    /\ UNCHANGED <<handled, calls>>

HandleReturns(th, h) ==
    /\ cur[th] \in Accepts[h]
    /\ handled' = [handled EXCEPT ![th] = TRUE]
    /\ calls' = [calls EXCEPT ![<<h, cur[th]>>] = @ + 1]
    /\ reports' = reports \cup {<<"OnHandledTask", cur[th]>>}
    /\ UNCHANGED hasException

HandleThrows(th, h) ==
    /\ cur[th] \in Accepts[h]
    /\ handled' = [handled EXCEPT ![th] = TRUE]
    /\ hasException' = [hasException EXCEPT ![th] = TRUE]
    /\ calls' = [calls EXCEPT ![<<h, cur[th]>>] = @ + 1]
    /\ reports' = reports \cup {<<"OnFailedTask", cur[th]>>}

(* One iteration of HandleTask_'s loop over the handlers.                   *)
VisitHandler(th) ==
    /\ thread[th] = "handle"
    /\ pos[th] < Len(handlers)
    /\ pos' = [pos EXCEPT ![th] = @ + 1]
    /\ LET h == handlers[pos[th] + 1]
       IN  Rejects(th, h) \/ AcceptThrows(th, h) \/ HandleReturns(th, h) \/ HandleThrows(th, h)
    /\ UNCHANGED <<running, term, thread, cur, handlers, queueVars, finished>>

(* Mutant: a task whose handler threw goes back to the queue.               *)
FinishTaskRequeues(th) ==
    /\ thread[th] = "handle"
    /\ pos[th] >= Len(handlers)
    /\ queue' = IF hasException[th] THEN queue \cup {cur[th]} ELSE queue
    /\ finished' = IF hasException[th] THEN finished ELSE finished \cup {cur[th]}
    /\ cur' = [cur EXCEPT ![th] = NoTask]
    /\ thread' = [thread EXCEPT ![th] = "test"]
    /\ UNCHANGED <<running, term, pos, handled, hasException, handlers, enqueued, returned,
                   discarded, calls, reports>>

(* After the loop: a task no handler touched is only reported; there is no  *)
(* retry, the thread goes back to its loop test.                            *)
FinishTask(th) ==
    /\ thread[th] = "handle"
    /\ pos[th] >= Len(handlers)
    /\ reports' = IF ~handled[th] /\ ~hasException[th]
                  THEN reports \cup {<<"OnUnhandledTask", cur[th]>>} ELSE reports
    /\ finished' = finished \cup {cur[th]}
    /\ cur' = [cur EXCEPT ![th] = NoTask]
    /\ thread' = [thread EXCEPT ![th] = "test"]
    /\ UNCHANGED <<running, term, pos, handled, hasException, handlers, queueVars, calls>>

-----------------------------------------------------------------------------
Consumer(th) == \/ TestRunning(th) \/ Dequeue(th) \/ DequeueTimeout(th)
                \/ VisitHandler(th) \/ FinishTask(th)

Next ==
    \/ \E h \in Handlers : RegisterHandler(h)
    \/ \E i \in 1..Len(handlers) : RemoveHandler(i)
    \/ \E t \in Tasks : Enqueue(t)
    \/ \E new \in SUBSET Threads : Cardinality(new) = ConsumerThreadCount /\ Start(new)
    \/ \E call \in {"Terminate", "Stop"} : BeginTerminate(call)
    \/ FinishTerminate
    \/ \E th \in Threads : Consumer(th)

(* The operating system runs every thread that can run, and handlers       *)
(* return.  Clients are under no obligation.                               *)
Fairness == /\ \A th \in Threads : WF_vars(Consumer(th))
            /\ WF_vars(FinishTerminate)

Spec == Init /\ [][Next]_vars

FairSpec == Spec /\ Fairness

-----------------------------------------------------------------------------
(* The task a thread holds, as a set. *)
InHand == {cur[th] : th \in Threads} \ {NoTask}

(* Every task given to Enqueue is in exactly one place: still queued, in   *)
(* the hands of exactly one consumer, through HandleTask_, or drained by a *)
(* shutdown.  No interleaving of consumers, Stop, Terminate and a repeated *)
(* Start loses a task or hands it out twice.                               *)
TaskConservation ==
    /\ enqueued = queue \cup InHand \cup finished \cup returned \cup discarded
    /\ queue \cap InHand = {}
    /\ finished \cap (queue \cup InHand) = {}
    /\ (returned \cup discarded) \cap (queue \cup InHand \cup finished) = {}
    /\ \A th1, th2 \in Threads :
          cur[th1] = cur[th2] /\ cur[th1] # NoTask => th1 = th2

(* Handle of one handler runs at most once for a task: HandleTask_ visits  *)
(* each handler once and no other thread receives the task, during or      *)
(* after its handling.                                                     *)
HandledOnce == \A c \in Handlers \X Tasks : calls[c] <= 1

(* A task that left HandleTask_ was reported, and as unhandled exactly     *)
(* when no handler ran for it and none threw (lines 116-122).              *)
FinishedIsReported ==
    \A t \in finished :
        /\ \E c \in Callback : <<c, t>> \in reports
        /\ <<"OnUnhandledTask", t>> \in reports
              <=> /\ <<"OnHandledTask", t>> \notin reports
                  /\ <<"OnFailedTask", t>> \notin reports

(* Between the return of Terminate or Stop and the next Start no consumer  *)
(* is alive, so no handler runs against services that are being destroyed. *)
StoppedMeansJoined ==
    ~running /\ term = "none" =>
        \A th \in Threads : thread[th] \in {"unborn", "exited"} /\ cur[th] = NoTask

(* A shutdown ends although consumers may be blocked on an empty queue.    *)
TerminateReturns == term # "none" ~> term = "none"

(* While the scheduler has a consumer and is not shut down, a queued task  *)
(* is taken; it may stay queued only if a shutdown happens or no thread    *)
(* was ever spawned.                                                       *)
QueuedIsTaken ==
    \A t \in Tasks :
        (t \in queue /\ running /\ \E th \in Threads : thread[th] # "unborn")
            ~> (t \notin queue \/ ~running)

-----------------------------------------------------------------------------
(* Implementation of the abstract contract. *)
StatusOf(t) ==
    CASE t \in queue     -> "pending"
      [] t \in InHand    -> "taken"
      [] t \in finished  -> "finished"
      [] t \in returned  -> "returned"
      [] t \in discarded -> "discarded"
      [] OTHER           -> "new"

Contract == INSTANCE TaskDelivery WITH status <- [t \in Tasks |-> StatusOf(t)]

(* The thread pool implements the contract of TaskDelivery. *)
ImplementsTaskDelivery == Contract!Spec

=============================================================================
