------------------------------ MODULE Application ------------------------------
(***************************************************************************)
(* The life of the mini-assistant process: main registers the signal        *)
(* handlers, configures the application context, starts its managed         *)
(* objects in the order of their priority, listens, and stops the objects   *)
(* when the server ends.  A signal interrupts main wherever it is; its      *)
(* handler stops the server and the managed objects and exits.  The         *)
(* consumers of the scheduler, the scan of the file batches and the HTTP    *)
(* workers run beside it.                                                  *)
(***************************************************************************)
EXTENDS Naturals, FiniteSets

CONSTANTS
    ConsumerThreads,    \* threads that one Start of the scheduler adds
    MaxTasks,           \* bound on the tasks that are queued
    MaxInFlight         \* threads of the HTTP server

ASSUME ApplicationAssumption ==
    ConsumerThreads \in Nat /\ MaxTasks \in Nat /\ MaxInFlight \in Nat

VARIABLES
    main,               \* where main is
    handler,            \* where the signal handler is, "none" before a signal
    interrupted,        \* where main was when the signal came
    toStart,            \* the priority queue of Startup
    toStop, joining,    \* per thread that shuts down: its queue, and what it joins
    schedulerRunning, consumers, tasks,
    scanRunning, scan,
    tables,             \* what the migration did
    open, inFlight      \* the server listens; requests being handled

vars == <<main, handler, interrupted, toStart, toStop, joining, schedulerRunning,
          consumers, tasks, scanRunning, scan, tables, open, inFlight>>

lifeVars == <<main, handler, interrupted, toStart, toStop, joining>>
schedulerVars == <<schedulerRunning, consumers, tasks>>
scanVars == <<scanRunning, scan>>
serverVars == <<open, inFlight>>

Managed == {"db_migration", "task_scheduler", "file_batch_background_task"}
Priority == [db_migration |-> 1000, task_scheduler |-> 10, file_batch_background_task |-> 0]
Consumers == 1..2 * ConsumerThreads
Stoppers == {"main", "handler"}
MainStates == {"begin", "signals", "factory", "scheduler", "startup", "bind", "listen",
               "cleanup", "exited", "aborted"}
HandlerStates == {"none", "servers", "instance", "stop", "deadlocked", "exited"}

\* A signal suspends main; an exit ends every thread.
MainRuns == handler = "none"
Alive == main \notin {"exited", "aborted"} /\ handler # "exited"

Init ==
    /\ main = "begin" /\ handler = "none" /\ interrupted = "none"
    /\ toStart = {} /\ toStop = [p \in Stoppers |-> {}] /\ joining = [p \in Stoppers |-> "none"]
    /\ schedulerRunning = FALSE /\ consumers = [c \in Consumers |-> "none"] /\ tasks = 0
    /\ scanRunning = FALSE /\ scan = "none"
    /\ tables = "none" /\ open = FALSE /\ inFlight = 0

-----------------------------------------------------------------------------
(* main.                                                                     *)

\* std::signal for both signals, before there is anything to shut down.
RegisterSignals ==
    /\ MainRuns /\ main = "begin" /\ main' = "signals"
    /\ UNCHANGED <<handler, interrupted, toStart, toStop, joining, tables, schedulerVars,
                   scanVars, serverVars>>

CreateFactory ==
    /\ MainRuns /\ main = "signals" /\ main' = "factory"
    /\ UNCHANGED <<handler, interrupted, toStart, toStop, joining, tables, schedulerVars,
                   scanVars, serverVars>>

\* Start of the scheduler adds threads to those it already has.
AddConsumers ==
    LET old == {c \in Consumers : consumers[c] # "none"}
        new == Cardinality(old) + 1..Cardinality(old) + ConsumerThreads
    IN  consumers' = [c \in Consumers |-> IF c \in new THEN "idle" ELSE consumers[c]]

\* Inside call_once of GetInstance: the database, the mappers and the
\* scheduler, which is started here for the first time.
ConfigureScheduler ==
    /\ MainRuns /\ main = "factory" /\ main' = "scheduler"
    /\ schedulerRunning' = TRUE
    /\ AddConsumers
    /\ UNCHANGED <<handler, interrupted, toStart, toStop, joining, tables, tasks, scanVars,
                   serverVars>>

\* The rest of Configure_: services, task handlers, server and controllers,
\* and the managed objects.
ConfigureServices ==
    /\ MainRuns /\ main = "scheduler" /\ main' = "startup"
    /\ toStart' = Managed
    /\ UNCHANGED <<handler, interrupted, toStop, joining, tables, schedulerVars, scanVars,
                   serverVars>>

\* Mutant: the comparison of the priority queue is inverted.
TopLowest(queue) == CHOOSE o \in queue : \A other \in queue : Priority[o] <= Priority[other]

\* The top of Startup's queue is the object of the highest priority.
Top(queue) == CHOOSE o \in queue : \A other \in queue : Priority[o] >= Priority[other]

\* The migration ignores an error of the database.
StartMigration ==
    /\ tables' \in {"ready", "failed"}
    /\ UNCHANGED <<schedulerVars, scanVars>>

StartScheduler ==
    /\ schedulerRunning' = TRUE
    /\ AddConsumers
    /\ UNCHANGED <<tables, tasks, scanVars>>

StartScan ==
    /\ scanRunning' = TRUE /\ scan' = "sleep"
    /\ UNCHANGED <<tables, schedulerVars>>

StartNext ==
    /\ MainRuns /\ main = "startup" /\ toStart # {}
    /\ LET object == Top(toStart)
       IN  /\ toStart' = toStart \ {object}
           /\ \/ object = "db_migration" /\ StartMigration
              \/ object = "task_scheduler" /\ StartScheduler
              \/ object = "file_batch_background_task" /\ StartScan
    /\ UNCHANGED <<main, handler, interrupted, toStop, joining, serverVars>>

\* An exception of Start ends the process.
StartFails ==
    /\ MainRuns /\ main = "startup" /\ toStart # {}
    /\ main' = "aborted"
    /\ UNCHANGED <<handler, interrupted, toStart, toStop, joining, tables, schedulerVars,
                   scanVars, serverVars>>

StartupDone ==
    /\ MainRuns /\ main = "startup" /\ toStart = {} /\ main' = "bind"
    /\ UNCHANGED <<handler, interrupted, toStart, toStop, joining, tables, schedulerVars,
                   scanVars, serverVars>>

\* The result of binding is not looked at: without a port the listening
\* returns at once and main cleans up.
BindAndListen ==
    /\ MainRuns /\ main = "bind"
    /\ \/ main' = "listen" /\ open' = TRUE /\ UNCHANGED toStop
       \/ main' = "cleanup" /\ toStop' = [toStop EXCEPT !["main"] = Managed] /\ UNCHANGED open
    /\ UNCHANGED <<handler, interrupted, toStart, joining, tables, schedulerVars, scanVars,
                   inFlight>>

MainExits ==
    /\ MainRuns /\ main = "cleanup" /\ toStop["main"] = {} /\ main' = "exited"
    /\ UNCHANGED <<handler, interrupted, toStart, toStop, joining, tables, schedulerVars,
                   scanVars, serverVars>>

-----------------------------------------------------------------------------
(* ManagedApplicationContext::Shutdown, on main or in the signal handler.     *)

Stopping(p) == \/ p = "main" /\ MainRuns /\ main = "cleanup"
               \/ p = "handler" /\ Alive /\ handler = "stop"

Bottom(queue) == CHOOSE o \in queue : \A other \in queue : Priority[o] <= Priority[other]

\* Mutant: Stop of the scan joins its thread without telling it to end.
BeginStopQuietly(p) ==
    LET object == Bottom(toStop[p])
    IN  /\ Stopping(p) /\ toStop[p] # {} /\ joining[p] = "none"
        /\ joining' = [joining EXCEPT ![p] = object]
        /\ schedulerRunning' = (schedulerRunning /\ object # "task_scheduler")
        /\ UNCHANGED <<main, handler, interrupted, toStart, toStop, consumers, tasks, scanVars,
                       tables, serverVars>>

\* Stop tells the threads of the object to end.
BeginStop(p) ==
    LET object == Bottom(toStop[p])
    IN  /\ Stopping(p) /\ toStop[p] # {} /\ joining[p] = "none"
        /\ joining' = [joining EXCEPT ![p] = object]
        /\ scanRunning' = (scanRunning /\ object # "file_batch_background_task")
        /\ schedulerRunning' = (schedulerRunning /\ object # "task_scheduler")
        /\ UNCHANGED <<main, handler, interrupted, toStart, toStop, consumers, tasks, scan,
                       tables, serverVars>>

ThreadsEnded(object) ==
    CASE object = "task_scheduler" -> \A c \in Consumers : consumers[c] \in {"none", "ended"}
      [] object = "file_batch_background_task" -> scan \in {"none", "ended"}
      [] OTHER -> TRUE

\* Mutant: Stop does not wait for the threads.
EndStopUnjoined(p) ==
    LET object == joining[p]
    IN  /\ Stopping(p) /\ object # "none"
        /\ toStop' = [toStop EXCEPT ![p] = @ \ {object}]
        /\ joining' = [joining EXCEPT ![p] = "none"]
        /\ tasks' = IF object = "task_scheduler" THEN 0 ELSE tasks
        /\ UNCHANGED <<main, handler, interrupted, toStart, schedulerRunning, consumers,
                       scanVars, tables, serverVars>>

\* Stop returns when the threads are joined; the scheduler drops the tasks
\* that are left.  A join of threads that main was joining when the signal
\* came fails, which Shutdown ignores.
EndStop(p) ==
    LET object == joining[p]
    IN  /\ Stopping(p) /\ object # "none"
        /\ ThreadsEnded(object) \/ (p = "handler" /\ joining["main"] = object)
        /\ toStop' = [toStop EXCEPT ![p] = @ \ {object}]
        /\ joining' = [joining EXCEPT ![p] = "none"]
        /\ tasks' = IF object = "task_scheduler" THEN 0 ELSE tasks
        /\ UNCHANGED <<main, handler, interrupted, toStart, schedulerRunning, consumers,
                       scanVars, tables, serverVars>>

-----------------------------------------------------------------------------
(* graceful_shutdown.                                                        *)

Signal ==
    /\ Alive /\ handler = "none" /\ main # "begin"
    /\ handler' = "servers" /\ interrupted' = main
    /\ UNCHANGED <<main, toStart, toStop, joining, tables, schedulerVars, scanVars, serverVars>>

\* A running server is stopped; its workers finish what they have.
StopServers ==
    /\ Alive /\ handler = "servers" /\ handler' = "instance"
    /\ open' = FALSE
    /\ UNCHANGED <<main, interrupted, toStart, toStop, joining, tables, schedulerVars, scanVars,
                   inFlight>>

\* GetInstance: the factory may not be there yet, or main may be inside the
\* call_once that the handler now waits for.
GetInstance ==
    /\ Alive /\ handler = "instance"
    /\ \/ interrupted = "signals" /\ main' = "aborted" /\ UNCHANGED <<handler, toStop>>
       \/ /\ interrupted \in {"factory", "scheduler"}
          /\ handler' = "deadlocked" /\ UNCHANGED <<main, toStop>>
       \/ /\ interrupted \notin {"signals", "factory", "scheduler"}
          /\ handler' = "stop" /\ toStop' = [toStop EXCEPT !["handler"] = Managed]
          /\ UNCHANGED main
    /\ UNCHANGED <<interrupted, toStart, joining, tables, schedulerVars, scanVars, serverVars>>

HandlerExits ==
    /\ Alive /\ handler = "stop" /\ toStop["handler"] = {} /\ joining["handler"] = "none"
    /\ handler' = "exited"
    /\ UNCHANGED <<main, interrupted, toStart, toStop, joining, tables, schedulerVars,
                   scanVars, serverVars>>

-----------------------------------------------------------------------------
(* The threads beside main.                                                  *)

TakeTask(c) ==
    /\ Alive /\ consumers[c] = "idle" /\ schedulerRunning /\ tasks > 0
    /\ tasks' = tasks - 1
    /\ consumers' = [consumers EXCEPT ![c] = "busy"]
    /\ UNCHANGED <<lifeVars, schedulerRunning, tables, scanVars, serverVars>>

FinishTask(c) ==
    /\ Alive /\ consumers[c] = "busy"
    /\ consumers' = [consumers EXCEPT ![c] = "idle"]
    /\ UNCHANGED <<lifeVars, schedulerRunning, tasks, tables, scanVars, serverVars>>

ConsumerEnds(c) ==
    /\ Alive /\ consumers[c] = "idle" /\ ~ schedulerRunning
    /\ consumers' = [consumers EXCEPT ![c] = "ended"]
    /\ UNCHANGED <<lifeVars, schedulerRunning, tasks, tables, scanVars, serverVars>>

\* The scan sleeps first and then works; only then it looks at the flag.
ScanWakes ==
    /\ Alive /\ scan = "sleep" /\ scan' = "work"
    /\ UNCHANGED <<lifeVars, schedulerVars, tables, scanRunning, serverVars>>

ScanLoops ==
    /\ Alive /\ scan = "work"
    /\ scan' = IF scanRunning THEN "sleep" ELSE "ended"
    /\ UNCHANGED <<lifeVars, schedulerVars, tables, scanRunning, serverVars>>

\* An exception of the scan leaves its thread, which ends the process.
ScanThrows ==
    /\ Alive /\ scan = "work" /\ main' = "aborted"
    /\ UNCHANGED <<handler, interrupted, toStart, toStop, joining, schedulerVars, tables,
                   scanVars, serverVars>>

Request ==
    /\ Alive /\ open /\ inFlight < MaxInFlight
    /\ inFlight' = inFlight + 1
    /\ UNCHANGED <<lifeVars, schedulerVars, tables, scanVars, open>>

\* A handler may enqueue a task before it answers, also after Stop drained
\* the queue.
Respond ==
    /\ Alive /\ inFlight > 0
    /\ inFlight' = inFlight - 1
    /\ tasks' \in {tasks} \cup (IF tasks < MaxTasks THEN {tasks + 1} ELSE {})
    /\ UNCHANGED <<lifeVars, schedulerRunning, consumers, tables, scanVars, open>>

Main == \/ RegisterSignals \/ CreateFactory \/ ConfigureScheduler \/ ConfigureServices
        \/ StartNext \/ StartFails \/ StartupDone \/ BindAndListen \/ MainExits
Handler == StopServers \/ GetInstance \/ HandlerExits
Shutdown(p) == BeginStop(p) \/ EndStop(p)

Next ==
    \/ Main \/ Handler \/ Signal
    \/ \E p \in Stoppers : Shutdown(p)
    \/ \E c \in Consumers : TakeTask(c) \/ FinishTask(c) \/ ConsumerEnds(c)
    \/ ScanWakes \/ ScanLoops \/ ScanThrows \/ Request \/ Respond

\* Every thread goes on running; signals and requests need not come.
Fairness ==
    /\ WF_vars(Handler)
    /\ \A p \in Stoppers : WF_vars(Shutdown(p))
    /\ \A c \in Consumers : WF_vars(FinishTask(c)) /\ WF_vars(ConsumerEnds(c))
    /\ WF_vars(ScanWakes) /\ WF_vars(ScanLoops)

Spec == Init /\ [][Next]_vars /\ Fairness

-----------------------------------------------------------------------------
TypeOK ==
    /\ main \in MainStates /\ handler \in HandlerStates
    /\ interrupted \in MainStates \cup {"none"}
    /\ toStart \subseteq Managed
    /\ toStop \in [Stoppers -> SUBSET Managed]
    /\ joining \in [Stoppers -> Managed \cup {"none"}]
    /\ schedulerRunning \in BOOLEAN /\ scanRunning \in BOOLEAN /\ open \in BOOLEAN
    /\ consumers \in [Consumers -> {"none", "idle", "busy", "ended"}]
    /\ scan \in {"none", "sleep", "work", "ended"}
    /\ tables \in {"none", "ready", "failed"}
    /\ tasks \in 0..MaxTasks /\ inFlight \in 0..MaxInFlight

\* Whoever queries the database (a request, a task, the scan) does so after
\* the migration: the scheduler's threads exist long before it, but the
\* priorities put it before everything that can give them work.
UsersHaveTables ==
    (inFlight > 0 \/ scan = "work" \/ \E c \in Consumers : consumers[c] = "busy")
        => tables # "none"

\* When the process exits, on its own or after a signal, the threads of the
\* managed objects have ended, those of both Starts of the scheduler too;
\* unless the signal came while main was already cleaning up.
NoThreadAtExit ==
    (main = "exited" \/ handler = "exited") /\ interrupted # "cleanup"
        => ThreadsEnded("task_scheduler") /\ ThreadsEnded("file_batch_background_task")

\* A signal that comes after the configuration ends the process, whatever the
\* consumers, the scan and the requests are doing.
SignalEndsProcess ==
    (handler = "servers" /\ interrupted \notin {"signals", "factory", "scheduler"})
        ~> ~ Alive
===============================================================================
