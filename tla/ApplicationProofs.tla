--------------------------- MODULE ApplicationProofs ---------------------------
(***************************************************************************)
(* Proofs about the life of the process: nobody uses the database before    *)
(* the migration, and an exit finds no thread of a managed object running.  *)
(* They hold for any number of consumer threads, tasks and requests.        *)
(***************************************************************************)
EXTENDS Application, TLAPS

-----------------------------------------------------------------------------
(* The queues of Startup and Shutdown.                                       *)

\* The priorities of the managed objects.
LEMMA Priorities ==
    /\ Priority["db_migration"] = 1000 /\ Priority["task_scheduler"] = 10
    /\ Priority["file_batch_background_task"] = 0
    /\ \A o \in Managed : Priority[o] \in Nat
<1>1. /\ Priority["db_migration"] = 1000 /\ Priority["task_scheduler"] = 10
      /\ Priority["file_batch_background_task"] = 0
  BY DEF Priority
<1>2. QED
  BY <1>1 DEF Managed

\* Shutdown takes an object that is in its queue.
LEMMA BottomIsQueued ==
    ASSUME NEW queue \in SUBSET Managed, queue # {}
    PROVE  Bottom(queue) \in queue
<1>1. \E o \in queue : \A other \in queue : Priority[o] <= Priority[other]
  <2>1. CASE "file_batch_background_task" \in queue
    BY <2>1, Priorities DEF Managed
  <2>2. CASE "file_batch_background_task" \notin queue /\ "task_scheduler" \in queue
    BY <2>2, Priorities DEF Managed
  <2>3. CASE "file_batch_background_task" \notin queue /\ "task_scheduler" \notin queue
    <3>1. queue = {"db_migration"}
      BY <2>3 DEF Managed
    <3>2. QED
      BY <3>1, Priorities DEF Managed
  <2>4. QED
    BY <2>1, <2>2, <2>3
<1>2. QED
  BY <1>1 DEF Bottom

\* Startup takes an object that is in its queue, of the highest priority.
LEMMA TopIsQueued ==
    ASSUME NEW queue \in SUBSET Managed, queue # {}
    PROVE  /\ Top(queue) \in queue
           /\ \A other \in queue : Priority[Top(queue)] >= Priority[other]
<1>1. \E o \in queue : \A other \in queue : Priority[o] >= Priority[other]
  <2>1. CASE "db_migration" \in queue
    BY <2>1, Priorities DEF Managed
  <2>2. CASE "db_migration" \notin queue /\ "task_scheduler" \in queue
    BY <2>2, Priorities DEF Managed
  <2>3. CASE "db_migration" \notin queue /\ "task_scheduler" \notin queue
    <3>1. queue = {"file_batch_background_task"}
      BY <2>3 DEF Managed
    <3>2. QED
      BY <3>1, Priorities DEF Managed
  <2>4. QED
    BY <2>1, <2>2, <2>3
<1>2. QED
  BY <1>1 DEF Top

\* The first object that Startup starts is the migration.
LEMMA MigrationIsFirst == Top(Managed) = "db_migration"
<1>1. /\ Top(Managed) \in Managed
      /\ \A other \in Managed : Priority[Top(Managed)] >= Priority[other]
  <2>1. Managed \in SUBSET Managed /\ Managed # {}
    BY DEF Managed
  <2>2. QED
    BY <2>1, TopIsQueued
<1>2. Priority[Top(Managed)] >= 1000
  BY <1>1, Priorities DEF Managed
<1>3. QED
  BY <1>1, <1>2, Priorities DEF Managed

-----------------------------------------------------------------------------
(* What the steps may do.                                                    *)

\* A Start of the scheduler only ever puts idle consumers in their places.
LEMMA AddedAreIdle ==
    ASSUME AddConsumers, consumers \in [Consumers -> {"none", "idle", "busy", "ended"}]
    PROVE  /\ consumers' \in [Consumers -> {"none", "idle", "busy", "ended"}]
           /\ \A c \in Consumers : consumers'[c] \in {consumers[c], "idle"}
BY DEF AddConsumers

\* Every step is one of these; the proofs below go through them.
LEMMA Steps ==
    ASSUME [Next]_vars
    PROVE  \/ RegisterSignals \/ CreateFactory \/ ConfigureScheduler \/ ConfigureServices
           \/ StartNext \/ StartFails \/ StartupDone \/ BindAndListen \/ MainExits
           \/ StopServers \/ GetInstance \/ HandlerExits \/ Signal
           \/ \E p \in Stoppers : BeginStop(p)
           \/ \E p \in Stoppers : EndStop(p)
           \/ \E c \in Consumers : TakeTask(c)
           \/ \E c \in Consumers : FinishTask(c)
           \/ \E c \in Consumers : ConsumerEnds(c)
           \/ ScanWakes \/ ScanLoops \/ ScanThrows \/ Request \/ Respond
           \/ UNCHANGED vars
BY Zenon DEF Next, Main, Handler, Shutdown

-----------------------------------------------------------------------------
(* Type correctness.  The conjuncts are in groups, as most steps leave a     *)
(* whole group alone.                                                        *)

LifeTypes ==
    /\ main \in MainStates /\ handler \in HandlerStates
    /\ interrupted \in MainStates \cup {"none"}
    /\ toStart \in SUBSET Managed
    /\ toStop \in [Stoppers -> SUBSET Managed]
    /\ joining \in [Stoppers -> Managed \cup {"none"}]

FlagTypes ==
    /\ schedulerRunning \in BOOLEAN /\ scanRunning \in BOOLEAN /\ open \in BOOLEAN

ThreadTypes ==
    /\ consumers \in [Consumers -> {"none", "idle", "busy", "ended"}]
    /\ scan \in {"none", "sleep", "work", "ended"}
    /\ tables \in {"none", "ready", "failed"}

CountTypes == tasks \in 0..MaxTasks /\ inFlight \in 0..MaxInFlight

\* The groups are the type invariant.
LEMMA TypeGroups == TypeOK <=> LifeTypes /\ FlagTypes /\ ThreadTypes /\ CountTypes
BY DEF TypeOK, LifeTypes, FlagTypes, ThreadTypes, CountTypes

\* The life of main and of the handler, and the two queues of Shutdown.
LEMMA LifeTypesStep == LifeTypes /\ [Next]_vars => LifeTypes'
<1> SUFFICES ASSUME LifeTypes, [Next]_vars PROVE LifeTypes'
  OBVIOUS
<1> USE DEF LifeTypes
<1>1. CASE RegisterSignals
  BY <1>1 DEF RegisterSignals, MainStates
<1>2. CASE CreateFactory
  BY <1>2 DEF CreateFactory, MainStates
<1>3. CASE ConfigureScheduler
  BY <1>3 DEF ConfigureScheduler, MainStates
<1>4. CASE ConfigureServices
  BY <1>4 DEF ConfigureServices, MainStates
<1>5. CASE StartNext
  BY <1>5 DEF StartNext
<1>6. CASE StartFails
  BY <1>6 DEF StartFails, MainStates
<1>7. CASE StartupDone
  BY <1>7 DEF StartupDone, MainStates
<1>8. CASE BindAndListen
  BY <1>8 DEF BindAndListen, MainStates, Stoppers
<1>9. CASE MainExits
  BY <1>9 DEF MainExits, MainStates
<1>10. CASE StopServers
  BY <1>10 DEF StopServers, HandlerStates
<1>11. CASE GetInstance
  BY <1>11 DEF GetInstance, HandlerStates, MainStates, Stoppers
<1>12. CASE HandlerExits
  BY <1>12 DEF HandlerExits, HandlerStates
<1>13. CASE Signal
  BY <1>13 DEF Signal, HandlerStates
<1>14. ASSUME NEW p \in Stoppers, BeginStop(p) PROVE LifeTypes'
  <2>1. toStop[p] \in SUBSET Managed /\ toStop[p] # {}
    BY <1>14 DEF BeginStop
  <2>2. Bottom(toStop[p]) \in Managed
    BY <2>1, BottomIsQueued
  <2>3. QED
    BY <1>14, <2>2 DEF BeginStop
<1>15. ASSUME NEW p \in Stoppers, EndStop(p) PROVE LifeTypes'
  BY <1>15 DEF EndStop
<1>16. ASSUME NEW c \in Consumers, TakeTask(c) PROVE LifeTypes'
  BY <1>16 DEF TakeTask, lifeVars
<1>17. ASSUME NEW c \in Consumers, FinishTask(c) PROVE LifeTypes'
  BY <1>17 DEF FinishTask, lifeVars
<1>18. ASSUME NEW c \in Consumers, ConsumerEnds(c) PROVE LifeTypes'
  BY <1>18 DEF ConsumerEnds, lifeVars
<1>19. CASE ScanWakes
  BY <1>19 DEF ScanWakes, lifeVars
<1>20. CASE ScanLoops
  BY <1>20 DEF ScanLoops, lifeVars
<1>21. CASE ScanThrows
  BY <1>21 DEF ScanThrows, MainStates
<1>22. CASE Request
  BY <1>22 DEF Request, lifeVars
<1>23. CASE Respond
  BY <1>23 DEF Respond, lifeVars
<1>24. CASE UNCHANGED vars
  BY <1>24 DEF vars
<1>25. QED
  BY <1>1, <1>2, <1>3, <1>4, <1>5, <1>6, <1>7, <1>8, <1>9, <1>10, <1>11, <1>12, <1>13, <1>14,
     <1>15, <1>16, <1>17, <1>18, <1>19, <1>20, <1>21, <1>22, <1>23, <1>24, Steps, Zenon


\* The flags of the scheduler, the scan and the server.
LEMMA FlagTypesStep == FlagTypes /\ [Next]_vars => FlagTypes'
<1> SUFFICES ASSUME FlagTypes, [Next]_vars PROVE FlagTypes'
  OBVIOUS
<1> USE DEF FlagTypes, schedulerVars, scanVars, serverVars
<1>1. CASE RegisterSignals \/ CreateFactory \/ ConfigureScheduler \/ ConfigureServices
  BY <1>1 DEF RegisterSignals, CreateFactory, ConfigureScheduler, ConfigureServices
<1>2. CASE StartNext
  BY <1>2 DEF StartNext, StartMigration, StartScheduler, StartScan
<1>3. CASE StartFails \/ StartupDone \/ BindAndListen \/ MainExits
  BY <1>3 DEF StartFails, StartupDone, BindAndListen, MainExits
<1>4. CASE StopServers \/ GetInstance \/ HandlerExits \/ Signal
  BY <1>4 DEF StopServers, GetInstance, HandlerExits, Signal
<1>5. ASSUME NEW p \in Stoppers, BeginStop(p) PROVE FlagTypes'
  BY <1>5, Zenon DEF BeginStop
<1>6. ASSUME NEW p \in Stoppers, EndStop(p) PROVE FlagTypes'
  BY <1>6 DEF EndStop
<1>7. ASSUME NEW c \in Consumers, TakeTask(c) \/ FinishTask(c) \/ ConsumerEnds(c)
      PROVE  FlagTypes'
  BY <1>7 DEF TakeTask, FinishTask, ConsumerEnds
<1>8. CASE ScanWakes \/ ScanLoops \/ ScanThrows \/ Request \/ Respond
  BY <1>8 DEF ScanWakes, ScanLoops, ScanThrows, Request, Respond
<1>9. CASE UNCHANGED vars
  BY <1>9 DEF vars
<1>10. QED
  BY <1>1, <1>2, <1>3, <1>4, <1>5, <1>6, <1>7, <1>8, <1>9, Steps, Zenon

\* The threads beside main and what the migration did.
LEMMA ThreadTypesStep == ThreadTypes /\ [Next]_vars => ThreadTypes'
<1> SUFFICES ASSUME ThreadTypes, [Next]_vars PROVE ThreadTypes'
  OBVIOUS
<1> USE DEF ThreadTypes, schedulerVars, scanVars
<1>1. CASE RegisterSignals \/ CreateFactory \/ ConfigureServices
  BY <1>1 DEF RegisterSignals, CreateFactory, ConfigureServices
<1>2. CASE ConfigureScheduler
  BY <1>2, AddedAreIdle DEF ConfigureScheduler
<1>3. CASE StartNext
  <2>1. StartMigration \/ StartScheduler \/ StartScan
    BY <1>3 DEF StartNext
  <2>2. QED
    BY <2>1, AddedAreIdle DEF StartMigration, StartScheduler, StartScan
<1>4. CASE StartFails \/ StartupDone \/ BindAndListen \/ MainExits
  BY <1>4 DEF StartFails, StartupDone, BindAndListen, MainExits
<1>5. CASE StopServers \/ GetInstance \/ HandlerExits \/ Signal
  BY <1>5 DEF StopServers, GetInstance, HandlerExits, Signal
<1>6. ASSUME NEW p \in Stoppers, BeginStop(p) \/ EndStop(p) PROVE ThreadTypes'
  BY <1>6 DEF BeginStop, EndStop
<1>7. ASSUME NEW c \in Consumers, TakeTask(c) \/ FinishTask(c) \/ ConsumerEnds(c)
      PROVE  ThreadTypes'
  BY <1>7 DEF TakeTask, FinishTask, ConsumerEnds
<1>8. CASE ScanWakes \/ ScanLoops \/ ScanThrows \/ Request \/ Respond
  BY <1>8 DEF ScanWakes, ScanLoops, ScanThrows, Request, Respond
<1>9. CASE UNCHANGED vars
  BY <1>9 DEF vars
<1>10. QED
  BY <1>1, <1>2, <1>3, <1>4, <1>5, <1>6, <1>7, <1>8, <1>9, Steps, Zenon

\* The queue of tasks and the requests stay within their bounds.
LEMMA CountTypesStep == CountTypes /\ [Next]_vars => CountTypes'
<1> SUFFICES ASSUME CountTypes, [Next]_vars PROVE CountTypes'
  OBVIOUS
<1> USE ApplicationAssumption DEF CountTypes, schedulerVars, serverVars
<1>1. CASE RegisterSignals \/ CreateFactory \/ ConfigureScheduler \/ ConfigureServices
  BY <1>1 DEF RegisterSignals, CreateFactory, ConfigureScheduler, ConfigureServices
<1>2. CASE StartNext
  BY <1>2 DEF StartNext, StartMigration, StartScheduler, StartScan
<1>3. CASE StartFails \/ StartupDone \/ BindAndListen \/ MainExits
  BY <1>3 DEF StartFails, StartupDone, BindAndListen, MainExits
<1>4. CASE StopServers \/ GetInstance \/ HandlerExits \/ Signal
  BY <1>4 DEF StopServers, GetInstance, HandlerExits, Signal
<1>5. ASSUME NEW p \in Stoppers, BeginStop(p) \/ EndStop(p) PROVE CountTypes'
  <2>1. /\ inFlight' = inFlight
        /\ tasks' = tasks \/ tasks' = 0
    BY <1>5, Zenon DEF BeginStop, EndStop
  <2>2. QED
    BY <2>1
<1>6. ASSUME NEW c \in Consumers, TakeTask(c) \/ FinishTask(c) \/ ConsumerEnds(c)
      PROVE  CountTypes'
  <2>1. /\ inFlight' = inFlight
        /\ tasks' = tasks \/ (tasks > 0 /\ tasks' = tasks - 1)
    BY <1>6, Zenon DEF TakeTask, FinishTask, ConsumerEnds
  <2>2. QED
    BY <2>1
<1>7. CASE ScanWakes \/ ScanLoops \/ ScanThrows
  BY <1>7 DEF ScanWakes, ScanLoops, ScanThrows
<1>8. CASE Request
  <2>1. tasks' = tasks /\ inFlight < MaxInFlight /\ inFlight' = inFlight + 1
    BY <1>8, Zenon DEF Request
  <2>2. QED
    BY <2>1
<1>9. CASE Respond
  <2>1. /\ inFlight > 0 /\ inFlight' = inFlight - 1
        /\ tasks' \in {tasks} \cup (IF tasks < MaxTasks THEN {tasks + 1} ELSE {})
    BY <1>9, Zenon DEF Respond
  <2>2. QED
    BY <2>1
<1>10. CASE UNCHANGED vars
  BY <1>10 DEF vars
<1>11. QED
  BY <1>1, <1>2, <1>3, <1>4, <1>5, <1>6, <1>7, <1>8, <1>9, <1>10, Steps, Zenon

\* The state of the process keeps its type.
THEOREM ApplicationTypes == Spec => []TypeOK
<1>1. Init => TypeOK
  <2>1. Init => LifeTypes
    BY DEF Init, LifeTypes, MainStates, HandlerStates
  <2>2. Init => FlagTypes
    BY DEF Init, FlagTypes
  <2>3. Init => ThreadTypes
    BY DEF Init, ThreadTypes
  <2>4. Init => CountTypes
    BY ApplicationAssumption DEF Init, CountTypes
  <2>5. QED
    BY <2>1, <2>2, <2>3, <2>4, TypeGroups
<1>2. TypeOK /\ [Next]_vars => TypeOK'
  <2> SUFFICES ASSUME TypeOK, [Next]_vars PROVE TypeOK'
    OBVIOUS
  <2>1. LifeTypes' /\ FlagTypes' /\ ThreadTypes' /\ CountTypes'
    BY TypeGroups, LifeTypesStep, FlagTypesStep, ThreadTypesStep, CountTypesStep, Zenon
  <2>2. QED
    BY <2>1 DEF TypeOK, LifeTypes, FlagTypes, ThreadTypes, CountTypes
<1>3. QED
  BY <1>1, <1>2, PTL DEF Spec


-----------------------------------------------------------------------------
(* Nobody uses the database before the migration.                            *)

\* Before the migration ran nothing can ask for the database: no request, no
\* task, no scan, and main is still before the first Start of an object.
MigrationInv ==
    tables = "none" =>
        /\ open = FALSE /\ inFlight = 0 /\ tasks = 0 /\ scan = "none"
        /\ \A c \in Consumers : consumers[c] # "busy"
        /\ main \in {"begin", "signals", "factory", "scheduler", "startup", "aborted"}
        /\ main = "startup" => toStart = Managed

\* Every step keeps it: the first Start is that of the migration.
LEMMA MigrationStep ==
    TypeOK /\ MigrationInv /\ [Next]_vars => MigrationInv'
<1> SUFFICES ASSUME TypeOK, MigrationInv, [Next]_vars, tables' = "none"
             PROVE  MigrationInv'
  BY DEF MigrationInv
<1> USE DEF MigrationInv, schedulerVars, scanVars, serverVars, lifeVars
<1>1. CASE RegisterSignals \/ CreateFactory
  BY <1>1 DEF RegisterSignals, CreateFactory
<1>2. CASE ConfigureScheduler
  <2>1. /\ tables = "none" /\ main' = "scheduler" /\ AddConsumers
        /\ UNCHANGED <<open, inFlight, tasks, scan>>
    BY <1>2, Zenon DEF ConfigureScheduler
  <2>2. \A c \in Consumers : consumers'[c] # "busy"
    BY <2>1, AddedAreIdle DEF TypeOK
  <2>3. QED
    BY <2>1, <2>2
<1>3. CASE ConfigureServices
  BY <1>3 DEF ConfigureServices
<1>4. CASE StartNext
  <2>1. main = "startup" /\ tables \in {"none", "ready", "failed"}
    BY <1>4 DEF StartNext, TypeOK
  <2>2. CASE tables = "none"
    <3>1. Top(toStart) = "db_migration"
      BY <2>1, <2>2, MigrationIsFirst, Zenon
    <3>2. StartMigration
      BY <1>4, <3>1 DEF StartNext
    <3>3. QED
      BY <3>2 DEF StartMigration
  <2>3. CASE tables # "none"
    <3>1. tables' = tables \/ tables' \in {"ready", "failed"}
      BY <1>4, Zenon DEF StartNext, StartMigration, StartScheduler, StartScan
    <3>2. QED
      BY <2>3, <3>1
  <2>4. QED
    BY <2>2, <2>3
<1>5. CASE StartFails
  BY <1>5 DEF StartFails
<1>6. CASE StartupDone
  <2>1. main = "startup" /\ toStart = {} /\ tables = "none"
    BY <1>6, Zenon DEF StartupDone
  <2>2. QED
    BY <2>1 DEF Managed
<1>7. CASE BindAndListen \/ MainExits
  BY <1>7 DEF BindAndListen, MainExits
<1>8. CASE StopServers \/ GetInstance \/ HandlerExits \/ Signal
  BY <1>8 DEF StopServers, GetInstance, HandlerExits, Signal
<1>9. ASSUME NEW p \in Stoppers, BeginStop(p) \/ EndStop(p) PROVE MigrationInv'
  BY <1>9 DEF BeginStop, EndStop
<1>10. ASSUME NEW c \in Consumers, TakeTask(c) PROVE MigrationInv'
  <2>1. tables = "none" /\ tasks > 0
    BY <1>10, Zenon DEF TakeTask
  <2>2. QED
    BY <2>1
<1>11. ASSUME NEW c \in Consumers, FinishTask(c) \/ ConsumerEnds(c) PROVE MigrationInv'
  BY <1>11 DEF FinishTask, ConsumerEnds, TypeOK
<1>12. CASE ScanWakes \/ ScanLoops \/ ScanThrows
  BY <1>12 DEF ScanWakes, ScanLoops, ScanThrows
<1>13. CASE Request
  <2>1. tables = "none" /\ open
    BY <1>13, Zenon DEF Request
  <2>2. QED
    BY <2>1
<1>14. CASE Respond
  <2>1. tables = "none" /\ inFlight > 0
    BY <1>14, Zenon DEF Respond
  <2>2. QED
    BY <2>1
<1>15. CASE UNCHANGED vars
  BY <1>15 DEF vars
<1>16. QED
  BY <1>1, <1>2, <1>3, <1>4, <1>5, <1>6, <1>7, <1>8, <1>9, <1>10, <1>11, <1>12, <1>13, <1>14,
     <1>15, Steps, Zenon

\* A request, a task or a scan that queries the database does so after the
\* migration of Startup, however many consumers the first Start of the
\* scheduler made before it.
THEOREM TablesBeforeUse == Spec => []UsersHaveTables
<1>1. Init => MigrationInv
  BY DEF Init, MigrationInv
<1>2. MigrationInv => UsersHaveTables
  BY DEF MigrationInv, UsersHaveTables
<1>3. QED
  BY <1>1, <1>2, MigrationStep, ApplicationTypes, PTL DEF Spec

-----------------------------------------------------------------------------
(* No thread of a managed object is left when the process exits.             *)

\* A signal leaves main where it was, and main joins only while it cleans up.
InterruptInv ==
    /\ joining["main"] # "none" => main \in {"cleanup", "exited", "aborted"}
    /\ handler # "none" => main \in {interrupted, "aborted"}

\* An object that Shutdown has taken from its queue has no thread any more.
JoinedByMain ==
    main \in {"cleanup", "exited"} =>
        \A o \in Managed \ toStop["main"] : ThreadsEnded(o)
JoinedByHandler ==
    handler \in {"stop", "exited"} /\ interrupted # "cleanup" =>
        \A o \in Managed \ toStop["handler"] : ThreadsEnded(o)

\* Shutdown has emptied its queue before the exit.
ExitInv ==
    /\ main = "exited" => toStop["main"] = {}
    /\ handler = "exited" => toStop["handler"] = {}

\* Every step keeps the signal's view of main.
LEMMA InterruptStep ==
    TypeOK /\ InterruptInv /\ [Next]_vars => InterruptInv'
<1> SUFFICES ASSUME TypeOK, InterruptInv, [Next]_vars PROVE InterruptInv'
  OBVIOUS
<1>0. joining \in [Stoppers -> Managed \cup {"none"}] /\ "main" \in Stoppers
  BY DEF TypeOK, Stoppers
<1> USE DEF InterruptInv, lifeVars, MainRuns, Alive
<1>1. CASE RegisterSignals \/ CreateFactory \/ ConfigureScheduler \/ ConfigureServices
  BY <1>1 DEF RegisterSignals, CreateFactory, ConfigureScheduler, ConfigureServices
<1>2. CASE StartNext \/ StartFails \/ StartupDone \/ BindAndListen \/ MainExits
  BY <1>2 DEF StartNext, StartFails, StartupDone, BindAndListen, MainExits
<1>3. CASE StopServers \/ GetInstance \/ HandlerExits \/ Signal
  BY <1>3 DEF StopServers, GetInstance, HandlerExits, Signal
<1>4. ASSUME NEW p \in Stoppers, BeginStop(p) PROVE InterruptInv'
  BY <1>0, <1>4 DEF BeginStop, Stopping
<1>5. ASSUME NEW p \in Stoppers, EndStop(p) PROVE InterruptInv'
  BY <1>0, <1>5 DEF EndStop, Stopping
<1>6. ASSUME NEW c \in Consumers, TakeTask(c) \/ FinishTask(c) \/ ConsumerEnds(c)
      PROVE  InterruptInv'
  BY <1>6 DEF TakeTask, FinishTask, ConsumerEnds
<1>7. CASE ScanWakes \/ ScanLoops \/ ScanThrows \/ Request \/ Respond
  BY <1>7 DEF ScanWakes, ScanLoops, ScanThrows, Request, Respond
<1>8. CASE UNCHANGED vars
  BY <1>8 DEF vars
<1>9. QED
  BY <1>1, <1>2, <1>3, <1>4, <1>5, <1>6, <1>7, <1>8, Steps, Zenon

\* Threads that have ended stay so: only main starts new ones, during the
\* configuration and Startup.
LEMMA EndedStaysEnded ==
    ASSUME TypeOK, [Next]_vars, ~ ConfigureScheduler, ~ StartNext,
           NEW o \in Managed, ThreadsEnded(o)
    PROVE  ThreadsEnded(o)'
<1>1. /\ (\A c \in Consumers : consumers[c] \in {"none", "ended"})
            => \A c \in Consumers : consumers'[c] \in {"none", "ended"}
      /\ scan \in {"none", "ended"} => scan' \in {"none", "ended"}
  <2> USE DEF schedulerVars, scanVars
  <2>1. CASE \E c \in Consumers : TakeTask(c) \/ FinishTask(c) \/ ConsumerEnds(c)
    BY <2>1 DEF TakeTask, FinishTask, ConsumerEnds, TypeOK
  <2>2. CASE ScanWakes \/ ScanLoops \/ ScanThrows
    BY <2>2 DEF ScanWakes, ScanLoops, ScanThrows
  <2>3. CASE Request \/ Respond \/ UNCHANGED vars
    BY <2>3 DEF Request, Respond, vars
  <2>4. CASE RegisterSignals \/ CreateFactory \/ ConfigureServices \/ StartFails \/ StartupDone
    BY <2>4 DEF RegisterSignals, CreateFactory, ConfigureServices, StartFails, StartupDone
  <2>5. CASE BindAndListen \/ MainExits \/ StopServers \/ GetInstance \/ HandlerExits \/ Signal
    BY <2>5 DEF BindAndListen, MainExits, StopServers, GetInstance, HandlerExits, Signal
  <2>6. CASE \E p \in Stoppers : BeginStop(p) \/ EndStop(p)
    BY <2>6 DEF BeginStop, EndStop
  <2>7. QED
    BY <2>1, <2>2, <2>3, <2>4, <2>5, <2>6, Steps, Zenon
<1>2. CASE o = "task_scheduler"
  BY <1>1, <1>2 DEF ThreadsEnded
<1>3. CASE o = "file_batch_background_task"
  BY <1>1, <1>3 DEF ThreadsEnded
<1>4. CASE o = "db_migration"
  BY <1>4 DEF ThreadsEnded
<1>5. QED
  BY <1>2, <1>3, <1>4 DEF Managed

\* Main takes an object from its queue when its threads are joined.
LEMMA JoinedByMainStep ==
    TypeOK /\ JoinedByMain /\ [Next]_vars => JoinedByMain'
<1> SUFFICES ASSUME TypeOK, JoinedByMain, [Next]_vars, main' \in {"cleanup", "exited"},
                    NEW o \in Managed, o \notin toStop'["main"]
             PROVE  ThreadsEnded(o)'
  BY DEF JoinedByMain
<1>0. /\ toStop \in [Stoppers -> SUBSET Managed] /\ "main" \in Stoppers /\ "handler" \in Stoppers
      /\ "main" # "handler"
  BY DEF TypeOK, Stoppers
<1>1. ~ ConfigureScheduler /\ ~ StartNext
  BY DEF ConfigureScheduler, StartNext
<1>2. SUFFICES ThreadsEnded(o)
  BY <1>1, EndedStaysEnded
<1> USE DEF JoinedByMain, lifeVars
<1>3. CASE \E p \in Stoppers : EndStop(p)
  <2> PICK p \in Stoppers : EndStop(p)
    BY <1>3
  <2>1. main \in {"cleanup", "exited"}
    BY DEF EndStop
  <2>2. CASE o \notin toStop["main"]
    BY <2>1, <2>2
  <2>3. CASE o \in toStop["main"]
    <3>1. p = "main" /\ o = joining[p]
      BY <1>0, <2>3 DEF EndStop
    <3>2. QED
      BY <1>0, <3>1 DEF EndStop
  <2>4. QED
    BY <2>2, <2>3
<1>4. CASE BindAndListen
  BY <1>0, <1>4 DEF BindAndListen
<1>5. CASE GetInstance
  BY <1>0, <1>5 DEF GetInstance
<1>6. CASE /\ UNCHANGED toStop
           /\ main' = main \/ main = "cleanup" \/ main' \notin {"cleanup", "exited"}
  BY <1>6
<1>7. \/ \E p \in Stoppers : EndStop(p)
      \/ BindAndListen
      \/ GetInstance
      \/ /\ UNCHANGED toStop
         /\ main' = main \/ main = "cleanup" \/ main' \notin {"cleanup", "exited"}
  <2>1. CASE RegisterSignals \/ CreateFactory \/ ConfigureServices \/ StartFails \/ StartupDone
    BY <2>1 DEF RegisterSignals, CreateFactory, ConfigureServices, StartFails, StartupDone
  <2>2. CASE MainExits \/ StopServers \/ HandlerExits \/ Signal
    BY <2>2 DEF MainExits, StopServers, HandlerExits, Signal
  <2>3. CASE \E p \in Stoppers : BeginStop(p)
    BY <2>3 DEF BeginStop
  <2>4. CASE \E c \in Consumers : TakeTask(c) \/ FinishTask(c) \/ ConsumerEnds(c)
    BY <2>4 DEF TakeTask, FinishTask, ConsumerEnds
  <2>5. CASE ScanWakes \/ ScanLoops \/ ScanThrows \/ Request \/ Respond \/ UNCHANGED vars
    BY <2>5 DEF ScanWakes, ScanLoops, ScanThrows, Request, Respond, vars
  <2>6. QED
    BY <1>1, <2>1, <2>2, <2>3, <2>4, <2>5, Steps, Zenon
<1>8. QED
  BY <1>3, <1>4, <1>5, <1>6, <1>7

\* The handler too, as main was not joining anything when the signal came.
LEMMA JoinedByHandlerStep ==
    TypeOK /\ InterruptInv /\ JoinedByHandler /\ [Next]_vars => JoinedByHandler'
<1> SUFFICES ASSUME TypeOK, InterruptInv, JoinedByHandler, [Next]_vars,
                    handler' \in {"stop", "exited"}, interrupted' # "cleanup",
                    NEW o \in Managed, o \notin toStop'["handler"]
             PROVE  ThreadsEnded(o)'
  BY DEF JoinedByHandler
<1>0. /\ toStop \in [Stoppers -> SUBSET Managed] /\ "main" \in Stoppers /\ "handler" \in Stoppers
      /\ "main" # "handler"
  BY DEF TypeOK, Stoppers
<1>1. ~ ConfigureScheduler /\ ~ StartNext
  BY DEF ConfigureScheduler, StartNext, MainRuns
<1>2. SUFFICES ThreadsEnded(o)
  BY <1>1, EndedStaysEnded
<1> USE DEF JoinedByHandler, lifeVars, MainRuns
<1>3. CASE \E p \in Stoppers : EndStop(p)
  <2> PICK p \in Stoppers : EndStop(p)
    BY <1>3
  <2>1. handler \in {"stop", "exited"} /\ interrupted # "cleanup"
    BY DEF EndStop
  <2>2. CASE o \notin toStop["handler"]
    BY <2>1, <2>2
  <2>3. CASE o \in toStop["handler"]
    <3>1. p = "handler" /\ o = joining[p] /\ o # "none" /\ Alive
      BY <1>0, <2>3 DEF EndStop, Stopping
    <3>2. joining["main"] = "none"
      BY <2>1, <3>1 DEF InterruptInv, Alive
    <3>3. QED
      BY <1>0, <3>1, <3>2 DEF EndStop
  <2>4. QED
    BY <2>2, <2>3
<1>4. CASE BindAndListen \/ Signal
  BY <1>4 DEF BindAndListen, Signal
<1>5. CASE GetInstance
  BY <1>0, <1>5 DEF GetInstance
<1>6. CASE /\ UNCHANGED <<toStop, interrupted>>
           /\ handler' = handler \/ handler = "stop" \/ handler' \notin {"stop", "exited"}
  BY <1>6
<1>7. \/ \E p \in Stoppers : EndStop(p)
      \/ BindAndListen \/ Signal
      \/ GetInstance
      \/ /\ UNCHANGED <<toStop, interrupted>>
         /\ handler' = handler \/ handler = "stop" \/ handler' \notin {"stop", "exited"}
  <2>1. CASE RegisterSignals \/ CreateFactory \/ ConfigureServices \/ StartFails \/ StartupDone
    BY <2>1 DEF RegisterSignals, CreateFactory, ConfigureServices, StartFails, StartupDone
  <2>2. CASE MainExits \/ StopServers \/ HandlerExits
    BY <2>2 DEF MainExits, StopServers, HandlerExits
  <2>3. CASE \E p \in Stoppers : BeginStop(p)
    BY <2>3 DEF BeginStop
  <2>4. CASE \E c \in Consumers : TakeTask(c) \/ FinishTask(c) \/ ConsumerEnds(c)
    BY <2>4 DEF TakeTask, FinishTask, ConsumerEnds
  <2>5. CASE ScanWakes \/ ScanLoops \/ ScanThrows \/ Request \/ Respond \/ UNCHANGED vars
    BY <2>5 DEF ScanWakes, ScanLoops, ScanThrows, Request, Respond, vars
  <2>6. QED
    BY <1>1, <2>1, <2>2, <2>3, <2>4, <2>5, Steps, Zenon
<1>8. QED
  BY <1>3, <1>4, <1>5, <1>6, <1>7


\* The queues of a process that has exited do not change.
LEMMA ExitStep ==
    TypeOK /\ ExitInv /\ [Next]_vars => ExitInv'
<1> SUFFICES ASSUME TypeOK, ExitInv, [Next]_vars PROVE ExitInv'
  OBVIOUS
<1>0. toStop \in [Stoppers -> SUBSET Managed] /\ "main" \in Stoppers /\ "handler" \in Stoppers
  BY DEF TypeOK, Stoppers
<1> USE DEF ExitInv, lifeVars, MainRuns, Alive
<1>1. CASE RegisterSignals \/ CreateFactory \/ ConfigureScheduler \/ ConfigureServices
  BY <1>1 DEF RegisterSignals, CreateFactory, ConfigureScheduler, ConfigureServices
<1>2. CASE StartNext \/ StartFails \/ StartupDone \/ MainExits
  BY <1>2 DEF StartNext, StartFails, StartupDone, MainExits
<1>3. CASE BindAndListen
  BY <1>0, <1>3 DEF BindAndListen
<1>4. CASE StopServers \/ HandlerExits \/ Signal
  BY <1>4 DEF StopServers, HandlerExits, Signal
<1>5. CASE GetInstance
  BY <1>0, <1>5 DEF GetInstance
<1>6. ASSUME NEW p \in Stoppers, BeginStop(p) PROVE ExitInv'
  BY <1>6 DEF BeginStop
<1>7. ASSUME NEW p \in Stoppers, EndStop(p) PROVE ExitInv'
  BY <1>0, <1>7 DEF EndStop
<1>8. ASSUME NEW c \in Consumers, TakeTask(c) \/ FinishTask(c) \/ ConsumerEnds(c)
      PROVE  ExitInv'
  BY <1>8 DEF TakeTask, FinishTask, ConsumerEnds
<1>9. CASE ScanWakes \/ ScanLoops \/ ScanThrows \/ Request \/ Respond
  BY <1>9 DEF ScanWakes, ScanLoops, ScanThrows, Request, Respond
<1>10. CASE UNCHANGED vars
  BY <1>10 DEF vars
<1>11. QED
  BY <1>1, <1>2, <1>3, <1>4, <1>5, <1>6, <1>7, <1>8, <1>9, <1>10, Steps, Zenon

\* When main returns, or the signal handler exits after a signal that did not
\* come during the cleanup, the consumers of both Starts of the scheduler and
\* the thread of the scan have ended.
THEOREM ExitAfterJoin == Spec => []NoThreadAtExit
<1>1. Init => InterruptInv /\ JoinedByMain /\ JoinedByHandler /\ ExitInv
  BY DEF Init, InterruptInv, JoinedByMain, JoinedByHandler, ExitInv, Stoppers
<1>2. JoinedByMain /\ JoinedByHandler /\ ExitInv => NoThreadAtExit
  BY DEF JoinedByMain, JoinedByHandler, ExitInv, NoThreadAtExit, Managed
<1>3. QED
  BY <1>1, <1>2, InterruptStep, JoinedByMainStep, JoinedByHandlerStep, ExitStep,
     ApplicationTypes, PTL DEF Spec

===============================================================================
