# A TLA+ development of instinct.cpp

instinct.cpp is a C++ framework for LLM applications. Its main product is
`mini-assistant`, a server with the OpenAI Assistant API v2: clients create
threads, messages, runs, files and vector stores over HTTP; a thread pool
executes runs and ingests files in the background; everything is kept in DuckDB.

This directory models the program from the HTTP routes down to the rows, and
the library under it: agents, model clients, retrieval and the pure algorithms.
TLC checks the models on small instances, TLAPS proves the safety properties of
the scheduler, runs, pool, file batches, services, process, retrieval, model
clients and vault for all sizes. `PROJECT.json` maps every definition to the lines
it models and lists runs, findings, hazards and theorems.

Paths below are relative to `src/modules/`; `assistant/` abbreviates
`instinct-assistant/include/assistant/v2/`.

## 1. The system

### Components, their state and their operations

| Component | State | Operations | Modelled in |
|---|---|---|---|
| Task scheduler (`instinct-data/include/task_scheduler/`) | `running_`, consumer threads, handler list, in-memory queue | `Enqueue`, `Start`, `Stop`, `Terminate`, `RegisterHandler`, `RemoveHandler`, the consumer loop with `HandleTask_` | TaskScheduler, TaskDelivery |
| Run service (`assistant/service/impl/RunServiceImpl.hpp`) | rows of runs and run steps | `CreateRun`, `CancelRun`, `SubmitToolOutputs`, `ModifyRun`, `ModifyRunStep`, listing | RunLifecycle |
| Run execution (`assistant/task_handler/RunObjectTaskHandler.hpp`) | locals of one `Handle` call, the same rows | recovery of the agent state, callbacks for continuation, pause, observation and finish, the stop predicate | RunLifecycle |
| Agent executors and planners (`instinct-llm/include/agent/`) | the agent state, futures of the worker's thread pool | `Stream`, `ResolveNextStep`, `FindNextTasks`, the worker's `Invoke`, the joiner, replanning | AgentPlanning; persistence of the steps in RunLifecycle |
| Connection pool (`instinct-data/include/database/BaseConnectionPool.hpp`) | a deque of connections, a mutex, a condition variable | `Initialize`, `TryAcquire`, `Acquire`, `Release` | ConnectionPool |
| Vector store service (`assistant/service/impl/VectorStoreServiceImpl.hpp`) | rows of stores, files and batches | create, cancel, delete, count, list | VectorStoreFiles (batches and deletions) |
| File ingestion (`assistant/task_handler/FileObjectTaskHandler.hpp`, `FileBatchObjectBackgroundTask.hpp`) | locals of `Handle`, documents in the retriever, `sanity_check_at` | ingest one file; scan pending batches | VectorStoreFiles |
| Assistant, thread, message and file services, object store, id generator | rows, objects on disk, the generator's sequence | create, modify, delete, list in pages, upload, download | AssistantApi |
| HTTP server and controllers (`instinct-server`, `assistant/endpoint/`) | the list of routes, requests in flight | route, check, answer, listen, stop | HttpRoutes, AssistantApi, Application |
| Application context, lifecycle, migration (`mini-assistant.cpp`, `ManagedApplicationContext.hpp`) | managed objects and their threads | configure, `Startup`, `Shutdown`, the signal handler | Application |
| Retriever operator, retrievers, DuckDB stores, ingestors (`instinct-retrieval`) | the shared document store, a table and a metadata row per instance | provision, ingest, remove, search, clean up | Retrieval, DocumentStore, SqlFilter |
| HTTP client, chat and embedding models | requests under way, a line buffer, a thread pool | `Execute`, `StreamChunk`, `ExecuteBatch`, `Invoke`, `Stream`, `EmbedDocuments` | ModelClient, ModelConfig |
| File vault (`instinct-core/include/tools/file_vault/`) | two files per resource, two mutexes | `GetResource`, `CheckResource`, `DeleteResource` | FileVault |
| Chaining functions, chains, prompts, chat memory | a mutable JSON context, the memory | invoke, batch, load and save memory | Chains |
| Text splitters; summary and citation chains | none (pure) | split, merge; reduce, annotate | TextSplit, Summary |
| Tokenizers, rankers, transformer inference, doc-agent | none that others see | numeric code, tables, a command line | left out |

### How they interact

* An HTTP thread calls a service. The service writes rows, one statement at a
  time and without a transaction, then calls `Enqueue` with a *serialised
  snapshot* of a row.
* A consumer thread of the scheduler takes the task and calls the handler whose
  `Accept` matches. The handler reads and writes the same rows, through the same
  services, while other HTTP requests go on.
* The file batch background task wakes up every ten seconds, on a thread of its
  own, and reads and writes the rows of batches.
* Every statement of every thread borrows a connection from one pool.
* There are no locks between these actors: whatever is guaranteed is guaranteed
  by the order of statements and by checks of a status column.

### Which behaviours are hard

Checks that are stale when they are used (a cancellation between a status check
and the write that follows), two requests for the same object, cascading
deletions without a transaction, a row and an object kept in two stores, the last
of several handlers that must close a batch, process crashes with an in-memory
queue, exceptions between two statements, shutdown beside blocked consumers and
signals in the middle of main, lost notifications and a data race in `Release`,
streamed answers cut anywhere, batches abandoned at a time-out, and things that
must eventually happen (a queued task, a queued run, a batch in progress, an
agent's end, the end of the process). `PROJECT.json` lists them as hazards with
the line where each one bites.

### What makes each component correct

* Scheduler: no task lost or handled twice, every task reported, nobody alive
  after a shutdown, a shutdown ends, a queued task is taken.
* Run: never stalled without a reason, a completed run has its answer; and unless
  two submissions overlap, executed by one consumer at a time, a pause can be
  answered, an end is an end.
* Pool: a connection belongs to one thread or to the pool, until two releases
  overlap.
* File batch: closed by whoever finishes last, finished and cancelled files are
  left alone, no batch stays in progress.
* Services: a file row has its object, a deleted thread leaves nothing that was
  there, a deletion is confirmed once, pages from the oldest message on skip only
  what the cursor has passed, every documented endpoint but three is served by its
  handler.
* Application: nothing queries before the migration, no managed thread survives
  the exit, a signal ends the process.
* Retrieval: what was ingested has a row that a search can find, what was removed
  is gone, a listed instance can be opened.
* Agents: a task gets the results it refers to if numbers are not shared, no answer
  before the plan is carried out, every execution ends or pauses.
* Clients: a stream is the server's text without any "data: " in it, a batch leaves
  nothing behind when it returns, a cached file is whole.
* Pure parts: the SQL means the filter, chunks keep the text, a request has the
  settings made last, a stored document is read back whole, a summary covers its
  sources, the memory is the conversation.

## 2. Modules

| Module | What it is |
|---|---|
| TaskDelivery | abstract: the life of a task as `ITaskScheduler` promises it |
| TaskScheduler | `ThreadPoolTaskScheduler`, `InProcessTaskQueue`, `BaseTaskScheduler`; implements TaskDelivery |
| RunLifecycle | one run: service, consumers, executor loop, callbacks |
| ConnectionPool | `BaseConnectionPool` and the threads that use it |
| VectorStoreFiles | one file batch: service, handlers, background scan |
| HttpRoutes | the routes of all controllers in the order of registration |
| AssistantApi | the other services, statement by statement; uses HttpRoutes |
| Application | the process from main to its exit |
| Retrieval | vector store instances, ingestion, removal and search |
| AgentPlanning | the three agent executors, the task graph, the worker |
| ModelClient, FileVault | models over HTTP; the cache of downloads |
| ModelConfig | a model object: the factory, its overrides, the requests it sends |
| SqlFilter, DocumentStore, TextSplit, Summary, Chains | pure algorithms, and the chains with their memory |
| *X*Proofs | theorems about module *X*; ModelClientProofs has those about FileVault and ModelConfig, too, and TaskSchedulerProofs those about AgentPlanning |
| MC*X* | the instance of *X* for TLC; MCModelClient (ModelClient, FileVault or ConnectionPool) and MCAlgorithms put several modules into one run |

Definitions marked "Mutant" are plausible bugs of the definition that follows
them. They are not part of the specification; each one shows that a property
would notice that bug.

### TaskScheduler

`thread[th]` is a consumer's place in the loop (`test` running_, `dequeue`,
`handle`, `exited`); `cur`, `pos`, `handled` and `hasException` are the locals
of `HandleTask_`. One step of `VisitHandler` is one iteration over the handler
list: `Rejects`, `AcceptThrows`, `HandleReturns` or `HandleThrows`, with the
callbacks each of them makes. `BeginTerminate` sets
`running_`, `FinishTerminate` joins all threads and drains the queue: to the
caller (`Terminate`) or to nobody (`Stop`, which drops the future). `Start` may
be called again while the scheduler runs, as mini-assistant does. The queue is a
set, because moodycamel's queue orders the tasks of one producer only. The plain
vectors `task_handlers_` and `consumer_threads_` are not protected; the guards
marked `[caller]` say what callers do to stay out of that race.

`enqueued`, `finished`, `returned`, `discarded`, `calls` and `reports` are
history variables.

### RunLifecycle

`status`, `required` and `steps` are the columns that control reads. `queue`
holds the statuses inside the task payloads: `Handle` tests the *snapshot*, not
the row. `worker[w]` holds the locals of one `Handle` call; its `pc` names the
next database statement, so every statement of every callback interleaves with
the other actors. The model and the tools are a choice: a round of tool calls is
all built-in, all the user's, mixed or empty; outputs are absent, blank or full.
`CancelRun`, `SubmitToolOutputs` (five statements), `DeleteAssistant` and
`Crash` are the environment. `RetrieveLastRunStep_` returns the *oldest* step,
as the code does: it takes the last row of a descending list. `abandoned`
records the ways in which a `Handle` call returned without closing the run.

Any number of clients submit outputs, each with the five statements of its own
request, so that two can pass the status check before either writes. `overlaps`
counts the submissions that began beside another one. SingleExecution,
PauseIsAnswerable and TerminalIsFinal are about the time before the first of them;
the other properties hold after it, too.

Tasks obey TaskDelivery: each is taken once, by any idle consumer. That is the
composition with the scheduler: RunLifecycle and VectorStoreFiles use the
abstract contract, and TaskScheduler is shown to implement it.

### ConnectionPool

`pool_` is the deque, `mutex` the owner of `mutex_`, `pc` the place of a thread
in `TryAcquire` and `Release`. Between the empty test and the wait there is a
step, because `Release` does not take the mutex: a notification can get lost
there. Time-outs and spurious wake-ups can happen at any time. Two overlapping
`push_back`s are undefined behaviour: `RacyPush` chooses among the outcomes
(both stored, one lost, a slot with garbage). Nothing keeps releases apart, in the
code or in the model; `overlapped` records that two have met, and nothing is claimed
of the connections from then on.

### VectorStoreFiles

`file`, `batch`, `checked`, `store` and `retriever` are the rows, `docs` the
files with documents in the doc store. `Handle` is nine actions: it takes the
task and checks the status, marks the file, opens the store, ingests and
summarises (any of which may fail, with documents left behind), checks again,
finishes the file, counts, and updates the batch. The scan lists one page, since
`has_more` is never set, takes the status of the last file in the page that is
not completed (the order of the page is open), removes documents and closes the
batch. Deleting a store takes five statements; a scan for a batch whose
retriever is gone throws out of its thread, which ends the process
(`ScannerThrows`).

### HttpRoutes and AssistantApi

HttpRoutes is the list of routes as the controllers register them, with the
matching of patterns that `httplib` does (external): the first match wins.

In AssistantApi a service function is the sequence of its SQL statements and
object store calls, and each of them is an action: `DeleteThread`, for instance,
is `CheckActiveRuns`, `DeleteManyRuns`, `DeleteManyRunSteps`,
`DeleteManyMessages`, `DeleteThreadRow`. A worker holds the statements that are
left (`todo`), the ids it drew and the target of its request. `rows` has the rows
of six tables with the columns that control reads; `at` is the creation time.
The id generator is used without a lock, so `NextID` is a read and a write.
The messages of one request have an id each, and one statement inserts them all with
the same `at`. A request arrives for an endpoint of the documentation and is routed:
without a route the answer is 404, with a parameter that the handler misses 500, and
both are kept as what became of the request. Others end early with 404, 500 or 400
as the controllers do. A consumer executes queued runs with
the same services, and a client reads the messages of a thread in pages: `ORDER BY
created_at` with a cursor that compares ids, where rows of the same time come in any
order. At the
start there are an assistant, a file, and a thread with two messages. `issued`,
`claims` and `cut` are history variables.

### Application

`main` is the place of the main thread. A signal suspends main and its handler
runs on main's thread, hence `MainRuns`; the consumers, the scan and HTTP workers
go on. `toStart` and `toStop` are the priority queues of `Startup` and
`Shutdown`. `GetInstance` inside the handler meets a factory that is not there
(the process ends), a `call_once` that main is in (it waits for ever), or an
instance. A `join` of a thread that main is joining fails and is ignored, as
`Shutdown` ignores all exceptions.

### Retrieval

`docs` is the document store that all stores share, `chunks` the rows of the
embedding tables, `tables` and `meta` the two parts of an instance. A thread
carries out one operation, statement by statement. Metadata is a list in which a
name may occur twice: reading takes the first, writing a row takes the last.
Ingestors turn pages of paragraphs into documents, and guidance documents
(chunks, a summary, queries) are what is embedded. A model may answer with no query
at all; `silent` has the documents for which that happened. A search has the limit
of the request, the default or none that the store accepts, and any rows of that
number may be the nearest ones. `alone` records whether another
operation overlapped that destroys what this one makes; the promises are about
operations for which it did not.

### AgentPlanning

A state of the agent is a conversation of the planner, a graph of tasks and the
calls in flight. The executor plans, requests the tasks whose references have
results, waits for the futures of the worker's thread pool, pauses for the
user's tools, joins and plans again. A plan is what the output parser reads from
the model's text, with its limits: references have one digit, ids may have gaps or
be used twice, and a join that the parser adds takes the number after the count of
the actions, whoever has it. The text of a model may be empty. A tool fails, answers, or answers with blanks; its retries are counted.

### ModelClient and FileVault

A caller performs one operation: a plain request, a stream or a batch. A server's
answer is a body of lines; the network delivers it in pieces cut anywhere and may
lose the rest. `Receive` is a call of curl's write callback up to its loop, and
`EmitLine` one turn of that loop, which the next chunk cannot overtake. The line
buffer, the sentinel, the removal of every "data: " in a line and the order of error
and data are those of the code. A batch runs on a pool with `MaxParallel` threads
and may time out. FileVault has the two files of one resource and the two mutexes. The
mutex of a resource is looked up in an unordered map, and inserted if it is missing,
without a lock: `LookUpMutex` and `InsertMutex` are separate steps, and of two first
callers that both insert, one may be left with a mutex that nobody else has (`own`).
`insertRaced` records it. Fetching writes a temporary file, verifies it, may try again, moves it and writes
the metadata in two steps.

### ModelConfig

`llm` is a model object: what it was asked for with and the configuration it has.
`CreateModel` is the factory with the loader of the provider: the provider's own
record comes first, the options of the application are copied over it, and the
environment fills what is left; a local model is never made. `ConfigureModel` a
call of `Configure`, and `BuildAgentExecutor` what `RunObjectTaskHandler` does with
the choices of an assistant and of a run. A setting is represented by where it came
from. `made` is a history of the overrides: the handler makes one call, which the
history has as three, the assistant's, the run's and the agent's stop words, so that
the property compares the merge with what it is meant to do. `Send` is the request
and its URL in a given state.

### Pure modules

SqlFilter, DocumentStore, TextSplit and Summary are functions of their input: what
the code computes, and a reference that says what it should. Chains adds a memory
that lives across invocations. MCAlgorithms has one initial state per input, an
empty conversation on which chains are invoked, or a model that is about to be
made.

## 3. Runs

| Run | Instance | What it shows |
|---|---|---|
| TaskScheduler | 2 tasks (one that both handlers accept, one that one of them accepts), 2 handlers, 2 threads | TaskConservation; StoppedMeansJoined; the refinement ImplementsTaskDelivery; with fairness TerminateReturns and QueuedIsTaken |
| RunLifecycle | 2 consumers, 2 clients, 3 tool rounds (1 once submissions have overlapped), 1 overlap, 1 cancellation, 1 crash, the assistant may vanish | TypeOK; SingleExecution; NoSilentStall; PauseIsAnswerable; CompletedHasAnswer; TerminalIsFinal; with fairness QueuedRunSettles |
| VectorStoreFiles | 2 files, 2 consumers, 2 requests, 1 crash | LastHandlerClosesBatch; FailureHasCause; FinishedFileIsFinal; CancelledBeforeStartIsKept; with fairness BatchSettles |
| AssistantApi | 2 workers, 2 requests for any endpoint, a consumer, requests with 0 or 2 messages, pages of 1 in ascending order, 1 crash | RowHasObject; HandlerIsIntended; OrphansAreLate; DeletionClaimedOnce; PagesCoverRows |
| Application | 2 consumers per `Start`, 2 tasks, 2 requests in flight, a signal anywhere | UsersHaveTables; NoThreadAtExit; with fairness SignalEndsProcess |
| Retrieval | 2 stores (one provisioned), 3 files (one without an ingestor), 2 threads, 4 operations, batches of 1, chunks in one store and summaries or up to 1 query in the other, limits of 1, 2 and 4, a search by filter that fails at its limit, 1 crash | IngestedIsRetrievable; RemovedIsGone; ListedInstanceHasTable |
| AgentPlanning | 3 patterns, 10 plans, 2 toolkits, 2 attempts per tool, 3 plans per execution, 1 blank result | PlanIsFollowed; with fairness AgentEnds |
| ModelClient | 2 callers with 10 operations and 5 bodies, 2 parallel requests; a vault with 3 threads, 1 deletion, 1 crash; a pool with 4 threads and 2 connections | StreamIsFaithful; BatchQuiesces; VaultEntryIsWhole; EachConnectionOnce |
| Algorithms | filters two levels deep on six rows, texts of up to 6 characters, model configurations of four providers (options, own record, environment) with up to 2 overrides, batches of documents, texts to summarise, 2 invocations | FilterIsQuery; SplitsKeepText; RequestIsConfigured; StoredDocumentIsWhole; SummaryCoversSources; MemoryIsConversation |

Three runs exhibit a disagreement between the code and what its comments or its
interface definition say; TLC finds the behaviour.

| Run | What is said | What happens |
|---|---|---|
| RunCancelKept | "task handler will checkout status in loop and abort if run is cancelled" | the status write of `Handle` or of a callback overwrites `cancelling` |
| MixedToolCalls | "only execute tool call that has matching tools in worker" | the worker indexes the filtered list with positions of the whole one; the execution fails instead of pausing for the user's tools |
| DescendingPages | "your subsequent call can include after=obj_foo in order to fetch the next page of the list" | the cursor asks for larger ids in every order, so that in the default, descending one the next page has no older messages |

TaskScheduler is checked for deadlock. In the others the
system really may stop: a run, a batch, a process, an agent and an operation come
to their end, and the bounds on requests and operations are used up.

### Bounds, and why they are enough

* Two consumers, two tasks, two handlers: conflicts between consumers are
  pairwise, and with one thread per `Start` the repeated `Start` happens with
  two threads. A task accepted by both handlers lets one handler throw after the
  other handled it; the theorems drop the bound.
* Three tool rounds: the confusion of oldest and newest step begins in the
  second, and its consequence for recovery in the third. Two clients and one overlap
  let two submissions for one pause start two executions of the run; `OverlapRounds`
  bounds how often these pause again, `MaxOverlaps` that further submissions join in.
  What they do to TypeOK, NoSilentStall, CompletedHasAnswer and QueuedRunSettles
  happens in the first round after. The theorems have no such bounds.
* Four threads and two connections: two can hold a connection while two wait,
  one of them with a lost notification.
* Two files and two consumers: "the last one out" is a question about two
  handlers that finish at the same time. Two requests let a cancellation and a
  deletion, or two deletions, fall anywhere. With a page of two rows a page can
  hold one bad file and one in progress; LastHandlerClosesBatch is proved for all
  sizes.
* Two requests of the API: the properties relate a deletion to one other request,
  and the rows of the initial state give each request something to delete. A run
  created by a request is executed beside the other one. Two messages and pages
  of one make a second page; a request with two messages makes a tie between times.
* Two consumers per `Start`: the second `Start` doubles them, and consumers of
  both are joined. One signal: a second one while the handler runs is blocked.
* Four retrieval operations: provision, ingest, remove and a search or a second
  ingestion; batches of one document make an ingestion take several transactions. A
  limit of 1 is less than the rows of a file, and one of 4 is not.
* Ten plans: independent tasks that feed a third, a user's task that feeds a
  local one, local and user tools side by side, a join alone, gaps and a two-digit
  reference, an unknown reference in a chain, a task that waits for ever, a number that is
  used twice, a join that is added under a used number, the empty plan. A failing tool needs two attempts, replanning more than one plan.
* One crash: after it only rows and files are left, and no code restores anything
  from them, so that a second crash meets the same situation.

### Fairness

Weak fairness is assumed of consumer threads, of the join in `Terminate`, of the
remaining statements of an accepted request, of the background scan, of the signal
handler and the shutdown it performs, and of the executor and the tools of an
agent. The code justifies it: the operating system schedules runnable threads, a
consumer blocks for at most three seconds in `wait_dequeue_timed`, the scan sleeps
for a fixed interval, and a handler returns if the model and the tools do (a call
that never returns is outside of these models). Nothing is assumed of clients,
signals, cancellation, deletion, crashes or of the outcome of a handler.
QueuedRunSettles holds because rounds are bounded by `MaxRounds`, and AgentEnds
because plans and blank results are bounded by `MaxPlans` and `MaxBlanks`: they
stand for a model that does not ask for tools for ever.

## 4. Proofs

Every theorem holds for arbitrary constants that satisfy the named assumptions
(SchedulerAssumption, RunAssumption, PoolAssumption, FilesAssumption,
ApiAssumption, ApplicationAssumption, ModelClientAssumption,
FileVaultAssumption, RetrievalAssumption, AgentPlanningAssumption,
ConfigAssumption: bounds are
naturals, sets that are counted are finite, inputs have their types, the "none"
values are not elements). No theorem has another hypothesis. Where the code keeps a
promise only until something happens that it does not prevent (two submissions or two
releases that overlap, two first callers of the vault, a number used twice), that is
part of the property, and a history variable or the state says whether it happened.
Each inductive invariant below was an invariant of the component's run in TLC before
it was proved.

**TaskScheduler.** TypeCorrect carries HandMatchesPC along: a thread has a task
exactly while it is handling. With it TaskConservation is inductive
(Conservation): every action moves one task from one place to another, and a
drain moves all queued ones. QuietAfterShutdown uses ShutdownInv (a call that is
between its two halves has cleared `running_`). AtMostOnce needs CallsInv: a
handler has run for a task only if the task is finished, or in hand and the
handler is behind the thread's position. ReportsAreExact needs ReportsInv, which
ties `handled` and `hasException` of the thread that holds a task to what was
reported. Refinement shows step by step that TaskScheduler implements
TaskDelivery under the mapping StatusOf; conservation makes the cases of the
mapping exclusive.

**RunLifecycle.** RunTypeCorrect carries BornFirst: before the row exists nobody
has anything to enqueue or submit. AnswerBeforeCompletion proves
CompletedHasAnswer from AnswerInv: whoever is about to write `completed` has
inserted the answer before. Step rows are never deleted and keep type and round
(Keeps), so the answer stays whatever other consumers, cancellations and crashes
do. Hence the theorem also covers a run that is executed several times at once.

The second part is about who executes a run. NoSilentStallHolds needs EndingInv
(the ending a consumer carries is one its place in `Handle` allows) and StallInv: a
run that is queued or in progress has somebody busy with it (the creator, a queued
task, a submission past its checks, a consumer), or an entry in `abandoned`. Every
action hands that role on or records why not, for overlapping submissions as well.
The other three theorems are about any number of clients until two submissions
overlap. Beyond that they would be false: two callers can both pass the status check
before either writes (`RunServiceImpl.hpp:266`), then two tasks are queued, and the one
that finishes late overwrites the status the other one wrote. TokenInv says that
OneToken holds as long as `overlaps` is 0: the creator's enqueue, the task, the
submission and the consumer at work are at most one altogether, only a submission if
the run waits for the user, and none if it has ended. It is inductive because a second
submission can only begin as an overlap (OverlapsStay). That gives SingleExecutionHolds and TerminalIsFinalHolds.
PauseIsAnswerableHolds adds PauseInv and AskingInv: between the write of the tool
step and the write of `requires_action` the newest step stays the open one of the
current round, because the only token is in the hand of the consumer that writes
both.

**ConnectionPool.** MutexDiscipline holds whatever releases do.
ConnectionsAreExclusive follows from PoolUntilOverlap: until two releases have
overlapped, owners are exactly the running statements, the pool has no duplicates and
at most one thread is in `push_back`, beside any number in `TryAcquire`. After an
overlap `RacyPush` can lose a released connection.

**VectorStoreFiles.** FilesTypeCorrect carries LocalOK and ScanOK (a handler at
work has a file, and a status when it is to write one). LastOneOut proves
LastHandlerClosesBatch from LastInv: rows come before tasks (RowsFirst), a
cancellation settles the batch before it touches files (CancelSettles), a file in
progress has a task that is about to be enqueued, queued or in hand (Owned), and a batch in
progress without a file in progress has a handler about to count or to write
(Closing). Owned alone says nothing about the batch and Closing alone is not
inductive: a handler that leaves because it saw a file in progress relies on that
file's own handler.

FinishedIsFinal and CancelledIsKept rest on OneTask: a file has one task in its
life, which is to be enqueued, queued or in the hand of one handler, and it is not
left when the file is finished. FailureCause rests on CauseInv: a scan or a handler
that is about to write `failed` has seen a file that failed, and that file can
since only have been deleted. Neither is inductive without OneTask, because a
second task for the same file could turn `failed` into `completed`.

**Application.** TablesBeforeUse: the consumers that the first `Start` makes,
before the migration, have nothing to take, because requests are what enqueues
tasks and the server starts after the migration; the scan starts after it, too
(MigrationInv, by the priorities of the managed objects). ExitAfterJoin has one
invariant for each way out. JoinedByMain: when main is past a component in
`Shutdown`, that component's threads have ended. JoinedByHandler says the same of
the signal handler, unless the signal came during the clean-up, where the join that
main is in makes the handler's fail. InterruptInv ties the place at which main was
interrupted to the handler's state, and ExitInv says who has exited.

**AssistantApi.** ApiInvariant has three parts. ThreadInv: a thread is in the
middle of one of the programs of Program, so that what is left to do tells which
statements came before; the lemmas about the order of the statements (the object
before the row, the row before the object, contents before the thread) are read off
the programs once. OwnedInv is about ids. An id that one request has drawn, and that
the unlocked generator did not give to a second one, is unknown to everybody else
until its row is inserted (FreshInv), the object of a file is there from before its
row until after (ObjectInv), and nobody has claimed the deletion of a row that is
still there, nor that of a file whose row one request has just removed (ClaimInv).
RowHasObject and DeletionClaimedOnce are conjuncts of it: they are not inductive
without FreshInv, since a second owner of the id could insert the row again.
SweepInv: of the rows that were in a thread when its deletion began, those of the
kinds that have been swept are gone. OrphansAreLate follows when the thread's own
row goes. It needs TimeInv, since it compares times of creation.

**ModelClient.** ClientInvariant is one invariant per caller, and one of the pool.
StreamsAreFaithful rests on ReadTo: after k lines were handed on, the buffer holds
the bytes of the answer between the end of line k and the last byte received
(IsWindow), the subscriber has k results unless it has seen the sentinel, and these
are what the answer is worth: the payload of each line after every "data: " in it is
removed, as `StripDataStreamPrefix` does. A breaker in the buffer is then the end of line k + 1
wherever the chunks were cut, two-byte breakers included, and what is left at the
end of the answer is blank or the last line. BatchesQuiesce rests on PoolInv and
BatchInv: what is queued in the pool belongs to a batch that has not returned, each
request once, and a batch returns only when every request is answered, which the
destructor of the futures enforces after a time-out.

**FileVault.** VaultEntriesWhole follows from VaultInv. Whoever is inside
`GetResource` has the resource's mutex, except for those to whom a racing insertion
gave one of their own (MutexInv). What is about to be moved into place was not cut off
and has passed the checksum (ContentInv): this needs no mutual exclusion, since each
download has a temporary file of its own. While nobody deletes and no insertion raced
(Calm), files are replaced only if no entry has been handed out (EntryInv).

**ModelConfig.** RequestsAreConfigured proves RequestIsConfigured from ConfigInv: a
model has the settings that the factory made it with, except for the last override
of each setting that its provider knows. What the factory makes of an application's
options, the provider's own record and the environment is one lemma over all of its
branches (FactoryIs; the two records are independent, so that a dropped copy or a
blank that overwrites a setting is told apart), and a
call of `Configure` adds one override to the history (OverrideAdded: the last one is
the new one where it is set, the previous one where it is not). That the one call of
`BuildAgentExecutor` is worth three overrides is BuildKeeps. The proof needed an
exception that TLC's instance does not show: a stream of OpenAI's text model, which
takes the factory's options as they are, is refused without a protocol.

**Retrieval.** ListedHasTable needs no hypothesis. InstanceInv has the shape of a
thread's locals at each place (ShapeInv, PcInv), one thread at a time in a
provision (OneProvision), the table before the row (TableIsFirst), and that what a
thread opened or what is listed is not being provisioned any more (OpenedIsSettled,
ListedIsSettled). RemovedStaysGone and IngestedStaysRetrievable relate two
operations: an operation that is `alone` knows that no other thread is at a
statement that spoils it (AloneInv), so that the rows it has written or deleted so
far stay as they are (PendingInv, CleanInv) and the promise made at its end is kept
until somebody withdraws it (FoundInv, RemovedIsQuiet). What is promised of a document
is a row that leads to it, which a search finds when its limit reaches that row, unless
the document is `silent`. InputInv says which
documents a thread carries: those of its own file and store.

That InputInv holds where an ingestion begins is OriginIsKept: loading and
splitting any file gives documents with text and with metadata that names the file
and the store. Ingestors flatten pages and drop blank paragraphs, so this is an
induction over their number. The library's induction theorems cannot be cited, but
an induction over one property can be written out: the numbers that have the
property are a set with 0 that is closed under the successor, and the least number
outside of it would have a predecessor inside. The flattening operator is defined
by a function of which nothing but its equation is known, so the same argument
shows first that a table with this equation exists.

**Paging** (AssistantApiProofs). PagesAreComplete proves PagesCoverRows for any
page size and number of messages, with requests that insert and delete between two
pages, for ids in any order and any ties between creation times. A page is ordered by
time and the cursor compares ids, so that a message can be passed: Overtaken says by
what, a message that was shown, is not later, and does not have the smaller id.
ClockInv says that messages have times in the past (several may have the same, since
the insertion of a request gives its messages one, InsertManyKeeps); BasisInv that
what was there at the start is known; CursorInv that every such message that is still
there is behind the cursor, seen or overtaken. It is kept because a page has the first
rows behind the cursor (FirstsAre, and PagesAre for the row more that is fetched and
dropped): a row that is left out is not earlier than any of the page, and if the new
cursor passes it, the row of the cursor has overtaken it.

**Agents** (TaskSchedulerProofs). AgentInv says of the latest step that the tasks of
its graph depend on the ones they refer to, that if something of it was requested one
of them depends on nothing (Rooted), that each call has, for every one-digit reference
to a number that one task has (OwnNumber), the result of that task, and that results
are awaited only of calls that were made. A number of its own is what makes
`BuildToolCallRequest` look up the task that is meant, and a rooted graph is why a
plan that is given up has a step to be shown to the planner, if its numbers differ
(NumbersApart). Which tasks `FindNextTasks` selects is the lemma SelectedIs, an
induction over the graph. PlansAreFollowed follows, for any plans. The planner's prompt
asks of the model "Each action MUST have a unique ID, which is strictly increasing"
(`LLMCompilerPlaner.hpp:46`), but no code checks it, and the parser itself adds a join
under a number that an action may have: then nothing is claimed of the tasks that
share it. The final answer of a joiner is not empty because an empty one is not
taken for an answer, while answers without a plan may be empty.

AtMostOnce, ReportsAreExact and MutexDiscipline, and the type invariants other than
that of RunLifecycle, are proved and have no run of their own.

### Only model-checked

* Everything that needs fairness: TerminateReturns, QueuedIsTaken,
  QueuedRunSettles, BatchSettles, SignalEndsProcess, AgentEnds.
* HandlerIsIntended of AssistantApi: it depends on nothing but the routes, which are
  constants, and on the endpoints of the documentation, so that TLC's evaluation with
  every endpoint is the whole of it.
* The pure modules, on bounded inputs: FilterIsQuery, SplitsKeepText,
  StoredDocumentIsWhole, SummaryCoversSources and MemoryIsConversation. TextSplit,
  SqlFilter, Summary and Chains follow the code's recursion with recursive operators,
  about which the provers cannot be asked anything. StoredDocumentIsWhole is a
  statement about the schemas of the run: for others it can fail (section 5).
* The three disagreements of section 3, which are counterexamples.

## 5. What the code does not meet, and what is not modelled

### Where the models except something

The passing properties are stated for what the code achieves. Where it falls short
of what a reader might expect, the model shows it and the property excepts it:

* `RunObjectTaskHandler.hpp`: an early stop replays the previous callback instead
  of writing `cancelled` (146, 400); from the second tool round on the oldest step
  is updated (668, 800); `expires_at` is written and never read (105). NoSilentStall
  lists the ways in which a run is left open.
* `RunServiceImpl.hpp:266`: two submissions for one pause can both pass the check and
  execute the run twice; the late execution then overwrites the end that the other
  has written, and appends steps of its own. SingleExecution, TerminalIsFinal and
  PauseIsAnswerable are about runs in which that has not happened.
* `BaseConnectionPool.hpp`: a notification between the empty test and the wait is
  lost (59), and a time-out does not look at the pool again; overlapping releases
  are undefined, and a connection may be lost or doubled (94), so that
  EachConnectionOnce ends there; the idle time is never positive (71).
* `FileBatchObjectBackgroundTask.hpp`: the scan cleans up by a stale listing (143),
  so that documents of a cancelled file may stay; a scan for a deleted store ends
  the process (109).
* `ThreadServiceImpl.hpp:98`: rows stored while a thread is deleted stay behind it.
* `SnowflakeIDGenerator.hpp:81`: two threads can draw one id.
* `EntitySQLUtils.hpp:213`: in descending order, the default, the next page has no
  older rows, because the cursor asks for larger ids (run DescendingPages). In ascending
  order it can pass a row: pages follow `created_at`, the cursor ids, and the messages
  of one request have the same time (`db_migration/001/up.sql:31`).
* `docs/assistant_api.md:41-43` lists the endpoints of run steps, which no controller
  mounts (404), and `AssistantController.hpp:38` spells its parameter `:assitant_id`,
  so that reading one assistant always fails (500). HandlerIsIntended excepts the
  three by name.
* `mini-assistant.cpp:189`: a signal during the configuration waits for ever, and
  one during the clean-up exits beside live threads.
* `DuckDBVectorStoreOperator.hpp:104`: a crash between the drop of a table and the
  removal of its row leaves an instance that can neither be used nor removed.
* `MultiVectorRetriever.hpp:167-181`: if the model's answer has no line, a document gets
  no query, its ingestion succeeds, and no search ever finds it. `DuckDBVectorStore.hpp:128`
  caps a limit at 10000, but a search by filter is refused from 1000 on (59-60).
* `MultiPathRetriever.hpp`: with several stores the merged result never completes.
* `SQLBuilder.hpp:169`: NOT before a conjunction reaches its first conjunct only; a
  long is printed as a double.
* `DuckDBDocStore.hpp:66`: the values of a refused document stay in the appender's
  open row. The next document does not fit behind them and the batch is rolled back,
  unless the table has no vectors and that document has no value for two fields: if
  its own id and text fit the columns, one row is stored that begins with the id and
  text of the refused document. In the run's schema the second field is a number, so
  that StoredDocumentIsWhole does not meet this case; it is not claimed for every
  schema.
* `FileSystemFileVault.hpp:165`: the mutex of a resource is inserted into an unordered
  map without a lock. Two first callers can end up with different mutexes and download
  at once, and one removes the files that the other has handed out. The model chooses
  among these outcomes; a damaged map, which the data race can leave as well, is
  outside of it.
* `HttpRestClient.hpp:47-50`: every "data: " is removed from a line, also inside the
  text of an answer.
* `LLMObjectFactory.hpp:52-84`: the options of the application overwrite the model and
  the endpoint of the provider's own record also where they are blank, and then the
  environment decides; a local model is a null pointer (64, 89).
* `LLMCompilerPlanerThoughtOutputParser.hpp:107-116`: a join that is added to the lines
  3 and 4 gets the number 3, and the result of the action 3 is lost. Answers without a
  plan may be empty (83-85; `OpenAIToolAgentPlanner.hpp:47`).
* `FileSystemFileVault.hpp:59`: a crash while metadata is written leaves a file that
  cannot be read and is not fetched again.
* `OllamaEmbedding.hpp:46`: the time-out does not bound the call, as the futures of
  the abandoned requests are waited for.
* `SummaryChain.hpp:131`: summaries that do not fit together recurse for ever.
* `StringUtils.hpp:61` says of the splitting by a regular expression "sometimes last
  chunk of remaining split is ill-formed resulting incomplete text return". The model
  shows when: if separators are kept and a full window of fields ends with one, the rest
  is empty, its field is never added, and `PairwiseMerge` reads past the end.
  SplitsKeepText excepts this case. The claim of
  `BaseTextSplitter.hpp:99`, "strings which have size less than `chunk_size`", holds for
  the first chunk: `RecursiveCharacterTextSplitter.hpp:65-110` uses up one list of
  separators for all parts, so that later chunks may be larger.
* `CitationAnnotatingChain.hpp:66`: sources are shown with the numbers from 1 on (24),
  but the annotation of the last one is never quoted, although the prompt's own example
  has it (123), and 0 is. SummaryCoversSources states what the code does.
* `LLMChain.hpp:56-57`: the default template never matches its variable, and a chain
  with `chat_memory` (70-81) selects "question" from a bare text: both fail in every
  invocation. MemoryIsConversation claims success of the other chains only.

### Not modelled

* Language models, tools and embeddings inside a handler: a choice among the
  outcomes the code tells apart. Tokenizers (byte pair merging over large tables),
  rankers, transformer inference and distances between vectors: numeric code whose
  result no state change depends on.
* JSON and protobuf conversion, SQL text of entities, usage counts: no decision
  depends on them. Each SQL statement is atomic, as DuckDB executes it; a
  statement fails on its own only where the text says so.
* Races on the vectors of the scheduler (see `[caller]`) and handlers registered
  beside running consumers (`BaseTaskScheduler.hpp:41`), two HTTP requests on one
  `EphemeralChatMemory`, several runs of one thread (their rows are disjoint),
  several batches in one scan.
* Files added without a batch (`CreateVectorStore`, `CreateVectorStoreFile`):
  the handler then skips the last two actions. The deletion of a store beside the
  creation of a batch in it (`VectorStoreServiceImpl.hpp:112`).
* `ListRuns`, which takes `front()` of a list that may be empty.
* The chat completion endpoint, directory and Parquet ingestion, doc-agent: they
  put together components that are modelled.
* Third-party code (cpp-httplib, libcurl, DuckDB, ggml, moodycamel), vendored
  code, examples other than mini-assistant.

## 6. Plan

Done: the concurrent core (scheduler, runs, pool, file batches), the services, the
process, retrieval, agents, model clients and the vault with their theorems; routes
and the pure parts, model-checked.

Next, in this order:

1. Vector stores: `CreateVectorStore`, which enqueues file tasks before it
   provisions the retriever, and `CreateVectorStoreFile`.
2. An abstract table with orphans made visible that AssistantApi implements, and
   an abstract cache for FileVault.
3. Byte pair merging (`Tokenizer`) against a reference.
