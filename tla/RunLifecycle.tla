---------------------------- MODULE RunLifecycle ----------------------------
(***************************************************************************)
(* The life of one run object: RunServiceImpl (the HTTP side), the tasks it *)
(* enqueues, RunObjectTaskHandler::Handle on the consumer threads, and the  *)
(* agent executor loop (BaseAgentExecutor::Stream over ResolveNextStep of   *)
(* OpenAIToolAgentExecutor or LLMCompilerAgentExecutor).                    *)
(*                                                                         *)
(* Every database statement is one step, because none of these functions    *)
(* uses a transaction; what lies between two statements (the language model,*)
(* the tools) is merged into the step before or after it.  Message rows are *)
(* not modelled: the insert of a message is merged into that of its step.   *)
(* Runs of a thread touch disjoint rows, so one run is modelled.  Tasks     *)
(* follow the contract of TaskDelivery: each is taken once, by any idle     *)
(* consumer.                                                                *)
(*                                                                         *)
(* Data is abstracted to what decides control: the tool calls of one        *)
(* planner round are all built-in ("local"), all the user's ("user"), both  *)
(* ("mixed") or absent ("empty"); their outputs are absent, blank or full.  *)
(***************************************************************************)
EXTENDS Naturals, Sequences, FiniteSets

CONSTANTS
    Workers,       \* consumer threads of the task scheduler
    Clients,       \* concurrent callers of SubmitToolOutputs
    MaxRounds,     \* bound: planner rounds that ask for tools ...
    OverlapRounds, \* ... and the last such round once submissions have overlapped
    MaxOverlaps,   \* bound: submissions that begin beside another; none begins after so many
    MaxCancels,    \* bound: calls of CancelRun
    MaxCrashes,    \* bound: process crashes
    MayVanish      \* may the assistant be deleted while the run exists?

ASSUME RunAssumption ==
    /\ IsFiniteSet(Workers) /\ IsFiniteSet(Clients)
    /\ MaxRounds \in Nat /\ OverlapRounds \in 0..MaxRounds /\ MaxOverlaps \in Nat
    /\ MaxCancels \in Nat /\ MaxCrashes \in Nat
    /\ MayVanish \in BOOLEAN

VARIABLES
    status,     \* instinct_thread_run.status, "none" before the insert
    required,   \* its required_action: "none", "empty" (no call listed) or "open"
    steps,      \* rows of instinct_thread_run_step in order of creation
    rounds,     \* planner rounds so far; numbers the tool call ids
    assistant,  \* do the rows that the set-up reads exist (assistant, thread, user message)?
    queue,      \* payload status of the tasks waiting in the scheduler
    creator,    \* progress of CreateRun
    client,     \* progress of each SubmitToolOutputs
    worker,     \* progress of each consumer thread
    cancels, crashes,
    abandoned,  \* history: ways in which a Handle call gave the run up
    overlaps    \* history: submissions that began while another was under way

dbVars == <<status, required, steps, assistant>>
vars == <<dbVars, rounds, queue, creator, client, worker, cancels, crashes, abandoned, overlaps>>

RunStatus == {"queued", "in_progress", "requires_action", "cancelling",
              "cancelled", "failed", "completed", "expired"}
Terminal == {"cancelled", "failed", "completed", "expired"}

Kind == {"local", "user", "mixed", "empty"}

(* A run step: the tool calls of one round, the text that came with them    *)
(* (same round), or the final answer (round 0).                             *)
Step == [type : {"tool_calls", "message_creation"},
         status : {"in_progress", "completed", "failed", "cancelled", "expired"},
         round : 0..MaxRounds,
         out : {"none", "blank", "full"}]

WorkerPC == {"idle", "start", "setup", "resolve",
             "cont_msg", "cont_tool", "cont_run",
             "pause_read", "pause_step", "pause_run",
             "obs_read", "obs_run", "obs_step",
             "fin_read", "fin_msg", "fin_step", "fin_run"}

(* Locals of one Handle call: the last step of the agent state (last, kind, *)
(* round, out), the run step RetrieveLastRunStep_ returned (idx, 0 if none, *)
(* and its outputs), how the run finishes, and whether the executor loop is *)
(* over ("abort": because of the stop predicate).                           *)
Local == [pc : WorkerPC, last : {"nothing", "continuation", "pause", "observation"},
          kind : Kind, text : BOOLEAN, round : 0..MaxRounds, out : {"none", "blank", "full"},
          idx : Nat, was : {"none", "blank", "full"}, final : {"completed", "failed"}, ending : {"no", "end", "abort"}]

Idle == [pc |-> "idle", last |-> "nothing", kind |-> "empty", text |-> FALSE, round |-> 0,
         out |-> "none", idx |-> 0, was |-> "none", final |-> "completed", ending |-> "no"]

NoSubmit == [pc |-> "idle", idx |-> 0, out |-> "none"]

TypeOK ==
    /\ status \in RunStatus \cup {"none"}
    /\ required \in {"none", "empty", "open"}
    /\ steps \in Seq(Step)
    /\ rounds \in 0..MaxRounds
    /\ assistant \in BOOLEAN
    /\ queue \in Seq(RunStatus)
    /\ creator \in {"start", "enqueue", "done"}
    /\ client \in [Clients -> [pc : {"idle", "steps", "modstep", "modrun", "enqueue"},
                               idx : Nat, out : {"none", "blank", "full"}]]
    /\ worker \in [Workers -> Local]
    /\ cancels \in 0..MaxCancels /\ crashes \in 0..MaxCrashes
    /\ abandoned \subseteq {"setup", "recover", "early_stop", "crash", "stale_payload"}
    /\ overlaps \in 0..MaxOverlaps

Init ==
    /\ status = "none" /\ required = "none" /\ steps = <<>> /\ rounds = 0
    /\ assistant = TRUE
    /\ queue = <<>> /\ creator = "start"
    /\ client = [c \in Clients |-> NoSubmit]
    /\ worker = [w \in Workers |-> Idle]
    /\ cancels = 0 /\ crashes = 0 /\ abandoned = {} /\ overlaps = 0

-----------------------------------------------------------------------------
(* RunServiceImpl: the HTTP side. *)

(* CreateRun and CreateThreadAndRun insert the messages and the run ...     *)
InsertRun ==
    /\ creator = "start"
    /\ status' = "queued"
    /\ creator' = "enqueue"
    /\ UNCHANGED <<required, steps, assistant, rounds, queue, client, worker, cancels, crashes, abandoned, overlaps>>

(* Mutant: the run is enqueued before its row is inserted.                  *)
EnqueueRunBeforeInsert ==
    /\ creator = "start"
    /\ queue' = Append(queue, status)
    /\ creator' = "done"
    /\ UNCHANGED <<dbVars, rounds, client, worker, cancels, crashes, abandoned, overlaps>>

(* ... then read the row back and enqueue a snapshot of it.                 *)
EnqueueRun ==
    /\ creator = "enqueue"
    /\ queue' = Append(queue, status)
    /\ creator' = "done"
    /\ UNCHANGED <<dbVars, rounds, client, worker, cancels, crashes, abandoned, overlaps>>

(* An unconditional update, whatever the status is; nothing is enqueued.    *)
CancelRun ==
    /\ status # "none"
    /\ cancels < MaxCancels
    /\ cancels' = cancels + 1
    /\ status' = "cancelling"
    /\ UNCHANGED <<required, steps, assistant, rounds, queue, creator, client, worker, crashes, abandoned, overlaps>>

OtherSubmission(c) == \E d \in Clients \ {c} : client[d].pc # "idle"

(* Mutant: only required_action is looked at, which nothing clears.         *)
SubmitCheckRunIgnoresStatus(c, out) ==
    /\ client[c].pc = "idle"
    /\ required = "open"
    /\ client' = [client EXCEPT ![c] = [pc |-> "steps", idx |-> 0, out |-> out]]
    /\ overlaps' = overlaps + (IF OtherSubmission(c) THEN 1 ELSE 0)
    /\ UNCHANGED <<dbVars, rounds, queue, creator, worker, cancels, crashes, abandoned>>

(* SubmitToolOutputs checks the run row ...                                 *)
SubmitCheckRun(c, out) ==
    /\ client[c].pc = "idle"
    /\ status = "requires_action" /\ required = "open"
    /\ overlaps < MaxOverlaps
    /\ client' = [client EXCEPT ![c] = [pc |-> "steps", idx |-> 0, out |-> out]]
    /\ overlaps' = overlaps + (IF OtherSubmission(c) THEN 1 ELSE 0)
    /\ UNCHANGED <<dbVars, rounds, queue, creator, worker, cancels, crashes, abandoned>>

(* ... then the newest run step, which must be in progress; the request is  *)
(* rejected otherwise.                                                      *)
SubmitCheckStep(c) ==
    /\ client[c].pc = "steps"
    /\ client' = [client EXCEPT ![c] =
          IF steps # <<>> /\ steps[Len(steps)].status = "in_progress"
          THEN [@ EXCEPT !.pc = "modstep", !.idx = Len(steps)] ELSE NoSubmit]
    /\ UNCHANGED <<dbVars, rounds, queue, creator, worker, cancels, crashes, abandoned, overlaps>>

SubmitModifyStep(c) ==
    /\ client[c].pc = "modstep"
    /\ steps' = [steps EXCEPT ![client[c].idx].out = client[c].out]
    /\ client' = [client EXCEPT ![c].pc = "modrun"]
    /\ UNCHANGED <<status, required, assistant, rounds, queue, creator, worker, cancels, crashes, abandoned, overlaps>>

SubmitModifyRun(c) ==
    /\ client[c].pc = "modrun"
    /\ status' = "queued"
    /\ client' = [client EXCEPT ![c].pc = "enqueue"]
    /\ UNCHANGED <<required, steps, assistant, rounds, queue, creator, worker, cancels, crashes, abandoned, overlaps>>

(* Mutant: the resumed run is not handed to the scheduler.                  *)
SubmitForgetsEnqueue(c) ==
    /\ client[c].pc = "enqueue"
    /\ client' = [client EXCEPT ![c] = NoSubmit]
    /\ UNCHANGED <<dbVars, rounds, queue, creator, worker, cancels, crashes, abandoned, overlaps>>

(* The row ModifyRun read back is the payload of the new task.              *)
SubmitEnqueue(c) ==
    /\ client[c].pc = "enqueue"
    /\ queue' = Append(queue, status)
    /\ client' = [client EXCEPT ![c] = NoSubmit]
    /\ UNCHANGED <<dbVars, rounds, creator, worker, cancels, crashes, abandoned, overlaps>>

(* AssistantServiceImpl::DeleteAssistant does not look at runs.  CreateRun  *)
(* does not look for the assistant either; the deletion may come first.     *)
DeleteAssistant ==
    /\ MayVanish /\ assistant
    /\ assistant' = FALSE
    /\ UNCHANGED <<status, required, steps, rounds, queue, creator, client, worker, cancels, crashes, abandoned, overlaps>>

(* The process dies: rows stay, the in-process queue, the handlers and the  *)
(* requests are gone.  Nothing re-reads unfinished runs at start-up.        *)
Crash ==
    /\ crashes < MaxCrashes
    /\ crashes' = crashes + 1
    /\ queue' = <<>>
    /\ worker' = [w \in Workers |-> Idle]
    /\ client' = [c \in Clients |-> NoSubmit]
    /\ creator' = "done"
    /\ abandoned' = abandoned \cup {"crash"}
    /\ UNCHANGED <<dbVars, rounds, cancels, overlaps>>

-----------------------------------------------------------------------------
(* RunObjectTaskHandler::Handle, up to the executor. *)

rest == <<rounds, creator, client, cancels, crashes, overlaps>>

(* CheckPreconditions_ looks at the payload, not at the row.                *)
TakeTask(w) ==
    /\ worker[w].pc = "idle"
    /\ queue # <<>>
    /\ queue' = Tail(queue)
    /\ \/ /\ Head(queue) = "queued"
          /\ worker' = [worker EXCEPT ![w].pc = "start"]
          /\ UNCHANGED abandoned
       \/ /\ Head(queue) # "queued"
          /\ abandoned' = abandoned \cup {"stale_payload"}
          /\ UNCHANGED worker
    /\ UNCHANGED <<dbVars, rest>>

MarkInProgress(w) ==
    /\ worker[w].pc = "start"
    /\ status' = "in_progress"
    /\ worker' = [worker EXCEPT ![w].pc = "setup"]
    /\ UNCHANGED <<required, steps, assistant, queue, rest, abandoned>>

(* LoadAgentStateFromRun_ accepts a tool step only if it is completed, or   *)
(* in progress and the last one (the payload's status is "queued").         *)
Loadable ==
    \A i \in 1..Len(steps) : steps[i].type = "tool_calls" =>
        \/ steps[i].status = "completed"
        \/ steps[i].status = "in_progress" /\ i = Len(steps)

ToolSteps == {i \in 1..Len(steps) : steps[i].type = "tool_calls"}

(* The agent state rebuilt from the steps: nothing, an observation, or a    *)
(* pause with the outputs that are not blank.                               *)
Recovered(l) ==
    IF ToolSteps = {} THEN {[l EXCEPT !.pc = "resolve"]}
    ELSE {[l EXCEPT !.pc = "resolve", !.kind = "user", !.round = steps[i].round,
                    !.last = IF steps[i].status = "completed" THEN "observation" ELSE "pause",
                    !.out = steps[i].out]
             : i \in {i \in ToolSteps : \A j \in ToolSteps : j <= i}}

Recover(w) ==
    /\ worker[w].pc = "setup"
    /\ assistant
    /\ Loadable
    /\ \E l \in Recovered(worker[w]) : worker' = [worker EXCEPT ![w] = l]
    /\ UNCHANGED <<dbVars, queue, rest, abandoned>>

(* Missing assistant: the assertion throws out of Handle.  Unusable steps:  *)
(* Handle returns.  The run row keeps the status "in_progress".             *)
SetupFails(w) ==
    /\ worker[w].pc = "setup"
    /\ \/ ~assistant /\ abandoned' = abandoned \cup {"setup"}
       \/ assistant /\ ~Loadable /\ abandoned' = abandoned \cup {"recover"}
    /\ worker' = [worker EXCEPT ![w] = Idle]
    /\ UNCHANGED <<dbVars, queue, rest>>

-----------------------------------------------------------------------------
(* The executor loop: one ResolveNextStep, up to on_next. *)

(* Which callback on_next runs for the last step of the agent state.        *)
CallbackFor(last, text) ==
    CASE last = "continuation" -> IF text THEN "cont_msg" ELSE "cont_tool"
      [] last = "pause"        -> "pause_read"
      [] last = "observation"  -> "obs_read"

(* CheckRunObjectForExecution_ *)
ShouldStop == status \in {"cancelling", "cancelled", "expired"}

Resolving(w) == worker[w].pc = "resolve" /\ ~ShouldStop

(* The stop predicate fires.  ResolveNextStep returns the finish step but   *)
(* does not add it to the state, so on_next sees the previous step again    *)
(* and the loop ends after that callback.                                   *)
EarlyStop(w) ==
    /\ worker[w].pc = "resolve" /\ ShouldStop
    /\ worker[w].last # "nothing"
    /\ worker' = [worker EXCEPT ![w].ending = "abort",
                                ![w].pc = CallbackFor(worker[w].last, worker[w].text)]
    /\ UNCHANGED <<dbVars, queue, rest, abandoned>>

(* Without a previous step on_next dereferences rbegin() of an empty list:  *)
(* undefined; either the garbage is ignored as an illegal message or the    *)
(* process dies (then Crash is the step taken).                             *)
EarlyStopOnEmptyState(w) ==
    /\ worker[w].pc = "resolve" /\ ShouldStop
    /\ worker[w].last = "nothing"
    /\ worker' = [worker EXCEPT ![w] = Idle]
    /\ abandoned' = abandoned \cup {"early_stop"}
    /\ UNCHANGED <<dbVars, queue, rest>>

(* The planner (or the next batch of the task graph) asks for tools.        *)
PlanTools(w, kind, text) ==
    /\ Resolving(w) /\ worker[w].last \in {"nothing", "observation"}
    /\ rounds < MaxRounds /\ (overlaps > 0 => rounds < OverlapRounds)
    /\ rounds' = rounds + 1
    /\ worker' = [worker EXCEPT ![w] =
          [@ EXCEPT !.pc = CallbackFor("continuation", text), !.last = "continuation",
                    !.kind = kind, !.text = text, !.round = rounds + 1, !.out = "none"]]
    /\ UNCHANGED <<dbVars, queue, creator, client, cancels, crashes, abandoned, overlaps>>

(* The planner (or the joiner) has the answer.                              *)
PlanAnswer(w) ==
    /\ Resolving(w) /\ worker[w].last \in {"nothing", "observation"}
    /\ worker' = [worker EXCEPT ![w].pc = "fin_read", ![w].final = "completed", ![w].ending = "end"]
    /\ UNCHANGED <<dbVars, queue, rest, abandoned>>

(* LocalToolkitsWorker runs the built-in calls of an all-local round.       *)
ExecuteTools(w) ==
    /\ Resolving(w) /\ worker[w].last = "continuation" /\ worker[w].kind = "local"
    /\ worker' = [worker EXCEPT ![w].pc = "obs_read", ![w].last = "observation", ![w].out = "full"]
    /\ UNCHANGED <<dbVars, queue, rest, abandoned>>

(* None of the calls is built in: wait for the user.                        *)
Pause(w) ==
    /\ Resolving(w) /\ worker[w].last = "continuation" /\ worker[w].kind = "user"
    /\ worker' = [worker EXCEPT ![w].pc = "pause_read", ![w].last = "pause", ![w].ending = "end"]
    /\ UNCHANGED <<dbVars, queue, rest, abandoned>>

(* Every call of the recovered pause has an output.                         *)
LiftPause(w) ==
    /\ Resolving(w) /\ worker[w].last = "pause" /\ worker[w].out = "full"
    /\ worker' = [worker EXCEPT ![w].pc = "obs_read", ![w].last = "observation"]
    /\ UNCHANGED <<dbVars, queue, rest, abandoned>>

(* Mutant: Stream without on_error; the exception ends Handle.              *)
ResolveThrowsUnhandled(w) ==
    /\ Resolving(w)
    /\ \/ worker[w].last \in {"nothing", "observation"}
       \/ worker[w].last = "continuation" /\ worker[w].kind # "user"
       \/ worker[w].last = "pause" /\ worker[w].out # "full"
    /\ worker' = [worker EXCEPT ![w] = Idle]
    /\ UNCHANGED <<dbVars, queue, rest, abandoned>>

(* The language model or a tool fails; a mixed round indexes past the       *)
(* filtered calls; an empty round or an unfinished pause is an illegal      *)
(* state.  Stream's on_error runs OnAgentFinish_ with is_failed.            *)
ResolveThrows(w) ==
    /\ Resolving(w)
    /\ \/ worker[w].last \in {"nothing", "observation"}
       \/ worker[w].last = "continuation" /\ worker[w].kind # "user"
       \/ worker[w].last = "pause" /\ worker[w].out # "full"
    /\ worker' = [worker EXCEPT ![w].pc = "fin_read", ![w].final = "failed", ![w].ending = "end"]
    /\ UNCHANGED <<dbVars, queue, rest, abandoned>>

-----------------------------------------------------------------------------
(* The callbacks, one database statement per step. *)

(* End of a callback: Stream resolves another step or Handle returns.       *)
EndCallback(w) ==
    /\ worker' = [worker EXCEPT ![w] = IF @.ending = "no" THEN [@ EXCEPT !.pc = "resolve"] ELSE Idle]
    /\ abandoned' = IF worker[w].ending = "abort" THEN abandoned \cup {"early_stop"} ELSE abandoned

(* RetrieveLastRunStep_ lists the steps newest first and returns the last   *)
(* of that list: the oldest step.                                           *)
LastRunStep == IF steps = <<>> THEN 0 ELSE 1

MessageStep(round) ==
    [type |-> "message_creation", status |-> "completed", round |-> round, out |-> "none"]

ToolStep(round) ==
    [type |-> "tool_calls", status |-> "in_progress", round |-> round, out |-> "none"]

(* OnAgentContinuation: the text of the message, if any ...                 *)
ContinuationMessage(w) ==
    /\ worker[w].pc = "cont_msg"
    /\ steps' = Append(steps, MessageStep(worker[w].round))
    /\ worker' = [worker EXCEPT ![w].pc = "cont_tool"]
    /\ UNCHANGED <<status, required, assistant, queue, rest, abandoned>>

(* ... the tool calls, if any ...                                           *)
ContinuationTools(w) ==
    /\ worker[w].pc = "cont_tool"
    /\ steps' = IF worker[w].kind = "empty" THEN steps ELSE Append(steps, ToolStep(worker[w].round))
    /\ worker' = [worker EXCEPT ![w].pc = "cont_run"]
    /\ UNCHANGED <<status, required, assistant, queue, rest, abandoned>>

(* ... (CreateRunStep rejects a call with blank arguments) ...              *)
ContinuationRejected(w) ==
    /\ worker[w].pc = "cont_tool" /\ worker[w].kind # "empty"
    /\ worker' = [worker EXCEPT ![w].pc = "fin_read", ![w].final = "failed", ![w].ending = "end"]
    /\ UNCHANGED <<dbVars, queue, rest, abandoned>>

(* ... and the run's status.                                                *)
ContinuationRun(w) ==
    /\ worker[w].pc = "cont_run"
    /\ status' = "in_progress"
    /\ EndCallback(w)
    /\ UNCHANGED <<required, steps, assistant, queue, rest>>

(* Where a callback goes on; a failed run without a step only has to close  *)
(* the run.                                                                 *)
AfterRead(pc, final) ==
    IF pc = "pause_read" THEN "pause_step"
    ELSE IF pc = "obs_read" THEN "obs_run"
    ELSE IF final = "completed" THEN "fin_msg"
    ELSE IF LastRunStep = 0 THEN "fin_run" ELSE "fin_step"

(* OnAgentPause_, OnAgentObservation_ and OnAgentFinish_ first read a step. *)
(* The first two return if there is none, but the continuation before them  *)
(* has always stored one.                                                   *)
ReadLastStep(w) ==
    /\ worker[w].pc \in {"pause_read", "obs_read", "fin_read"}
    /\ LastRunStep # 0 \/ worker[w].pc = "fin_read"
    /\ worker' = [worker EXCEPT ![w] =
          [@ EXCEPT !.pc = AfterRead(worker[w].pc, worker[w].final),
                    !.idx = LastRunStep,
                    !.was = IF LastRunStep = 0 THEN "none" ELSE steps[LastRunStep].out]]
    /\ UNCHANGED <<dbVars, queue, rest, abandoned>>

(* Mutant: the pause also closes the step.                                  *)
PauseStepCloses(w) ==
    /\ worker[w].pc = "pause_step"
    /\ steps' = [steps EXCEPT ![worker[w].idx].out = worker[w].was,
                              ![worker[w].idx].status = "completed"]
    /\ worker' = [worker EXCEPT ![w].pc = "pause_run"]
    /\ UNCHANGED <<status, required, assistant, queue, rest, abandoned>>

(* OnAgentPause_ writes the step details it read (with the agent's custom   *)
(* data; no call is finished yet, or they already were when it is a replay) *)
PauseStep(w) ==
    /\ worker[w].pc = "pause_step"
    /\ steps' = [steps EXCEPT ![worker[w].idx].out = worker[w].was]
    /\ worker' = [worker EXCEPT ![w].pc = "pause_run"]
    /\ UNCHANGED <<status, required, assistant, queue, rest, abandoned>>

(* and asks for the calls it considers unfinished.  A pause replayed by an  *)
(* early stop already has its outputs: with one call none is listed, with   *)
(* several all but the last compared are.                                   *)
PauseRun(w) ==
    /\ worker[w].pc = "pause_run"
    /\ status' = "requires_action"
    /\ required' \in IF worker[w].out = "full" THEN {"empty", "open"} ELSE {"open"}
    /\ EndCallback(w)
    /\ UNCHANGED <<steps, assistant, queue, rest>>

(* OnAgentObservation_ *)
ObservationRun(w) ==
    /\ worker[w].pc = "obs_run"
    /\ status' = "in_progress"
    /\ worker' = [worker EXCEPT ![w].pc = "obs_step"]
    /\ UNCHANGED <<required, steps, assistant, queue, rest, abandoned>>

(* The outputs are stored only where the call ids match.                    *)
ObservationStep(w) ==
    /\ worker[w].pc = "obs_step"
    /\ LET i == worker[w].idx
           same == steps[i].type = "tool_calls" /\ steps[i].round = worker[w].round
       IN  steps' = [steps EXCEPT ![i].status = "completed",
                                  ![i].out = IF same THEN worker[w].out ELSE worker[w].was]
    /\ EndCallback(w)
    /\ UNCHANGED <<status, required, assistant, queue, rest>>

(* Mutant: the answer is stored after the run is closed.                    *)
FinishMessageSkipped(w) ==
    /\ worker[w].pc = "fin_msg"
    /\ worker' = [worker EXCEPT ![w].pc = IF worker[w].idx = 0 THEN "fin_run" ELSE "fin_step"]
    /\ UNCHANGED <<dbVars, queue, rest, abandoned>>

(* OnAgentFinish_ stores the answer ...                                     *)
FinishMessage(w) ==
    /\ worker[w].pc = "fin_msg"
    /\ steps' = Append(steps, MessageStep(0))
    /\ worker' = [worker EXCEPT ![w].pc = IF worker[w].idx = 0 THEN "fin_run" ELSE "fin_step"]
    /\ UNCHANGED <<status, required, assistant, queue, rest, abandoned>>

(* ... unless the citation chain throws: on_error then finishes as failed   *)
FinishMessageThrows(w) ==
    /\ worker[w].pc = "fin_msg"
    /\ worker' = [worker EXCEPT ![w].pc = "fin_read", ![w].final = "failed"]
    /\ UNCHANGED <<dbVars, queue, rest, abandoned>>

(* ... then closes the step it read ...                                     *)
FinishStep(w) ==
    /\ worker[w].pc = "fin_step"
    /\ steps' = [steps EXCEPT ![worker[w].idx].status = worker[w].final,
                              ![worker[w].idx].out = worker[w].was]
    /\ worker' = [worker EXCEPT ![w].pc = "fin_run"]
    /\ UNCHANGED <<status, required, assistant, queue, rest, abandoned>>

(* Mutant: the executor loop goes on after the final answer.                *)
FinishRunKeepsStreaming(w) ==
    /\ worker[w].pc = "fin_run"
    /\ status' = worker[w].final
    /\ worker' = [worker EXCEPT ![w].pc = "resolve", ![w].ending = "no"]
    /\ UNCHANGED <<required, steps, assistant, queue, rest, abandoned>>

(* ... and the run.                                                         *)
FinishRun(w) ==
    /\ worker[w].pc = "fin_run"
    /\ status' = worker[w].final
    /\ worker' = [worker EXCEPT ![w] = Idle]
    /\ UNCHANGED <<required, steps, assistant, queue, rest, abandoned>>

-----------------------------------------------------------------------------
Handle(w) ==
    \/ TakeTask(w) \/ MarkInProgress(w) \/ Recover(w) \/ SetupFails(w)
    \/ EarlyStop(w) \/ EarlyStopOnEmptyState(w)
    \/ \E kind \in Kind, text \in BOOLEAN : PlanTools(w, kind, text)
    \/ PlanAnswer(w) \/ ExecuteTools(w) \/ Pause(w) \/ LiftPause(w) \/ ResolveThrows(w)
    \/ ContinuationMessage(w) \/ ContinuationTools(w) \/ ContinuationRejected(w) \/ ContinuationRun(w)
    \/ ReadLastStep(w) \/ PauseStep(w) \/ PauseRun(w) \/ ObservationRun(w) \/ ObservationStep(w)
    \/ FinishMessage(w) \/ FinishMessageThrows(w) \/ FinishStep(w) \/ FinishRun(w)

(* A request that was accepted runs to its end. *)
SubmitContinues(c) == \/ SubmitCheckStep(c) \/ SubmitModifyStep(c)
                      \/ SubmitModifyRun(c) \/ SubmitEnqueue(c)

Next ==
    \/ InsertRun \/ EnqueueRun \/ CancelRun \/ DeleteAssistant \/ Crash
    \/ \E c \in Clients : SubmitContinues(c) \/ \E out \in {"blank", "full"} : SubmitCheckRun(c, out)
    \/ \E w \in Workers : Handle(w)

Spec == Init /\ [][Next]_vars

(* Consumer threads and accepted requests make progress; clients, the       *)
(* canceller, deletions and crashes are free.                               *)
Fairness == /\ WF_vars(EnqueueRun)
            /\ \A w \in Workers : WF_vars(Handle(w))
            /\ \A c \in Clients : WF_vars(SubmitContinues(c))

FairSpec == Spec /\ Fairness

-----------------------------------------------------------------------------
Active(w) == worker[w].pc # "idle"

(* Tasks of the run that exist or are about to be enqueued.                 *)
Pending == Len(queue) + (IF creator = "enqueue" THEN 1 ELSE 0)
             + Cardinality({c \in Clients : client[c].pc \in {"modstep", "modrun", "enqueue"}})

(* As long as no two SubmitToolOutputs overlap, one run is never executed   *)
(* by two consumers, nor queued twice, whatever is cancelled, deleted or    *)
(* crashes meanwhile: the status check guards it.  Nothing in the code      *)
(* keeps two submissions apart: the check (RunServiceImpl.hpp:266) and the  *)
(* write it guards (:326) are separate statements, and two requests that    *)
(* both pass the check enqueue the run twice.                               *)
SingleExecution ==
    overlaps = 0 => Pending + Cardinality({w \in Workers : Active(w)}) <= 1

(* A run is closed as completed only after its answer is stored, also if    *)
(* the process dies in between or the run is cancelled meanwhile.           *)
CompletedHasAnswer ==
    status = "completed" =>
        \E i \in 1..Len(steps) : steps[i].type = "message_creation" /\ steps[i].round = 0

(* A run that waits for the user can be answered: its newest step is the    *)
(* open tool step required_action was written for.  Two things break this   *)
(* and are excepted: a cancellation, whose early stop replays the last      *)
(* callback, and overlapping submissions, whose second execution appends    *)
(* steps of its own.                                                        *)
PauseIsAnswerable ==
    cancels = 0 /\ overlaps = 0 /\ status = "requires_action" =>
        /\ required = "open"
        /\ steps # <<>>
        /\ steps[Len(steps)].type = "tool_calls"
        /\ steps[Len(steps)].status = "in_progress"
        /\ steps[Len(steps)].round = rounds

(* The only ways a run is left queued or in progress with nobody working    *)
(* on it: a crash, an execution aborted by the stop predicate, a failed     *)
(* set-up or recovery, or a payload read after a cancellation.              *)
NoSilentStall ==
    status \in {"queued", "in_progress"} /\ abandoned = {} =>
        Pending > 0 \/ \E w \in Workers : Active(w)

(* As long as no two SubmitToolOutputs overlap, a finished run changes only *)
(* when somebody cancels it.  (After an overlap the run has two executions, *)
(* and the late one overwrites the end the other has written.)              *)
TerminalIsFinal ==
    [][(status \in Terminal /\ overlaps = 0) => status' \in {status, "cancelling"}]_status

(* A queued run reaches the user's turn or an end, unless it is cancelled   *)
(* or abandoned in one of the ways above.                                   *)
QueuedRunSettles ==
    status = "queued" ~> \/ status \in Terminal \cup {"requires_action", "cancelling"}
                         \/ abandoned # {}

-----------------------------------------------------------------------------
(* A statement of the code's own comments that the code does not meet. *)

(* RunServiceImpl.hpp:346: "task handler will checkout status in loop and   *)
(* abort if run is cancelled": a cancellation is not overwritten by         *)
(* anything but the end of the run.                                         *)
CancellationIsKept ==
    [][(status = "cancelling") => status' \in {"cancelling"} \cup Terminal]_status

=============================================================================
