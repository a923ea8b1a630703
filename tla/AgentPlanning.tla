----------------------------- MODULE AgentPlanning -----------------------------
(***************************************************************************)
(* The three agent executors (LLMCompiler, OpenAI tools, ReACT) from the    *)
(* first plan to the answer: what the planner's text is parsed into, which  *)
(* tasks of a graph are requested next and with which arguments, how the    *)
(* worker runs them on its thread pool, and what the joiner gets to see.    *)
(* The text of the model is an input.  Early stops and the persistence of   *)
(* steps are in RunLifecycle.                                               *)
(***************************************************************************)
EXTENDS Naturals, Sequences, SequencesExt, FiniteSets

CONSTANTS
    Patterns,     \* the executors that are checked
    Plans,        \* what a planner may write: lists of numbered actions
    Toolkits,     \* the local toolkits, each a set of tool names
    MaxAttempts,  \* FunctionToolOptions::max_attempts
    MaxPlans,     \* bound: the model gives a final answer after so many plans
    MaxBlanks     \* bound on blank results of tools

ASSUME AgentPlanningAssumption ==
    /\ Patterns \subseteq {"llm_compiler", "openai_tool", "react"}
    /\ Plans \subseteq Seq([index : Nat, name : STRING, refs : Seq(Nat)])
    /\ MaxAttempts \in Nat /\ MaxPlans \in Nat /\ MaxBlanks \in Nat

VARIABLES
    pattern,
    last,      \* the last step of the agent state
    futures,   \* tool calls on the thread pool, in the order they are awaited
    outcome,   \* "running", "paused", "finished" or "failed"
    failure,   \* why it failed
    previous,  \* the graphs that were given up, as the agent state keeps them
    nextId,    \* tool call ids; the result of a call is named by its id
    plans, blanks

agent == <<pattern, last, futures, outcome, failure, previous, nextId, plans, blanks>>

-----------------------------------------------------------------------------
(* Plans and task graphs.  A result that is blank counts as none.            *)

NoResult == 0

\* The elements of a sequence at some places, in order.
Selected(s, places) ==
    [i \in 1..Cardinality(places) |->
        s[CHOOSE p \in places : Cardinality({q \in places : q < p}) = i - 1]]

\* \$\{?(\d)\}? reads one digit of a reference (which has at most two).
Digit(n) == IF n < 10 THEN n ELSE n \div 10

IsJoin(task) == task.name = "join"

\* Actions up to the first join.
Clip(lines) ==
    LET joins == {i \in DOMAIN lines : IsJoin(lines[i])}
    IN  IF joins = {} THEN lines
        ELSE SubSeq(lines, 1, CHOOSE i \in joins : \A j \in joins : i <= j)

\* Every action depends on the tasks its arguments refer to, which must have
\* smaller numbers; a join is added if the model forgets it, and takes the next
\* place for its number even if an action has that number already.
Parses(lines) ==
    \A i \in DOMAIN Clip(lines) :
        \A k \in DOMAIN lines[i].refs : Digit(lines[i].refs[k]) < lines[i].index

ParsePlan(lines, id) ==
    LET clipped == Clip(lines)
        n == Len(clipped)
        task(i) == [index |-> clipped[i].index, name |-> clipped[i].name,
                    refs |-> clipped[i].refs,
                    deps |-> IF IsJoin(clipped[i]) THEN 1..(clipped[i].index - 1)
                             ELSE {Digit(clipped[i].refs[k]) : k \in DOMAIN clipped[i].refs},
                    id |-> id + i, result |-> NoResult]
        join == [index |-> n + 1, name |-> "join", refs |-> <<>>, deps |-> 1..n,
                 id |-> id + n + 1, result |-> NoResult]
    IN  [i \in 1..n |-> task(i)] \o (IF IsJoin(Last(clipped)) THEN <<>> ELSE <<join>>)

Call(task, inputs) == [id |-> task.id, name |-> task.name, index |-> task.index,
                       refs |-> task.refs, inputs |-> inputs]

\* The first batch: what depends on nothing, with its arguments as written.
FirstBatch(graph) ==
    LET ready == Selected(graph, {i \in DOMAIN graph : ~ IsJoin(graph[i]) /\ graph[i].deps = {}})
    IN  [i \in DOMAIN ready |-> Call(ready[i], <<>>)]

Finished(graph) == {graph[i].index : i \in {j \in DOMAIN graph : graph[j].result # NoResult}}

\* Mutant: one fulfilled dependency is enough.
FindNextTasksAny(graph) ==
    Selected(graph, {i \in DOMAIN graph :
        /\ ~ IsJoin(graph[i]) /\ graph[i].index \notin Finished(graph)
        /\ graph[i].deps = {} \/ graph[i].deps \cap Finished(graph) # {}})

\* Tasks without a result whose dependencies all have one.
FindNextTasks(graph) ==
    Selected(graph, {i \in DOMAIN graph :
        /\ ~ IsJoin(graph[i]) /\ graph[i].index \notin Finished(graph)
        /\ graph[i].deps \subseteq Finished(graph)})

\* The task of an index: the last one, or the first of the graph if there is
\* none.
TaskAt(graph, index) ==
    LET places == {i \in DOMAIN graph : graph[i].index = index}
    IN  IF places = {} THEN graph[1]
        ELSE graph[CHOOSE i \in places : \A j \in places : i >= j]

\* Every reference in the arguments is replaced by the result of its task.
BuildToolCallRequest(graph, tasks) ==
    [i \in DOMAIN tasks |->
        LET t == TaskAt(graph, tasks[i].index)
        IN  Call(t, [k \in DOMAIN t.refs |-> TaskAt(graph, Digit(t.refs[k])).result])]

\* Mutant: the results are not stored in the graph.
WithResultsDropped(graph, messages) == graph

\* The results of tool messages go to the tasks with the same call id.
WithResults(graph, messages) ==
    LET mine(t) == {j \in DOMAIN messages : messages[j].id = t.id}
    IN  [i \in DOMAIN graph |->
            IF mine(graph[i]) = {} THEN graph[i]
            ELSE [graph[i] EXCEPT !.result = messages[CHOOSE j \in mine(graph[i]) : TRUE].result]]

\* What the joiner reads: the tasks with a result.
BuildAgentScratchPad(graph) ==
    Selected(graph, {i \in DOMAIN graph : ~ IsJoin(graph[i]) /\ graph[i].result # NoResult})

-----------------------------------------------------------------------------
NoStep == [kind |-> "none", calls |-> <<>>, done |-> <<>>, graph |-> <<>>, answer |-> ""]
Answered(text) == [NoStep EXCEPT !.kind = "finish", !.answer = text]

\* A text of the model may be empty.
Texts == {"", "text"}

Running == outcome = "running" /\ futures = <<>>

Become(step, o) == last' = step /\ outcome' = o /\ UNCHANGED failure
Fail(why) == outcome' = "failed" /\ failure' = why /\ UNCHANGED last

\* The model answers without further tools once it has planned enough.
PlannerOutput == IF plans < MaxPlans THEN Plans ELSE {<<>>}

\* The planner of a replan is shown the results of all plans that were given up.
PlannerContext(graphs) == [i \in DOMAIN graphs |-> BuildAgentScratchPad(graphs[i])]

(* LLMCompilerPlaner and its output parser; no action is a final answer,     *)
(* whatever the text, before the first plan.                                 *)
Think(lines, replanning) ==
    /\ previous' = IF replanning THEN Append(previous, last.graph) ELSE previous
    /\ plans' = plans + 1 /\ nextId' = nextId + Len(lines) + 1
    /\ IF ~ Parses(lines) THEN Fail("assertion")
       ELSE IF lines = <<>> THEN
           IF replanning THEN Fail("assertion")
           ELSE \E text \in Texts : Become(Answered(text), "finished")
       ELSE LET graph == ParsePlan(lines, nextId)
            IN  Become([NoStep EXCEPT !.kind = "continuation", !.graph = graph,
                                      !.calls = FirstBatch(graph)], "running")
    /\ UNCHANGED <<pattern, futures, blanks>>

PlanTaskGraph ==
    /\ pattern = "llm_compiler" /\ Running /\ last.kind = "none"
    /\ \E lines \in PlannerOutput : Think(lines, FALSE)

(* OpenAIToolAgentPlanner: the calls of the model's message, or its answer.  *)
PlanToolCalls ==
    /\ pattern = "openai_tool" /\ Running /\ last.kind \in {"none", "observation"}
    /\ \E lines \in PlannerOutput :
          LET calls == [i \in DOMAIN lines |-> [id |-> nextId + i, name |-> lines[i].name,
                          index |-> lines[i].index, refs |-> <<>>, inputs |-> <<>>]]
          IN  /\ plans' = plans + 1 /\ nextId' = nextId + Len(lines)
              /\ IF lines = <<>> THEN \E text \in Texts : Become(Answered(text), "finished")
                 ELSE Become([NoStep EXCEPT !.kind = "continuation", !.calls = calls], "running")
    /\ UNCHANGED <<pattern, futures, previous, blanks>>

(* ReACT: the last action line if there is a thought before the first, else  *)
(* the final answer, else an illegal response.                               *)
ParseReACT(lines, thought, answer) ==
    IF lines # <<>> /\ thought THEN Last(lines).name ELSE IF answer THEN "finish" ELSE "illegal"

\* The prompt asks for thoughts, actions and, at last, an answer; the model may
\* leave out any of them.
ReACTOutput == {o \in [lines : PlannerOutput, thought : BOOLEAN, answer : BOOLEAN] :
                   plans >= MaxPlans => o.answer}

PlanAction ==
    /\ pattern = "react" /\ Running /\ last.kind \in {"none", "observation"}
    /\ plans' = plans + 1 /\ nextId' = nextId + 1
    /\ \E o \in ReACTOutput :
          LET name == ParseReACT(o.lines, o.thought, o.answer)
              call == [id |-> nextId + 1, name |-> name, index |-> 1, refs |-> <<>>,
                       inputs |-> <<>>]
          IN  CASE name = "finish" -> Become(Answered("text"), "finished")
                [] name = "illegal" -> Fail("illegal response")
                [] OTHER -> Become([NoStep EXCEPT !.kind = "continuation", !.calls = <<call>>],
                                   "running")
    /\ UNCHANGED <<pattern, futures, previous, blanks>>

-----------------------------------------------------------------------------
(* The worker.                                                               *)

Local(name) == {k \in DOMAIN Toolkits : name \in Toolkits[k]}

\* A call once for each toolkit that has its tool.
FilteredCalls(calls) ==
    FlattenSeq([i \in DOMAIN calls |-> [j \in 1..Cardinality(Local(calls[i].name)) |-> calls[i]]])

\* The built-in tools write a message as JSON, which is never blank.
Builtin == {"search", "math"}
Execute(name) == {"error", "text"} \cup (IF name \in Builtin THEN {} ELSE {"blank"})

Future(call) == [id |-> call.id, name |-> call.name, state |-> "queued", attempts |-> 0, result |-> NoResult]
OutOfRange == [id |-> 0, name |-> "none", state |-> "out of range", attempts |-> 0, result |-> NoResult]

\* As many futures as there were calls before filtering.
Submit(calls) ==
    LET filtered == FilteredCalls(calls)
    IN  [i \in DOMAIN calls |-> IF i <= Len(filtered) THEN Future(filtered[i]) ELSE OutOfRange]

\* What the executor makes of the tool messages: an observation, or a pause if
\* some of the calls have no message.
Observe(step, messages) ==
    LET completed == {p \in (DOMAIN step.calls) \X (DOMAIN messages) :
                        step.calls[p[1]].id = messages[p[2]].id}
        seen == [step EXCEPT !.done = messages, !.graph = WithResults(step.graph, messages)]
    IN  IF pattern # "react" /\ Cardinality(completed) # Len(step.calls)
        THEN Become([seen EXCEPT !.kind = "pause"], "paused")
        ELSE Become([seen EXCEPT !.kind = "observation"], "running")

\* ReACTWorker: the first call, on the executor's own thread.
InvokeFirst(calls) ==
    IF Local(calls[1].name) = {} THEN Fail("unresolved") /\ UNCHANGED futures
    ELSE futures' = <<Future(calls[1])>> /\ UNCHANGED <<last, outcome, failure>>

\* LocalToolkitsWorker.
InvokeAll(calls) ==
    IF FilteredCalls(calls) = <<>> THEN Observe(last, <<>>) /\ UNCHANGED futures
    ELSE futures' = Submit(calls) /\ UNCHANGED <<last, outcome, failure>>

ExecuteTools ==
    /\ Running /\ last.kind = "continuation"
    /\ IF last.calls = <<>> THEN Fail("illegal state") /\ UNCHANGED futures
       ELSE IF pattern = "llm_compiler" /\ Len(last.graph) <= 1
            THEN Fail("assertion") /\ UNCHANGED futures
       ELSE IF pattern = "react" THEN InvokeFirst(last.calls) ELSE InvokeAll(last.calls)
    /\ UNCHANGED <<pattern, previous, nextId, plans, blanks>>

\* A thread of the pool runs a tool; an error is tried again MaxAttempts times
\* in all.  Calls whose executor has failed already run, too.
RunTool(i) ==
    /\ futures[i].state = "queued"
    /\ \E output \in Execute(futures[i].name) :
          \/ /\ output = "text"
             /\ futures' = [futures EXCEPT ![i].state = "ready", ![i].result = futures[i].id]
             /\ UNCHANGED blanks
          \/ /\ output = "blank" /\ blanks < MaxBlanks /\ blanks' = blanks + 1
             /\ futures' = [futures EXCEPT ![i].state = "ready"]
          \/ /\ output = "error"
             /\ futures' = [futures EXCEPT ![i].attempts = @ + 1,
                   ![i].state = IF futures[i].attempts + 1 < MaxAttempts THEN "queued" ELSE "error"]
             /\ UNCHANGED blanks
    /\ UNCHANGED <<pattern, last, outcome, failure, previous, nextId, plans>>

\* The futures are awaited in order; the first error abandons the others.
Await ==
    /\ outcome = "running" /\ futures # <<>>
    /\ LET f == Head(futures)
           messages == Append(last.done, [id |-> f.id, result |-> f.result])
       IN  \/ /\ f.state = "error" /\ Fail("tool") /\ futures' = Tail(futures)
           \/ /\ f.state = "out of range" /\ Fail("out of range") /\ futures' = Tail(futures)
           \/ /\ f.state = "ready"
              /\ futures' = Tail(futures)
              /\ IF Len(futures) = 1 THEN Observe(last, messages)
                 ELSE last' = [last EXCEPT !.done = messages] /\ UNCHANGED <<outcome, failure>>
    /\ UNCHANGED <<pattern, previous, nextId, plans, blanks>>

\* The client submits the outputs of all calls of a pause.
SubmitToolOutputs ==
    /\ outcome = "paused"
    /\ \E blank \in BOOLEAN :
          /\ blank => blanks < MaxBlanks
          /\ blanks' = IF blank THEN blanks + 1 ELSE blanks
          /\ last' = [last EXCEPT !.done = [i \in DOMAIN last.calls |->
                 [id |-> last.calls[i].id, result |-> IF blank THEN NoResult ELSE last.calls[i].id]]]
    /\ outcome' = "running"
    /\ UNCHANGED <<pattern, futures, failure, previous, nextId, plans>>

LiftPause ==
    /\ Running /\ last.kind = "pause"
    /\ Become([last EXCEPT !.kind = "observation", !.graph = WithResults(last.graph, last.done)],
              "running")
    /\ UNCHANGED <<pattern, futures, previous, nextId, plans, blanks>>

-----------------------------------------------------------------------------
(* After an observation the LLMCompiler goes on with the graph,              *)
ContinueGraph ==
    LET tasks == FindNextTasks(last.graph)
    IN  /\ pattern = "llm_compiler" /\ Running /\ last.kind = "observation" /\ tasks # <<>>
        /\ Become([last EXCEPT !.kind = "continuation", !.done = <<>>,
                               !.calls = BuildToolCallRequest(last.graph, tasks)], "running")
        /\ UNCHANGED <<pattern, futures, previous, nextId, plans, blanks>>

(* or, when no task is ready, asks the joiner, which finishes or replans.    *)
(* Its text may lack the action, or the answer, which is then "Unknown".     *)
JoinerOutput == [action : {"none", "Finish", "Replan"}, answer : Texts]

JoinerResult(action, answer) ==
    [is_replan |-> action = "Replan",
     answer |-> IF action # "none" /\ answer # "" THEN answer
                ELSE IF action = "Replan" THEN "" ELSE "Unknown"]

Join ==
    /\ pattern = "llm_compiler" /\ Running /\ last.kind = "observation"
    /\ FindNextTasks(last.graph) = <<>>
    /\ \E o \in JoinerOutput :
          LET result == JoinerResult(o.action, o.answer)
          IN  \/ /\ ~ result.is_replan
                 /\ Become([last EXCEPT !.kind = "finish", !.answer = result.answer], "finished")
                 /\ UNCHANGED <<pattern, futures, previous, nextId, plans, blanks>>
              \/ /\ result.is_replan /\ plans < MaxPlans
                 /\ \E lines \in PlannerOutput : Think(lines, TRUE)

AgentInit ==
    /\ pattern \in Patterns
    /\ last = NoStep /\ futures = <<>> /\ outcome = "running" /\ failure = "none"
    /\ previous = <<>> /\ nextId = 1 /\ plans = 0 /\ blanks = 0

Executor == PlanTaskGraph \/ PlanToolCalls \/ PlanAction \/ ExecuteTools \/ Await \/ LiftPause
            \/ ContinueGraph \/ Join
Tools == \E i \in DOMAIN futures : RunTool(i)

AgentNext == Executor \/ Tools \/ SubmitToolOutputs

\* The consumer's thread and the threads of the pool go on; clients need not.
AgentSpec == AgentInit /\ [][AgentNext]_agent /\ WF_agent(Executor) /\ WF_agent(Tools)

-----------------------------------------------------------------------------
\* The prompt asks for unique numbers; nothing checks them, and the number of
\* an added join may be that of an action.
OwnNumber(graph, index) ==
    \A i, j \in DOMAIN graph : graph[i].index = index /\ graph[j].index = index => i = j

NumbersApart(graph) == \A i \in DOMAIN graph : OwnNumber(graph, graph[i].index)

\* The order of a plan is kept: a task that is requested gets, for every
\* one-digit reference in its arguments, the result of the task it names, unless
\* a number is shared: with a join that LLMCompilerPlanerThoughtOutputParser adds
\* under the number of an action, the result of that action is lost, and a blank
\* is put in its place.  When the joiner gives the final answer it is not empty,
\* and a task without a result waits for a number that has none, or shares its
\* number.  A plan whose numbers differ is only given up after some of it was
\* carried out, so that a replanning model has something to read.
PlanIsFollowed ==
    /\ last.kind = "continuation" =>
          \A i \in DOMAIN last.calls : \A k \in DOMAIN last.calls[i].inputs :
              LET ref == last.calls[i].refs[k]
              IN  ref < 10 /\ OwnNumber(last.graph, ref) /\ OwnNumber(last.graph, last.calls[i].index) =>
                    \E j \in DOMAIN last.graph :
                       /\ last.graph[j].index = ref
                       /\ last.graph[j].result = last.calls[i].inputs[k]
                       /\ last.graph[j].result # NoResult
    /\ last.kind = "finish" /\ last.graph # <<>> => last.answer # "" /\
          \A i \in DOMAIN last.graph :
              \/ IsJoin(last.graph[i]) \/ last.graph[i] \in ToSet(BuildAgentScratchPad(last.graph))
              \/ last.graph[i].deps \ Finished(last.graph) # {}
              \/ ~ OwnNumber(last.graph, last.graph[i].index)
    /\ \A i \in DOMAIN previous : NumbersApart(previous[i]) => PlannerContext(previous)[i] # <<>>

\* Every execution comes to an end or to a pause, if the model answers at last
\* and the tools do not return blank results for ever.
AgentEnds == (outcome = "running") ~> (outcome # "running")

\* LocalToolkitsWorker.hpp:35: "only execute tool call that has matching tools
\* in worker": with calls of the user's tools beside local ones the worker runs
\* the local ones and the execution comes to a pause, not to an exception.
UserToolsPause == failure # "out of range"
===============================================================================
