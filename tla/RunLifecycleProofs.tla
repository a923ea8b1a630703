------------------------- MODULE RunLifecycleProofs -------------------------
(***************************************************************************)
(* What holds of a run for any number of consumer threads and of clients    *)
(* that submit tool outputs at the same time, with any number of rounds,    *)
(* cancellations and crashes.                                               *)
(***************************************************************************)
EXTENDS RunLifecycle, SequenceTheorems, TLAPS, FiniteSetTheorems

(* Until the run's row is inserted there is nothing to enqueue or submit.   *)
BornFirst ==
    status = "none" => /\ creator \in {"start", "done"}
                       /\ \A c \in Clients : client[c].pc = "idle"

(* Rows of the step table are never deleted and keep their type and round.  *)
Keeps(q) ==
    /\ q \in Seq(Step)
    /\ Len(q) >= Len(steps)
    /\ \A j \in 1..Len(steps) : q[j].type = steps[j].type /\ q[j].round = steps[j].round

-----------------------------------------------------------------------------
(* Replacing one element of a sequence, if it is there.                     *)
LEMMA SeqUpdate ==
    ASSUME NEW S, NEW f \in Seq(S), NEW k \in Nat, NEW x, k \in 1..Len(f) => x \in S
    PROVE  /\ [f EXCEPT ![k] = x] \in Seq(S)
           /\ Len([f EXCEPT ![k] = x]) = Len(f)
           /\ \A j \in 1..Len(f) : [f EXCEPT ![k] = x][j] = IF j = k THEN x ELSE f[j]
<1> DEFINE g == [f EXCEPT ![k] = x]
<1>1. f \in [1..Len(f) -> S] /\ Len(f) \in Nat
  OBVIOUS
<1>2. g \in [1..Len(f) -> S]
  BY <1>1
<1>3. g \in Seq(S) /\ Len(g) = Len(f)
  BY <1>1, <1>2
<1>4. \A j \in 1..Len(f) : g[j] = IF j = k THEN x ELSE f[j]
  BY <1>1
<1> QED BY <1>3, <1>4

(* UpdateRunStep writes the outputs, the status or both, nothing else.      *)
LEMMA StepUpdate ==
    ASSUME TypeOK, NEW k \in Nat, NEW o \in {"none", "blank", "full"},
           NEW s \in {"in_progress", "completed", "failed"}
    PROVE  /\ Keeps([steps EXCEPT ![k].out = o])
           /\ Keeps([steps EXCEPT ![k].status = s, ![k].out = o])
<1>1. ASSUME k \in 1..Len(steps) PROVE steps[k] \in Step
  BY <1>1 DEF TypeOK
<1> DEFINE x == [steps[k] EXCEPT !.out = o]
           y == [steps[k] EXCEPT !.status = s, !.out = o]
<1>2. ASSUME k \in 1..Len(steps)
      PROVE  /\ x \in Step /\ x.type = steps[k].type /\ x.round = steps[k].round
             /\ y \in Step /\ y.type = steps[k].type /\ y.round = steps[k].round
  BY <1>1, <1>2 DEF Step
<1>3. Keeps([steps EXCEPT ![k] = x])
  <2> HIDE DEF x
  <2> QED BY <1>2, SeqUpdate DEF Keeps, TypeOK
<1>4. Keeps([steps EXCEPT ![k] = y])
  <2> HIDE DEF y
  <2> QED BY <1>2, SeqUpdate DEF Keeps, TypeOK
<1>5. [steps EXCEPT ![k].out = o] = [steps EXCEPT ![k] = x]
  OBVIOUS
<1>6. [steps EXCEPT ![k].status = s, ![k].out = o] = [steps EXCEPT ![k] = y]
  OBVIOUS
<1> QED BY <1>3, <1>4, <1>5, <1>6

(* InsertOneRunStep adds a row at the end.                                  *)
LEMMA StepAppend ==
    ASSUME TypeOK, NEW s \in Step
    PROVE  Keeps(Append(steps, s))
  BY DEF TypeOK, Keeps

(* The locals of Handle stay in their type when single fields are assigned. *)
LEMMA LocalUpdate ==
    ASSUME NEW l \in Local, NEW p \in WorkerPC
    PROVE  /\ [l EXCEPT !.pc = p] \in Local
           /\ \A e \in {"no", "end", "abort"} : [l EXCEPT !.ending = e, !.pc = p] \in Local
           /\ \A f \in {"completed", "failed"} : [l EXCEPT !.pc = p, !.final = f] \in Local
           /\ \A f \in {"completed", "failed"}, e \in {"no", "end", "abort"} :
                 [l EXCEPT !.pc = p, !.final = f, !.ending = e] \in Local
  BY DEF Local

Outs == {"none", "blank", "full"}
Lasts == {"nothing", "continuation", "pause", "observation"}

(* The same for the assignments of ResolveNextStep and of the callbacks.    *)
LEMMA LocalUpdates ==
    ASSUME NEW l \in Local, NEW p \in WorkerPC
    PROVE
      /\ \A r \in 0..MaxRounds, k \in Kind, a \in Lasts, o \in Outs :
            [l EXCEPT !.pc = p, !.kind = k, !.round = r, !.last = a, !.out = o] \in Local
      /\ \A a \in Lasts, k \in Kind, x \in BOOLEAN, r \in 0..MaxRounds, o \in Outs :
            [l EXCEPT !.pc = p, !.last = a, !.kind = k, !.text = x, !.round = r, !.out = o] \in Local
      /\ \A a \in Lasts, o \in Outs :
            [l EXCEPT !.pc = p, !.last = a, !.out = o] \in Local
      /\ \A a \in Lasts :
            [l EXCEPT !.pc = p, !.last = a] \in Local
      /\ \A a \in Lasts, e \in {"no", "end", "abort"} :
            [l EXCEPT !.pc = p, !.last = a, !.ending = e] \in Local
      /\ \A i \in Nat, o \in Outs :
            [l EXCEPT !.pc = p, !.idx = i, !.was = o] \in Local
<1>1. \A r \in 0..MaxRounds, k \in Kind, a \in Lasts, o \in Outs :
        [l EXCEPT !.pc = p, !.kind = k, !.round = r, !.last = a, !.out = o] \in Local
  <2> TAKE r \in 0..MaxRounds, k \in Kind, a \in Lasts, o \in Outs
  <2> DEFINE m == [l EXCEPT !.pc = p, !.kind = k, !.round = r]
  <2>1. m \in Local
    BY DEF Local
  <2>2. [m EXCEPT !.last = a, !.out = o] \in Local
    <3> HIDE DEF m
    <3> QED BY <2>1 DEF Local, Lasts, Outs
  <2>3. [l EXCEPT !.pc = p, !.kind = k, !.round = r, !.last = a, !.out = o]
          = [m EXCEPT !.last = a, !.out = o]
    OBVIOUS
  <2> QED BY <2>2, <2>3
<1>2. \A a \in Lasts, k \in Kind, x \in BOOLEAN, r \in 0..MaxRounds, o \in Outs :
        [l EXCEPT !.pc = p, !.last = a, !.kind = k, !.text = x, !.round = r, !.out = o] \in Local
  <2> TAKE a \in Lasts, k \in Kind, x \in BOOLEAN, r \in 0..MaxRounds, o \in Outs
  <2> DEFINE m == [l EXCEPT !.pc = p, !.last = a, !.kind = k]
  <2>1. m \in Local
    BY DEF Local, Lasts
  <2>2. [m EXCEPT !.text = x, !.round = r, !.out = o] \in Local
    <3> HIDE DEF m
    <3> QED BY <2>1 DEF Local, Outs
  <2>3. [l EXCEPT !.pc = p, !.last = a, !.kind = k, !.text = x, !.round = r, !.out = o]
          = [m EXCEPT !.text = x, !.round = r, !.out = o]
    OBVIOUS
  <2> QED BY <2>2, <2>3
<1>3. \A a \in Lasts, o \in Outs :
        [l EXCEPT !.pc = p, !.last = a, !.out = o] \in Local
  BY DEF Local, Outs, Lasts
<1>4. \A a \in Lasts :
        [l EXCEPT !.pc = p, !.last = a] \in Local
  BY DEF Local, Outs, Lasts
<1>5. \A a \in Lasts, e \in {"no", "end", "abort"} :
        [l EXCEPT !.pc = p, !.last = a, !.ending = e] \in Local
  BY DEF Local, Outs, Lasts
<1>6. \A i \in Nat, o \in Outs :
        [l EXCEPT !.pc = p, !.idx = i, !.was = o] \in Local
  BY DEF Local, Outs, Lasts
<1> QED BY <1>1, <1>2, <1>3, <1>4, <1>5, <1>6

-----------------------------------------------------------------------------
RunType == TypeOK /\ BornFirst

Service ==
    \/ InsertRun \/ EnqueueRun \/ CancelRun \/ DeleteAssistant \/ Crash
    \/ \E c \in Clients : SubmitContinues(c) \/ \E out \in {"blank", "full"} : SubmitCheckRun(c, out)

(* The statements of RunServiceImpl keep the types, and nothing is enqueued *)
(* or submitted before the run exists.                                      *)
LEMMA ServiceType == RunType /\ Service => RunType' /\ Keeps(steps')
<1> SUFFICES ASSUME RunType, Service PROVE RunType' /\ Keeps(steps')
    OBVIOUS
<1> USE RunAssumption DEF RunType, TypeOK, RunStatus, BornFirst
<1>0. Keeps(steps)
  BY DEF Keeps
<1>1. CASE InsertRun
  BY <1>0, <1>1 DEF InsertRun
<1>2. CASE EnqueueRun
  <2>1. status \in RunStatus
    BY <1>2 DEF EnqueueRun
  <2> QED BY <1>0, <1>2, <2>1 DEF EnqueueRun, dbVars
<1>3. CASE CancelRun
  BY <1>0, <1>3 DEF CancelRun
<1>4. CASE DeleteAssistant
  BY <1>0, <1>4 DEF DeleteAssistant
<1>5. CASE Crash
  <2>1. Idle \in Local
    BY DEF Local, Idle, WorkerPC, Kind
  <2> QED BY <1>0, <1>5, <2>1 DEF Crash, NoSubmit, dbVars
<1>6. ASSUME NEW c \in Clients, NEW out \in {"blank", "full"}, SubmitCheckRun(c, out)
      PROVE  RunType' /\ Keeps(steps')
  BY <1>0, <1>6 DEF SubmitCheckRun, dbVars
<1>7. ASSUME NEW c \in Clients, SubmitCheckStep(c) PROVE RunType' /\ Keeps(steps')
  <2>1. Len(steps) \in Nat
    OBVIOUS
  <2>2. status # "none"
    BY <1>7 DEF SubmitCheckStep
  <2> QED BY <1>0, <1>7, <2>1, <2>2, ZenonT(60) DEF SubmitCheckStep, NoSubmit, dbVars
<1>8. ASSUME NEW c \in Clients, SubmitModifyStep(c) PROVE RunType' /\ Keeps(steps')
  <2>1. client[c].idx \in Nat /\ client[c].out \in {"none", "blank", "full"}
    OBVIOUS
  <2>2. Keeps(steps')
    BY <1>8, <2>1, StepUpdate DEF SubmitModifyStep
  <2> QED BY <1>8, <2>2, ZenonT(60) DEF SubmitModifyStep, Keeps
<1>9. ASSUME NEW c \in Clients, SubmitModifyRun(c) PROVE RunType' /\ Keeps(steps')
  BY <1>0, <1>9 DEF SubmitModifyRun
<1>10. ASSUME NEW c \in Clients, SubmitEnqueue(c) PROVE RunType' /\ Keeps(steps')
  <2>1. status \in RunStatus
    BY <1>10 DEF SubmitEnqueue
  <2> QED BY <1>0, <1>10, <2>1 DEF SubmitEnqueue, NoSubmit, dbVars
<1> QED BY <1>1, <1>2, <1>3, <1>4, <1>5, <1>6, <1>7, <1>8, <1>9, <1>10 DEF Service, SubmitContinues

(* The end of a callback leaves the locals and the history in their types.  *)
LEMMA EndCallbackType ==
    ASSUME TypeOK, NEW w \in Workers, EndCallback(w)
    PROVE  /\ worker' \in [Workers -> Local]
           /\ abandoned' \subseteq {"setup", "recover", "early_stop", "crash", "stale_payload"}
<1>1. Idle \in Local
  BY RunAssumption DEF Local, Idle, WorkerPC, Kind
<1>2. [worker[w] EXCEPT !.pc = "resolve"] \in Local
  <2>1. worker[w] \in Local
    BY DEF TypeOK
  <2>2. "resolve" \in WorkerPC
    BY DEF WorkerPC
  <2> QED BY <2>1, <2>2, LocalUpdate
<1>3. worker' \in [Workers -> Local]
  BY <1>1, <1>2 DEF TypeOK, EndCallback
<1> QED BY <1>3 DEF TypeOK, EndCallback

(* Handle up to the executor.                                               *)
LEMMA SetupType ==
    ASSUME RunType, NEW w \in Workers,
           TakeTask(w) \/ MarkInProgress(w) \/ Recover(w) \/ SetupFails(w)
    PROVE  RunType' /\ Keeps(steps')
<1> USE RunAssumption DEF RunType, TypeOK, BornFirst
<1>0. Keeps(steps) /\ Idle \in Local /\ worker[w] \in Local
  BY DEF Keeps, Local, Idle, WorkerPC, Kind
<1>1. CASE TakeTask(w)
  <2>1. [worker[w] EXCEPT !.pc = "start"] \in Local
    BY <1>0, LocalUpdate DEF WorkerPC
  <2>2. worker' \in [Workers -> Local]
    BY <1>1, <2>1 DEF TakeTask
  <2>3. Tail(queue) \in Seq(RunStatus)
    BY <1>1 DEF TakeTask
  <2> QED BY <1>0, <1>1, <2>2, <2>3 DEF TakeTask, dbVars, rest
<1>2. CASE MarkInProgress(w)
  <2>1. [worker[w] EXCEPT !.pc = "setup"] \in Local
    BY <1>0, LocalUpdate DEF WorkerPC
  <2> QED BY <1>0, <1>2, <2>1 DEF MarkInProgress, rest, RunStatus
<1>3. CASE Recover(w)
  <2>1. PICK l \in Recovered(worker[w]) : worker' = [worker EXCEPT ![w] = l]
    BY <1>3 DEF Recover
  <2>2. l \in Local
    <3>1. CASE ToolSteps = {}
      <4>1. l = [worker[w] EXCEPT !.pc = "resolve"]
        BY <2>1, <3>1 DEF Recovered
      <4> QED BY <1>0, <4>1, LocalUpdate DEF WorkerPC
    <3>2. CASE ToolSteps # {}
      <4>1. PICK i \in ToolSteps :
              l = [worker[w] EXCEPT !.pc = "resolve", !.kind = "user", !.round = steps[i].round,
                     !.last = IF steps[i].status = "completed" THEN "observation" ELSE "pause",
                     !.out = steps[i].out]
        BY <2>1, <3>2 DEF Recovered
      <4>2. steps[i].round \in 0..MaxRounds /\ steps[i].out \in {"none", "blank", "full"}
        <5>1. steps[i] \in Step
          BY <4>1 DEF ToolSteps
        <5> QED BY <5>1 DEF Step
      <4>3. ASSUME NEW a \in {"observation", "pause"}
            PROVE  [worker[w] EXCEPT !.pc = "resolve", !.kind = "user", !.round = steps[i].round,
                      !.last = a, !.out = steps[i].out] \in Local
        <5>1. "resolve" \in WorkerPC /\ "user" \in Kind /\ a \in Lasts /\ steps[i].out \in Outs
          BY <4>2 DEF WorkerPC, Kind, Lasts, Outs
        <5> HIDE DEF TypeOK, RunType, BornFirst
        <5> QED BY <1>0, <4>2, <5>1, LocalUpdates, ZenonT(60)
      <4>4. (IF steps[i].status = "completed" THEN "observation" ELSE "pause") \in {"observation", "pause"}
        OBVIOUS
      <4> QED BY <4>1, <4>3, <4>4
    <3> QED BY <3>1, <3>2
  <2> QED BY <1>0, <1>3, <2>1, <2>2 DEF Recover, dbVars, rest
<1>4. CASE SetupFails(w)
  <2>1. worker' \in [Workers -> Local]
    BY <1>0, <1>4 DEF SetupFails
  <2> QED BY <1>0, <1>4, <2>1 DEF SetupFails, dbVars, rest
<1> QED BY <1>1, <1>2, <1>3, <1>4

(* One ResolveNextStep changes locals only, and counts the round.           *)
LEMMA ResolveType ==
    ASSUME RunType, NEW w \in Workers,
           \/ EarlyStop(w) \/ EarlyStopOnEmptyState(w)
           \/ \E kind \in Kind, text \in BOOLEAN : PlanTools(w, kind, text)
           \/ PlanAnswer(w) \/ ExecuteTools(w) \/ Pause(w) \/ LiftPause(w) \/ ResolveThrows(w)
    PROVE  RunType' /\ Keeps(steps')
<1> USE RunAssumption DEF RunType, TypeOK, BornFirst
<1>0. Keeps(steps) /\ Idle \in Local /\ worker[w] \in Local
  BY DEF Keeps, Local, Idle, WorkerPC, Kind
<1>1. CASE EarlyStop(w)
  <2>1. CallbackFor(worker[w].last, worker[w].text) \in WorkerPC
    BY <1>0, <1>1 DEF EarlyStop, CallbackFor, WorkerPC, Local
  <2>2. [worker[w] EXCEPT !.ending = "abort", !.pc = CallbackFor(worker[w].last, worker[w].text)] \in Local
    BY <1>0, <2>1, LocalUpdate
  <2> QED BY <1>0, <1>1, <2>2 DEF EarlyStop, dbVars, rest
<1>2. CASE EarlyStopOnEmptyState(w)
  <2>1. worker' \in [Workers -> Local]
    BY <1>0, <1>2 DEF EarlyStopOnEmptyState
  <2> QED BY <1>0, <1>2, <2>1 DEF EarlyStopOnEmptyState, dbVars, rest
<1>3. ASSUME NEW kind \in Kind, NEW text \in BOOLEAN, PlanTools(w, kind, text)
      PROVE  RunType' /\ Keeps(steps')
  <2>1. CallbackFor("continuation", text) \in WorkerPC
    <3>1. CallbackFor("continuation", text) = IF text THEN "cont_msg" ELSE "cont_tool"
      BY DEF CallbackFor
    <3> QED BY <3>1 DEF WorkerPC
  <2>2. rounds + 1 \in 0..MaxRounds
    <3>1. rounds < MaxRounds
      BY <1>3, Zenon DEF PlanTools
    <3> QED BY <3>1
  <2>3. ASSUME NEW p \in WorkerPC, NEW r \in 0..MaxRounds
        PROVE [worker[w] EXCEPT !.pc = p, !.last = "continuation", !.kind = kind,
                 !.text = text, !.round = r, !.out = "none"] \in Local
    <3>1. "continuation" \in Lasts /\ "none" \in Outs
      BY DEF Lasts, Outs
    <3> HIDE DEF TypeOK, RunType, BornFirst
    <3> QED BY <1>0, <3>1, LocalUpdates, ZenonT(60)
  <2>4. worker' \in [Workers -> Local]
    BY <1>3, <2>1, <2>2, <2>3 DEF PlanTools
  <2> QED BY <1>0, <1>3, <2>2, <2>4 DEF PlanTools, dbVars
<1>4. CASE PlanAnswer(w) \/ ResolveThrows(w)
  <2>1. ASSUME NEW f \in {"completed", "failed"}
        PROVE [worker[w] EXCEPT !.pc = "fin_read", !.final = f, !.ending = "end"] \in Local
    BY <1>0, LocalUpdate DEF WorkerPC
  <2>2. worker' \in [Workers -> Local]
    BY <1>4, <2>1 DEF PlanAnswer, ResolveThrows
  <2> QED BY <1>0, <1>4, <2>2 DEF PlanAnswer, ResolveThrows, dbVars, rest
<1>5. CASE ExecuteTools(w) \/ LiftPause(w)
  <2>1. /\ [worker[w] EXCEPT !.pc = "obs_read", !.last = "observation", !.out = "full"] \in Local
        /\ [worker[w] EXCEPT !.pc = "obs_read", !.last = "observation"] \in Local
    BY <1>0, LocalUpdates, ZenonT(60) DEF WorkerPC, Outs, Lasts
  <2>2. worker' \in [Workers -> Local]
    BY <1>5, <2>1 DEF ExecuteTools, LiftPause
  <2> QED BY <1>0, <1>5, <2>2 DEF ExecuteTools, LiftPause, dbVars, rest
<1>6. CASE Pause(w)
  <2>1. [worker[w] EXCEPT !.pc = "pause_read", !.last = "pause", !.ending = "end"] \in Local
    BY <1>0, LocalUpdates DEF WorkerPC, Outs, Lasts
  <2> QED BY <1>0, <1>6, <2>1 DEF Pause, dbVars, rest
<1> QED BY <1>1, <1>2, <1>3, <1>4, <1>5, <1>6

(* The callbacks: run steps are added or updated in place.                  *)
LEMMA CallbackType ==
    ASSUME RunType, NEW w \in Workers,
           \/ ContinuationMessage(w) \/ ContinuationTools(w) \/ ContinuationRejected(w) \/ ContinuationRun(w)
           \/ ReadLastStep(w) \/ PauseStep(w) \/ PauseRun(w) \/ ObservationRun(w) \/ ObservationStep(w)
    PROVE  RunType' /\ Keeps(steps')
<1> USE RunAssumption DEF RunType, TypeOK, BornFirst
<1>0. Keeps(steps) /\ worker[w] \in Local
  BY DEF Keeps
<1>1. /\ worker[w].round \in 0..MaxRounds /\ worker[w].idx \in Nat
      /\ worker[w].out \in {"none", "blank", "full"} /\ worker[w].was \in {"none", "blank", "full"}
  BY <1>0 DEF Local
<1>2. /\ Keeps(Append(steps, MessageStep(worker[w].round)))
      /\ Keeps(Append(steps, ToolStep(worker[w].round)))
  <2>1. MessageStep(worker[w].round) \in Step /\ ToolStep(worker[w].round) \in Step
    BY <1>1 DEF Step, MessageStep, ToolStep
  <2> QED BY <2>1, StepAppend
<1>3. CASE ContinuationMessage(w)
  <2>1. [worker[w] EXCEPT !.pc = "cont_tool"] \in Local
    BY <1>0, LocalUpdate DEF WorkerPC
  <2> QED BY <1>2, <1>3, <2>1 DEF ContinuationMessage, rest, Keeps
<1>4. CASE ContinuationTools(w)
  <2>1. [worker[w] EXCEPT !.pc = "cont_run"] \in Local
    BY <1>0, LocalUpdate DEF WorkerPC
  <2>2. Keeps(steps')
    BY <1>0, <1>2, <1>4 DEF ContinuationTools
  <2> QED BY <1>4, <2>1, <2>2 DEF ContinuationTools, rest, Keeps
<1>5. CASE ContinuationRejected(w)
  <2>1. [worker[w] EXCEPT !.pc = "fin_read", !.final = "failed", !.ending = "end"] \in Local
    BY <1>0, LocalUpdate DEF WorkerPC
  <2> QED BY <1>0, <1>5, <2>1 DEF ContinuationRejected, dbVars, rest
<1>6. CASE ContinuationRun(w)
  <2>1. EndCallback(w) /\ status' = "in_progress" /\ UNCHANGED <<required, steps, assistant, queue, rest>>
    BY <1>6 DEF ContinuationRun
  <2> QED BY <1>0, <2>1, EndCallbackType DEF rest, RunStatus
<1>7. CASE ReadLastStep(w)
  <2>1. PICK p \in WorkerPC, i \in Nat, o \in Outs :
          worker' = [worker EXCEPT ![w] = [worker[w] EXCEPT !.pc = p, !.idx = i, !.was = o]]
    <3>1. LastRunStep \in Nat /\ (LastRunStep # 0 => LastRunStep \in 1..Len(steps))
      BY DEF LastRunStep
    <3>2. (IF LastRunStep = 0 THEN "none" ELSE steps[LastRunStep].out) \in Outs
      <4>1. CASE LastRunStep = 0
        BY <4>1 DEF Outs
      <4>2. CASE LastRunStep # 0
        <5>1. steps[LastRunStep] \in Step
          BY <3>1, <4>2
        <5> QED BY <4>2, <5>1 DEF Step, Outs
      <4> QED BY <4>1, <4>2
    <3>3. AfterRead(worker[w].pc, worker[w].final) \in WorkerPC
      BY DEF AfterRead, WorkerPC
    <3> HIDE DEF LastRunStep
    <3> QED BY <1>7, <3>1, <3>2, <3>3, Zenon DEF ReadLastStep
  <2>2. [worker[w] EXCEPT !.pc = p, !.idx = i, !.was = o] \in Local
    BY <1>0, LocalUpdates
  <2>3. worker' \in [Workers -> Local]
    BY <2>1, <2>2
  <2>4. UNCHANGED <<dbVars, queue, rest, abandoned>>
    BY <1>7 DEF ReadLastStep
  <2> QED BY <1>0, <2>3, <2>4 DEF dbVars, rest
<1>8. CASE PauseStep(w)
  <2>1. [worker[w] EXCEPT !.pc = "pause_run"] \in Local
    BY <1>0, LocalUpdate DEF WorkerPC
  <2>2. Keeps(steps')
    BY <1>1, <1>8, StepUpdate DEF PauseStep
  <2> QED BY <1>8, <2>1, <2>2 DEF PauseStep, rest, Keeps
<1>9. CASE PauseRun(w)
  <2>1. /\ EndCallback(w) /\ status' = "requires_action" /\ required' \in {"empty", "open"}
        /\ UNCHANGED <<steps, assistant, queue, rest>>
    BY <1>9 DEF PauseRun
  <2> QED BY <1>0, <2>1, EndCallbackType DEF rest, RunStatus
<1>10. CASE ObservationRun(w)
  <2>1. [worker[w] EXCEPT !.pc = "obs_step"] \in Local
    BY <1>0, LocalUpdate DEF WorkerPC
  <2> QED BY <1>0, <1>10, <2>1 DEF ObservationRun, rest, RunStatus
<1>11. CASE ObservationStep(w)
  <2>1. PICK o \in {"none", "blank", "full"} :
          steps' = [steps EXCEPT ![worker[w].idx].status = "completed", ![worker[w].idx].out = o]
    BY <1>1, <1>11, Zenon DEF ObservationStep
  <2>2. Keeps(steps')
    BY <1>1, <2>1, StepUpdate
  <2>3. EndCallback(w) /\ UNCHANGED <<status, required, assistant, queue, rest>>
    BY <1>11 DEF ObservationStep
  <2> QED BY <2>2, <2>3, EndCallbackType DEF rest, Keeps
<1> QED BY <1>3, <1>4, <1>5, <1>6, <1>7, <1>8, <1>9, <1>10, <1>11

(* OnAgentFinish_.                                                          *)
LEMMA FinishType ==
    ASSUME RunType, NEW w \in Workers,
           FinishMessage(w) \/ FinishMessageThrows(w) \/ FinishStep(w) \/ FinishRun(w)
    PROVE  RunType' /\ Keeps(steps')
<1> USE RunAssumption DEF RunType, TypeOK, BornFirst
<1>0. Keeps(steps) /\ worker[w] \in Local /\ Idle \in Local
  BY DEF Keeps, Local, Idle, WorkerPC, Kind
<1>1. /\ worker[w].idx \in Nat /\ worker[w].was \in {"none", "blank", "full"}
      /\ worker[w].final \in {"completed", "failed"}
  BY <1>0 DEF Local
<1>2. CASE FinishMessage(w)
  <2>1. MessageStep(0) \in Step
    BY DEF MessageStep, Step
  <2>2. Keeps(Append(steps, MessageStep(0)))
    BY <2>1, StepAppend
  <2>3. /\ [worker[w] EXCEPT !.pc = "fin_run"] \in Local
        /\ [worker[w] EXCEPT !.pc = "fin_step"] \in Local
    BY <1>0, LocalUpdate DEF WorkerPC
  <2> QED BY <1>2, <2>2, <2>3 DEF FinishMessage, rest, Keeps
<1>3. CASE FinishMessageThrows(w)
  <2>1. [worker[w] EXCEPT !.pc = "fin_read", !.final = "failed"] \in Local
    BY <1>0, LocalUpdate DEF WorkerPC
  <2> QED BY <1>0, <1>3, <2>1 DEF FinishMessageThrows, dbVars, rest
<1>4. CASE FinishStep(w)
  <2>1. [worker[w] EXCEPT !.pc = "fin_run"] \in Local
    BY <1>0, LocalUpdate DEF WorkerPC
  <2>2. Keeps(steps')
    BY <1>1, <1>4, StepUpdate DEF FinishStep
  <2> QED BY <1>4, <2>1, <2>2 DEF FinishStep, rest, Keeps
<1>5. CASE FinishRun(w)
  BY <1>0, <1>1, <1>5 DEF FinishRun, rest, RunStatus
<1> QED BY <1>2, <1>3, <1>4, <1>5

(* The conjuncts of Next by the lemma that covers them.                     *)
LEMMA NextCases ==
    ASSUME Next
    PROVE  \/ Service
           \/ \E w \in Workers :
                \/ TakeTask(w) \/ MarkInProgress(w) \/ Recover(w) \/ SetupFails(w)
                \/ \/ EarlyStop(w) \/ EarlyStopOnEmptyState(w)
                   \/ \E kind \in Kind, text \in BOOLEAN : PlanTools(w, kind, text)
                   \/ PlanAnswer(w) \/ ExecuteTools(w) \/ Pause(w) \/ LiftPause(w) \/ ResolveThrows(w)
                \/ \/ ContinuationMessage(w) \/ ContinuationTools(w) \/ ContinuationRejected(w) \/ ContinuationRun(w)
                   \/ ReadLastStep(w) \/ PauseStep(w) \/ PauseRun(w) \/ ObservationRun(w) \/ ObservationStep(w)
                \/ FinishMessage(w) \/ FinishMessageThrows(w) \/ FinishStep(w) \/ FinishRun(w)
  BY Zenon DEF Next, Handle, Service

(* Every step keeps the types and every row of the step table.              *)
LEMMA RunTypeStep == RunType /\ [Next]_vars => RunType' /\ Keeps(steps')
<1> SUFFICES ASSUME RunType, [Next]_vars PROVE RunType' /\ Keeps(steps')
    OBVIOUS
<1>1. CASE UNCHANGED vars
  <2>1. Keeps(steps)
    BY DEF Keeps, RunType, TypeOK
  <2> QED BY <1>1, <2>1 DEF vars, dbVars, RunType, TypeOK, BornFirst
<1>2. CASE Next
  BY <1>2, NextCases, ServiceType, SetupType, ResolveType, CallbackType, FinishType
<1> QED BY <1>1, <1>2

(* The variables keep their types, and nothing is enqueued or submitted     *)
(* before the run's row exists, for any number of threads, clients, rounds, *)
(* cancellations and crashes.                                               *)
THEOREM RunTypeCorrect == Spec => [](TypeOK /\ BornFirst)
<1>1. Init => RunType
  BY RunAssumption DEF Init, RunType, TypeOK, BornFirst, Idle, NoSubmit, Local, WorkerPC, Kind
<1> QED BY <1>1, RunTypeStep, PTL DEF Spec, RunType

-----------------------------------------------------------------------------
HasAnswer ==
    \E i \in 1..Len(steps) : steps[i].type = "message_creation" /\ steps[i].round = 0

(* A Handle call that is about to close the run as completed.               *)
Closing(l) == l.pc \in {"fin_step", "fin_run"} /\ l.final = "completed"

(* The strengthening of CompletedHasAnswer: also whoever is about to close  *)
(* the run has stored the answer, so that it does not matter which of       *)
(* several executions of the run gets there first.                          *)
AnswerInv == /\ status = "completed" => HasAnswer
             /\ \A w \in Workers : Closing(worker[w]) => HasAnswer

(* A stored answer stays.                                                   *)
LEMMA AnswerStays ==
    ASSUME RunType, Keeps(steps'), HasAnswer
    PROVE  HasAnswer'
<1>1. PICK i \in 1..Len(steps) : steps[i].type = "message_creation" /\ steps[i].round = 0
  BY DEF HasAnswer
<1>2. i \in 1..Len(steps')
  BY DEF Keeps, RunType, TypeOK
<1> QED BY <1>1, <1>2 DEF Keeps, HasAnswer

(* An assignment of pc decides whether a Handle call is closing.            *)
LEMMA NotClosing ==
    ASSUME NEW l \in Local, NEW p \in WorkerPC, p \notin {"fin_step", "fin_run"}
    PROVE  /\ ~Closing([l EXCEPT !.pc = p])
           /\ ~Closing(Idle)
           /\ \A e \in {"no", "end", "abort"} : ~Closing([l EXCEPT !.ending = e, !.pc = p])
           /\ \A f \in {"completed", "failed"} : ~Closing([l EXCEPT !.pc = p, !.final = f])
           /\ \A f \in {"completed", "failed"}, e \in {"no", "end", "abort"} :
                 ~Closing([l EXCEPT !.pc = p, !.final = f, !.ending = e])
  BY DEF Local, Closing, Idle

(* The same for the assignments of ResolveNextStep and of the callbacks.    *)
LEMMA NotClosingUpdates ==
    ASSUME NEW l \in Local, NEW p \in WorkerPC, p \notin {"fin_step", "fin_run"}
    PROVE
      /\ \A r \in 0..MaxRounds, k \in Kind, a \in Lasts, o \in Outs :
            ~Closing([l EXCEPT !.pc = p, !.kind = k, !.round = r, !.last = a, !.out = o])
      /\ \A a \in Lasts, k \in Kind, x \in BOOLEAN, r \in 0..MaxRounds, o \in Outs :
            ~Closing([l EXCEPT !.pc = p, !.last = a, !.kind = k, !.text = x, !.round = r, !.out = o])
      /\ \A a \in Lasts, o \in Outs :
            ~Closing([l EXCEPT !.pc = p, !.last = a, !.out = o])
      /\ \A a \in Lasts :
            ~Closing([l EXCEPT !.pc = p, !.last = a])
      /\ \A a \in Lasts, e \in {"no", "end", "abort"} :
            ~Closing([l EXCEPT !.pc = p, !.last = a, !.ending = e])
      /\ \A i \in Nat, o \in Outs :
            ~Closing([l EXCEPT !.pc = p, !.idx = i, !.was = o])
<1>1. \A r \in 0..MaxRounds, k \in Kind, a \in Lasts, o \in Outs :
        ~Closing([l EXCEPT !.pc = p, !.kind = k, !.round = r, !.last = a, !.out = o])
  BY DEF Local, Closing
<1>2. \A a \in Lasts, k \in Kind, x \in BOOLEAN, r \in 0..MaxRounds, o \in Outs :
        ~Closing([l EXCEPT !.pc = p, !.last = a, !.kind = k, !.text = x, !.round = r, !.out = o])
  BY DEF Local, Closing
<1>3. \A a \in Lasts, o \in Outs :
        ~Closing([l EXCEPT !.pc = p, !.last = a, !.out = o])
  BY DEF Local, Closing
<1>4. \A a \in Lasts :
        ~Closing([l EXCEPT !.pc = p, !.last = a])
  BY DEF Local, Closing
<1>5. \A a \in Lasts, e \in {"no", "end", "abort"} :
        ~Closing([l EXCEPT !.pc = p, !.last = a, !.ending = e])
  BY DEF Local, Closing
<1>6. \A i \in Nat, o \in Outs :
        ~Closing([l EXCEPT !.pc = p, !.idx = i, !.was = o])
  BY DEF Local, Closing
<1> QED BY <1>1, <1>2, <1>3, <1>4, <1>5, <1>6

(* Unless the answer is stored, a step of Handle does not get to closing    *)
(* the run and does not close it.                                           *)
Harmless(w) == status' # "completed" /\ \E l : worker' = [worker EXCEPT ![w] = l] /\ ~Closing(l)

(* Handle up to the executor.                                               *)
LEMMA SetupHarmless ==
    ASSUME RunType, status # "completed", NEW w \in Workers, ~Closing(worker[w]),
           TakeTask(w) \/ MarkInProgress(w) \/ Recover(w) \/ SetupFails(w)
    PROVE  Harmless(w)
<1>0. worker[w] \in Local /\ worker = [worker EXCEPT ![w] = worker[w]] /\ ~Closing(Idle)
  BY DEF RunType, TypeOK, Closing, Idle
<1>1. CASE TakeTask(w)
  <2>1. ~Closing([worker[w] EXCEPT !.pc = "start"])
    BY <1>0, NotClosing DEF WorkerPC
  <2> QED BY <1>0, <1>1, <2>1 DEF TakeTask, dbVars, Harmless
<1>2. CASE MarkInProgress(w)
  <2>1. ~Closing([worker[w] EXCEPT !.pc = "setup"])
    BY <1>0, NotClosing DEF WorkerPC
  <2> QED BY <1>2, <2>1 DEF MarkInProgress, Harmless
<1>3. CASE Recover(w)
  <2>1. PICK l \in Recovered(worker[w]) : worker' = [worker EXCEPT ![w] = l]
    BY <1>3 DEF Recover
  <2>2. l.pc = "resolve"
    <3>1. CASE ToolSteps = {}
      BY <1>0, <2>1, <3>1 DEF Recovered, Local
    <3>2. CASE ToolSteps # {}
      <4>1. PICK i \in ToolSteps :
              l = [worker[w] EXCEPT !.pc = "resolve", !.kind = "user", !.round = steps[i].round,
                     !.last = IF steps[i].status = "completed" THEN "observation" ELSE "pause",
                     !.out = steps[i].out]
        BY <2>1, <3>2 DEF Recovered
      <4> QED BY <1>0, <4>1 DEF Local
    <3> QED BY <3>1, <3>2
  <2>3. ~Closing(l)
    BY <2>2 DEF Closing
  <2> QED BY <1>3, <2>1, <2>3 DEF Recover, dbVars, Harmless
<1>4. CASE SetupFails(w)
  BY <1>0, <1>4 DEF SetupFails, dbVars, Harmless
<1> QED BY <1>1, <1>2, <1>3, <1>4

(* One ResolveNextStep.                                                     *)
LEMMA ResolveHarmless ==
    ASSUME RunType, status # "completed", NEW w \in Workers,
           \/ EarlyStop(w) \/ EarlyStopOnEmptyState(w)
           \/ \E kind \in Kind, text \in BOOLEAN : PlanTools(w, kind, text)
           \/ PlanAnswer(w) \/ ExecuteTools(w) \/ Pause(w) \/ LiftPause(w) \/ ResolveThrows(w)
    PROVE  Harmless(w)
<1>0. worker[w] \in Local /\ ~Closing(Idle)
  BY DEF RunType, TypeOK, Closing, Idle
<1>1. CASE EarlyStop(w)
  <2>1. /\ CallbackFor(worker[w].last, worker[w].text) \in WorkerPC
        /\ CallbackFor(worker[w].last, worker[w].text) \notin {"fin_step", "fin_run"}
    BY <1>0, <1>1 DEF EarlyStop, CallbackFor, WorkerPC, Local
  <2>2. ~Closing([worker[w] EXCEPT !.ending = "abort", !.pc = CallbackFor(worker[w].last, worker[w].text)])
    BY <1>0, <2>1, NotClosing
  <2> QED BY <1>1, <2>2 DEF EarlyStop, dbVars, Harmless
<1>2. CASE EarlyStopOnEmptyState(w)
  BY <1>0, <1>2 DEF EarlyStopOnEmptyState, dbVars, Harmless
<1>3. ASSUME NEW kind \in Kind, NEW text \in BOOLEAN, PlanTools(w, kind, text) PROVE Harmless(w)
  <2> DEFINE p == CallbackFor("continuation", text)
  <2>1. p \in WorkerPC /\ p \notin {"fin_step", "fin_run"}
    <3>1. p = IF text THEN "cont_msg" ELSE "cont_tool"
      BY DEF CallbackFor
    <3> QED BY <3>1 DEF WorkerPC
  <2>2. rounds + 1 \in 0..MaxRounds
    <3>1. rounds < MaxRounds
      BY <1>3, Zenon DEF PlanTools
    <3> QED BY <3>1, RunAssumption DEF RunType, TypeOK
  <2>3. "continuation" \in Lasts /\ "none" \in Outs
    BY DEF Lasts, Outs
  <2> DEFINE l == [worker[w] EXCEPT !.pc = p, !.last = "continuation", !.kind = kind,
                     !.text = text, !.round = rounds + 1, !.out = "none"]
  <2>4. ~Closing(l)
    <3> HIDE DEF p
    <3> QED BY <1>0, <2>1, <2>2, <2>3, NotClosingUpdates, ZenonT(60)
  <2>5. worker' = [worker EXCEPT ![w] = l] /\ status' = status
    BY <1>3 DEF PlanTools, dbVars
  <2> HIDE DEF l
  <2> QED BY <2>4, <2>5 DEF Harmless
<1>4. CASE PlanAnswer(w) \/ ResolveThrows(w)
  <2>1. \A f \in {"completed", "failed"} :
          ~Closing([worker[w] EXCEPT !.pc = "fin_read", !.final = f, !.ending = "end"])
    BY <1>0, NotClosing DEF WorkerPC
  <2> QED BY <1>4, <2>1, ZenonT(60) DEF PlanAnswer, ResolveThrows, dbVars, Harmless
<1>5. CASE ExecuteTools(w) \/ LiftPause(w)
  <2>1. /\ ~Closing([worker[w] EXCEPT !.pc = "obs_read", !.last = "observation", !.out = "full"])
        /\ ~Closing([worker[w] EXCEPT !.pc = "obs_read", !.last = "observation"])
    BY <1>0, NotClosingUpdates, ZenonT(60) DEF WorkerPC, Outs, Lasts
  <2> QED BY <1>5, <2>1 DEF ExecuteTools, LiftPause, dbVars, Harmless
<1>6. CASE Pause(w)
  <2>1. ~Closing([worker[w] EXCEPT !.pc = "pause_read", !.last = "pause", !.ending = "end"])
    BY <1>0, NotClosingUpdates DEF WorkerPC, Outs, Lasts
  <2> QED BY <1>6, <2>1 DEF Pause, dbVars, Harmless
<1> QED BY <1>1, <1>2, <1>3, <1>4, <1>5, <1>6

(* The end of a callback resolves another step or leaves Handle.            *)
LEMMA EndCallbackHarmless ==
    ASSUME RunType, NEW w \in Workers, EndCallback(w), status' # "completed"
    PROVE  Harmless(w)
<1>1. ~Closing(Idle)
  BY DEF Closing, Idle
<1>2. ~Closing([worker[w] EXCEPT !.pc = "resolve"])
  <2>1. worker[w] \in Local /\ "resolve" \in WorkerPC
    BY DEF RunType, TypeOK, WorkerPC
  <2> QED BY <2>1, NotClosing
<1> DEFINE l == IF worker[w].ending = "no" THEN [worker[w] EXCEPT !.pc = "resolve"] ELSE Idle
<1>3. ~Closing(l)
  BY <1>1, <1>2
<1>4. worker' = [worker EXCEPT ![w] = l]
  BY DEF EndCallback
<1> HIDE DEF l
<1> QED BY <1>3, <1>4 DEF Harmless

(* The callbacks.  OnAgentFinish_ goes from reading the step directly to    *)
(* closing it only when the run failed.                                     *)
LEMMA CallbackHarmless ==
    ASSUME RunType, status # "completed", NEW w \in Workers,
           \/ ContinuationMessage(w) \/ ContinuationTools(w) \/ ContinuationRejected(w) \/ ContinuationRun(w)
           \/ ReadLastStep(w) \/ PauseStep(w) \/ PauseRun(w) \/ ObservationRun(w) \/ ObservationStep(w)
    PROVE  Harmless(w)
<1>0. worker[w] \in Local
  BY DEF RunType, TypeOK
<1>1. CASE ContinuationMessage(w)
  <2>1. ~Closing([worker[w] EXCEPT !.pc = "cont_tool"])
    BY <1>0, NotClosing DEF WorkerPC
  <2> QED BY <1>1, <2>1 DEF ContinuationMessage, Harmless
<1>2. CASE ContinuationTools(w)
  <2>1. ~Closing([worker[w] EXCEPT !.pc = "cont_run"])
    BY <1>0, NotClosing DEF WorkerPC
  <2> QED BY <1>2, <2>1 DEF ContinuationTools, Harmless
<1>3. CASE ContinuationRejected(w)
  <2>1. ~Closing([worker[w] EXCEPT !.pc = "fin_read", !.final = "failed", !.ending = "end"])
    BY <1>0, NotClosing DEF WorkerPC
  <2> QED BY <1>3, <2>1 DEF ContinuationRejected, dbVars, Harmless
<1>4. CASE ContinuationRun(w)
  <2>1. EndCallback(w) /\ status' # "completed"
    BY <1>4 DEF ContinuationRun
  <2> QED BY <2>1, EndCallbackHarmless
<1>5. CASE ReadLastStep(w)
  <2> DEFINE p == AfterRead(worker[w].pc, worker[w].final)
             o == IF LastRunStep = 0 THEN "none" ELSE steps[LastRunStep].out
             l == [worker[w] EXCEPT !.pc = p, !.idx = LastRunStep, !.was = o]
  <2>1. p \in {"fin_step", "fin_run"} => worker[w].final # "completed"
    BY DEF AfterRead
  <2>2. l.pc = p /\ l.final = worker[w].final
    <3> HIDE DEF p, o
    <3> QED BY <1>0 DEF Local
  <2>3. ~Closing(l)
    <3> HIDE DEF p, l
    <3> QED BY <2>1, <2>2 DEF Closing
  <2>4. worker' = [worker EXCEPT ![w] = l] /\ status' = status
    BY <1>5, Zenon DEF ReadLastStep, dbVars
  <2> HIDE DEF l
  <2> QED BY <2>3, <2>4 DEF Harmless
<1>6. CASE PauseStep(w)
  <2>1. ~Closing([worker[w] EXCEPT !.pc = "pause_run"])
    BY <1>0, NotClosing DEF WorkerPC
  <2> QED BY <1>6, <2>1 DEF PauseStep, Harmless
<1>7. CASE PauseRun(w)
  <2>1. EndCallback(w) /\ status' # "completed"
    BY <1>7 DEF PauseRun
  <2> QED BY <2>1, EndCallbackHarmless
<1>8. CASE ObservationRun(w)
  <2>1. ~Closing([worker[w] EXCEPT !.pc = "obs_step"])
    BY <1>0, NotClosing DEF WorkerPC
  <2> QED BY <1>8, <2>1 DEF ObservationRun, Harmless
<1>9. CASE ObservationStep(w)
  <2>1. EndCallback(w) /\ status' # "completed"
    BY <1>9 DEF ObservationStep
  <2> QED BY <2>1, EndCallbackHarmless
<1> QED BY <1>1, <1>2, <1>3, <1>4, <1>5, <1>6, <1>7, <1>8, <1>9

(* OnAgentFinish_: the answer is stored before anything is closed.          *)
LEMMA FinishHarmless ==
    ASSUME RunType, status # "completed", NEW w \in Workers, ~Closing(worker[w]),
           FinishMessage(w) \/ FinishMessageThrows(w) \/ FinishStep(w) \/ FinishRun(w)
    PROVE  HasAnswer' \/ Harmless(w)
<1>0. worker[w] \in Local
  BY DEF RunType, TypeOK
<1>1. CASE FinishMessage(w)
  <2>1. steps' = Append(steps, MessageStep(0)) /\ steps \in Seq(Step)
    BY <1>1 DEF FinishMessage, RunType, TypeOK
  <2>2. Len(steps') = Len(steps) + 1 /\ Len(steps) \in Nat /\ steps'[Len(steps) + 1] = MessageStep(0)
    BY <2>1
  <2>3. Len(steps) + 1 \in 1..Len(steps')
    BY <2>2
  <2> QED BY <2>2, <2>3 DEF HasAnswer, MessageStep
<1>2. CASE FinishMessageThrows(w)
  <2>1. ~Closing([worker[w] EXCEPT !.pc = "fin_read", !.final = "failed"])
    BY <1>0, NotClosing DEF WorkerPC
  <2> QED BY <1>2, <2>1 DEF FinishMessageThrows, dbVars, Harmless
<1>3. CASE FinishStep(w)
  <2> DEFINE l == [worker[w] EXCEPT !.pc = "fin_run"]
  <2>1. worker[w].final # "completed"
    BY <1>3 DEF FinishStep, Closing
  <2>2. l.final = worker[w].final
    BY <1>0 DEF Local
  <2>3. ~Closing(l)
    BY <2>1, <2>2 DEF Closing
  <2>4. worker' = [worker EXCEPT ![w] = l] /\ status' = status
    BY <1>3 DEF FinishStep
  <2> HIDE DEF l
  <2> QED BY <2>3, <2>4 DEF Harmless
<1>4. CASE FinishRun(w)
  <2>1. worker[w].final # "completed" /\ ~Closing(Idle)
    BY <1>4 DEF FinishRun, Closing, Idle
  <2> QED BY <1>4, <2>1 DEF FinishRun, Harmless
<1> QED BY <1>1, <1>2, <1>3, <1>4

(* A request or a crash neither completes the run nor moves a Handle call   *)
(* towards it.                                                              *)
LEMMA ServiceHarmless ==
    ASSUME status # "completed", \A w \in Workers : ~Closing(worker[w]), Service
    PROVE  status' # "completed" /\ \A w \in Workers : ~Closing(worker'[w])
<1>1. CASE Crash
  <2>1. ~Closing(Idle)
    BY DEF Closing, Idle
  <2> QED BY <1>1, <2>1 DEF Crash, dbVars
<1>2. CASE InsertRun \/ EnqueueRun \/ CancelRun \/ DeleteAssistant
  BY <1>2 DEF InsertRun, EnqueueRun, CancelRun, DeleteAssistant, dbVars
<1>3. ASSUME NEW c \in Clients, NEW out \in {"blank", "full"}, SubmitCheckRun(c, out)
      PROVE  UNCHANGED <<status, worker>>
  BY <1>3 DEF SubmitCheckRun, dbVars
<1>4. ASSUME NEW c \in Clients, SubmitCheckStep(c) \/ SubmitModifyStep(c) \/ SubmitModifyRun(c) \/ SubmitEnqueue(c)
      PROVE  worker' = worker /\ status' \in {status, "queued"}
  BY <1>4, Zenon DEF SubmitCheckStep, SubmitModifyStep, SubmitModifyRun, SubmitEnqueue, dbVars
<1> QED BY <1>1, <1>2, <1>3, <1>4 DEF Service, SubmitContinues

(* Whoever closes the run has stored the answer.                            *)
LEMMA AnswerStep == RunType /\ AnswerInv /\ [Next]_vars => AnswerInv'
<1> SUFFICES ASSUME RunType, AnswerInv, [Next]_vars, ~HasAnswer' PROVE AnswerInv'
    BY DEF AnswerInv
<1>1. RunType' /\ Keeps(steps')
  BY RunTypeStep
<1>2. ~HasAnswer
  BY <1>1, AnswerStays
<1>3. status # "completed" /\ \A w \in Workers : ~Closing(worker[w])
  BY <1>2 DEF AnswerInv
<1>4. ASSUME NEW w \in Workers, Harmless(w) PROVE AnswerInv'
  <2>1. PICK l : worker' = [worker EXCEPT ![w] = l] /\ ~Closing(l)
    BY <1>4 DEF Harmless
  <2>2. \A u \in Workers : worker'[u] = IF u = w THEN l ELSE worker[u]
    BY <2>1 DEF RunType, TypeOK
  <2>3. \A u \in Workers : ~Closing(worker'[u])
    BY <1>3, <2>1, <2>2
  <2> QED BY <1>4, <2>3 DEF AnswerInv, Harmless, Closing
<1>5. CASE UNCHANGED vars
  BY <1>3, <1>5 DEF vars, dbVars, AnswerInv, Closing
<1>6. CASE Service
  <2>1. status' # "completed" /\ \A w \in Workers : ~Closing(worker'[w])
    BY <1>3, <1>6, ServiceHarmless
  <2> QED BY <2>1 DEF AnswerInv, Closing
<1>7. CASE \E w \in Workers : Handle(w)
  <2>1. PICK w \in Workers : Handle(w)
    BY <1>7
  <2>2. Harmless(w)
    BY <1>3, <2>1, SetupHarmless, ResolveHarmless, CallbackHarmless, FinishHarmless DEF Handle
  <2> QED BY <1>4, <2>2
<1> QED BY <1>5, <1>6, <1>7 DEF Next, Service

(* A run is completed only after its answer was stored: for any number of   *)
(* consumer threads, also when concurrent submissions make several of them  *)
(* execute the run, and across cancellations and crashes.                   *)
THEOREM AnswerBeforeCompletion == Spec => []CompletedHasAnswer
<1>1. Init => AnswerInv
  BY DEF Init, AnswerInv, Closing, Idle
<1>2. AnswerInv => CompletedHasAnswer
  BY DEF AnswerInv, HasAnswer, CompletedHasAnswer
<1>3. Spec => []RunType
  BY RunTypeCorrect DEF RunType
<1> QED BY <1>1, <1>2, <1>3, AnswerStep, PTL DEF Spec

-----------------------------------------------------------------------------
(* Who works on a run: that it is never left behind silently, and, until    *)
(* two submissions of its tool outputs overlap, that it is executed once,   *)
(* stays finished and can be answered when it waits for the user.           *)

PausePC == {"pause_read", "pause_step", "pause_run"}
FinishPC == {"fin_read", "fin_msg", "fin_step", "fin_run"}

(* The executor loop is over only in the callbacks that close or pause the  *)
(* run; a pause is always the last callback.                                *)
EndingOK(pc, ending) == /\ ending = "end" => pc \in PausePC \cup FinishPC
                        /\ pc \in PausePC => ending # "no"

EndingInv == \A w \in Workers : EndingOK(worker[w].pc, worker[w].ending)

(* Somebody has the run or is about to hand it to the scheduler.            *)
Busy == \/ queue # <<>> \/ creator = "enqueue"
        \/ \E c \in Clients : client[c].pc \in {"modstep", "modrun", "enqueue"}
        \/ \E w \in Workers : Active(w)

StallInv == status \in {"queued", "in_progress"} /\ abandoned = {} => Busy

Quiet == queue = <<>> /\ creator # "enqueue" /\ \A w \in Workers : ~Active(w)

NoRequest == \A c \in Clients : client[c].pc = "idle"

(* The run is one token, held by CreateRun, a request, the queue or a       *)
(* consumer, or by nobody: while it waits for the user or is finished.      *)
OneToken ==
    /\ Len(queue) <= 1
    /\ queue # <<>> => creator # "enqueue" /\ \A w \in Workers : ~Active(w)
    /\ creator = "enqueue" => \A w \in Workers : ~Active(w)
    /\ \A u, v \in Workers : Active(u) /\ Active(v) => u = v
    /\ \A c, d \in Clients : client[c].pc # "idle" /\ client[d].pc # "idle" => c = d
    /\ \A c \in Clients : /\ client[c].pc # "idle" => Quiet
                          /\ client[c].pc = "enqueue" => status \in {"queued", "cancelling"}
    /\ status = "requires_action" => Quiet
    /\ status \in Terminal => Quiet /\ NoRequest
    /\ status = "none" => Quiet /\ NoRequest
    /\ creator = "start" => status = "none"

(* ... until two submissions overlap.                                       *)
TokenInv == overlaps = 0 => OneToken

OpenStep ==
    /\ steps # <<>>
    /\ steps[Len(steps)].type = "tool_calls"
    /\ steps[Len(steps)].status = "in_progress"
    /\ steps[Len(steps)].round = rounds

(* What a Handle call knows about the newest step, by its place.            *)
Asking(pc, ending, last, kind, round, out) ==
    /\ ending # "abort"
    /\ pc \in {"idle", "start", "setup"} => last = "nothing"
    /\ pc \in {"obs_read", "obs_run", "obs_step"} => last = "observation"
    /\ last = "continuation" => out = "none"
    /\ pc \in {"cont_msg", "cont_tool", "cont_run"} => last = "continuation"
    /\ pc \in {"cont_msg", "cont_tool"} => round = rounds
    /\ pc = "cont_run" /\ kind # "empty" => OpenStep
    /\ pc = "resolve" /\ last = "continuation" /\ kind = "user" => OpenStep
    /\ pc \in PausePC => out = "none" /\ OpenStep

AskingInv(w) == Asking(worker[w].pc, worker[w].ending, worker[w].last,
                       worker[w].kind, worker[w].round, worker[w].out)

PauseInv ==
    cancels = 0 =>
        /\ status \notin {"cancelling", "cancelled", "expired"}
        /\ status = "requires_action" => required = "open" /\ OpenStep
        /\ \A w \in Workers : AskingInv(w)

-----------------------------------------------------------------------------
(* The locals of Handle that decide who has the run.                        *)
Has(m, p, e, a, k, r, o) ==
    m.pc = p /\ m.ending = e /\ m.last = a /\ m.kind = k /\ m.round = r /\ m.out = o

(* A step of Handle that gives the locals of w these values.                *)
Becomes(w, p, e, a, k, r, o) ==
    /\ Has(worker'[w], p, e, a, k, r, o)
    /\ \A u \in Workers : u # w => worker'[u] = worker[u]

(* A step that moves w to another place and leaves these locals alone.      *)
MovesTo(w, p) ==
    Becomes(w, p, worker[w].ending, worker[w].last, worker[w].kind, worker[w].round, worker[w].out)

(* A step after which Handle has returned.                                  *)
Returns(w) == Becomes(w, "idle", "no", "nothing", "empty", 0, "none")

(* Assignments to single locals leave the others alone.                     *)
LEMMA LocalFields ==
    ASSUME NEW l \in Local
    PROVE
      /\ \A p : Has([l EXCEPT !.pc = p], p, l.ending, l.last, l.kind, l.round, l.out)
      /\ \A p, e : Has([l EXCEPT !.ending = e, !.pc = p], p, e, l.last, l.kind, l.round, l.out)
      /\ \A p, f : Has([l EXCEPT !.pc = p, !.final = f], p, l.ending, l.last, l.kind, l.round, l.out)
      /\ \A p, f, e : Has([l EXCEPT !.pc = p, !.final = f, !.ending = e], p, e, l.last, l.kind, l.round, l.out)
      /\ \A p, k, r, a, o :
            Has([l EXCEPT !.pc = p, !.kind = k, !.round = r, !.last = a, !.out = o], p, l.ending, a, k, r, o)
      /\ \A p, a, k, x, r, o :
            Has([l EXCEPT !.pc = p, !.last = a, !.kind = k, !.text = x, !.round = r, !.out = o],
                p, l.ending, a, k, r, o)
      /\ \A p, a, o : Has([l EXCEPT !.pc = p, !.last = a, !.out = o], p, l.ending, a, l.kind, l.round, o)
      /\ \A p, a : Has([l EXCEPT !.pc = p, !.last = a], p, l.ending, a, l.kind, l.round, l.out)
      /\ \A p, a, e : Has([l EXCEPT !.pc = p, !.last = a, !.ending = e], p, e, a, l.kind, l.round, l.out)
      /\ \A p, i, o : Has([l EXCEPT !.pc = p, !.idx = i, !.was = o], p, l.ending, l.last, l.kind, l.round, l.out)
  BY DEF Local, Has

(* Replacing the locals of w leaves the other threads alone.                *)
LEMMA Replaces ==
    ASSUME TypeOK, NEW w \in Workers, NEW m, worker' = [worker EXCEPT ![w] = m],
           NEW p, NEW e, NEW a, NEW k, NEW r, NEW o, Has(m, p, e, a, k, r, o)
    PROVE  Becomes(w, p, e, a, k, r, o)
  BY DEF TypeOK, Becomes

(* The end of a callback resolves another step or leaves Handle.            *)
LEMMA EndCallbackEffect ==
    ASSUME TypeOK, NEW w \in Workers, EndCallback(w)
    PROVE  /\ worker[w].ending = "no" => MovesTo(w, "resolve") /\ abandoned' = abandoned
           /\ worker[w].ending # "no" => Returns(w)
           /\ worker[w].ending = "abort" => abandoned' # {}
           /\ worker[w].ending # "abort" => abandoned' = abandoned
<1>1. worker[w] \in Local
  BY DEF TypeOK
<1>2. CASE worker[w].ending = "no"
  <2>1. worker' = [worker EXCEPT ![w] = [worker[w] EXCEPT !.pc = "resolve"]] /\ abandoned' = abandoned
    BY <1>2 DEF EndCallback
  <2>2. MovesTo(w, "resolve")
    <3>1. Has([worker[w] EXCEPT !.pc = "resolve"], "resolve", worker[w].ending, worker[w].last,
              worker[w].kind, worker[w].round, worker[w].out)
      BY <1>1, LocalFields
    <3> QED BY <2>1, <3>1, Replaces DEF MovesTo
  <2> QED BY <1>2, <2>1, <2>2
<1>3. CASE worker[w].ending # "no"
  <2>1. worker' = [worker EXCEPT ![w] = Idle]
    BY <1>3 DEF EndCallback
  <2>2. Returns(w)
    <3>1. Has(Idle, "idle", "no", "nothing", "empty", 0, "none")
      BY DEF Idle, Has
    <3> QED BY <2>1, <3>1, Replaces DEF Returns
  <2> QED BY <1>3, <2>2 DEF EndCallback
<1> QED BY <1>2, <1>3


(* Handle up to the executor.                                               *)
LEMMA SetupEffect ==
    ASSUME TypeOK, NEW w \in Workers
    PROVE  /\ TakeTask(w) => \/ MovesTo(w, "start") /\ abandoned' = abandoned
                             \/ worker' = worker /\ abandoned' # {}
           /\ MarkInProgress(w) => MovesTo(w, "setup")
           /\ Recover(w) => \/ MovesTo(w, "resolve")
                            \/ \E r, o : \E a \in {"observation", "pause"} :
                                 Becomes(w, "resolve", worker[w].ending, a, "user", r, o)
           /\ SetupFails(w) => Returns(w) /\ abandoned' # {}
<1>0. worker[w] \in Local /\ Has(Idle, "idle", "no", "nothing", "empty", 0, "none")
  BY DEF TypeOK, Idle, Has
<1>1. \A p : worker' = [worker EXCEPT ![w].pc = p] => MovesTo(w, p)
  BY <1>0, LocalFields, Replaces DEF MovesTo
<1>2. TakeTask(w) => \/ MovesTo(w, "start") /\ abandoned' = abandoned
                     \/ worker' = worker /\ abandoned' # {}
  BY <1>1 DEF TakeTask
<1>3. MarkInProgress(w) => MovesTo(w, "setup")
  BY <1>1 DEF MarkInProgress
<1>4. ASSUME Recover(w)
      PROVE  \/ MovesTo(w, "resolve")
             \/ \E r, o : \E a \in {"observation", "pause"} :
                  Becomes(w, "resolve", worker[w].ending, a, "user", r, o)
  <2>1. PICK l \in Recovered(worker[w]) : worker' = [worker EXCEPT ![w] = l]
    BY <1>4 DEF Recover
  <2>2. CASE ToolSteps = {}
    BY <1>1, <2>1, <2>2 DEF Recovered
  <2>3. CASE ToolSteps # {}
    <3>1. PICK i \in ToolSteps :
            l = [worker[w] EXCEPT !.pc = "resolve", !.kind = "user", !.round = steps[i].round,
                   !.last = IF steps[i].status = "completed" THEN "observation" ELSE "pause",
                   !.out = steps[i].out]
      BY <2>1, <2>3 DEF Recovered
    <3> DEFINE a == IF steps[i].status = "completed" THEN "observation" ELSE "pause"
    <3>2. Has(l, "resolve", worker[w].ending, a, "user", steps[i].round, steps[i].out)
      <4> HIDE DEF a
      <4> QED BY <1>0, <3>1, LocalFields DEF a
    <3>3. Becomes(w, "resolve", worker[w].ending, a, "user", steps[i].round, steps[i].out)
      <4> HIDE DEF a
      <4> QED BY <2>1, <3>2, Replaces
    <3>4. a \in {"observation", "pause"}
      OBVIOUS
    <3> QED BY <3>3, <3>4
  <2> QED BY <2>2, <2>3
<1>5. SetupFails(w) => Returns(w) /\ abandoned' # {}
  <2>1. SetupFails(w) => worker' = [worker EXCEPT ![w] = Idle] /\ abandoned' # {}
    BY DEF SetupFails
  <2> QED BY <1>0, <2>1, Replaces DEF Returns
<1> QED BY <1>2, <1>3, <1>4, <1>5

(* One ResolveNextStep.                                                     *)
LEMMA ResolveEffect ==
    ASSUME TypeOK, NEW w \in Workers
    PROVE
      /\ EarlyStop(w) => Becomes(w, CallbackFor(worker[w].last, worker[w].text), "abort", worker[w].last,
                                 worker[w].kind, worker[w].round, worker[w].out)
      /\ EarlyStopOnEmptyState(w) => Returns(w) /\ abandoned' # {}
      /\ \A kind \in Kind, text \in BOOLEAN : PlanTools(w, kind, text) =>
            Becomes(w, CallbackFor("continuation", text), worker[w].ending, "continuation", kind, rounds + 1, "none")
      /\ PlanAnswer(w) \/ ResolveThrows(w) =>
            Becomes(w, "fin_read", "end", worker[w].last, worker[w].kind, worker[w].round, worker[w].out)
      /\ ExecuteTools(w) =>
            Becomes(w, "obs_read", worker[w].ending, "observation", worker[w].kind, worker[w].round, "full")
      /\ Pause(w) => Becomes(w, "pause_read", "end", "pause", worker[w].kind, worker[w].round, worker[w].out)
      /\ LiftPause(w) =>
            Becomes(w, "obs_read", worker[w].ending, "observation", worker[w].kind, worker[w].round, worker[w].out)
<1>0. worker[w] \in Local /\ Has(Idle, "idle", "no", "nothing", "empty", 0, "none")
  BY DEF TypeOK, Idle, Has
<1>1. EarlyStop(w) => Becomes(w, CallbackFor(worker[w].last, worker[w].text), "abort", worker[w].last,
                              worker[w].kind, worker[w].round, worker[w].out)
  <2> DEFINE p == CallbackFor(worker[w].last, worker[w].text)
  <2>1. EarlyStop(w) => worker' = [worker EXCEPT ![w] = [worker[w] EXCEPT !.ending = "abort", !.pc = p]]
    BY DEF EarlyStop
  <2> HIDE DEF p
  <2>2. Has([worker[w] EXCEPT !.ending = "abort", !.pc = p], p, "abort", worker[w].last,
            worker[w].kind, worker[w].round, worker[w].out)
    BY <1>0, LocalFields
  <2>3. EarlyStop(w) => Becomes(w, p, "abort", worker[w].last, worker[w].kind, worker[w].round, worker[w].out)
    BY <2>1, <2>2, Replaces
  <2> QED BY <2>3 DEF p
<1>2. EarlyStopOnEmptyState(w) => Returns(w) /\ abandoned' # {}
  BY <1>0, Replaces DEF EarlyStopOnEmptyState, Returns
<1>3. ASSUME NEW kind \in Kind, NEW text \in BOOLEAN, PlanTools(w, kind, text)
      PROVE  Becomes(w, CallbackFor("continuation", text), worker[w].ending, "continuation", kind, rounds + 1, "none")
  <2> DEFINE p == CallbackFor("continuation", text)
             r == rounds + 1
             l == [worker[w] EXCEPT !.pc = p, !.last = "continuation", !.kind = kind,
                     !.text = text, !.round = r, !.out = "none"]
  <2>1. worker' = [worker EXCEPT ![w] = l]
    BY <1>3 DEF PlanTools
  <2> HIDE DEF p, r
  <2>2. Has(l, p, worker[w].ending, "continuation", kind, r, "none")
    BY <1>0, LocalFields
  <2> HIDE DEF l
  <2>3. Becomes(w, p, worker[w].ending, "continuation", kind, r, "none")
    BY <2>1, <2>2, Replaces
  <2> QED BY <2>3 DEF p, r
<1>4. PlanAnswer(w) \/ ResolveThrows(w) =>
        Becomes(w, "fin_read", "end", worker[w].last, worker[w].kind, worker[w].round, worker[w].out)
  <2>1. PlanAnswer(w) \/ ResolveThrows(w) => \E f :
          worker' = [worker EXCEPT ![w] = [worker[w] EXCEPT !.pc = "fin_read", !.final = f, !.ending = "end"]]
    BY DEF PlanAnswer, ResolveThrows
  <2>2. ASSUME NEW f,
               worker' = [worker EXCEPT ![w] = [worker[w] EXCEPT !.pc = "fin_read", !.final = f, !.ending = "end"]]
        PROVE  Becomes(w, "fin_read", "end", worker[w].last, worker[w].kind, worker[w].round, worker[w].out)
    <3> DEFINE l == [worker[w] EXCEPT !.pc = "fin_read", !.final = f, !.ending = "end"]
    <3>1. Has(l, "fin_read", "end", worker[w].last, worker[w].kind, worker[w].round, worker[w].out)
      BY <1>0, LocalFields
    <3> HIDE DEF l
    <3> QED BY <2>2, <3>1, Replaces DEF l
  <2> QED BY <2>1, <2>2
<1>5. ExecuteTools(w) =>
        Becomes(w, "obs_read", worker[w].ending, "observation", worker[w].kind, worker[w].round, "full")
  <2> DEFINE l == [worker[w] EXCEPT !.pc = "obs_read", !.last = "observation", !.out = "full"]
  <2>1. ExecuteTools(w) => worker' = [worker EXCEPT ![w] = l]
    BY DEF ExecuteTools
  <2>2. Has(l, "obs_read", worker[w].ending, "observation", worker[w].kind, worker[w].round, "full")
    BY <1>0, LocalFields
  <2> HIDE DEF l
  <2> QED BY <2>1, <2>2, Replaces
<1>6. Pause(w) => Becomes(w, "pause_read", "end", "pause", worker[w].kind, worker[w].round, worker[w].out)
  <2> DEFINE l == [worker[w] EXCEPT !.pc = "pause_read", !.last = "pause", !.ending = "end"]
  <2>1. Pause(w) => worker' = [worker EXCEPT ![w] = l]
    BY DEF Pause
  <2>2. Has(l, "pause_read", "end", "pause", worker[w].kind, worker[w].round, worker[w].out)
    BY <1>0, LocalFields
  <2> HIDE DEF l
  <2> QED BY <2>1, <2>2, Replaces
<1>7. LiftPause(w) =>
        Becomes(w, "obs_read", worker[w].ending, "observation", worker[w].kind, worker[w].round, worker[w].out)
  <2> DEFINE l == [worker[w] EXCEPT !.pc = "obs_read", !.last = "observation"]
  <2>1. LiftPause(w) => worker' = [worker EXCEPT ![w] = l]
    BY DEF LiftPause
  <2>2. Has(l, "obs_read", worker[w].ending, "observation", worker[w].kind, worker[w].round, worker[w].out)
    BY <1>0, LocalFields
  <2> HIDE DEF l
  <2> QED BY <2>1, <2>2, Replaces
<1> QED BY <1>1, <1>2, <1>3, <1>4, <1>5, <1>6, <1>7

(* The callbacks.                                                           *)
LEMMA CallbackEffect ==
    ASSUME TypeOK, NEW w \in Workers
    PROVE
      /\ ContinuationMessage(w) => MovesTo(w, "cont_tool")
      /\ ContinuationTools(w) => MovesTo(w, "cont_run")
      /\ ContinuationRejected(w) =>
            Becomes(w, "fin_read", "end", worker[w].last, worker[w].kind, worker[w].round, worker[w].out)
      /\ ReadLastStep(w) => MovesTo(w, AfterRead(worker[w].pc, worker[w].final))
      /\ PauseStep(w) => MovesTo(w, "pause_run")
      /\ ObservationRun(w) => MovesTo(w, "obs_step")
      /\ FinishMessage(w) => MovesTo(w, "fin_run") \/ MovesTo(w, "fin_step")
      /\ FinishMessageThrows(w) => MovesTo(w, "fin_read")
      /\ FinishStep(w) => MovesTo(w, "fin_run")
      /\ FinishRun(w) => Returns(w)
<1>0. worker[w] \in Local /\ Has(Idle, "idle", "no", "nothing", "empty", 0, "none")
  BY DEF TypeOK, Idle, Has
<1>1. \A p : worker' = [worker EXCEPT ![w].pc = p] => MovesTo(w, p)
  BY <1>0, LocalFields, Replaces DEF MovesTo
<1>2. ContinuationMessage(w) => MovesTo(w, "cont_tool")
  BY <1>1 DEF ContinuationMessage
<1>3. ContinuationTools(w) => MovesTo(w, "cont_run")
  BY <1>1 DEF ContinuationTools
<1>4. ContinuationRejected(w) =>
        Becomes(w, "fin_read", "end", worker[w].last, worker[w].kind, worker[w].round, worker[w].out)
  <2> DEFINE l == [worker[w] EXCEPT !.pc = "fin_read", !.final = "failed", !.ending = "end"]
  <2>1. ContinuationRejected(w) => worker' = [worker EXCEPT ![w] = l]
    BY DEF ContinuationRejected
  <2>2. Has(l, "fin_read", "end", worker[w].last, worker[w].kind, worker[w].round, worker[w].out)
    BY <1>0, LocalFields
  <2> HIDE DEF l
  <2> QED BY <2>1, <2>2, Replaces
<1>5. ReadLastStep(w) => MovesTo(w, AfterRead(worker[w].pc, worker[w].final))
  <2> DEFINE p == AfterRead(worker[w].pc, worker[w].final)
             o == IF LastRunStep = 0 THEN "none" ELSE steps[LastRunStep].out
             i == LastRunStep
  <2>1. ReadLastStep(w) =>
          worker' = [worker EXCEPT ![w] = [worker[w] EXCEPT !.pc = p, !.idx = i, !.was = o]]
    BY DEF ReadLastStep
  <2> DEFINE l == [worker[w] EXCEPT !.pc = p, !.idx = i, !.was = o]
  <2> HIDE DEF p, o, i
  <2>2. Has(l, p, worker[w].ending, worker[w].last, worker[w].kind, worker[w].round, worker[w].out)
    BY <1>0, LocalFields
  <2> HIDE DEF l
  <2>3. ReadLastStep(w) => MovesTo(w, p)
    BY <2>1, <2>2, Replaces DEF MovesTo, l
  <2> QED BY <2>3 DEF p
<1>6. PauseStep(w) => MovesTo(w, "pause_run")
  BY <1>1 DEF PauseStep
<1>7. ObservationRun(w) => MovesTo(w, "obs_step")
  BY <1>1 DEF ObservationRun
<1>8. FinishMessage(w) => MovesTo(w, "fin_run") \/ MovesTo(w, "fin_step")
  BY <1>1 DEF FinishMessage
<1>9. FinishMessageThrows(w) => MovesTo(w, "fin_read")
  <2> DEFINE l == [worker[w] EXCEPT !.pc = "fin_read", !.final = "failed"]
  <2>1. FinishMessageThrows(w) => worker' = [worker EXCEPT ![w] = l]
    BY DEF FinishMessageThrows
  <2>2. Has(l, "fin_read", worker[w].ending, worker[w].last, worker[w].kind, worker[w].round, worker[w].out)
    BY <1>0, LocalFields
  <2> HIDE DEF l
  <2> QED BY <2>1, <2>2, Replaces DEF MovesTo
<1>10. FinishStep(w) => MovesTo(w, "fin_run")
  BY <1>1 DEF FinishStep
<1>11. FinishRun(w) => Returns(w)
  BY <1>0, Replaces DEF FinishRun, Returns
<1> QED BY <1>2, <1>3, <1>4, <1>5, <1>6, <1>7, <1>8, <1>9, <1>10, <1>11

-----------------------------------------------------------------------------
(* Requests leave the Handle calls alone; a crash ends them.                *)
LEMMA ServiceEffect ==
    ASSUME TypeOK, Service
    PROVE  \/ worker' = worker
           \/ Crash /\ \A w \in Workers : worker'[w] = Idle
<1>1. CASE Crash
  BY <1>1 DEF Crash
<1>2. CASE InsertRun \/ EnqueueRun \/ CancelRun \/ DeleteAssistant
  BY <1>2 DEF InsertRun, EnqueueRun, CancelRun, DeleteAssistant
<1>3. ASSUME NEW c \in Clients, NEW out \in {"blank", "full"}, SubmitCheckRun(c, out)
      PROVE  worker' = worker
  BY <1>3 DEF SubmitCheckRun
<1>4. ASSUME NEW c \in Clients, SubmitCheckStep(c) \/ SubmitModifyStep(c) \/ SubmitModifyRun(c) \/ SubmitEnqueue(c)
      PROVE  worker' = worker
  BY <1>4, Zenon DEF SubmitCheckStep, SubmitModifyStep, SubmitModifyRun, SubmitEnqueue
<1> QED BY <1>1, <1>2, <1>3, <1>4 DEF Service, SubmitContinues

(* Which places a step of Handle leads to, and how it leaves the loop.      *)
LEMMA HandleEnding ==
    ASSUME TypeOK, EndingInv, NEW w \in Workers, Handle(w)
    PROVE  /\ \A u \in Workers : u # w => worker'[u] = worker[u]
           /\ EndingOK(worker'[w].pc, worker'[w].ending)
<1> DEFINE Goal == /\ \A u \in Workers : u # w => worker'[u] = worker[u]
                   /\ EndingOK(worker'[w].pc, worker'[w].ending)
<1>0. EndingOK(worker[w].pc, worker[w].ending) /\ worker[w] \in Local
  BY DEF EndingInv, TypeOK
<1>1. ASSUME NEW p, NEW e, NEW a, NEW k, NEW r, NEW o, Becomes(w, p, e, a, k, r, o), EndingOK(p, e)
      PROVE  Goal
  BY <1>1 DEF Becomes, Has
<1>2. ASSUME NEW p, MovesTo(w, p), EndingOK(p, worker[w].ending) PROVE Goal
  BY <1>1, <1>2 DEF MovesTo
<1>3. ASSUME Returns(w) PROVE Goal
  <2>1. EndingOK("idle", "no")
    BY DEF EndingOK, PausePC
  <2> QED BY <1>1, <1>3, <2>1 DEF Returns
<1>4. ASSUME EndCallback(w) PROVE Goal
  <2>1. EndingOK("resolve", "no")
    BY DEF EndingOK, PausePC
  <2> QED BY <1>2, <1>3, <1>4, <2>1, EndCallbackEffect
<1>5. CASE TakeTask(w)
  <2>1. EndingOK("start", worker[w].ending)
    BY <1>0, <1>5 DEF EndingOK, PausePC, FinishPC, TakeTask
  <2> QED BY <1>0, <1>2, <1>5, <2>1, SetupEffect
<1>6. CASE MarkInProgress(w)
  <2>1. EndingOK("setup", worker[w].ending)
    BY <1>0, <1>6 DEF EndingOK, PausePC, FinishPC, MarkInProgress
  <2> QED BY <1>2, <1>6, <2>1, SetupEffect
<1>7. CASE Recover(w)
  <2>1. EndingOK("resolve", worker[w].ending)
    BY <1>0, <1>7 DEF EndingOK, PausePC, FinishPC, Recover
  <2> QED BY <1>1, <1>2, <1>7, <2>1, SetupEffect
<1>8. CASE SetupFails(w)
  BY <1>3, <1>8, SetupEffect
<1>9. CASE EarlyStop(w)
  <2>1. EndingOK(CallbackFor(worker[w].last, worker[w].text), "abort")
    BY DEF EndingOK
  <2> QED BY <1>1, <1>9, <2>1, ResolveEffect
<1>10. CASE EarlyStopOnEmptyState(w)
  BY <1>3, <1>10, ResolveEffect
<1>11. ASSUME NEW kind \in Kind, NEW text \in BOOLEAN, PlanTools(w, kind, text) PROVE Goal
  <2>1. CallbackFor("continuation", text) = IF text THEN "cont_msg" ELSE "cont_tool"
    BY DEF CallbackFor
  <2>2. worker[w].pc = "resolve"
    BY <1>11 DEF PlanTools, Resolving
  <2>3. EndingOK(CallbackFor("continuation", text), worker[w].ending)
    BY <1>0, <2>1, <2>2 DEF EndingOK, PausePC, FinishPC
  <2> QED BY <1>1, <1>11, <2>3, ResolveEffect
<1>12. CASE PlanAnswer(w) \/ ResolveThrows(w) \/ ContinuationRejected(w)
  <2>1. EndingOK("fin_read", "end")
    BY DEF EndingOK, PausePC, FinishPC
  <2> QED BY <1>1, <1>12, <2>1, ResolveEffect, CallbackEffect
<1>13. CASE ExecuteTools(w) \/ LiftPause(w)
  <2>1. worker[w].pc = "resolve"
    BY <1>13 DEF ExecuteTools, LiftPause, Resolving
  <2>2. EndingOK("obs_read", worker[w].ending)
    BY <1>0, <2>1 DEF EndingOK, PausePC, FinishPC
  <2> QED BY <1>1, <1>13, <2>2, ResolveEffect
<1>14. CASE Pause(w)
  <2>1. EndingOK("pause_read", "end")
    BY DEF EndingOK, PausePC, FinishPC
  <2> QED BY <1>1, <1>14, <2>1, ResolveEffect
<1>15. CASE ContinuationMessage(w) \/ ContinuationTools(w)
  <2>1. EndingOK("cont_tool", worker[w].ending) /\ EndingOK("cont_run", worker[w].ending)
    BY <1>0, <1>15 DEF EndingOK, PausePC, FinishPC, ContinuationMessage, ContinuationTools
  <2> QED BY <1>2, <1>15, <2>1, CallbackEffect
<1>16. CASE ContinuationRun(w) \/ PauseRun(w) \/ ObservationStep(w)
  <2>1. EndCallback(w)
    BY <1>16 DEF ContinuationRun, PauseRun, ObservationStep
  <2> QED BY <1>4, <2>1
<1>17. CASE ReadLastStep(w)
  <2>1. worker[w].pc \in {"pause_read", "obs_read", "fin_read"}
    BY <1>17 DEF ReadLastStep
  <2>2. EndingOK(AfterRead(worker[w].pc, worker[w].final), worker[w].ending)
    BY <1>0, <2>1 DEF EndingOK, PausePC, FinishPC, AfterRead
  <2> QED BY <1>2, <1>17, <2>2, CallbackEffect
<1>18. CASE PauseStep(w) \/ ObservationRun(w)
  <2>1. CASE PauseStep(w)
    <3>1. EndingOK("pause_run", worker[w].ending)
      BY <1>0, <2>1 DEF EndingOK, PausePC, FinishPC, PauseStep
    <3> QED BY <1>2, <2>1, <3>1, CallbackEffect
  <2>2. CASE ObservationRun(w)
    <3>1. EndingOK("obs_step", worker[w].ending)
      BY <1>0, <2>2 DEF EndingOK, PausePC, FinishPC, ObservationRun
    <3> QED BY <1>2, <2>2, <3>1, CallbackEffect
  <2> QED BY <1>18, <2>1, <2>2
<1>19. CASE FinishMessage(w) \/ FinishMessageThrows(w) \/ FinishStep(w)
  <2>1. \A p \in FinishPC : EndingOK(p, worker[w].ending)
    BY DEF EndingOK, PausePC, FinishPC
  <2>2. "fin_read" \in FinishPC /\ "fin_step" \in FinishPC /\ "fin_run" \in FinishPC
    BY DEF FinishPC
  <2> QED BY <1>2, <1>19, <2>1, <2>2, CallbackEffect
<1>20. CASE FinishRun(w)
  BY <1>3, <1>20, CallbackEffect
<1> QED BY <1>5, <1>6, <1>7, <1>8, <1>9, <1>10, <1>11, <1>12, <1>13, <1>14, <1>15, <1>16, <1>17,
           <1>18, <1>19, <1>20 DEF Handle

(* Only a callback that closes or pauses the run is the last one.           *)
LEMMA EndingStep == RunType /\ EndingInv /\ [Next]_vars => EndingInv'
<1> SUFFICES ASSUME RunType, EndingInv, [Next]_vars PROVE EndingInv'
    OBVIOUS
<1>0. TypeOK
  BY DEF RunType
<1>1. CASE worker' = worker
  BY <1>1 DEF EndingInv
<1>2. CASE \A w \in Workers : worker'[w] = Idle
  <2>1. EndingOK(Idle.pc, Idle.ending)
    BY DEF EndingOK, Idle, PausePC
  <2> QED BY <1>2, <2>1 DEF EndingInv
<1>3. ASSUME NEW w \in Workers, Handle(w) PROVE EndingInv'
  BY <1>0, <1>3, HandleEnding DEF EndingInv
<1>4. CASE UNCHANGED vars
  BY <1>1, <1>4 DEF vars
<1>5. CASE Service
  BY <1>0, <1>1, <1>2, <1>5, ServiceEffect
<1> QED BY <1>3, <1>4, <1>5 DEF Next, Service

-----------------------------------------------------------------------------
(* A consumer takes the run out of the queue, works on it, or puts it down: *)
(* closed, paused or given up.                                              *)
Takes(w) == /\ ~Active(w) /\ queue # <<>> /\ queue' = Tail(queue) /\ status' = status
            /\ Active(w)' \/ (worker' = worker /\ abandoned' # {})

Works(w) == /\ Active(w) /\ Active(w)' /\ queue' = queue /\ status' \in {status, "in_progress"}

PutsDown(w) == /\ Active(w) /\ ~Active(w)' /\ queue' = queue
               /\ \/ status' \in {"requires_action", "completed", "failed"}
                  \/ status' \in {status, "in_progress"} /\ abandoned' # {}

(* Every step of Handle is one of the three, and touches nobody else.       *)
LEMMA HandleToken ==
    ASSUME TypeOK, EndingInv, NEW w \in Workers, Handle(w)
    PROVE  /\ Takes(w) \/ Works(w) \/ PutsDown(w)
           /\ abandoned \subseteq abandoned'
           /\ UNCHANGED <<creator, client, cancels, crashes, overlaps>>
           /\ \A u \in Workers : u # w => worker'[u] = worker[u]
<1> DEFINE Goal == /\ Takes(w) \/ Works(w) \/ PutsDown(w)
                   /\ abandoned \subseteq abandoned'
                   /\ UNCHANGED <<creator, client, cancels, crashes, overlaps>>
<1>0. /\ EndingOK(worker[w].pc, worker[w].ending)
      /\ worker[w] \in Local
      /\ \A u \in Workers : u # w => worker'[u] = worker[u]
  BY HandleEnding DEF EndingInv, TypeOK
<1>1. ASSUME NEW p, p # "idle", Active(w), \/ MovesTo(w, p)
                                         \/ \E e, a, k, r, o : Becomes(w, p, e, a, k, r, o),
             queue' = queue, status' \in {status, "in_progress"}
      PROVE  Works(w)
  BY <1>1 DEF Works, Active, MovesTo, Becomes, Has
<1>2. Returns(w) => ~Active(w)'
  BY DEF Returns, Active, Becomes, Has
<1>3. CASE TakeTask(w)
  <2>1. MovesTo(w, "start") => Active(w)'
    BY DEF MovesTo, Active, Becomes, Has
  <2>2. /\ ~Active(w) /\ queue # <<>> /\ queue' = Tail(queue) /\ status' = status
        /\ abandoned \subseteq abandoned' /\ UNCHANGED <<creator, client, cancels, crashes, overlaps>>
    BY <1>3 DEF TakeTask, Active, dbVars, rest
  <2> QED BY <1>0, <1>3, <2>1, <2>2, SetupEffect DEF Takes
<1>4. CASE MarkInProgress(w) \/ Recover(w)
  <2>1. /\ Active(w) /\ queue' = queue /\ status' \in {status, "in_progress"}
        /\ abandoned' = abandoned /\ UNCHANGED <<creator, client, cancels, crashes, overlaps>>
    BY <1>4 DEF MarkInProgress, Recover, Active, dbVars, rest
  <2>2. \E p : /\ p # "idle"
               /\ MovesTo(w, p) \/ \E e, a, k, r, o : Becomes(w, p, e, a, k, r, o)
    BY <1>4, SetupEffect
  <2> QED BY <1>0, <1>1, <2>1, <2>2
<1>5. CASE SetupFails(w) \/ EarlyStopOnEmptyState(w)
  <2>1. /\ Active(w) /\ queue' = queue /\ status' = status
        /\ abandoned \subseteq abandoned' /\ UNCHANGED <<creator, client, cancels, crashes, overlaps>>
    BY <1>5 DEF SetupFails, EarlyStopOnEmptyState, Active, dbVars, rest
  <2>2. ~Active(w)' /\ abandoned' # {}
    BY <1>2, <1>5, SetupEffect, ResolveEffect
  <2> QED BY <1>0, <2>1, <2>2 DEF PutsDown
<1>6. CASE \/ EarlyStop(w) \/ \E kind \in Kind, text \in BOOLEAN : PlanTools(w, kind, text)
           \/ PlanAnswer(w) \/ ResolveThrows(w) \/ ExecuteTools(w) \/ Pause(w) \/ LiftPause(w)
  <2>1. /\ Active(w) /\ queue' = queue /\ status' = status
        /\ abandoned' = abandoned /\ UNCHANGED <<creator, client, cancels, crashes, overlaps>>
    BY <1>6 DEF EarlyStop, PlanTools, PlanAnswer, ResolveThrows, ExecuteTools, Pause, LiftPause,
                Resolving, Active, dbVars, rest
  <2>2. EarlyStop(w) => CallbackFor(worker[w].last, worker[w].text) # "idle"
    BY <1>0 DEF EarlyStop, CallbackFor, Local
  <2>3. \A text \in BOOLEAN : CallbackFor("continuation", text) # "idle"
    BY DEF CallbackFor
  <2>4. \E p : /\ p # "idle"
               /\ \E e, a, k, r, o : Becomes(w, p, e, a, k, r, o)
    BY <1>6, <2>2, <2>3, ResolveEffect
  <2> QED BY <1>0, <1>1, <2>1, <2>4
<1>7. CASE \/ ContinuationMessage(w) \/ ContinuationTools(w) \/ ContinuationRejected(w) \/ ReadLastStep(w)
           \/ PauseStep(w) \/ ObservationRun(w) \/ FinishMessage(w) \/ FinishMessageThrows(w) \/ FinishStep(w)
  <2>1. /\ Active(w) /\ queue' = queue /\ status' \in {status, "in_progress"}
        /\ abandoned' = abandoned /\ UNCHANGED <<creator, client, cancels, crashes, overlaps>>
    BY <1>7, Zenon DEF ContinuationMessage, ContinuationTools, ContinuationRejected, ReadLastStep, PauseStep,
                ObservationRun, FinishMessage, FinishMessageThrows, FinishStep, Active, dbVars, rest
  <2>2. AfterRead(worker[w].pc, worker[w].final) # "idle"
    BY DEF AfterRead
  <2>3. \E p : /\ p # "idle"
               /\ MovesTo(w, p) \/ \E e, a, k, r, o : Becomes(w, p, e, a, k, r, o)
    BY <1>7, <2>2, CallbackEffect
  <2> QED BY <1>0, <1>1, <2>1, <2>3
<1>8. CASE ContinuationRun(w) \/ ObservationStep(w)
  <2>1. /\ Active(w) /\ queue' = queue /\ status' \in {status, "in_progress"} /\ EndCallback(w)
        /\ UNCHANGED <<creator, client, cancels, crashes, overlaps>>
    BY <1>8 DEF ContinuationRun, ObservationStep, Active, rest
  <2>2. worker[w].ending \in {"no", "abort"}
    BY <1>0, <1>8 DEF EndingOK, PausePC, FinishPC, ContinuationRun, ObservationStep, Local
  <2>3. abandoned \subseteq abandoned'
    BY <2>1 DEF EndCallback
  <2>4. CASE worker[w].ending = "no"
    BY <1>0, <1>1, <2>1, <2>3, <2>4, EndCallbackEffect
  <2>5. CASE worker[w].ending = "abort"
    BY <1>0, <1>2, <2>1, <2>3, <2>5, EndCallbackEffect DEF PutsDown
  <2> QED BY <2>2, <2>4, <2>5
<1>9. CASE PauseRun(w)
  <2>1. /\ Active(w) /\ queue' = queue /\ status' = "requires_action" /\ EndCallback(w)
        /\ UNCHANGED <<creator, client, cancels, crashes, overlaps>>
    BY <1>9 DEF PauseRun, Active, rest
  <2>2. worker[w].ending # "no"
    BY <1>0, <1>9 DEF EndingOK, PausePC, PauseRun
  <2>3. abandoned \subseteq abandoned'
    BY <2>1 DEF EndCallback
  <2> QED BY <1>0, <1>2, <2>1, <2>2, <2>3, EndCallbackEffect DEF PutsDown
<1>10. CASE FinishRun(w)
  <2>1. /\ Active(w) /\ queue' = queue /\ status' \in {"completed", "failed"} /\ abandoned' = abandoned
        /\ UNCHANGED <<creator, client, cancels, crashes, overlaps>>
    BY <1>0, <1>10 DEF FinishRun, Active, rest, Local
  <2> QED BY <1>0, <1>2, <1>10, <2>1, CallbackEffect DEF PutsDown
<1> QED BY <1>0, <1>3, <1>4, <1>5, <1>6, <1>7, <1>8, <1>9, <1>10 DEF Handle

(* The requests: what they do to the status, the queue and themselves.      *)
LEMMA RequestToken ==
    ASSUME TypeOK, NEW c \in Clients
    PROVE  /\ \A out \in {"blank", "full"} : SubmitCheckRun(c, out) =>
                /\ status = "requires_action" /\ client[c].pc = "idle"
                /\ UNCHANGED <<dbVars, queue, creator, worker, abandoned, cancels, rounds>>
                /\ overlaps' = 0 => overlaps = 0 /\ NoRequest
                /\ client'[c].pc = "steps"
                /\ \A d \in Clients : d # c => client'[d] = client[d]
           /\ SubmitCheckStep(c) =>
                /\ client[c].pc = "steps" /\ client'[c].pc \in {"modstep", "idle"}
                /\ UNCHANGED <<dbVars, queue, creator, worker, abandoned, cancels, rounds, overlaps>>
                /\ \A d \in Clients : d # c => client'[d] = client[d]
           /\ SubmitModifyStep(c) =>
                /\ client[c].pc = "modstep" /\ client'[c].pc = "modrun"
                /\ UNCHANGED <<status, required, assistant, queue, creator, worker, abandoned, cancels, rounds, overlaps>>
                /\ \A d \in Clients : d # c => client'[d] = client[d]
           /\ SubmitModifyRun(c) =>
                /\ client[c].pc = "modrun" /\ client'[c].pc = "enqueue" /\ status' = "queued"
                /\ UNCHANGED <<required, steps, assistant, queue, creator, worker, abandoned, cancels, rounds, overlaps>>
                /\ \A d \in Clients : d # c => client'[d] = client[d]
           /\ SubmitEnqueue(c) =>
                /\ client[c].pc = "enqueue" /\ client'[c].pc = "idle" /\ queue' = Append(queue, status)
                /\ UNCHANGED <<dbVars, creator, worker, abandoned, cancels, rounds, overlaps>>
                /\ \A d \in Clients : d # c => client'[d] = client[d]
<1> USE DEF TypeOK
<1>1. ASSUME NEW out \in {"blank", "full"}, SubmitCheckRun(c, out)
      PROVE  /\ status = "requires_action" /\ client[c].pc = "idle"
             /\ UNCHANGED <<dbVars, queue, creator, worker, abandoned, cancels, rounds>>
             /\ overlaps' = 0 => overlaps = 0 /\ NoRequest
             /\ client'[c].pc = "steps"
             /\ \A d \in Clients : d # c => client'[d] = client[d]
  <2>1. ASSUME overlaps' = 0 PROVE overlaps = 0 /\ NoRequest
    <3>1. overlaps' = overlaps + (IF OtherSubmission(c) THEN 1 ELSE 0) /\ overlaps \in Nat
      BY <1>1, RunAssumption DEF SubmitCheckRun
    <3>2. overlaps = 0 /\ ~OtherSubmission(c)
      BY <2>1, <3>1
    <3> QED BY <1>1, <3>2 DEF SubmitCheckRun, OtherSubmission, NoRequest
  <2> QED BY <1>1, <2>1 DEF SubmitCheckRun
<1>2. ASSUME SubmitCheckStep(c)
      PROVE  /\ client[c].pc = "steps" /\ client'[c].pc \in {"modstep", "idle"}
             /\ UNCHANGED <<dbVars, queue, creator, worker, abandoned, cancels, rounds, overlaps>>
             /\ \A d \in Clients : d # c => client'[d] = client[d]
  BY <1>2 DEF SubmitCheckStep, NoSubmit
<1>3. ASSUME SubmitModifyStep(c)
      PROVE  /\ client[c].pc = "modstep" /\ client'[c].pc = "modrun"
             /\ UNCHANGED <<status, required, assistant, queue, creator, worker, abandoned, cancels, rounds, overlaps>>
             /\ \A d \in Clients : d # c => client'[d] = client[d]
  BY <1>3 DEF SubmitModifyStep
<1>4. ASSUME SubmitModifyRun(c)
      PROVE  /\ client[c].pc = "modrun" /\ client'[c].pc = "enqueue" /\ status' = "queued"
             /\ UNCHANGED <<required, steps, assistant, queue, creator, worker, abandoned, cancels, rounds, overlaps>>
             /\ \A d \in Clients : d # c => client'[d] = client[d]
  BY <1>4 DEF SubmitModifyRun
<1>5. ASSUME SubmitEnqueue(c)
      PROVE  /\ client[c].pc = "enqueue" /\ client'[c].pc = "idle" /\ queue' = Append(queue, status)
             /\ UNCHANGED <<dbVars, creator, worker, abandoned, cancels, rounds, overlaps>>
             /\ \A d \in Clients : d # c => client'[d] = client[d]
  BY <1>5 DEF SubmitEnqueue, NoSubmit
<1> QED BY <1>1, <1>2, <1>3, <1>4, <1>5

-----------------------------------------------------------------------------
(* A request passes the run on before it lets go of it.                     *)
LEMMA ServiceStall ==
    ASSUME RunType, StallInv, Service
    PROVE  StallInv'
<1> USE DEF RunType, TypeOK, StallInv, Busy
<1>0. Busy /\ UNCHANGED <<queue, creator, client, worker>> => Busy'
  BY DEF Active
<1>1. CASE InsertRun
  BY <1>1 DEF InsertRun
<1>2. CASE EnqueueRun
  BY <1>2 DEF EnqueueRun
<1>3. CASE CancelRun \/ DeleteAssistant
  BY <1>0, <1>3 DEF CancelRun, DeleteAssistant
<1>4. CASE Crash
  BY <1>4 DEF Crash
<1>5. ASSUME NEW c \in Clients, NEW out \in {"blank", "full"}, SubmitCheckRun(c, out) PROVE StallInv'
  BY <1>5, RequestToken DEF dbVars
<1>6. ASSUME NEW c \in Clients, SubmitCheckStep(c) PROVE StallInv'
  <2>1. Busy => Busy'
    BY <1>6, RequestToken DEF Active
  <2> QED BY <1>6, <2>1, RequestToken DEF dbVars
<1>7. ASSUME NEW c \in Clients, SubmitModifyStep(c) \/ SubmitModifyRun(c) PROVE StallInv'
  BY <1>7, RequestToken
<1>8. ASSUME NEW c \in Clients, SubmitEnqueue(c) PROVE StallInv'
  <2>1. queue' # <<>>
    BY <1>8, RequestToken
  <2> QED BY <2>1
<1> QED BY <1>1, <1>2, <1>3, <1>4, <1>5, <1>6, <1>7, <1>8 DEF Service, SubmitContinues

(* A consumer lets go of the run only with a verdict or a reason.           *)
LEMMA HandleStall ==
    ASSUME RunType, EndingInv, StallInv, NEW w \in Workers, Handle(w)
    PROVE  StallInv'
<1>0. TypeOK
  BY DEF RunType
<1>1. /\ Takes(w) \/ Works(w) \/ PutsDown(w)
      /\ abandoned \subseteq abandoned'
  BY <1>0, HandleToken
<1>2. Active(w)' => StallInv'
  BY DEF StallInv, Busy
<1>3. abandoned' # {} => StallInv'
  BY DEF StallInv
<1>4. status' \in {"requires_action", "completed", "failed"} => StallInv'
  BY DEF StallInv
<1> QED BY <1>1, <1>2, <1>3, <1>4 DEF Takes, Works, PutsDown

(* A run is left queued or in progress with nobody working on it only in    *)
(* one of the recorded ways (crash, abort by the stop predicate, failed     *)
(* set-up or recovery, stale payload): for any number of consumers, and     *)
(* also when concurrent submissions make several of them execute it.        *)
THEOREM NoSilentStallHolds == Spec => []NoSilentStall
<1>1. Init => EndingInv /\ StallInv
  BY DEF Init, EndingInv, EndingOK, StallInv, Idle, PausePC
<1>2. RunType /\ EndingInv /\ StallInv /\ [Next]_vars => StallInv'
  <2> SUFFICES ASSUME RunType, EndingInv, StallInv, [Next]_vars PROVE StallInv'
    OBVIOUS
  <2>1. CASE UNCHANGED vars
    BY <2>1 DEF vars, dbVars, StallInv, Busy, Active
  <2> QED BY <2>1, ServiceStall, HandleStall DEF Next, Service
<1>3. RunType /\ StallInv => NoSilentStall
  <2> SUFFICES ASSUME RunType, Busy, \A w \in Workers : ~Active(w) PROVE Pending > 0
    BY DEF StallInv, NoSilentStall
  <2> DEFINE S == {c \in Clients : client[c].pc \in {"modstep", "modrun", "enqueue"}}
             n == IF creator = "enqueue" THEN 1 ELSE 0
  <2>1. IsFiniteSet(S)
    BY RunAssumption, FS_Subset
  <2>2. Cardinality(S) \in Nat /\ (S # {} => Cardinality(S) # 0)
    BY <2>1, FS_CardinalityType, FS_EmptySet
  <2>3. Len(queue) \in Nat /\ (queue # <<>> => Len(queue) # 0)
    BY DEF RunType, TypeOK
  <2>4. S # {} \/ queue # <<>> \/ n = 1
    BY DEF Busy
  <2>5. Pending = Len(queue) + n + Cardinality(S)
    BY DEF Pending
  <2>6. n \in {0, 1}
    OBVIOUS
  <2> HIDE DEF S, n
  <2> QED BY <2>2, <2>3, <2>4, <2>5, <2>6
<1>4. Spec => []RunType
  BY RunTypeCorrect DEF RunType
<1> QED BY <1>1, <1>2, <1>3, <1>4, EndingStep, PTL DEF Spec

-----------------------------------------------------------------------------
(* A request keeps the run one token when no other is under way beside it:  *)
(* SubmitToolOutputs starts only when nobody has the run, because its       *)
(* status says so.                                                          *)
LEMMA ServiceOneToken ==
    ASSUME RunType, OneToken, Service, overlaps' = 0
    PROVE  OneToken'
<1> USE DEF RunType, TypeOK, RunStatus, Quiet, NoRequest, Active, Terminal
<1>1. CASE InsertRun
  BY <1>1 DEF InsertRun, OneToken
<1>2. CASE EnqueueRun
  <2>1. queue = <<>> /\ NoRequest /\ \A w \in Workers : ~Active(w)
    BY <1>2 DEF EnqueueRun, OneToken
  <2>2. status \notin Terminal \cup {"requires_action", "none"}
    BY <1>2 DEF EnqueueRun, OneToken
  <2>3. Len(queue') = 1
    BY <1>2, <2>1 DEF EnqueueRun
  <2> QED BY <1>2, <2>1, <2>2, <2>3 DEF EnqueueRun, OneToken, dbVars
<1>3. CASE CancelRun \/ DeleteAssistant
  BY <1>3 DEF CancelRun, DeleteAssistant, OneToken
<1>4. CASE Crash
  BY <1>4 DEF Crash, OneToken, Idle, NoSubmit, dbVars
<1>5. ASSUME NEW c \in Clients, NEW out \in {"blank", "full"}, SubmitCheckRun(c, out) PROVE OneToken'
  <2>1. Quiet /\ Quiet' /\ NoRequest
    BY <1>5, RequestToken DEF OneToken, dbVars
  <2> QED BY <1>5, <2>1, RequestToken, SMTT(30) DEF OneToken, dbVars
<1>6. ASSUME NEW c \in Clients, SubmitCheckStep(c) \/ SubmitModifyStep(c) PROVE OneToken'
  <2>1. Quiet /\ Quiet' /\ status' = status /\ creator' = creator
    BY <1>6, RequestToken DEF OneToken, dbVars
  <2>2. status \notin Terminal \cup {"none"}
    BY <1>6, RequestToken DEF OneToken
  <2>3. client'[c].pc # "enqueue" /\ \A d \in Clients : d # c => client'[d].pc = "idle"
    BY <1>6, RequestToken DEF OneToken
  <2> QED BY <2>1, <2>2, <2>3 DEF OneToken
<1>7. ASSUME NEW c \in Clients, SubmitModifyRun(c) PROVE OneToken'
  <2>1. Quiet /\ Quiet' /\ status' = "queued" /\ creator' = creator
    BY <1>7, RequestToken DEF OneToken
  <2>2. creator # "start"
    BY <1>7, RequestToken DEF OneToken
  <2>3. \A d \in Clients : d # c => client'[d].pc = "idle"
    BY <1>7, RequestToken DEF OneToken
  <2> QED BY <2>1, <2>2, <2>3 DEF OneToken
<1>8. ASSUME NEW c \in Clients, SubmitEnqueue(c) PROVE OneToken'
  <2>1. Quiet /\ status \in {"queued", "cancelling"} /\ creator # "start"
    BY <1>8, RequestToken DEF OneToken
  <2>2. /\ queue' = Append(queue, status) /\ status' = status /\ creator' = creator /\ worker' = worker
        /\ \A d \in Clients : client'[d].pc = "idle"
    <3>1. \A d \in Clients : d # c => client[d].pc = "idle"
      BY <1>8, RequestToken DEF OneToken
    <3> QED BY <1>8, <3>1, RequestToken DEF dbVars
  <2>3. Len(queue') = 1
    BY <2>1, <2>2
  <2> QED BY <2>1, <2>2, <2>3 DEF OneToken
<1> QED BY <1>1, <1>2, <1>3, <1>4, <1>5, <1>6, <1>7, <1>8 DEF Service, SubmitContinues

(* So do the consumers.                                                     *)
LEMMA HandleOneToken ==
    ASSUME RunType, EndingInv, OneToken, NEW w \in Workers, Handle(w)
    PROVE  OneToken'
<1>0. TypeOK
  BY DEF RunType
<1>1. /\ Takes(w) \/ Works(w) \/ PutsDown(w)
      /\ creator' = creator /\ client' = client
      /\ \A u \in Workers : u # w => Active(u)' = Active(u)
  BY <1>0, HandleToken DEF Active
<1>2. /\ NoRequest /\ creator # "enqueue" /\ creator # "start"
      /\ \A u \in Workers : u # w => ~Active(u)
      /\ status \notin Terminal \cup {"requires_action", "none"}
  BY <1>1 DEF Takes, Works, PutsDown, OneToken, Quiet, NoRequest
<1>3. NoRequest'
  BY <1>1, <1>2 DEF NoRequest
<1>4. CASE Takes(w)
  <2>1. queue' = <<>>
    BY <1>0, <1>4 DEF Takes, OneToken, TypeOK
  <2>2. status' = status
    BY <1>4 DEF Takes
  <2> QED BY <1>1, <1>2, <1>3, <2>1, <2>2 DEF OneToken, NoRequest
<1>5. CASE Works(w)
  <2>1. queue = <<>> /\ queue' = queue /\ status' \in {status, "in_progress"}
    BY <1>5 DEF Works, OneToken
  <2> QED BY <1>1, <1>2, <1>3, <2>1 DEF OneToken, NoRequest, Terminal
<1>6. CASE PutsDown(w)
  <2>1. queue' = <<>> /\ Quiet'
    BY <1>1, <1>2, <1>6 DEF PutsDown, OneToken, Quiet
  <2>2. status' # "none"
    BY <1>2, <1>6 DEF PutsDown
  <2> QED BY <1>1, <1>2, <1>3, <2>1, <2>2 DEF OneToken, NoRequest, Quiet
<1> QED BY <1>1, <1>4, <1>5, <1>6

(* An overlap is never forgotten.                                           *)
LEMMA OverlapsStay == RunType /\ EndingInv /\ [Next]_vars => (overlaps' = 0 => overlaps = 0)
<1> SUFFICES ASSUME RunType, EndingInv, [Next]_vars, overlaps' = 0 PROVE overlaps = 0
    OBVIOUS
<1>0. TypeOK
  BY DEF RunType
<1>1. ASSUME NEW w \in Workers, Handle(w) PROVE overlaps' = overlaps
  BY <1>0, <1>1, HandleToken
<1>2. CASE InsertRun \/ EnqueueRun \/ CancelRun \/ DeleteAssistant \/ Crash
  BY <1>2 DEF InsertRun, EnqueueRun, CancelRun, DeleteAssistant, Crash
<1>3. ASSUME NEW c \in Clients, SubmitContinues(c) PROVE overlaps' = overlaps
  BY <1>0, <1>3, RequestToken DEF SubmitContinues
<1>4. ASSUME NEW c \in Clients, NEW out \in {"blank", "full"}, SubmitCheckRun(c, out) PROVE overlaps = 0
  BY <1>0, <1>4, RequestToken
<1> QED BY <1>1, <1>2, <1>3, <1>4 DEF Next, vars

(* Until two submissions overlap every step keeps the run one token.        *)
LEMMA TokenStep == RunType /\ EndingInv /\ TokenInv /\ [Next]_vars => TokenInv'
<1> SUFFICES ASSUME RunType, EndingInv, TokenInv, [Next]_vars, overlaps' = 0 PROVE OneToken'
    BY DEF TokenInv
<1>0. OneToken
  BY OverlapsStay DEF TokenInv
<1>1. CASE UNCHANGED vars
  BY <1>0, <1>1 DEF vars, dbVars, OneToken, Quiet, NoRequest, Active
<1> QED BY <1>0, <1>1, ServiceOneToken, HandleOneToken DEF Next, Service

(* Who has the run, in every reachable state.                               *)
LEMMA TokenInvariant == Spec => [](RunType /\ EndingInv /\ TokenInv)
<1>1. Init => EndingInv /\ TokenInv
  BY DEF Init, EndingInv, EndingOK, TokenInv, OneToken, Quiet, NoRequest, Active, Idle, NoSubmit, PausePC, Terminal
<1>2. Spec => []RunType
  BY RunTypeCorrect DEF RunType
<1> QED BY <1>1, <1>2, EndingStep, TokenStep, PTL DEF Spec

(* For any number of clients and consumers: until two SubmitToolOutputs     *)
(* overlap, a run is never executed by two consumers nor queued twice.      *)
THEOREM SingleExecutionHolds == Spec => []SingleExecution
<1>1. RunType /\ TokenInv => SingleExecution
  <2> SUFFICES ASSUME RunType, OneToken, overlaps = 0 PROVE SingleExecution
    BY DEF TokenInv, SingleExecution
  <2> DEFINE S == {c \in Clients : client[c].pc \in {"modstep", "modrun", "enqueue"}}
             A == {w \in Workers : Active(w)}
             n == IF creator = "enqueue" THEN 1 ELSE 0
             q == Len(queue)
             s == Cardinality(S)
             a == Cardinality(A)
  <2>1. ASSUME NEW T, \A x, y \in T : x = y PROVE Cardinality(T) \in {0, 1} /\ (T = {} => Cardinality(T) = 0)
    <3>1. CASE T = {}
      BY <3>1, FS_EmptySet
    <3>2. CASE T # {}
      <4>1. PICK x : x \in T
        BY <3>2
      <4>2. T = {x}
        BY <2>1, <4>1
      <4> QED BY <4>2, FS_Singleton
    <3> QED BY <3>1, <3>2
  <2>2. s \in {0, 1} /\ (S = {} => s = 0)
    BY <2>1 DEF OneToken
  <2>3. a \in {0, 1} /\ (A = {} => a = 0)
    BY <2>1 DEF OneToken
  <2>4. q \in {0, 1} /\ (queue = <<>> => q = 0)
    <3>1. q \in Nat
      BY DEF RunType, TypeOK
    <3>2. q <= 1
      BY DEF OneToken
    <3>3. queue = <<>> => q = 0
      BY DEF RunType, TypeOK
    <3>4. \A k \in Nat : k <= 1 => k \in {0, 1}
      OBVIOUS
    <3> HIDE DEF q
    <3> QED BY <3>1, <3>2, <3>3, <3>4
  <2>5. S # {} => queue = <<>> /\ n = 0 /\ A = {}
    BY DEF OneToken, Quiet
  <2>6. A # {} => queue = <<>> /\ n = 0
    BY DEF OneToken
  <2>7. n = 1 => queue = <<>>
    BY DEF OneToken
  <2>8. q + n + s + a <= 1 => SingleExecution
    BY DEF SingleExecution, Pending
  <2>9. n \in {0, 1}
    OBVIOUS
  <2> HIDE DEF S, A, n, q, s, a
  <2>10. CASE S # {}
    BY <2>2, <2>3, <2>4, <2>5, <2>8, <2>10
  <2>11. CASE S = {} /\ A # {}
    BY <2>2, <2>3, <2>4, <2>6, <2>8, <2>11
  <2>12. CASE S = {} /\ A = {}
    BY <2>2, <2>3, <2>4, <2>7, <2>8, <2>9, <2>12
  <2> QED BY <2>10, <2>11, <2>12
<1> QED BY <1>1, TokenInvariant, PTL

(* Until two SubmitToolOutputs overlap, nothing but a cancellation changes  *)
(* the status of a finished run.                                            *)
THEOREM TerminalIsFinalHolds == Spec => TerminalIsFinal
<1>1. RunType /\ EndingInv /\ TokenInv /\ [Next]_vars
        => [(status \in Terminal /\ overlaps = 0) => status' \in {status, "cancelling"}]_status
  <2> SUFFICES ASSUME RunType, EndingInv, OneToken, Next, status' # status, status \in Terminal
               PROVE  status' = "cancelling"
    BY DEF vars, dbVars, TokenInv
  <2>0. TypeOK /\ Quiet /\ NoRequest /\ creator # "start"
    BY DEF RunType, OneToken, Terminal
  <2>1. ASSUME NEW w \in Workers, Handle(w) PROVE FALSE
    BY <2>0, <2>1, HandleToken DEF Takes, Works, PutsDown, Quiet
  <2>2. CASE InsertRun \/ EnqueueRun \/ CancelRun \/ DeleteAssistant \/ Crash
    BY <2>0, <2>2 DEF InsertRun, EnqueueRun, CancelRun, DeleteAssistant, Crash, dbVars
  <2>3. ASSUME NEW c \in Clients, SubmitContinues(c) PROVE FALSE
    BY <2>0, <2>3, RequestToken DEF SubmitContinues, NoRequest
  <2>4. ASSUME NEW c \in Clients, NEW out \in {"blank", "full"}, SubmitCheckRun(c, out) PROVE FALSE
    BY <2>0, <2>4, RequestToken DEF Terminal
  <2> QED BY <2>1, <2>2, <2>3, <2>4 DEF Next
<1> QED BY <1>1, TokenInvariant, PTL DEF Spec, TerminalIsFinal

-----------------------------------------------------------------------------
(* Writing the outputs of any step does not change what the newest one is.  *)
LEMMA OpenStepStays ==
    ASSUME TypeOK, NEW k \in Nat, NEW o \in {"none", "blank", "full"},
           steps' = [steps EXCEPT ![k].out = o], rounds' = rounds, OpenStep
    PROVE  OpenStep'
<1> DEFINE n == Len(steps)
           x == [steps[k] EXCEPT !.out = o]
<1>1. steps \in Seq(Step) /\ n \in Nat /\ n \in 1..n /\ steps[n] \in Step
  BY DEF OpenStep, TypeOK
<1>2. steps' = [steps EXCEPT ![k] = x]
  OBVIOUS
<1>3. ASSUME k \in 1..n
      PROVE  /\ x \in Step /\ x.type = steps[k].type /\ x.round = steps[k].round
             /\ x.status = steps[k].status
  <2>1. steps[k] \in Step
    BY <1>3 DEF TypeOK
  <2> QED BY <2>1 DEF Step
<1>4. /\ Len(steps') = n
      /\ \A j \in 1..n : steps'[j] = IF j = k THEN x ELSE steps[j]
  <2> HIDE DEF x
  <2> QED BY <1>1, <1>2, <1>3, SeqUpdate
<1>5. steps'[n] = IF n = k THEN x ELSE steps[n]
  BY <1>1, <1>4
<1>6. /\ steps'[n].type = steps[n].type /\ steps'[n].round = steps[n].round
      /\ steps'[n].status = steps[n].status
  <2> HIDE DEF x
  <2> QED BY <1>1, <1>3, <1>5
<1>7. steps' # <<>>
  <2>1. Len(steps') # 0
    BY <1>1, <1>4
  <2> QED BY <2>1
<1> HIDE DEF n
<1> QED BY <1>4, <1>6, <1>7 DEF OpenStep, n

(* Whoever does not have the run is not disturbed by what happens to it.    *)
LEMMA IdleAsking ==
    ASSUME NEW w \in Workers, ~Active(w), AskingInv(w), worker'[w] = worker[w]
    PROVE  AskingInv(w)'
  BY DEF AskingInv, Asking, Active, PausePC

(* A step of ResolveNextStep changes locals only.                           *)
LEMMA ResolveAsking ==
    ASSUME RunType, NEW w \in Workers, AskingInv(w), ~ShouldStop,
           \/ EarlyStop(w) \/ EarlyStopOnEmptyState(w)
           \/ \E kind \in Kind, text \in BOOLEAN : PlanTools(w, kind, text)
           \/ PlanAnswer(w) \/ ExecuteTools(w) \/ Pause(w) \/ LiftPause(w) \/ ResolveThrows(w)
    PROVE  AskingInv(w)'
<1>0. TypeOK
  BY DEF RunType
<1>1. ~EarlyStop(w) /\ ~EarlyStopOnEmptyState(w)
  BY DEF EarlyStop, EarlyStopOnEmptyState
<1>2. ASSUME NEW kind \in Kind, NEW text \in BOOLEAN, PlanTools(w, kind, text) PROVE AskingInv(w)'
  <2>1. CallbackFor("continuation", text) \in {"cont_msg", "cont_tool"}
    BY DEF CallbackFor
  <2>2. rounds' = rounds + 1 /\ worker[w].ending # "abort"
    BY <1>2 DEF PlanTools, AskingInv, Asking
  <2>3. Becomes(w, CallbackFor("continuation", text), worker[w].ending, "continuation", kind, rounds + 1, "none")
    BY <1>0, <1>2, ResolveEffect
  <2> QED BY <2>1, <2>2, <2>3 DEF AskingInv, Asking, Becomes, Has, PausePC
<1>3. CASE PlanAnswer(w) \/ ResolveThrows(w)
  <2>1. Becomes(w, "fin_read", "end", worker[w].last, worker[w].kind, worker[w].round, worker[w].out)
    BY <1>0, <1>3, ResolveEffect
  <2> QED BY <2>1 DEF AskingInv, Asking, Becomes, Has, PausePC
<1>4. CASE ExecuteTools(w) \/ LiftPause(w)
  <2>1. \E o : Becomes(w, "obs_read", worker[w].ending, "observation", worker[w].kind, worker[w].round, o)
    BY <1>0, <1>4, ResolveEffect
  <2> QED BY <2>1 DEF AskingInv, Asking, Becomes, Has, PausePC
<1>5. CASE Pause(w)
  <2>1. Becomes(w, "pause_read", "end", "pause", worker[w].kind, worker[w].round, worker[w].out)
    BY <1>0, <1>5, ResolveEffect
  <2>2. OpenStep /\ worker[w].out = "none"
    BY <1>5 DEF Pause, Resolving, AskingInv, Asking
  <2>3. OpenStep'
    BY <1>5, <2>2 DEF Pause, dbVars, rest, OpenStep
  <2> QED BY <2>1, <2>2, <2>3 DEF AskingInv, Asking, Becomes, Has
<1> QED BY <1>1, <1>2, <1>3, <1>4, <1>5

(* Set-up, callbacks and finish.                                            *)
LEMMA CallbackAsking ==
    ASSUME RunType, NEW w \in Workers, AskingInv(w),
           \/ TakeTask(w) \/ MarkInProgress(w) \/ Recover(w) \/ SetupFails(w)
           \/ ContinuationMessage(w) \/ ContinuationTools(w) \/ ContinuationRejected(w) \/ ContinuationRun(w)
           \/ ReadLastStep(w) \/ PauseStep(w) \/ PauseRun(w) \/ ObservationRun(w) \/ ObservationStep(w)
           \/ FinishMessage(w) \/ FinishMessageThrows(w) \/ FinishStep(w) \/ FinishRun(w)
    PROVE  AskingInv(w)'
<1>0. TypeOK /\ worker[w] \in Local
  BY DEF RunType, TypeOK
<1>1. Returns(w) => AskingInv(w)'
  BY DEF AskingInv, Asking, Returns, Becomes, Has, PausePC
<1>2. ASSUME NEW p \in {"resolve", "start", "setup", "cont_tool", "obs_run", "obs_step",
                        "fin_read", "fin_msg", "fin_step", "fin_run"},
             MovesTo(w, p), rounds' = rounds,
             p = "resolve" => worker[w].last # "continuation",
             p \in {"start", "setup"} => worker[w].last = "nothing",
             p \in {"obs_run", "obs_step"} => worker[w].last = "observation",
             p = "cont_tool" => worker[w].last = "continuation" /\ worker[w].round = rounds
      PROVE  AskingInv(w)'
  BY <1>2 DEF AskingInv, Asking, MovesTo, Becomes, Has, PausePC
<1>3. CASE TakeTask(w) \/ MarkInProgress(w) \/ Recover(w) \/ SetupFails(w)
  <2>1. rounds' = rounds /\ (TakeTask(w) \/ MarkInProgress(w) \/ Recover(w) => worker[w].last = "nothing")
    BY <1>3 DEF TakeTask, MarkInProgress, Recover, SetupFails, rest, AskingInv, Asking
  <2>2. CASE TakeTask(w)
    <3>1. worker' = worker => AskingInv(w)'
      BY <2>2 DEF TakeTask, AskingInv, Asking, PausePC
    <3> QED BY <1>0, <1>2, <2>1, <2>2, <3>1, SetupEffect
  <2>3. CASE MarkInProgress(w)
    BY <1>0, <1>2, <2>1, <2>3, SetupEffect
  <2>4. CASE Recover(w)
    <3>1. ASSUME NEW r, NEW o, NEW a \in {"observation", "pause"},
                 Becomes(w, "resolve", worker[w].ending, a, "user", r, o)
          PROVE  AskingInv(w)'
      BY <3>1 DEF AskingInv, Asking, Becomes, Has, PausePC
    <3>2. MovesTo(w, "resolve") => AskingInv(w)'
      BY <1>2, <2>1, <2>4
    <3> QED BY <1>0, <2>4, <3>1, <3>2, SetupEffect
  <2> QED BY <1>0, <1>1, <1>3, <2>2, <2>3, <2>4, SetupEffect
<1>4. CASE ContinuationMessage(w)
  <2>1. rounds' = rounds /\ worker[w].last = "continuation" /\ worker[w].round = rounds
    BY <1>4 DEF ContinuationMessage, rest, AskingInv, Asking
  <2> QED BY <1>0, <1>2, <1>4, <2>1, CallbackEffect
<1>5. CASE ContinuationTools(w)
  <2>1. MovesTo(w, "cont_run") /\ rounds' = rounds
    BY <1>0, <1>5, CallbackEffect DEF ContinuationTools, rest
  <2>2. worker[w].last = "continuation" /\ worker[w].round = rounds
    BY <1>5 DEF ContinuationTools, AskingInv, Asking
  <2>3. ASSUME worker[w].kind # "empty" PROVE OpenStep'
    <3>1. steps' = Append(steps, ToolStep(rounds))
      BY <1>5, <2>2, <2>3 DEF ContinuationTools
    <3>2. ToolStep(rounds) \in Step /\ steps \in Seq(Step)
      BY <1>0 DEF TypeOK, ToolStep, Step
    <3>3. Len(steps') = Len(steps) + 1 /\ steps'[Len(steps')] = ToolStep(rounds) /\ steps' # <<>>
      BY <3>1, <3>2
    <3> QED BY <2>1, <3>3 DEF OpenStep, ToolStep
  <2> QED BY <2>1, <2>2, <2>3 DEF AskingInv, Asking, MovesTo, Becomes, Has, PausePC
<1>6. CASE ContinuationRejected(w)
  <2>1. Becomes(w, "fin_read", "end", worker[w].last, worker[w].kind, worker[w].round, worker[w].out)
    BY <1>0, <1>6, CallbackEffect
  <2> QED BY <2>1 DEF AskingInv, Asking, Becomes, Has, PausePC
<1>7. CASE ContinuationRun(w)
  <2>1. EndCallback(w) /\ rounds' = rounds /\ steps' = steps /\ worker[w].pc = "cont_run"
    BY <1>7 DEF ContinuationRun, rest
  <2>2. OpenStep' = OpenStep
    BY <2>1 DEF OpenStep
  <2>3. ASSUME MovesTo(w, "resolve") PROVE AskingInv(w)'
    <3>1. worker[w].kind = "user" => OpenStep
      BY <2>1 DEF AskingInv, Asking
    <3> QED BY <2>1, <2>2, <2>3, <3>1 DEF AskingInv, Asking, MovesTo, Becomes, Has, PausePC
  <2> QED BY <1>0, <1>1, <2>1, <2>3, EndCallbackEffect
<1>8. CASE ReadLastStep(w)
  <2>1. /\ rounds' = rounds /\ steps' = steps /\ worker[w].pc \in {"pause_read", "obs_read", "fin_read"}
        /\ MovesTo(w, AfterRead(worker[w].pc, worker[w].final))
    BY <1>0, <1>8, CallbackEffect DEF ReadLastStep, dbVars, rest
  <2>2. CASE worker[w].pc = "pause_read"
    <3>1. MovesTo(w, "pause_step")
      BY <2>1, <2>2 DEF AfterRead
    <3>2. OpenStep' /\ worker[w].out = "none"
      BY <2>1, <2>2 DEF AskingInv, Asking, PausePC, OpenStep
    <3> QED BY <3>1, <3>2 DEF AskingInv, Asking, MovesTo, Becomes, Has
  <2>3. CASE worker[w].pc = "obs_read"
    <3>1. MovesTo(w, "obs_run") /\ worker[w].last = "observation"
      BY <2>1, <2>3 DEF AfterRead, AskingInv, Asking
    <3> QED BY <1>2, <2>1, <3>1
  <2>4. CASE worker[w].pc = "fin_read"
    <3>1. \E p \in {"fin_msg", "fin_run", "fin_step"} : MovesTo(w, p)
      BY <2>1, <2>4 DEF AfterRead
    <3> QED BY <1>2, <2>1, <3>1
  <2> QED BY <2>1, <2>2, <2>3, <2>4
<1>9. CASE PauseStep(w)
  <2>1. /\ steps' = [steps EXCEPT ![worker[w].idx].out = worker[w].was] /\ rounds' = rounds
        /\ worker[w].pc = "pause_step"
    BY <1>9 DEF PauseStep, rest
  <2>2. OpenStep /\ worker[w].out = "none"
    BY <2>1 DEF AskingInv, Asking, PausePC
  <2>3. worker[w].idx \in Nat /\ worker[w].was \in {"none", "blank", "full"}
    BY <1>0 DEF Local
  <2>4. OpenStep'
    BY <1>0, <2>1, <2>2, <2>3, OpenStepStays
  <2>5. MovesTo(w, "pause_run")
    BY <1>0, <1>9, CallbackEffect
  <2> QED BY <2>2, <2>4, <2>5 DEF AskingInv, Asking, MovesTo, Becomes, Has
<1>10. CASE PauseRun(w)
  <2>1. EndCallback(w) /\ rounds' = rounds /\ steps' = steps /\ OpenStep
    BY <1>10 DEF PauseRun, rest, AskingInv, Asking, PausePC
  <2>2. MovesTo(w, "resolve") => AskingInv(w)'
    <3>1. OpenStep'
      BY <2>1 DEF OpenStep
    <3> QED BY <2>1, <3>1 DEF AskingInv, Asking, MovesTo, Becomes, Has, PausePC
  <2> QED BY <1>0, <1>1, <2>1, <2>2, EndCallbackEffect
<1>11. CASE ObservationRun(w)
  <2>1. rounds' = rounds /\ worker[w].last = "observation"
    BY <1>11 DEF ObservationRun, rest, AskingInv, Asking
  <2> QED BY <1>0, <1>2, <1>11, <2>1, CallbackEffect
<1>12. CASE ObservationStep(w)
  <2>1. EndCallback(w) /\ rounds' = rounds /\ worker[w].last = "observation"
    BY <1>12 DEF ObservationStep, rest, AskingInv, Asking
  <2> QED BY <1>0, <1>1, <1>2, <2>1, EndCallbackEffect
<1>13. CASE FinishMessage(w) \/ FinishMessageThrows(w) \/ FinishStep(w)
  <2>1. rounds' = rounds
    BY <1>13 DEF FinishMessage, FinishMessageThrows, FinishStep, rest
  <2> QED BY <1>0, <1>2, <1>13, <2>1, CallbackEffect
<1>14. CASE FinishRun(w)
  BY <1>0, <1>1, <1>14, CallbackEffect
<1> QED BY <1>3, <1>4, <1>5, <1>6, <1>7, <1>8, <1>9, <1>10, <1>11, <1>12, <1>13, <1>14

(* Only OnAgentPause_ makes a run wait for the user.                        *)
LEMMA OnlyPauseAsks ==
    ASSUME TypeOK, NEW w \in Workers, Handle(w), status # "requires_action", status' = "requires_action"
    PROVE  PauseRun(w)
<1>0. worker[w].final # "requires_action"
  BY DEF TypeOK, Local
<1>1. ~TakeTask(w) /\ ~MarkInProgress(w) /\ ~Recover(w) /\ ~SetupFails(w)
  BY DEF TakeTask, MarkInProgress, Recover, SetupFails, dbVars
<1>2. /\ ~EarlyStop(w) /\ ~EarlyStopOnEmptyState(w) /\ ~PlanAnswer(w) /\ ~ExecuteTools(w) /\ ~Pause(w)
      /\ ~LiftPause(w) /\ ~ResolveThrows(w)
      /\ \A kind \in Kind, text \in BOOLEAN : ~PlanTools(w, kind, text)
  BY DEF EarlyStop, EarlyStopOnEmptyState, PlanAnswer, ExecuteTools, Pause, LiftPause, ResolveThrows,
         PlanTools, dbVars
<1>3. /\ ~ContinuationMessage(w) /\ ~ContinuationTools(w) /\ ~ContinuationRejected(w) /\ ~ContinuationRun(w)
      /\ ~ReadLastStep(w) /\ ~PauseStep(w) /\ ~ObservationRun(w) /\ ~ObservationStep(w)
  BY DEF ContinuationMessage, ContinuationTools, ContinuationRejected, ContinuationRun, ReadLastStep,
         PauseStep, ObservationRun, ObservationStep, dbVars
<1>4. ~FinishMessage(w) /\ ~FinishMessageThrows(w) /\ ~FinishStep(w) /\ ~FinishRun(w)
  BY <1>0 DEF FinishMessage, FinishMessageThrows, FinishStep, FinishRun, dbVars
<1> QED BY <1>1, <1>2, <1>3, <1>4 DEF Handle

(* The consumer that has the run keeps the newest step open from asking for *)
(* tools to pausing.                                                        *)
LEMMA HandlePause ==
    ASSUME RunType, EndingInv, OneToken, PauseInv, NEW w \in Workers, Handle(w)
    PROVE  PauseInv'
<1>0. TypeOK
  BY DEF RunType
<1>1. /\ Takes(w) \/ Works(w) \/ PutsDown(w)
      /\ cancels' = cancels
      /\ \A u \in Workers : u # w => worker'[u] = worker[u]
  BY <1>0, HandleToken
<1>2. SUFFICES ASSUME cancels = 0
               PROVE  /\ status' \notin {"cancelling", "cancelled", "expired"}
                      /\ status' = "requires_action" => required' = "open" /\ OpenStep'
                      /\ \A u \in Workers : AskingInv(u)'
  BY <1>1 DEF PauseInv
<1>3. /\ status \notin {"cancelling", "cancelled", "expired"} /\ ~ShouldStop
      /\ \A u \in Workers : AskingInv(u)
  BY <1>2 DEF PauseInv, ShouldStop
<1>4. /\ \A u \in Workers : u # w => ~Active(u)
      /\ status # "requires_action"
  BY <1>1 DEF OneToken, Takes, Works, PutsDown, Quiet
<1>5. status' \notin {"cancelling", "cancelled", "expired"}
  BY <1>1, <1>3 DEF Takes, Works, PutsDown
<1>6. ASSUME status' = "requires_action" PROVE required' = "open" /\ OpenStep'
  <2>1. PauseRun(w)
    BY <1>0, <1>4, <1>6, OnlyPauseAsks
  <2>2. worker[w].out = "none" /\ OpenStep
    BY <1>3, <2>1 DEF PauseRun, AskingInv, Asking, PausePC
  <2> QED BY <2>1, <2>2 DEF PauseRun, rest, OpenStep
<1>7. AskingInv(w)'
  BY <1>3, ResolveAsking, CallbackAsking DEF Handle
<1>8. \A u \in Workers : u # w => AskingInv(u)'
  BY <1>1, <1>3, <1>4, IdleAsking
<1> QED BY <1>5, <1>6, <1>7, <1>8

(* Until it is cancelled, the requests leave a waiting run answerable.      *)
LEMMA ServicePause ==
    ASSUME RunType, OneToken, PauseInv, Service
    PROVE  PauseInv'
<1>0. TypeOK
  BY DEF RunType
<1>1. ASSUME status' \in {status, "queued"}, UNCHANGED <<required, steps, rounds, worker, cancels>>
      PROVE  PauseInv'
  <2>1. OpenStep' = OpenStep
    BY <1>1 DEF OpenStep
  <2>2. \A w \in Workers : AskingInv(w)' = AskingInv(w)
    BY <1>1, <2>1 DEF AskingInv, Asking
  <2> QED BY <1>1, <2>1, <2>2 DEF PauseInv
<1>2. CASE InsertRun \/ EnqueueRun \/ DeleteAssistant
  BY <1>1, <1>2 DEF InsertRun, EnqueueRun, DeleteAssistant, dbVars
<1>3. CASE CancelRun
  <2>1. cancels' # 0
    BY <1>0, <1>3 DEF CancelRun, TypeOK
  <2> QED BY <2>1 DEF PauseInv
<1>4. CASE Crash
  <2>1. OpenStep' = OpenStep /\ UNCHANGED <<status, required, cancels>>
    BY <1>4 DEF Crash, dbVars, OpenStep
  <2>2. \A w \in Workers : AskingInv(w)'
    BY <1>4 DEF Crash, AskingInv, Asking, Idle, PausePC
  <2> QED BY <2>1, <2>2 DEF PauseInv
<1>5. ASSUME NEW c \in Clients, NEW out \in {"blank", "full"}, SubmitCheckRun(c, out) PROVE PauseInv'
  BY <1>0, <1>1, <1>5, RequestToken DEF dbVars
<1>6. ASSUME NEW c \in Clients, SubmitCheckStep(c) \/ SubmitModifyRun(c) \/ SubmitEnqueue(c) PROVE PauseInv'
  BY <1>0, <1>1, <1>6, RequestToken DEF dbVars
<1>7. ASSUME NEW c \in Clients, SubmitModifyStep(c) PROVE PauseInv'
  <2>1. /\ client[c].pc = "modstep" /\ UNCHANGED <<status, required, rounds, worker, cancels>>
        /\ steps' = [steps EXCEPT ![client[c].idx].out = client[c].out]
    BY <1>0, <1>7, RequestToken DEF SubmitModifyStep
  <2>2. client[c].idx \in Nat /\ client[c].out \in {"none", "blank", "full"}
    BY <1>0 DEF TypeOK
  <2>3. OpenStep => OpenStep'
    BY <1>0, <2>1, <2>2, OpenStepStays
  <2>4. \A w \in Workers : ~Active(w)
    BY <2>1 DEF OneToken, Quiet
  <2>5. \A w \in Workers : AskingInv(w) => AskingInv(w)'
    BY <2>1, <2>4, IdleAsking
  <2> QED BY <2>1, <2>3, <2>5 DEF PauseInv
<1> QED BY <1>2, <1>3, <1>4, <1>5, <1>6, <1>7 DEF Service, SubmitContinues

(* Until two SubmitToolOutputs overlap, a run that waits for the user and   *)
(* was never cancelled can be answered: whatever crashed meanwhile, its     *)
(* newest step is the open tool step of the current round, and calls are    *)
(* listed.                                                                  *)
THEOREM PauseIsAnswerableHolds == Spec => []PauseIsAnswerable
<1> DEFINE Inv == overlaps = 0 => PauseInv
<1>1. Init => Inv
  BY DEF Init, PauseInv, AskingInv, Asking, Idle, PausePC
<1>2. RunType /\ EndingInv /\ TokenInv /\ Inv /\ [Next]_vars => Inv'
  <2> SUFFICES ASSUME RunType, EndingInv, TokenInv, Inv, [Next]_vars, overlaps' = 0 PROVE PauseInv'
    OBVIOUS
  <2>0. OneToken /\ PauseInv
    BY OverlapsStay DEF TokenInv
  <2>1. CASE UNCHANGED vars
    BY <2>0, <2>1 DEF vars, dbVars, PauseInv, AskingInv, Asking, OpenStep
  <2> QED BY <2>0, <2>1, ServicePause, HandlePause DEF Next, Service
<1>3. Inv => PauseIsAnswerable
  BY DEF PauseInv, PauseIsAnswerable, OpenStep
<1> HIDE DEF Inv
<1> QED BY <1>1, <1>2, <1>3, TokenInvariant, PTL DEF Spec

=============================================================================
