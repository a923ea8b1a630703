----------------------------- MODULE AssistantApi -----------------------------
(***************************************************************************)
(* The services behind the assistant API: threads, messages, runs, run      *)
(* steps, assistants and files.  An HTTP worker routes a request, checks    *)
(* it, and runs the service function, which is a sequence of SQL            *)
(* statements and object store calls.  Each of them is atomic by itself and *)
(* there is no transaction around them, so requests interleave between any  *)
(* two.  A service function is written as the sequence of its statements    *)
(* and a statement is an action.  One consumer of the scheduler executes    *)
(* the runs that are queued, with the same services.  Vector stores, the    *)
(* execution of a run and the tool outputs have modules of their own.       *)
(***************************************************************************)
EXTENDS HttpRoutes, FiniteSets, TLC

CONSTANTS
    Workers,        \* threads of the HTTP server
    Ops,            \* the endpoints that clients call
    MaxRequests,    \* bound on the requests of a behaviour
    MessageCounts,  \* how many messages a new thread or run may bring
    MaxCrashes,     \* bound on the crashes of the process
    PageSize,       \* the "limit" of the paging client
    Orders          \* the "order" of the paging client

ASSUME ApiAssumption ==
    /\ MaxRequests \in Nat /\ MessageCounts \subseteq Nat /\ MaxCrashes \in Nat
    /\ PageSize \in Nat \ {0}
    /\ Orders \subseteq {"asc", "desc"}

VARIABLES
    rows,       \* the rows of all tables: [kind, id, thread, status, at]
    objects,    \* the file ids that have an object in the object store
    gen,        \* the last sequence number of the id generator
    issued,     \* how often each id was handed out
    clock,      \* the database's now(): counts the insert statements
    worker,     \* what each thread does: the statements still to execute
    queue,      \* runs handed to the task scheduler
    claims,     \* per kind and id, the answers that said deleted = true
    cut,        \* per deleted thread, the time at which its deletion began
    pager,      \* a client that reads the messages of a thread page by page
    requests, crashes

vars == <<rows, objects, gen, issued, clock, worker, queue, claims,
          cut, pager, requests, crashes>>

database == <<rows, clock>>
ids == <<gen, issued>>
history == <<claims, cut>>
clients == <<pager, requests, crashes>>

Consumer == "consumer"
Threads == Workers \cup {Consumer}
Kinds == {"thread", "message", "run", "step", "assistant", "file"}

\* The function f with y at x, which may be new in its domain.
Assign(f, x, y) == [z \in DOMAIN f \cup {x} |-> IF z = x THEN y ELSE f[z]]

IdsOf(kind) == {r.id : r \in {q \in rows : q.kind = kind}}

\* A thread between two requests.  "since" is when the deletion it executes
\* began, "messages" how many ids of messages it still has to draw and "batch"
\* the ones it has.
Idle == [op |-> "idle", want |-> "idle", todo |-> <<>>, ids |-> <<>>, thread |-> 0,
         messages |-> 0, batch |-> <<>>, target |-> 0, old |-> 0, since |-> 0, count |-> 0]

-----------------------------------------------------------------------------
(* The service functions.  "full" tells whether the request carries          *)
(* messages.                                                                 *)

CreateThread(full) ==
    IF full THEN <<"ThreadId", "MessageId", "InsertManyMessages", "InsertOneThread", "AnswerThread">>
    ELSE <<"ThreadId", "InsertOneThread", "AnswerThread">>

CreateThreadAndRun ==
    <<"RunId", "ThreadId", "InsertOneThread", "MessageId", "InsertManyMessages",
      "InsertOneRun", "RetrieveRun", "Enqueue">>

CreateRun(full) ==
    IF full THEN <<"RunId", "MessageId", "InsertManyMessages", "InsertOneRun", "RetrieveRun",
                   "Enqueue">>
    ELSE <<"RunId", "InsertOneRun", "RetrieveRun", "Enqueue">>

CreateMessage == <<"MessageId", "InsertOneMessages", "AnswerMessage">>
CreateAssistant == <<"AssistantId", "InsertOneAssistant", "AnswerAssistant">>

\* Mutant: the thread is deleted without its messages.
DeleteThreadKeepsMessages ==
    <<"CheckActiveRuns", "DeleteManyRuns", "DeleteManyRunSteps", "DeleteThreadRow">>

DeleteThread == <<"CheckActiveRuns", "DeleteManyRuns", "DeleteManyRunSteps",
                  "DeleteManyMessages", "DeleteThreadRow">>
DeleteAssistant == <<"DeleteAssistantRow">>
UploadFile == <<"FileId", "PutObject", "GetObjectState", "InsertOneFile", "AnswerFile">>

\* Mutant: the object is deleted before the row that refers to it.
DeleteFileObjectFirst == <<"FindFile", "DeleteObject", "DeleteFileRow">>

DeleteFile == <<"FindFile", "DeleteFileRow", "DeleteObject">>
DownloadFile == <<"FindFile", "GetObject">>

\* An update is one statement and a read; neither changes which rows exist.
ModifyThread == <<"Update">>
ModifyMessage == <<"Update">>
ModifyAssistant == <<"Update">>

\* What the consumer does with these services to execute a run.
ExecuteRun == <<"MarkInProgress", "MessageId", "InsertOneMessages", "StepId",
                "InsertOneRunStep", "MarkCompleted">>

\* A request that changes none of these rows, or is modelled elsewhere, is a
\* single read here.
Program(handler, full) ==
    CASE handler = "CreateThread" -> CreateThread(full)
      [] handler = "CreateThreadAndRun" -> CreateThreadAndRun
      [] handler = "CreateRun" -> CreateRun(full)
      [] handler = "CreateMessage" -> CreateMessage
      [] handler = "CreateAssistant" -> CreateAssistant
      [] handler = "DeleteThread" -> DeleteThread
      [] handler = "DeleteAssistant" -> DeleteAssistant
      [] handler = "UploadFile" -> UploadFile
      [] handler = "DeleteFile" -> DeleteFile
      [] handler = "DownloadFile" -> DownloadFile
      [] handler = "ModifyThread" -> ModifyThread
      [] handler = "ModifyMessage" -> ModifyMessage
      [] handler = "ModifyAssistant" -> ModifyAssistant
      [] OTHER -> <<"Read">>

-----------------------------------------------------------------------------
(* Requests.                                                                 *)

\* The messages of CreateThreadAndRun: no two of the same role in a row, and
\* the first one is of the user; the role of the last one is not looked at.
LegalMessages(roles) ==
    /\ roles # <<>>
    /\ roles[1] = "user"
    /\ \A i \in 1..Len(roles) - 1 : roles[i] # roles[i + 1]

\* The multipart form of an upload: the names of its file fields in order and
\* whether it names a known purpose.
LegalUpload(form) ==
    /\ form.multipart
    /\ form.files # <<>>
    /\ \E i \in DOMAIN form.files : form.files[i] = "file"
    /\ form.purpose

\* What a body tells: is it accepted, and how many messages does it carry?
Bodies(handler) ==
    CASE handler = "CreateThreadAndRun" ->
            {[good |-> LegalMessages(s), messages |-> Len(s)] :
                s \in {<<>>, <<"assistant">>, <<"user", "assistant">>, <<"user", "user">>}}
      [] handler \in {"CreateThread", "CreateRun"} -> [good : BOOLEAN, messages : MessageCounts]
      [] handler = "UploadFile" ->
            {[good |-> LegalUpload(f), messages |-> 0] :
                f \in [multipart : BOOLEAN, purpose : BOOLEAN,
                        files : {<<>>, <<"file">>, <<"image", "file">>, <<"image">>}]}
      [] OTHER -> [good : BOOLEAN, messages : {1}]

\* The kind of row a handler takes the id of from the path.
TargetKind(handler) ==
    CASE handler \in {"DeleteFile", "DownloadFile", "GetFile"} -> "file"
      [] handler \in {"ModifyMessage", "GetMessage"} -> "message"
      [] handler \in {"ModifyAssistant", "DeleteAssistant"} -> "assistant"
      [] OTHER -> "thread"

\* The row a request is about: none without a path parameter, one of the kind
\* or, for an id that does not exist, 0.
Targets(route) ==
    {0} \cup IF route.reads = {} THEN {} ELSE IdsOf(TargetKind(route.handler))

\* The answer to a request that reaches no handler.
Refused(code, op) == [Idle EXCEPT !.op = code, !.want = op, !.todo = <<"AnswerError">>]

\* A request for an endpoint of the documentation arrives at an idle worker.
\* The server answers it when no route matches (404) or when the handler reads
\* a path parameter its route does not have (500); a body that is refused ends
\* the handler at once (400).
Arrive(w, op) ==
    LET place == Dispatch(Endpoint(op).method, Filled(Endpoint(op).path))
        route == MountedRoutes[place]
    IN  /\ worker[w] = Idle /\ requests < MaxRequests
        /\ requests' = requests + 1
        /\ \/ /\ place = 0
              /\ worker' = [worker EXCEPT ![w] = Refused("404", op)]
           \/ /\ place # 0 /\ ~ (route.reads \subseteq Bound(route))
              /\ worker' = [worker EXCEPT ![w] = Refused("500", op)]
           \/ /\ place # 0 /\ route.reads \subseteq Bound(route)
              /\ \E body \in Bodies(route.handler), target \in Targets(route) :
                    worker' = [worker EXCEPT ![w] =
                        IF ~ body.good THEN Idle
                        ELSE [Idle EXCEPT !.op = route.handler, !.want = op,
                                          !.todo = Program(route.handler, body.messages > 0),
                                          !.messages = body.messages,
                                          !.thread = target, !.target = target,
                                          !.since = IF route.handler = "DeleteThread"
                                                    THEN clock ELSE 0]]
        /\ UNCHANGED <<objects, pager, crashes, database, ids, queue, history>>

At(w, statement) == worker[w].todo # <<>> /\ Head(worker[w].todo) = statement

\* The thread of the request after its current statement, and at its end.
Next1(me) == [me EXCEPT !.todo = Tail(@)]
Go(w, me) == worker' = [worker EXCEPT ![w] = IF Len(me.todo) = 1 THEN Idle ELSE Next1(me)]
Stop(w) == worker' = [worker EXCEPT ![w] = Idle]

-----------------------------------------------------------------------------
(* Identifiers.  The generator has no lock: NextID reads its state and       *)
(* writes it back in another step.                                           *)

IdStatements == {"ThreadId", "MessageId", "RunId", "StepId", "AssistantId", "FileId"}

NextIdRead(w) ==
    /\ worker[w].todo # <<>> /\ Head(worker[w].todo) \in IdStatements
    /\ worker[w].old = 0
    /\ worker' = [worker EXCEPT ![w].old = gen + 1]
    /\ UNCHANGED <<objects, database, ids, queue, history, clients>>

\* One id is drawn for each message of the request.
NextIdWrite(w) ==
    LET me == worker[w]
        name == Head(me.todo)
    IN  /\ me.todo # <<>> /\ name \in IdStatements
        /\ me.old # 0
        /\ gen' = me.old
        /\ issued' = Assign(issued, me.old, IF me.old \in DOMAIN issued THEN issued[me.old] + 1 ELSE 1)
        /\ IF name = "MessageId"
           THEN LET next == [me EXCEPT !.old = 0, !.ids = Assign(@, name, me.old),
                                       !.batch = Append(@, me.old), !.messages = @ - 1]
                IN  IF me.messages > 1 THEN worker' = [worker EXCEPT ![w] = next] ELSE Go(w, next)
           ELSE Go(w, [me EXCEPT !.old = 0, !.ids = Assign(@, name, me.old),
                                 !.thread = IF name = "ThreadId" THEN me.old ELSE @])
        /\ UNCHANGED <<objects, database, queue, history, clients>>

-----------------------------------------------------------------------------
(* SQL statements.  An id is a primary key: inserting it again fails and the *)
(* request ends with 400.                                                    *)

Insert(w, statement, kind, id, thread, status) ==
    /\ At(w, statement)
    /\ \/ /\ id \in IdsOf(kind)
          /\ Stop(w)
          /\ UNCHANGED database
       \/ /\ id \notin IdsOf(kind)
          /\ rows' = rows \cup {[kind |-> kind, id |-> id, thread |-> thread,
                                 status |-> status, at |-> clock + 1]}
          /\ clock' = clock + 1
          /\ Go(w, worker[w])
    /\ UNCHANGED <<objects, ids, queue, history, clients>>

InsertOneThread(w) == Insert(w, "InsertOneThread", "thread", worker[w].ids["ThreadId"], 0, "-")

\* All messages of a request are the values of one insert: they are stored
\* together, with the same default of created_at, or not at all.
InsertManyMessages(w) ==
    LET batch == worker[w].batch
    IN  /\ At(w, "InsertManyMessages")
        /\ \/ /\ ~ IsInjective(batch) \/ Range(batch) \cap IdsOf("message") # {}
              /\ Stop(w)
              /\ UNCHANGED database
           \/ /\ IsInjective(batch) /\ Range(batch) \cap IdsOf("message") = {}
              /\ rows' = rows \cup {[kind |-> "message", id |-> i, thread |-> worker[w].thread,
                                     status |-> "-", at |-> clock + 1] : i \in Range(batch)}
              /\ clock' = clock + 1
              /\ Go(w, worker[w])
        /\ UNCHANGED <<objects, ids, queue, history, clients>>

InsertOneMessages(w) ==
    Insert(w, "InsertOneMessages", "message", worker[w].ids["MessageId"], worker[w].thread, "-")
InsertOneRun(w) ==
    Insert(w, "InsertOneRun", "run", worker[w].ids["RunId"], worker[w].thread, "queued")
InsertOneRunStep(w) ==
    Insert(w, "InsertOneRunStep", "step", worker[w].ids["StepId"], worker[w].thread, "-")
InsertOneFile(w) == Insert(w, "InsertOneFile", "file", worker[w].ids["FileId"], 0, "-")

\* An assistant with metadata is refused by the database: the template then
\* has no comma behind the metadata.
InsertOneAssistant(w) ==
    \/ Insert(w, "InsertOneAssistant", "assistant", worker[w].ids["AssistantId"], 0, "-")
    \/ /\ At(w, "InsertOneAssistant")
       /\ Stop(w)
       /\ UNCHANGED <<objects, database, ids, queue, history, clients>>

\* A statement that only reads and then answers, whatever it finds.
ReadStatements == {"Read", "Update", "AnswerThread", "AnswerMessage", "AnswerAssistant",
                   "AnswerFile", "AnswerError"}

Read(w) ==
    /\ \E s \in ReadStatements : At(w, s)
    /\ Stop(w)
    /\ UNCHANGED <<objects, database, ids, queue, history, clients>>

\* The run that was just inserted is read back: without it nothing is enqueued.
RetrieveRun(w) ==
    /\ At(w, "RetrieveRun")
    /\ IF worker[w].ids["RunId"] \in IdsOf("run") THEN Go(w, worker[w]) ELSE Stop(w)
    /\ UNCHANGED <<objects, database, ids, queue, history, clients>>

Enqueue(w) ==
    LET run == worker[w].ids["RunId"]
    IN  /\ At(w, "Enqueue")
        /\ queue' = Append(queue, [run |-> run, thread |-> worker[w].thread])
        /\ Go(w, worker[w])
        /\ UNCHANGED <<objects, database, ids, history, clients>>

-----------------------------------------------------------------------------
(* Deletion.                                                                 *)

\* A thread with a run in progress or cancelling is not deleted; a queued run
\* does not protect it.
CheckActiveRuns(w) ==
    /\ At(w, "CheckActiveRuns")
    /\ IF \E r \in rows : /\ r.kind = "run" /\ r.thread = worker[w].target
                          /\ r.status \in {"in_progress", "cancelling"}
       THEN Stop(w) ELSE Go(w, worker[w])
    /\ UNCHANGED <<objects, database, ids, queue, history, clients>>

DeleteMany(w, statement, kind) ==
    /\ At(w, statement)
    /\ rows' = {r \in rows : ~ (r.kind = kind /\ r.thread = worker[w].target)}
    /\ Go(w, worker[w])
    /\ UNCHANGED <<objects, clock, ids, queue, history, clients>>

DeleteManyRuns(w) == DeleteMany(w, "DeleteManyRuns", "run")
DeleteManyRunSteps(w) == DeleteMany(w, "DeleteManyRunSteps", "step")
DeleteManyMessages(w) == DeleteMany(w, "DeleteManyMessages", "message")

Claimed(kind, id) == IF <<kind, id>> \in DOMAIN claims THEN claims[<<kind, id>>] ELSE 0
Claim(kind, id, found) ==
    claims' = IF found THEN Assign(claims, <<kind, id>>, Claimed(kind, id) + 1) ELSE claims

\* Mutant: the answer says deleted whether or not a row was.
DeleteThreadRowClaims(w) ==
    LET id == worker[w].target
    IN  /\ At(w, "DeleteThreadRow")
        /\ rows' = {r \in rows : ~ (r.kind = "thread" /\ r.id = id)}
        /\ Claim("thread", id, id # 0)
        /\ cut' = IF id \in IdsOf("thread") THEN Assign(cut, id, worker[w].since) ELSE cut
        /\ Go(w, worker[w])
        /\ UNCHANGED <<objects, clock, ids, queue, clients>>

\* The last statement: the answer says deleted when the thread was still there.
DeleteThreadRow(w) ==
    LET id == worker[w].target
    IN  /\ At(w, "DeleteThreadRow")
        /\ rows' = {r \in rows : ~ (r.kind = "thread" /\ r.id = id)}
        /\ Claim("thread", id, id \in IdsOf("thread"))
        /\ cut' = IF id \in IdsOf("thread") THEN Assign(cut, id, worker[w].since) ELSE cut
        /\ Go(w, worker[w])
        /\ UNCHANGED <<objects, clock, ids, queue, clients>>

DeleteAssistantRow(w) ==
    LET id == worker[w].target
    IN  /\ At(w, "DeleteAssistantRow")
        /\ rows' = {r \in rows : ~ (r.kind = "assistant" /\ r.id = id)}
        /\ Claim("assistant", id, id \in IdsOf("assistant"))
        /\ Go(w, worker[w])
        /\ UNCHANGED <<objects, clock, cut, ids, queue, clients>>

FindFile(w) ==
    /\ At(w, "FindFile")
    /\ IF worker[w].target \in IdsOf("file") THEN Go(w, worker[w]) ELSE Stop(w)
    /\ UNCHANGED <<objects, database, ids, queue, history, clients>>

\* The number of deleted rows is kept for the answer.
DeleteFileRow(w) ==
    LET me == worker[w]
        found == me.target \in IdsOf("file")
    IN  /\ At(w, "DeleteFileRow")
        /\ rows' = {r \in rows : ~ (r.kind = "file" /\ r.id = me.target)}
        /\ Go(w, [me EXCEPT !.count = IF found THEN 1 ELSE 0])
        /\ UNCHANGED <<objects, clock, ids, queue, history, clients>>

-----------------------------------------------------------------------------
(* Objects.  An empty upload leaves no object and ends with 400.             *)

PutObject(w) ==
    LET id == worker[w].ids["FileId"]
    IN  /\ At(w, "PutObject")
        /\ \/ objects' = objects \cup {id} /\ Go(w, worker[w])
           \/ objects' = objects \ {id} /\ Stop(w)
        /\ UNCHANGED <<database, ids, queue, history, clients>>

GetObjectState(w) ==
    /\ At(w, "GetObjectState")
    /\ IF worker[w].ids["FileId"] \in objects THEN Go(w, worker[w]) ELSE Stop(w)
    /\ UNCHANGED <<objects, database, ids, queue, history, clients>>

\* deleted = true needs both the row and the object.
DeleteObject(w) ==
    LET id == worker[w].target
    IN  /\ At(w, "DeleteObject")
        /\ objects' = objects \ {id}
        /\ Claim("file", id, id \in objects /\ worker[w].count = 1)
        /\ Go(w, worker[w])
        /\ UNCHANGED <<cut, database, ids, queue, clients>>

GetObject(w) ==
    /\ At(w, "GetObject")
    /\ Stop(w)
    /\ UNCHANGED <<objects, database, ids, queue, history, clients>>

-----------------------------------------------------------------------------
(* The consumer of the scheduler.                                            *)

TakeRun ==
    /\ worker[Consumer] = Idle /\ queue # <<>>
    /\ queue' = Tail(queue)
    /\ worker' = [worker EXCEPT ![Consumer] =
            [Idle EXCEPT !.op = "ExecuteRun", !.want = "ExecuteRun", !.todo = ExecuteRun,
                         !.messages = 1, !.thread = Head(queue).thread,
                         !.target = Head(queue).run]]
    /\ UNCHANGED <<objects, database, ids, history, clients>>

\* ModifyRun asserts that it updated one row: without it the handler ends.
UpdateRun(w, statement, status) ==
    LET run == worker[w].target
    IN  /\ At(w, statement)
        /\ \/ /\ run \notin IdsOf("run")
              /\ Stop(w) /\ UNCHANGED rows
           \/ /\ run \in IdsOf("run")
              /\ rows' = {IF r.kind = "run" /\ r.id = run THEN [r EXCEPT !.status = status]
                          ELSE r : r \in rows}
              /\ Go(w, worker[w])
        /\ UNCHANGED <<objects, clock, ids, queue, history, clients>>

MarkInProgress(w) == UpdateRun(w, "MarkInProgress", "in_progress")
MarkCompleted(w) == UpdateRun(w, "MarkCompleted", "completed")

-----------------------------------------------------------------------------
(* Lists.  Pages are cut by comparing ids and ordered by creation time; one  *)
(* row more than the limit is selected to know whether there is another.     *)
(* Rows with the same creation time come in any order.                       *)

Earlier(a, b, order) == IF order = "asc" THEN a.at < b.at ELSE a.at > b.at

\* ORDER BY created_at LIMIT n: so many rows, with none left out before them.
Firsts(found, n, order) ==
    {page \in SUBSET found :
        /\ Cardinality(page) = IF Cardinality(found) < n THEN Cardinality(found) ELSE n
        /\ \A a \in page, b \in found \ page : ~ Earlier(b, a, order)}

\* last_id: the id of a row with none behind it.
LastIds(page, order) == {r.id : r \in {q \in page : \A x \in page : ~ Earlier(q, x, order)}}

SelectMany(found, after, order, limit) ==
    Firsts({r \in found : after = 0 \/ r.id > after}, limit, order)

\* Mutant: an off-by-one in the test for another page.
ListPageSkips(found, after, order, size) ==
    LET Cut(got) == IF Cardinality(got) > size + 1 THEN Firsts(got, Cardinality(got) - 1, order)
                    ELSE Firsts(got, size, order)
    IN  UNION {{[data |-> page, more |-> Cardinality(got) > size + 1] : page \in Cut(got)} :
                  got \in SelectMany(found, after, order, size + 1)}

\* The pages that may be answered; the row in excess is dropped.
ListPage(found, after, order, size) ==
    LET More(got) == Cardinality(got) >= size + 1
        Cut(got) == IF More(got) THEN Firsts(got, Cardinality(got) - 1, order) ELSE {got}
    IN  UNION {{[data |-> page, more |-> More(got)] : page \in Cut(got)} :
                  got \in SelectMany(found, after, order, size + 1)}

MessagesOf(thread) == {r \in rows : r.kind = "message" /\ r.thread = thread}

\* The client starts to read a thread; "basis" is what there is to read.
StartPaging ==
    /\ pager.state = "idle" /\ requests < MaxRequests
    /\ requests' = requests + 1
    /\ \E order \in Orders :
         pager' = [pager EXCEPT !.state = "reading", !.order = order, !.basis = MessagesOf(1)]
    /\ UNCHANGED <<objects, worker, crashes, database, ids, queue, history>>

ListMessages ==
    /\ pager.state = "reading"
    /\ \E page \in ListPage(MessagesOf(1), pager.after, pager.order, PageSize) :
       \E last \in IF page.data = {} THEN {pager.after} ELSE LastIds(page.data, pager.order) :
          pager' = [pager EXCEPT !.seen = @ \cup page.data, !.after = last,
                                 !.state = IF page.more THEN @ ELSE "done"]
    /\ UNCHANGED <<objects, worker, requests, crashes, database, ids, queue, history>>

-----------------------------------------------------------------------------
\* The process stops and starts: what is in memory is lost, rows and objects
\* stay.  The generator goes on with a later time stamp.  A process with
\* nothing to do loses nothing.
Crash ==
    /\ crashes < MaxCrashes
    /\ queue # <<>> \/ \E t \in Threads : worker[t] # Idle
    /\ crashes' = crashes + 1
    /\ worker' = [t \in Threads |-> Idle]
    /\ queue' = <<>>
    /\ UNCHANGED <<objects, pager, requests, database, ids, history>>

\* A server with an assistant, a file, and a thread with two messages.
Init ==
    /\ rows = {[kind |-> "thread", id |-> 1, thread |-> 0, status |-> "-", at |-> 1],
               [kind |-> "message", id |-> 2, thread |-> 1, status |-> "-", at |-> 2],
               [kind |-> "message", id |-> 3, thread |-> 1, status |-> "-", at |-> 3],
               [kind |-> "assistant", id |-> 4, thread |-> 0, status |-> "-", at |-> 4],
               [kind |-> "file", id |-> 5, thread |-> 0, status |-> "-", at |-> 5]}
    /\ objects = {5}
    /\ gen = 5 /\ issued = [i \in 1..5 |-> 1] /\ clock = 5
    /\ worker = [t \in Threads |-> Idle]
    /\ queue = <<>>
    /\ claims = <<>> /\ cut = <<>>
    /\ pager = [state |-> "idle", order |-> "asc", after |-> 0, seen |-> {}, basis |-> {}]
    /\ requests = 0 /\ crashes = 0

Statement(w) ==
    \/ NextIdRead(w) \/ NextIdWrite(w)
    \/ InsertOneThread(w) \/ InsertManyMessages(w) \/ InsertOneMessages(w) \/ InsertOneRun(w)
    \/ InsertOneRunStep(w) \/ InsertOneFile(w) \/ InsertOneAssistant(w)
    \/ Read(w) \/ RetrieveRun(w) \/ Enqueue(w)
    \/ CheckActiveRuns(w) \/ DeleteManyRuns(w) \/ DeleteManyRunSteps(w)
    \/ DeleteManyMessages(w) \/ DeleteThreadRow(w) \/ DeleteAssistantRow(w)
    \/ FindFile(w) \/ DeleteFileRow(w) \/ PutObject(w) \/ GetObjectState(w)
    \/ DeleteObject(w) \/ GetObject(w) \/ MarkInProgress(w) \/ MarkCompleted(w)

Next ==
    \/ \E w \in Workers, op \in Ops : Arrive(w, op)
    \/ \E t \in Threads : Statement(t)
    \/ TakeRun \/ StartPaging \/ ListMessages \/ Crash

Spec == Init /\ [][Next]_vars

-----------------------------------------------------------------------------
(* Properties.                                                               *)

\* Ids that the unlocked generator gave to two requests.
Duplicated == {i \in DOMAIN issued : issued[i] > 1}

\* A file that can be retrieved can be downloaded: UploadFile stores the
\* object before the row and DeleteFile removes the row before the object, so
\* under concurrent uploads and deletions and a crash anywhere between two
\* statements a row has its object, as long as no id was issued twice.
RowHasObject == \A id \in IdsOf("file") : id \in objects \/ id \in Duplicated

\* The documented endpoints that no handler serves: no controller mounts the
\* run steps (docs/assistant_api.md:41-43 lists them), and the route of
\* GetAssistant spells the parameter that its handler reads ":assitant_id"
\* (AssistantController.hpp:38).
Unserved == {<<"ListRunSteps", "404">>, <<"GetRunStep", "404">>, <<"GetAssistant", "500">>}

\* Every documented endpoint but these three is served by its own handler: no
\* earlier route catches its requests and no parameter is missing.
HandlerIsIntended ==
    \A t \in Threads : worker[t].op = worker[t].want \/ <<worker[t].want, worker[t].op>> \in Unserved

\* DeleteThread leaves nothing behind but what other requests and the run
\* handler stored after the deletion began: it cannot be complete, as there
\* is no transaction, but it forgets no row that was there.
OrphansAreLate ==
    \A r \in rows : r.thread \in DOMAIN cut \ IdsOf("thread") => r.at > cut[r.thread]

\* Of several requests that delete the same thread, file or assistant at most
\* one is told that it did.
DeletionClaimedOnce ==
    \A k \in DOMAIN claims : claims[k] <= 1 \/ k[2] \in Duplicated

\* The cursor is past message x though its turn has not come: a message was
\* shown that was not created later, and the id of x is not greater.
Overtaken(x) == \E z \in pager.seen \ {x} : z.at <= x.at /\ ~ (x.id > z.id)

\* Reading a thread from its first message on in pages shows every message
\* that was there at the start and was not deleted, whatever is stored and
\* deleted in between.  The one way to lose a message is the cursor: it
\* compares ids while the pages follow created_at, so a page that shows a
\* message with a greater id and no later time skips it.  That takes an id
\* drawn early and inserted late, or messages of one request, which have the
\* same time and come in any order.
PagesCoverRows ==
    pager.state = "done" /\ pager.order = "asc"
    => \A x \in pager.basis \cap rows : x \in pager.seen \/ Overtaken(x)

\* What assistant_api_v2.proto says of the cursor: a client that passes the
\* last id it received as "after" fetches the next page of the list, so that
\* it has read every message that stays when there is no other page.
PagesReachEveryRow == pager.state = "done" => pager.basis \cap rows \subseteq pager.seen

===============================================================================
