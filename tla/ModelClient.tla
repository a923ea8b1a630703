------------------------------ MODULE ModelClient ------------------------------
(***************************************************************************)
(* Language models and embedding models as HTTP clients: one request with   *)
(* its answer (HttpRestClient over curl), an answer that is streamed and    *)
(* arrives in pieces of any size, and a batch of requests on the thread     *)
(* pool of an embedding model that several threads share.  The server, the  *)
(* network and the reactive library are external.                           *)
(***************************************************************************)
EXTENDS Naturals, Sequences, SequencesExt, FiniteSets

CONSTANTS
    Callers,      \* threads that use the models
    Ops,          \* what they ask for: [kind, provider, n, parallel]
    Bodies,       \* streamed answers: [lines, closed, status]
    MaxParallel   \* OllamaConfiguration::max_parallel where it is not 0

ASSUME ModelClientAssumption ==
    /\ MaxParallel \in Nat \ {0}
    /\ Ops \subseteq [kind : {"chat", "llm", "stream", "embed"}, provider : {"openai", "ollama"},
                      n : Nat, parallel : BOOLEAN]
    /\ Bodies \subseteq [lines : Seq({"chunk", "marked", "empty", "bad", "done"}), closed : BOOLEAN, status : Nat]

VARIABLES
    op,        \* the operation of each caller
    phase,     \* "start", "call", "wait", "collect", "unwind", "returned"
    got,       \* results so far; at the end what the caller has
    outcome,   \* "none", "completed" or the reason of the failure
    body, received, buffer,   \* the streamed answer, and how far it was read
    request,   \* per caller, the requests of its batch
    pool       \* requests that no thread of the pool has taken yet

vars == <<op, phase, got, outcome, body, received, buffer, request, pool>>

-----------------------------------------------------------------------------
(* One request.                                                              *)

\* What comes back: no response, a status of at least 400, a body that cannot
\* be parsed, a message without choices, or one with an answer.
Responses == {"lost", "status", "bad", "empty", "ok"}

\* curl's own failure is an exception; any status is a response.
Execute(r) == IF r = "lost" THEN "exception" ELSE r

Deserialize(r) == IF r = "bad" THEN "exception" ELSE r

PostObject(r) ==
    IF Execute(r) \in {"exception", "status"} THEN "exception" ELSE Deserialize(r)

\* The generations of one response; 0 stands for an empty text.  The text
\* models of both providers answer as their chat models do.
CallOpenAI(entity, i) == IF entity = "ok" THEN <<i>> ELSE <<>>
CallOllama(entity, i) == <<IF entity = "ok" THEN i ELSE 0>>
Call(provider, entity, i) ==
    IF provider = "openai" THEN CallOpenAI(entity, i) ELSE CallOllama(entity, i)

\* The first generation of each response is its answer; a response without
\* one is an error, after the answers before it were given.
HasAnswer(generations) == generations # <<>>
FirstGeneration(generations) == generations[1]

Answers(batch) ==
    LET missing == {i \in DOMAIN batch : ~ HasAnswer(batch[i])}
        n == IF missing = {} THEN Len(batch) ELSE (CHOOSE i \in missing : \A j \in missing : i <= j) - 1
    IN  [i \in 1..n |-> FirstGeneration(batch[i])]

\* A text model converts all its responses before it gives the first.
AnswersOfLLM(batch) ==
    IF \A i \in DOMAIN batch : HasAnswer(batch[i])
    THEN [i \in DOMAIN batch |-> FirstGeneration(batch[i])] ELSE <<>>

Converted(kind, batch) == IF kind = "chat" THEN Answers(batch) ELSE AnswersOfLLM(batch)

End(c, why, results) ==
    /\ phase' = [phase EXCEPT ![c] = "returned"]
    /\ outcome' = [outcome EXCEPT ![c] = why]
    /\ got' = [got EXCEPT ![c] = results]

(* Generate: one request after the other; the first failure loses them all.  *)
Generate(c) ==
    LET i == Len(got[c]) + 1
        answers == Converted(op[c].kind, got[c])
    IN  /\ op[c].kind \in {"chat", "llm"} /\ phase[c] = "call"
        /\ IF i > op[c].n THEN
               End(c, IF answers # <<>> /\ Len(answers) = op[c].n THEN "completed"
                      ELSE "empty response", answers)
           ELSE \E r \in Responses :
               IF PostObject(r) = "exception" THEN End(c, "failed", <<>>)
               ELSE /\ got' = [got EXCEPT ![c] = Append(@, Call(op[c].provider, PostObject(r), i))]
                    /\ UNCHANGED <<phase, outcome>>
        /\ UNCHANGED <<op, body, received, buffer, request, pool>>

-----------------------------------------------------------------------------
(* Streams.  A line has two halves, and ends with the provider's breaker.    *)

Newline == [line |-> 0, half |-> 0]
Breaker(provider) == IF provider = "openai" THEN <<Newline, Newline>> ELSE <<Newline>>

Line(k) == <<[line |-> k, half |-> 1], [line |-> k, half |-> 2]>>

\* The last line may come without its breaker.
Width(provider) == 2 + Len(Breaker(provider))
Length(b, provider) ==
    Len(b.lines) * Width(provider)
        - (IF b.closed \/ b.lines = <<>> THEN 0 ELSE Len(Breaker(provider)))

Bytes(b, provider) ==
    [i \in 1..Length(b, provider) |->
        LET k == (i - 1) \div Width(provider) + 1
            j == ((i - 1) % Width(provider)) + 1
        IN  IF j <= 2 THEN Line(k)[j] ELSE Newline]

\* What a piece of text is to the parsers: a line of the answer, or nonsense.
Kind(b, piece) ==
    LET ks == {k \in DOMAIN b.lines : Line(k) = piece}
    IN  IF ks = {} THEN "bad" ELSE b.lines[CHOOSE k \in ks : TRUE]

Result(b, piece) == CHOOSE k \in DOMAIN b.lines : Line(k) = piece

\* Every "data: " of a line is removed: the prefix, and those in the text of a
\* "marked" chunk, of which less arrives than the server sent.
Cut(b, k) == Len(b.lines) + k
StripDataStreamPrefix(b, k) == IF b.lines[k] = "marked" THEN Cut(b, k) ELSE k

Open(s) == s.end = "none"
Given(s, result) == [got |-> Append(s.got, result), end |-> s.end, thrown |-> FALSE]
Ended(s, why, thrown) == [got |-> s.got, end |-> why, thrown |-> thrown]

\* Strip the prefix, stop at the sentinel, parse, convert; an exception leaves
\* curl's callback and becomes the error of the stream.
OnNext(s, b, provider, piece) ==
    LET kind == Kind(b, piece)
        generations == IF kind = "empty" THEN Call(provider, kind, 0)
                       ELSE Call(provider, "ok", StripDataStreamPrefix(b, Result(b, piece)))
    IN  IF ~ Open(s) THEN s
        ELSE IF kind = "done" /\ provider = "openai" THEN Ended(s, "completed", FALSE)
        ELSE IF kind \in {"bad", "done"} THEN Ended(s, "malformed", TRUE)
        ELSE IF ~ HasAnswer(generations) THEN Ended(s, "empty response", TRUE)
        ELSE Given(s, FirstGeneration(generations))

OnTerminal(s, why) == IF Open(s) THEN Ended(s, why, FALSE) ELSE s

\* Where the buffer holds a breaker.
LineEnds(provider, data) ==
    LET breaker == Breaker(provider)
    IN  {i \in DOMAIN data : \A j \in DOMAIN breaker :
            i + j - 1 \in DOMAIN data /\ data[i + j - 1] = breaker[j]}

IsBlank(data) == \A i \in DOMAIN data : data[i] = Newline

Stream(c) == [got |-> got[c], end |-> outcome[c], thrown |-> FALSE]

Put(c, s, rest, last) ==
    /\ got' = [got EXCEPT ![c] = s.got]
    /\ outcome' = [outcome EXCEPT ![c] = s.end]
    /\ buffer' = [buffer EXCEPT ![c] = rest]
    /\ phase' = [phase EXCEPT ![c] = IF s.thrown \/ last THEN "returned" ELSE @]

StreamChunkObject(c) ==
    /\ op[c].kind = "stream" /\ phase[c] = "start"
    /\ \E b \in Bodies : body' = [body EXCEPT ![c] = b]
    /\ phase' = [phase EXCEPT ![c] = "call"]
    /\ UNCHANGED <<op, got, outcome, received, buffer, request, pool>>

HasLine(c) == LineEnds(op[c].provider, buffer[c]) # {}

Reading(c) == op[c].kind = "stream" /\ phase[c] = "call" /\ ~ HasLine(c)

\* Mutant: a chunk is searched for lines on its own.
ReceiveUnbuffered(c) ==
    LET bytes == Bytes(body[c], op[c].provider)
    IN  /\ Reading(c)
        /\ \E to \in (received[c] + 1)..Len(bytes) :
              /\ received' = [received EXCEPT ![c] = to]
              /\ buffer' = [buffer EXCEPT ![c] = SubSeq(bytes, received[c] + 1, to)]
        /\ UNCHANGED <<op, phase, got, outcome, body, request, pool>>

\* The write callback appends the chunk to the buffer,
Receive(c) ==
    LET bytes == Bytes(body[c], op[c].provider)
    IN  /\ Reading(c)
        /\ \E to \in (received[c] + 1)..Len(bytes) :
              /\ received' = [received EXCEPT ![c] = to]
              /\ buffer' = [buffer EXCEPT ![c] = @ \o SubSeq(bytes, received[c] + 1, to)]
        /\ UNCHANGED <<op, phase, got, outcome, body, request, pool>>

\* and emits the whole lines in it, one turn of its loop each: this stream
\* does nothing else as long as there is one, other callers may.
EmitLine(c) ==
    LET provider == op[c].provider
        data == buffer[c]
        ends == LineEnds(provider, data)
        idx == CHOOSE i \in ends : \A j \in ends : i <= j
        s == OnNext(Stream(c), body[c], provider, SubSeq(data, 1, idx - 1))
    IN  /\ op[c].kind = "stream" /\ phase[c] = "call" /\ HasLine(c)
        /\ Put(c, s, SubSeq(data, idx + Len(Breaker(provider)), Len(data)), FALSE)
        /\ UNCHANGED <<op, body, received, request, pool>>

\* The end of the answer: what is left in the buffer is a line, too; then the
\* status is looked at.
EndOfStream(c) ==
    LET s == IF IsBlank(buffer[c]) THEN Stream(c)
             ELSE OnNext(Stream(c), body[c], op[c].provider, buffer[c])
    IN  /\ Reading(c)
        /\ received[c] = Len(Bytes(body[c], op[c].provider))
        /\ Put(c, OnTerminal(s, IF body[c].status >= 400 THEN "status" ELSE "completed"), <<>>, TRUE)
        /\ UNCHANGED <<op, body, received, request, pool>>

\* The connection breaks: the buffer is dropped.
LoseConnection(c) ==
    /\ Reading(c)
    /\ Put(c, OnTerminal(Stream(c), "lost"), <<>>, TRUE)
    /\ UNCHANGED <<op, body, received, request, pool>>

-----------------------------------------------------------------------------
(* Embeddings.  OpenAI: all texts in one request, the vectors as they come.  *)
EmbedDocuments(c) ==
    /\ op[c].kind = "embed" /\ op[c].provider = "openai" /\ phase[c] = "call"
    /\ \E r \in Responses, k \in 0..op[c].n :
          LET n == IF PostObject(r) = "ok" THEN k ELSE 0
          IN  IF PostObject(r) = "exception" \/ n = 0 THEN End(c, "failed", <<>>)
              ELSE End(c, "completed", [i \in 1..n |-> i])
    /\ UNCHANGED <<op, body, received, buffer, request, pool>>

(* Ollama without parallelism: one request for each text.                    *)
EmbedOneByOne(c) ==
    LET i == Len(got[c]) + 1
    IN  /\ op[c].kind = "embed" /\ op[c].provider = "ollama" /\ phase[c] = "call"
        /\ ~ op[c].parallel
        /\ IF i > op[c].n THEN End(c, "completed", got[c])
           ELSE \E r \in Responses :
               IF PostObject(r) = "exception" THEN End(c, "failed", <<>>)
               ELSE /\ got' = [got EXCEPT ![c] = Append(@, CallOllama(PostObject(r), i)[1])]
                    /\ UNCHANGED <<phase, outcome>>
        /\ UNCHANGED <<op, body, received, buffer, request, pool>>

(* Ollama with parallelism: the batch is queued on the pool of the model,    *)
ExecuteBatch(c) ==
    /\ op[c].kind = "embed" /\ op[c].provider = "ollama" /\ phase[c] = "call"
    /\ op[c].parallel
    /\ request' = [request EXCEPT ![c] = [i \in 1..op[c].n |-> "queued"]]
    /\ pool' = pool \o [i \in 1..op[c].n |-> <<c, i>>]
    /\ phase' = [phase EXCEPT ![c] = "wait"]
    /\ UNCHANGED <<op, got, outcome, body, received, buffer>>

Sending == UNION {{<<c, i>> : i \in {j \in DOMAIN request[c] : request[c][j] = "sending"}} : c \in Callers}

\* whose threads take the requests in order
Take ==
    /\ pool # <<>> /\ Cardinality(Sending) < MaxParallel
    /\ LET r == Head(pool) IN request' = [request EXCEPT ![r[1]][r[2]] = "sending"]
    /\ pool' = Tail(pool)
    /\ UNCHANGED <<op, phase, got, outcome, body, received, buffer>>

\* and get their answers in any order.
Answer ==
    /\ \E s \in Sending, r \in Responses :
          request' = [request EXCEPT ![s[1]][s[2]] = Deserialize(IF r = "status" THEN "bad" ELSE Execute(r))]
    /\ UNCHANGED <<op, phase, got, outcome, body, received, buffer, pool>>

Ready(c, i) == request[c][i] \notin {"queued", "sending"}
AllReady(c) == \A i \in DOMAIN request[c] : Ready(c, i)

\* The wait ends when all answers are there or the time is up.
WaitFor(c) ==
    /\ phase[c] = "wait"
    /\ \/ AllReady(c) /\ phase' = [phase EXCEPT ![c] = "collect"] /\ UNCHANGED outcome
       \/ /\ ~ AllReady(c) /\ phase' = [phase EXCEPT ![c] = "unwind"]
          /\ outcome' = [outcome EXCEPT ![c] = "timeout"]
    /\ UNCHANGED <<op, got, body, received, buffer, request, pool>>

Collect(c) ==
    LET i == Len(got[c]) + 1
    IN  /\ phase[c] = "collect"
        /\ IF i > op[c].n THEN
               /\ outcome' = [outcome EXCEPT ![c] = "completed"]
               /\ phase' = [phase EXCEPT ![c] = "unwind"] /\ UNCHANGED got
           ELSE /\ Ready(c, i)
                /\ IF request[c][i] = "exception" THEN
                       /\ outcome' = [outcome EXCEPT ![c] = "failed"]
                       /\ phase' = [phase EXCEPT ![c] = "unwind"] /\ UNCHANGED got
                   ELSE /\ got' = [got EXCEPT ![c] = Append(@, CallOllama(request[c][i], i)[1])]
                        /\ UNCHANGED <<phase, outcome>>
        /\ UNCHANGED <<op, body, received, buffer, request, pool>>

\* Mutant: the futures are given up without waiting.
UnwindAtOnce(c) ==
    /\ phase[c] = "unwind"
    /\ End(c, outcome[c], IF outcome[c] = "completed" THEN got[c] ELSE <<>>)
    /\ UNCHANGED <<op, body, received, buffer, request, pool>>

\* The destructors of futures made by std::async wait for their threads, on
\* the way out of a timeout, too.
Unwind(c) ==
    /\ phase[c] = "unwind" /\ AllReady(c)
    /\ End(c, outcome[c], IF outcome[c] = "completed" THEN got[c] ELSE <<>>)
    /\ UNCHANGED <<op, body, received, buffer, request, pool>>

Begin(c) ==
    /\ phase[c] = "start" /\ op[c].kind # "stream"
    /\ phase' = [phase EXCEPT ![c] = "call"]
    /\ UNCHANGED <<op, got, outcome, body, received, buffer, request, pool>>

-----------------------------------------------------------------------------
NoBody == [lines |-> <<>>, closed |-> TRUE, status |-> 200]

Init ==
    /\ op \in [Callers -> Ops]
    /\ phase = [c \in Callers |-> "start"] /\ got = [c \in Callers |-> <<>>]
    /\ outcome = [c \in Callers |-> "none"] /\ body = [c \in Callers |-> NoBody]
    /\ received = [c \in Callers |-> 0] /\ buffer = [c \in Callers |-> <<>>]
    /\ request = [c \in Callers |-> <<>>] /\ pool = <<>>

Step(c) ==
    \/ Begin(c) \/ Generate(c)
    \/ StreamChunkObject(c) \/ Receive(c) \/ EmitLine(c) \/ EndOfStream(c) \/ LoseConnection(c)
    \/ EmbedDocuments(c) \/ EmbedOneByOne(c) \/ ExecuteBatch(c)
    \/ WaitFor(c) \/ Collect(c) \/ Unwind(c)

Next == Take \/ Answer \/ \E c \in Callers : Step(c)

Spec == Init /\ [][Next]_vars

-----------------------------------------------------------------------------
\* What the lines of an answer are worth to a subscriber, whatever chunks they
\* arrive in: the results up to the sentinel or to the first error.  Text that
\* holds the marker of the event stream is worth what remains without it.
Stops(line, provider) == line \in {"bad", "done"} \/ (line = "empty" /\ provider = "openai")

Worth(b, provider) ==
    LET stops == {k \in DOMAIN b.lines : Stops(b.lines[k], provider)}
        n == IF stops = {} THEN Len(b.lines) ELSE (CHOOSE k \in stops : \A j \in stops : k <= j) - 1
    IN  [k \in 1..n |-> CASE b.lines[k] = "empty" -> 0
                         [] b.lines[k] = "marked" -> Cut(b, k)
                         [] OTHER -> k]

\* A subscriber of a stream sees the server's lines in order, each once and
\* undivided, wherever the network cut them; and a stream that completes has
\* given it all of them up to the sentinel.  Their text is the server's, but for
\* the "data: " inside it, which strip_data_stream_prefix removes, too.
StreamIsFaithful ==
    \A c \in Callers : op[c].kind = "stream" =>
        /\ IsPrefix(got[c], Worth(body[c], op[c].provider))
        /\ outcome[c] = "completed" => got[c] = Worth(body[c], op[c].provider)

\* When EmbedDocuments has returned or thrown, after a timeout too, none of its
\* requests is queued or under way (they use the caller's objects by
\* reference), and the i-th vector it returned belongs to the i-th text.
BatchQuiesces ==
    \A c \in Callers : phase[c] = "returned" /\ op[c].kind = "embed" =>
        /\ \A i \in DOMAIN request[c] : Ready(c, i)
        /\ \A j \in DOMAIN pool : pool[j][1] # c
        /\ \A i \in DOMAIN got[c] : got[c][i] \in {0, i}
        /\ outcome[c] = "completed" /\ op[c].provider = "ollama" => Len(got[c]) = op[c].n
===============================================================================
