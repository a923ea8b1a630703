-------------------------------- MODULE Chains --------------------------------
(***************************************************************************)
(* Chains of step functions over JSON contexts, the chains the library      *)
(* builds of them (language model, retrieval-augmented, citations), and the *)
(* chat memory they share.  A context is one object that most steps         *)
(* overwrite and return; an invocation is followed with the context it is   *)
(* at (out), the object it was given (in) and whether these are the same.   *)
(* A text is a sequence of lines, or what a template makes: a function from *)
(* its holes to the texts in them.                                          *)
(***************************************************************************)
EXTENDS Integers, Sequences, SequencesExt, FiniteSets, TLC

CONSTANTS Questions,   \* texts that users ask
          Answers,     \* texts that a model answers
          MaxAsks      \* bound on the invocations

ASSUME ChainsAssumption == MaxAsks \in Nat

VARIABLES memory,   \* the messages of the chat memory
          asks      \* history: the invocations, in order

vars == <<memory, asks>>

-----------------------------------------------------------------------------
(* Contexts.                                                                 *)

Primitive(text) == [type |-> "primitive", of |-> "string", is |-> text]
BoolPrimitive(b) == [type |-> "primitive", of |-> "bool", is |-> b]
IntPrimitive(n) == [type |-> "primitive", of |-> "int", is |-> n]
NullPrimitive == [type |-> "primitive", of |-> "null", is |-> <<>>]
MessageOf(name, value) == [type |-> "message", of |-> name, is |-> value]
MappingObject(contexts) == [type |-> "mapping", of |-> "mapping", is |-> contexts]

\* An invocation before its first step; the model's coming outcomes are given.
Start(ctx, mem, script) ==
    [out |-> ctx, in |-> ctx, same |-> TRUE, ok |-> TRUE, mem |-> mem, script |-> script,
     sent |-> <<>>]

Throw(r) == [r EXCEPT !.ok = FALSE]

\* Overwriting the context, and returning another one.
Produce(r, value) == [r EXCEPT !.out = value, !.in = IF r.same THEN value ELSE @]
Fresh(r, value) == [r EXCEPT !.out = value, !.same = FALSE]

\* A clone for a child, with everything else as it is.
Clone(r) == [r EXCEPT !.in = r.out, !.same = TRUE]

RequirePrimitive(r, of) == r.out.type = "primitive" /\ r.out.of = of
RequireMessage(r, name) == r.out.type = "message" /\ r.out.of = name
RequireMapping(r) == r.out.type = "mapping"

RECURSIVE CreateJSONContext(_)
CreateJSONContext(json) ==
    CASE json.json = "string" -> Primitive(json.is)
      [] json.json = "bool" -> BoolPrimitive(json.is)
      [] json.json = "object" -> MappingObject([k \in DOMAIN json.is |-> CreateJSONContext(json.is[k])])
      [] OTHER -> NullPrimitive

RECURSIVE SanitizeJSONContext(_)
SanitizeJSONContext(ctx) ==
    IF ctx.type = "mapping" THEN [k \in DOMAIN ctx.is |-> SanitizeJSONContext(ctx.is[k])] ELSE ctx.is

-----------------------------------------------------------------------------
(* Steps.                                                                    *)

RECURSIVE Invoke(_, _)

InvokeSequence(r, steps) ==
    FoldLeft(LAMBDA x, s : IF x.ok THEN Invoke(s, x) ELSE x, r, steps)

\* Mutant: the children get the context itself.
InvokeMappingShared(r, entries) ==
    LET Child(x, e) ==
            LET c == Invoke(e.step, x.r)
            IN  IF x.r.ok THEN [r |-> c, parts |-> (e.key :> c.out) @@ x.parts] ELSE x
        end == FoldLeft(Child, [r |-> r, parts |-> <<>>], entries)
    IN  IF end.r.ok THEN Produce(end.r, MappingObject(end.parts)) ELSE end.r

\* Every child gets a clone of the context, which is then overwritten with the
\* results.
InvokeMapping(r, entries) ==
    LET Child(x, e) ==
            LET c == Invoke(e.step, Clone(x.r))
            IN  IF x.r.ok
                THEN [r |-> [x.r EXCEPT !.ok = c.ok, !.mem = c.mem, !.script = c.script, !.sent = c.sent],
                      parts |-> (e.key :> c.out) @@ x.parts]
                ELSE x
        end == FoldLeft(Child, [r |-> r, parts |-> <<>>], entries)
    IN  IF end.r.ok THEN Produce(end.r, MappingObject(end.parts)) ELSE end.r

InvokeSelection(r, name) ==
    IF RequireMapping(r) /\ name \in DOMAIN r.out.is THEN Fresh(r, r.out.is[name]) ELSE Throw(r)

\* The condition works on the context that the branch gets afterwards.
InvokeBranch(r, condition, a, b) ==
    LET c == Invoke(condition, Clone(r))
        after == [Produce(r, c.in) EXCEPT !.mem = c.mem, !.script = c.script, !.sent = c.sent]
    IN  IF ~ c.ok \/ ~ RequirePrimitive(c, "bool") THEN Throw(after)
        ELSE Invoke(IF c.out.is THEN a ELSE b, after)

-----------------------------------------------------------------------------
(* Prompts.                                                                  *)

FormatString(holes, variables) == [k \in holes |-> variables[k]]

FormatPrompt(template, variables) ==
    IF template.chat
    THEN [chat |-> TRUE, messages |-> [i \in DOMAIN template.messages |->
             [role |-> template.messages[i].role,
              content |-> FormatString(template.messages[i].holes, variables)]]]
    ELSE [chat |-> FALSE, text |-> FormatString(template.holes, variables)]

Holes(template) ==
    IF template.chat THEN UNION {m.holes : m \in ToSet(template.messages)} ELSE template.holes

\* A single value is named by the first key; of a mapping only the primitive
\* values are taken.  A hole without a variable is an error of the formatter.
InvokeTemplate(r, template) ==
    LET several == [k \in {x \in DOMAIN r.out.is : r.out.is[x].type = "primitive"
                                                   /\ r.out.is[x].of # "null"} |-> r.out.is[k].is]
        variables == IF RequirePrimitive(r, "string") THEN Head(template.input_keys) :> r.out.is
                     ELSE several
    IN  IF ~ RequirePrimitive(r, "string") /\ ~ RequireMapping(r) THEN Throw(r)
        ELSE IF ~ Holes(template) \subseteq DOMAIN variables THEN Throw(r)
        ELSE Produce(r, MessageOf("PromptValue", FormatPrompt(template, variables)))

User(text) == [role |-> "user", content |-> text]

conv_prompt_value_variant_to_message_list(pv) ==
    IF pv.chat THEN pv.messages ELSE <<User(pv.text)>>

\* A line for each message, with its role.
CombineMessages(messages) ==
    [i \in DOMAIN messages |-> <<messages[i].role, messages[i].content>>]

conv_prompt_value_variant_to_string(pv) == IF pv.chat THEN CombineMessages(pv.messages) ELSE pv.text

-----------------------------------------------------------------------------
(* Models.  An outcome is an answer, "empty" or "fails"; a chat model        *)
(* answers with a message, a text model with text.                           *)

Generation(chat, answer) == [has_message |-> chat, content |-> answer]

StringifyGeneration(generation) == generation.content

Generate(r, prompt, chat) ==
    LET called == [r EXCEPT !.sent = Append(@, prompt), !.script = Tail(@)]
        outcome == Head(r.script)
    IN  IF outcome.kind # "answer" THEN Throw(called)
        ELSE Produce(called, MessageOf("Generation", Generation(chat, outcome.answer)))

InvokeChatModel(r) ==
    IF RequireMessage(r, "PromptValue")
    THEN Generate(r, conv_prompt_value_variant_to_message_list(r.out.is), TRUE) ELSE Throw(r)

InvokeLLM(r) ==
    IF RequireMessage(r, "PromptValue")
    THEN Generate(r, <<User(conv_prompt_value_variant_to_string(r.out.is))>>, FALSE) ELSE Throw(r)

InvokeStringify(r) ==
    IF RequireMessage(r, "Generation") THEN Produce(r, Primitive(StringifyGeneration(r.out.is)))
    ELSE Throw(r)

InvokeCombine(r) ==
    IF RequireMessage(r, "MessageList") THEN Produce(r, Primitive(CombineMessages(r.out.is)))
    ELSE Throw(r)

\* The documents found for a text, and their combined text.
Found(text) == <<<<"about">> \o text>>

CombineDocuments(docs) == FlattenSeq(docs)

InvokeRetriever(r) ==
    IF RequirePrimitive(r, "string") THEN Produce(r, Primitive(CombineDocuments(Found(r.out.is))))
    ELSE Throw(r)

-----------------------------------------------------------------------------
(* Memory.                                                                   *)

LoadMemories(r) == Produce(r, MessageOf("MessageList", r.mem))

\* The question as a message of the human, then the answer.
SaveMemory(mem, question, generation) ==
    mem \o <<[role |-> "human", content |-> question],
             [role |-> "assistant", content |-> generation.content]>>

InvokeSave(r, question_key, answer_key) ==
    LET answer == r.out.is[answer_key]
        question == r.out.is[question_key]
    IN  IF ~ RequireMapping(r) \/ ~ {answer_key, question_key} \subseteq DOMAIN r.out.is THEN Throw(r)
        ELSE IF answer.of # "Generation" \/ question.of # "string" THEN Throw(r)
        ELSE [r EXCEPT !.mem = SaveMemory(@, question.is, answer.is)]

InvokeInstructor(r, instruction) == Produce(r, Primitive(instruction))

\* The planner's condition: join is always counted as a tool.
InvokeHasTools(r) ==
    IF RequireMapping(r) /\ "num_tools" \in DOMAIN r.out.is
    THEN Fresh(r, BoolPrimitive(r.out.is.num_tools.is > 1)) ELSE Throw(r)

Invoke(step, r) ==
    CASE step.op = "sequence"  -> InvokeSequence(r, step.steps)
      [] step.op = "mapping"   -> InvokeMapping(r, step.entries)
      [] step.op = "passthrough" -> r
      [] step.op = "selection" -> InvokeSelection(r, step.name)
      [] step.op = "branch"    -> InvokeBranch(r, step.condition, step.a, step.b)
      [] step.op = "template"  -> InvokeTemplate(r, step.template)
      [] step.op = "chat_model" -> InvokeChatModel(r)
      [] step.op = "llm"       -> InvokeLLM(r)
      [] step.op = "stringify" -> InvokeStringify(r)
      [] step.op = "combine"   -> InvokeCombine(r)
      [] step.op = "retrieve"  -> InvokeRetriever(r)
      [] step.op = "load"      -> LoadMemories(r)
      [] step.op = "save"      -> InvokeSave(r, step.question, step.answer)
      [] step.op = "instruct"  -> InvokeInstructor(r, step.instruction)
      [] step.op = "has_tools" -> InvokeHasTools(r)

-----------------------------------------------------------------------------
(* Building chains.                                                          *)

Step(op) == [op |-> op]
Mapping(entries) == [op |-> "mapping", entries |-> entries]
Entry(key, step) == [key |-> key, step |-> step]
Selection(name) == [op |-> "selection", name |-> name]
Save(question, answer) == [op |-> "save", question |-> question, answer |-> answer]
Branch(condition, a, b) == [op |-> "branch", condition |-> condition, a |-> a, b |-> b]
Passthrough == Step("passthrough")
Template(template) == [op |-> "template", template |-> template]
Human(holes) == Template([chat |-> TRUE, input_keys |-> <<"question">>,
                          messages |-> <<[role |-> "human", holes |-> holes]>>])
Plain(keys, holes) == Template([chat |-> FALSE, input_keys |-> keys, holes |-> holes])

\* The pipe operator: sequences are joined, absent steps are dropped.
Steps(step) ==
    CASE step.op = "sequence" -> step.steps [] step.op = "none" -> <<>> [] OTHER -> <<step>>

Pipe(first, second) ==
    LET steps == Steps(first) \o Steps(second)
    IN  IF steps = <<>> THEN Passthrough ELSE [op |-> "sequence", steps |-> steps]

\* Without a template the chain uses "{ question }", whose spaces make it a
\* name that no variable has.
DefaultTemplate == Plain(<<"question">>, {" question "})

CreateLLMChain(model, template, instruction, with_memory) ==
    LET format == Entry("format_instruction", [op |-> "instruct", instruction |-> instruction])
        prompt == IF template.op = "none" THEN DefaultTemplate ELSE template
        context_fn == Mapping(<<format, Entry("chat_history", Step("load")), Entry("question", Passthrough)>>)
    IN  IF with_memory
        THEN Pipe(Pipe(Mapping(<<Entry("answer", Pipe(Pipe(context_fn, prompt), model)),
                                 Entry("question", Selection("question"))>>),
                       Save("question", "answer")), Selection("answer"))
        ELSE Pipe(Pipe(Mapping(<<format, Entry("question", Passthrough)>>), prompt), model)

QuestionPrompt == Plain(<<"chat_history", "question">>, {"chat_history", "question"})
AnswerPrompt == Plain(<<"context", "standalone_question">>, {"context", "standalone_question"})

QuestionFn ==
    LET history == Pipe(Step("load"), Step("combine"))
        asked == Mapping(<<Entry("question", Passthrough), Entry("chat_history", history)>>)
    IN  Mapping(<<Entry("standalone_question",
                        Pipe(Pipe(Pipe(asked, QuestionPrompt), Step("chat_model")), Step("stringify"))),
                  Entry("question", Passthrough)>>)

ContextFn ==
    Mapping(<<Entry("context", Pipe(Selection("question"), Step("retrieve"))),
              Entry("standalone_question", Selection("standalone_question")),
              Entry("question", Selection("question"))>>)

AnswerFn ==
    Mapping(<<Entry("answer", Pipe(AnswerPrompt, Step("chat_model"))),
              Entry("question", Selection("question"))>>)

CreateConversationalRAGFunction ==
    Pipe(Pipe(Pipe(Pipe(QuestionFn, ContextFn), AnswerFn), Save("question", "answer")),
         Selection("answer"))

\* The planner of the LLM compiler, without and with tools.
PlannerPrompt == Human({"tool_descriptions", "question", "context"})

CreateLLMCompilerPlaner ==
    Branch(Step("has_tools"), Pipe(PlannerPrompt, Step("chat_model")),
           Pipe(Human({"question"}), Step("chat_model")))

PlannerContext(question, tools) ==
    MappingObject([question |-> Primitive(question), tool_descriptions |-> Primitive(<<"tools">>),
                   context |-> Primitive(<<"context">>), num_tools |-> IntPrimitive(tools)])

-----------------------------------------------------------------------------
(* Output parsers.                                                           *)

StringResult(generation) == StringifyGeneration(generation)

MultilineResult(generation) ==
    SelectSeq(StringifyGeneration(generation), LAMBDA line : line # "blank")

-----------------------------------------------------------------------------
(* Invocations.                                                              *)

Chain(name) ==
    CASE name = "rag"       -> CreateConversationalRAGFunction
      [] name = "text"      -> CreateLLMChain(Step("llm"), Plain(<<"question">>, {"question"}), <<>>, FALSE)
      [] name = "multiline" -> CreateLLMChain(Step("chat_model"),
                                   Plain(<<"question">>, {"question", "format_instruction"}),
                                   <<"a list">>, FALSE)
      [] name = "planner"   -> CreateLLMCompilerPlaner
      [] name = "default"   -> CreateLLMChain(Step("llm"), Step("none"), <<>>, FALSE)
      [] OTHER              -> CreateLLMChain(Step("llm"), Plain(<<"question">>, {"question"}), <<>>, TRUE)

\* What is kept of an invocation: its prompts, the first answer, the reply.
Record(name, question, script, r, reply, seen) ==
    [chain |-> name, question |-> question, sent |-> r.sent, ok |-> r.ok, reply |-> reply, seen |-> seen,
     first |-> IF r.sent # <<>> /\ Head(script).kind = "answer" THEN Head(script).answer ELSE <<>>,
     answered |-> \A i \in DOMAIN r.sent : script[i].kind = "answer"]

\* A chain with parsers: the input becomes a text, the generation a result.
InvokeChain(name, question, script) ==
    LET r == Invoke(Chain(name), Start(Primitive(question), memory, script))
        reply == IF ~ r.ok THEN <<>>
                 ELSE IF name = "multiline" THEN MultilineResult(r.out.is) ELSE StringResult(r.out.is)
    IN  /\ memory' = r.mem
        /\ asks' = Append(asks, Record(name, question, script, r, reply, memory))

InvokePlanner(question, tools, script) ==
    LET r == Invoke(Chain("planner"), Start(PlannerContext(question, tools), memory, script))
    IN  /\ memory' = r.mem
        /\ asks' = Append(asks, Record(IF tools > 1 THEN "planner" ELSE "chat", question, script, r,
                                       IF r.ok THEN StringResult(r.out.is) ELSE <<>>, memory))

\* The function of the conversation served over HTTP: bodies are JSON, and are
\* invoked in order until one throws, which fails the request although the
\* ones before it are in the memory.
PostBatch(bodies, script) ==
    LET Item(x, json) ==
            LET r == Invoke(Chain("rag"), Start(CreateJSONContext(json), x.mem, x.script))
            IN  IF x.ok
                THEN [ok |-> r.ok, mem |-> r.mem, script |-> r.script,
                      asks |-> Append(x.asks,
                          Record("rag", IF json.json = "string" THEN json.is ELSE <<>>, x.script, r,
                                 IF r.ok THEN SanitizeJSONContext(r.out).content ELSE <<>>, x.mem))]
                ELSE x
        end == FoldLeft(Item, [ok |-> TRUE, mem |-> memory, script |-> script, asks |-> asks], bodies)
    IN  memory' = end.mem /\ asks' = end.asks

PostInvoke(json, script) == PostBatch(<<json>>, script)

Outcome == [kind : {"answer"}, answer : Answers] \cup {[kind |-> "empty"], [kind |-> "fails"]}

Json(kind, text) ==
    [json |-> kind, is |-> IF kind = "object" THEN [question |-> [json |-> "string", is |-> text]] ELSE text]

Init == memory = <<>> /\ asks = <<>>

Next ==
    /\ Len(asks) < MaxAsks
    /\ \/ \E name \in {"rag", "text", "multiline", "default", "memory"}, q \in Questions,
             script \in [1..2 -> Outcome] : InvokeChain(name, q, script)
       \/ \E q \in Questions, tools \in 1..2, o \in Outcome : InvokePlanner(q, tools, <<o>>)
       \/ \E q \in Questions, kind \in {"string", "object", "array"}, script \in [1..2 -> Outcome] :
             PostInvoke(Json(kind, q), script)
       \/ \E q \in Questions, p \in Questions, script \in [1..4 -> Outcome] :
             PostBatch(<<Json("string", q), Json("string", p)>>, script)

Spec == Init /\ [][Next]_vars

-----------------------------------------------------------------------------
(* Properties.                                                               *)

Conversation == SelectSeq(asks, LAMBDA a : a.chain = "rag" /\ a.ok)

\* The chat memory is the conversation: the question and the answer of every
\* invocation of the retrieval chain that succeeded, in order, and nothing of
\* the others.  An invocation succeeds when its input is a text and the model
\* answers.  A question is rephrased with all of the memory at its start;
\* the answer is asked for with the rephrased question and with what was found
\* for the question as the user put it (which the code retrieves with).  The
\* planner shows the tools' context exactly when there are tools.  Success is
\* not said of two ways to build a language-model chain: without a template its
\* prompt asks for a variable " question " that nothing sets, and with a memory
\* it selects "question" from an input that is the bare text.  The code offers
\* both, the template as a default, and both fail.
MemoryIsConversation ==
    /\ memory = FlattenSeq([i \in DOMAIN Conversation |->
                   <<[role |-> "human", content |-> Conversation[i].question],
                     [role |-> "assistant", content |-> Conversation[i].reply]>>])
    /\ \A i \in DOMAIN Conversation :
           LET a == Conversation[i]
               rephrase == Head(a.sent[1]).content
               answer == Head(a.sent[2]).content
           IN  /\ Len(a.sent) = 2 /\ Len(a.seen) = 2 * (i - 1)
               /\ rephrase.question = a.question /\ rephrase.chat_history = CombineMessages(a.seen)
               /\ answer.context = <<"about">> \o a.question /\ answer.standalone_question = a.first
    /\ \A i \in DOMAIN asks :
           /\ asks[i].chain \notin {"default", "memory"} =>
                  (asks[i].ok <=> asks[i].answered /\ asks[i].question # <<>>)
           /\ asks[i].chain \in {"planner", "chat"} =>
                  ("context" \in DOMAIN Head(asks[i].sent[1]).content <=> asks[i].chain = "planner")
===============================================================================
