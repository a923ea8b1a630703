------------------------------ MODULE ModelConfig ------------------------------
(***************************************************************************)
(* From the options of an application to the requests a model sends: the    *)
(* object factory, the loaders that fill what is missing from the           *)
(* environment, later calls of Configure, the requests of the six models,   *)
(* and the URL they go to.  A setting is represented by where it came from. *)
(***************************************************************************)
EXTENDS Integers, Sequences, FiniteSetsExt

CONSTANTS
    Configurations,   \* models an application may ask for: the factory's options, the
                      \* provider's own record in them, and the environment
    Overrides,        \* what a user may set for an assistant, a run or a model
    MaxOverrides      \* bound on the overrides of one model

VARIABLES
    llm,    \* the model object: [state, use, cfg], state "none" before it is made
    made    \* history: the overrides made so far

config == <<llm, made>>

\* "" is a setting that nobody made: an empty string, a zero or an optional
\* without a value; a protocol is its own value.
Unset == ""

Settings == {"model", "host", "port", "protocol", "api_key", "dimension", "stop_words",
             "temperature", "top_p"}
FactorySettings == {"model", "host", "port", "protocol", "api_key", "dimension"}
Overridable == {"model", "stop_words", "temperature", "top_p"}
Variables == {"model", "host", "port", "protocol", "api_key", "dimension"}

\* A number that cannot be read is no setting of an application.
ASSUME ConfigAssumption ==
    /\ MaxOverrides \in Nat
    /\ \A c \in Configurations :
          /\ c.kind \in {"chat", "embed", "llm"}
          /\ c.provider \in {"openai", "llmstudio", "llamacpp", "ollama", "local"}
          /\ c.kind = "llm" => c.provider # "local"
          /\ DOMAIN c.options = FactorySettings /\ DOMAIN c.own = Settings
          /\ DOMAIN c.env = Variables
          /\ \A s \in FactorySettings : c.options[s] # "throws"
          /\ \A s \in Settings : c.own[s] # "throws"
          /\ \A s \in Variables : c.env[s] # "throws"
    /\ \A o \in Overrides : DOMAIN o = Overridable

\* An environment: for each setting "missing", "blank" or "env"; the protocol
\* is "missing", "http" or "https".
GetEnv(value, default) ==
    CASE value = "missing" -> default [] value = "blank" -> Unset [] OTHER -> value

\* std::stoi throws for a blank text.
GetIntEnv(value, default) == IF value = "blank" THEN "throws" ELSE GetEnv(value, default)

OrElse(setting, fallback) == IF setting = Unset THEN fallback ELSE setting

Protocol(value, default) == IF GetEnv(value, default) = "https" THEN "https" ELSE "http"

LoadEndpoint(cfg, env, default) ==
    [cfg EXCEPT !.host = OrElse(@, GetEnv(env.host, "default")),
                !.port = OrElse(@, GetIntEnv(env.port, "default")),
                !.protocol = OrElse(@, Protocol(env.protocol, default))]

-----------------------------------------------------------------------------
(* The loaders.                                                              *)

LoadOpenAIChatConfiguration(cfg, env) ==
    LoadEndpoint([cfg EXCEPT !.api_key = OrElse(@, GetEnv(env.api_key, Unset)),
                             !.model = OrElse(@, GetEnv(env.model, "default"))], env, "https")

LoadOllamaChatConfiguration(cfg, env) ==
    LoadEndpoint([cfg EXCEPT !.model = OrElse(@, GetEnv(env.model, "default"))], env, "http")

\* The dimension is guessed for the models whose name is known.
GuessDimension(model, known) ==
    IF model = "default" \/ (model # Unset /\ known) THEN "guess" ELSE Unset

LoadDimension(cfg, env, known) ==
    [cfg EXCEPT !.dimension = OrElse(OrElse(@, GetIntEnv(env.dimension, Unset)),
                                     GuessDimension(cfg.model, known))]

LoadOpenAIEmbeddingConfiguration(cfg, env, known) ==
    LoadEndpoint(LoadDimension([cfg EXCEPT !.api_key = OrElse(@, GetEnv(env.api_key, Unset)),
                                           !.model = OrElse(@, GetEnv(env.model, "default"))],
                               env, known), env, "https")

LoadOllamaEmbeddingConfiguration(cfg, env, known) ==
    LoadEndpoint(LoadDimension([cfg EXCEPT !.model = OrElse(@, GetEnv(env.model, "default"))],
                               env, known), env, "http")

CreateOllamaLLM(cfg, env) ==
    LoadEndpoint([cfg EXCEPT !.model = OrElse(@, GetEnv(env.model, "default"))], env, "http")

\* The text model of OpenAI takes the configuration as it is.
CreateOpenAILLM(cfg) == cfg

-----------------------------------------------------------------------------
(* The factory.  OpenAI, LLMStudio and llama.cpp speak the same protocol.    *)

LikeOpenAI == {"openai", "llmstudio", "llamacpp"}

\* Mutant: a copy is missing, and the provider's own model name is used.
WithOptionsButModel(cfg, options) ==
    [cfg EXCEPT !.host = options.host, !.port = options.port, !.protocol = options.protocol]

\* The factory overwrites the provider's own record with its options, the blank
\* ones too; the rest of the record (sampling, stop words) is kept.
WithOptions(cfg, options) ==
    [cfg EXCEPT !.model = options.model, !.host = options.host, !.port = options.port,
                !.protocol = options.protocol]

CreateChatModel(provider, cfg, options, env) ==
    IF provider \in LikeOpenAI
    THEN LoadOpenAIChatConfiguration(
             [WithOptions(cfg, options) EXCEPT !.api_key = options.api_key], env)
    ELSE LoadOllamaChatConfiguration(WithOptions(cfg, options), env)

CreateEmbeddingModel(provider, cfg, options, env, known) ==
    IF provider \in LikeOpenAI
    THEN LoadOpenAIEmbeddingConfiguration(
             [WithOptions(cfg, options) EXCEPT !.api_key = options.api_key,
                                               !.dimension = options.dimension], env, known)
    ELSE LoadOllamaEmbeddingConfiguration(
             [WithOptions(cfg, options) EXCEPT !.dimension = options.dimension], env, known)

\* Text models do not come from the factory, which knows no options for them.
Create(kind, provider, cfg, options, env, known) ==
    CASE kind = "chat"  -> CreateChatModel(provider, cfg, options, env)
      [] kind = "embed" -> CreateEmbeddingModel(provider, cfg, options, env, known)
      [] kind = "llm" /\ provider \in LikeOpenAI -> CreateOpenAILLM(cfg)
      [] OTHER -> CreateOllamaLLM(cfg, env)

\* Construction fails where a number cannot be read, and OpenAI's embedding
\* insists on a dimension; for a local model the factory returns no object.
Created(kind, provider, cfg) ==
    /\ provider # "local"
    /\ cfg.port # "throws" /\ cfg.dimension # "throws"
    /\ kind = "embed" /\ provider \in LikeOpenAI => cfg.dimension # Unset

-----------------------------------------------------------------------------
(* Configure: overrides that are set replace what was there.                 *)

Override(setting, value) == IF value = Unset THEN setting ELSE value

ConfigureOllama(cfg, o) ==
    [cfg EXCEPT !.stop_words = Override(@, o.stop_words), !.model = Override(@, o.model),
                !.temperature = Override(@, o.temperature)]

ConfigureOpenAI(cfg, o) ==
    [ConfigureOllama(cfg, o) EXCEPT !.top_p = Override(@, o.top_p)]

Configure(provider, cfg, o) ==
    IF provider \in LikeOpenAI THEN ConfigureOpenAI(cfg, o) ELSE ConfigureOllama(cfg, o)

-----------------------------------------------------------------------------
(* The requests; a setting the request has no place for is left out.         *)

Request(cfg, settings) ==
    [s \in {"model", "stop_words", "temperature", "top_p", "dimension", "api_key"} |->
        IF s \in settings THEN cfg[s] ELSE Unset]

BuildRequest(cfg) == Request(cfg, {"model", "stop_words", "temperature", "top_p", "api_key"})

CallOllamaChat(cfg) == Request(cfg, {"model", "stop_words", "temperature"})
StreamOllamaChat(cfg) == Request(cfg, {"model", "stop_words", "temperature"})

\* One-shot requests of the text model carry no stop words.
CallOllamaLLM(cfg) == Request(cfg, {"model", "temperature"})
StreamOllamaLLM(cfg) == Request(cfg, {"model", "stop_words", "temperature"})

EmbedOpenAI(cfg) == Request(cfg, {"model", "dimension", "api_key"})
EmbedOllama(cfg) == Request(cfg, {"model"})

RequestOf(kind, provider, stream, cfg) ==
    CASE kind = "embed" -> IF provider \in LikeOpenAI THEN EmbedOpenAI(cfg) ELSE EmbedOllama(cfg)
      [] kind # "embed" /\ provider \in LikeOpenAI -> BuildRequest(cfg)
      [] kind = "chat" /\ provider = "ollama" ->
             IF stream THEN StreamOllamaChat(cfg) ELSE CallOllamaChat(cfg)
      [] OTHER -> IF stream THEN StreamOllamaLLM(cfg) ELSE CallOllamaLLM(cfg)

\* The URL; the port is only guessed from the protocol.
CreateUrlString(cfg) ==
    [protocol |-> cfg.protocol, host |-> cfg.host,
     port |-> OrElse(cfg.port, IF cfg.protocol = "http" THEN "80" ELSE "443")]

\* Only streams are refused without an endpoint.
AssertHttpRequest(cfg) == cfg.host # Unset /\ cfg.port # Unset /\ cfg.protocol # Unset

\* What the model sends: a request and its URL, or nothing.
Send(stream) ==
    LET c == llm.use
    IN  IF llm.state = "failed" \/ (stream /\ ~ AssertHttpRequest(llm.cfg))
        THEN [sent |-> FALSE]
        ELSE [sent |-> TRUE, body |-> RequestOf(c.kind, c.provider, stream, llm.cfg),
              url |-> CreateUrlString(llm.cfg)]

-----------------------------------------------------------------------------
(* The life of a model object.                                               *)

ConfigInit == llm = [state |-> "none"] /\ made = <<>>

CreateModel(c) ==
    LET cfg == Create(c.kind, c.provider, c.own, c.options, c.env, c.known)
    IN  /\ llm' = [state |-> IF Created(c.kind, c.provider, cfg) THEN "ready" ELSE "failed",
                   use |-> c, cfg |-> cfg]
        /\ UNCHANGED made

\* What a run sets goes before what its assistant sets; the agent's stop words
\* are always there.
AgentWords == [model |-> Unset, temperature |-> Unset, top_p |-> Unset, stop_words |-> "agent"]

RunOverrides(run, assistant) ==
    [model |-> OrElse(run.model, assistant.model),
     temperature |-> OrElse(run.temperature, assistant.temperature),
     top_p |-> OrElse(run.top_p, assistant.top_p), stop_words |-> "agent"]

CanOverride == llm.state = "ready" /\ llm.use.kind # "embed" /\ Len(made) < MaxOverrides

Apply(o) == llm' = [llm EXCEPT !.cfg = Configure(llm.use.provider, @, o)]

ConfigureModel(o) == CanOverride /\ Apply(o) /\ made' = Append(made, o)

\* The handler of a run makes a model of its own and configures it: the same as
\* setting the assistant's choices, then the run's, then the stop words.
BuildAgentExecutor(run, assistant) ==
    /\ CanOverride /\ llm.use.kind = "chat" /\ made = <<>> /\ Apply(RunOverrides(run, assistant))
    /\ made' = Append(Append(Append(made, assistant), run), AgentWords)

ConfigNext ==
    \/ llm.state = "none" /\ \E c \in Configurations : CreateModel(c)
    \/ \E o \in Overrides : ConfigureModel(o)
    \/ \E run \in Overrides, assistant \in Overrides : BuildAgentExecutor(run, assistant)

ConfigSpec == ConfigInit /\ [][ConfigNext]_config

-----------------------------------------------------------------------------
(* Reference: the most recent override, else what the application asked for, *)
(* else the environment, else the default.                                   *)

LastOverride(o, s) ==
    LET set == {i \in DOMAIN o : o[i][s] # Unset}
    IN  IF set = {} THEN Unset ELSE o[Max(set)][s]

\* Overrides that a provider's Configure does not know.
Ignored(provider, s) == s = "top_p" /\ provider = "ollama"

\* What an application asked for: of the factory its options, whatever the
\* provider's own record says; of a text model its own record.
Asked(c, s) == IF c.kind # "llm" /\ s \in FactorySettings THEN c.options[s] ELSE c.own[s]

\* The setting s of a model that was asked for with c and overridden by o.
Effective(c, o, s) ==
    LET override == IF s \in Overridable /\ ~ Ignored(c.provider, s) THEN LastOverride(o, s)
                    ELSE Unset
        loaded == s \in {"model", "host", "port", "api_key"}
                  /\ ~ (c.kind = "llm" /\ c.provider \in LikeOpenAI)
        fallback == IF s = "api_key" THEN Unset ELSE "default"
    IN  CASE override # Unset -> override
          [] override = Unset /\ Asked(c, s) # Unset -> Asked(c, s)
          [] OTHER -> IF loaded THEN GetEnv(c.env[s], fallback) ELSE Unset

\* The request that a model sends has the settings that were made last: an
\* override (a run's before its assistant's), else the application's option,
\* else the environment, else the default, and it goes to the endpoint chosen
\* so.  The provider's own model name, endpoint, key and dimension never count
\* for a model of the factory: LLMObjectFactory overwrites them, also with
\* options that are blank.  Only without a usable number, dimension or endpoint,
\* or for a local model, which the factory does not make, is nothing sent.
RequestIsConfigured ==
    llm.state # "none" =>
        LET c == llm.use
            e(s) == Effective(c, made, s)
            openai == c.provider \in LikeOpenAI
        IN  \A stream \in {FALSE, c.kind # "embed"} :
                LET r == Send(stream)
                IN  IF r.sent
                    THEN /\ r.body.model = e("model")
                         /\ c.kind = "embed" \/ r.body.temperature = e("temperature")
                         /\ openai => r.body.api_key = e("api_key")
                         /\ c.kind # "embed" /\ (c.kind = "chat" \/ openai \/ stream) =>
                                r.body.stop_words = e("stop_words")
                         /\ c.kind # "embed" /\ openai => r.body.top_p = e("top_p")
                         /\ r.url.host = e("host")
                         /\ e("port") # Unset => r.url.port = e("port")
                         /\ Asked(c, "protocol") # Unset => r.url.protocol = Asked(c, "protocol")
                         /\ c.kind = "embed" /\ openai =>
                                /\ r.body.dimension # Unset
                                /\ c.options.dimension # Unset => r.body.dimension = c.options.dimension
                    ELSE \/ e("port") = Unset
                         \/ stream /\ e("host") = Unset
                         \/ stream /\ c.kind = "llm" /\ openai /\ c.own.protocol = Unset
                         \/ c.provider = "local"
                         \/ c.kind = "embed" /\ c.options.dimension = Unset
                            /\ GetEnv(c.env.dimension, Unset) = Unset
===============================================================================
