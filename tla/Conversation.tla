---------------------------- MODULE Conversation ----------------------------
(***************************************************************************)
(* The conversation of one run with its LLM providers: how a model string  *)
(* finds a provider (src/gateway/llm/router.py), what the provider puts on *)
(* the wire and makes of the answer (src/gateway/llm/providers), how tool  *)
(* results join the history (tool_translator.py), and what                 *)
(* validate_agent_models of agents/loader.py said of the agent before.     *)
(*                                                                         *)
(* AgentRunner has the concurrency of a run: its events, its tool tasks    *)
(* and its cancellation.  Here a request and its answer are one step, and  *)
(* the attempts are not counted.  A model string is the sequence of its    *)
(* parts between slashes.  The tool calls of a turn are converted one by   *)
(* one, so one stands for all.  Of a text only matters whether it is       *)
(* itself a JSON list; whatever else a result holds is media.              *)
(***************************************************************************)
EXTENDS Naturals, Sequences

CONSTANTS
    Agents,        \* the agent.yaml files: models, thinking_level
    Asked,         \* model and thinkingLevel of the request
    Configs,       \* config.providers: what is set there, in a form the clients take
    Outputs,       \* results of tool calls
    Codes,         \* bound: status codes of failures
    MaxIterations  \* limits.max_agent_iterations

ModelStrings == Seq(STRING) \ {<<>>}
Provider == {"anthropic", "openrouter", "ollama", "ollama_cloud", "google",
             "azure", "openai", "yolo"}
Level    == {"unset", "off", "on", "unknown"}
Text     == {"none", "plain", "list"}
Output   == [error : BOOLEAN, text : Text, media : BOOLEAN]

ASSUME ConversationAssumption ==
    /\ \A a \in Agents : /\ a.models \in Seq(ModelStrings) /\ a.models # <<>>
                         /\ a.thinking \in Level \ {"unknown"}
    /\ \A q \in Asked : q.model \in ModelStrings \cup {<<>>} /\ q.thinking \in Level
    /\ Configs \subseteq [keys : SUBSET Provider, resource : BOOLEAN, url : BOOLEAN]
    /\ Outputs \subseteq Output /\ Codes \subseteq Nat \ {0}
    /\ MaxIterations \in Nat

VARIABLES
    config,     \* providers with an api_key, azure.resource_name, yolo.base_url
    agent,      \* the agent
    asked,      \* the request
    candidates, \* candidate_model_strings
    index,      \* candidate_index, counted from 1
    compat,     \* is_openai_compat
    history,    \* the tool turns in messages, each with the output it is of
    pc,         \* "asking", "retry", "tools" or "over"
    reply,      \* what upstream sent, if it is retried or ended the run
    result      \* how the run ended, and the provider AgentRunResult names

given == <<config, agent, asked, candidates>>
vars  == <<given, index, compat, history, pc, reply, result>>

-----------------------------------------------------------------------------
(* Routing.                                                                *)

Prefixes == {"anthropic", "openrouter", "ollama", "ollama-cloud", "google",
             "azure", "openai", "yolo"}

PrefixToProvider ==
    [p \in Prefixes |-> IF p = "ollama-cloud" THEN "ollama_cloud" ELSE p]

\* "foo/" for a foo of the table.
Prefixed(m) == Len(m) > 1 /\ m[1] \in Prefixes

\* Mutant of ProviderKey: the table lost a provider that the router has.
ProviderKeyUnsynced(m) ==
    IF Prefixed(m) /\ m[1] # "yolo" THEN PrefixToProvider[m[1]] ELSE "anthropic"

\* provider_key_for_model_string: by the table.
ProviderKey(m) == IF Prefixed(m) THEN PrefixToProvider[m[1]] ELSE "anthropic"

\* get_provider_and_model: by its own chain of prefixes.
Route(m) ==
    LET To(p) == [provider |-> p, model |-> Tail(m)]
        Bare  == [provider |-> "anthropic", model |-> m]
    IN  IF Len(m) = 1 THEN Bare
        ELSE CASE m[1] = "openrouter"   -> To("openrouter")
               [] m[1] = "anthropic"    -> To("anthropic")
               [] m[1] = "azure"        -> To("azure")
               [] m[1] = "ollama"       -> To("ollama")
               [] m[1] = "ollama-cloud" -> To("ollama_cloud")
               [] m[1] = "google"       -> To("google")
               [] m[1] = "openai"       -> To("openai")
               [] m[1] = "yolo"         -> To("yolo")
               [] OTHER                 -> Bare

\* What the cached accessors hand to the constructors: without the azure
\* resource or the yolo base_url there is no host to ask.
Addressable(p) == (p = "azure" => config.resource) /\ (p = "yolo" => config.url)
Keyed(p)       == p = "ollama" \/ p \in config.keys

-----------------------------------------------------------------------------
(* validate_agent_models.                                                  *)

\* provider_configured_map.
Configured(p) ==
    CASE p = "ollama" -> TRUE
      [] p = "azure"  -> p \in config.keys /\ config.resource
      [] OTHER        -> p \in config.keys

ThinkingCapable == {"anthropic"}

\* Mutant of Findings: only the model of the agent is looked at for thinking.
FindingsOfPrimary(a) ==
    LET models == {a.models[i] : i \in DOMAIN a.models}
    IN  {[field |-> "model", severity |-> "error", value |-> m] :
            m \in {m \in models : Len(m) > 1 /\ ~Prefixed(m)}}
        \cup {[field |-> "model", severity |-> "warning", value |-> m] :
            m \in {m \in models : (Len(m) = 1 \/ Prefixed(m)) /\ ~Configured(ProviderKey(m))}}
        \cup {[field |-> "thinking_level", severity |-> "warning", value |-> m] :
            m \in {m \in {a.models[1]} : a.thinking = "on" /\ ProviderKey(m) \notin ThinkingCapable}}

\* An unknown prefix, a provider without its key, thinking that is ignored.
\* The check of the tools: entries is part of AgentStore (Unserved).
Findings(a) ==
    LET models == {a.models[i] : i \in DOMAIN a.models}
    IN  {[field |-> "model", severity |-> "error", value |-> m] :
            m \in {m \in models : Len(m) > 1 /\ ~Prefixed(m)}}
        \cup {[field |-> "model", severity |-> "warning", value |-> m] :
            m \in {m \in models : (Len(m) = 1 \/ Prefixed(m)) /\ ~Configured(ProviderKey(m))}}
        \cup {[field |-> "thinking_level", severity |-> "warning", value |-> m] :
            m \in {m \in models : a.thinking = "on" /\ ProviderKey(m) \notin ThinkingCapable}}

-----------------------------------------------------------------------------
(* Tool results on their way into the history.  "dump" is the JSON text of *)
(* the whole content list, "blocks" the list itself, "text" joined texts,  *)
(* "repr" the Python text of a content list that has none.                 *)

\* _extract_text.
ExtractText(o) ==
    IF o.text # "none"
    THEN [form |-> "text", text |-> o.text, media |-> FALSE]
    ELSE [form |-> "repr", text |-> "none", media |-> o.media]

\* mcp_result_to_anthropic and mcp_result_to_openrouter.
ToAnthropic(o) ==
    IF o.error THEN ExtractText(o)
    ELSE [form |-> "blocks", text |-> o.text, media |-> o.media]

\* Mutant of ToOpenAI: the texts of a success, too.
ToOpenAITexts(o) == ExtractText(o)

ToOpenAI(o) ==
    IF o.error THEN ExtractText(o)
    ELSE [form |-> "dump", text |-> o.text, media |-> o.media]

\* _normalize_messages of Ollama Cloud: what parses as a JSON list is replaced
\* by the texts of its items.  Turns that are not in OpenAI's shape pass.
Normalized(turn) ==
    LET c == turn.content
    IN  IF turn.shape # "openai" THEN turn
        ELSE [turn EXCEPT !.shape = "native", !.content =
                CASE c.form = "dump" -> [form |-> "text", text |-> c.text, media |-> FALSE]
                  [] c.form = "text" /\ c.text = "list"
                                     -> [form |-> "text", text |-> "none", media |-> FALSE]
                  [] OTHER           -> c]

-----------------------------------------------------------------------------
(* The request in flight.                                                  *)

\* thinking_level = thinking_level or agent.thinking_level.
Thinking == IF asked.thinking = "unset" THEN agent.thinking ELSE asked.thinking

\* The tool definitions: mcp_to_anthropic or mcp_to_openrouter.
ToolShape(m) == IF ProviderKey(m) # "anthropic" THEN "openai" ELSE "anthropic"

\* AnthropicProvider.complete: a budget for a level it knows, but "off"; every
\* other provider ignores the level.
Budgeted(p) == p = "anthropic" /\ Thinking = "on"

Wire(p, turn) == IF p = "ollama_cloud" THEN Normalized(turn) ELSE turn

\* AsyncAnthropic sends nothing without a key; the other clients let upstream
\* refuse the request.
Sent(p) == p = "anthropic" => Keyed(p)

Request ==
    LET to == Route(candidates[index])
    IN  [provider |-> to.provider, model |-> to.model,
         tools    |-> ToolShape(candidates[index]),
         thinking |-> Budgeted(to.provider),
         turns    |-> [i \in DOMAIN history |-> Wire(to.provider, history[i])]]

-----------------------------------------------------------------------------
(* What comes back.  0 is a failure without a status code.                 *)

RetryableStatusCodes == {429, 500, 502, 503, 504, 529}
NoReply  == [kind |-> "nothing", status |-> 0]
Failures == [kind : {"http"}, status : Codes]
              \cup [kind : {"envelope"}, status : Codes \cup {0}]
              \cup [kind : {"timeout", "connection", "notjson", "shapeless"}, status : {0}]
Messages == [kind : {"message"}, text : {"content", "reasoning", "none"},
             calls : {"none", "good", "noid", "badargs"}, finish : {"tools", "other"}]

ProviderError(s) == [kind |-> "ProviderError", status |-> s]
Exception        == [kind |-> "exception"]
Response(text, calls, stop) ==
    [kind |-> "response", text |-> text, calls |-> calls, stop |-> stop]

\* Mutant of ErrorEnvelope: the code in the body is not looked at.
ErrorEnvelopeCodeless(r) == ProviderError(0)

\* raise_if_error_envelope: {"error": ...} under HTTP 200.
ErrorEnvelope(r) == ProviderError(r.status)

\* A chat completion.  A tool call without an id, or with arguments that do not
\* parse, raises what is not a ProviderError.
Completion(r, readsReasoning) ==
    CASE r.kind = "http"       -> ProviderError(r.status)
      [] r.kind = "connection" -> ProviderError(0)
      [] r.kind = "envelope"   -> ErrorEnvelope(r)
      [] r.kind = "message" /\ r.calls \in {"none", "good"} ->
            Response(r.text = "content" \/ (readsReasoning /\ r.text = "reasoning"),
                     r.calls = "good", r.finish)
      [] OTHER                 -> Exception

OpenAIComplete(r)     == Completion(r, FALSE)
AzureComplete(r)      == Completion(r, FALSE)
YoloComplete(r)       == Completion(r, FALSE)
OpenRouterComplete(r) == Completion(r, TRUE)
GoogleComplete(r)     == Completion(r, TRUE)
OllamaComplete(r)     == Completion(r, TRUE)

\* Mutant of OllamaCloudComplete: done_reason as it comes.
OllamaCloudCompleteAsIs(r) ==
    IF r.kind = "message" /\ r.calls # "badargs"
    THEN Response(r.text # "none", r.calls # "none", r.finish)
    ELSE Completion(r, TRUE)

\* The native format: an id is made up, the stop reason follows from the calls,
\* and a body without a message is an empty answer.
OllamaCloudComplete(r) ==
    CASE r.kind = "message" /\ r.calls # "badargs" ->
            Response(r.text # "none", r.calls # "none",
                     IF r.calls # "none" THEN "tools" ELSE r.finish)
      [] r.kind = "shapeless" -> Response(FALSE, FALSE, "other")
      [] OTHER                -> Completion(r, TRUE)

\* What was sent: the SDK raises APIError for a status and for a lost connection, and parses
\* the tool calls; a thinking block is no text.
AnthropicComplete(r) ==
    CASE r.kind = "http"       -> ProviderError(r.status)
      [] r.kind = "connection" -> ProviderError(0)
      [] r.kind = "message"    -> Response(r.text = "content", r.calls # "none", r.finish)
      [] OTHER                 -> Exception

Complete(p, r) ==
    CASE p = "anthropic"    -> AnthropicComplete(r)
      [] p = "openrouter"   -> OpenRouterComplete(r)
      [] p = "ollama"       -> OllamaComplete(r)
      [] p = "ollama_cloud" -> OllamaCloudComplete(r)
      [] p = "google"       -> GoogleComplete(r)
      [] p = "azure"        -> AzureComplete(r)
      [] p = "openai"       -> OpenAIComplete(r)
      [] OTHER              -> YoloComplete(r)

-----------------------------------------------------------------------------
(* The run.                                                                *)

\* _dedupe_preserve_order.
Dedupe(s) ==
    LET kept[i \in 0..Len(s)] ==
            IF i = 0 THEN <<>>
            ELSE IF \E j \in 1..(i - 1) : s[j] = s[i] THEN kept[i - 1]
            ELSE Append(kept[i - 1], s[i])
    IN  kept[Len(s)]

Init ==
    /\ config \in Configs /\ agent \in Agents /\ asked \in Asked
    /\ candidates = Dedupe(IF asked.model = <<>> THEN agent.models
                           ELSE <<asked.model>> \o Tail(agent.models))
    /\ index = 1 /\ compat = FALSE /\ history = <<>>
    /\ pc = "asking" /\ reply = NoReply
    /\ result = [status |-> "running", provider |-> "none", text |-> FALSE]

\* A finished run; only an answer names a provider.
Over(s, provider, text) ==
    pc' = "over" /\ result' = [status |-> s, provider |-> provider, text |-> text]

\* Before it sends anything the SDK may raise what is not an APIError: always for
\* want of a key, else for parameters it does not take, as max_tokens and budget
\* beyond what it allows without streaming.
SdkRefuses ==
    /\ pc = "asking" /\ Request.provider = "anthropic"
    /\ reply' = NoReply
    /\ Over("error", "none", FALSE)
    /\ UNCHANGED <<given, index, compat, history>>

Failed(r) == IF r.kind = "timeout" THEN ProviderError(0) ELSE Complete(Request.provider, r)

\* A TimeoutError or a ProviderError: another attempt, while there are any and
\* the error is transient, or the next candidate.
LlmFails(r) ==
    /\ pc = "asking" /\ Sent(Request.provider) /\ Failed(r).kind = "ProviderError"
    /\ \/ /\ Failed(r).status \in RetryableStatusCodes \cup {0}
          /\ pc' = "retry" /\ reply' = r /\ UNCHANGED <<index, result>>
       \/ /\ index < Len(candidates)
          /\ index' = index + 1 /\ UNCHANGED <<pc, reply, result>>
       \/ /\ index = Len(candidates)
          /\ index' = index + 1 /\ reply' = r /\ Over("error", "none", FALSE)
    /\ UNCHANGED <<given, compat, history>>

\* The next attempt, after the backoff.
Retry ==
    /\ pc = "retry" /\ pc' = "asking" /\ reply' = NoReply
    /\ UNCHANGED <<given, index, compat, history, result>>

\* Any other exception ends the run, whatever candidates are left.
LlmCrashes(r) ==
    /\ pc = "asking" /\ Sent(Request.provider)
    /\ r.kind # "timeout" /\ Failed(r) = Exception
    /\ reply' = r
    /\ Over("error", "none", FALSE)
    /\ UNCHANGED <<given, index, compat, history>>

\* A response without tool calls, or whose stop reason is another one, is final.
Answer(r) ==
    LET got == Complete(Request.provider, r)
    IN  /\ pc = "asking" /\ Sent(Request.provider)
        /\ r.kind # "timeout" /\ got.kind = "response"
        /\ compat' = (ProviderKey(candidates[index]) # "anthropic")
        /\ IF got.calls /\ got.stop = "tools"
           THEN pc' = "tools" /\ UNCHANGED <<reply, result>>
           ELSE Over("ok", ProviderKey(candidates[index]), got.text) /\ reply' = r
        /\ UNCHANGED <<given, index, history>>

\* The assistant message and the results are appended in the shape of the model
\* that answered.
Tools(o) ==
    /\ pc = "tools"
    /\ history' = Append(history,
         [output |-> o, shape |-> IF compat THEN "openai" ELSE "anthropic",
          content |-> IF compat THEN ToOpenAI(o) ELSE ToAnthropic(o)])
    /\ IF Len(history) + 1 >= MaxIterations
       THEN Over("max_iterations", "none", FALSE)
       ELSE pc' = "asking" /\ UNCHANGED result
    /\ UNCHANGED <<given, index, compat, reply>>

Next ==
    \/ \E r \in Failures \cup Messages : LlmFails(r) \/ LlmCrashes(r) \/ Answer(r)
    \/ SdkRefuses \/ Retry
    \/ \E o \in Outputs : Tools(o)

Spec == Init /\ [][Next]_vars

-----------------------------------------------------------------------------

TypeOK ==
    /\ config \in Configs /\ agent \in Agents /\ asked \in Asked
    /\ candidates \in Seq(ModelStrings) /\ index \in 1..(Len(candidates) + 1)
    /\ compat \in BOOLEAN
    /\ history \in Seq([output : Outputs, shape : {"openai", "anthropic"},
                        content : [form : {"blocks", "dump", "text", "repr"},
                                   text : Text, media : BOOLEAN]])
    /\ Len(history) <= MaxIterations + 1
    /\ pc \in {"asking", "retry", "tools", "over"}
    /\ reply \in {NoReply} \cup Failures \cup Messages
    /\ result \in [status : {"running", "ok", "error", "max_iterations"},
                   provider : Provider \cup {"none"}, text : BOOLEAN]

\* The shape a provider reads.
Reads(p) == CASE p = "anthropic"    -> "anthropic"
              [] p = "ollama_cloud" -> "native"
              [] OTHER              -> "openai"

\* All candidates are Anthropic's, or none is.
Uniform ==
    \A i, j \in DOMAIN candidates :
        (Route(candidates[i]).provider = "anthropic") <=> (Route(candidates[j]).provider = "anthropic")

\* Every request carries tool definitions the provider it goes to can read,
\* after every fallback: the table of prefixes and the chain of the router
\* agree ("must stay in sync", router.py).  Unless the candidates mix Anthropic
\* with others, the history it carries fits too, whichever of them answered
\* the turns before.
RequestFitsProvider ==
    pc = "asking" =>
        /\ Request.tools = IF Request.provider = "anthropic" THEN "anthropic" ELSE "openai"
        /\ Uniform => \A i \in DOMAIN history : Request.turns[i].shape = Reads(Request.provider)

\* What a tool returned is in every later request, whole: the "full, untruncated
\* output" of models/config.py.  There are three exceptions: media beside the
\* text of an error, all media for Ollama Cloud, and for Ollama Cloud the text
\* of an error that happens to be a JSON list.
OutputReachesModel ==
    pc = "asking" => \A i \in DOMAIN history :
        LET output == history[i].output
            sent   == Request.turns[i].content
        IN  /\ output.media /\ ~sent.media =>
                  (output.error /\ output.text # "none") \/ Request.provider = "ollama_cloud"
            /\ output.text # "none" /\ sent.text = "none" =>
                  Request.provider = "ollama_cloud" /\ output.error /\ output.text = "list"

\* What upstream calls transient.
Transient(r) ==
    \/ r.kind \in {"timeout", "connection"}
    \/ r.kind = "envelope" /\ r.status = 0
    \/ r.kind \in {"http", "envelope"} /\ r.status \in RetryableStatusCodes

\* A failure upstream is judged by what it says, not by the way it comes (HTTP
\* status, or error body under 200): only a transient one is retried, and a run
\* never ends in an error with candidates left, unless the answer was none of
\* the forms the provider reads (the exception the docstring of
\* raise_if_error_envelope wants to avoid) or Anthropic's SDK sent no request.
FailuresFallOver ==
    /\ pc = "retry" => Transient(reply)
    /\ (result.status = "error" /\ index <= Len(candidates)) =>
          \/ reply.kind \in {"notjson", "shapeless"}
          \/ reply = NoReply /\ Request.provider = "anthropic"
          \/ reply.kind = "envelope" /\ Request.provider = "anthropic"
          \/ reply.kind = "message" /\ reply.calls \in {"noid", "badargs"}

\* An agent that validate_agent_models has nothing to say of, asked for without
\* a model or a level of the request: whichever candidate is asked, after any
\* fallbacks, the request thinks if the agent is to think, goes to a provider
\* with its credentials and names the model without its prefix.  It has a host
\* to go to, but for yolo, whose base_url provider_configured_map leaves out.
SilentValidationHolds ==
    (pc = "asking" /\ Findings(agent) = {} /\ asked.model = <<>> /\ asked.thinking = "unset") =>
        /\ Request.thinking <=> agent.thinking = "on"
        /\ Keyed(Request.provider)
        /\ Addressable(Request.provider) \/ Request.provider = "yolo"
        /\ Request.model # candidates[index] <=> Len(candidates[index]) > 1

\* A run that ends well names the provider that answered last, and nothing of
\* that answer was dropped but tool calls under another stop reason, which only
\* Ollama Cloud's provider makes up for, and reasoning in place of a text, which
\* only some of the providers read.
AnswerIsWhole ==
    result.status = "ok" =>
        /\ result.provider = Request.provider
        /\ reply.kind = "message" /\ reply.calls # "none" =>
              reply.finish # "tools" /\ Request.provider # "ollama_cloud"
        /\ reply.kind = "message" /\ reply.text # "none" /\ ~result.text =>
              reply.text = "reasoning" /\ Request.provider \in {"anthropic", "openai", "azure", "yolo"}

===============================================================================
