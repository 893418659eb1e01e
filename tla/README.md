# VectorStep Gateway: a verification project in TLA+

TLA+ modules of the gateway in `src/gateway`, the TLC configurations that check
them, and theorems about them checked by TLAPS. Line numbers are those of the
commit in `src/`; a module's comments quote them where a property depends on
them. `PROJECT.json` lists every run, mutant, finding, hazard and theorem, and
maps every definition to the lines it models.

## 1. The system

The gateway is one Python process on one asyncio event loop. A client opens a
WebSocket, authenticates, and asks for an agent run; the gateway calls an LLM,
executes the tools the LLM asks for on MCP servers (subprocesses), and repeats
until the LLM gives a final answer.

| component | state | operations | interacts with |
|---|---|---|---|
| RPC endpoint (`main.py:406-637`) | per connection: `authenticated`, the run task, the disconnect watcher; `run_semaphore`; sessions | connect, agent, disconnect | one semaphore shared by all connections; starts and cancels the runner |
| Agent runner (`runner/agent_runner.py`) | `candidate_index`, attempts, `iterations`, `messages`, the tool tasks | `run` | LLM providers, MCP manager, tool policy; sends trace events back through the endpoint |
| MCP manager (`mcp/manager.py`) | per server: transport, monitor task, restart count; the tool registry; the gauge | `start_all`, `_monitor`, `call_tool`, `stop_all` | transports; the lifespan of `main.py` |
| MCP transport (`mcp/transport.py`) | the process, the reader task, `_pending`, `_next_id` | `start`, `_request`, `_read_loop`, `stop` | one server process over stdin and stdout |
| Agent store (`agent_writer.py`, `agents/loader.py`, endpoints of `main.py`) | `agents/` on disk, `_state["agents"]` | create, update, delete, reload, SIGHUP | the file system, the operator's editor; a run takes its agent from the registry |
| Model routing (`llm/router.py`) | one cached provider per kind | `get_provider_and_model` | the runner, agent validation |
| Tool policy (`policy.py`) | compiled rules, read only | `evaluate`, `visible_tools` | the runner |
| LLM providers (`llm/providers/`), tool translation (`llm/tool_translator.py`) | a client each | `complete`, the conversions | the runner; the HTTP endpoints of eight vendors |
| Model validation (`agents/loader.py`) | none | `validate_agent_models`, `provider_configured_map` | the start, every reload and every write |
| Device identity (`auth/device.py`) | two files | `bootstrap_identity` | the lifespan, the operator who copies the token |
| Process lifecycle (lifespan of `main.py`, `load_config`, the SIGHUP handler) | what the start has done so far | start, reload, shutdown | all of the above; systemd or Kubernetes |
| Configuration, metrics, tracing | none that a property here needs, except the server gauge and the run status | | |

What is hard in it:

* **Interleavings.** A step of the loop is the code between two awaits. The run
  and its disconnect watcher race; a cancellation races with a grant of the
  semaphore and with the answer `wait_for` awaits; several tool tasks of one
  turn race with each other and with the end of their run; a monitor restarts a
  server while `stop_all` cancels it; a SIGHUP handler runs between any two
  bytecodes, so in the middle of a write or a reload.
* **Failures.** A client leaves at any time, with or without an exception from
  the next send. A server answers late, twice or never, closes its stdout, or
  dies. The gateway dies between two files of one write. A provider reports an
  error in its own way, or answers with what its reader does not expect.
* **Translation.** A tool result crosses two or three formats before a model
  sees it, and a fallback sends a history made for one provider to another. Two
  tables and a chain of prefixes decide what a model string means.
* **Timeouts and retries.** LLM retries with backoff and fallback; MCP requests
  with two nested timeouts; five seconds of grace in `stop`.

## 2. The modules

| module | models | composes or implements |
|---|---|---|
| `RpcGateway` | the endpoint with CPython's semaphore | implements `RunAdmission` |
| `RunAdmission` | what the endpoint promises | abstract |
| `RpcGatewayProofs` | | theorems about `RpcGateway` |
| `AgentRunner` | one run with its tool tasks | opens what `RpcGateway` calls a running run; implements `RunContract` |
| `RunContract` | what `RpcGateway` expects of a run it has started | abstract |
| `AgentRunnerProofs` | | theorems about `AgentRunner` |
| `Conversation` | routing, requests, answers and tool results of one run | opens what `AgentRunner` calls an answer, a retryable or fatal error |
| `ConversationProofs` | | theorems about `Conversation` |
| `MCPTransport` | one connection to a server process | |
| `MCPTransportProofs` | | theorems about `MCPTransport` |
| `MCPManager` | the life cycle of the servers | takes `stop()` and the handshake from `MCPTransport` as steps |
| `MCPManagerProofs` | | theorems about `MCPManager` |
| `AgentStore` | the agents directory and the registry | |
| `AgentStoreProofs` | | theorems about `AgentStore` |
| `ToolPolicy` | which tools a run offers, what the policy allows, which tool a call reaches | opens the free choice between `ToolAllowed` and `ToolDenied` of `AgentRunner` |
| `ToolPolicyProofs` | | theorems about `ToolPolicy` |
| `Lifespan` | the process from start to stop, again and again | takes `load_agents` of `AgentStore` and `start_all` of `MCPManager` as steps |
| `LifespanProofs` | | theorems about `Lifespan` |
| `MCRpcGateway`, `MCAgentRunner`, `MCConversation`, `MCAgentStore`, `MCToolPolicy` | constants and symmetry for TLC | |

### RpcGateway

Per connection: `pc` is the place of the handler between awaits, `run` the state
of the run task (its place in the semaphore, then its outcome), `watch` the
watcher, `kill` a cancellation that was requested and not yet delivered, `gone`
and `backlog` the client and the receive queue, `wire` the last frame of the
latest request. The semaphore is CPython's: `_value` is `permits`, a waiter's
future is pending, granted or cancelled (`queued`, `granted`, `dropped`), and
`ahead` is the order of `_waiters`. `Acquire`, `Resume`, `ResumeCancelled`,
`ResumeDropped` and `EndRun` are the paths through `acquire` and `release`.
`run()` itself is a number of trace frames and an outcome. A frame is read as
one of the kinds the handler tells apart. A send to a departed client may raise
or be dropped; both are steps. A run that is being cancelled may still end with
the exception of such a send (`TraceFails`), as the `except Exception` at
`main.py:565` expects: a tool task can raise before `gather` is cancelled.

`RunAdmission` says, without tasks, queue or frames: a run starts only while
fewer than `MaxRuns` are running, the client is told the outcome of its own run
at most once, and a client that leaves is told nothing.

### AgentRunner

`pc` is the await `run()` is at: an `_emit`, a request, a backoff, or `gather`.
`index`, `attempt`, `iteration` are the counters of the code, `requests` counts
LLM requests. `child` has the task of every tool call of the turn, which may
outlive the run; `outer` is the future of `gather`. `history` keeps, per
assistant turn, the message shape and the results appended after it. Texts,
tokens and arguments are left out, the policy's decision is free. A tool task may
raise in a send to a departed client (`ToolEmitFails`) or, whoever listens, in the
code outside its `try` (`ToolCrashes`). The status of a run that every model gave
up follows the text of the last error (`GaveUpAs`), which quotes the upstream.

`RunContract` is the run task as `RpcGateway` has it: it runs, is cancelled at
most once and after its client left, may lose the cancellation on Python 3.11,
and ends once. `Outcome` and `Asked` in `AgentRunnerProofs` map a run to it.

### Conversation

`Route` is the chain of prefixes of the router, `ProviderKey` the table that
decides the shape of tools and history; both read the same model string, a
sequence of its parts between slashes. `Request` is what `complete` puts on the
wire for the candidate at `index`, with `Normalized` as the second conversion of
Ollama Cloud. `Complete` is what each of the eight providers makes of what comes
back: an HTTP status, an error body under 200, a lost connection, a body that is
no JSON or has another shape, or a message with its text, tool calls and finish
reason. `SdkRefuses` is what Anthropic's SDK raises before it sends anything, always
without an `api_key`: a `TypeError`, which `complete` does not catch. What else is
set in `config.providers` is taken to be of a form the HTTP clients accept.
`Findings` is `validate_agent_models`. A request and its answer are one
step and attempts are not counted: `AgentRunner` has the concurrency and the
counters. A text either is a JSON list or is not; the rest of a result is media.

### MCPTransport

`stdout` holds the lines nobody has read, `pending` the keys of `_pending`,
`fut` the future of each request and `call` its coroutine. A future is settled
by a line or by the end of the reader. `wait_for` is two steps: the timer fires
(`TimerFires`), the coroutine runs later and may find the future settled
(`ReturnLate`) or not (`Expire`). `Abandon` is a cancellation from outside, the
runner's own timeout included. `stop()` is `Stop`, `ReaderReaped`, `Stopped`.

### MCPManager

The processes of a server are numbered, `bound` is the one `state.transport` is
connected to, `tools` the processes whose tools are in the registry. `job` is
where `_spawn_and_init` is, for `start_all` or for the monitor; a cancellation
of the monitor is delivered at its next await, except that `transport.stop()`
swallows one that arrives while it awaits the reader, and that on Python 3.11
`wait_for` swallows one that arrives after the reply to the handshake or the exit
of the process (`LoseCancel`). `gauge` is what the
lifespan and the monitors last wrote to `mcp_servers_running`.

### AgentStore

A directory is a yaml and a soul, each perhaps missing. A yaml text stands for
what the loader makes of it: it builds (`Good`), it builds but names an unknown
model or server (`Unserved`), it raises what `load_agents` catches (`Skipped`)
or what it does not (`Poison`). `POST /agents` takes any name, and the path
normalises it: the name `b/` is accepted with a text `name: b/` that builds under
it, but lies in the directory `b`, which the loader skips for the mismatch
(`Misnamed`); a name with a slash inside is out of the loader's sight, and its
request is `PostReload`. Each file operation may fail (`WriteFails`). `scans` is the Python stack of nested
`load_agents` calls; a write or a reload continues when the SIGHUP handlers on
top of it have returned. A write is validation, yaml, soul, reload, response.
An exception in a handler ends everything below it on the stack. Three ghosts
say what may be expected: `pledged` what the last response said of an agent,
`disturbed` whether its last write was cut short between its files or edited
under way, `stale`
whether its files changed after the last reload that interrupted no other began.

### ToolPolicy

A name is a sequence of its underscores and of the pieces between them:
`registered_name` puts two underscores between server and tool, `partition("__")`
cuts a name at the first two it finds, so that `a___t`, the tool `t` of a server
`a_`, is the tool `_t` of a server `a` to `evaluate`. A glob is the set of names it matches; an input either contains what the
regular expression of a rule looks for or not (one too big to search does not).
`resolved` and `offered` are the tools of a run before and after
`visible_tools`, `call` one that passed `evaluate`, `ran` what a server got. The
model may ask for any name, offered or not. Servers come and go in between, and
the registry, a dict, lets a later server take over a registered name. One run is
modelled: runs share only the registry, which changes here anyway.

Both properties are about servers whose own name has no double underscore and
does not end in an underscore (`Plain`). For the others `evaluate` and `call_tool` mean different servers, and a
rule with that `server` field matches no call.

### Lifespan

`pc` is the step of the start, of which each returns or raises by what is on the
disk; `unit` is what systemd makes of the process. `device` and `auth` are the
two identity files, numbered by the identity they belong to, `Torn` between
their truncation and their write; `copied` is the token the operator gave to the
client. Kills come at any step, between the two writes too; files are removed at
any step but those that write them. A SIGHUP before its handler is installed ends
the process, and later it raises if `load_agents` does.

## 3. The runs

| run | shows | instance |
|---|---|---|
| `rpc_safety` | permits, order, reaping, authentication, refinement of `RunAdmission` | 3 connections, 2 permits, 1 unread frame; symmetric |
| `rpc_live` | every request settles, every departed handler ends | 2 connections, 1 permit |
| `runner` | request bound, complete histories, truthful status, no flapping, orphans only as explained, the run ends | 2 models, 1 retry, 2 tool calls, 3 iterations |
| `conversation` | a request fits the provider it goes to, tool output reaches the model, failures fall over by what they say, a silent validation means what it says, an answer is whole | every pair of nine prefixed and bare model strings, with and without a model of the request; 2 configurations; statuses 429, 503, 401, 520; 2 tool turns |
| `transport` | replies match, the reader survives, nothing leaks or hangs | 2 requests, 1 unread line |
| `manager` | fresh tools, no lost process, a gauge that follows, restart, shutdown | 2 servers, 2 restarts |
| `store` | acknowledged writes are served, mixes do not outlive a write, only hand edits break agents, edits are served after a reload | 2 agents (1 written through the gateway), 2 good texts, 1 of each other kind, 2 souls, 1 edit, 2 SIGHUPs nested up to 2 |
| `tool_policy` | what a server runs is what the policy allows and what was not hidden | 2 servers, one with an underscore at its end, 3 tools, one with one in front and one with a separator, 2 agents, policies of up to 2 rules |
| `lifespan` | a copied token stays valid, the gateway comes up again | 2 kills, 1 removal of identity files, any edits |
| `runner_orphans`, `runner_history`, `manager_retry` | violations, section 6 | the same or smaller |

Why the bounds are enough. Overtaking needs a free permit, a granted waiter and
a newcomer: three connections and two permits. Reordering of replies needs two
requests; a server may write its next line as soon as the last is read, so one
line of buffer loses no order of events. A fallback in the middle of a run
needs two models and two iterations; a turn is read by the request after it, so
two tool turns show every pair of writer and reader. The statuses are one that
all retry, one that is retried as a server error, one that is not retried, and
one that is not in the code's set though it is a server error. A restart during
the start or the stop of
another server needs two servers. A mix of two writes needs two texts and two
souls, a broken neighbour a second agent. The order of rules shows with two, a
cut at the wrong separator with a tool name that has one, two tools of one
registered name with an underscore at the end of one half and in front of the other. Two kills cut a start
short and the one after it. The bounds `MaxBacklog`, `MaxLines`,
`MaxIds`, `MaxRestarts`, `MaxEdits`, `MaxHups`, `MaxNest`, `MaxEnds`,
`MaxRemovals`, `Codes` and `Target` bound what the environment does; `MaxCalls`
bounds the tool calls of one turn. All other constants are limits of the
configuration or sets of its values.

Deadlock is checked in `rpc_safety`, `rpc_live`, `tool_policy`, `store` and
`lifespan`. The other systems end: a run is over, requests run out, the gateway
is down.

## 4. Fairness

The loop runs every ready task, so handlers, watchers, readers and monitors are
weakly fair. A run ends because each of its awaits is bounded by a timeout and
its iterations by a limit; that is the property `RunEnds` of `AgentRunner` and
the assumption on `EndOfRun` in `RpcGateway`. Timers fire. Nothing is assumed
of clients, of servers (they need not answer, exit or read), of signals and of
operators; `drain()` of a server that reads nothing has no fairness.
`StopAllReturns` of `MCPManager` excepts a monitor whose cancellation was
swallowed, which the code allows: by `transport.stop()` while it awaits the reader,
and on Python 3.11 (`src/Dockerfile:1`) by `wait_for` at `transport.py:138` and
`:88`. Such a monitor goes back to its loop, and `stop_all` awaits it for ever.

In `Lifespan` a start goes on, as each of its awaits has a timeout, and systemd
restarts a process that failed. Kills are finitely many (`MaxEnds`); systemd's
own start limit is not reached, as `RestartSec=5` allows two starts in ten
seconds and five is the limit. `ComesUp` excepts what only a person can repair: a
file of the operator's that makes the start raise, a `device-auth.json` that was
torn by a kill (`bootstrap_identity` finds it there and fails to parse it), and a
SIGHUP during a start, which systemd takes for a clean exit. A server whose
stdin is never read can hold `start_all` for ever (`transport.py:150`); in
`Lifespan` servers read.

## 5. What is proved

`RpcGatewayProofs`, for every finite set of connections, every number of
permits and every backlog, from `GatewayAssumption`:

* `TypeCorrect`, then `PermitsConserved` by the invariant that counts permits
  and holders; a cancelled grant gives its permit on in the same step.
* `NoTaskOrphaned` from an invariant that ties `pc`, `watch`, `run` and `kill` of
  a connection (`TaskInv`): neither half is inductive without the other, as the
  handler relies on the watcher not being done before it looks.
* `WakeupNeverLost`, `GrantsAreFifo`, `NobodyOvertakes` from the queue invariant
  (`QueueInv`): `ahead` is a strict order on the waiters, and granted waiters
  have no pending one before them. The semaphore wakes one waiter at a time, so
  the lost-wakeup property needs the order too.
* `OnlyAuthenticatedRun`, `NothingStartsAfterDisconnect` from `GuardInv`.
* `GatewayImplementsAdmission`: the initial state maps to the initial state, and
  each action to one action of `RunAdmission` or to a stutter, under the
  mapping `JobOf`, `ToldOf`.

`AgentRunnerProofs`, for any candidate list, retry and iteration limits
(negative ones too) and any number of tool calls: `RunTypeCorrect`,
`RequestsBounded`, `IterationsBounded`, `HistoryComplete`, `StatusIsTruthful`,
`OrphansExplained`, `ModelsNeverComeBack`, `CancelledRunIsIdle`. `Frame` relates
the control state to the tool tasks, `Ledger` strengthens the request bound per
attempt, `Answers` says that all turns but the last are complete while tools
run, `Ends` and `Survivors` what is left when the run is over.

* `RunIsBounded` is termination without fairness. `Fuel` is a natural number:
  rounds left times what a round can cost at most, plus the steps left in this
  round, plus the awaits each tool task has ahead (`ToDo`, counted as a finite
  set), plus what the client can still do. Every step uses some of it up, and
  until the run is over the guard of some step of its own holds (`CanMove`, from
  `GatheringInvariant`: a pending `gather` waits only for tasks that can move).
  What is left of `RunEnds` for TLC is that a step that can be taken is taken.
* `ImplementsRunContract`: every step of a run, its retries, fallbacks and tools
  included, is one of `RunContract` or a stutter. `Ends` is what the
  exceptional cases need: a run whose cancellation waits in `gather` has a client
  that left, and a child was cancelled only because the run was. So `EndOfRun` and `LoseCancel` of
  `RpcGateway` leave out nothing a run can do to its endpoint.

`ConversationProofs`, for any agents, requests, configurations, model strings,
tool results and status codes: `ConversationTypeCorrect`, `RequestsFit`,
`OutputsReachTheModel`, `FailuresJudgedAlike`, `SilenceIsSound`, `AnswersWhole`.
`Live` says that the candidates are the deduplicated list and that the index is
in it while the run goes on. `TableMatchesRouter` is the heart of `RequestsFit`:
the table of prefixes and the chain of the router take the same side on every
model string, prefixed or bare. `Converted` says that every turn of the history
holds its output as the converter of its shape left it, and `Shaped` that, where
no fallback changes sides, that shape is the one of the candidate asked.
`FailuresFallOver` and `AnswerIsWhole` are inductive given these.
`DedupePreservesOrder` says that the candidates are the models asked for, each
once and in order, which `RunnerAssumption` takes for granted; `Dedupe` is a
recursive function, and the proof an induction over the set of lengths for which
it holds, which needs no induction theorem with an operator for a parameter.

`ToolPolicyProofs`, for any servers, tools, agents and rule lists:
`PolicyObeyed`, `HidingIsSound`. `PolicyInv` says that a call in flight has
passed `evaluate` under its two halves and that `offered` is what is visible of
`resolved`; `SplitRegistered` that the halves of a registered name are the names
it was made of, when the server's is plain: `Joined` and `Piece` give the name
and its halves element by element, and no cut lies before the one that was put in.

`MCPTransportProofs`, for any number of requests and any buffer:
`TransportTypeCorrect`, `RepliesNeverBreakTheReader`, `AnswersNeverSwapped`,
`TimeoutsLeakNothing`, `ReaderEndSettlesCalls`. `ConnInv` says that a registered
future is pending (`PendingUnsettled`, without which no theorem about the reader
is inductive), that a future is settled under its own id, and that a call in
flight whose future is pending is registered, so that the end of the reader finds
it.

`MCPManagerProofs`, for any number of servers and restarts:
`ManagerTypeCorrect`, `ProcessesAreOwned`, `RegistryIsFresh`, `GaugeIsExplained`.
`Watched` says who awaits `_spawn_and_init` and whose monitor `stop_all` has
reaped, `Owned` relates the stage of it to processes and tools: a spawn begins
only where nothing is alive. `OneServer` frames a step for one server.

`AgentStoreProofs`, for any number of agents, texts, edits, SIGHUPs and nested
reloads: `StoreTypeCorrect`, `AnswerStands`, `MixIsPassing`,
`WritesLeaveBuildable`, `OuterReloadCatchesUp`. Each is about the moment a reload
ends, so the invariant says what the reloads on the stack will leave: `Kept`, for
a promise or a write on its way to one, that every scan still has the agent to
read or has seen it as it is; `Caught` the same of the outermost scan alone, for
an agent that is not stale; `Unmixed` that registry, disk and scans hold only
pairs that were acknowledged or edited, except for the agent being written. The last rests on
`Kept`: the answer of a write is what ends a mix.

`LifespanProofs`, for any number of kills and removals: `LifeTypeCorrect` and
`CopiedTokenStaysValid`. `Paired` says that a token in a file stands beside its
own device unless files were removed; `Counted` pays each new identity with a
kill or a removal.

Only model-checked: every liveness property, as the prover has neither fairness
nor `ENABLED`. Every safety invariant and every action property of a passing
run is a theorem. No module uses a `RECURSIVE` operator.

## 6. Findings

1. `runner_orphans`: when the send of one tool task raises because the client
   has left, `gather` ends the run and leaves the other tool tasks at work; they
   still call their servers, against the comment at `main.py:558-560`.
2. `runner_history`: the history keeps the shape of the provider that answered;
   after a fallback across shapes the next provider gets the wrong one.
3. `manager_retry`: "failed to restart; will retry" (`manager.py:233`) is never
   followed by a retry, as the monitor skips a server without a transport.

Met while modelling, and part of the models rather than runs of their own:

* A run is recorded as `max_iterations` in its first iteration when the last model
  answers an error whose body has those words (`agent_runner.py:470-477`,
  `StatusTruthful`).
* The gauge is "1 if MCP server is running" (`metrics.py:83`), but stays 1 for a
  server whose restart failed. `GaugeFollowsServers` names the exception.
* `agent_writer.py:12-14` rules out a half-written directory after a crash; a
  new `agent.yaml` with the old `soul.md` is possible, after a crash, after an
  `OSError` and under a SIGHUP (`disturbed`). The other claim of the docstring, no
  invalid directory, holds but for names like `b/` (`OnlyEditsBreakAgents`), whose
  agent is acknowledged and never served (`AcknowledgedIsServed`).
* A SIGHUP that nests in a reload is overwritten by the older view of the reload
  it interrupted; `ReloadsCatchUp` holds of the outermost reload only.
* `deploy/systemd/install.md:101-102` calls `systemctl reload` enough after an
  edit of `config.yaml`; the configuration is read at the start only.
* `models/config.py:20-23` promises full tool output; for Ollama Cloud media and
  an error text that is a JSON list are lost (`OutputReachesModel`).
* `provider_configured_map` does not ask for the `base_url` of yolo, so an agent
  can pass validation and have no host to go to (`SilentValidationHolds`).
* A missing `api_key` of Anthropic, a warning of `validate_agent_models`, ends a run
  in an error with its fallbacks untried (`FailuresFallOver`), as do the other
  exceptions of the SDK that are not an `APIError`.
* The comment at `main.py:245` says the prefix of anthropic is None; it is
  `anthropic/`.

## 7. What is not modelled

Token counts, prompt caching, texts, logging, spans and most metrics: no state
of their own that a property needs. Temporary files of the agent writer, which
nothing reads. The two reads of one directory in `load_agents` are one step, and
so is `exists` with the `unlink` after it: only a hand edit could come between.
The number of sessions is not bounded in the code; the model keeps the set of
keys. The read-only HTTP endpoints.

## 8. Plan

Done, in the order of importance: the endpoint and its promise; the runner, its
bound, and what the endpoint expects of it; transport and manager; store; tool
policy; the conversation with the providers; the life of the process; each with
the proofs of its safety.

Next, as theorems, the parts of liveness that need no fairness, as
`RunIsBounded` has them for a run:

1. `MCPTransport`: while a call has not returned there is a step of its own or a
   timer that leads it on; `stop` takes a bounded number of steps.
2. `RpcGateway`: while a handler waits, its run or its watcher can move.
3. `MCPManager`: `stop_all` waits for nothing that is not on its way to an end.
