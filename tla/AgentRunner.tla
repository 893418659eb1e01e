---------------------------- MODULE AgentRunner ----------------------------
(***************************************************************************)
(* One agent run: AgentRunner.run of src/gateway/runner/agent_runner.py.   *)
(* The loop asks the LLM, runs the requested tool calls as concurrent      *)
(* tasks under asyncio.gather, appends their results to the history and    *)
(* asks again.  Transient LLM errors are retried, a failing model is       *)
(* replaced by the next candidate, the client that is streamed to may be   *)
(* gone, and the run may be cancelled at any await.                        *)
(*                                                                         *)
(* A tool call is its position in the response; texts, token counts and    *)
(* durations are dropped.  A model is represented by the message shape     *)
(* its provider reads.  Steps are the code between two awaits.             *)
(***************************************************************************)
EXTENDS Integers, Sequences

CONSTANTS
    Candidates,     \* the deduplicated list: requested model, then fallbacks
    Shape,          \* Shape[m]: "anthropic" or "openai", of the model m
    RetryAttempts,  \* limits.llm_retry_attempts; config does not constrain it
    MaxIterations,  \* limits.max_agent_iterations; likewise
    MaxCalls,       \* bound: tool_use blocks of one response
    LostCancel      \* can wait_for drop a cancellation (Python 3.11)?

NCand == Len(Candidates)

ASSUME RunnerAssumption ==
    /\ Candidates \in Seq(DOMAIN Shape) /\ NCand > 0
    /\ \A i, j \in 1..NCand : Candidates[i] = Candidates[j] => i = j
    /\ \A m \in DOMAIN Shape : Shape[m] \in {"anthropic", "openai"}
    /\ RetryAttempts \in Int /\ MaxIterations \in Int
    /\ MaxCalls \in Nat /\ LostCancel \in BOOLEAN

VARIABLES
    pc,         \* where run() is
    iteration,  \* iterations
    index,      \* candidate_index, counted from 1
    attempt,    \* attempt, of the retry loop
    requests,   \* LLM requests sent by this run so far (history variable)
    turn,       \* number of tool calls the latest response asks for
    history,    \* messages: the assistant turns and the results that follow
    child,      \* the task of each tool call of the latest turn
    doom,       \* tool tasks with a cancellation not yet delivered
    outer,      \* the future of gather: how it ended if not with all results
    kill,       \* the cancellation of the run task by the RPC handler
    gone,       \* has the client left, so that a send may raise?
    status      \* run_status, as recorded by record_agent_run_complete

llm   == <<index, attempt, requests>>
tools == <<turn, history, child, doom, outer>>
ext   == <<kill, gone>>
vars  == <<pc, iteration, llm, tools, ext, status>>

Calls      == 1..MaxCalls
Awaiting   == {"announce", "request", "retry", "backoff", "fallback", "blocks"}
Emitting   == {"announce", "retry", "fallback", "blocks"}
Unfinished == {"new", "denied", "calling", "result"}

TypeOK ==
    /\ pc \in Awaiting \cup {"select", "gather", "over"}
    /\ iteration \in Nat /\ index \in 1..(NCand + 1)
    /\ attempt \in Nat /\ requests \in Nat
    /\ turn \in 0..MaxCalls
    /\ history \in Seq([shape : {"anthropic", "openai"},
                        calls : Calls, results : Seq(Calls)])
    /\ child \in [Calls -> Unfinished \cup {"none", "done", "failed", "cancelled"}]
    /\ doom \subseteq Calls
    /\ outer \in {"pending", "error", "cancelled"}
    /\ kill \in {"none", "pending", "gather", "spent"}
    /\ gone \in BOOLEAN
    /\ status \in {"running", "ok", "timeout", "max_iterations", "error", "aborted"}

\* record_agent_run_start, the tools are resolved, the first iteration begins.
Init ==
    /\ pc = "announce" /\ iteration = 1
    /\ index = 1 /\ attempt = 0 /\ requests = 0
    /\ turn = 0 /\ history = <<>>
    /\ child = [i \in Calls |-> "none"] /\ doom = {} /\ outer = "pending"
    /\ kill = "none" /\ gone = FALSE /\ status = "running"

\* The except and finally clauses: the status is recorded, the run is over.
Over(s) == pc' = "over" /\ status' = s

-----------------------------------------------------------------------------
(* The world around the run.                                               *)

ClientLeaves ==
    /\ pc # "over" /\ ~gone
    /\ gone' = TRUE
    /\ UNCHANGED <<pc, iteration, llm, tools, kill, status>>

\* The RPC handler saw the disconnect: run_task.cancel().  A pending gather
\* passes the cancellation to its children; elsewhere the await of run() gets it.
Cancel ==
    /\ pc \in Awaiting \cup {"gather"} /\ gone /\ kill = "none"
    /\ IF pc = "gather" /\ outer = "pending"
       THEN /\ kill' = "gather"
            /\ doom' = {i \in Calls : child[i] \in Unfinished}
       ELSE /\ kill' = "pending"
            /\ UNCHANGED doom
    /\ UNCHANGED <<pc, iteration, llm, turn, history, child, outer, gone, status>>

-----------------------------------------------------------------------------
(* run(): steps that end in the CancelledError, or in a failed send.       *)

Aborted ==
    /\ kill = "pending" /\ pc \in Awaiting
    /\ Over("aborted")
    /\ UNCHANGED <<iteration, llm, tools, ext>>

\* Python 3.11: the awaited response was there when the cancellation came.
LoseCancel ==
    /\ LostCancel /\ kill = "pending" /\ pc = "request"
    /\ kill' = "spent"
    /\ UNCHANGED <<pc, iteration, llm, tools, gone, status>>

EmitFails ==
    /\ gone /\ kill # "pending" /\ pc \in Emitting
    /\ Over("error")
    /\ UNCHANGED <<iteration, llm, tools, ext>>

-----------------------------------------------------------------------------
(* _call_llm: retries and fallback.                                        *)

Go(from, to) == kill # "pending" /\ pc = from /\ pc' = to

\* Mutant of EmitLlmCall: every iteration starts at the first candidate again.
EmitLlmCallRestart ==
    /\ Go("announce", "select")
    /\ index' = 1
    /\ UNCHANGED <<iteration, attempt, requests, tools, ext, status>>

EmitLlmCall ==
    /\ Go("announce", "select")
    /\ UNCHANGED <<iteration, llm, tools, ext, status>>

\* The recorded status follows the text of the AgentRunError: the names of the
\* models and the last exception, of kind e.  That of a timeout says "timed out";
\* that of a ProviderError quotes the upstream's answer, which may say anything.
GaveUpAs(e) == IF e = "timeout" THEN {"timeout"} ELSE {"timeout", "max_iterations", "error"}

\* Falling over from candidate i: emit model_fallback, or give up.
FallOver(i, e) ==
    /\ index' = i + 1
    /\ IF i < NCand
       THEN pc' = "fallback" /\ UNCHANGED status
       ELSE \E s \in GaveUpAs(e) : Over(s)
    /\ UNCHANGED <<attempt, requests>>

\* The head of the candidate loop; with a negative number of retries the
\* attempt loop is empty and every candidate is skipped unasked.
Select ==
    /\ pc = "select"
    /\ IF RetryAttempts < 0
       THEN FallOver(index, "none")
       ELSE /\ attempt' = 0 /\ requests' = requests + 1
            /\ pc' = "request"
            /\ UNCHANGED <<index, status>>
    /\ UNCHANGED <<iteration, tools, ext>>

\* A timeout, or a ProviderError with or without a retryable status code.
RequestFails(e, retryable) ==
    /\ pc = "request" /\ kill # "pending"
    /\ IF retryable /\ attempt < RetryAttempts
       THEN pc' = "retry" /\ UNCHANGED <<llm, status>>
       ELSE FallOver(index, e)
    /\ UNCHANGED <<iteration, tools, ext>>

\* Any other exception is caught neither by _call_llm nor where run() reads the
\* blocks of the response.
RequestCrashes ==
    /\ pc \in {"request", "blocks"} /\ kill # "pending"
    /\ Over("error")
    /\ UNCHANGED <<iteration, llm, tools, ext>>

EmitRetry ==
    /\ Go("retry", "backoff")
    /\ UNCHANGED <<iteration, llm, tools, ext, status>>

\* Mutant of Backoff: the attempt is not counted.
BackoffForgets ==
    /\ Go("backoff", "request")
    /\ requests' = requests + 1
    /\ UNCHANGED <<iteration, index, attempt, tools, ext, status>>

Backoff ==
    /\ Go("backoff", "request")
    /\ attempt' = attempt + 1 /\ requests' = requests + 1
    /\ UNCHANGED <<iteration, index, tools, ext, status>>

EmitFallback ==
    /\ Go("fallback", "select")
    /\ UNCHANGED <<iteration, llm, tools, ext, status>>

\* A response with n tool calls to execute; n = 0 also stands for tool_use
\* blocks under another stop_reason, which run() treats as final.
Respond(n) ==
    /\ Go("request", "blocks")
    /\ turn' = n
    /\ UNCHANGED <<iteration, llm, history, child, doom, outer, ext, status>>

-----------------------------------------------------------------------------
(* run(): after the response.                                              *)

\* The thinking and text blocks are emitted; no tool calls: the final answer.
Final ==
    /\ pc = "blocks" /\ kill # "pending" /\ turn = 0
    /\ Over("ok")
    /\ UNCHANGED <<iteration, llm, tools, ext>>

\* The assistant message is appended in the shape of the model that answered,
\* and gather() makes a task of every tool call.
StartTools ==
    /\ turn > 0 /\ Go("blocks", "gather")
    /\ history' = Append(history, [shape   |-> Shape[Candidates[index]],
                                   calls   |-> turn,
                                   results |-> <<>>])
    /\ child' = [i \in Calls |-> IF i <= turn THEN "new" ELSE "none"]
    /\ outer' = "pending"
    /\ UNCHANGED <<iteration, llm, turn, doom, ext, status>>

\* Mutant of GatherReturns: a run that goes on with the first result.
GatherFirst ==
    /\ pc = "gather" /\ outer = "pending" /\ kill \in {"none", "spent"}
    /\ \E i \in 1..turn :
          /\ child[i] = "done"
          /\ history' = [history EXCEPT ![Len(history)].results = <<i>>]
    /\ IF iteration >= MaxIterations
       THEN Over("max_iterations") /\ UNCHANGED iteration
       ELSE iteration' = iteration + 1 /\ pc' = "announce" /\ UNCHANGED status
    /\ UNCHANGED <<llm, turn, child, doom, outer, ext>>

\* All tool tasks returned: their results join the history, then the
\* iteration guard decides.
GatherReturns ==
    /\ pc = "gather" /\ outer = "pending" /\ kill \in {"none", "spent"}
    /\ \A i \in 1..turn : child[i] = "done"
    /\ history' = [history EXCEPT ![Len(history)].results = [i \in 1..turn |-> i]]
    /\ IF iteration >= MaxIterations
       THEN Over("max_iterations") /\ UNCHANGED iteration
       ELSE iteration' = iteration + 1 /\ pc' = "announce" /\ UNCHANGED status
    /\ UNCHANGED <<llm, turn, child, doom, outer, ext>>

\* Mutants of GatherRaises: every exception counts as a cancellation; only a
\* cancellation ends gather.
GatherRaisesAborted ==
    /\ pc = "gather"
    /\ \/ outer # "pending"
       \/ kill = "gather" /\ \A i \in 1..turn : child[i] = "done"
    /\ Over("aborted")
    /\ UNCHANGED <<iteration, llm, tools, ext>>

GatherRaisesCancelled ==
    /\ pc = "gather"
    /\ \/ outer = "cancelled"
       \/ kill = "gather" /\ \A i \in 1..turn : child[i] = "done"
    /\ Over("aborted")
    /\ UNCHANGED <<iteration, llm, tools, ext>>

\* The first tool task that raised ended gather; or the cancellation did.
GatherRaises ==
    /\ pc = "gather"
    /\ \/ outer # "pending"
       \/ kill = "gather" /\ \A i \in 1..turn : child[i] = "done"
    /\ Over(IF outer = "error" /\ kill # "pending" THEN "error" ELSE "aborted")
    /\ UNCHANGED <<iteration, llm, tools, ext>>

-----------------------------------------------------------------------------
(* _execute_tool_call, one task per tool call.  It may outlive run().      *)

Step(i, from, to) ==
    /\ i \notin doom /\ child[i] = from
    /\ child' = [child EXCEPT ![i] = to]
    /\ UNCHANGED <<pc, iteration, llm, turn, history, doom, ext, status>>

\* gather's future takes the first exception of a child.
Raise(e) == outer' = IF outer = "pending" THEN e ELSE outer

\* The tool_call event is sent; the policy then allows or denies the call.
ToolAllowed(i)  == Step(i, "new", "calling") /\ UNCHANGED outer
ToolDenied(i)   == Step(i, "new", "denied") /\ UNCHANGED outer
DenialSent(i)   == Step(i, "denied", "done") /\ UNCHANGED outer

\* call_tool answered, failed or timed out: each becomes a tool_result event.
ToolReturns(i)  == Step(i, "calling", "result") /\ UNCHANGED outer
ResultSent(i)   == Step(i, "result", "done") /\ UNCHANGED outer

ToolEmitFails(i) ==
    /\ gone
    /\ \E s \in Unfinished \ {"calling"} : Step(i, s, "failed")
    /\ Raise("error")

\* What a tool task does around the call is in no try: a name, a result or a
\* configured length of another type than expected raises.
ToolCrashes(i) ==
    /\ \E s \in Unfinished \ {"denied"} : Step(i, s, "failed")
    /\ Raise("error")

ToolCancelled(i) ==
    /\ i \in doom /\ child[i] \in Unfinished
    /\ child' = [child EXCEPT ![i] = "cancelled"]
    /\ doom' = doom \ {i}
    /\ Raise("cancelled")
    /\ UNCHANGED <<pc, iteration, llm, turn, history, ext, status>>

\* Python 3.11: the tool had answered when the cancellation came.
ToolLosesCancel(i) ==
    /\ LostCancel /\ i \in doom /\ child[i] = "calling"
    /\ child' = [child EXCEPT ![i] = "result"]
    /\ doom' = doom \ {i}
    /\ UNCHANGED <<pc, iteration, llm, turn, history, outer, ext, status>>

-----------------------------------------------------------------------------
RunStep ==
    \/ Aborted \/ EmitFails \/ EmitLlmCall \/ Select \/ RequestCrashes
    \/ \E e \in {"timeout", "error"}, retryable \in BOOLEAN :
          (e = "timeout" => retryable) /\ RequestFails(e, retryable)
    \/ EmitRetry \/ Backoff \/ EmitFallback
    \/ \E n \in 0..MaxCalls : Respond(n)
    \/ Final \/ StartTools \/ GatherReturns \/ GatherRaises

ToolStep(i) ==
    \/ ToolAllowed(i) \/ ToolDenied(i) \/ DenialSent(i) \/ ToolReturns(i)
    \/ ResultSent(i) \/ ToolEmitFails(i) \/ ToolCrashes(i) \/ ToolCancelled(i)

Next == \/ RunStep \/ ClientLeaves \/ Cancel \/ LoseCancel
        \/ \E i \in Calls : ToolStep(i) \/ ToolLosesCancel(i)

Spec == Init /\ [][Next]_vars

\* LLM and tool calls have timeouts and sleeps end, so every await returns.
FairSpec == Spec /\ WF_vars(RunStep) /\ \A i \in Calls : WF_vars(ToolStep(i))

-----------------------------------------------------------------------------
(* Properties                                                              *)

Larger(a, b) == IF a > b THEN a ELSE b
AttemptsPerModel == Larger(RetryAttempts + 1, 0)

\* The LLM bill of a run is bounded whatever fails and in whatever order:
\* retries restart per candidate, candidates never come back, iterations are
\* bounded, so at most one round of attempts per iteration and per fallback.
RequestBudget == requests <= (iteration + index - 1) * AttemptsPerModel

\* max_agent_iterations bounds the iterations, except that the guard comes
\* after the tools (agent_runner.py:466), so a run has at least one iteration.
IterationBound == iteration <= Larger(MaxIterations, 1)

\* Whenever the LLM is asked, every tool call of every earlier turn has exactly
\* one result and the results are in the order of the calls, whatever the
\* order in which the concurrent tasks finished, failed or were denied.
RequestsSeeAllResults ==
    pc = "request" =>
        /\ \A t \in 1..Len(history) :
              history[t].results = [i \in 1..history[t].calls |-> i]
        /\ \A i \in Calls : child[i] \in {"none", "done"}

\* Tool tasks survive their run only if one of them raised or if, on Python
\* 3.11, one lost the cancellation that a sibling took; a run that ends ok, at its
\* iteration limit, given up by every model or crashed in its own code leaves none
\* at work, nor does one whose cancellation reached all its tasks.
AtWork == {i \in Calls \ doom : child[i] \in Unfinished}
OrphansOnlyAfterFailedTask ==
    (pc = "over" /\ AtWork # {}) =>
        /\ status \in {"error", "aborted"}
        /\ \E i \in Calls : child[i] = "failed" \/ (LostCancel /\ child[i] = "cancelled")
        /\ status = "error" => \E i \in Calls : child[i] = "failed"

\* The recorded status tells how the run ended: "aborted" only for a cancelled
\* run, "ok" only for a final answer, "timeout" only after the last model failed,
\* "max_iterations" only then or at the limit with all tools done (the text of
\* the error decides, and that of the last model's failure may say either).
StatusTruthful ==
    /\ status = "aborted" => gone /\ kill \in {"pending", "gather"}
    /\ status = "ok" => turn = 0 /\ \A i \in Calls : child[i] \in {"none", "done"}
    /\ status = "timeout" => index > NCand
    /\ status = "max_iterations" =>
          \/ index > NCand
          \/ iteration = Larger(MaxIterations, 1) /\ history[Len(history)].results # <<>>

\* A model that was given up is never asked again in this run ("no flapping
\* back to a model that already failed", agent_runner.py:95-98), and the
\* shape a turn is recorded in never changes.
NoFlapping ==
    [][/\ index' >= index
       /\ \A t \in 1..Len(history) : history'[t].shape = history[t].shape]_vars

\* From the moment a cancellation is requested until it is delivered or lost,
\* the run asks no LLM, and its tool tasks start no call.
NoWorkWhileCancelled ==
    [][(kill \in {"pending", "gather"}) =>
         /\ requests' = requests
         /\ \A i \in doom : child'[i] = "calling" => child[i] = "calling"]_vars

\* Every run ends, whoever disconnects and whatever fails.
RunEnds == <>(pc = "over")


\* ollama.py:133-134: the runner builds the history "in OpenAI-compat format"
\* for every provider that reads that format.
HistoryFitsProvider ==
    pc = "request" =>
        \A t \in 1..Len(history) : history[t].shape = Shape[Candidates[index]]
=============================================================================
