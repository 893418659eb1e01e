------------------------- MODULE AgentRunnerProofs -------------------------
(***************************************************************************)
(* Proofs about AgentRunner, for every list of candidates, every retry and *)
(* iteration limit and every number of tool calls.                         *)
(*                                                                         *)
(* The invariants are layered: Frame (types and where the run may be) is   *)
(* inductive by itself, and Ledger (what the LLM was asked so far), Answers*)
(* (what the history holds) and Ends (how cancellation travels) each are,  *)
(* given Frame.                                                            *)
(***************************************************************************)
EXTENDS AgentRunner, FiniteSetTheorems, TLAPS

-----------------------------------------------------------------------------
(* Types, and the control points at which the data has its shape.          *)

Frame ==
    /\ TypeOK
    /\ iteration >= 1
    /\ pc # "over" => index <= NCand
    /\ pc = "gather" => turn > 0 /\ history # <<>>
    /\ kill = "gather" => pc \in {"gather", "over"}
    /\ kill = "pending" => pc \in Awaiting \cup {"gather", "over"}

\* The length of the candidate list is a positive number.
LEMMA SomeCandidate == NCand \in Nat /\ NCand > 0 /\ MaxCalls \in Nat
BY RunnerAssumption DEF RunnerAssumption, NCand

\* What the history holds: the turns of the run.
Turn == [shape : {"anthropic", "openai"}, calls : Calls, results : Seq(Calls)]

\* A new turn is the last of the history and leaves the others alone.
LEMMA AppendTurn ==
    ASSUME NEW h \in Seq(Turn), NEW t \in Turn
    PROVE  /\ Append(h, t) \in Seq(Turn)
           /\ Len(Append(h, t)) = Len(h) + 1
           /\ Append(h, t) # <<>>
           /\ Append(h, t)[Len(h) + 1] = t
           /\ \A i \in 1..Len(h) : Append(h, t)[i] = h[i]
OBVIOUS

\* The results are filled into the last turn and into no other.
LEMMA FillTurn ==
    ASSUME NEW h \in Seq(Turn), h # <<>>, NEW r \in Seq(Calls)
    PROVE  LET g == [h EXCEPT ![Len(h)].results = r]
           IN  /\ g \in Seq(Turn) /\ Len(g) = Len(h) /\ g # <<>>
               /\ g[Len(h)].results = r
               /\ g[Len(h)].calls = h[Len(h)].calls
               /\ g[Len(h)].shape = h[Len(h)].shape
               /\ \A i \in 1..(Len(h) - 1) : g[i] = h[i]
<1> DEFINE n == Len(h)
           g == [h EXCEPT ![n].results = r]
<1>1. n \in 1..n /\ h[n] \in Turn
  OBVIOUS
<1>2. [h[n] EXCEPT !.results = r] \in Turn
  BY <1>1 DEF Turn
<1>3. g = [h EXCEPT ![n] = [h[n] EXCEPT !.results = r]]
  OBVIOUS
<1>4. g \in [1..n -> Turn]
  BY <1>1, <1>2, <1>3
<1>5. g \in Seq(Turn) /\ Len(g) = n
  BY <1>4
<1>6. g[n] = [h[n] EXCEPT !.results = r]
  BY <1>1, <1>3
<1> QED BY <1>1, <1>2, <1>3, <1>5, <1>6 DEF Turn

\* Frame holds in every reachable state.
LEMMA FrameInvariant == Spec => []Frame
<1>1. ASSUME Init PROVE Frame
  <2>1. history \in Seq([shape : {"anthropic", "openai"}, calls : Calls,
                         results : Seq(Calls)])
    <3>1. history = <<>>
      BY <1>1 DEF Init
    <3> QED BY <3>1
  <2>2. /\ child \in [Calls -> Unfinished \cup {"none", "done", "failed", "cancelled"}]
        /\ doom \subseteq Calls
    BY <1>1 DEF Init
  <2>3. TypeOK
    <3>1. /\ pc = "announce" /\ iteration = 1 /\ index = 1 /\ attempt = 0
          /\ requests = 0 /\ turn = 0 /\ outer = "pending" /\ kill = "none"
          /\ gone = FALSE /\ status = "running"
      BY <1>1 DEF Init
    <3>2. index \in 1..(NCand + 1) /\ turn \in 0..MaxCalls
      BY <3>1, SomeCandidate
    <3> QED BY <2>1, <2>2, <3>1, <3>2 DEF TypeOK, Awaiting, Emitting
  <2> QED BY <1>1, <2>3, SomeCandidate DEF Init, Frame
<1>2. ASSUME Frame, [Next]_vars PROVE Frame'
  <2> USE <1>2 DEF Frame
  <2>1. CASE RunStep
    <3>1. CASE Aborted \/ EmitFails \/ RequestCrashes
      BY <3>1 DEF Aborted, EmitFails, RequestCrashes, Over, TypeOK, llm, tools, ext,
                  Awaiting, Emitting
    <3>2. CASE EmitLlmCall \/ EmitRetry \/ EmitFallback \/ Final
      BY <3>2 DEF EmitLlmCall, EmitRetry, EmitFallback, Final, Go, Over, TypeOK, llm,
                  tools, ext, Awaiting
    <3>3. CASE Select
      BY <3>3, SomeCandidate, RunnerAssumption
         DEF Select, FallOver, GaveUpAs, Over, TypeOK, tools, ext, Awaiting, RunnerAssumption
    <3>4. ASSUME NEW e \in {"timeout", "error"}, NEW r \in BOOLEAN, RequestFails(e, r)
          PROVE  Frame'
      BY <3>4, SomeCandidate
         DEF RequestFails, FallOver, GaveUpAs, Over, TypeOK, llm, tools, ext, Awaiting
    <3>5. CASE Backoff
      BY <3>5 DEF Backoff, Go, TypeOK, tools, ext, Awaiting
    <3>6. ASSUME NEW n \in 0..MaxCalls, Respond(n) PROVE Frame'
      BY <3>6 DEF Respond, Go, TypeOK, llm, ext, Awaiting
    <3>7. CASE StartTools
      <4>1. /\ index \in 1..NCand /\ Candidates[index] \in DOMAIN Shape
            /\ Shape[Candidates[index]] \in {"anthropic", "openai"}
        BY <3>7, SomeCandidate, RunnerAssumption
           DEF StartTools, Go, TypeOK, RunnerAssumption, NCand
      <4>2. turn \in Calls
        BY <3>7, RunnerAssumption DEF StartTools, TypeOK, Calls, RunnerAssumption
      <4>3. [shape |-> Shape[Candidates[index]], calls |-> turn, results |-> <<>>]
              \in [shape : {"anthropic", "openai"}, calls : Calls, results : Seq(Calls)]
        BY <4>1, <4>2
      <4>4. /\ history' \in Seq([shape : {"anthropic", "openai"},
                                 calls : Calls, results : Seq(Calls)])
            /\ history' # <<>>
        <5>1. history' = Append(history, [shape |-> Shape[Candidates[index]],
                                          calls |-> turn, results |-> <<>>])
          BY <3>7 DEF StartTools
        <5>2. history \in Seq(Turn)
          BY DEF TypeOK, Turn
        <5> QED BY <4>3, <5>1, <5>2, AppendTurn DEF Turn
      <4>5. child' \in [Calls -> Unfinished \cup {"none", "done", "failed", "cancelled"}]
        BY <3>7 DEF StartTools, Unfinished
      <4> QED BY <3>7, <4>4, <4>5 DEF StartTools, Go, TypeOK, llm, ext, Awaiting
    <3>8. CASE GatherReturns
      <4>2. [i \in 1..turn |-> i] \in Seq(Calls)
        BY RunnerAssumption DEF TypeOK, Calls, RunnerAssumption
      <4>3. history' \in Seq([shape : {"anthropic", "openai"},
                              calls : Calls, results : Seq(Calls)])
        <5>1. history' = [history EXCEPT ![Len(history)].results = [i \in 1..turn |-> i]]
          BY <3>8 DEF GatherReturns
        <5>2. history \in Seq(Turn) /\ history # <<>>
          BY <3>8 DEF TypeOK, Turn, GatherReturns
        <5> QED BY <4>2, <5>1, <5>2, FillTurn DEF Turn
      <4> QED BY <3>8, <4>3 DEF GatherReturns, Over, TypeOK, llm, ext, Awaiting
    <3>9. CASE GatherRaises
      BY <3>9 DEF GatherRaises, Over, TypeOK, llm, tools, ext, Awaiting
    <3> QED BY <2>1, <3>1, <3>2, <3>3, <3>4, <3>5, <3>6, <3>7, <3>8, <3>9 DEF RunStep
  <2>2. CASE ClientLeaves \/ Cancel \/ LoseCancel
    <3>1. CASE ClientLeaves
      BY <3>1 DEF ClientLeaves, TypeOK, llm, tools
    <3>2. CASE Cancel
      <4>1. /\ UNCHANGED <<pc, iteration, llm, turn, history, child, outer, gone, status>>
            /\ doom' \subseteq Calls /\ kill' \in {"pending", "gather"}
            /\ pc \in Awaiting \cup {"gather"} /\ (kill' = "gather" => pc = "gather")
        <5>1. doom \subseteq Calls
          BY DEF TypeOK
        <5>2. CASE kill' = "gather" /\ doom' = {i \in Calls : child[i] \in Unfinished}
          BY ONLY <3>2, <5>2 DEF Cancel
        <5>3. CASE kill' = "pending" /\ doom' = doom
          BY ONLY <3>2, <5>1, <5>3 DEF Cancel
        <5> QED BY ONLY <3>2, <5>2, <5>3 DEF Cancel
      <4> QED BY <4>1 DEF TypeOK, llm
    <3>3. CASE LoseCancel
      BY <3>3 DEF LoseCancel, TypeOK, llm, tools
    <3> QED BY <2>2, <3>1, <3>2, <3>3
  <2>3. ASSUME NEW i \in Calls, ToolStep(i) \/ ToolLosesCancel(i) PROVE Frame'
    <3>0. outer \in {"pending", "error", "cancelled"}
      BY DEF TypeOK
    <3>1. /\ UNCHANGED <<pc, iteration, llm, turn, history, ext, status>>
          /\ doom' \subseteq doom
          /\ outer' \in {"pending", "error", "cancelled"}
          /\ \E s \in Unfinished \cup {"done", "failed", "cancelled"} :
                child' = [child EXCEPT ![i] = s]
      <4> HIDE DEF TypeOK, Frame
      <4>1. CASE ToolAllowed(i) \/ ToolDenied(i) \/ DenialSent(i) \/ ToolReturns(i)
                 \/ ResultSent(i)
        BY <3>0, <4>1 DEF ToolAllowed, ToolDenied, DenialSent, ToolReturns, ResultSent,
                          Step, Unfinished
      <4>2. CASE ToolEmitFails(i) \/ ToolCrashes(i)
        BY <3>0, <4>2 DEF ToolEmitFails, ToolCrashes, Step, Raise
      <4>3. CASE ToolCancelled(i) \/ ToolLosesCancel(i)
        BY <3>0, <4>3 DEF ToolCancelled, ToolLosesCancel, Raise, Unfinished
      <4> QED BY <2>3, <4>1, <4>2, <4>3 DEF ToolStep
    <3> QED BY <3>1 DEF TypeOK, llm, ext
  <2>4. CASE UNCHANGED vars
    BY <2>4 DEF vars, llm, tools, ext, TypeOK
  <2> QED BY <1>2, <2>1, <2>2, <2>3, <2>4 DEF Next
<1> QED BY <1>1, <1>2, PTL DEF Spec

\* The variables keep their types whatever the limits, negative ones included;
\* in particular candidate_index never runs past the end of the list.
THEOREM RunTypeCorrect == Spec => []TypeOK
BY FrameInvariant, PTL DEF Frame

-----------------------------------------------------------------------------
(* The bill: how many LLM requests were sent so far.                       *)

\* Rounds of attempts that are over; the one in progress is counted apart.
Paid == (iteration + index - 2) * AttemptsPerModel

Ledger ==
    /\ RequestBudget
    /\ pc \in {"announce", "select", "fallback"} => requests <= Paid
    /\ pc \in {"request", "retry", "backoff"} =>
          /\ attempt <= RetryAttempts
          /\ pc # "request" => attempt < RetryAttempts
          /\ requests <= Paid + attempt + 1
    /\ iteration <= Larger(MaxIterations, 1)

\* One more round costs AttemptsPerModel more.
LEMMA OneMoreRound ==
    /\ AttemptsPerModel \in Nat
    /\ RetryAttempts \in Int
    /\ RetryAttempts >= 0 => AttemptsPerModel = RetryAttempts + 1
    /\ RetryAttempts < 0 => AttemptsPerModel = 0
    /\ \A n \in Int : /\ n * AttemptsPerModel \in Int
                      /\ (n + 1) * AttemptsPerModel = n * AttemptsPerModel + AttemptsPerModel
BY RunnerAssumption DEF AttemptsPerModel, Larger, RunnerAssumption

\* The bill of the next round, of the next candidate or the next iteration.
LEMMA PaidNext ==
    ASSUME Frame
    PROVE  /\ Paid \in Int
           /\ (iteration + index - 1) * AttemptsPerModel = Paid + AttemptsPerModel
           /\ (iteration + (index + 1) - 2) * AttemptsPerModel = Paid + AttemptsPerModel
           /\ (iteration + 1 + index - 2) * AttemptsPerModel = Paid + AttemptsPerModel
           /\ (iteration + (index + 1) - 1) * AttemptsPerModel
                = Paid + AttemptsPerModel + AttemptsPerModel
<1> DEFINE n == iteration + index - 2
<1>1. n \in Int /\ iteration \in Int /\ index \in Int
  BY SomeCandidate DEF Frame, TypeOK
<1>2. /\ iteration + index - 1 = n + 1
      /\ iteration + (index + 1) - 2 = n + 1
      /\ iteration + 1 + index - 2 = n + 1
      /\ iteration + (index + 1) - 1 = (n + 1) + 1
  BY <1>1
<1>3. /\ n * AttemptsPerModel \in Int
      /\ (n + 1) * AttemptsPerModel = n * AttemptsPerModel + AttemptsPerModel
      /\ ((n + 1) + 1) * AttemptsPerModel = (n + 1) * AttemptsPerModel + AttemptsPerModel
  BY <1>1, OneMoreRound
<1> QED BY <1>2, <1>3 DEF Paid

\* Ledger holds in every reachable state.
LEMMA LedgerInvariant == Spec => []Ledger
<1>1. Init => Ledger
  BY RunnerAssumption, OneMoreRound
     DEF Init, Ledger, RequestBudget, Paid, Larger, RunnerAssumption
<1>2. ASSUME Frame, Ledger, [Next]_vars PROVE Ledger'
  <2> DEFINE A == AttemptsPerModel
  <2>1. /\ Paid \in Int /\ A \in Nat /\ RetryAttempts \in Int /\ MaxIterations \in Int
        /\ (iteration + index - 1) * A = Paid + A
        /\ (iteration + (index + 1) - 2) * A = Paid + A
        /\ (iteration + 1 + index - 2) * A = Paid + A
        /\ (iteration + (index + 1) - 1) * A = Paid + A + A
        /\ RetryAttempts >= 0 => A = RetryAttempts + 1
        /\ RetryAttempts < 0 => A = 0
    BY <1>2, PaidNext, OneMoreRound, RunnerAssumption DEF RunnerAssumption
  <2>2. /\ iteration \in Nat /\ index \in Nat /\ attempt \in Nat /\ requests \in Nat
    BY <1>2, SomeCandidate DEF Frame, TypeOK
  <2>3. ASSUME iteration' = iteration, index' = index
        PROVE  Paid' = Paid /\ (RequestBudget' <=> requests' <= Paid + A)
    BY <2>1, <2>3 DEF Paid, RequestBudget
  <2>4. ASSUME iteration' = iteration, index' = index + 1
        PROVE  Paid' = Paid + A /\ (RequestBudget' <=> requests' <= Paid + A + A)
    BY <2>1, <2>4 DEF Paid, RequestBudget
  <2>5. RequestBudget <=> requests <= Paid + A
    BY <2>1 DEF RequestBudget
  <2> HIDE DEF A
  <2>6. CASE Aborted \/ EmitFails \/ RequestCrashes \/ Final \/ GatherRaises \/ StartTools
    BY <1>2, <2>1, <2>2, <2>3, <2>5, <2>6
       DEF Aborted, EmitFails, RequestCrashes, Final, GatherRaises, StartTools, Go, Over,
           llm, tools, ext, Ledger
  <2>7. CASE EmitLlmCall \/ EmitFallback \/ EmitRetry \/ (\E n \in 0..MaxCalls : Respond(n))
    BY <1>2, <2>1, <2>2, <2>3, <2>5, <2>7
       DEF EmitLlmCall, EmitFallback, EmitRetry, Respond, Go, llm, tools, ext, Ledger
  <2>8. CASE Select
    BY <1>2, <2>1, <2>2, <2>3, <2>4, <2>5, <2>8
       DEF Select, FallOver, GaveUpAs, Over, tools, ext, Ledger
  <2>9. ASSUME NEW e \in {"timeout", "error"}, NEW r \in BOOLEAN, RequestFails(e, r)
        PROVE  Ledger'
    BY <1>2, <2>1, <2>2, <2>3, <2>4, <2>5, <2>9
       DEF RequestFails, FallOver, GaveUpAs, Over, llm, tools, ext, Ledger
  <2>10. CASE Backoff
    BY <1>2, <2>1, <2>2, <2>3, <2>5, <2>10 DEF Backoff, Go, tools, ext, Ledger
  <2>11. CASE GatherReturns
    <3>1. requests' = requests /\ index' = index
      BY <2>11 DEF GatherReturns, llm
    <3>2. CASE iteration >= MaxIterations
      BY <1>2, <2>1, <2>2, <2>3, <2>5, <2>11, <3>1, <3>2
         DEF GatherReturns, Over, llm, Ledger
    <3>3. CASE ~(iteration >= MaxIterations)
      <4>1. iteration' = iteration + 1 /\ pc' = "announce"
        BY <2>11, <3>3 DEF GatherReturns
      <4>2. Paid' = Paid + A /\ (RequestBudget' <=> requests <= Paid + A + A)
        <5>1. (iteration + 1 + index - 1) * A = Paid + A + A
          BY <2>1, <2>2
        <5> QED BY <2>1, <3>1, <4>1, <5>1 DEF Paid, RequestBudget, A
      <4>3. iteration' <= Larger(MaxIterations, 1)
        BY <2>1, <2>2, <3>3, <4>1 DEF Larger
      <4> QED BY <1>2, <2>1, <2>2, <2>5, <3>1, <4>1, <4>2, <4>3 DEF Ledger
    <3> QED BY <3>2, <3>3
  <2>12. ASSUME UNCHANGED <<pc, iteration, llm>> PROVE Ledger'
    BY <1>2, <2>12 DEF llm, Ledger, RequestBudget, Paid
  <2>13. CASE ClientLeaves \/ Cancel \/ LoseCancel
    BY <2>12, <2>13 DEF ClientLeaves, Cancel, LoseCancel
  <2>14. ASSUME NEW i \in Calls, ToolStep(i) \/ ToolLosesCancel(i) PROVE Ledger'
    BY <2>12, <2>14 DEF ToolStep, ToolLosesCancel, ToolAllowed, ToolDenied, DenialSent,
                        ToolReturns, ResultSent, ToolEmitFails, ToolCrashes, ToolCancelled, Step
  <2> QED BY <1>2, <2>6, <2>7, <2>8, <2>9, <2>10, <2>11, <2>12, <2>13, <2>14
          DEF Next, RunStep, vars
<1> QED BY <1>1, <1>2, FrameInvariant, PTL DEF Spec

\* A run never asks the LLM more often than one round of attempts per iteration
\* and per candidate given up, for every retry limit, negative ones included.
THEOREM RequestsBounded == Spec => []RequestBudget
BY LedgerInvariant, PTL DEF Ledger

\* A run never starts an iteration past its limit, except its first one.
THEOREM IterationsBounded == Spec => []IterationBound
<1>1. Ledger => IterationBound
  BY DEF Ledger, IterationBound
<1> QED BY <1>1, LedgerInvariant, PTL

-----------------------------------------------------------------------------
(* The history: every tool call has its result when the LLM is asked.      *)

Complete(h) == \A t \in 1..Len(h) : h[t].results = [i \in 1..h[t].calls |-> i]

Answers ==
    /\ pc \notin {"gather", "over"} =>
          Complete(history) /\ \A i \in Calls : child[i] \in {"none", "done"}
    /\ pc = "gather" =>
          /\ \A t \in 1..(Len(history) - 1) :
                history[t].results = [i \in 1..history[t].calls |-> i]
          /\ history[Len(history)].calls = turn
          /\ \A i \in Calls : i > turn => child[i] = "none"

\* Answers holds in every reachable state.
LEMMA AnswersInvariant == Spec => []Answers
<1>1. Init => Answers
  <2> SUFFICES ASSUME Init PROVE Answers
    OBVIOUS
  <2>1. pc = "announce" /\ \A i \in Calls : child[i] = "none"
    BY DEF Init
  <2>2. Complete(history)
    <3>1. history = <<>>
      BY DEF Init
    <3> QED BY <3>1 DEF Complete
  <2> QED BY <2>1, <2>2 DEF Answers
<1>2. ASSUME Frame, Answers, [Next]_vars PROVE Answers'
  <2>1. ASSUME UNCHANGED <<turn, history, child>>,
               \/ pc' = "over"
               \/ pc' = pc
               \/ {pc, pc'} \cap {"gather", "over"} = {}
        PROVE  Answers'
    BY <1>2, <2>1 DEF Answers, Complete
  <2>2. CASE Aborted \/ EmitFails \/ RequestCrashes \/ EmitLlmCall \/ EmitRetry
             \/ EmitFallback \/ Final \/ GatherRaises
    BY <2>1, <2>2 DEF Aborted, EmitFails, RequestCrashes, EmitLlmCall, EmitRetry,
                      EmitFallback, Final, GatherRaises, Go, Over, tools
  <2>3. CASE Select \/ Backoff
    BY <2>1, <2>3 DEF Select, Backoff, FallOver, GaveUpAs, Go, Over, tools
  <2>4. ASSUME NEW e \in {"timeout", "error"}, NEW r \in BOOLEAN, RequestFails(e, r)
        PROVE  Answers'
    BY <2>1, <2>4 DEF RequestFails, FallOver, GaveUpAs, Over, tools
  <2>5. ASSUME NEW n \in 0..MaxCalls, Respond(n) PROVE Answers'
    BY <1>2, <2>5 DEF Respond, Go, Answers, Complete
  <2>6. CASE StartTools
    <3> DEFINE t == [shape |-> Shape[Candidates[index]], calls |-> turn, results |-> <<>>]
    <3>1. history \in Seq(Turn) /\ t \in Turn
      <4>1. index \in 1..NCand /\ turn \in Calls
        BY <1>2, <2>6, SomeCandidate DEF StartTools, Go, Frame, TypeOK, Calls
      <4>2. Shape[Candidates[index]] \in {"anthropic", "openai"}
        BY <4>1, RunnerAssumption DEF RunnerAssumption, NCand
      <4> QED BY <1>2, <4>1, <4>2 DEF Frame, TypeOK, Turn
    <3>2. history' = Append(history, t)
      BY <2>6 DEF StartTools
    <3>3. /\ Len(history') = Len(history) + 1 /\ Len(history) \in Nat
          /\ history'[Len(history) + 1] = t
          /\ \A i \in 1..Len(history) : history'[i] = history[i]
      BY <3>1, <3>2, AppendTurn
    <3>4. Complete(history) /\ pc' = "gather" /\ turn' = turn
      BY <1>2, <2>6 DEF StartTools, Go, Answers
    <3>5. \A i \in Calls : i > turn => child'[i] = "none"
      BY <1>2, <2>6 DEF StartTools, Calls, Frame, TypeOK
    <3> QED BY <3>3, <3>4, <3>5 DEF Answers, Complete
  <2>7. CASE GatherReturns
    <3>1. /\ pc = "gather" /\ pc' \in {"announce", "over"}
          /\ history' = [history EXCEPT ![Len(history)].results = [i \in 1..turn |-> i]]
          /\ child' = child
          /\ \A i \in 1..turn : child[i] = "done"
      BY <2>7 DEF GatherReturns, Over
    <3>2. history \in Seq(Turn) /\ history # <<>> /\ turn \in 1..MaxCalls
      BY <1>2, <3>1 DEF Frame, TypeOK, Turn
    <3>3. [i \in 1..turn |-> i] \in Seq(Calls)
      BY <3>2, RunnerAssumption DEF Calls, RunnerAssumption
    <3>4. /\ Len(history') = Len(history) /\ Len(history) \in Nat
          /\ history'[Len(history)].results = [i \in 1..turn |-> i]
          /\ history'[Len(history)].calls = history[Len(history)].calls
          /\ \A i \in 1..(Len(history) - 1) : history'[i] = history[i]
      BY <3>1, <3>2, <3>3, FillTurn
    <3>5. Complete(history')
      <4> SUFFICES ASSUME NEW t \in 1..Len(history)
                   PROVE  history'[t].results = [i \in 1..history'[t].calls |-> i]
        BY <3>4 DEF Complete
      <4>1. CASE t = Len(history)
        BY <1>2, <3>1, <3>4, <4>1 DEF Answers
      <4>2. CASE t \in 1..(Len(history) - 1)
        BY <1>2, <3>1, <3>4, <4>2 DEF Answers
      <4> QED BY <3>4, <4>1, <4>2
    <3>6. \A i \in Calls : child'[i] \in {"none", "done"}
      BY <1>2, <3>1, <3>2 DEF Answers, Calls
    <3> QED BY <3>1, <3>5, <3>6 DEF Answers, Complete
  <2>8. CASE ClientLeaves \/ Cancel \/ LoseCancel
    BY <2>1, <2>8 DEF ClientLeaves, Cancel, LoseCancel, tools
  <2>9. ASSUME NEW i \in Calls, ToolStep(i) \/ ToolLosesCancel(i) PROVE Answers'
    <3>1. /\ UNCHANGED <<pc, turn, history>>
          /\ child[i] \in Unfinished
          /\ \E s : child' = [child EXCEPT ![i] = s]
      BY <2>9 DEF ToolStep, ToolLosesCancel, ToolAllowed, ToolDenied, DenialSent,
                  ToolReturns, ResultSent, ToolEmitFails, ToolCrashes, ToolCancelled, Step, Unfinished
    <3> QED BY <1>2, <3>1 DEF Answers, Complete, Unfinished, Frame, TypeOK
  <2>10. CASE UNCHANGED vars
    BY <2>1, <2>10 DEF vars, tools
  <2> QED BY <1>2, <2>2, <2>3, <2>4, <2>5, <2>6, <2>7, <2>8, <2>9, <2>10 DEF Next, RunStep
<1> QED BY <1>1, <1>2, FrameInvariant, PTL DEF Spec

\* Whenever the LLM is asked, every tool call of every earlier turn has exactly
\* its own result, in order, for any number of concurrent tools.
THEOREM HistoryComplete == Spec => []RequestsSeeAllResults
<1>1. Answers => RequestsSeeAllResults
  BY DEF Answers, Complete, RequestsSeeAllResults
<1> QED BY <1>1, AnswersInvariant, PTL

-----------------------------------------------------------------------------
(* How a run ends: the cancellation, the failed sends, the status.         *)

\* Tool tasks outlive the run only if one of them failed or was cancelled, and an
\* errored run only if one failed.
Survivors ==
    (pc = "over" /\ \E i \in Calls : child[i] \in Unfinished) =>
        /\ status \in {"error", "aborted"}
        /\ \E i \in Calls : child[i] \in {"failed", "cancelled"}
        /\ status = "error" => \E i \in Calls : child[i] = "failed"

Ends ==
    /\ pc # "over" => status = "running"
    /\ (\E i \in Calls : child[i] = "cancelled") => kill = "gather"
    /\ kill # "none" => gone
    /\ doom # {} => kill = "gather"
    /\ outer = "cancelled" => kill = "gather" /\ \E i \in Calls : child[i] = "cancelled"
    /\ outer = "error" => \E i \in Calls : child[i] = "failed"
    /\ kill = "gather" /\ ~LostCancel => AtWork = {}
    /\ Survivors
    /\ StatusTruthful

\* Ends holds in every reachable state.
LEMMA EndsInvariant == Spec => []Ends
<1>1. Init => Ends
  BY DEF Init, Ends, AtWork, Unfinished, Survivors, StatusTruthful, Calls
<1>2. ASSUME Frame, Ledger, Answers, Frame', Ledger', Ends, [Next]_vars PROVE Ends'
  <2>1. ASSUME UNCHANGED <<tools, ext>>, pc # "over",
               \/ pc' # "over" /\ UNCHANGED status
               \/ Over("error") /\ pc \notin {"gather", "over"}
               \/ /\ Over("timeout") \/ Over("max_iterations")
                  /\ index' > NCand /\ pc \notin {"gather", "over"}
               \/ Over("aborted") /\ kill = "pending" /\ pc \notin {"gather", "over"}
               \/ Over("ok") /\ turn = 0 /\ pc \notin {"gather", "over"}
        PROVE  Ends'
    BY <1>2, <2>1 DEF Over, Ends, Answers, AtWork, Unfinished, Survivors,
                      StatusTruthful, tools, ext
  <2>2. CASE Aborted \/ EmitFails \/ RequestCrashes \/ Final
    BY <2>1, <2>2 DEF Aborted, EmitFails, RequestCrashes, Final, Awaiting, Emitting
  <2>a. CASE EmitLlmCall \/ EmitRetry \/ EmitFallback \/ Backoff
    BY <2>1, <2>a DEF EmitLlmCall, EmitRetry, EmitFallback, Backoff, Go
  <2>b. ASSUME NEW e, FallOver(index, e), pc \in {"select", "request"}, UNCHANGED <<tools, ext>>
        PROVE  Ends'
    <3>1. /\ index' = index + 1 /\ index \in Int /\ NCand \in Int
          /\ \/ pc' = "fallback" /\ UNCHANGED status
             \/ /\ Over("timeout") \/ Over("max_iterations") \/ Over("error")
                /\ ~(index < NCand)
      BY <1>2, <2>b, SomeCandidate DEF FallOver, GaveUpAs, Frame, TypeOK
    <3> QED BY <2>1, <2>b, <3>1
  <2>3. CASE Select
    BY <2>1, <2>b, <2>3 DEF Select
  <2>4. ASSUME NEW e \in {"timeout", "error"}, NEW r \in BOOLEAN, RequestFails(e, r)
        PROVE  Ends'
    BY <2>1, <2>b, <2>4 DEF RequestFails
  <2>5. ASSUME NEW n \in 0..MaxCalls, Respond(n) PROVE Ends'
    BY <1>2, <2>5 DEF Respond, Go, Ends, AtWork, Unfinished, Survivors,
                      StatusTruthful, ext
  <2>6. CASE StartTools
    <3>1. kill # "gather" /\ doom = {}
      BY <1>2, <2>6 DEF StartTools, Go, Frame, Ends
    <3> QED BY <1>2, <2>6, <3>1
            DEF StartTools, Go, Ends, Survivors, StatusTruthful, ext
  <2>7. CASE GatherReturns
    <3>1. /\ pc = "gather" /\ kill \in {"none", "spent"} /\ outer = "pending"
          /\ UNCHANGED <<child, doom, outer, turn, ext>>
          /\ \A i \in 1..turn : child[i] = "done"
          /\ \/ iteration >= MaxIterations /\ Over("max_iterations") /\ iteration' = iteration
             \/ pc' = "announce" /\ UNCHANGED status
      BY <2>7 DEF GatherReturns
    <3>2. \A i \in Calls : child[i] \in {"none", "done"}
      BY <1>2, <3>1 DEF Answers, Calls, Frame, TypeOK
    <3>3. AtWork' = {} /\ AtWork = {}
      BY <3>1, <3>2 DEF AtWork, Unfinished
    <3>4. history'[Len(history')].results # <<>>
      <4>1. history \in Seq(Turn) /\ history # <<>> /\ turn \in 1..MaxCalls
        BY <1>2, <3>1 DEF Frame, TypeOK, Turn
      <4>2. [i \in 1..turn |-> i] \in Seq(Calls) /\ Len([i \in 1..turn |-> i]) = turn
        BY <4>1, RunnerAssumption DEF Calls, RunnerAssumption
      <4>3. history' = [history EXCEPT ![Len(history)].results = [i \in 1..turn |-> i]]
        BY <2>7 DEF GatherReturns
      <4>4. /\ Len(history') = Len(history)
            /\ history'[Len(history)].results = [i \in 1..turn |-> i]
        BY <4>1, <4>2, <4>3, FillTurn
      <4>5. [i \in 1..turn |-> i] # <<>>
        BY <4>1, <4>2
      <4> QED BY <4>4, <4>5
    <3>5. iteration >= MaxIterations => iteration = Larger(MaxIterations, 1)
      BY <1>2, RunnerAssumption DEF Ledger, Frame, TypeOK, Larger, RunnerAssumption
    <3>6. Survivors'
      BY <3>1, <3>2 DEF Survivors, Unfinished
    <3>7. StatusTruthful'
      BY <1>2, <3>1, <3>2, <3>4, <3>5 DEF Over, Ends, StatusTruthful, ext
    <3>8. pc' # "over" => status' = "running"
      BY <1>2, <3>1 DEF Over, Ends
    <3> QED BY <1>2, <3>1, <3>2, <3>3, <3>6, <3>7, <3>8 DEF Ends, ext
  <2>8. CASE GatherRaises
    <3>1. /\ pc = "gather"
          /\ UNCHANGED <<turn, history, child, doom, outer, kill, gone, iteration>>
          /\ outer # "pending" \/ (kill = "gather" /\ \A i \in 1..turn : child[i] = "done")
          /\ Over(IF outer = "error" /\ kill # "pending" THEN "error" ELSE "aborted")
      BY <2>8 DEF GatherRaises, tools, ext
    <3>2. AtWork' = AtWork
      BY <3>1 DEF AtWork
    <3>3. outer = "pending" => \A i \in Calls : child[i] \notin Unfinished
      <4> SUFFICES ASSUME outer = "pending", NEW i \in Calls
                   PROVE  child[i] \notin Unfinished
        OBVIOUS
      <4>1. turn \in Int /\ i \in Int /\ i >= 1
        BY <1>2, SomeCandidate DEF Frame, TypeOK, Calls
      <4>2. CASE i > turn
        BY <1>2, <3>1, <4>2 DEF Answers, Unfinished
      <4>3. CASE i \in 1..turn
        BY <3>1, <4>3 DEF Unfinished
      <4> QED BY <4>1, <4>2, <4>3
    <3>4. Survivors'
      <4>1. status' \in {"error", "aborted"} /\ (status' = "error" => outer = "error")
        BY <3>1 DEF Over
      <4>2. (\E i \in Calls : child[i] \in Unfinished) => outer \in {"error", "cancelled"}
        BY <1>2, <3>3 DEF Frame, TypeOK
      <4> QED BY <1>2, <3>1, <4>1, <4>2 DEF Ends, Survivors
    <3>5. StatusTruthful'
      BY <1>2, <3>1 DEF Over, Ends, StatusTruthful, Frame, TypeOK
    <3> QED BY <1>2, <3>1, <3>2, <3>4, <3>5 DEF Ends, Over
  <2>9. CASE ClientLeaves \/ LoseCancel
    BY <1>2, <2>9 DEF ClientLeaves, LoseCancel, Ends, AtWork, Survivors,
                      StatusTruthful, llm, tools
  <2>10. CASE Cancel
    <3>1. /\ pc # "over" /\ gone /\ kill = "none"
          /\ UNCHANGED <<pc, iteration, llm, turn, history, child, outer, gone, status>>
          /\ \/ kill' = "gather" /\ doom' = {i \in Calls : child[i] \in Unfinished}
             \/ kill' = "pending" /\ doom' = doom
      BY <2>10 DEF Cancel, Awaiting, Emitting
    <3>2. doom = {}
      BY <1>2, <3>1 DEF Ends
    <3>3. kill' = "gather" => AtWork' = {}
      BY <3>1 DEF AtWork
    <3> QED BY <1>2, <3>1, <3>2, <3>3 DEF Ends, Survivors, StatusTruthful
  <2>11. ASSUME NEW i \in Calls, ToolStep(i) \/ ToolLosesCancel(i) PROVE Ends'
    <3>1. /\ UNCHANGED <<pc, iteration, llm, turn, history, ext, status>>
          /\ child[i] \in Unfinished
          /\ \A j \in Calls \ {i} : child'[j] = child[j]
          /\ doom' \subseteq doom
      BY <1>2, <2>11
         DEF ToolStep, ToolLosesCancel, ToolAllowed, ToolDenied, DenialSent, ToolReturns,
             ResultSent, ToolEmitFails, ToolCrashes, ToolCancelled, Step, Unfinished, Frame, TypeOK
    <3>2. \/ /\ i \notin doom /\ doom' = doom /\ outer' = outer
             /\ child'[i] \in Unfinished \cup {"done"}
          \/ /\ i \notin doom /\ doom' = doom
             /\ child'[i] = "failed"
             /\ outer' = IF outer = "pending" THEN "error" ELSE outer
          \/ /\ i \in doom /\ doom' = doom \ {i}
             /\ child'[i] = "cancelled"
             /\ outer' = IF outer = "pending" THEN "cancelled" ELSE outer
          \/ /\ LostCancel /\ i \in doom /\ doom' = doom \ {i} /\ outer' = outer
             /\ child'[i] \in Unfinished
      BY <1>2, <2>11
         DEF ToolStep, ToolLosesCancel, ToolAllowed, ToolDenied, DenialSent, ToolReturns,
             ResultSent, ToolEmitFails, ToolCrashes, ToolCancelled, Step, Raise, Unfinished, Frame, TypeOK
    <3>3. kill = "gather" /\ ~LostCancel => AtWork' = {}
      BY <1>2, <3>1, <3>2 DEF Ends, AtWork, Unfinished
    <3>4. Survivors'
      BY <1>2, <3>1, <3>2 DEF Ends, Survivors, ext, Unfinished
    <3>5. StatusTruthful'
      BY <1>2, <3>1 DEF Ends, StatusTruthful, ext, llm, Unfinished
    <3>6. outer' = "cancelled" => kill = "gather" /\ \E j \in Calls : child'[j] = "cancelled"
      BY <1>2, <3>1, <3>2 DEF Ends, Unfinished
    <3>7. outer' = "error" => \E j \in Calls : child'[j] = "failed"
      BY <1>2, <3>1, <3>2 DEF Ends, Unfinished
    <3>8. (\E j \in Calls : child'[j] = "cancelled") => kill = "gather"
      BY <1>2, <3>1, <3>2 DEF Ends, Unfinished
    <3>9. doom' # {} => kill = "gather"
      BY <1>2, <3>1 DEF Ends
    <3> QED BY <1>2, <3>1, <3>3, <3>4, <3>5, <3>6, <3>7, <3>8, <3>9 DEF Ends, ext
  <2>12. CASE UNCHANGED vars
    BY <1>2, <2>12 DEF vars, llm, tools, ext, Ends, AtWork, Survivors,
                       StatusTruthful
  <2> QED BY <1>2, <2>2, <2>a, <2>3, <2>4, <2>5, <2>6, <2>7, <2>8, <2>9, <2>10, <2>11, <2>12
          DEF Next, RunStep
<1> QED BY <1>1, <1>2, FrameInvariant, LedgerInvariant, AnswersInvariant, PTL DEF Spec

\* The recorded status tells how the run ended, whichever of a failed send, a
\* cancellation and a tool's end came first.
THEOREM StatusIsTruthful == Spec => []StatusTruthful
BY EndsInvariant, PTL DEF Ends

\* A tool task outlives its run only if another one raised or if one lost its
\* cancellation.
THEOREM OrphansExplained == Spec => []OrphansOnlyAfterFailedTask
<1>1. Ends => OrphansOnlyAfterFailedTask
  <2> SUFFICES ASSUME Ends, pc = "over", AtWork # {}
               PROVE  /\ status \in {"error", "aborted"}
                      /\ \E i \in Calls : child[i] = "failed"
                                          \/ (LostCancel /\ child[i] = "cancelled")
                      /\ status = "error" => \E i \in Calls : child[i] = "failed"
    BY DEF OrphansOnlyAfterFailedTask
  <2>1. /\ status \in {"error", "aborted"}
        /\ \E i \in Calls : child[i] \in {"failed", "cancelled"}
        /\ status = "error" => \E i \in Calls : child[i] = "failed"
    BY DEF Ends, Survivors, AtWork
  <2>2. (\E i \in Calls : child[i] = "cancelled") => LostCancel
    BY DEF Ends
  <2> QED BY <2>1, <2>2
<1> QED BY <1>1, EndsInvariant, PTL

-----------------------------------------------------------------------------
(* What a step may never do.                                               *)

\* The candidates are tried in order and never twice, and no recorded turn
\* changes its shape.
THEOREM ModelsNeverComeBack == Spec => NoFlapping
<1> DEFINE Forward == /\ index' >= index
                      /\ \A t \in 1..Len(history) : history'[t].shape = history[t].shape
<1>1. ASSUME Frame, [Next]_vars PROVE Forward
  <2>1. index \in Int /\ history \in Seq(Turn)
    BY <1>1, SomeCandidate DEF Frame, TypeOK, Turn
  <2>2. CASE UNCHANGED history /\ index' \in {index, index + 1}
    BY <2>1, <2>2
  <2>3. CASE StartTools
    <3> DEFINE t == [shape |-> Shape[Candidates[index]], calls |-> turn, results |-> <<>>]
    <3>1. index' = index /\ history' = Append(history, t)
      BY <2>3 DEF StartTools, llm
    <3>2. \A i \in 1..Len(history) : history'[i] = history[i]
      BY <2>1, <3>1
    <3> QED BY <2>1, <3>1, <3>2
  <2>4. CASE GatherReturns
    <3>1. /\ index' = index /\ pc = "gather"
          /\ history' = [history EXCEPT ![Len(history)].results = [i \in 1..turn |-> i]]
      BY <2>4 DEF GatherReturns, llm
    <3>2. history # <<>> /\ turn \in 1..MaxCalls
      BY <1>1, <3>1 DEF Frame, TypeOK
    <3>3. [i \in 1..turn |-> i] \in Seq(Calls)
      BY <3>2, RunnerAssumption DEF Calls, RunnerAssumption
    <3>4. /\ history'[Len(history)].shape = history[Len(history)].shape
          /\ \A i \in 1..(Len(history) - 1) : history'[i] = history[i]
      BY <2>1, <3>1, <3>2, <3>3, FillTurn
    <3> QED BY <2>1, <3>1, <3>4
  <2> QED
    BY <1>1, <2>2, <2>3, <2>4
       DEF Next, RunStep, Aborted, EmitFails, RequestCrashes, EmitLlmCall, Select, FallOver, GaveUpAs,
           RequestFails, EmitRetry, Backoff, EmitFallback, Respond, Final, GatherRaises, Go,
           Over, ClientLeaves, Cancel, LoseCancel, ToolStep, ToolLosesCancel, ToolAllowed,
           ToolDenied, DenialSent, ToolReturns, ResultSent, ToolEmitFails, ToolCrashes, ToolCancelled,
           Step, vars, llm, tools
<1>2. Frame /\ [Next]_vars => [Forward]_vars
  BY <1>1
<1> QED BY <1>2, FrameInvariant, PTL DEF Spec, NoFlapping

\* Between the request of a cancellation and its delivery no LLM request is sent
\* and no cancelled tool task starts its call.
THEOREM CancelledRunIsIdle == Spec => NoWorkWhileCancelled
<1> DEFINE Idle == (kill \in {"pending", "gather"}) =>
                      /\ requests' = requests
                      /\ \A i \in doom : child'[i] = "calling" => child[i] = "calling"
<1>1. ASSUME Frame, [Next]_vars PROVE Idle
  <2> SUFFICES ASSUME kill \in {"pending", "gather"} PROVE Idle
    OBVIOUS
  <2>1. CASE RunStep
    <3>1. requests' = requests
      BY <1>1, <2>1
         DEF Frame, Awaiting, Emitting, RunStep, Aborted, EmitFails, RequestCrashes, EmitLlmCall,
             Select, FallOver, GaveUpAs, RequestFails, EmitRetry, Backoff, EmitFallback, Respond, Final,
             StartTools, GatherReturns, GatherRaises, Go, Over, llm
    <3>2. child' = child \/ \A i \in Calls : child'[i] # "calling"
      BY <2>1
         DEF RunStep, Aborted, EmitFails, RequestCrashes, EmitLlmCall, Select,
             RequestFails, EmitRetry, Backoff, EmitFallback, Respond, Final,
             StartTools, GatherReturns, GatherRaises, tools
    <3>3. doom \subseteq Calls
      BY <1>1 DEF Frame, TypeOK
    <3> QED BY <3>1, <3>2, <3>3
  <2>2. CASE ClientLeaves \/ Cancel \/ LoseCancel
    BY <2>2 DEF ClientLeaves, Cancel, LoseCancel, llm, tools
  <2>3. ASSUME NEW i \in Calls, ToolStep(i) \/ ToolLosesCancel(i) PROVE Idle
    <3>1. /\ requests' = requests
          /\ \A j \in Calls \ {i} : child'[j] = child[j]
          /\ i \in doom => child'[i] = "cancelled" \/ child'[i] = "result"
      BY <1>1, <2>3
         DEF ToolStep, ToolLosesCancel, ToolAllowed, ToolDenied, DenialSent, ToolReturns,
             ResultSent, ToolEmitFails, ToolCrashes, ToolCancelled, Step, llm, Frame, TypeOK
    <3>2. doom \subseteq Calls
      BY <1>1 DEF Frame, TypeOK
    <3> QED BY <3>1, <3>2
  <2>4. CASE UNCHANGED vars
    BY <2>4 DEF vars, llm, tools
  <2> QED BY <1>1, <2>1, <2>2, <2>3, <2>4 DEF Next
<1>2. Frame /\ [Next]_vars => [Idle]_vars
  BY <1>1
<1> QED BY <1>2, FrameInvariant, PTL DEF Spec, NoWorkWhileCancelled

-----------------------------------------------------------------------------
(* Why a run ends: what is left of it shrinks with every step.             *)

\* Awaits left in a tool task, and in all of them.
Awaits(s) == CASE s = "new" -> 3 [] s = "calling" -> 2 [] s \in {"denied", "result"} -> 1 [] OTHER -> 0
ToDo == {w \in Calls \X (1..3) : w[2] <= Awaits(child[w[1]])}

\* A round is one list of attempts for one model, and the turn that may follow.
Retries   == Larger(RetryAttempts, 0)
ToolCost  == MaxCalls * 3
RoundCost == ToolCost + 3 * Retries + 6
RoundsLeft == (Larger(MaxIterations, 1) - iteration) + (NCand + 1 - index)
StepsLeft ==
    CASE pc \in {"announce", "fallback"} -> RoundCost - 1
      [] pc = "select"                   -> RoundCost - 2
      [] pc = "request"                  -> ToolCost + 3 + 3 * (Retries - attempt)
      [] pc = "retry"                    -> ToolCost + 2 + 3 * (Retries - attempt)
      [] pc = "backoff"                  -> ToolCost + 1 + 3 * (Retries - attempt)
      [] pc = "blocks"                   -> ToolCost + 2
      [] pc = "gather"                   -> 1
      [] OTHER                           -> 0

\* The client can leave once, the run be cancelled once.
EventsLeft == (IF gone THEN 0 ELSE 1) + (CASE kill = "none" -> 2 [] kill = "spent" -> 0 [] OTHER -> 1)

Fuel == RoundsLeft * RoundCost + StepsLeft + Cardinality(ToDo) + EventsLeft

LEMMA ToDoBounded ==
    /\ ToolCost \in Nat
    /\ IsFiniteSet(Calls \X (1..3)) /\ Cardinality(Calls \X (1..3)) = ToolCost
    /\ IsFiniteSet(ToDo) /\ Cardinality(ToDo) \in 0..ToolCost
<1>1. MaxCalls \in Nat /\ ToolCost \in Nat
  BY SomeCandidate DEF ToolCost
<1>2. /\ IsFiniteSet(Calls) /\ Cardinality(Calls) = MaxCalls
      /\ IsFiniteSet(1..3) /\ Cardinality(1..3) = 3
  <2>1. \A n \in Nat : IsFiniteSet(1..n) /\ Cardinality(1..n) = n
    <3> SUFFICES ASSUME NEW n \in Nat PROVE IsFiniteSet(1..n) /\ Cardinality(1..n) = n
      OBVIOUS
    <3>1. IsFiniteSet(1..n) /\ Cardinality(1..n) = IF 1 > n THEN 0 ELSE n - 1 + 1
      BY FS_Interval
    <3>2. (IF 1 > n THEN 0 ELSE n - 1 + 1) = n
      OBVIOUS
    <3> QED BY <3>1, <3>2
  <2> QED BY <1>1, <2>1 DEF Calls
<1>3. IsFiniteSet(Calls \X (1..3)) /\ Cardinality(Calls \X (1..3)) = ToolCost
  BY <1>2, FS_Product DEF ToolCost
<1>4. ToDo \in SUBSET (Calls \X (1..3))
  BY DEF ToDo
<1>5. IsFiniteSet(ToDo) /\ Cardinality(ToDo) <= ToolCost
  BY <1>3, <1>4, FS_Subset
<1>6. Cardinality(ToDo) \in Nat
  BY <1>5, FS_CardinalityType
<1> QED BY <1>1, <1>3, <1>5, <1>6

\* A tool task that moves has fewer awaits left, and the others as many.
LEMMA ToolsGoOn ==
    ASSUME TypeOK, NEW i \in Calls, ToolStep(i) \/ ToolLosesCancel(i)
    PROVE  /\ UNCHANGED <<pc, iteration, llm, ext>>
           /\ Cardinality(ToDo') < Cardinality(ToDo)
<1>1. /\ UNCHANGED <<pc, iteration, llm, ext>>
      /\ \E s \in Unfinished \cup {"done", "failed", "cancelled"} :
            /\ child' = [child EXCEPT ![i] = s]
            /\ Awaits(s) < Awaits(child[i])
  <2>1. CASE ToolAllowed(i) \/ ToolDenied(i) \/ DenialSent(i) \/ ToolReturns(i) \/ ResultSent(i)
    BY <2>1 DEF ToolAllowed, ToolDenied, DenialSent, ToolReturns, ResultSent, Step, Unfinished, Awaits
  <2>2. CASE ToolEmitFails(i) \/ ToolCrashes(i)
    BY <2>2 DEF ToolEmitFails, ToolCrashes, Step, Unfinished, Awaits
  <2>3. CASE ToolCancelled(i) \/ ToolLosesCancel(i)
    BY <2>3 DEF ToolCancelled, ToolLosesCancel, Unfinished, Awaits, ext
  <2> QED BY <2>1, <2>2, <2>3 DEF ToolStep
<1>2. PICK s \in Unfinished \cup {"done", "failed", "cancelled"} :
         child' = [child EXCEPT ![i] = s] /\ Awaits(s) < Awaits(child[i])
  BY <1>1
<1>3. \A t : Awaits(t) \in 0..3
  BY DEF Awaits
<1>4. child'[i] = s /\ \A j \in Calls \ {i} : child'[j] = child[j]
  BY <1>2 DEF TypeOK
<1> DEFINE n == Awaits(child[i])
<1>5. ToDo' \in SUBSET ToDo
  <2> SUFFICES ASSUME NEW w \in Calls \X (1..3), w[2] <= Awaits(child'[w[1]]) PROVE w[2] <= Awaits(child[w[1]])
    BY DEF ToDo
  <2>1. CASE w[1] = i
    <3>1. /\ w[2] \in Int /\ Awaits(s) \in Int /\ n \in Int
          /\ w[2] <= Awaits(s) /\ Awaits(s) < n
      BY <1>2, <1>3, <1>4, <2>1
    <3>2. w[2] <= n
      <4> HIDE DEF n
      <4> QED BY <3>1
    <3> QED BY <2>1, <3>2
  <2>2. CASE w[1] # i
    BY <1>4, <2>2
  <2> QED BY <2>1, <2>2
<1>6. <<i, n>> \in ToDo /\ <<i, n>> \notin ToDo'
  <2>1. n \in 1..3 /\ ~(n <= Awaits(s)) /\ n <= n
    BY <1>2, <1>3
  <2>2. <<i, n>> \in Calls \X (1..3) /\ <<i, n>>[1] = i /\ <<i, n>>[2] = n
    BY <2>1
  <2>3. <<i, n>> \in ToDo
    <3> DEFINE w == <<i, n>>
    <3>1. w \in Calls \X (1..3) /\ w[2] <= Awaits(child[w[1]])
      BY <2>1, <2>2
    <3> QED BY <3>1 DEF ToDo
  <2>4. <<i, n>> \notin ToDo'
    <3> SUFFICES ASSUME <<i, n>> \in ToDo' PROVE FALSE
      OBVIOUS
    <3>1. <<i, n>>[2] <= Awaits(child'[<<i, n>>[1]])
      BY DEF ToDo
    <3> QED BY <1>4, <2>1, <2>2, <3>1
  <2> QED BY <2>3, <2>4
<1>7. IsFiniteSet(ToDo) /\ Cardinality(ToDo) \in Nat /\ ToDo' # ToDo
  BY <1>6, ToDoBounded
<1>8. /\ Cardinality(ToDo') <= Cardinality(ToDo) /\ Cardinality(ToDo') # Cardinality(ToDo)
      /\ Cardinality(ToDo') \in Nat
  BY <1>5, <1>7, FS_Subset, FS_CardinalityType
<1> QED BY <1>1, <1>7, <1>8

\* Every round left costs as much; the state of a round is worth less than one.
LEMMA Costs ==
    /\ Retries \in Nat /\ ToolCost \in Nat /\ RoundCost \in Nat /\ RoundCost >= 6
    /\ RoundCost = ToolCost + 3 * Retries + 6
    /\ RetryAttempts >= 0 => Retries = RetryAttempts
    /\ \A n \in Int : /\ n * RoundCost \in Int
                      /\ (n - 1) * RoundCost = n * RoundCost - RoundCost
                      /\ n >= 0 => n * RoundCost >= 0
<1>1. RetryAttempts \in Int /\ ToolCost \in Nat
  BY RunnerAssumption, ToDoBounded
<1>2. Retries \in Nat /\ (RetryAttempts >= 0 => Retries = RetryAttempts)
  BY <1>1 DEF Retries, Larger
<1>3. RoundCost \in Nat /\ RoundCost >= 6 /\ RoundCost = ToolCost + 3 * Retries + 6
  BY <1>1, <1>2 DEF RoundCost
<1>4. ASSUME NEW n \in Int, NEW k \in Nat
      PROVE  n * k \in Int /\ (n - 1) * k = n * k - k /\ (n >= 0 => n * k >= 0)
  OBVIOUS
<1> HIDE DEF RoundCost
<1> QED BY <1>1, <1>2, <1>3, <1>4

FuelParts ==
    /\ RoundsLeft \in Nat /\ RoundsLeft * RoundCost \in Nat
    /\ StepsLeft \in Nat /\ StepsLeft <= RoundCost - 1 /\ (pc # "over" => StepsLeft > 0)
    /\ Cardinality(ToDo) \in Nat /\ Cardinality(ToDo) <= ToolCost
    /\ EventsLeft \in Nat

LEMMA FuelCounted == Frame /\ Ledger => FuelParts
<1> SUFFICES ASSUME Frame, Ledger PROVE FuelParts
  OBVIOUS
<1>1. /\ iteration \in Nat /\ index \in 1..(NCand + 1) /\ attempt \in Nat /\ NCand \in Nat
      /\ pc \in Awaiting \cup {"select", "gather", "over"} /\ gone \in BOOLEAN
  BY SomeCandidate DEF Frame, TypeOK
<1>2. RoundsLeft \in Nat
  <2>1. iteration <= Larger(MaxIterations, 1) /\ Larger(MaxIterations, 1) \in Int
    BY RunnerAssumption DEF Ledger, Larger
  <2> QED BY <1>1, <2>1 DEF RoundsLeft
<1>3. pc \in {"request", "retry", "backoff"} => Retries - attempt \in Nat
  BY <1>1, Costs, RunnerAssumption DEF Ledger
<1>4. StepsLeft \in Nat /\ StepsLeft <= RoundCost - 1 /\ (pc # "over" => StepsLeft > 0)
  <2> DEFINE d == Retries - attempt
  <2>1. pc \in {"request", "retry", "backoff"} => d \in Nat /\ d <= Retries
    BY <1>1, <1>3, Costs
  <2> HIDE DEF d
  <2>2. StepsLeft = CASE pc \in {"announce", "fallback"} -> RoundCost - 1
                      [] pc = "select"                   -> RoundCost - 2
                      [] pc = "request"                  -> ToolCost + 3 + 3 * d
                      [] pc = "retry"                    -> ToolCost + 2 + 3 * d
                      [] pc = "backoff"                  -> ToolCost + 1 + 3 * d
                      [] pc = "blocks"                   -> ToolCost + 2
                      [] pc = "gather"                   -> 1
                      [] OTHER                           -> 0
    BY DEF StepsLeft, d
  <2>3. /\ Retries \in Nat /\ ToolCost \in Nat /\ RoundCost = ToolCost + 3 * Retries + 6
    BY Costs
  <2>4. CASE pc \in {"request", "retry", "backoff"}
    BY <2>1, <2>2, <2>3, <2>4
  <2>5. CASE pc \notin {"request", "retry", "backoff"}
    BY <1>1, <2>2, <2>3, <2>5 DEF Awaiting, Emitting
  <2> QED BY <2>4, <2>5
<1>5. EventsLeft \in Nat
  BY <1>1 DEF EventsLeft
<1>6. RoundsLeft * RoundCost \in Nat
  BY <1>2, Costs
<1> QED BY <1>2, <1>4, <1>5, <1>6, ToDoBounded DEF FuelParts

\* Less is left if no part grows and one shrinks, and if a round is paid.
LEMMA LessLeft ==
    ASSUME NEW b \in Int, NEW s \in Nat, NEW c \in Nat, NEW e \in Nat, NEW t \in Nat,
           NEW d \in Nat, NEW f \in Nat, NEW k \in Nat
    PROVE  /\ t < s => b + t + c + e < b + s + c + e
           /\ d < c => b + s + d + e < b + s + c + e
           /\ f < e => b + s + c + f < b + s + c + e
           /\ s > 0 /\ t <= k - 1 => (b - k) + t + c + e < b + s + c + e
           /\ t = 1 /\ s = k + 2 /\ d <= k => b + t + d + e < b + s + c + e
OBVIOUS

LEMMA FuelShrinks ==
    ASSUME Frame, Ledger, Frame', Ledger', Next
    PROVE  Fuel' < Fuel
<1> DEFINE B == RoundsLeft * RoundCost
           S == StepsLeft
           C == Cardinality(ToDo)
           E == EventsLeft
<1>p. FuelParts /\ FuelParts'
  <2>1. (Frame /\ Ledger => FuelParts)'
    BY FuelCounted, PTL
  <2> QED BY <2>1, FuelCounted
<1>1. /\ RoundsLeft \in Nat /\ S \in Nat /\ C \in Nat /\ E \in Nat /\ C <= ToolCost
      /\ S' \in Nat /\ C' \in Nat /\ E' \in Nat /\ C' <= ToolCost
      /\ pc # "over" => S > 0
      /\ S' <= RoundCost - 1
      /\ RoundCost \in Nat /\ ToolCost \in Nat
  BY <1>p, Costs DEF FuelParts
<1>2. B \in Int /\ (RoundsLeft - 1) * RoundCost = B - RoundCost
  BY <1>1, Costs
<1>3. iteration \in Nat /\ index \in Nat /\ attempt \in Nat /\ NCand \in Nat /\ MaxIterations \in Int
      /\ Larger(MaxIterations, 1) \in Int /\ Retries \in Nat
  BY SomeCandidate, RunnerAssumption, Costs DEF Frame, TypeOK, Larger
<1>4. Fuel = B + S + C + E /\ Fuel' = B' + S' + C' + E'
  BY DEF Fuel
<1> HIDE DEF S, C, E
<1>a. ASSUME UNCHANGED <<iteration, index>> PROVE B' = B
  BY <1>a DEF RoundsLeft
<1>b. ASSUME UNCHANGED child PROVE C' = C
  BY <1>b DEF C, ToDo
<1>c. ASSUME UNCHANGED ext PROVE E' = E
  BY <1>c DEF E, EventsLeft, ext
<1>d. ASSUME \/ iteration' = iteration + 1 /\ index' = index
             \/ iteration' = iteration /\ index' = index + 1
      PROVE  B' = B - RoundCost
  <2>1. RoundsLeft' = RoundsLeft - 1
    BY <1>3, <1>d DEF RoundsLeft
  <2> QED BY <1>2, <2>1
<1> HIDE DEF B
\* Within a round.
<1>5. ASSUME UNCHANGED <<iteration, index, child, ext>>, S' < S PROVE Fuel' < Fuel
  BY <1>a, <1>b, <1>c, <1>1, <1>2, <1>4, <1>5, LessLeft
\* Into another.
<1>6. ASSUME pc # "over", UNCHANGED <<child, ext>>,
             \/ iteration' = iteration + 1 /\ index' = index
             \/ iteration' = iteration /\ index' = index + 1
      PROVE  Fuel' < Fuel
  <2>1. B' = B - RoundCost
    BY <1>d, <1>6
  <2> QED BY <2>1, <1>b, <1>c, <1>1, <1>2, <1>4, <1>6, LessLeft
<1>7. CASE Aborted \/ EmitFails \/ RequestCrashes \/ Final \/ GatherRaises
  <2>1. pc # "over" /\ pc' = "over" /\ UNCHANGED <<iteration, index, child, ext>>
    BY <1>7 DEF Aborted, EmitFails, RequestCrashes, Final, GatherRaises, Over, llm, tools,
                Awaiting, Emitting
  <2>2. S' = 0
    BY <2>1 DEF S, StepsLeft
  <2> QED BY <1>1, <1>5, <2>1, <2>2
<1>8. CASE EmitLlmCall \/ EmitFallback
  <2>1. /\ pc \in {"announce", "fallback"} /\ pc' = "select" /\ UNCHANGED <<iteration, index, child, ext>>
    BY <1>8 DEF EmitLlmCall, EmitFallback, Go, llm, tools
  <2>2. S = RoundCost - 1 /\ S' = RoundCost - 2
    BY <2>1 DEF S, StepsLeft
  <2> QED BY <1>1, <1>5, <2>1, <2>2
<1>9. CASE Select
  <2>1. pc = "select" /\ UNCHANGED <<iteration, child, ext>>
    BY <1>9 DEF Select, tools
  <2>2. CASE index' = index + 1
    BY <1>6, <2>1, <2>2
  <2>3. CASE index' = index /\ pc' = "request" /\ attempt' = 0
    <3>1. S = RoundCost - 2 /\ S' = ToolCost + 3 + 3 * (Retries - 0)
      BY <2>1, <2>3 DEF S, StepsLeft
    <3>2. S' < S
      BY <1>1, <1>3, <3>1, Costs
    <3> QED BY <1>5, <2>1, <2>3, <3>2
  <2> QED BY <1>9, <2>2, <2>3 DEF Select, FallOver, GaveUpAs
<1>10. ASSUME NEW e \in {"timeout", "error"}, NEW r \in BOOLEAN, RequestFails(e, r)
       PROVE  Fuel' < Fuel
  <2>1. pc = "request" /\ UNCHANGED <<iteration, child, ext>>
    BY <1>10 DEF RequestFails, tools
  <2>2. CASE index' = index + 1
    BY <1>6, <2>1, <2>2
  <2>3. CASE pc' = "retry" /\ UNCHANGED llm
    <3>1. S = ToolCost + 3 + 3 * (Retries - attempt) /\ S' = ToolCost + 2 + 3 * (Retries - attempt)
      BY <2>1, <2>3 DEF S, StepsLeft, llm
    <3>2. S' < S
      BY <1>1, <1>3, <3>1
    <3> QED BY <1>5, <2>1, <2>3, <3>2 DEF llm
  <2> QED BY <1>10, <2>2, <2>3 DEF RequestFails, FallOver, GaveUpAs
<1>11. CASE EmitRetry
  <2>1. pc = "retry" /\ pc' = "backoff" /\ UNCHANGED <<iteration, index, attempt, child, ext>>
    BY <1>11 DEF EmitRetry, Go, llm, tools
  <2>2. S = ToolCost + 2 + 3 * (Retries - attempt) /\ S' = ToolCost + 1 + 3 * (Retries - attempt)
    BY <2>1 DEF S, StepsLeft
  <2>3. S' < S
    BY <1>1, <1>3, <2>2
  <2> QED BY <1>5, <2>1, <2>3
<1>12. CASE Backoff
  <2>1. /\ pc = "backoff" /\ pc' = "request" /\ attempt' = attempt + 1
        /\ UNCHANGED <<iteration, index, child, ext>>
    BY <1>12 DEF Backoff, Go, tools
  <2>2. S = ToolCost + 1 + 3 * (Retries - attempt) /\ S' = ToolCost + 3 + 3 * (Retries - (attempt + 1))
    BY <2>1 DEF S, StepsLeft
  <2>3. S' < S
    BY <1>1, <1>3, <2>2
  <2> QED BY <1>5, <2>1, <2>3
<1>13. ASSUME NEW n \in 0..MaxCalls, Respond(n) PROVE Fuel' < Fuel
  <2>1. pc = "request" /\ pc' = "blocks" /\ UNCHANGED <<iteration, index, child, ext>>
    BY <1>13 DEF Respond, Go, llm
  <2>2. S = ToolCost + 3 + 3 * (Retries - attempt) /\ S' = ToolCost + 2
    BY <2>1 DEF S, StepsLeft
  <2>3. attempt <= Retries
    BY <2>1, <1>3, Costs, RunnerAssumption DEF Ledger
  <2>4. S' < S
    BY <1>1, <1>3, <2>2, <2>3
  <2> QED BY <1>5, <2>1, <2>4
<1>14. CASE StartTools
  <2>1. pc = "blocks" /\ pc' = "gather" /\ UNCHANGED <<iteration, index, ext>>
    BY <1>14 DEF StartTools, Go, llm
  <2>2. S = ToolCost + 2 /\ S' = 1
    BY <2>1 DEF S, StepsLeft
  <2>3. B' = B /\ E' = E
    BY <1>a, <1>c, <2>1
  <2> QED BY <1>1, <1>2, <1>4, <2>2, <2>3, LessLeft
<1>15. CASE GatherReturns
  <2>1. pc = "gather" /\ UNCHANGED <<index, child, ext>>
    BY <1>15 DEF GatherReturns, llm
  <2>2. CASE iteration' = iteration + 1
    BY <1>6, <2>1, <2>2
  <2>3. CASE iteration' = iteration /\ pc' = "over"
    <3>1. S = 1 /\ S' = 0
      BY <2>1, <2>3 DEF S, StepsLeft
    <3> QED BY <1>5, <2>1, <2>3, <3>1
  <2> QED BY <1>15, <2>2, <2>3 DEF GatherReturns, Over
<1>16. CASE ClientLeaves \/ Cancel \/ LoseCancel
  <2>1. UNCHANGED <<pc, iteration, index, attempt, child>>
    BY <1>16 DEF ClientLeaves, Cancel, LoseCancel, llm, tools
  <2>2. S' = S
    BY <2>1 DEF S, StepsLeft
  <2>3. E' < E
    BY <1>16 DEF ClientLeaves, Cancel, LoseCancel, Frame, TypeOK, E, EventsLeft
  <2>4. B' = B /\ C' = C
    BY <1>a, <1>b, <2>1
  <2> QED BY <1>1, <1>2, <1>4, <2>2, <2>3, <2>4, LessLeft
<1>17. ASSUME NEW i \in Calls, ToolStep(i) \/ ToolLosesCancel(i) PROVE Fuel' < Fuel
  <2>1. UNCHANGED <<pc, iteration, llm, ext>> /\ C' < C
    BY <1>17, ToolsGoOn DEF Frame, C
  <2>2. S' = S
    BY <2>1 DEF S, StepsLeft, llm
  <2>3. B' = B /\ E' = E
    BY <1>a, <1>c, <2>1 DEF llm
  <2> QED BY <1>1, <1>2, <1>4, <2>1, <2>2, <2>3, LessLeft
<1> QED BY <1>7, <1>8, <1>9, <1>10, <1>11, <1>12, <1>13, <1>14, <1>15, <1>16, <1>17
        DEF Next, RunStep

\* The guard of some step of the run, or of one of its tool tasks, holds: at an
\* await the delivery of the cancellation or else the step that follows, in
\* gather the end of it or a step of a task that has not ended.
CanMove ==
    \/ pc \in Awaiting \cup {"select"}
    \/ pc = "gather" /\ outer # "pending"
    \/ pc = "gather" /\ kill # "pending" /\ \A i \in 1..turn : child[i] = "done"
    \/ pc = "gather" /\ \E i \in Calls : child[i] \in Unfinished

\* While gather waits, no cancellation passes it by and none of its tasks has
\* raised.
Gathering ==
    (pc = "gather" /\ outer = "pending") =>
        kill # "pending" /\ \A i \in 1..turn : child[i] \in Unfinished \cup {"done"}

LEMMA GatheringInvariant == Spec => []Gathering
<1>1. Init => Gathering
  BY DEF Init, Gathering
<1>2. Frame /\ Gathering /\ [Next]_vars => Gathering'
  <2> SUFFICES ASSUME Frame, Gathering, [Next]_vars PROVE Gathering'
    OBVIOUS
  <2>1. CASE UNCHANGED vars
    BY <2>1 DEF Gathering, vars, tools, ext
  <2>2. ASSUME pc' # "gather" PROVE Gathering'
    BY <2>2 DEF Gathering
  <2>3. CASE RunStep
    <3>1. CASE StartTools
      <4>1. /\ kill' # "pending" /\ turn' = turn
            /\ child' = [i \in Calls |-> IF i <= turn THEN "new" ELSE "none"]
        BY <3>1 DEF StartTools, Go, ext
      <4>2. turn \in Nat /\ \A i \in 1..turn : i \in Calls /\ i <= turn
        BY SomeCandidate DEF Frame, TypeOK, Calls
      <4>3. \A i \in 1..turn : child'[i] = "new"
        BY <4>1, <4>2
      <4> QED BY <4>1, <4>3 DEF Gathering, Unfinished
    <3>2. CASE ~StartTools
      BY <2>2, <2>3, <3>2 DEF RunStep, Aborted, EmitFails, EmitLlmCall, Select, FallOver, GaveUpAs, RequestCrashes,
         RequestFails, EmitRetry, Backoff, EmitFallback, Respond, Final, GatherReturns, GatherRaises, Go, Over
    <3> QED BY <3>1, <3>2
  <2>4. CASE ClientLeaves
    BY <2>4 DEF ClientLeaves, Gathering, tools
  <2>5. CASE Cancel
    BY <2>5 DEF Cancel, Gathering
  <2>6. CASE LoseCancel
    BY <2>2, <2>6 DEF LoseCancel
  <2>7. ASSUME NEW i \in Calls, ToolStep(i) \/ ToolLosesCancel(i) PROVE Gathering'
    <3>1. UNCHANGED <<pc, turn, kill>>
      BY <2>7 DEF ToolStep, ToolLosesCancel, ToolAllowed, ToolDenied, DenialSent, ToolReturns,
                  ResultSent, ToolEmitFails, ToolCrashes, ToolCancelled, Step, ext
    <3>2. CASE ToolEmitFails(i) \/ ToolCrashes(i) \/ ToolCancelled(i)
      BY <3>2 DEF ToolEmitFails, ToolCrashes, ToolCancelled, Raise, Gathering
    <3>3. CASE ~(ToolEmitFails(i) \/ ToolCrashes(i) \/ ToolCancelled(i))
      <4>1. /\ outer' = outer
            /\ \E t \in Unfinished \cup {"done"} : child' = [child EXCEPT ![i] = t]
        BY <2>7, <3>3 DEF ToolStep, ToolLosesCancel, ToolAllowed, ToolDenied, DenialSent, ToolReturns,
                          ResultSent, Step, Unfinished
      <4>2. \A j \in Calls : child'[j] = child[j] \/ child'[j] \in Unfinished \cup {"done"}
        BY <4>1 DEF Frame, TypeOK
      <4>3. 1..turn \subseteq Calls
        BY SomeCandidate DEF Frame, TypeOK, Calls
      <4> QED BY <3>1, <4>1, <4>2, <4>3 DEF Gathering
    <3> QED BY <3>2, <3>3
  <2> QED BY <2>1, <2>3, <2>4, <2>5, <2>6, <2>7 DEF Next
<1> QED BY <1>1, <1>2, FrameInvariant, PTL DEF Spec

\* A run ends after a bounded number of steps, whatever fails and whoever leaves,
\* for every limit: each step of the run, of its tool tasks and of the client
\* uses up some of a natural number, and until the run is over there is a step to
\* take.  What RunEnds adds is that steps that can be taken are.
THEOREM RunIsBounded ==
    Spec => /\ [](Fuel \in Nat)
            /\ Fuel = (Larger(MaxIterations, 1) + NCand) * RoundCost + 2
            /\ [][Fuel' < Fuel]_vars
            /\ [](pc # "over" => CanMove)
<1>1. Frame /\ Ledger => Fuel \in Nat
  BY FuelCounted DEF FuelParts, Fuel
<1>2. Frame /\ Ledger /\ Frame' /\ Ledger' /\ [Next]_vars => [Fuel' < Fuel]_vars
  BY FuelShrinks
<1>3. Frame /\ Gathering => (pc # "over" => CanMove)
  <2> SUFFICES ASSUME Frame, Gathering, pc = "gather", outer = "pending" PROVE CanMove
    BY DEF Frame, TypeOK, CanMove
  <2>1. 1..turn \subseteq Calls
    BY SomeCandidate DEF Frame, TypeOK, Calls
  <2> QED BY <2>1 DEF Gathering, CanMove
<1>4. Init => Fuel = (Larger(MaxIterations, 1) + NCand) * RoundCost + 2
  <2> SUFFICES ASSUME Init PROVE Fuel = (Larger(MaxIterations, 1) + NCand) * RoundCost + 2
    OBVIOUS
  <2> DEFINE n == Larger(MaxIterations, 1) + NCand
  <2>1. n \in Int /\ RoundsLeft = n - 1 /\ StepsLeft = RoundCost - 1 /\ EventsLeft = 3
    BY SomeCandidate, RunnerAssumption DEF Init, Larger, RoundsLeft, StepsLeft, EventsLeft
  <2>2. Cardinality(ToDo) = 0
    <3>1. \A i \in Calls : Awaits(child[i]) = 0
      BY DEF Init, Awaits
    <3>2. ToDo = {}
      BY <3>1 DEF ToDo
    <3> QED BY <3>2, FS_EmptySet
  <2> HIDE DEF n
  <2>3. n * RoundCost \in Int /\ (n - 1) * RoundCost = n * RoundCost - RoundCost /\ RoundCost \in Nat
    BY <2>1, Costs
  <2>4. Fuel = (n - 1) * RoundCost + (RoundCost - 1) + 0 + 3
    BY <2>1, <2>2 DEF Fuel
  <2> QED BY <2>3, <2>4 DEF n
<1> QED BY <1>1, <1>2, <1>3, <1>4, FrameInvariant, LedgerInvariant, GatheringInvariant, PTL DEF Spec

-----------------------------------------------------------------------------
(* The run as the RPC endpoint sees it.                                    *)

Outcome ==
    CASE pc # "over" -> "running"
      [] pc = "over" /\ status = "ok" -> "ok"
      [] pc = "over" /\ status = "aborted" -> "cancelled"
      [] OTHER -> "failed"

Asked == CASE kill = "none" -> "no" [] kill = "spent" -> "lost" [] OTHER -> "yes"

Contract == INSTANCE RunContract WITH run <- Outcome, asked <- Asked

\* The outcome a run records decides how its task ended.
LEMMA OverIs ==
    ASSUME pc # "over", UNCHANGED ext, NEW s, Over(s)
    PROVE  Contract!End(IF s = "ok" THEN "ok" ELSE IF s = "aborted" THEN "cancelled" ELSE "failed")
BY DEF Over, Contract!End, Outcome, Asked, ext

\* A run that goes on, with its cancellation as it was, does nothing the endpoint
\* sees.
LEMMA GoesOn ==
    ASSUME pc # "over", pc' # "over", UNCHANGED ext
    PROVE  UNCHANGED <<Outcome, Asked, gone>>
BY DEF Outcome, Asked, ext

\* A step of run() is the end the endpoint expects of it, or nothing.
LEMMA RunStepsKeepContract ==
    ASSUME Frame, Ends, RunStep, TypeOK'
    PROVE  Contract!Next \/ UNCHANGED <<Outcome, Asked, gone>>
<1> USE DEF Contract!Next
<1>1. pc # "over" /\ UNCHANGED ext
  BY DEF RunStep, Aborted, EmitFails, EmitLlmCall, Select, RequestCrashes, RequestFails, EmitRetry,
         Backoff, EmitFallback, Respond, Final, StartTools, GatherReturns, GatherRaises, Go, Awaiting,
         Emitting
<1>2. ASSUME pc' # "over" PROVE UNCHANGED <<Outcome, Asked, gone>>
  BY <1>1, <1>2, GoesOn
<1>3. Asked = "yes" <=> kill \in {"pending", "gather"}
  BY DEF Asked, Frame, TypeOK
<1>4. CASE Aborted
  <2>1. Contract!End("cancelled")
    BY <1>1, <1>4, OverIs DEF Aborted
  <2> QED BY <1>3, <1>4, <2>1 DEF Aborted, Contract!Abort
<1>5. CASE EmitFails
  <2>1. Contract!End("failed")
    BY <1>1, <1>5, OverIs DEF EmitFails
  <2> QED BY <1>5, <2>1 DEF EmitFails, Contract!TaskFails
<1>6. CASE GatherRaises
  <2>1. CASE outer = "error" /\ kill # "pending"
    <3>1. Contract!End("failed")
      BY <1>1, <1>6, <2>1, OverIs DEF GatherRaises
    <3>2. CASE kill = "gather"
      BY <3>1, <3>2 DEF Ends, Contract!TaskFails
    <3>3. CASE kill # "gather"
      BY <1>3, <2>1, <3>1, <3>3 DEF Contract!Finish
    <3> QED BY <3>2, <3>3
  <2>2. CASE ~(outer = "error" /\ kill # "pending")
    <3>1. Contract!End("cancelled")
      BY <1>1, <1>6, <2>2, OverIs DEF GatherRaises
    <3>2. kill \in {"pending", "gather"}
      BY <1>6, <2>2 DEF GatherRaises, Ends, Frame, TypeOK
    <3> QED BY <1>3, <3>1, <3>2 DEF Contract!Abort
  <2> QED BY <2>1, <2>2
<1>7. ASSUME kill \notin {"pending", "gather"},
             NEW s \in {"ok", "timeout", "max_iterations", "error"}, Over(s)
      PROVE  Contract!Next
  <2>1. \E o \in {"ok", "failed"} : Contract!End(o)
    BY <1>1, <1>7, OverIs
  <2> QED BY <1>3, <1>7, <2>1 DEF Contract!Finish
<1>8. CASE Select
  BY <1>2, <1>7, <1>8 DEF Select, FallOver, GaveUpAs, Frame, Awaiting
<1>9. CASE \E e \in {"timeout", "error"}, retryable \in BOOLEAN : RequestFails(e, retryable)
  BY <1>2, <1>7, <1>9 DEF RequestFails, FallOver, GaveUpAs, Frame
<1>10. CASE RequestCrashes \/ Final \/ GatherReturns
  BY <1>2, <1>7, <1>10 DEF RequestCrashes, Final, GatherReturns, Frame
<1>11. CASE EmitLlmCall \/ EmitRetry \/ Backoff \/ EmitFallback \/ StartTools
            \/ \E n \in 0..MaxCalls : Respond(n)
  BY <1>2, <1>11 DEF EmitLlmCall, EmitRetry, Backoff, EmitFallback, StartTools, Respond, Go
<1> QED BY <1>4, <1>5, <1>6, <1>8, <1>9, <1>10, <1>11 DEF RunStep

\* A run, with all its retries, fallbacks and concurrent tools, does towards the
\* RPC endpoint only what RpcGateway lets a run do: it is cancelled at most once,
\* ends once, ends "cancelled" only if it was, and after a cancellation ends in
\* another way only if the cancellation was lost or a send or a tool task raised.
THEOREM ImplementsRunContract == Spec => Contract!Spec
<1>1. Init => Contract!Init
  BY DEF Init, Contract!Init, Outcome, Asked
<1>2. Frame /\ Ends /\ TypeOK' /\ [Next]_vars
        => [Contract!Next]_<<Outcome, Asked, gone>>
  <2> SUFFICES ASSUME Frame, Ends, TypeOK', [Next]_vars
               PROVE  Contract!Next \/ UNCHANGED <<Outcome, Asked, gone>>
    OBVIOUS
  <2>1. CASE UNCHANGED vars
    BY <2>1 DEF vars, ext, Outcome, Asked
  <2>2. CASE RunStep
    BY <2>2, RunStepsKeepContract
  <2>3. CASE ClientLeaves
    BY <2>3 DEF ClientLeaves, Contract!Next, Contract!Leave, Outcome, Asked
  <2>4. CASE Cancel
    BY <2>4 DEF Cancel, Awaiting, Contract!Next, Contract!Cancel, Outcome, Asked
  <2>5. CASE LoseCancel
    BY <2>5 DEF LoseCancel, Contract!Next, Contract!LoseCancel, Outcome, Asked
  <2>6. ASSUME NEW i \in Calls, ToolStep(i) \/ ToolLosesCancel(i)
        PROVE  UNCHANGED <<Outcome, Asked, gone>>
    <3>1. UNCHANGED <<pc, status, kill, gone>>
      BY <2>6 DEF ToolStep, ToolLosesCancel, ToolAllowed, ToolDenied, DenialSent, ToolReturns,
                  ResultSent, ToolEmitFails, ToolCrashes, ToolCancelled, Step, ext
    <3> QED BY <3>1 DEF Outcome, Asked
  <2> QED BY <2>1, <2>2, <2>3, <2>4, <2>5, <2>6 DEF Next
<1>3. Frame => TypeOK
  BY DEF Frame
<1> QED BY <1>1, <1>2, <1>3, FrameInvariant, EndsInvariant, PTL DEF Spec, Contract!Spec

===============================================================================
