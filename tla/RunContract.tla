---------------------------- MODULE RunContract ----------------------------
(***************************************************************************)
(* What the RPC endpoint (RpcGateway) expects of one run it has started:   *)
(* the outcome the run task ends with, and how it answers a cancellation.  *)
(* AgentRunner implements it, for its instance see AgentRunnerProofs.      *)
(*                                                                         *)
(* RpcGateway tells the AgentRunError ("failed") from other exceptions     *)
(* ("crashed"); both are "failed" here.                                    *)
(***************************************************************************)
CONSTANT LostCancel   \* can wait_for drop a cancellation (Python 3.11)?

VARIABLES
    run,    \* the run task
    asked,  \* run_task.cancel(): not called, called, or dropped by wait_for
    gone    \* has the client left?

Init == run = "running" /\ asked = "no" /\ gone = FALSE

Leave ==
    /\ run = "running" /\ ~gone
    /\ gone' = TRUE
    /\ UNCHANGED <<run, asked>>

\* The disconnect watcher saw it: only then, and only once.
Cancel ==
    /\ run = "running" /\ gone /\ asked = "no"
    /\ asked' = "yes"
    /\ UNCHANGED <<run, gone>>

LoseCancel ==
    /\ LostCancel /\ run = "running" /\ asked = "yes"
    /\ asked' = "lost"
    /\ UNCHANGED <<run, gone>>

End(outcome) == run = "running" /\ run' = outcome /\ UNCHANGED <<asked, gone>>

\* RpcGateway's FinishRun, AbortRun and TraceFails: without a cancellation a run
\* ends by itself, with one it ends cancelled or because a send or a tool task raised.
Finish    == asked # "yes" /\ \E o \in {"ok", "failed"} : End(o)
Abort     == asked = "yes" /\ End("cancelled")
TaskFails == gone /\ End("failed")

Next == Leave \/ Cancel \/ LoseCancel \/ Finish \/ Abort \/ TaskFails

Spec == Init /\ [][Next]_<<run, asked, gone>>
=============================================================================
