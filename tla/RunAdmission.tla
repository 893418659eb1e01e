---------------------------- MODULE RunAdmission ----------------------------
(***************************************************************************)
(* What the gateway promises about agent requests, whatever the transport: *)
(* a request is accepted, its run starts only while fewer than MaxRuns     *)
(* runs are in progress, and the client is told "ok" or "error" at most    *)
(* once, after the run has ended and with the run's own outcome.  A client *)
(* that leaves voids its request: it is told nothing more.                 *)
(*                                                                         *)
(* src/gateway/main.py:139-140 and 406-411 state the promise; RpcGateway   *)
(* implements it.                                                          *)
(***************************************************************************)
EXTENDS Naturals, FiniteSets

CONSTANTS Conn, MaxRuns

VARIABLES
    job,   \* the request of a connection: where its run is
    told   \* the last thing its client was told of it
vars == <<job, told>>

Running == {c \in Conn : job[c] = "running"}

AdmissionInit ==
    /\ job = [c \in Conn |-> "idle"]
    /\ told = [c \in Conn |-> "none"]

Forget(c) ==
    /\ job[c] = "idle"
    /\ told' = [told EXCEPT ![c] = "none"]
    /\ UNCHANGED job

Accept(c) ==
    /\ job[c] = "idle"
    /\ job' = [job EXCEPT ![c] = "accepted"]
    /\ told' = [told EXCEPT ![c] = "accepted"]

Start(c) ==
    /\ job[c] = "accepted"
    /\ Cardinality(Running) < MaxRuns
    /\ job' = [job EXCEPT ![c] = "running"]
    /\ UNCHANGED told

End(c, o) ==
    /\ job[c] = "running"
    /\ job' = [job EXCEPT ![c] = o]
    /\ UNCHANGED told

Void(c) ==
    /\ job[c] = "accepted"
    /\ job' = [job EXCEPT ![c] = "void"]
    /\ UNCHANGED told

Tell(c) ==
    /\ job[c] \in {"ok", "failed"}
    /\ told' = [told EXCEPT ![c] = IF job[c] = "ok" THEN "ok" ELSE "error"]
    /\ job' = [job EXCEPT ![c] = "idle"]

Abandon(c) ==
    /\ job[c] \in {"ok", "failed", "void"}
    /\ job' = [job EXCEPT ![c] = "idle"]
    /\ UNCHANGED told

AdmissionNext == \E c \in Conn :
    \/ Forget(c) \/ Accept(c) \/ Start(c) \/ Void(c) \/ Tell(c) \/ Abandon(c)
    \/ \E o \in {"ok", "failed", "void"} : End(c, o)

AdmissionSpec == AdmissionInit /\ [][AdmissionNext]_vars
=============================================================================
