----------------------------- MODULE RpcGateway -----------------------------
(***************************************************************************)
(* The /rpc WebSocket endpoint of src/gateway/main.py: one handler task    *)
(* per connection, the run task and the disconnect watcher it spawns for   *)
(* an "agent" request, and the asyncio.Semaphore that caps the number of   *)
(* agent runs of the whole gateway.                                        *)
(*                                                                         *)
(* Everything runs on one event loop, so a step of this module is the code *)
(* between two awaits that may suspend.  What a run does between its start *)
(* and its end is abstracted to trace frames and an outcome (the module    *)
(* AgentRunner opens it); payloads are dropped; a frame is read as one of  *)
(* the kinds the handler tells apart.                                      *)
(***************************************************************************)
EXTENDS Integers, FiniteSets

CONSTANTS
    Conn,        \* connections; an identity is reused after it was closed
    Key,         \* session keys
    MaxRuns,     \* limits.max_concurrent_runs
    MaxBacklog,  \* bound: frames received by the server and not yet read
    LostCancel   \* can wait_for drop a cancellation (Python 3.11) or not (3.12+)

ASSUME GatewayAssumption ==
    /\ IsFiniteSet(Conn)
    /\ MaxRuns \in Nat        \* asyncio.Semaphore rejects negative values only
    /\ MaxBacklog \in Nat
    /\ LostCancel \in BOOLEAN

VARIABLES
    pc,        \* where the handler of a connection is
    auth,      \* has the connection presented the operator token?
    gone,      \* has the client left?
    backlog,   \* frames that arrived and wait to be read
    watch,     \* the disconnect watcher task
    run,       \* the run task
    kill,      \* cancellation requested, not yet delivered to the run task
    permits,   \* run_semaphore._value
    ahead,     \* for a waiter of the semaphore: the waiters before it
    wire,      \* the last frame sent for the latest agent request
    sessions   \* SessionManager._sessions

sem  == <<permits, ahead>>
net  == <<gone, backlog>>
vars == <<pc, auth, gone, backlog, watch, run, kill, permits, ahead, wire, sessions>>

Done    == {"ok", "failed", "crashed", "cancelled"}
Waiting == {"queued", "granted", "dropped"}

RunState == {"none", "created", "running"} \cup Waiting \cup Done

TypeOK ==
    /\ pc \in [Conn -> {"off", "recv", "answer", "accept", "wait", "unwatch",
                        "respond", "reap"}]
    /\ auth \in [Conn -> BOOLEAN]
    /\ gone \in [Conn -> BOOLEAN]
    /\ backlog \in [Conn -> 0..MaxBacklog]
    /\ watch \in [Conn -> {"none", "watching", "seen"}]
    /\ run \in [Conn -> RunState]
    /\ kill \in [Conn -> BOOLEAN]
    /\ permits \in 0..MaxRuns
    /\ ahead \in [Conn -> SUBSET Conn]
    /\ wire \in [Conn -> {"none", "accepted", "trace", "ok", "error"}]
    /\ sessions \subseteq Key

Init ==
    /\ pc = [c \in Conn |-> "off"]
    /\ auth = [c \in Conn |-> FALSE]
    /\ gone = [c \in Conn |-> FALSE]
    /\ backlog = [c \in Conn |-> 0]
    /\ watch = [c \in Conn |-> "none"]
    /\ run = [c \in Conn |-> "none"]
    /\ kill = [c \in Conn |-> FALSE]
    /\ permits = MaxRuns
    /\ ahead = [c \in Conn |-> {}]
    /\ wire = [c \in Conn |-> "none"]
    /\ sessions = {}

-----------------------------------------------------------------------------
(* asyncio.Semaphore as CPython 3.11 implements it.  A waiter's future is  *)
(* pending while its task is "queued", has a result while it is "granted", *)
(* is cancelled while it is "dropped"; it stays in _waiters until its task *)
(* runs again.                                                             *)

In(S)   == {c \in Conn : run[c] \in S}
Queued  == In({"queued"})
Waiters == In(Waiting)

\* Mutant of Locked: a check of the value only.
LockedByValue   == permits = 0

\* locked(): no permit, or a waiter that is not cancelled.
Locked == permits = 0 \/ In({"queued", "granted"}) # {}

\* Mutant of WakeNext: any pending waiter may get the permit.
WakeAny(v, r) ==
    \/ Queued = {} /\ permits' = v /\ run' = r
    \/ \E d \in Queued : permits' = v - 1 /\ run' = [r EXCEPT ![d] = "granted"]

\* _wake_up_next() on a semaphore of v permits, after the tasks moved to r:
\* the first pending waiter, if there is one, takes a permit.
WakeNext(v, r) ==
    \/ /\ Queued = {}
       /\ permits' = v
       /\ run' = r
    \/ \E d \in Queued :
          /\ ahead[d] \cap Queued = {}
          /\ permits' = v - 1
          /\ run' = [r EXCEPT ![d] = "granted"]

\* _waiters.remove(fut) for the future of c
LeaveQueue(c) == ahead' = [d \in Conn |-> IF d = c THEN {} ELSE ahead[d] \ {c}]

-----------------------------------------------------------------------------
(* The client and the server's receive queue.                              *)

Open(c) ==
    /\ pc[c] = "off"
    /\ pc' = [pc EXCEPT ![c] = "recv"]
    /\ auth' = [auth EXCEPT ![c] = FALSE]
    /\ gone' = [gone EXCEPT ![c] = FALSE]
    /\ backlog' = [backlog EXCEPT ![c] = 0]
    /\ wire' = [wire EXCEPT ![c] = "none"]
    /\ UNCHANGED <<watch, run, kill, sem, sessions>>

ClientSend(c) ==
    /\ pc[c] # "off" /\ ~gone[c] /\ backlog[c] < MaxBacklog
    /\ backlog' = [backlog EXCEPT ![c] = @ + 1]
    /\ UNCHANGED <<pc, auth, gone, watch, run, kill, sem, wire, sessions>>

ClientLeave(c) ==
    /\ pc[c] # "off" /\ ~gone[c]
    /\ gone' = [gone EXCEPT ![c] = TRUE]
    /\ UNCHANGED <<pc, auth, backlog, watch, run, kill, sem, wire, sessions>>

-----------------------------------------------------------------------------
(* The handler: the receive loop up to the accepted frame.                 *)

\* receive_json() returned a frame.
Read(c) ==
    /\ pc[c] = "recv" /\ backlog[c] > 0
    /\ backlog' = [backlog EXCEPT ![c] = @ - 1]
    /\ UNCHANGED <<gone, watch, run, kill, sem>>

\* Not a "req": ignored.
ReadOther(c) == Read(c) /\ UNCHANGED <<pc, auth, wire, sessions>>

\* Not JSON, or not the shape the handler indexes: the exception ends it.
ReadMalformed(c) ==
    /\ Read(c)
    /\ pc' = [pc EXCEPT ![c] = "off"]
    /\ UNCHANGED <<auth, wire, sessions>>

\* "connect" with the operator token
ReadConnect(c) ==
    /\ Read(c) /\ ~auth[c]
    /\ auth' = [auth EXCEPT ![c] = TRUE]
    /\ pc' = [pc EXCEPT ![c] = "answer"]
    /\ UNCHANGED <<wire, sessions>>

\* Anything the handler answers with an error at once: a wrong token, a
\* method before "connect", an unknown method, agent or session-key prefix.
ReadRefused(c) ==
    /\ Read(c)
    /\ pc' = [pc EXCEPT ![c] = "answer"]
    /\ UNCHANGED <<auth, wire, sessions>>

\* Mutant of ReadAgent: the authentication check is missing.
ReadAgentUnchecked(c, k) ==
    /\ Read(c)
    /\ sessions' = sessions \cup {k}
    /\ wire' = [wire EXCEPT ![c] = "none"]
    /\ pc' = [pc EXCEPT ![c] = "accept"]
    /\ UNCHANGED auth

\* "agent" for a known agent under the session key k
ReadAgent(c, k) ==
    /\ Read(c) /\ auth[c]
    /\ sessions' = sessions \cup {k}
    /\ wire' = [wire EXCEPT ![c] = "none"]
    /\ pc' = [pc EXCEPT ![c] = "accept"]
    /\ UNCHANGED auth

\* receive_json() met the disconnect: WebSocketDisconnect ends the handler.
ReadDisconnect(c) ==
    /\ pc[c] = "recv" /\ gone[c] /\ backlog[c] = 0
    /\ pc' = [pc EXCEPT ![c] = "off"]
    /\ UNCHANGED <<auth, net, watch, run, kill, sem, wire, sessions>>

\* A send to a client that has left raises or is dropped, as the server has it.
SendFails(c) ==
    /\ pc[c] \in {"answer", "accept", "respond"} /\ gone[c]
    /\ pc' = [pc EXCEPT ![c] = "off"]
    /\ run' = [run EXCEPT ![c] = "none"]
    /\ UNCHANGED <<auth, net, watch, kill, sem, wire, sessions>>

Answer(c) ==
    /\ pc[c] = "answer"
    /\ pc' = [pc EXCEPT ![c] = "recv"]
    /\ UNCHANGED <<auth, net, watch, run, kill, sem, wire, sessions>>

\* The accepted frame; then the run task and the watcher are created.
Accept(c) ==
    /\ pc[c] = "accept"
    /\ pc' = [pc EXCEPT ![c] = "wait"]
    /\ wire' = [wire EXCEPT ![c] = "accepted"]
    /\ run' = [run EXCEPT ![c] = "created"]
    /\ watch' = [watch EXCEPT ![c] = "watching"]
    /\ UNCHANGED <<auth, net, kill, sem, sessions>>

-----------------------------------------------------------------------------
(* The disconnect watcher; the run task was created first and so has its   *)
(* first step before the watcher has one.                                  *)

WatchFrame(c) ==
    /\ watch[c] = "watching" /\ run[c] # "created" /\ backlog[c] > 0
    /\ backlog' = [backlog EXCEPT ![c] = @ - 1]
    /\ UNCHANGED <<pc, auth, gone, watch, run, kill, sem, wire, sessions>>

WatchDisconnect(c) ==
    /\ watch[c] = "watching" /\ run[c] # "created" /\ gone[c] /\ backlog[c] = 0
    /\ watch' = [watch EXCEPT ![c] = "seen"]
    /\ UNCHANGED <<pc, auth, net, run, kill, sem, wire, sessions>>

-----------------------------------------------------------------------------
(* The run task: "async with run_semaphore: return await runner.run(...)". *)

Acquire(c) ==
    /\ run[c] = "created"
    /\ \/ /\ ~Locked
          /\ permits' = permits - 1
          /\ run' = [run EXCEPT ![c] = "running"]
          /\ UNCHANGED ahead
       \/ /\ Locked
          /\ run' = [run EXCEPT ![c] = "queued"]
          /\ ahead' = [ahead EXCEPT ![c] = Waiters]
          /\ UNCHANGED permits
    /\ UNCHANGED <<pc, auth, net, watch, kill, wire, sessions>>

\* Mutants of Resume: no second wake-up while a permit is free; a cancellation
\* that arrived with the grant is overlooked.
ResumeQuietly(c) ==
    /\ run[c] = "granted" /\ ~kill[c]
    /\ ahead[c] \cap In({"granted"}) = {}
    /\ LeaveQueue(c)
    /\ run' = [run EXCEPT ![c] = "running"]
    /\ UNCHANGED <<pc, auth, net, watch, kill, permits, wire, sessions>>

ResumeAnyway(c) ==
    /\ run[c] = "granted"
    /\ LeaveQueue(c)
    /\ run' = [run EXCEPT ![c] = "running"]
    /\ UNCHANGED <<pc, auth, net, watch, kill, permits, wire, sessions>>

\* A granted waiter runs again; the loop resumes them in the order granted.
Resume(c) ==
    /\ run[c] = "granted" /\ ~kill[c]
    /\ ahead[c] \cap In({"granted"}) = {}
    /\ LeaveQueue(c)
    /\ LET r == [run EXCEPT ![c] = "running"]
       IN  \/ permits > 0 /\ WakeNext(permits, r)
           \/ permits = 0 /\ run' = r /\ UNCHANGED permits
    /\ UNCHANGED <<pc, auth, net, watch, kill, wire, sessions>>

\* Mutant of ResumeCancelled: the permit is not given back.
ResumeCancelledKeeping(c) ==
    /\ run[c] = "granted" /\ kill[c]
    /\ LeaveQueue(c)
    /\ run' = [run EXCEPT ![c] = "cancelled"]
    /\ kill' = [kill EXCEPT ![c] = FALSE]
    /\ UNCHANGED <<pc, auth, net, watch, permits, wire, sessions>>

\* A granted waiter that was cancelled first hands its permit on.
ResumeCancelled(c) ==
    /\ run[c] = "granted" /\ kill[c]
    /\ LeaveQueue(c)
    /\ WakeNext(permits + 1, [run EXCEPT ![c] = "cancelled"])
    /\ kill' = [kill EXCEPT ![c] = FALSE]
    /\ UNCHANGED <<pc, auth, net, watch, wire, sessions>>

\* A waiter whose future was cancelled leaves the queue.
ResumeDropped(c) ==
    /\ run[c] = "dropped"
    /\ LeaveQueue(c)
    /\ run' = [run EXCEPT ![c] = "cancelled"]
    /\ UNCHANGED <<pc, auth, net, watch, kill, permits, wire, sessions>>

\* Mutant of EndRun: the release wakes nobody.
EndRunSilently(c, o) ==
    /\ run[c] = "running"
    /\ permits' = permits + 1
    /\ run' = [run EXCEPT ![c] = o]
    /\ kill' = [kill EXCEPT ![c] = FALSE]
    /\ UNCHANGED <<pc, auth, net, watch, ahead, wire, sessions>>

\* runner.run() ends with outcome o and the semaphore is released.
EndRun(c, o) ==
    /\ run[c] = "running"
    /\ WakeNext(permits + 1, [run EXCEPT ![c] = o])
    /\ kill' = [kill EXCEPT ![c] = FALSE]
    /\ UNCHANGED <<pc, auth, net, watch, ahead, wire, sessions>>

FinishRun(c, o) == ~kill[c] /\ o \in {"ok", "failed", "crashed"} /\ EndRun(c, o)
AbortRun(c)     == kill[c] /\ EndRun(c, "cancelled")

\* wait_for had its answer when the cancellation came: the run goes on.
LoseCancel(c) ==
    /\ LostCancel /\ run[c] = "running" /\ kill[c]
    /\ kill' = [kill EXCEPT ![c] = FALSE]
    /\ UNCHANGED <<pc, auth, net, watch, run, sem, wire, sessions>>

\* A trace frame of the run; if the send raises, so does the run.
Trace(c) ==
    /\ run[c] = "running" /\ ~kill[c]
    /\ wire' = [wire EXCEPT ![c] = "trace"]
    /\ UNCHANGED <<pc, auth, net, watch, run, kill, sem, sessions>>

\* A send of the run or of one of its tool tasks raises: also when the run is
\* being cancelled, if the exception reaches its gather before it.
TraceFails(c) == gone[c] /\ EndRun(c, "crashed")

-----------------------------------------------------------------------------
(* The handler: after asyncio.wait({run_task, disconnect_task}).           *)

\* Mutant of WakeDisconnected: acts only on a run that is still running.
WakeDisconnectedRunning(c) ==
    /\ pc[c] = "wait" /\ watch[c] = "seen" /\ run[c] = "running"
    /\ pc' = [pc EXCEPT ![c] = "reap"]
    /\ kill' = [kill EXCEPT ![c] = TRUE]
    /\ UNCHANGED <<auth, net, watch, run, sem, wire, sessions>>

\* The watcher is done, the run perhaps too: cancel the run and await it.
WakeDisconnected(c) ==
    /\ pc[c] = "wait" /\ watch[c] = "seen"
    /\ pc' = [pc EXCEPT ![c] = "reap"]
    /\ run' = [run EXCEPT ![c] = IF @ = "queued" THEN "dropped" ELSE @]
    /\ kill' = [kill EXCEPT ![c] = run[c] \in {"granted", "running"}]
    /\ UNCHANGED <<auth, net, watch, sem, wire, sessions>>

\* Mutant of Reap: the cancelled run is not awaited.
ReapAtOnce(c) ==
    /\ pc[c] = "reap"
    /\ pc' = [pc EXCEPT ![c] = "off"]
    /\ watch' = [watch EXCEPT ![c] = "none"]
    /\ UNCHANGED <<auth, net, run, kill, sem, wire, sessions>>

\* await run_task returned or raised; no frame is sent.
Reap(c) ==
    /\ pc[c] = "reap" /\ run[c] \in Done
    /\ pc' = [pc EXCEPT ![c] = "off"]
    /\ run' = [run EXCEPT ![c] = "none"]
    /\ watch' = [watch EXCEPT ![c] = "none"]
    /\ UNCHANGED <<auth, net, kill, sem, wire, sessions>>

\* Only the run is done: cancel the watcher,
WakeDone(c) ==
    /\ pc[c] = "wait" /\ run[c] \in Done /\ watch[c] = "watching"
    /\ pc' = [pc EXCEPT ![c] = "unwatch"]
    /\ watch' = [watch EXCEPT ![c] = "none"]
    /\ UNCHANGED <<auth, net, run, kill, sem, wire, sessions>>

\* await it,
Unwatch(c) ==
    /\ pc[c] = "unwatch"
    /\ pc' = [pc EXCEPT ![c] = "respond"]
    /\ UNCHANGED <<auth, net, watch, run, kill, sem, wire, sessions>>

\* Mutant of Respond: only an AgentRunError is reported as an error.
RespondLeniently(c) ==
    /\ pc[c] = "respond"
    /\ pc' = [pc EXCEPT ![c] = "recv"]
    /\ wire' = [wire EXCEPT ![c] = IF run[c] = "failed" THEN "error" ELSE "ok"]
    /\ run' = [run EXCEPT ![c] = "none"]
    /\ UNCHANGED <<auth, net, watch, kill, sem, sessions>>

\* and send the terminal frame.  Only "except Exception" guards the await of
\* the run task: a cancelled one would end the handler instead.
Respond(c) ==
    /\ pc[c] = "respond"
    /\ IF run[c] = "cancelled"
       THEN pc' = [pc EXCEPT ![c] = "off"] /\ UNCHANGED wire
       ELSE /\ pc' = [pc EXCEPT ![c] = "recv"]
            /\ wire' = [wire EXCEPT ![c] = IF run[c] = "ok" THEN "ok" ELSE "error"]
    /\ run' = [run EXCEPT ![c] = "none"]
    /\ UNCHANGED <<auth, net, watch, kill, sem, sessions>>

-----------------------------------------------------------------------------
Client(c)  == Open(c) \/ ClientSend(c) \/ ClientLeave(c)

Handler(c) ==
    \/ ReadOther(c) \/ ReadMalformed(c) \/ ReadConnect(c) \/ ReadRefused(c)
    \/ \E k \in Key : ReadAgent(c, k)
    \/ ReadDisconnect(c) \/ SendFails(c) \/ Answer(c) \/ Accept(c)
    \/ WakeDisconnected(c) \/ Reap(c) \/ WakeDone(c) \/ Unwatch(c) \/ Respond(c)

Watcher(c) == WatchFrame(c) \/ WatchDisconnect(c)

EndOfRun(c) == \/ \E o \in {"ok", "failed", "crashed"} : FinishRun(c, o)
               \/ AbortRun(c) \/ TraceFails(c)

RunTask(c) ==
    \/ Acquire(c) \/ Resume(c) \/ ResumeCancelled(c) \/ ResumeDropped(c)
    \/ LoseCancel(c) \/ Trace(c) \/ EndOfRun(c)

Next == \E c \in Conn : Client(c) \/ Handler(c) \/ Watcher(c) \/ RunTask(c)

Spec == Init /\ [][Next]_vars

\* The loop runs every ready task; a run ends because each of its LLM and tool
\* calls has a timeout and its iterations are bounded.
Fairness ==
    \A c \in Conn :
        /\ WF_vars(Handler(c))
        /\ WF_vars(Watcher(c))
        /\ WF_vars(Acquire(c) \/ Resume(c) \/ ResumeCancelled(c) \/ ResumeDropped(c))
        /\ WF_vars(EndOfRun(c))

FairSpec == Spec /\ Fairness

-----------------------------------------------------------------------------
(* Properties                                                              *)

\* The tasks that hold a permit: they run, or were woken to run.
Holders == In({"running", "granted"})

\* Every permit is either free or held by exactly one live run task, whatever
\* mixture of completions, queueing, disconnects and cancellations came before:
\* max_concurrent_runs is never exceeded, no permit is lost when a queued or
\* just granted run is cancelled, and /health's active_runs
\* (max - _value, main.py:356) counts exactly the holders.
PermitConservation == permits + Cardinality(Holders) = MaxRuns

\* A request never sleeps beside a free permit: if one is free while a waiter
\* is pending, a granted waiter is about to run and will pass the wake-up on.
NoLostWakeup ==
    (permits > 0 /\ Queued # {}) => In({"granted"}) # {}

\* Waiters are granted in the order in which they queued ("queues rather than
\* rejecting", main.py:139): nobody is granted past a pending waiter before it.
FifoGrants ==
    \A c, d \in Waiters :
        run[c] = "granted" /\ d \in ahead[c] => run[d] # "queued"

\* The tasks of a request do not outlive the handler that awaits them, and a
\* handler about to answer has the outcome of a run that was not cancelled.
NoOrphanTask ==
    \A c \in Conn :
        /\ pc[c] \notin {"wait", "reap", "unwatch", "respond"} => run[c] = "none"
        /\ pc[c] \notin {"wait", "reap"} => watch[c] = "none"
        /\ pc[c] = "respond" => run[c] \in {"ok", "failed", "crashed"}

\* No agent work and no session for a connection that did not present the
\* operator token on this very connection (main.py:448).
AuthBeforeRun ==
    \A c \in Conn : (pc[c] = "accept" \/ run[c] # "none") => auth[c]

\* A run starts only after every request that queued before it has started or
\* was cancelled; a fresh request never barges past waiting ones.
NoOvertaking ==
    [][\A c \in Conn :
          (run[c] # "running" /\ run'[c] = "running") =>
             \A d \in (IF run[c] = "created" THEN Conn ELSE ahead[c]) \ {c} :
                 run[d] \notin {"queued", "granted"}]_vars

\* Once the handler has seen its client leave, a run that has not started never
\* starts, even if it was granted a permit meanwhile (main.py:557-561), and
\* nothing but the run's own last trace frames is sent.
NoStartAfterDisconnect ==
    [][\A c \in Conn : pc[c] = "reap" =>
          /\ run[c] # "running" => run'[c] # "running"
          /\ wire'[c] \in {wire[c], "trace"}]_vars

\* The gateway implements RunAdmission: at most MaxRuns runs at a time, at most
\* one terminal frame per accepted request, carrying its own run's outcome.
JobOf(r) ==
    CASE r = "none" -> "idle"
      [] r = "running" -> "running"
      [] r = "ok" -> "ok"
      [] r \in {"failed", "crashed"} -> "failed"
      [] r = "cancelled" -> "void"
      [] OTHER -> "accepted"

ToldOf(w) == IF w = "trace" THEN "accepted" ELSE w

Admission == INSTANCE RunAdmission WITH
    job  <- [c \in Conn |-> JobOf(run[c])],
    told <- [c \in Conn |-> ToldOf(wire[c])]

ImplementsAdmission == Admission!AdmissionSpec

\* Every accepted request is settled: its client gets a terminal frame, or the
\* client left and the handler ended.
EveryRequestSettles ==
    \A c \in Conn :
        pc[c] = "wait" ~> (wire[c] \in {"ok", "error"} \/ pc[c] = "off")

\* Whatever a departed client's handler was doing, queued run included, it ends.
DepartedHandlerEnds == \A c \in Conn : gone[c] ~> pc[c] = "off"
=============================================================================
