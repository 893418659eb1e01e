----------------------------- MODULE MCPManager -----------------------------
(***************************************************************************)
(* The lifecycle of the MCP servers: MCPManager of                         *)
(* src/gateway/mcp/manager.py with the startup and shutdown of the lifespan*)
(* in src/gateway/main.py.  start_all spawns the servers one by one and    *)
(* gives each a monitor task; a monitor that finds its process dead spawns *)
(* the next one; stop_all cancels the monitors and stops the transports    *)
(* one by one.                                                             *)
(*                                                                         *)
(* The processes of a server are numbered; a transport is the number of    *)
(* its process.  What a transport does with requests is the module         *)
(* MCPTransport; here a handshake succeeds or fails.  The tools of a       *)
(* server in the registry are represented by the processes that listed     *)
(* them.                                                                   *)
(***************************************************************************)
EXTENDS Integers, FiniteSets

CONSTANTS
    NServers,      \* servers, numbered in the order of config.mcp_servers
    MaxRestarts,   \* bound: restarts of one server
    LostCancel     \* can wait_for drop a cancellation (Python 3.11)?

ASSUME ManagerAssumption ==
    NServers \in Nat /\ MaxRestarts \in Nat /\ LostCancel \in BOOLEAN

Server  == 1..NServers
Process == 1..(MaxRestarts + 1)

VARIABLES
    phase,     \* the lifespan: start_all, requests are served, stop_all
    at,        \* the server start_all or stop_all is at
    bound,     \* state.transport: its process, 0 for None
    alive,     \* the processes that have not exited
    spawned,   \* number of processes started
    job,       \* where _spawn_and_init is
    monitor,   \* the monitor task
    cancelled, \* cancellation of the monitor requested, not yet delivered
    tools,     \* the processes whose tools are in the registry
    restarts,  \* restart_count
    gauge      \* the mcp_servers_running metric

main  == <<phase, at>>
state == <<bound, alive, spawned, tools>>
vars  == <<main, state, job, monitor, cancelled, restarts, gauge>>

TypeOK ==
    /\ phase \in {"booting", "serving", "stopping", "closing", "down"}
    /\ at \in 1..(NServers + 1)
    /\ bound \in [Server -> {0} \cup Process]
    /\ alive \in [Server -> SUBSET Process]
    /\ spawned \in [Server -> {0} \cup Process]
    /\ job \in [Server -> {"none", "starting", "handshake", "listing", "reaping",
                           "terminating"}]
    /\ monitor \in [Server -> {"none", "asleep", "busy", "ended"}]
    /\ cancelled \in [Server -> BOOLEAN]
    /\ tools \in [Server -> SUBSET Process]
    /\ restarts \in [Server -> 0..MaxRestarts]
    /\ gauge \in [Server -> {0, 1}]

Init ==
    /\ phase = IF NServers = 0 THEN "serving" ELSE "booting"
    /\ at = 1
    /\ bound = [s \in Server |-> 0]
    /\ alive = [s \in Server |-> {}]
    /\ spawned = [s \in Server |-> 0]
    /\ job = [s \in Server |-> "none"]
    /\ monitor = [s \in Server |-> "none"]
    /\ cancelled = [s \in Server |-> FALSE]
    /\ tools = [s \in Server |-> {}]
    /\ restarts = [s \in Server |-> 0]
    /\ gauge = [s \in Server |-> 0]

Running(s) == bound[s] \in alive[s]

Exit(s, p) ==
    /\ p \in alive[s]
    /\ alive' = [alive EXCEPT ![s] = @ \ {p}]
    /\ UNCHANGED <<main, bound, spawned, tools, job, monitor, cancelled, restarts, gauge>>

-----------------------------------------------------------------------------
(* _spawn_and_init, awaited by start_all or by the monitor of the server.  *)

At(s, stage) == job[s] = stage /\ ~cancelled[s]

GoTo(s, stage) ==
    /\ job' = [job EXCEPT ![s] = stage]
    /\ UNCHANGED <<main, monitor, cancelled, restarts, gauge>>

\* Mutant of Finish: only the lifespan sets the gauge.
FinishSilently(s, ok, b) ==
    /\ job' = [job EXCEPT ![s] = "none"]
    /\ monitor' = [monitor EXCEPT ![s] = "asleep"]
    /\ IF monitor[s] = "busy"
       THEN UNCHANGED <<main, gauge>>
       ELSE /\ at' = at + 1
            /\ IF s < NServers
               THEN UNCHANGED <<phase, gauge>>
               ELSE /\ phase' = "serving"
                    /\ gauge' = [t \in Server |->
                                   IF (IF t = s THEN b ELSE bound[t]) \in alive'[t]
                                   THEN 1 ELSE 0]
    /\ UNCHANGED <<cancelled, restarts>>

\* It returns ok to the monitor, which sets the gauge, or to start_all, which
\* creates the monitor and goes on; b is what state.transport then is.
Finish(s, ok, b) ==
    /\ job' = [job EXCEPT ![s] = "none"]
    /\ monitor' = [monitor EXCEPT ![s] = "asleep"]
    /\ IF monitor[s] = "busy"
       THEN /\ gauge' = [gauge EXCEPT ![s] = IF ok THEN 1 ELSE @]
            /\ UNCHANGED main
       ELSE /\ at' = at + 1
            /\ IF s < NServers
               THEN UNCHANGED <<phase, gauge>>
               ELSE /\ phase' = "serving"
                    /\ gauge' = [t \in Server |->
                                   IF (IF t = s THEN b ELSE bound[t]) \in alive'[t]
                                   THEN 1 ELSE 0]
    /\ UNCHANGED <<cancelled, restarts>>

\* transport.start() made a process, or it raised: then the except clause
\* stops what state.transport still is, the dead one, if there is one.
Started(s) ==
    /\ At(s, "starting")
    /\ LET p == spawned[s] + 1
       IN  /\ spawned' = [spawned EXCEPT ![s] = p]
           /\ bound' = [bound EXCEPT ![s] = p]
           /\ alive' = [alive EXCEPT ![s] = @ \cup {p}]
    /\ UNCHANGED tools
    /\ GoTo(s, "handshake")

StartRaises(s) ==
    /\ At(s, "starting")
    /\ UNCHANGED state
    /\ IF bound[s] = 0 THEN Finish(s, FALSE, 0)
       ELSE \E stage \in {"reaping", "terminating"} : GoTo(s, stage)

Initialized(s) ==
    /\ At(s, "handshake")
    /\ GoTo(s, "listing") /\ UNCHANGED state

\* _cache_tools: the tools enter the registry without an await in between.
Listed(s) ==
    /\ At(s, "listing")
    /\ tools' = [tools EXCEPT ![s] = @ \cup {bound[s]}]
    /\ UNCHANGED <<bound, alive, spawned>>
    /\ Finish(s, TRUE, bound[s])

\* A timeout, an error reply, a closed transport; a malformed entry may raise
\* after the tools before it were registered.  stop() first awaits the reader,
\* if that is still reading.
SetupRaises(s) ==
    /\ At(s, "handshake") \/ At(s, "listing")
    /\ \/ UNCHANGED tools
       \/ At(s, "listing") /\ tools' = [tools EXCEPT ![s] = @ \cup {bound[s]}]
    /\ UNCHANGED <<bound, alive, spawned>>
    /\ \E stage \in {"reaping", "terminating"} : GoTo(s, stage)

ReaderReaped(s) ==
    /\ At(s, "reaping")
    /\ GoTo(s, "terminating") /\ UNCHANGED state

\* The process is gone, the transport dropped.
Terminated(s) ==
    /\ At(s, "terminating")
    /\ alive' = [alive EXCEPT ![s] = @ \ {bound[s]}]
    /\ bound' = [bound EXCEPT ![s] = 0]
    /\ UNCHANGED <<spawned, tools>>
    /\ Finish(s, FALSE, 0)

Setup(s) == \/ Started(s) \/ StartRaises(s) \/ Initialized(s) \/ Listed(s)
            \/ SetupRaises(s) \/ ReaderReaped(s) \/ Terminated(s)

-----------------------------------------------------------------------------
(* start_all and the monitors.                                             *)

StartNext ==
    /\ phase = "booting" /\ at <= NServers /\ job[at] = "none" /\ monitor[at] = "none"
    /\ UNCHANGED state
    /\ GoTo(at, "starting")

\* Mutants of Poll: a server that was not running when the gateway came up is not
\* watched; the tools of the dead process stay registered.
PollReported(s) ==
    /\ monitor[s] = "asleep" /\ ~cancelled[s] /\ gauge[s] = 1
    /\ bound[s] # 0 /\ ~Running(s) /\ restarts[s] < MaxRestarts
    /\ tools' = [tools EXCEPT ![s] = {}]
    /\ restarts' = [restarts EXCEPT ![s] = @ + 1]
    /\ monitor' = [monitor EXCEPT ![s] = "busy"]
    /\ job' = [job EXCEPT ![s] = "starting"]
    /\ UNCHANGED <<main, bound, alive, spawned, cancelled, gauge>>

PollKeeping(s) ==
    /\ monitor[s] = "asleep" /\ ~cancelled[s]
    /\ bound[s] # 0 /\ ~Running(s) /\ restarts[s] < MaxRestarts
    /\ restarts' = [restarts EXCEPT ![s] = @ + 1]
    /\ monitor' = [monitor EXCEPT ![s] = "busy"]
    /\ job' = [job EXCEPT ![s] = "starting"]
    /\ UNCHANGED <<main, bound, alive, spawned, tools, cancelled, gauge>>

\* The monitor wakes: with no transport or a running process it sleeps again,
\* otherwise it drops the tools, counts the restart and spawns.
Poll(s) ==
    /\ monitor[s] = "asleep" /\ ~cancelled[s]
    /\ bound[s] # 0 /\ ~Running(s) /\ restarts[s] < MaxRestarts
    /\ tools' = [tools EXCEPT ![s] = {}]
    /\ restarts' = [restarts EXCEPT ![s] = @ + 1]
    /\ monitor' = [monitor EXCEPT ![s] = "busy"]
    /\ job' = [job EXCEPT ![s] = "starting"]
    /\ UNCHANGED <<main, bound, alive, spawned, cancelled, gauge>>

\* The CancelledError reaches the monitor: it ends, and _spawn_and_init with
\* it, unless the latter awaits the reader in stop(), which swallows it (as
\* wait_for may: LoseCancel).
MonitorCancelled(s) ==
    /\ cancelled[s]
    /\ cancelled' = [cancelled EXCEPT ![s] = FALSE]
    /\ IF job[s] = "reaping"
       THEN job' = [job EXCEPT ![s] = "terminating"] /\ UNCHANGED monitor
       ELSE /\ job' = [job EXCEPT ![s] = "none"]
            /\ monitor' = [monitor EXCEPT ![s] = "ended"]
    /\ UNCHANGED <<main, state, restarts, gauge>>

\* Python 3.11: the reply to initialize or tools/list, or the exit that stop()
\* waits for, was there when the cancellation came; wait_for returns it (or raises
\* the error it is) and the cancellation is gone.
LoseCancel(s) ==
    /\ LostCancel /\ cancelled[s]
    /\ job[s] \in {"handshake", "listing", "terminating"}
    /\ cancelled' = [cancelled EXCEPT ![s] = FALSE]
    /\ UNCHANGED <<main, state, job, monitor, restarts, gauge>>

-----------------------------------------------------------------------------
(* stop_all: "stopping" awaits the monitor, "closing" the transport.       *)

StopAll ==
    /\ phase = "serving"
    /\ at' = 1
    /\ gauge' = [s \in Server |-> 0]
    /\ IF NServers = 0 THEN phase' = "down" /\ UNCHANGED cancelled
       ELSE phase' = "stopping" /\ cancelled' = [cancelled EXCEPT ![1] = TRUE]
    /\ UNCHANGED <<state, job, monitor, restarts>>

\* Mutant of MonitorReaped: the cancelled monitor is not awaited.
MonitorNotReaped ==
    /\ phase = "stopping"
    /\ phase' = "closing"
    /\ UNCHANGED <<at, state, job, monitor, cancelled, restarts, gauge>>

MonitorReaped ==
    /\ phase = "stopping" /\ monitor[at] = "ended"
    /\ phase' = "closing"
    /\ UNCHANGED <<at, state, job, monitor, cancelled, restarts, gauge>>

\* Mutant of TransportStopped: a process that ignores SIGTERM is not killed.
TransportStoppedGently ==
    /\ phase = "closing" /\ ~Running(at)
    /\ at' = at + 1
    /\ IF at = NServers THEN phase' = "down" /\ UNCHANGED cancelled
       ELSE phase' = "stopping" /\ cancelled' = [cancelled EXCEPT ![at + 1] = TRUE]
    /\ UNCHANGED <<state, job, monitor, restarts, gauge>>

\* The transport of this server is stopped; on to the next.
TransportStopped ==
    /\ phase = "closing"
    /\ alive' = [alive EXCEPT ![at] = @ \ {bound[at]}]
    /\ at' = at + 1
    /\ IF at = NServers THEN phase' = "down" /\ UNCHANGED cancelled
       ELSE phase' = "stopping" /\ cancelled' = [cancelled EXCEPT ![at + 1] = TRUE]
    /\ UNCHANGED <<bound, spawned, tools, job, monitor, restarts, gauge>>

-----------------------------------------------------------------------------
Stopping == MonitorReaped \/ TransportStopped
Tasks(s) == Setup(s) \/ Poll(s) \/ MonitorCancelled(s)

Next == \/ StartNext \/ StopAll \/ Stopping
        \/ \E s \in Server : Tasks(s) \/ LoseCancel(s) \/ \E p \in Process : Exit(s, p)

Spec == Init /\ [][Next]_vars

\* Tasks of the event loop; every await of the setup has a timeout, the sleep
\* of a monitor ends, and stop() kills after five seconds.
FairSpec == /\ Spec /\ WF_vars(StartNext) /\ WF_vars(Stopping)
            /\ \A s \in Server : WF_vars(Tasks(s))

-----------------------------------------------------------------------------
(* Properties                                                              *)

\* A tool call is never sent to a process that did not list the tool: whatever
\* restarts happened, what the registry holds for a running server came from
\* the process that state.transport is connected to (manager.py:112-120).
DispatchFresh == \A s \in Server : Running(s) => tools[s] \subseteq {bound[s]}

\* No process is left behind: a process that is alive is the one its server's
\* state.transport is connected to, so that stop_all can reach it, and once
\* stop_all has dealt with a server, its monitor has ended, nothing is being
\* spawned for it and none of its processes runs.
NoProcessLost ==
    \A s \in Server :
        /\ alive[s] \subseteq {bound[s]}
        /\ phase = "down" \/ (phase \in {"stopping", "closing"} /\ s < at) =>
              monitor[s] = "ended" /\ job[s] = "none" /\ alive[s] = {}

\* The gauge, "1 if MCP server is running, 0 otherwise" (metrics.py:83), while
\* requests are served and the monitor of the server rests: a server that runs
\* is shown, whatever was started or restarted when; one without a transport is
\* shown only if it was up once, and its restart failed.
GaugeFollowsServers ==
    \A s \in Server : (phase = "serving" /\ monitor[s] = "asleep") =>
        /\ Running(s) => gauge[s] = 1
        /\ gauge[s] = 1 /\ bound[s] = 0 => restarts[s] > 0

\* A server that is found dead while requests are served is started again, or
\* given up, or the gateway shuts down.
DeadServerHandled ==
    \A s \in Server :
        (phase = "serving" /\ bound[s] # 0 /\ ~Running(s) /\ restarts[s] < MaxRestarts)
            ~> (Running(s) \/ bound[s] = 0 \/ restarts[s] = MaxRestarts \/ phase # "serving")

\* stop_all awaits a monitor whose cancellation was swallowed: by stop(), as it
\* awaited the reader, or on Python 3.11 by wait_for, with the reply or the exit
\* there already.  The monitor goes back to its loop, and nobody cancels it again.
Deaf(s) == phase = "stopping" /\ at = s /\ monitor[s] # "ended" /\ ~cancelled[s]

\* stop_all returns, unless it awaits such a monitor.
StopAllReturns ==
    (phase = "stopping") ~> (phase = "down" \/ \E s \in Server : Deaf(s))

\* manager.py:233, the log line of a failed restart: "failed to restart; will
\* retry".  A server given up by its monitor is tried again before shutdown.
FailedRestartIsRetried ==
    \A s \in Server :
        (phase = "serving" /\ restarts[s] > 0 /\ bound[s] = 0)
            ~> (job[s] # "none" \/ phase # "serving")

=============================================================================
