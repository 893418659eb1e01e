-------------------------- MODULE MCPManagerProofs --------------------------
(***************************************************************************)
(* Proofs about MCPManager for any number of servers and of restarts: no   *)
(* process is lost, the registry is fresh, and the gauge follows.          *)
(***************************************************************************)
EXTENDS MCPManager, TLAPS

\* stop_all is done with s, or with its monitor.
Passed(s) == phase = "down" \/ (phase \in {"stopping", "closing"} /\ s < at)
Reaped(s) == Passed(s) \/ (phase = "closing" /\ s = at)

\* Who awaits _spawn_and_init: the monitor, busy with a restart, or start_all
\* before there is one.
Watched(s) ==
    /\ monitor[s] = "busy" => job[s] # "none" /\ restarts[s] > 0
    /\ monitor[s] \in {"asleep", "ended"} => job[s] = "none"
    /\ monitor[s] = "none" => /\ phase = "booting" /\ at <= s
                              /\ job[s] # "none" => at = s
    /\ cancelled[s] => phase = "stopping" /\ at = s
    /\ Reaped(s) => monitor[s] = "ended"
    /\ monitor[s] = "ended" => /\ Reaped(s) \/ (phase = "stopping" /\ s = at)
                               /\ ~cancelled[s]

\* The processes of s, and whose tools are registered.
Owned(s) ==
    /\ alive[s] \subseteq {bound[s]}
    /\ Passed(s) => alive[s] = {}
    /\ spawned[s] <= restarts[s] + 1
    /\ job[s] = "starting" => spawned[s] <= restarts[s] /\ alive[s] = {}
    /\ job[s] \in {"handshake", "listing"} => bound[s] # 0
    /\ job[s] \in {"starting", "handshake", "listing"} => tools[s] = {}
    /\ bound[s] # 0 => tools[s] \subseteq {bound[s]}
    /\ monitor[s] = "none" /\ job[s] = "none" => spawned[s] = 0 /\ bound[s] = 0 /\ tools[s] = {}

Shown(s) ==
    phase = "serving" /\ monitor[s] = "asleep" =>
        /\ Running(s) => gauge[s] = 1
        /\ gauge[s] = 1 /\ bound[s] = 0 => restarts[s] > 0

Place == phase \notin {"serving", "down"} => at <= NServers

ManagerInv == /\ TypeOK /\ Place
              /\ \A s \in Server : Watched(s) /\ Owned(s) /\ Shown(s)

-----------------------------------------------------------------------------

LEMMA ManagerInit == Init => ManagerInv
<1> SUFFICES ASSUME Init PROVE ManagerInv
  OBVIOUS
<1>1. TypeOK /\ Place
  BY ManagerAssumption DEF Init, TypeOK, Place, Server
<1>2. ASSUME NEW s \in Server PROVE Watched(s) /\ Owned(s) /\ Shown(s)
  <2>1. /\ bound[s] = 0 /\ alive[s] = {} /\ spawned[s] = 0 /\ job[s] = "none"
        /\ monitor[s] = "none" /\ ~cancelled[s] /\ tools[s] = {} /\ restarts[s] = 0 /\ gauge[s] = 0
        /\ phase = "booting" /\ at = 1 /\ at <= s
    BY <1>2, ManagerAssumption DEF Init, Server
  <2> QED BY <2>1 DEF Watched, Owned, Shown, Passed, Reaped, Running
<1> QED BY <1>1, <1>2 DEF ManagerInv

\* A step for the server s: nothing of the others changes but, at the end of
\* start_all, the gauge.
LEMMA OneServer ==
    ASSUME ManagerInv, NEW s \in Server, TypeOK', Place',
           Watched(s)', Owned(s)', Shown(s)',
           NEW t \in Server, t # s,
           /\ bound'[t] = bound[t] /\ alive'[t] = alive[t] /\ spawned'[t] = spawned[t]
           /\ job'[t] = job[t] /\ monitor'[t] = monitor[t] /\ cancelled'[t] = cancelled[t]
           /\ tools'[t] = tools[t] /\ restarts'[t] = restarts[t],
           \/ UNCHANGED main /\ gauge'[t] = gauge[t]
           \/ /\ phase = "booting" /\ at = s /\ at' = at + 1
              /\ \/ s < NServers /\ phase' = phase
                 \/ s = NServers /\ phase' = "serving" /\ gauge'[t] = (IF Running(t) THEN 1 ELSE 0)
    PROVE  Watched(t)' /\ Owned(t)' /\ Shown(t)'
<1>1. /\ Watched(t) /\ Owned(t) /\ Shown(t) /\ t \in Int /\ s \in Int /\ at \in Int
      /\ t <= NServers /\ s <= NServers /\ NServers \in Int /\ alive[t] \subseteq Process
  BY ManagerAssumption DEF ManagerInv, TypeOK, Server
<1>2. (Running(t)' <=> Running(t)) /\ ~(0 \in alive[t])
  BY <1>1, ManagerAssumption DEF Running, Process
<1>3. CASE UNCHANGED main /\ gauge'[t] = gauge[t]
  BY <1>1, <1>2, <1>3 DEF Watched, Owned, Shown, Passed, Reaped, main
<1>4. CASE /\ phase = "booting" /\ at = s /\ at' = at + 1
           /\ \/ s < NServers /\ phase' = phase
              \/ s = NServers /\ phase' = "serving" /\ gauge'[t] = (IF Running(t) THEN 1 ELSE 0)
  <2>1. ~Passed(t)' /\ ~Reaped(t)' /\ ~Reaped(t) /\ ~cancelled[t]
    BY <1>1, <1>4 DEF Watched, Passed, Reaped
  <2>2. Watched(t)'
    BY <1>1, <1>4, <2>1 DEF Watched
  <2>3. Owned(t)'
    BY <1>1, <1>4, <2>1 DEF Owned
  <2>4. Shown(t)'
    BY <1>1, <1>2, <1>4 DEF Shown, Running
  <2> QED BY <2>2, <2>3, <2>4
<1> QED BY <1>3, <1>4

\* The end of _spawn_and_init, given what its last step did to the processes.
LEMMA FinishKeeps ==
    ASSUME ManagerInv, NEW s \in Server, NEW ok \in BOOLEAN,
           job[s] # "none", ~cancelled[s],
           bound' \in [Server -> {0} \cup Process], alive' \in [Server -> SUBSET Process],
           tools' \in [Server -> SUBSET Process], spawned' = spawned,
           \A t \in Server : t # s =>
               bound'[t] = bound[t] /\ alive'[t] = alive[t] /\ tools'[t] = tools[t],
           alive'[s] \subseteq {bound'[s]} /\ alive'[s] \subseteq alive[s],
           bound'[s] # 0 => tools'[s] \subseteq {bound'[s]},
           ok \/ alive'[s] = {},
           Finish(s, ok, bound'[s])
    PROVE  ManagerInv'
<1>1. /\ Watched(s) /\ Owned(s) /\ s \in Int /\ at \in Int /\ NServers \in Int /\ s <= NServers
      /\ restarts[s] \in Int /\ spawned[s] \in Int /\ 1 <= at /\ ~(0 \in alive'[s])
  BY ManagerAssumption DEF ManagerInv, TypeOK, Server, Process
<1>2. /\ job' = [job EXCEPT ![s] = "none"] /\ monitor' = [monitor EXCEPT ![s] = "asleep"]
      /\ UNCHANGED <<cancelled, restarts>>
  BY DEF Finish
<1>3. /\ job \in [Server -> {"none", "starting", "handshake", "listing", "reaping", "terminating"}]
      /\ monitor \in [Server -> {"none", "asleep", "busy", "ended"}]
      /\ gauge \in [Server -> {0, 1}]
  BY DEF ManagerInv, TypeOK
<1>4. ~Reaped(s) /\ ~Passed(s)
  BY <1>1 DEF Watched, Passed, Reaped
<1>5. CASE monitor[s] = "busy"
  <2>1. UNCHANGED main /\ gauge' = [gauge EXCEPT ![s] = IF ok THEN 1 ELSE @]
    BY <1>5 DEF Finish
  <2>2. TypeOK' /\ Place'
    <3>1. gauge' \in [Server -> {0, 1}]
      BY <1>3, <2>1
    <3> QED BY <1>2, <1>3, <2>1, <3>1 DEF ManagerInv, TypeOK, Place, main
  <2>3. job'[s] = "none" /\ monitor'[s] = "asleep" /\ restarts'[s] > 0 /\ (ok => gauge'[s] = 1)
    BY <1>1, <1>2, <1>3, <1>5, <2>1 DEF Watched
  <2>4. Watched(s)' /\ Owned(s)' /\ Shown(s)'
    <3>1. ~Reaped(s)' /\ ~Passed(s)' /\ ~cancelled'[s]
      BY <1>2, <1>4, <2>1 DEF Passed, Reaped, main
    <3>2. Watched(s)'
      BY <2>3, <3>1 DEF Watched
    <3>3. Owned(s)'
      BY <1>1, <1>2, <2>3, <3>1 DEF Owned
    <3>4. Shown(s)'
      BY <1>1, <2>3 DEF Shown, Running
    <3> QED BY <3>2, <3>3, <3>4
  <2>5. ASSUME NEW t \in Server, t # s PROVE Watched(t)' /\ Owned(t)' /\ Shown(t)'
    <3>1. /\ bound'[t] = bound[t] /\ alive'[t] = alive[t] /\ spawned'[t] = spawned[t]
          /\ job'[t] = job[t] /\ monitor'[t] = monitor[t] /\ cancelled'[t] = cancelled[t]
          /\ tools'[t] = tools[t] /\ restarts'[t] = restarts[t]
          /\ UNCHANGED main /\ gauge'[t] = gauge[t]
      BY <1>2, <1>3, <2>1, <2>5
    <3> QED BY <2>2, <2>4, <2>5, <3>1, OneServer
  <2> QED BY <2>2, <2>4, <2>5 DEF ManagerInv
<1>6. CASE monitor[s] # "busy"
  <2>1. /\ monitor[s] = "none" /\ phase = "booting" /\ at = s /\ at' = at + 1
        /\ \/ s < NServers /\ phase' = phase /\ gauge' = gauge
           \/ /\ s = NServers /\ phase' = "serving"
              /\ gauge' = [t \in Server |-> IF (IF t = s THEN bound'[s] ELSE bound[t]) \in alive'[t]
                                            THEN 1 ELSE 0]
    BY <1>1, <1>3, <1>6 DEF Finish, Watched
  <2>2. TypeOK' /\ Place'
    <3>1. gauge' \in [Server -> {0, 1}]
      BY <1>3, <2>1
    <3>2. at' \in 1..(NServers + 1) /\ (phase' = "booting" => at' <= NServers)
      BY <1>1, <2>1
    <3> QED BY <1>2, <1>3, <2>1, <3>1, <3>2 DEF ManagerInv, TypeOK, Place
  <2>3. /\ job'[s] = "none" /\ monitor'[s] = "asleep" /\ ~Passed(s)' /\ ~Reaped(s)' /\ ~cancelled'[s]
        /\ phase' = "serving" => gauge'[s] = IF bound'[s] \in alive'[s] THEN 1 ELSE 0
    BY <1>2, <1>3, <2>1 DEF Passed, Reaped
  <2>4. Watched(s)' /\ Owned(s)' /\ Shown(s)'
    <3>1. Watched(s)'
      BY <2>3 DEF Watched
    <3>2. Owned(s)'
      BY <1>1, <1>2, <2>3 DEF Owned
    <3>3. Shown(s)'
      BY <1>1, <2>3 DEF Shown, Running
    <3> QED BY <3>1, <3>2, <3>3
  <2>5. ASSUME NEW t \in Server, t # s PROVE Watched(t)' /\ Owned(t)' /\ Shown(t)'
    <3>1. /\ bound'[t] = bound[t] /\ alive'[t] = alive[t] /\ spawned'[t] = spawned[t]
          /\ job'[t] = job[t] /\ monitor'[t] = monitor[t] /\ cancelled'[t] = cancelled[t]
          /\ tools'[t] = tools[t] /\ restarts'[t] = restarts[t]
      BY <1>2, <1>3, <2>5
    <3>2. phase' = "serving" => gauge'[t] = IF Running(t) THEN 1 ELSE 0
      BY <2>1, <2>5, <3>1 DEF Running
    <3> QED BY <2>1, <2>2, <2>4, <2>5, <3>1, <3>2, OneServer
  <2> QED BY <2>2, <2>4, <2>5 DEF ManagerInv
<1> QED BY <1>5, <1>6

-----------------------------------------------------------------------------

\* The other steps for one server leave the lifespan where it is.
LEMMA StepKeeps ==
    ASSUME ManagerInv, NEW s \in Server, TypeOK', UNCHANGED main,
           Watched(s)', Owned(s)', Shown(s)',
           \A t \in Server : t # s =>
               /\ bound'[t] = bound[t] /\ alive'[t] = alive[t] /\ spawned'[t] = spawned[t]
               /\ job'[t] = job[t] /\ monitor'[t] = monitor[t] /\ cancelled'[t] = cancelled[t]
               /\ tools'[t] = tools[t] /\ restarts'[t] = restarts[t] /\ gauge'[t] = gauge[t]
    PROVE  ManagerInv'
<1>1. Place'
  BY DEF ManagerInv, Place, main
<1>2. ASSUME NEW t \in Server PROVE Watched(t)' /\ Owned(t)' /\ Shown(t)'
  <2>1. CASE t # s
    BY <1>1, <2>1, OneServer
  <2> QED BY <2>1
<1> QED BY <1>1, <1>2 DEF ManagerInv

\* A stage of _spawn_and_init is followed by another.
LEMMA StageKeeps ==
    ASSUME ManagerInv, NEW s \in Server, job[s] # "none",
           NEW stage \in {"handshake", "listing", "reaping", "terminating"}, GoTo(s, stage),
           bound' \in [Server -> {0} \cup Process], alive' \in [Server -> SUBSET Process],
           spawned' \in [Server -> {0} \cup Process], tools' \in [Server -> SUBSET Process],
           \A t \in Server : t # s =>
               /\ bound'[t] = bound[t] /\ alive'[t] = alive[t] /\ spawned'[t] = spawned[t]
               /\ tools'[t] = tools[t],
           alive'[s] \subseteq {bound'[s]}, spawned'[s] <= restarts[s] + 1,
           stage \in {"handshake", "listing"} => bound'[s] # 0 /\ tools'[s] = {},
           bound'[s] # 0 => tools'[s] \subseteq {bound'[s]}
    PROVE  ManagerInv'
<1>1. /\ job' = [job EXCEPT ![s] = stage] /\ UNCHANGED <<main, monitor, cancelled, restarts, gauge>>
      /\ job \in [Server -> {"none", "starting", "handshake", "listing", "reaping", "terminating"}]
  BY DEF GoTo, ManagerInv, TypeOK
<1>2. TypeOK'
  BY <1>1 DEF ManagerInv, TypeOK, main
<1>3. Watched(s) /\ Shown(s) /\ job'[s] = stage
  BY <1>1 DEF ManagerInv
<1>4. Watched(s)' /\ Shown(s)'
  BY <1>1, <1>3 DEF Watched, Shown, Passed, Reaped, main
<1>5. Owned(s)'
  <2>1. ~Passed(s)'
    BY <1>1, <1>3 DEF Watched, Passed, Reaped, main
  <2> QED BY <1>1, <1>3, <1>4, <2>1 DEF Owned
<1> QED BY <1>1, <1>2, <1>4, <1>5, StepKeeps

LEMMA SetupKeeps == ASSUME ManagerInv, NEW s \in Server, Setup(s) PROVE ManagerInv'
<1>1. /\ Watched(s) /\ Owned(s) /\ restarts[s] \in Int /\ spawned[s] \in Int
      /\ bound \in [Server -> {0} \cup Process] /\ alive \in [Server -> SUBSET Process]
      /\ spawned \in [Server -> {0} \cup Process] /\ tools \in [Server -> SUBSET Process]
      /\ restarts[s] \in 0..MaxRestarts /\ MaxRestarts \in Nat
  BY ManagerAssumption DEF ManagerInv, TypeOK, Process
<1>2. CASE Started(s)
  <2> DEFINE p == spawned[s] + 1
  <2>1. /\ job[s] = "starting" /\ GoTo(s, "handshake") /\ tools' = tools
        /\ spawned' = [spawned EXCEPT ![s] = p] /\ bound' = [bound EXCEPT ![s] = p]
        /\ alive' = [alive EXCEPT ![s] = alive[s] \cup {p}]
    BY <1>2 DEF Started, At
  <2>2. p \in Process /\ p # 0 /\ alive[s] = {} /\ tools[s] = {} /\ p <= restarts[s] + 1
    BY <1>1, <2>1 DEF Owned, Process
  <2> HIDE DEF p
  <2>3. /\ bound' \in [Server -> {0} \cup Process] /\ alive' \in [Server -> SUBSET Process]
        /\ spawned' \in [Server -> {0} \cup Process]
        /\ bound'[s] = p /\ alive'[s] = {p} /\ spawned'[s] = p
        /\ \A t \in Server : t # s =>
              bound'[t] = bound[t] /\ alive'[t] = alive[t] /\ spawned'[t] = spawned[t]
    BY <1>1, <2>1, <2>2
  <2> QED BY <1>1, <2>1, <2>2, <2>3, StageKeeps
<1>3. CASE StartRaises(s) /\ bound[s] = 0
  <2>1. job[s] = "starting" /\ ~cancelled[s] /\ UNCHANGED state /\ Finish(s, FALSE, 0)
    BY <1>3 DEF StartRaises, At
  <2> QED BY <1>1, <1>3, <2>1, FinishKeeps DEF state, Owned
<1>4. CASE (StartRaises(s) /\ bound[s] # 0) \/ Initialized(s) \/ ReaderReaped(s)
  <2>1. PICK stage \in {"listing", "reaping", "terminating"} :
           /\ GoTo(s, stage) /\ UNCHANGED state /\ job[s] # "none"
           /\ stage = "listing" => job[s] = "handshake"
    BY <1>4 DEF StartRaises, Initialized, ReaderReaped, At
  <2> QED BY <1>1, <2>1, StageKeeps DEF state, Owned
<1>5. CASE Listed(s)
  <2>1. /\ job[s] = "listing" /\ ~cancelled[s] /\ tools' = [tools EXCEPT ![s] = tools[s] \cup {bound[s]}]
        /\ UNCHANGED <<bound, alive, spawned>> /\ Finish(s, TRUE, bound'[s])
    BY <1>5 DEF Listed, At
  <2>2. bound[s] \in Process /\ tools[s] = {}
    BY <1>1, <2>1 DEF Owned
  <2>3. /\ tools' \in [Server -> SUBSET Process] /\ tools'[s] = {bound[s]}
        /\ \A t \in Server : t # s => tools'[t] = tools[t]
    BY <1>1, <2>1, <2>2
  <2> QED BY <1>1, <2>1, <2>3, FinishKeeps DEF Owned
<1>6. CASE SetupRaises(s)
  <2>1. /\ job[s] \in {"handshake", "listing"} /\ UNCHANGED <<bound, alive, spawned>>
        /\ tools' = tools \/ tools' = [tools EXCEPT ![s] = tools[s] \cup {bound[s]}]
    BY <1>6 DEF SetupRaises, At
  <2>2. PICK stage \in {"reaping", "terminating"} : GoTo(s, stage)
    BY <1>6 DEF SetupRaises
  <2>3. bound[s] \in Process /\ tools[s] = {}
    BY <1>1, <2>1 DEF Owned
  <2>4. /\ tools' \in [Server -> SUBSET Process] /\ tools'[s] \subseteq {bound[s]}
        /\ \A t \in Server : t # s => tools'[t] = tools[t]
    BY <1>1, <2>1, <2>3
  <2> QED BY <1>1, <2>1, <2>2, <2>4, StageKeeps DEF Owned
<1>7. CASE Terminated(s)
  <2>1. /\ job[s] = "terminating" /\ ~cancelled[s] /\ UNCHANGED <<spawned, tools>>
        /\ alive' = [alive EXCEPT ![s] = alive[s] \ {bound[s]}] /\ bound' = [bound EXCEPT ![s] = 0]
        /\ Finish(s, FALSE, 0)
    BY <1>7 DEF Terminated, At
  <2>2. /\ bound' \in [Server -> {0} \cup Process] /\ alive' \in [Server -> SUBSET Process]
        /\ bound'[s] = 0 /\ alive'[s] = {}
        /\ \A t \in Server : t # s => bound'[t] = bound[t] /\ alive'[t] = alive[t]
    BY <1>1, <2>1 DEF Owned
  <2> QED BY <1>1, <2>1, <2>2, FinishKeeps
<1> QED BY <1>2, <1>3, <1>4, <1>5, <1>6, <1>7 DEF Setup

\* A restart begins only where nothing runs.
LEMMA PollKeeps == ASSUME ManagerInv, NEW s \in Server, Poll(s) PROVE ManagerInv'
<1>1. /\ Watched(s) /\ Owned(s) /\ restarts[s] \in Int /\ spawned[s] \in Int
      /\ restarts \in [Server -> 0..MaxRestarts] /\ tools \in [Server -> SUBSET Process]
      /\ job \in [Server -> {"none", "starting", "handshake", "listing", "reaping", "terminating"}]
      /\ monitor \in [Server -> {"none", "asleep", "busy", "ended"}] /\ MaxRestarts \in Nat
  BY ManagerAssumption DEF ManagerInv, TypeOK, Process
<1>2. /\ monitor[s] = "asleep" /\ ~cancelled[s] /\ bound[s] # 0 /\ ~Running(s)
      /\ restarts[s] < MaxRestarts /\ tools' = [tools EXCEPT ![s] = {}]
      /\ restarts' = [restarts EXCEPT ![s] = restarts[s] + 1]
      /\ monitor' = [monitor EXCEPT ![s] = "busy"] /\ job' = [job EXCEPT ![s] = "starting"]
      /\ UNCHANGED <<main, bound, alive, spawned, cancelled, gauge>>
  BY DEF Poll
<1>3. alive[s] = {} /\ ~Reaped(s) /\ ~Passed(s)
  BY <1>1, <1>2 DEF Owned, Watched, Running, Reaped, Passed
<1>4. TypeOK'
  <2>1. /\ restarts' \in [Server -> 0..MaxRestarts] /\ tools' \in [Server -> SUBSET Process]
        /\ job' \in [Server -> {"none", "starting", "handshake", "listing", "reaping", "terminating"}]
        /\ monitor' \in [Server -> {"none", "asleep", "busy", "ended"}]
    BY <1>1, <1>2
  <2> QED BY <1>2, <2>1 DEF ManagerInv, TypeOK, main
<1>5. /\ monitor'[s] = "busy" /\ job'[s] = "starting" /\ tools'[s] = {}
      /\ restarts'[s] = restarts[s] + 1 /\ restarts[s] >= 0
  BY <1>1, <1>2
<1>6. Watched(s)' /\ Owned(s)' /\ Shown(s)'
  BY <1>1, <1>2, <1>3, <1>5 DEF Watched, Owned, Shown, Passed, Reaped, main
<1> QED BY <1>1, <1>2, <1>4, <1>6, StepKeeps

LEMMA MonitorCancelledKeeps ==
    ASSUME ManagerInv, NEW s \in Server, MonitorCancelled(s)
    PROVE  ManagerInv'
<1>1. /\ Watched(s) /\ Owned(s) /\ cancelled \in [Server -> BOOLEAN]
      /\ job \in [Server -> {"none", "starting", "handshake", "listing", "reaping", "terminating"}]
      /\ monitor \in [Server -> {"none", "asleep", "busy", "ended"}]
  BY DEF ManagerInv, TypeOK
<1>2. /\ cancelled[s] /\ cancelled' = [cancelled EXCEPT ![s] = FALSE]
      /\ UNCHANGED <<main, state, restarts, gauge>>
      /\ \/ /\ job[s] = "reaping" /\ job' = [job EXCEPT ![s] = "terminating"] /\ UNCHANGED monitor
         \/ /\ job' = [job EXCEPT ![s] = "none"] /\ monitor' = [monitor EXCEPT ![s] = "ended"]
  BY DEF MonitorCancelled
<1>3. TypeOK'
  BY <1>1, <1>2 DEF ManagerInv, TypeOK, main, state
<1>4. phase = "stopping" /\ at = s /\ monitor[s] # "none"
  BY <1>1, <1>2 DEF Watched
<1>5. /\ ~cancelled'[s]
      /\ \/ job[s] = "reaping" /\ job'[s] = "terminating" /\ monitor'[s] = monitor[s]
         \/ job'[s] = "none" /\ monitor'[s] = "ended"
  BY <1>1, <1>2
<1>6. Watched(s)' /\ Owned(s)' /\ Shown(s)'
  BY <1>1, <1>2, <1>4, <1>5 DEF Watched, Owned, Shown, Passed, Reaped, main, state
<1>7. \A t \in Server : t # s => job'[t] = job[t] /\ monitor'[t] = monitor[t] /\ cancelled'[t] = cancelled[t]
  BY <1>1, <1>2
<1> QED BY <1>2, <1>3, <1>6, <1>7, StepKeeps DEF state

LEMMA LoseCancelKeeps == ASSUME ManagerInv, NEW s \in Server, LoseCancel(s) PROVE ManagerInv'
<1>1. /\ Watched(s) /\ Owned(s) /\ Shown(s) /\ cancelled \in [Server -> BOOLEAN] /\ cancelled[s]
      /\ cancelled' = [cancelled EXCEPT ![s] = FALSE]
      /\ UNCHANGED <<main, state, job, monitor, restarts, gauge>>
  BY DEF ManagerInv, TypeOK, LoseCancel
<1>2. /\ cancelled' \in [Server -> BOOLEAN] /\ ~cancelled'[s]
      /\ \A t \in Server : t # s => cancelled'[t] = cancelled[t]
  BY <1>1
<1>3. TypeOK'
  BY <1>1, <1>2 DEF ManagerInv, TypeOK, main, state
<1>4. Watched(s)' /\ Owned(s)' /\ Shown(s)'
  BY <1>1, <1>2 DEF Watched, Owned, Shown, Running, Passed, Reaped, main, state
<1> QED BY <1>1, <1>2, <1>3, <1>4, StepKeeps DEF state

LEMMA ExitKeeps == ASSUME ManagerInv, NEW s \in Server, NEW p \in Process, Exit(s, p) PROVE ManagerInv'
<1>1. /\ Watched(s) /\ Owned(s) /\ Shown(s) /\ alive \in [Server -> SUBSET Process]
      /\ alive' = [alive EXCEPT ![s] = alive[s] \ {p}]
      /\ UNCHANGED <<main, bound, spawned, tools, job, monitor, cancelled, restarts, gauge>>
  BY DEF ManagerInv, TypeOK, Exit
<1>2. alive' \in [Server -> SUBSET Process] /\ alive'[s] = alive[s] \ {p}
      /\ \A t \in Server : t # s => alive'[t] = alive[t]
  BY <1>1
<1>3. TypeOK'
  BY <1>1, <1>2 DEF ManagerInv, TypeOK, main
<1>4. Watched(s)' /\ Owned(s)' /\ Shown(s)'
  BY <1>1, <1>2 DEF Watched, Owned, Shown, Running, Passed, Reaped, main
<1> QED BY <1>1, <1>2, <1>3, <1>4, StepKeeps

LEMMA StartNextKeeps == ManagerInv /\ StartNext => ManagerInv'
<1> SUFFICES ASSUME ManagerInv, StartNext PROVE ManagerInv'
  OBVIOUS
<1>1. /\ phase = "booting" /\ at \in Server /\ job[at] = "none" /\ monitor[at] = "none"
      /\ job' = [job EXCEPT ![at] = "starting"]
      /\ UNCHANGED <<main, state, monitor, cancelled, restarts, gauge>>
      /\ job \in [Server -> {"none", "starting", "handshake", "listing", "reaping", "terminating"}]
  BY ManagerAssumption DEF StartNext, GoTo, ManagerInv, TypeOK, Server
<1>2. PICK s \in Server : s = at
  BY <1>1
<1>3. /\ job[s] = "none" /\ job' = [job EXCEPT ![s] = "starting"] /\ job'[s] = "starting"
      /\ \A t \in Server : t # s => job'[t] = job[t]
  BY <1>1, <1>2
<1>4. TypeOK'
  BY <1>1 DEF ManagerInv, TypeOK, main, state
<1>5. Watched(s) /\ Owned(s) /\ Shown(s) /\ restarts[s] >= 0 /\ alive[s] = {}
  <2>1. restarts \in [Server -> 0..MaxRestarts] /\ MaxRestarts \in Nat
    BY ManagerAssumption DEF ManagerInv, TypeOK
  <2>2. restarts[s] >= 0
    BY <2>1
  <2>3. alive[s] = {}
    <3>1. alive[s] \subseteq Process /\ alive[s] \subseteq {0} /\ ~(0 \in Process)
      BY <1>1, <1>2, <1>3, ManagerAssumption DEF ManagerInv, TypeOK, Owned, Process
    <3> QED BY <3>1
  <2> QED BY <2>2, <2>3 DEF ManagerInv
<1>6. Watched(s)' /\ Owned(s)' /\ Shown(s)'
  <2>1. /\ monitor'[s] = "none" /\ ~Passed(s)' /\ ~Reaped(s)' /\ phase' = "booting" /\ at' = s
        /\ UNCHANGED <<bound, alive, spawned, tools, cancelled, restarts>>
    BY <1>1, <1>2 DEF Passed, Reaped, main, state
  <2>2. Watched(s)'
    BY <1>1, <1>2, <1>5, <2>1 DEF Watched
  <2>3. Owned(s)'
    BY <1>1, <1>2, <1>3, <1>5, <2>1 DEF Owned
  <2> QED BY <2>1, <2>2, <2>3 DEF Shown
<1> QED BY <1>1, <1>3, <1>4, <1>6, StepKeeps DEF state

-----------------------------------------------------------------------------

\* stop_all goes on to the next server, or is done.
StopAt(n) ==
    /\ at' = n
    /\ IF n > NServers THEN phase' = "down" /\ UNCHANGED cancelled
       ELSE phase' = "stopping" /\ cancelled' = [cancelled EXCEPT ![n] = TRUE]

\* It leaves the servers before n reaped and without processes.
LEMMA StopAtKeeps ==
    ASSUME ManagerInv, NEW n \in 1..(NServers + 1), StopAt(n),
           UNCHANGED <<bound, spawned, tools, job, monitor, restarts>>,
           gauge' \in [Server -> {0, 1}], alive' \in [Server -> SUBSET Process],
           phase # "booting",
           \A s \in Server : ~cancelled[s] /\ alive'[s] \subseteq alive[s],
           \A s \in Server : s < n => alive'[s] = {},
           \A s \in Server : s < n <=> monitor[s] = "ended"
    PROVE  ManagerInv'
<1>1. /\ cancelled' \in [Server -> BOOLEAN] /\ phase' \in {"stopping", "down"} /\ at' = n
      /\ \A s \in Server : cancelled'[s] => phase' = "stopping" /\ s = n
      /\ phase' = "down" => n > NServers
      /\ phase' = "stopping" => n <= NServers
  <2>1. cancelled \in [Server -> BOOLEAN] /\ NServers \in Int
    BY ManagerAssumption DEF ManagerInv, TypeOK
  <2>2. CASE n > NServers
    BY <2>1, <2>2 DEF StopAt
  <2>3. CASE ~(n > NServers)
    <3>1. /\ at' = n /\ phase' = "stopping" /\ cancelled' = [cancelled EXCEPT ![n] = TRUE]
          /\ n <= NServers
      BY <2>1, <2>3 DEF StopAt
    <3>2. cancelled' \in [Server -> BOOLEAN] /\ \A s \in Server : s # n => cancelled'[s] = cancelled[s]
      BY <2>1, <3>1
    <3> QED BY <2>1, <3>1, <3>2
  <2> QED BY <2>2, <2>3
<1>2. TypeOK' /\ Place'
  BY <1>1 DEF ManagerInv, TypeOK, Place
<1>3. ASSUME NEW s \in Server PROVE Watched(s)' /\ Owned(s)' /\ Shown(s)'
  <2>1. Watched(s) /\ Owned(s) /\ s \in Int /\ s <= NServers /\ NServers \in Int /\ n \in Int
    BY ManagerAssumption DEF ManagerInv, Server
  <2>2. Reaped(s)' => s < n
    BY <1>1, <2>1 DEF Reaped, Passed
  <2>3. Watched(s)'
    BY <1>1, <2>1, <2>2 DEF Watched, Reaped, Passed
  <2>4. Owned(s)'
    BY <1>1, <2>1, <2>2 DEF Owned, Reaped
  <2> QED BY <1>1, <2>3, <2>4 DEF Shown
<1> QED BY <1>2, <1>3 DEF ManagerInv

LEMMA StopKeeps == ManagerInv /\ (StopAll \/ Stopping) => ManagerInv'
<1> SUFFICES ASSUME ManagerInv, StopAll \/ Stopping PROVE ManagerInv'
  OBVIOUS
<1>1. /\ \A s \in Server : Watched(s) /\ Owned(s) /\ s \in Int /\ 1 <= s /\ s <= NServers
      /\ at \in 1..(NServers + 1) /\ NServers \in Nat
      /\ alive \in [Server -> SUBSET Process] /\ gauge \in [Server -> {0, 1}]
  BY ManagerAssumption DEF ManagerInv, TypeOK, Server
<1>2. CASE StopAll
  <2>1. /\ phase = "serving" /\ StopAt(1) /\ gauge' = [s \in Server |-> 0]
        /\ UNCHANGED <<state, job, monitor, restarts>>
    BY <1>1, <1>2 DEF StopAll, StopAt
  <2>2. \A s \in Server : ~cancelled[s] /\ monitor[s] # "ended" /\ ~(s < 1)
    BY <1>1, <2>1 DEF Watched, Reaped, Passed
  <2>3. 1 \in 1..(NServers + 1) /\ gauge' \in [Server -> {0, 1}]
    BY <1>1, <2>1
  <2> QED BY <1>1, <2>1, <2>2, <2>3, StopAtKeeps DEF state
<1>3. CASE MonitorReaped
  <2>1. /\ phase = "stopping" /\ phase' = "closing" /\ monitor[at] = "ended"
        /\ UNCHANGED <<at, state, job, monitor, cancelled, restarts, gauge>>
    BY <1>3 DEF MonitorReaped
  <2>2. TypeOK' /\ Place'
    BY <2>1 DEF ManagerInv, TypeOK, Place, state
  <2>3. ASSUME NEW s \in Server PROVE Watched(s)' /\ Owned(s)' /\ Shown(s)'
    <3>1. ~cancelled[s]
      BY <1>1, <2>1 DEF Watched
    <3> QED BY <1>1, <2>1, <3>1 DEF Watched, Owned, Shown, Reaped, Passed, state
  <2> QED BY <2>2, <2>3 DEF ManagerInv
<1>4. CASE TransportStopped
  <2>1. /\ phase = "closing" /\ StopAt(at + 1) /\ at \in Server
        /\ alive' = [alive EXCEPT ![at] = alive[at] \ {bound[at]}]
        /\ UNCHANGED <<bound, spawned, tools, job, monitor, restarts, gauge>>
    BY <1>1, <1>4 DEF TransportStopped, StopAt, ManagerInv, Place, Server
  <2>2. alive' \in [Server -> SUBSET Process] /\ alive'[at] = {}
        /\ \A s \in Server : s # at => alive'[s] = alive[s]
    BY <1>1, <2>1 DEF Owned
  <2>3. \A s \in Server : ~cancelled[s]
    BY <1>1, <2>1 DEF Watched
  <2>4. \A s \in Server : /\ s < at + 1 => alive'[s] = {}
                          /\ s < at + 1 <=> monitor[s] = "ended"
    <3> SUFFICES ASSUME NEW s \in Server
                 PROVE  (s < at + 1 => alive'[s] = {}) /\ (s < at + 1 <=> monitor[s] = "ended")
      OBVIOUS
    <3>1. Watched(s) /\ Owned(s) /\ s \in Int /\ at \in Int
      BY <1>1
    <3> QED BY <2>1, <2>2, <3>1 DEF Watched, Owned, Reaped, Passed
  <2>5. at + 1 \in 1..(NServers + 1)
    BY <2>1, ManagerAssumption DEF Server
  <2> QED BY <1>1, <2>1, <2>2, <2>3, <2>4, <2>5, StopAtKeeps
<1> QED BY <1>2, <1>3, <1>4 DEF Stopping

-----------------------------------------------------------------------------

LEMMA ManagerNext == ManagerInv /\ [Next]_vars => ManagerInv'
<1> SUFFICES ASSUME ManagerInv, [Next]_vars PROVE ManagerInv'
  OBVIOUS
<1>1. CASE StartNext
  BY <1>1, StartNextKeeps
<1>2. CASE StopAll \/ Stopping
  BY <1>2, StopKeeps
<1>3. ASSUME NEW s \in Server, Tasks(s) \/ LoseCancel(s) \/ \E p \in Process : Exit(s, p)
      PROVE  ManagerInv'
  BY <1>3, SetupKeeps, PollKeeps, MonitorCancelledKeeps, LoseCancelKeeps, ExitKeeps
     DEF Tasks
<1>4. CASE UNCHANGED vars
  BY <1>4 DEF vars, main, state, ManagerInv, TypeOK, Place, Watched, Owned, Shown, Running,
     Passed, Reaped
<1> QED BY <1>1, <1>2, <1>3, <1>4 DEF Next

LEMMA ManagerInvariant == Spec => []ManagerInv
BY ManagerInit, ManagerNext, PTL DEF Spec

\* The variables keep their types; no server spawns more processes than restarts
\* and the start account for.
THEOREM ManagerTypeCorrect == Spec => []TypeOK
<1>1. ManagerInv => TypeOK
  BY DEF ManagerInv
<1> QED BY ManagerInvariant, <1>1, PTL

\* stop_all can reach every process that runs: none is spawned for a server it has
\* dealt with, nor beside the one state.transport is connected to.
THEOREM ProcessesAreOwned == Spec => []NoProcessLost
<1>1. ManagerInv => NoProcessLost
  BY DEF ManagerInv, NoProcessLost, Watched, Owned, Reaped, Passed
<1> QED BY ManagerInvariant, <1>1, PTL

\* Tools of a running server in the registry are those this process listed.
THEOREM RegistryIsFresh == Spec => []DispatchFresh
<1>1. ManagerInv => DispatchFresh
  <2> SUFFICES ASSUME ManagerInv, NEW s \in Server, Running(s) PROVE tools[s] \subseteq {bound[s]}
    BY DEF DispatchFresh
  <2>1. bound[s] # 0
    BY DEF Running, ManagerInv, TypeOK, Process
  <2> QED BY <2>1 DEF ManagerInv, Owned
<1> QED BY ManagerInvariant, <1>1, PTL

\* The gauge of a server at rest shows a running process, and is wrong only after
\* a restart that failed.
THEOREM GaugeIsExplained == Spec => []GaugeFollowsServers
<1>1. ManagerInv => GaugeFollowsServers
  BY DEF ManagerInv, GaugeFollowsServers, Shown
<1> QED BY ManagerInvariant, <1>1, PTL

===============================================================================
