-------------------------- MODULE RpcGatewayProofs --------------------------
(***************************************************************************)
(* Proofs about RpcGateway, for every set of connections and every limit.  *)
(*                                                                         *)
(* The invariants are layered.  TaskInv (types, but for the range of the   *)
(* permits, and how a handler and its tasks agree) is inductive alone.     *)
(* PermitInv is inductive given TaskInv: that a release never exceeds      *)
(* MaxRuns follows from the permit the ending task still holds, so the     *)
(* type of permits is a consequence of it.  NoLostWakeup and QueueInv are  *)
(* inductive given TaskInv, and the refinement needs TaskInv and PermitInv.*)
(***************************************************************************)
EXTENDS RpcGateway, FiniteSetTheorems, TLAPS

\* The tasks that hold a permit when the run tasks are in the states r
Holding == {"running", "granted"}
HoldersOf(r) == {c \in Conn : r[c] \in Holding}

-----------------------------------------------------------------------------
\* Moving one task changes the number of holders by what the move says.
LEMMA HoldersFinite ==
    ASSUME NEW r
    PROVE  IsFiniteSet(HoldersOf(r)) /\ Cardinality(HoldersOf(r)) \in Nat
BY GatewayAssumption, FS_Subset, FS_CardinalityType DEF HoldersOf

\* A move that neither takes nor gives a permit leaves the holders.
LEMMA HoldersSame ==
    ASSUME NEW r \in [Conn -> RunState], NEW c \in Conn, NEW s \in RunState,
           r[c] \in Holding <=> s \in Holding
    PROVE  HoldersOf([r EXCEPT ![c] = s]) = HoldersOf(r)
BY DEF HoldersOf

\* A task that takes a permit adds one holder.
LEMMA HoldersGain ==
    ASSUME NEW r \in [Conn -> RunState], NEW c \in Conn, NEW s \in Holding,
           r[c] \notin Holding
    PROVE  Cardinality(HoldersOf([r EXCEPT ![c] = s])) = Cardinality(HoldersOf(r)) + 1
<1>1. HoldersOf([r EXCEPT ![c] = s]) = HoldersOf(r) \cup {c}
  BY DEF HoldersOf
<1>2. c \notin HoldersOf(r)
  BY DEF HoldersOf
<1> QED BY <1>1, <1>2, HoldersFinite, FS_AddElement

\* A task that gives its permit up removes one holder.
LEMMA HoldersLose ==
    ASSUME NEW r \in [Conn -> RunState], NEW c \in Conn, NEW s \in RunState \ Holding,
           r[c] \in Holding
    PROVE  Cardinality(HoldersOf([r EXCEPT ![c] = s])) = Cardinality(HoldersOf(r)) - 1
<1>1. HoldersOf([r EXCEPT ![c] = s]) = HoldersOf(r) \ {c}
  BY DEF HoldersOf
<1>2. c \in HoldersOf(r)
  BY DEF HoldersOf
<1> QED BY <1>1, <1>2, HoldersFinite, FS_RemoveElement

-----------------------------------------------------------------------------
\* _wake_up_next moves a permit from the counter to a waiter, or does nothing.
LEMMA WakeNextConserves ==
    ASSUME NEW v \in Int, NEW r \in [Conn -> RunState],
           \A d \in Queued : r[d] = "queued",
           WakeNext(v, r)
    PROVE  /\ run' \in [Conn -> RunState]
           /\ permits' \in {v, v - 1}
           /\ permits' + Cardinality(HoldersOf(run')) = v + Cardinality(HoldersOf(r))
<1>1. CASE Queued = {} /\ permits' = v /\ run' = r
  BY <1>1
<1>2. CASE \E d \in Queued : permits' = v - 1 /\ run' = [r EXCEPT ![d] = "granted"]
  <2>1. PICK d \in Queued : permits' = v - 1 /\ run' = [r EXCEPT ![d] = "granted"]
    BY <1>2
  <2>2. d \in Conn /\ r[d] \notin Holding
    BY <2>1 DEF Queued, In, Holding
  <2>3. "granted" \in Holding /\ "granted" \in RunState
    BY DEF Holding, RunState, Waiting
  <2>4. Cardinality(HoldersOf(run')) = Cardinality(HoldersOf(r)) + 1
    BY <2>1, <2>2, <2>3, HoldersGain
  <2>5. Cardinality(HoldersOf(r)) \in Nat
    BY HoldersFinite
  <2> QED BY <2>1, <2>2, <2>3, <2>4, <2>5
<1> QED BY <1>1, <1>2 DEF WakeNext

\* No task but the one granted is moved beyond what r says.
LEMMA WakeNextMoves ==
    ASSUME NEW v \in Int, NEW r \in [Conn -> RunState],
           \A d \in Queued : r[d] = "queued",
           WakeNext(v, r)
    PROVE  /\ run' \in [Conn -> RunState]
           /\ permits' \in Int
           /\ \A e \in Conn :
                 run'[e] = r[e] \/ (run[e] = "queued" /\ run'[e] = "granted")
BY DEF WakeNext, RunState, Waiting, Queued, In

-----------------------------------------------------------------------------
(* Types, but for the range of permits, and how handler and tasks agree.   *)

Shape ==
    /\ pc \in [Conn -> {"off", "recv", "answer", "accept", "wait", "unwatch",
                        "respond", "reap"}]
    /\ auth \in [Conn -> BOOLEAN]
    /\ gone \in [Conn -> BOOLEAN]
    /\ backlog \in [Conn -> 0..MaxBacklog]
    /\ watch \in [Conn -> {"none", "watching", "seen"}]
    /\ run \in [Conn -> RunState]
    /\ kill \in [Conn -> BOOLEAN]
    /\ permits \in Int
    /\ ahead \in [Conn -> SUBSET Conn]
    /\ wire \in [Conn -> {"none", "accepted", "trace", "ok", "error"}]
    /\ sessions \subseteq Key

\* A task is alive only under a handler that will await it, and only a handler
\* that saw its client leave has cancelled it.
HandlerAgrees(c) ==
    /\ pc[c] \notin {"wait", "reap", "unwatch", "respond"} => run[c] = "none"
    /\ pc[c] \notin {"wait", "reap"} => watch[c] = "none"
    /\ pc[c] \in {"unwatch", "respond"} => run[c] \in {"ok", "failed", "crashed"}
    /\ pc[c] # "reap" => run[c] \notin {"dropped", "cancelled"}
    /\ kill[c] => pc[c] = "reap" /\ run[c] \in {"granted", "running"}
    /\ pc[c] \in {"wait", "reap", "unwatch", "respond"} => wire[c] \in {"accepted", "trace"}

TaskInv == Shape /\ \A c \in Conn : HandlerAgrees(c)

\* TaskInv holds in every reachable state; it does not need the permits.
LEMMA TaskInvariant == Spec => []TaskInv
<1>1. Init => TaskInv
  BY GatewayAssumption DEF Init, TaskInv, Shape, HandlerAgrees, RunState
<1>2. TaskInv /\ [Next]_vars => TaskInv'
  <2> SUFFICES ASSUME TaskInv, [Next]_vars PROVE TaskInv'
    OBVIOUS
  <2> USE DEF TaskInv, Shape, HandlerAgrees, net, sem
  <2>1. ASSUME NEW c \in Conn, Client(c) PROVE TaskInv'
    <3>1. CASE Open(c)
      BY <3>1, GatewayAssumption DEF Open, GatewayAssumption
    <3>2. CASE ClientSend(c)
      BY <3>2, GatewayAssumption DEF ClientSend, GatewayAssumption
    <3>3. CASE ClientLeave(c)
      BY <3>3 DEF ClientLeave
    <3> QED BY <2>1, <3>1, <3>2, <3>3 DEF Client
  <2>2. ASSUME NEW c \in Conn, Handler(c) PROVE TaskInv'
    <3>a. Read(c) => /\ backlog' \in [Conn -> 0..MaxBacklog]
                     /\ UNCHANGED <<gone, watch, run, kill, permits, ahead>>
      BY GatewayAssumption DEF Read, GatewayAssumption
    <3>1. CASE ReadOther(c) \/ ReadMalformed(c) \/ ReadConnect(c) \/ ReadRefused(c)
      <4>1. CASE ReadOther(c)
        BY <4>1, <3>a DEF ReadOther
      <4>2. CASE ReadMalformed(c)
        BY <4>2, <3>a DEF ReadMalformed, Read
      <4>3. CASE ReadConnect(c)
        BY <4>3, <3>a DEF ReadConnect, Read
      <4>4. CASE ReadRefused(c)
        BY <4>4, <3>a DEF ReadRefused, Read
      <4> QED BY <3>1, <4>1, <4>2, <4>3, <4>4
    <3>2. CASE \E k \in Key : ReadAgent(c, k)
      BY <3>2, <3>a DEF ReadAgent, Read
    <3>3. CASE ReadDisconnect(c) \/ Answer(c)
      BY <3>3 DEF ReadDisconnect, Answer
    <3>4. CASE SendFails(c)
      BY <3>4 DEF SendFails, RunState
    <3>5. CASE Accept(c)
      BY <3>5 DEF Accept, RunState
    <3>6. CASE WakeDisconnected(c)
      BY <3>6 DEF WakeDisconnected, RunState, Waiting
    <3>7. CASE Reap(c)
      BY <3>7 DEF Reap, RunState, Done
    <3>8. CASE WakeDone(c)
      BY <3>8 DEF WakeDone, Done
    <3>9. CASE Unwatch(c)
      BY <3>9 DEF Unwatch
    <3>10. CASE Respond(c)
      BY <3>10 DEF Respond, RunState
    <3> QED BY <2>2, <3>1, <3>2, <3>3, <3>4, <3>5, <3>6, <3>7, <3>8, <3>9, <3>10
            DEF Handler
  <2>3. ASSUME NEW c \in Conn, Watcher(c) PROVE TaskInv'
    BY <2>3, GatewayAssumption DEF Watcher, WatchFrame, WatchDisconnect, GatewayAssumption
  <2>4. ASSUME NEW c \in Conn, RunTask(c) PROVE TaskInv'
    <3>1. CASE Acquire(c)
      <4>1. run' = [run EXCEPT ![c] = "running"] \/ run' = [run EXCEPT ![c] = "queued"]
        BY <3>1 DEF Acquire
      <4>2. permits' \in Int /\ ahead' \in [Conn -> SUBSET Conn]
        BY <3>1 DEF Acquire, Waiters, In
      <4> QED BY <3>1, <4>1, <4>2 DEF Acquire, RunState, Waiting
    <3>2. CASE Resume(c)
      <4>1. PICK r \in [Conn -> RunState] :
               /\ r = [run EXCEPT ![c] = "running"]
               /\ WakeNext(permits, r) \/ (run' = r /\ UNCHANGED permits)
        BY <3>2 DEF Resume, RunState
      <4>2. /\ run' \in [Conn -> RunState] /\ permits' \in Int
            /\ \A e \in Conn : \/ run'[e] = r[e]
                               \/ run[e] = "queued" /\ run'[e] = "granted"
        <5>1. \A d \in Queued : r[d] = "queued"
          BY <3>2, <4>1 DEF Resume, Queued, In
        <5>2. CASE WakeNext(permits, r)
          BY ONLY <4>1, <5>1, <5>2, permits \in Int, WakeNextMoves
        <5> QED BY <4>1, <5>2
      <4>3. ahead' \in [Conn -> SUBSET Conn]
        BY <3>2 DEF Resume, LeaveQueue
      <4>4. Shape'
        BY <3>2, <4>2, <4>3 DEF Resume
      <4>5. ASSUME NEW e \in Conn PROVE HandlerAgrees(e)'
        BY <3>2, <4>1, <4>2 DEF Resume
      <4> QED BY <4>4, <4>5
    <3>3. CASE ResumeCancelled(c)
      <4>1. PICK r \in [Conn -> RunState] :
               /\ r = [run EXCEPT ![c] = "cancelled"]
               /\ WakeNext(permits + 1, r)
        BY <3>3 DEF ResumeCancelled, RunState, Done
      <4>2. /\ run' \in [Conn -> RunState] /\ permits' \in Int
            /\ \A e \in Conn : \/ run'[e] = r[e]
                               \/ run[e] = "queued" /\ run'[e] = "granted"
        <5>1. \A d \in Queued : r[d] = "queued"
          BY <3>3, <4>1 DEF ResumeCancelled, Queued, In
        <5>2. permits + 1 \in Int
          OBVIOUS
        <5> QED BY ONLY <4>1, <5>1, <5>2, WakeNextMoves
      <4>3. ahead' \in [Conn -> SUBSET Conn]
        BY <3>3 DEF ResumeCancelled, LeaveQueue
      <4>4. Shape'
        BY <3>3, <4>2, <4>3 DEF ResumeCancelled
      <4>5. ASSUME NEW e \in Conn PROVE HandlerAgrees(e)'
        BY <3>3, <4>1, <4>2 DEF ResumeCancelled
      <4> QED BY <4>4, <4>5
    <3>4. CASE ResumeDropped(c)
      BY <3>4 DEF ResumeDropped, LeaveQueue, RunState, Done
    <3>5. ASSUME NEW o \in {"ok", "failed", "crashed", "cancelled"}, EndRun(c, o),
                 (o = "cancelled") => kill[c]
          PROVE  TaskInv'
      <4>1. PICK r \in [Conn -> RunState] :
               /\ r = [run EXCEPT ![c] = o]
               /\ WakeNext(permits + 1, r)
        BY <3>5 DEF EndRun, RunState, Done
      <4>2. /\ run' \in [Conn -> RunState] /\ permits' \in Int
            /\ \A e \in Conn : \/ run'[e] = r[e]
                               \/ run[e] = "queued" /\ run'[e] = "granted"
        <5>1. \A d \in Queued : r[d] = "queued"
          BY <3>5, <4>1 DEF EndRun, Queued, In
        <5>2. permits + 1 \in Int
          OBVIOUS
        <5> QED BY ONLY <4>1, <5>1, <5>2, WakeNextMoves
      <4>4. Shape'
        BY <3>5, <4>2 DEF EndRun
      <4>5. ASSUME NEW e \in Conn PROVE HandlerAgrees(e)'
        BY <3>5, <4>1, <4>2 DEF EndRun
      <4> QED BY <4>4, <4>5
    <3>6. CASE LoseCancel(c) \/ Trace(c)
      <4>1. CASE LoseCancel(c)
        BY <4>1 DEF LoseCancel
      <4>2. CASE Trace(c)
        BY <4>2 DEF Trace
      <4> QED BY <3>6, <4>1, <4>2
    <3> QED BY <2>4, <3>1, <3>2, <3>3, <3>4, <3>5, <3>6
            DEF RunTask, EndOfRun, FinishRun, AbortRun, TraceFails
  <2>5. CASE UNCHANGED vars
    BY <2>5 DEF vars
  <2> QED BY <2>1, <2>2, <2>3, <2>4, <2>5 DEF Next
<1> QED BY <1>1, <1>2, PTL DEF Spec

-----------------------------------------------------------------------------
(* Permits.                                                                *)

\* Outside the semaphore's own operations a task neither gains nor loses a
\* permit: handlers move only tasks that hold none.
Quiet(c) ==
    /\ permits' = permits
    /\ \/ run' = run
       \/ \E s \in RunState \ Holding : /\ run' = [run EXCEPT ![c] = s]
                                        /\ run[c] \notin Holding
                                        /\ s # "queued"

\* Clients, handlers and watchers, a lost cancellation, a trace frame and a
\* dropped waiter leave the permits alone.
LEMMA QuietSteps ==
    ASSUME TaskInv, NEW c \in Conn,
           Client(c) \/ Handler(c) \/ Watcher(c) \/ LoseCancel(c) \/ Trace(c)
              \/ ResumeDropped(c)
    PROVE  Quiet(c)
<1> USE DEF Quiet
<1>0. run \in [Conn -> RunState] /\ HandlerAgrees(c)
  BY DEF TaskInv, Shape
<1>1. CASE Client(c) \/ Watcher(c) \/ LoseCancel(c) \/ Trace(c)
  <2>1. run' = run /\ permits' = permits
    BY <1>1 DEF Client, Open, ClientSend, ClientLeave, Watcher, WatchFrame,
                WatchDisconnect, LoseCancel, Trace, sem
  <2> QED BY <2>1
<1>2. CASE ResumeDropped(c)
  <2>1. run' = [run EXCEPT ![c] = "cancelled"] /\ run[c] = "dropped" /\ permits' = permits
    BY <1>2 DEF ResumeDropped
  <2>2. "cancelled" \in RunState /\ "cancelled" \notin Holding /\ "dropped" \notin Holding
    BY DEF RunState, Done, Holding
  <2> QED BY <2>1, <2>2
<1>3. CASE Handler(c)
  <2>0. /\ "none" \in RunState \ Holding /\ "created" \in RunState \ Holding
        /\ Done \cap Holding = {}
    BY DEF RunState, Done, Holding
  <2>1. CASE \/ ReadOther(c) \/ ReadMalformed(c) \/ ReadConnect(c) \/ ReadRefused(c)
             \/ (\E k \in Key : ReadAgent(c, k)) \/ ReadDisconnect(c) \/ Answer(c)
             \/ WakeDone(c) \/ Unwatch(c)
    <3>1. run' = run /\ permits' = permits
      BY <2>1 DEF ReadOther, ReadMalformed, ReadConnect, ReadRefused, ReadAgent,
                  Read, ReadDisconnect, Answer, WakeDone, Unwatch, sem
    <3> QED BY <3>1
  <2>2. CASE SendFails(c) \/ Accept(c) \/ Respond(c)
    <3>1. pc[c] \in {"answer", "accept", "respond"} /\ permits' = permits
      BY <2>2 DEF SendFails, Accept, Respond, sem
    <3>2. run[c] \notin Holding
      BY <1>0, <3>1 DEF HandlerAgrees, Holding
    <3>3. \E s \in {"none", "created"} : run' = [run EXCEPT ![c] = s]
      BY <2>2 DEF SendFails, Accept, Respond
    <3> QED BY <2>0, <3>1, <3>2, <3>3
  <2>3. CASE WakeDisconnected(c)
    <3>1. CASE run[c] = "queued"
      <4>1. run' = [run EXCEPT ![c] = "dropped"] /\ permits' = permits
        BY <2>3, <3>1 DEF WakeDisconnected, sem
      <4>2. "dropped" \in RunState /\ "dropped" \notin Holding /\ "queued" \notin Holding
        BY DEF RunState, Waiting, Holding
      <4> QED BY <3>1, <4>1, <4>2
    <3>2. CASE run[c] # "queued"
      <4>1. run' = run /\ permits' = permits
        BY <1>0, <2>3, <3>2 DEF WakeDisconnected, sem
      <4> QED BY <4>1
    <3> QED BY <3>1, <3>2
  <2>4. CASE Reap(c)
    <3>1. run' = [run EXCEPT ![c] = "none"] /\ run[c] \in Done /\ permits' = permits
      BY <2>4 DEF Reap, sem
    <3> QED BY <2>0, <3>1
  <2> QED BY <1>3, <2>1, <2>2, <2>3, <2>4 DEF Handler
<1> QED BY <1>1, <1>2, <1>3

PermitInv == permits >= 0 /\ PermitConservation

\* The two names of the holders agree.
LEMMA HoldersIsHoldersOf == Holders = HoldersOf(run)
BY DEF Holders, HoldersOf, In, Holding

\* A task that gives its permit up with WakeNext(permits + 1, _), or keeps the
\* total by WakeNext(permits, _), preserves the invariant.
LEMMA WakePreserves ==
    ASSUME TaskInv, PermitInv, NEW c \in Conn, NEW s \in RunState,
           run[c] \in Holding,
           \/ s \notin Holding /\ WakeNext(permits + 1, [run EXCEPT ![c] = s])
           \/ s \in Holding /\ permits > 0 /\ WakeNext(permits, [run EXCEPT ![c] = s])
    PROVE  PermitInv'
<1> DEFINE r == [run EXCEPT ![c] = s]
<1>1. r \in [Conn -> RunState] /\ run \in [Conn -> RunState] /\ permits \in Int
  BY DEF TaskInv, Shape
<1>2. \A d \in Queued : r[d] = "queued"
  BY <1>1 DEF Queued, In, Holding
<1>3. /\ permits + Cardinality(HoldersOf(run)) = MaxRuns
      /\ permits >= 0
  BY HoldersIsHoldersOf DEF PermitInv, PermitConservation
<1>4. /\ Cardinality(HoldersOf(run)) \in Nat
      /\ Cardinality(HoldersOf(r)) \in Nat
      /\ Cardinality(HoldersOf(run')) \in Nat
  BY HoldersFinite
<1>5. PermitConservation' <=> permits' + Cardinality(HoldersOf(run')) = MaxRuns
  BY DEF PermitConservation, Holders, HoldersOf, In, Holding
<1>6. CASE s \notin Holding /\ WakeNext(permits + 1, r)
  <2>1. Cardinality(HoldersOf(r)) = Cardinality(HoldersOf(run)) - 1
    BY <1>1, <1>6, HoldersLose
  <2>2. /\ permits' \in {permits + 1, permits}
        /\ permits' + Cardinality(HoldersOf(run')) = permits + 1 + Cardinality(HoldersOf(r))
    <3>1. permits + 1 \in Int /\ (permits + 1) - 1 = permits
      BY <1>1
    <3> HIDE DEF r
    <3> QED BY <1>1, <1>2, <1>6, <3>1, WakeNextConserves
  <2> QED BY <1>1, <1>3, <1>4, <1>5, <2>1, <2>2 DEF PermitInv
<1>7. CASE s \in Holding /\ permits > 0 /\ WakeNext(permits, r)
  <2>1. HoldersOf(r) = HoldersOf(run)
    BY <1>1, <1>7, HoldersSame
  <2>2. /\ permits' \in {permits, permits - 1}
        /\ permits' + Cardinality(HoldersOf(run')) = permits + Cardinality(HoldersOf(r))
    <3> HIDE DEF r
    <3> QED BY <1>1, <1>2, <1>7, WakeNextConserves
  <2> QED BY <1>1, <1>3, <1>4, <1>5, <1>7, <2>1, <2>2 DEF PermitInv
<1> QED BY <1>6, <1>7

\* Every step preserves PermitInv.
LEMMA PermitStep ==
    ASSUME TaskInv, PermitInv, [Next]_vars
    PROVE  PermitInv'
<1>1. PermitConservation' <=> permits' + Cardinality(HoldersOf(run')) = MaxRuns
  BY DEF PermitConservation, Holders, HoldersOf, In, Holding
<1>2. permits \in Int /\ permits >= 0 /\ run \in [Conn -> RunState]
      /\ permits + Cardinality(HoldersOf(run)) = MaxRuns
  BY HoldersIsHoldersOf DEF TaskInv, Shape, PermitInv, PermitConservation
<1>3. ASSUME NEW c \in Conn, Quiet(c) PROVE PermitInv'
  <2>1. HoldersOf(run') = HoldersOf(run)
    BY <1>2, <1>3, HoldersSame DEF Quiet
  <2> QED BY <1>1, <1>2, <1>3, <2>1 DEF PermitInv, Quiet
<1>4. ASSUME NEW c \in Conn, Acquire(c) PROVE PermitInv'
  <2>1. run[c] \notin Holding
    BY <1>4 DEF Acquire, Holding
  <2>2. CASE ~Locked /\ permits' = permits - 1 /\ run' = [run EXCEPT ![c] = "running"]
    <3>1. permits > 0
      BY <1>2, <2>2 DEF Locked
    <3>2. Cardinality(HoldersOf(run')) = Cardinality(HoldersOf(run)) + 1
      BY <1>2, <2>1, <2>2, HoldersGain DEF Holding
    <3>3. Cardinality(HoldersOf(run)) \in Nat
      BY HoldersFinite
    <3> QED BY <1>1, <1>2, <2>2, <3>1, <3>2, <3>3 DEF PermitInv
  <2>3. CASE permits' = permits /\ run' = [run EXCEPT ![c] = "queued"]
    <3>1. "queued" \in RunState /\ "queued" \notin Holding
      BY DEF RunState, Waiting, Holding
    <3>2. HoldersOf(run') = HoldersOf(run)
      BY <1>2, <2>1, <2>3, <3>1, HoldersSame
    <3> QED BY <1>1, <1>2, <2>3, <3>2 DEF PermitInv
  <2> QED BY <1>4, <2>2, <2>3 DEF Acquire
<1>5. ASSUME NEW c \in Conn, Resume(c) PROVE PermitInv'
  <2>1. run[c] \in Holding /\ "running" \in Holding /\ "running" \in RunState
    BY <1>5 DEF Resume, Holding, RunState
  <2>2. CASE permits > 0 /\ WakeNext(permits, [run EXCEPT ![c] = "running"])
    BY <2>1, <2>2, WakePreserves
  <2>3. CASE run' = [run EXCEPT ![c] = "running"] /\ permits' = permits
    <3>1. HoldersOf(run') = HoldersOf(run)
      BY <1>2, <2>1, <2>3, HoldersSame
    <3> QED BY <1>1, <1>2, <2>3, <3>1 DEF PermitInv
  <2> QED BY <1>5, <2>2, <2>3 DEF Resume
<1>6. ASSUME NEW c \in Conn, ResumeCancelled(c) PROVE PermitInv'
  <2>1. run[c] \in Holding /\ "cancelled" \notin Holding /\ "cancelled" \in RunState
    BY <1>6 DEF ResumeCancelled, Holding, RunState, Done
  <2> QED BY <1>6, <2>1, WakePreserves DEF ResumeCancelled
<1>7. ASSUME NEW c \in Conn, EndOfRun(c) PROVE PermitInv'
  <2>1. PICK o \in Done : EndRun(c, o)
    BY <1>7 DEF EndOfRun, FinishRun, AbortRun, TraceFails, Done
  <2>2. run[c] \in Holding /\ o \notin Holding /\ o \in RunState
    BY <2>1 DEF EndRun, Holding, RunState, Done
  <2> QED BY <2>1, <2>2, WakePreserves DEF EndRun
<1>8. CASE UNCHANGED vars
  BY <1>2, <1>8, <1>1 DEF vars, PermitInv
<1> QED BY <1>3, <1>4, <1>5, <1>6, <1>7, <1>8, QuietSteps DEF Next, RunTask

\* PermitInv holds in every reachable state.
LEMMA PermitInvariant == Spec => []PermitInv
<1>1. Init => PermitInv
  <2>1. Init => HoldersOf(run) = {}
    BY DEF Init, HoldersOf, Holding
  <2> QED BY <2>1, HoldersIsHoldersOf, FS_EmptySet, GatewayAssumption
          DEF Init, PermitInv, PermitConservation, GatewayAssumption
<1>2. TaskInv /\ PermitInv /\ [Next]_vars => PermitInv'
  BY PermitStep
<1> QED BY <1>1, <1>2, TaskInvariant, PTL DEF Spec

\* Every permit is free or held by exactly one live task, and never more than
\* MaxRuns runs are in progress, for every number of connections.
THEOREM PermitsConserved == Spec => []PermitConservation
<1>1. PermitInv => PermitConservation
  BY DEF PermitInv
<1> QED BY <1>1, PermitInvariant, PTL

\* The variables keep their types; _value stays within 0..max_concurrent_runs.
THEOREM TypeCorrect == Spec => []TypeOK
<1>1. TaskInv /\ PermitInv => TypeOK
  <2> SUFFICES ASSUME TaskInv, PermitInv PROVE TypeOK
    OBVIOUS
  <2>1. permits <= MaxRuns
    BY HoldersFinite, HoldersIsHoldersOf, GatewayAssumption
    DEF PermitInv, PermitConservation, TaskInv, Shape, GatewayAssumption
  <2> QED BY <2>1, GatewayAssumption
          DEF TaskInv, Shape, PermitInv, TypeOK, GatewayAssumption
<1> QED BY <1>1, TaskInvariant, PermitInvariant, PTL

\* The tasks of a request end before its handler goes on, and only a run that
\* was not cancelled is answered.
THEOREM NoTaskOrphaned == Spec => []NoOrphanTask
<1>1. TaskInv => NoOrphanTask
  BY DEF TaskInv, Shape, HandlerAgrees, NoOrphanTask
<1> QED BY <1>1, TaskInvariant, PTL

-----------------------------------------------------------------------------
(* The wake-up is never lost.                                              *)

\* Every step preserves NoLostWakeup.
LEMMA WakeupStep ==
    ASSUME TaskInv, NoLostWakeup, [Next]_vars
    PROVE  NoLostWakeup'
<1>0. run \in [Conn -> RunState] /\ permits \in Int
  BY DEF TaskInv, Shape
<1> USE DEF NoLostWakeup, Queued, In
<1>1. ASSUME NEW c \in Conn, Quiet(c) PROVE NoLostWakeup'
  BY <1>0, <1>1 DEF Quiet, Holding
<1>2. ASSUME NEW c \in Conn, Acquire(c) PROVE NoLostWakeup'
  <2>1. CASE ~Locked
    BY <1>0, <1>2, <2>1 DEF Acquire, Locked
  <2>2. CASE Locked
    BY <1>0, <1>2, <2>2 DEF Acquire, Locked
  <2> QED BY <2>1, <2>2
<1>3. ASSUME NEW c \in Conn, NEW v \in Int, NEW s \in RunState,
             s # "queued", WakeNext(v, [run EXCEPT ![c] = s])
      PROVE  NoLostWakeup'
  BY <1>0, <1>3 DEF WakeNext
<1>4. ASSUME NEW c \in Conn, Resume(c) PROVE NoLostWakeup'
  <2>1. CASE WakeNext(permits, [run EXCEPT ![c] = "running"])
    BY <1>0, <1>3, <2>1 DEF RunState
  <2>2. CASE permits = 0 /\ permits' = permits
    BY <2>2
  <2> QED BY <1>4, <2>1, <2>2 DEF Resume
<1>5. ASSUME NEW c \in Conn, ResumeCancelled(c) PROVE NoLostWakeup'
  <2>1. permits + 1 \in Int /\ "cancelled" \in RunState
    BY <1>0 DEF RunState, Done
  <2> QED BY <1>3, <1>5, <2>1 DEF ResumeCancelled
<1>6. ASSUME NEW c \in Conn, EndOfRun(c) PROVE NoLostWakeup'
  <2>1. PICK o \in Done : EndRun(c, o)
    BY <1>6 DEF EndOfRun, FinishRun, AbortRun, TraceFails, Done
  <2>2. permits + 1 \in Int /\ o \in RunState /\ o # "queued"
    BY <1>0 DEF RunState, Done
  <2> QED BY <1>3, <2>1, <2>2 DEF EndRun
<1>7. CASE UNCHANGED vars
  BY <1>7 DEF vars
<1> QED BY <1>1, <1>2, <1>4, <1>5, <1>6, <1>7, QuietSteps DEF Next, RunTask

\* A request never waits beside a free permit unless a waiter that was already
\* granted one is about to pass the wake-up on.
THEOREM WakeupNeverLost == Spec => []NoLostWakeup
<1>1. Init => NoLostWakeup
  BY DEF Init, NoLostWakeup, Queued, In
<1>2. TaskInv /\ NoLostWakeup /\ [Next]_vars => NoLostWakeup'
  BY WakeupStep
<1> QED BY <1>1, <1>2, TaskInvariant, PTL DEF Spec

-----------------------------------------------------------------------------
(* The order of grants.                                                    *)

\* The waiters recorded before a waiter are waiters still, and none of those
\* before a granted one is pending.
QueueInv ==
    \A c, d \in Conn :
        (run[c] \in Waiting /\ d \in ahead[c]) =>
            run[d] \in Waiting /\ (run[c] = "granted" => run[d] # "queued")

\* The steps of the semaphore that move no one but the task itself
LEMMA QueueQuiet ==
    ASSUME TaskInv, QueueInv, NEW c \in Conn,
           Client(c) \/ Handler(c) \/ Watcher(c) \/ LoseCancel(c) \/ Trace(c)
    PROVE  QueueInv'
<1> USE DEF QueueInv, TaskInv, Shape, HandlerAgrees, sem, net, Waiting
<1>1. CASE Client(c) \/ Watcher(c) \/ LoseCancel(c) \/ Trace(c)
  BY <1>1 DEF Client, Open, ClientSend, ClientLeave, Watcher, WatchFrame,
              WatchDisconnect, LoseCancel, Trace
<1>2. CASE Handler(c)
  <2>1. CASE \/ ReadOther(c) \/ ReadMalformed(c) \/ ReadConnect(c) \/ ReadRefused(c)
             \/ (\E k \in Key : ReadAgent(c, k)) \/ ReadDisconnect(c) \/ Answer(c)
             \/ WakeDone(c) \/ Unwatch(c)
    BY <2>1 DEF ReadOther, ReadMalformed, ReadConnect, ReadRefused, ReadAgent,
                Read, ReadDisconnect, Answer, WakeDone, Unwatch
  <2>2. CASE SendFails(c) \/ Accept(c) \/ Respond(c)
    BY <2>2 DEF SendFails, Accept, Respond
  <2>3. CASE WakeDisconnected(c)
    BY <2>3 DEF WakeDisconnected
  <2>4. CASE Reap(c)
    BY <2>4 DEF Reap, Done
  <2> QED BY <1>2, <2>1, <2>2, <2>3, <2>4 DEF Handler
<1> QED BY <1>1, <1>2

\* The steps after which the first pending waiter may have been granted
LEMMA QueueWake ==
    ASSUME TaskInv, QueueInv, NEW c \in Conn, NEW v \in Int,
           NEW s \in RunState \ Waiting,
           WakeNext(v, [run EXCEPT ![c] = s]),
           \/ LeaveQueue(c)
           \/ run[c] \notin Waiting /\ ahead' = ahead
    PROVE  QueueInv'
<1>1. run \in [Conn -> RunState] /\ ahead \in [Conn -> SUBSET Conn]
  BY DEF TaskInv, Shape
<1>2. \A d \in Conn : c \notin ahead'[d] \/ run[d] \notin Waiting
  BY <1>1 DEF LeaveQueue, QueueInv
<1>3. \A d \in Conn : ahead'[d] \subseteq ahead[d]
  BY <1>1 DEF LeaveQueue
<1>4. CASE run' = [run EXCEPT ![c] = s]
  BY <1>1, <1>2, <1>3, <1>4 DEF QueueInv
<1>5. CASE \E g \in Queued : /\ ahead[g] \cap Queued = {}
                             /\ run' = [run EXCEPT ![c] = s, ![g] = "granted"]
  <2>1. PICK g \in Queued : /\ ahead[g] \cap Queued = {}
                            /\ run' = [run EXCEPT ![c] = s, ![g] = "granted"]
    BY <1>5
  <2>2. g \in Conn /\ run[g] = "queued" /\ "queued" \in Waiting /\ "granted" \in Waiting
    BY <2>1 DEF Queued, In, Waiting
  <2> QED BY <1>1, <1>2, <1>3, <2>1, <2>2 DEF QueueInv, Queued, In
<1> QED BY <1>4, <1>5 DEF WakeNext

\* Every step preserves QueueInv.
LEMMA QueueStep ==
    ASSUME TaskInv, QueueInv, [Next]_vars
    PROVE  QueueInv'
<1>1. /\ run \in [Conn -> RunState] /\ ahead \in [Conn -> SUBSET Conn]
      /\ permits \in Int /\ permits + 1 \in Int
  BY DEF TaskInv, Shape
<1>2. ASSUME NEW c \in Conn, Acquire(c) PROVE QueueInv'
  BY <1>1, <1>2 DEF Acquire, QueueInv, Waiters, In, Waiting
<1>3. ASSUME NEW c \in Conn, Resume(c) PROVE QueueInv'
  <2>1. "running" \in RunState \ Waiting
    BY DEF RunState, Waiting
  <2>2. CASE WakeNext(permits, [run EXCEPT ![c] = "running"])
    BY <1>1, <1>3, <2>1, <2>2, QueueWake DEF Resume
  <2>3. CASE run' = [run EXCEPT ![c] = "running"]
    BY <1>1, <1>3, <2>1, <2>3 DEF Resume, LeaveQueue, QueueInv
  <2> QED BY <1>3, <2>2, <2>3 DEF Resume
<1>4. ASSUME NEW c \in Conn, ResumeCancelled(c) PROVE QueueInv'
  <2>1. "cancelled" \in RunState \ Waiting
    BY DEF RunState, Waiting, Done
  <2> QED BY <1>1, <1>4, <2>1, QueueWake DEF ResumeCancelled
<1>5. ASSUME NEW c \in Conn, ResumeDropped(c) PROVE QueueInv'
  BY <1>1, <1>5 DEF ResumeDropped, LeaveQueue, QueueInv, Waiting
<1>6. ASSUME NEW c \in Conn, EndOfRun(c) PROVE QueueInv'
  <2>1. PICK o \in Done : EndRun(c, o)
    BY <1>6 DEF EndOfRun, FinishRun, AbortRun, TraceFails, Done
  <2>2. o \in RunState \ Waiting /\ "running" \notin Waiting
    BY DEF RunState, Waiting, Done
  <2> QED BY <1>1, <2>1, <2>2, QueueWake DEF EndRun
<1>7. CASE UNCHANGED vars
  BY <1>7 DEF vars, QueueInv
<1> QED BY <1>2, <1>3, <1>4, <1>5, <1>6, <1>7, QueueQuiet DEF Next, RunTask

\* QueueInv holds in every reachable state.
LEMMA QueueInvariant == Spec => []QueueInv
<1>1. Init => QueueInv
  BY DEF Init, QueueInv, Waiting
<1>2. TaskInv /\ QueueInv /\ [Next]_vars => QueueInv'
  BY QueueStep
<1> QED BY <1>1, <1>2, TaskInvariant, PTL DEF Spec

\* Permits are granted in the order in which requests queued.
THEOREM GrantsAreFifo == Spec => []FifoGrants
<1>1. QueueInv => FifoGrants
  BY DEF QueueInv, FifoGrants, Waiters, In, Waiting
<1> QED BY <1>1, QueueInvariant, PTL

-----------------------------------------------------------------------------
(* RpcGateway implements RunAdmission.                                     *)

Jobs == [c \in Conn |-> JobOf(run[c])]
Tolds == [c \in Conn |-> ToldOf(wire[c])]

\* The image of every run state.
LEMMA JobValues ==
    /\ JobOf("none") = "idle" /\ JobOf("running") = "running" /\ JobOf("ok") = "ok"
    /\ JobOf("failed") = "failed" /\ JobOf("crashed") = "failed"
    /\ JobOf("cancelled") = "void" /\ JobOf("created") = "accepted"
    /\ JobOf("queued") = "accepted" /\ JobOf("granted") = "accepted"
    /\ JobOf("dropped") = "accepted"
BY DEF JobOf

\* One connection's job and reply change as given; WakeNext is not noticed.
Becomes(c, j, t) ==
    /\ Jobs' = [Jobs EXCEPT ![c] = j]
    /\ Tolds' = [Tolds EXCEPT ![c] = t]

\* A grant is invisible to the abstract specification.
LEMMA WakeHidden ==
    ASSUME TaskInv, NEW c \in Conn, NEW v \in Int, NEW s \in RunState,
           run[c] # "queued", WakeNext(v, [run EXCEPT ![c] = s])
    PROVE  Jobs' = [Jobs EXCEPT ![c] = JobOf(s)]
<1> DEFINE r == [run EXCEPT ![c] = s]
<1>1. run \in [Conn -> RunState] /\ r \in [Conn -> RunState]
  BY DEF TaskInv, Shape
<1>2. \A d \in Queued : r[d] = "queued"
  BY <1>1 DEF Queued, In
<1>3. \A e \in Conn : run'[e] = r[e] \/ (run[e] = "queued" /\ run'[e] = "granted")
  <2>1. WakeNext(v, r) /\ v \in Int
    OBVIOUS
  <2> HIDE DEF r
  <2> QED BY ONLY <1>1, <1>2, <2>1, WakeNextMoves
<1>4. \A e \in Conn : JobOf(run'[e]) = IF e = c THEN JobOf(s) ELSE JobOf(run[e])
  <2>1. TAKE e \in Conn
  <2>2. CASE run'[e] = r[e]
    BY <1>1, <2>2
  <2>3. CASE run[e] = "queued" /\ run'[e] = "granted"
    BY <2>3, JobValues
  <2> QED BY <1>3, <2>2, <2>3
<1> QED BY <1>4 DEF Jobs

\* Setting a component to its own value changes nothing.
LEMMA KeepOne ==
    \A c \in Conn : /\ Jobs = [Jobs EXCEPT ![c] = Jobs[c]]
                   /\ Tolds = [Tolds EXCEPT ![c] = Tolds[c]]
BY DEF Jobs, Tolds

\* A run that changes alone, and a reply that does not change.
LEMMA SetRun ==
    ASSUME run \in [Conn -> RunState], NEW c \in Conn, NEW s,
           run' = [run EXCEPT ![c] = s]
    PROVE  Jobs' = [Jobs EXCEPT ![c] = JobOf(s)]
BY DEF Jobs

LEMMA SameWire == wire' = wire => Tolds' = Tolds
BY DEF Tolds

\* What the handler's steps look like to the abstract specification.
LEMMA HandlerJobs ==
    ASSUME TaskInv, NEW c \in Conn, Client(c) \/ Handler(c) \/ Watcher(c)
    PROVE  \/ Jobs[c] = "idle" /\ Becomes(c, "idle", "none")
           \/ Jobs[c] = "idle" /\ Becomes(c, "accepted", "accepted")
           \/ Jobs[c] = "ok" /\ Becomes(c, "idle", "ok")
           \/ Jobs[c] = "failed" /\ Becomes(c, "idle", "error")
           \/ Jobs[c] \in {"ok", "failed", "void"} /\ Becomes(c, "idle", Tolds[c])
           \/ UNCHANGED <<Jobs, Tolds>>
<1> USE JobValues DEF TaskInv, Shape, HandlerAgrees, sem, net, Becomes, Jobs, Tolds, ToldOf
<1>r. run \in [Conn -> RunState]
  OBVIOUS
<1>1. CASE Client(c) \/ Watcher(c)
  <2>1. CASE Open(c)
    <3>1. run' = run /\ run[c] = "none" /\ wire' = [wire EXCEPT ![c] = "none"]
      BY <2>1 DEF Open
    <3>2. Jobs' = Jobs /\ Jobs[c] = "idle"
      BY <3>1
    <3>3. Tolds' = [Tolds EXCEPT ![c] = "none"]
      BY <3>1
    <3> HIDE DEF Jobs, Tolds, TaskInv
    <3> QED BY <3>2, <3>3, KeepOne
  <2>2. CASE ClientSend(c) \/ ClientLeave(c) \/ Watcher(c)
    BY <2>2 DEF ClientSend, ClientLeave, Watcher, WatchFrame, WatchDisconnect
  <2> QED BY <1>1, <2>1, <2>2 DEF Client
<1>2. CASE Handler(c)
  <2>1. CASE \/ ReadOther(c) \/ ReadMalformed(c) \/ ReadConnect(c) \/ ReadRefused(c)
             \/ ReadDisconnect(c) \/ Answer(c) \/ WakeDone(c) \/ Unwatch(c)
    BY <2>1 DEF ReadOther, ReadMalformed, ReadConnect, ReadRefused,
                Read, ReadDisconnect, Answer, WakeDone, Unwatch
  <2>2. CASE \E k \in Key : ReadAgent(c, k)
    <3>1. run' = run /\ pc[c] = "recv" /\ wire' = [wire EXCEPT ![c] = "none"]
      BY <2>2 DEF ReadAgent, Read
    <3>2. Jobs' = Jobs /\ Jobs[c] = "idle"
      BY <3>1
    <3>3. Tolds' = [Tolds EXCEPT ![c] = "none"]
      BY <3>1
    <3> HIDE DEF Jobs, Tolds, TaskInv
    <3> QED BY <3>2, <3>3, KeepOne
  <2>3. CASE SendFails(c)
    <3>1. /\ run' = [run EXCEPT ![c] = "none"] /\ wire' = wire
          /\ run[c] \in {"none", "ok", "failed", "crashed"}
      BY <2>3 DEF SendFails
    <3> HIDE DEF TaskInv, Shape, HandlerAgrees
    <3>2. Jobs[c] \in {"idle", "ok", "failed"}
      BY <3>1
    <3>4. Jobs' = [Jobs EXCEPT ![c] = "idle"]
      BY ONLY <1>r, <3>1, SetRun, JobValues
    <3>3. Tolds' = Tolds
      BY ONLY <3>1, SameWire
    <3> HIDE DEF Jobs, Tolds
    <3> QED BY <3>2, <3>3, <3>4, KeepOne
  <2>4. CASE Accept(c)
    BY <2>4 DEF Accept
  <2>5. CASE WakeDisconnected(c)
    BY <2>5 DEF WakeDisconnected
  <2>6. CASE Reap(c)
    <3>1. /\ run' = [run EXCEPT ![c] = "none"] /\ wire' = wire
          /\ run[c] \in {"cancelled", "ok", "failed", "crashed"}
      BY <2>6 DEF Reap, Done
    <3> HIDE DEF TaskInv, Shape, HandlerAgrees
    <3>2. Jobs[c] \in {"void", "ok", "failed"}
      BY <3>1
    <3>4. Jobs' = [Jobs EXCEPT ![c] = "idle"]
      BY ONLY <1>r, <3>1, SetRun, JobValues
    <3>3. Tolds' = Tolds
      BY ONLY <3>1, SameWire
    <3> HIDE DEF Jobs, Tolds
    <3> QED BY <3>2, <3>3, <3>4, KeepOne
  <2>7. CASE Respond(c)
    <3>1. /\ run' = [run EXCEPT ![c] = "none"] /\ run[c] \in {"ok", "failed", "crashed"}
          /\ wire' = [wire EXCEPT ![c] = IF run[c] = "ok" THEN "ok" ELSE "error"]
      BY <2>7 DEF Respond
    <3>2. Jobs' = [Jobs EXCEPT ![c] = "idle"]
      BY <3>1
    <3>3. CASE run[c] = "ok"
      <4>1. Tolds' = [Tolds EXCEPT ![c] = "ok"] /\ Jobs[c] = "ok"
        BY <3>1, <3>3
      <4> QED BY <3>2, <4>1
    <3>4. CASE run[c] # "ok"
      <4>1. Tolds' = [Tolds EXCEPT ![c] = "error"] /\ Jobs[c] = "failed"
        BY <3>1, <3>4
      <4> QED BY <3>2, <4>1
    <3> QED BY <3>3, <3>4
  <2> QED BY <1>2, <2>1, <2>2, <2>3, <2>4, <2>5, <2>6, <2>7 DEF Handler
<1> QED BY <1>1, <1>2

\* What the run task's steps look like to the abstract specification.
LEMMA RunJobs ==
    ASSUME TaskInv, NEW c \in Conn, RunTask(c)
    PROVE  \/ Jobs[c] = "accepted" /\ run'[c] = "running" /\ Becomes(c, "running", Tolds[c])
           \/ Jobs[c] = "accepted" /\ Becomes(c, "void", Tolds[c])
           \/ /\ Jobs[c] = "running"
              /\ \E o \in {"ok", "failed", "void"} : Becomes(c, o, Tolds[c])
           \/ UNCHANGED <<Jobs, Tolds>>
<1>0. /\ run \in [Conn -> RunState] /\ permits \in Int /\ permits + 1 \in Int
      /\ wire \in [Conn -> {"none", "accepted", "trace", "ok", "error"}]
  BY DEF TaskInv, Shape
<1>t. UNCHANGED wire => Tolds' = Tolds /\ Tolds' = [Tolds EXCEPT ![c] = Tolds[c]]
  BY DEF Tolds
<1>1. CASE Acquire(c)
  <2>1. Jobs[c] = "accepted" /\ UNCHANGED wire
    BY <1>1, JobValues DEF Acquire, Jobs
  <2>2. CASE run' = [run EXCEPT ![c] = "running"]
    BY <1>0, <1>t, <2>1, <2>2, JobValues DEF Jobs, Becomes
  <2>3. CASE run' = [run EXCEPT ![c] = "queued"]
    <3>1. Jobs' = Jobs
      BY <1>0, <2>1, <2>3, JobValues DEF Jobs
    <3> QED BY <1>t, <2>1, <3>1
  <2> QED BY <1>1, <2>2, <2>3 DEF Acquire
<1>2. CASE Resume(c)
  <2>1. Jobs[c] = "accepted" /\ UNCHANGED wire
    BY <1>2, JobValues DEF Resume, Jobs
  <2>2. CASE WakeNext(permits, [run EXCEPT ![c] = "running"])
    <3>1. Jobs' = [Jobs EXCEPT ![c] = "running"]
      <4>1. run[c] # "queued" /\ "running" \in RunState
        BY <1>2 DEF Resume, RunState
      <4> QED BY <1>0, <2>2, <4>1, WakeHidden, JobValues
    <3>2. run'[c] = "running"
      BY <1>0, <1>2, <2>2 DEF Resume, WakeNext, Queued, In
    <3> QED BY <1>t, <2>1, <3>1, <3>2 DEF Becomes
  <2>3. CASE run' = [run EXCEPT ![c] = "running"]
    BY <1>0, <1>t, <2>1, <2>3, JobValues DEF Jobs, Becomes
  <2> QED BY <1>2, <2>2, <2>3 DEF Resume
<1>3. CASE ResumeCancelled(c)
  <2>1. Jobs' = [Jobs EXCEPT ![c] = "void"]
    <3>1. /\ run[c] # "queued" /\ "cancelled" \in RunState
          /\ WakeNext(permits + 1, [run EXCEPT ![c] = "cancelled"])
      BY <1>3 DEF ResumeCancelled, RunState, Done
    <3> QED BY <1>0, <3>1, WakeHidden, JobValues
  <2> QED BY <1>3, <1>t, <2>1, JobValues DEF ResumeCancelled, Jobs, Becomes
<1>4. CASE ResumeDropped(c)
  BY <1>0, <1>4, <1>t, JobValues DEF ResumeDropped, Jobs, Becomes
<1>5. CASE LoseCancel(c)
  BY <1>5 DEF LoseCancel, Jobs, Tolds
<1>6. CASE Trace(c)
  <2>1. ToldOf("trace") = "accepted"
    BY DEF ToldOf
  <2>2. wire[c] \in {"accepted", "trace"}
    BY <1>6 DEF Trace, TaskInv, HandlerAgrees
  <2> QED BY <1>0, <1>6, <2>1, <2>2 DEF Trace, Jobs, Tolds, ToldOf
<1>7. CASE EndOfRun(c)
  <2>1. PICK o \in Done : EndRun(c, o)
    BY <1>7 DEF EndOfRun, FinishRun, AbortRun, TraceFails, Done
  <2>2. Jobs' = [Jobs EXCEPT ![c] = JobOf(o)]
    <3>1. /\ run[c] # "queued" /\ o \in RunState
          /\ WakeNext(permits + 1, [run EXCEPT ![c] = o])
      BY <2>1 DEF EndRun, RunState
    <3> QED BY <1>0, <3>1, WakeHidden
  <2>3. Jobs[c] = "running" /\ JobOf(o) \in {"ok", "failed", "void"}
    BY <2>1, JobValues DEF EndRun, Jobs, Done
  <2> QED BY <1>t, <2>1, <2>2, <2>3 DEF EndRun, Becomes
<1> QED BY <1>1, <1>2, <1>3, <1>4, <1>5, <1>6, <1>7 DEF RunTask

\* A run that starts finds fewer than MaxRuns running: they and it hold permits.
LEMMA RoomToStart ==
    ASSUME TaskInv, TaskInv', PermitInv', NEW c \in Conn,
           Jobs[c] = "accepted", Jobs' = [Jobs EXCEPT ![c] = "running"]
    PROVE  Cardinality({e \in Conn : Jobs[e] = "running"}) < MaxRuns
<1> DEFINE R == {e \in Conn : Jobs[e] = "running"}
<1>1. R \cup {c} \subseteq HoldersOf(run')
  <2>1. ASSUME NEW e \in R \cup {c} PROVE run'[e] = "running"
    <3>1. e \in Conn /\ Jobs'[e] = "running"
      BY <2>1 DEF Jobs
    <3>2. JobOf(run'[e]) = "running" /\ run'[e] \in RunState
      BY <3>1 DEF Jobs, TaskInv, Shape
    <3> QED BY <3>2 DEF JobOf, RunState, Waiting, Done
  <2> QED BY <2>1 DEF HoldersOf, Holding
<1>2. IsFiniteSet(R)
  BY GatewayAssumption, FS_Subset DEF GatewayAssumption
<1>3. /\ Cardinality(R) \in Nat
      /\ Cardinality(R \cup {c}) = Cardinality(R) + 1
  BY <1>2, FS_AddElement, FS_CardinalityType
<1>4. /\ IsFiniteSet(HoldersOf(run')) /\ Cardinality(HoldersOf(run')) \in Nat
      /\ Cardinality(R \cup {c}) <= Cardinality(HoldersOf(run'))
  BY <1>1, HoldersFinite, FS_Subset
<1>5. permits' \in Int /\ permits' >= 0
      /\ permits' + Cardinality(HoldersOf(run')) = MaxRuns
  BY DEF PermitInv, PermitConservation, TaskInv, Shape, Holders, HoldersOf, In, Holding
<1> QED BY <1>3, <1>4, <1>5, GatewayAssumption DEF GatewayAssumption

\* Every step of the gateway is a step of the abstract specification or none.
LEMMA AdmissionStep ==
    ASSUME TaskInv, TaskInv', PermitInv', [Next]_vars
    PROVE  [Admission!AdmissionNext]_(Admission!vars)
<1>1. Admission!vars = <<Jobs, Tolds>>
  BY DEF Admission!vars, Jobs, Tolds
<1>2. Admission!vars' = <<Jobs', Tolds'>>
  BY DEF Admission!vars, Jobs, Tolds
<1>3. CASE UNCHANGED <<Jobs, Tolds>>
  BY <1>1, <1>2, <1>3
<1>4. ASSUME NEW c \in Conn, Client(c) \/ Handler(c) \/ Watcher(c)
      PROVE  [Admission!AdmissionNext]_(Admission!vars)
  <2>1. CASE Jobs[c] = "idle" /\ Becomes(c, "idle", "none")
    <3>1. Admission!Forget(c)
      BY <2>1, KeepOne DEF Admission!Forget, Becomes, Jobs, Tolds
    <3> QED BY <3>1 DEF Admission!AdmissionNext
  <2>2. CASE Jobs[c] = "idle" /\ Becomes(c, "accepted", "accepted")
    <3>1. Admission!Accept(c)
      BY <2>2 DEF Admission!Accept, Becomes, Jobs, Tolds
    <3> QED BY <3>1 DEF Admission!AdmissionNext
  <2>3. CASE \/ Jobs[c] = "ok" /\ Becomes(c, "idle", "ok")
             \/ Jobs[c] = "failed" /\ Becomes(c, "idle", "error")
    <3>1. Admission!Tell(c)
      BY <2>3 DEF Admission!Tell, Becomes, Jobs, Tolds
    <3> QED BY <3>1 DEF Admission!AdmissionNext
  <2>4. CASE Jobs[c] \in {"ok", "failed", "void"} /\ Becomes(c, "idle", Tolds[c])
    <3>1. Admission!Abandon(c)
      BY <2>4, KeepOne DEF Admission!Abandon, Becomes, Jobs, Tolds
    <3> QED BY <3>1 DEF Admission!AdmissionNext
  <2> QED BY <1>3, <1>4, <2>1, <2>2, <2>3, <2>4, HandlerJobs
<1>5. ASSUME NEW c \in Conn, RunTask(c)
      PROVE  [Admission!AdmissionNext]_(Admission!vars)
  <2>1. CASE /\ Jobs[c] = "accepted" /\ run'[c] = "running"
             /\ Becomes(c, "running", Tolds[c])
    <3>1. Cardinality(Admission!Running) < MaxRuns
      BY <2>1, RoomToStart DEF Becomes, Admission!Running, Jobs
    <3>2. Jobs[c] = "accepted" /\ Jobs' = [Jobs EXCEPT ![c] = "running"] /\ Tolds' = Tolds
      BY <2>1, KeepOne DEF Becomes
    <3>3. Admission!Start(c)
      <4> HIDE DEF JobOf
      <4>1. \A S : Admission!Cardinality(S) = Cardinality(S)
        BY DEF Admission!Cardinality, Cardinality
      <4>2. Jobs[c] = "accepted" /\ Jobs' = [Jobs EXCEPT ![c] = "running"]
            /\ Tolds' = Tolds
        BY <3>2
      <4> QED BY <3>1, <4>1, <4>2 DEF Admission!Start, Jobs, Tolds
    <3> QED BY <3>3 DEF Admission!AdmissionNext
  <2>2. CASE Jobs[c] = "accepted" /\ Becomes(c, "void", Tolds[c])
    <3>1. Admission!Void(c)
      BY <2>2, KeepOne DEF Admission!Void, Becomes, Jobs, Tolds
    <3> QED BY <3>1 DEF Admission!AdmissionNext
  <2>3. ASSUME Jobs[c] = "running", NEW o \in {"ok", "failed", "void"},
               Becomes(c, o, Tolds[c])
        PROVE  [Admission!AdmissionNext]_(Admission!vars)
    <3>1. Admission!End(c, o)
      BY <2>3, KeepOne DEF Admission!End, Becomes, Jobs, Tolds
    <3> QED BY <3>1 DEF Admission!AdmissionNext
  <2> QED BY <1>3, <1>5, <2>1, <2>2, <2>3, RunJobs
<1>6. CASE UNCHANGED vars
  BY <1>3, <1>6 DEF vars, Jobs, Tolds
<1> QED BY <1>4, <1>5, <1>6 DEF Next

\* The gateway implements its promise: at most MaxRuns runs in progress, and at
\* most one terminal frame per accepted request, with its own run's outcome.
THEOREM GatewayImplementsAdmission == Spec => ImplementsAdmission
<1>1. Init => Admission!AdmissionInit
  BY JobValues DEF Init, Admission!AdmissionInit, ToldOf
<1>2. TaskInv /\ TaskInv' /\ PermitInv' /\ [Next]_vars
        => [Admission!AdmissionNext]_(Admission!vars)
  BY AdmissionStep
<1> QED BY <1>1, <1>2, TaskInvariant, PermitInvariant, PTL
        DEF Spec, ImplementsAdmission, Admission!AdmissionSpec

-----------------------------------------------------------------------------
(* What a step may never do.                                               *)

\* A run starts by acquiring an unlocked semaphore or by resuming with a permit.
LEMMA StartsOnlyBy ==
    ASSUME TaskInv, [Next]_vars, NEW e \in Conn,
           run[e] # "running", run'[e] = "running"
    PROVE  (Acquire(e) /\ ~Locked) \/ (Resume(e) /\ run[e] = "granted")
<1>1. run \in [Conn -> RunState] /\ permits \in Int
  BY DEF TaskInv, Shape
<1>2. ASSUME NEW c \in Conn, Quiet(c) PROVE FALSE
  BY <1>1, <1>2 DEF Quiet, Holding
<1>3. ASSUME NEW c \in Conn, Acquire(c) PROVE c = e /\ ~Locked
  BY <1>1, <1>3 DEF Acquire
<1>4. ASSUME NEW c \in Conn, NEW v \in Int, NEW s \in RunState,
             run[c] # "queued", WakeNext(v, [run EXCEPT ![c] = s])
      PROVE  c = e /\ s = "running"
  BY <1>1, <1>4 DEF WakeNext
<1>5. ASSUME NEW c \in Conn, Resume(c) PROVE c = e /\ run[c] = "granted"
  <2>1. run[c] = "granted" /\ "running" \in RunState
    BY <1>5 DEF Resume, RunState
  <2>2. CASE WakeNext(permits, [run EXCEPT ![c] = "running"])
    BY <1>1, <1>4, <2>1, <2>2
  <2>3. CASE run' = [run EXCEPT ![c] = "running"]
    BY <1>1, <2>1, <2>3
  <2> QED BY <1>5, <2>1, <2>2, <2>3 DEF Resume
<1>6. ASSUME NEW c \in Conn, ResumeCancelled(c) PROVE FALSE
  <2>1. "cancelled" \in RunState /\ permits + 1 \in Int /\ run[c] # "queued"
    BY <1>1, <1>6 DEF RunState, Done, ResumeCancelled
  <2> QED BY <1>4, <1>6, <2>1 DEF ResumeCancelled
<1>7. ASSUME NEW c \in Conn, EndOfRun(c) PROVE FALSE
  <2>1. PICK o \in Done : EndRun(c, o)
    BY <1>7 DEF EndOfRun, FinishRun, AbortRun, TraceFails, Done
  <2>2. o \in RunState /\ o # "running" /\ permits + 1 \in Int /\ run[c] # "queued"
    BY <1>1, <2>1 DEF RunState, Done, EndRun
  <2> QED BY <1>4, <2>1, <2>2 DEF EndRun
<1>8. CASE UNCHANGED vars
  BY <1>8 DEF vars
<1> QED BY <1>2, <1>3, <1>5, <1>6, <1>7, <1>8, QuietSteps DEF Next, RunTask

\* No run starts past a request that queued before it.
THEOREM NobodyOvertakes == Spec => NoOvertaking
<1> DEFINE Fair(c) == (run[c] # "running" /\ run'[c] = "running") =>
                          \A d \in (IF run[c] = "created" THEN Conn ELSE ahead[c]) \ {c} :
                              run[d] \notin {"queued", "granted"}
<1>1. ASSUME TaskInv, QueueInv, [Next]_vars, NEW c \in Conn PROVE Fair(c)
  <2> SUFFICES ASSUME run[c] # "running", run'[c] = "running"
               PROVE  \A d \in (IF run[c] = "created" THEN Conn ELSE ahead[c]) \ {c} :
                          run[d] \notin {"queued", "granted"}
    OBVIOUS
  <2>1. ahead[c] \subseteq Conn
    BY <1>1 DEF TaskInv, Shape
  <2>2. CASE Acquire(c) /\ ~Locked
    BY <2>2 DEF Acquire, Locked, In
  <2>3. CASE Resume(c) /\ run[c] = "granted"
    <3>1. ahead[c] \cap In({"granted"}) = {}
      BY <2>3 DEF Resume
    <3>2. \A d \in ahead[c] : run[d] # "queued"
      BY <1>1, <2>1, <2>3 DEF QueueInv, Waiting
    <3> QED BY <2>1, <2>3, <3>1, <3>2 DEF In
  <2> QED BY <1>1, <2>2, <2>3, StartsOnlyBy
<1>2. TaskInv /\ QueueInv /\ [Next]_vars => [\A c \in Conn : Fair(c)]_vars
  BY <1>1
<1>3. Spec => []QueueInv
  BY QueueInvariant
<1> QED BY <1>2, <1>3, TaskInvariant, PTL DEF Spec, NoOvertaking

\* A handler that reaps has a run that was cancelled, or that is past the
\* semaphore; a run belongs to a connection that presented the token.
GuardInv ==
    \A c \in Conn :
        /\ watch[c] = "seen" => run[c] # "created"
        /\ pc[c] = "reap" => /\ run[c] \notin {"created", "queued"}
                             /\ run[c] = "granted" => kill[c]
        /\ (pc[c] = "accept" \/ run[c] # "none") => auth[c]

\* The steps of clients, handlers and watchers preserve GuardInv.
LEMMA GuardQuiet ==
    ASSUME TaskInv, GuardInv, NEW c \in Conn,
           Client(c) \/ Handler(c) \/ Watcher(c)
    PROVE  GuardInv'
<1> USE DEF GuardInv, TaskInv, Shape, HandlerAgrees, sem, net
<1>1. CASE Client(c) \/ Watcher(c)
  BY <1>1 DEF Client, Open, ClientSend, ClientLeave, Watcher, WatchFrame, WatchDisconnect
<1>2. CASE ReadOther(c) \/ ReadMalformed(c) \/ ReadConnect(c) \/ ReadRefused(c)
  BY <1>2 DEF ReadOther, ReadMalformed, ReadConnect, ReadRefused, Read
<1>3. CASE \/ (\E k \in Key : ReadAgent(c, k)) \/ ReadDisconnect(c) \/ Answer(c)
           \/ WakeDone(c) \/ Unwatch(c)
  BY <1>3 DEF ReadAgent, Read, ReadDisconnect, Answer, WakeDone, Unwatch
<1>4. CASE SendFails(c) \/ Accept(c) \/ Respond(c)
  BY <1>4 DEF SendFails, Accept, Respond
<1>5. CASE WakeDisconnected(c)
  BY <1>5 DEF WakeDisconnected
<1>6. CASE Reap(c)
  BY <1>6 DEF Reap
<1> QED BY <1>1, <1>2, <1>3, <1>4, <1>5, <1>6 DEF Handler

\* So do the steps of the run tasks, which may grant a permit to one other.
LEMMA GuardRun ==
    ASSUME TaskInv, GuardInv, NEW c \in Conn, RunTask(c)
    PROVE  GuardInv'
<1>1. /\ run \in [Conn -> RunState] /\ kill \in [Conn -> BOOLEAN]
      /\ permits \in Int /\ permits + 1 \in Int
  BY DEF TaskInv, Shape
<1>2. UNCHANGED <<pc, auth, watch>>
  BY DEF RunTask, Acquire, Resume, ResumeCancelled, ResumeDropped, LoseCancel, Trace,
         EndOfRun, FinishRun, AbortRun, TraceFails, EndRun
<1>3. ASSUME run[c] \notin {"none", "queued"},
             NEW v \in Int, NEW s \in RunState \ {"created", "queued", "granted"},
             WakeNext(v, [run EXCEPT ![c] = s]),
             \A d \in Conn \ {c} : kill'[d] = kill[d]
      PROVE  GuardInv'
  BY <1>1, <1>2, <1>3 DEF WakeNext, Queued, In, GuardInv
<1>4. ASSUME run[c] \notin {"none", "queued"},
             NEW s \in RunState \ {"created", "queued", "granted"},
             run' = [run EXCEPT ![c] = s], kill' = kill
      PROVE  GuardInv'
  BY <1>1, <1>2, <1>4 DEF GuardInv
<1>5. CASE Acquire(c)
  BY <1>1, <1>2, <1>5 DEF Acquire, GuardInv
<1>6. CASE Resume(c)
  <2>1. run[c] = "granted" /\ kill' = kill /\ "running" \in RunState
    BY <1>6 DEF Resume, RunState
  <2>2. \/ WakeNext(permits, [run EXCEPT ![c] = "running"])
        \/ run' = [run EXCEPT ![c] = "running"]
    BY <1>6 DEF Resume
  <2> QED BY <1>1, <1>3, <1>4, <2>1, <2>2
<1>7. CASE ResumeCancelled(c)
  <2>1. /\ run[c] = "granted" /\ "cancelled" \in RunState
        /\ kill' = [kill EXCEPT ![c] = FALSE]
        /\ WakeNext(permits + 1, [run EXCEPT ![c] = "cancelled"])
    BY <1>7 DEF ResumeCancelled, RunState, Done
  <2> QED BY <1>1, <1>3, <2>1
<1>8. CASE ResumeDropped(c)
  <2>1. /\ run[c] = "dropped" /\ "cancelled" \in RunState /\ kill' = kill
        /\ run' = [run EXCEPT ![c] = "cancelled"]
    BY <1>8 DEF ResumeDropped, RunState, Done
  <2> QED BY <1>4, <2>1
<1>9. CASE LoseCancel(c) \/ Trace(c)
  BY <1>1, <1>2, <1>9 DEF LoseCancel, Trace, GuardInv
<1>10. CASE EndOfRun(c)
  <2>1. PICK o \in Done : EndRun(c, o)
    BY <1>10 DEF EndOfRun, FinishRun, AbortRun, TraceFails, Done
  <2>2. /\ run[c] = "running" /\ o \in RunState \ {"created", "queued", "granted"}
        /\ kill' = [kill EXCEPT ![c] = FALSE]
        /\ WakeNext(permits + 1, [run EXCEPT ![c] = o])
    BY <2>1 DEF EndRun, RunState, Done
  <2> QED BY <1>1, <1>3, <2>2
<1> QED BY <1>5, <1>6, <1>7, <1>8, <1>9, <1>10 DEF RunTask

\* GuardInv holds in every reachable state.
LEMMA GuardInvariant == Spec => []GuardInv
<1>1. Init => GuardInv
  BY DEF Init, GuardInv
<1>2. TaskInv /\ GuardInv /\ [Next]_vars => GuardInv'
  <2>1. TaskInv /\ GuardInv /\ UNCHANGED vars => GuardInv'
    BY DEF vars, GuardInv
  <2> QED BY <2>1, GuardQuiet, GuardRun DEF Next
<1> QED BY <1>1, <1>2, TaskInvariant, PTL DEF Spec

\* No agent work for a connection that did not present the operator token.
THEOREM OnlyAuthenticatedRun == Spec => []AuthBeforeRun
<1>1. GuardInv => AuthBeforeRun
  BY DEF GuardInv, AuthBeforeRun
<1> QED BY <1>1, GuardInvariant, PTL

\* A run whose client was seen to leave before it started never starts, and the
\* handler sends nothing more.
THEOREM NothingStartsAfterDisconnect == Spec => NoStartAfterDisconnect
<1> DEFINE Stays(c) == pc[c] = "reap" =>
                          /\ run[c] # "running" => run'[c] # "running"
                          /\ wire'[c] \in {wire[c], "trace"}
<1>1. ASSUME TaskInv, GuardInv, [Next]_vars, NEW c \in Conn PROVE Stays(c)
  <2> SUFFICES ASSUME pc[c] = "reap"
               PROVE  /\ run[c] # "running" => run'[c] # "running"
                      /\ wire'[c] \in {wire[c], "trace"}
    OBVIOUS
  <2>1. run[c] # "running" => run'[c] # "running"
    BY <1>1, StartsOnlyBy DEF GuardInv, Acquire, Resume
  <2>2. wire \in [Conn -> {"none", "accepted", "trace", "ok", "error"}]
    BY <1>1 DEF TaskInv, Shape
  <2>3. ASSUME NEW d \in Conn, Client(d) \/ Handler(d) \/ Watcher(d) \/ RunTask(d)
        PROVE  wire'[c] \in {wire[c], "trace"}
    <3>1. CASE Client(d) \/ Watcher(d)
      BY <2>2, <3>1 DEF Client, Open, ClientSend, ClientLeave, Watcher, WatchFrame,
                        WatchDisconnect
    <3>2. CASE Handler(d)
      BY <2>2, <3>2
         DEF Handler, ReadOther, ReadMalformed, ReadConnect, ReadRefused, ReadAgent, Read,
             ReadDisconnect, SendFails, Answer, Accept, WakeDisconnected, Reap, WakeDone,
             Unwatch, Respond
    <3>3. CASE RunTask(d)
      BY <2>2, <3>3
         DEF RunTask, Acquire, Resume, ResumeCancelled, ResumeDropped, LoseCancel, Trace,
             EndOfRun, FinishRun, AbortRun, TraceFails, EndRun
    <3> QED BY <2>3, <3>1, <3>2, <3>3
  <2> QED BY <1>1, <2>1, <2>3 DEF Next, vars
<1>2. TaskInv /\ GuardInv /\ [Next]_vars => [\A c \in Conn : Stays(c)]_vars
  BY <1>1
<1> QED BY <1>2, TaskInvariant, GuardInvariant, PTL DEF Spec, NoStartAfterDisconnect
=============================================================================
