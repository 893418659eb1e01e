------------------------- MODULE MCPTransportProofs -------------------------
(***************************************************************************)
(* Proofs about MCPTransport for any number of requests and any buffer of  *)
(* stdout: which line settles which future, and that the reader neither    *)
(* breaks on a reply nor leaves a call behind when it ends.                *)
(***************************************************************************)
EXTENDS MCPTransport, SequenceTheorems, TLAPS

Settled == Reply \cup {Unset, Pending, Failed}
Stages  == {"none", "writing", "waiting", "expiring"} \cup Over

\* A future is settled by a line of its own id.
Matched == \A i \in Ids : fut[i].id \in {0, i}

\* A call has a future; one that returned, a line in it.  An entry that timed out
\* was popped, and one whose future was set, too.
Called(i) ==
    /\ i >= nextId => call[i] = "none" /\ i \notin pending
    /\ call[i] # "none" => fut[i] # Unset
    /\ call[i] = "returned" => fut[i].id = i
    /\ call[i] \in {"writing", "waiting"} /\ fut[i] = Pending => i \in pending
    /\ i \in pending => call[i] # "timeout"

Calls == \A i \in Ids : Called(i)

ConnInv == TypeOK /\ PendingUnsettled /\ Matched /\ Calls /\ ReaderSurvivesReplies

-----------------------------------------------------------------------------

\* The states of a future are different from one another.
LEMMA Kinds ==
    /\ Unset # Pending /\ Unset # Failed /\ Pending # Failed
    /\ \A r \in Reply : r # Unset /\ r # Pending /\ r # Failed /\ r.id \in Ids /\ r.id # 0
    /\ \A f \in Settled : f \notin {Unset, Pending, Failed} => f \in Reply
<1>1. Unset # Pending /\ Unset # Failed /\ Pending # Failed
  BY DEF Unset, Pending, Failed
<1>2. ASSUME NEW r \in Reply PROVE r # Unset /\ r # Pending /\ r # Failed /\ r.id \in Ids /\ r.id # 0
  BY DEF Reply, Ids, Unset, Pending, Failed
<1>3. \A f \in Settled : f \notin {Unset, Pending, Failed} => f \in Reply
  BY DEF Settled
<1> QED BY <1>1, <1>2, <1>3

LEMMA ConnInit == Init => ConnInv
<1> SUFFICES ASSUME Init PROVE ConnInv
  OBVIOUS
<1>1. TypeOK
  <2>1. stdout \in Seq(Line) /\ Len(stdout) <= MaxLines
    BY EmptySeq, TransportAssumption DEF Init
  <2>2. fut \in [Ids -> Reply \cup {Unset, Pending, Failed}] /\ nextId \in 1..(MaxIds + 1)
    BY TransportAssumption DEF Init
  <2>3. call \in [Ids -> {"none", "writing", "waiting", "expiring"} \cup Over]
    BY DEF Init
  <2>4. /\ proc \in {"off", "alive", "dead"} /\ eof \in BOOLEAN /\ pending \subseteq Ids
        /\ reader \in {"none", "reading"} \cup Ended
        /\ stopper \in {"idle", "reaping", "terminating", "done"}
    BY DEF Init
  <2> QED BY <2>1, <2>2, <2>3, <2>4 DEF TypeOK
<1>2. PendingUnsettled /\ ReaderSurvivesReplies
  BY DEF Init, PendingUnsettled, ReaderSurvivesReplies
<1>3. ASSUME NEW i \in Ids PROVE fut[i].id \in {0, i} /\ Called(i)
  <2>1. fut[i] = Unset /\ call[i] = "none" /\ pending = {} /\ Unset.id = 0
    BY DEF Init, Unset
  <2> QED BY <2>1 DEF Called
<1> QED BY <1>1, <1>2, <1>3 DEF ConnInv, Matched, Calls

\* What the server and stop() do leaves requests and futures alone.
LEMMA Aside ==
    ASSUME ConnInv, UNCHANGED <<nextId, pending, fut, call>>, TypeOK', reader' \in {reader, "reading"}
    PROVE  ConnInv'
BY DEF ConnInv, PendingUnsettled, Matched, Calls, Called, ReaderSurvivesReplies

\* The end of the reader settles every registered future.
LEMMA EndFrame ==
    ASSUME ConnInv, NEW how \in Ended \ {"broken"}, EndReader(how),
           UNCHANGED <<nextId, call>>, TypeOK'
    PROVE  /\ ConnInv'
           /\ \A i \in Ids : call[i] \in {"writing", "waiting"} => fut'[i] # Pending
<1>1. /\ reader' = how /\ pending' = {}
      /\ \A i \in Ids : fut'[i] = IF i \in pending /\ fut[i] = Pending THEN Failed ELSE fut[i]
  BY DEF EndReader
<1>2. ASSUME NEW i \in Ids
      PROVE  /\ call[i] \in {"writing", "waiting"} => fut'[i] # Pending
             /\ fut'[i].id \in {0, i} /\ Called(i)'
  <2>1. Called(i) /\ fut[i].id \in {0, i}
    BY DEF ConnInv, Calls, Matched
  <2>2. CASE i \in pending /\ fut[i] = Pending
    <3>1. fut'[i] = Failed /\ fut'[i].id = 0 /\ fut[i].id = 0 /\ i # 0
      BY <1>1, <2>2 DEF Failed, Pending, Ids
    <3> QED BY <1>1, <2>1, <3>1, Kinds DEF Called
  <2>3. CASE ~(i \in pending /\ fut[i] = Pending)
    <3>1. fut'[i] = fut[i]
      BY <1>1, <2>3
    <3> QED BY <1>1, <2>1, <2>3, <3>1 DEF Called
  <2> QED BY <2>2, <2>3
<1>3. PendingUnsettled' /\ ReaderSurvivesReplies'
  BY <1>1 DEF PendingUnsettled, ReaderSurvivesReplies
<1> QED BY <1>2, <1>3 DEF ConnInv, Matched, Calls

\* One coroutine goes on, and unregisters its own request or none.
LEMMA CallFrame ==
    ASSUME ConnInv, NEW i \in Ids, NEW to \in Stages \ {"none"},
           call[i] # "none",
           call' = [call EXCEPT ![i] = to],
           pending' \in {pending, pending \ {i}},
           pending' # pending => to \notin {"writing", "waiting"},
           to \in {"writing", "waiting"} => call[i] \in {"writing", "waiting"},
           to = "returned" => fut[i] \notin {Pending, Failed},
           to = "timeout" => i \notin pending',
           UNCHANGED <<server, reader, nextId, fut, stopper>>
    PROVE  ConnInv'
<1>1. call \in [Ids -> Stages] /\ pending \subseteq Ids /\ fut \in [Ids -> Settled]
  BY DEF ConnInv, TypeOK, Stages, Settled
<1>2. call' \in [Ids -> Stages] /\ pending' \subseteq Ids /\ pending' \subseteq pending
  BY <1>1
<1>3. TypeOK'
  BY <1>1, <1>2 DEF ConnInv, TypeOK, Stages, server
<1>4. ASSUME NEW j \in Ids PROVE Called(j)'
  <2>1. Called(j)
    BY DEF ConnInv, Calls
  <2>2. CASE j # i
    <3>1. call'[j] = call[j] /\ (j \in pending' <=> j \in pending)
      BY <1>1, <2>2
    <3> QED BY <2>1, <3>1 DEF Called
  <2>3. CASE j = i
    <3>1. call'[i] = to /\ i < nextId
      <4>1. i \in Int /\ nextId \in Int
        BY TransportAssumption DEF ConnInv, TypeOK, Ids
      <4> QED BY <1>1, <2>1, <2>3, <4>1 DEF Called
    <3>2. to = "returned" => fut[i].id = i
      <4> SUFFICES ASSUME to = "returned" PROVE fut[i].id = i
        OBVIOUS
      <4>1. fut[i] \in Reply
        BY <1>1, <2>1, <2>3, Kinds DEF Called
      <4>2. fut[i].id \in {0, i} /\ fut[i].id # 0
        BY <4>1, Kinds DEF ConnInv, Matched
      <4> QED BY <4>2
    <3>3. i \in Int /\ nextId \in Int
      BY TransportAssumption DEF ConnInv, TypeOK, Ids
    <3> QED BY <1>1, <1>2, <2>1, <2>3, <3>1, <3>2, <3>3 DEF Called
  <2> QED BY <2>2, <2>3
<1>5. PendingUnsettled'
  BY <1>2 DEF ConnInv, PendingUnsettled
<1>6. Matched' /\ ReaderSurvivesReplies'
  BY DEF ConnInv, Matched, ReaderSurvivesReplies
<1> QED BY <1>3, <1>4, <1>5, <1>6 DEF ConnInv, Calls

-----------------------------------------------------------------------------

LEMMA ServerKeeps == ConnInv /\ (Server \/ Start \/ Stop \/ ReaderReaped \/ Stopped) => ConnInv'
<1> SUFFICES ASSUME ConnInv, Server \/ Start \/ Stop \/ ReaderReaped \/ Stopped PROVE ConnInv'
  OBVIOUS
<1>1. CASE \E l \in Line : ServerWrites(l)
  <2>1. PICK l \in Line : ServerWrites(l)
    BY <1>1
  <2>2. /\ stdout' = Append(stdout, l) /\ stdout \in Seq(Line) /\ Len(stdout) < MaxLines
        /\ UNCHANGED <<proc, eof, reader, nextId, pending, fut, call, stopper>>
    BY <2>1 DEF ServerWrites, ConnInv, TypeOK
  <2>3. stdout' \in Seq(Line) /\ Len(stdout') <= MaxLines
    BY <2>2, AppendProperties, TransportAssumption
  <2>4. TypeOK'
    BY <2>2, <2>3 DEF ConnInv, TypeOK
  <2> QED BY <2>2, <2>4, Aside
<1>2. CASE ServerClosesStdout \/ ServerExits \/ Start \/ Stop \/ ReaderReaped \/ Stopped
  <2>1. /\ UNCHANGED <<stdout, nextId, pending, fut, call>> /\ reader' \in {reader, "reading"}
        /\ proc' \in {proc, "dead", "alive"} /\ eof' \in {eof, TRUE}
        /\ stopper' \in {stopper, "reaping", "terminating", "done"}
    BY <1>2 DEF ServerClosesStdout, ServerExits, Start, Stop, ReaderReaped, Stopped, server
  <2>2. TypeOK'
    BY <2>1 DEF ConnInv, TypeOK
  <2> QED BY <2>1, <2>2, Aside
<1>3. ServerReplies \/ ServerAsks \/ ServerBabbles => \E l \in Line : ServerWrites(l)
  <2>1. ASSUME NEW i \in Ids, NEW k \in {"ok", "error", "ask"} PROVE [id |-> i, kind |-> k] \in Line
    BY DEF Line, Reply
  <2>2. Plain({"noise", "poison"}) \subseteq Line
    BY DEF Line
  <2> QED BY <2>1, <2>2 DEF ServerReplies, ServerAsks, ServerBabbles
<1> QED BY <1>1, <1>2, <1>3 DEF Server

\* The types after the reader has taken a line or ended.
LEMMA ReaderTypes ==
    ASSUME TypeOK, NEW how \in Ended, EndReader(how), stdout' \in {stdout, Tail(stdout)},
           stdout' # stdout => stdout # <<>>, UNCHANGED <<proc, eof, nextId, call, stopper>>
    PROVE  TypeOK'
<1>1. stdout' \in Seq(Line) /\ Len(stdout') <= MaxLines
  <2>1. stdout \in Seq(Line) /\ Len(stdout) <= MaxLines /\ MaxLines \in Nat
    BY TransportAssumption DEF TypeOK
  <2>2. CASE stdout # <<>> /\ stdout' = Tail(stdout)
    BY <2>1, <2>2, HeadTailProperties, LenProperties
  <2> QED BY <2>1, <2>2
<1>2. fut' \in [Ids -> Settled]
  BY DEF EndReader, TypeOK, Settled
<1>3. reader' \in {"none", "reading"} \cup Ended /\ pending' \subseteq Ids
  BY DEF EndReader
<1> QED BY <1>1, <1>2, <1>3 DEF TypeOK, Settled

\* The reader takes a line.  It breaks only on a registered future that is settled,
\* and there is none.
LEMMA ReadKeeps ==
    ASSUME ConnInv, Read
    PROVE  /\ ConnInv'
           /\ reader' # "reading" =>
                \A i \in Ids : call[i] \in {"writing", "waiting"} => fut'[i] # Pending
<1> DEFINE l == Head(stdout)
<1>1. /\ reader = "reading" /\ stdout # <<>> /\ stdout' = Tail(stdout)
      /\ UNCHANGED <<proc, eof, nextId, call, stopper>>
      /\ \/ l.kind = "poison" /\ EndReader("poisoned")
         \/ l.id \in pending /\ Deliver(l)
         \/ l.kind # "poison" /\ l.id \notin pending /\ UNCHANGED <<reader, pending, fut>>
  BY DEF Read
<1>2. l \in Line /\ stdout' \in Seq(Line) /\ Len(stdout') <= MaxLines
  <2>1. stdout \in Seq(Line) /\ Len(stdout) <= MaxLines /\ MaxLines \in Nat
    BY TransportAssumption DEF ConnInv, TypeOK
  <2> QED BY <1>1, <2>1, HeadTailProperties, LenProperties
<1> HIDE DEF l
<1>3. CASE EndReader("poisoned")
  BY <1>1, <1>3, EndFrame, ReaderTypes DEF ConnInv, Ended
<1>4. CASE l.id \in pending /\ Deliver(l)
  <2>1. fut[l.id] = Pending /\ l.id \in Ids /\ l.id # 0
    <3>1. pending \subseteq Ids /\ fut[l.id] = Pending
      BY <1>4 DEF ConnInv, PendingUnsettled, TypeOK
    <3>2. 0 \notin Ids
      BY TransportAssumption DEF Ids
    <3> QED BY <1>4, <3>1, <3>2
  <2>2. pending' = pending \ {l.id} /\ fut' = [fut EXCEPT ![l.id] = l] /\ UNCHANGED reader
    BY <1>4, <2>1 DEF Deliver
  <2>3. l \in Reply
    BY <1>2, <2>1 DEF Line, Plain
  <2>4. fut \in [Ids -> Settled] /\ fut' \in [Ids -> Settled] /\ fut'[l.id] = l
    BY <2>1, <2>2, <2>3 DEF ConnInv, TypeOK, Settled
  <2>5. TypeOK'
    BY <1>1, <1>2, <2>2, <2>4 DEF ConnInv, TypeOK, Settled
  <2>6. ASSUME NEW i \in Ids PROVE Called(i)' /\ fut'[i].id \in {0, i}
    <3>1. Called(i) /\ fut[i].id \in {0, i} /\ nextId' = nextId /\ call'[i] = call[i]
      BY <1>1 DEF ConnInv, Calls, Matched
    <3>2. CASE i = l.id
      <4>1. fut'[i] = l /\ l # Unset /\ l # Pending /\ i \notin pending' /\ fut'[i].id = i
        BY <2>2, <2>3, <2>4, <3>2, Kinds
      <4> QED BY <3>1, <4>1 DEF Called
    <3>3. CASE i # l.id
      <4>1. fut'[i] = fut[i] /\ (i \in pending' <=> i \in pending)
        BY <2>2, <2>4, <3>3
      <4> QED BY <3>1, <4>1 DEF Called
    <3> QED BY <3>2, <3>3
  <2>7. PendingUnsettled'
    <3> SUFFICES ASSUME NEW i \in pending' PROVE fut'[i] = Pending
      BY DEF PendingUnsettled
    <3>1. i \in pending /\ i # l.id /\ i \in Ids
      BY <2>2 DEF ConnInv, TypeOK
    <3> QED BY <2>2, <2>4, <3>1 DEF ConnInv, PendingUnsettled
  <2> QED BY <1>1, <2>2, <2>5, <2>6, <2>7 DEF ConnInv, Matched, Calls, ReaderSurvivesReplies
<1>5. CASE UNCHANGED <<reader, pending, fut>>
  <2>1. TypeOK'
    BY <1>1, <1>2, <1>5 DEF ConnInv, TypeOK
  <2> QED BY <1>1, <1>5, <2>1, Aside
<1> QED BY <1>1, <1>3, <1>4, <1>5

LEMMA ReaderKeeps ==
    ASSUME ConnInv, Reader
    PROVE  /\ ConnInv'
           /\ reader' # "reading" =>
                \A i \in Ids : call[i] \in {"writing", "waiting"} => fut'[i] # Pending
<1>1. CASE Read
  BY <1>1, ReadKeeps
<1>2. CASE ReadEof
  BY <1>2, EndFrame, ReaderTypes DEF ReadEof, ConnInv, Ended, server
<1>3. CASE ReaderCancelled
  BY <1>3, EndFrame, ReaderTypes DEF ReaderCancelled, ConnInv, Ended, server
<1> QED BY <1>1, <1>2, <1>3 DEF Reader

\* A new request is registered with a new future.
LEMMA RequestKeeps == ConnInv /\ Request => ConnInv'
<1> SUFFICES ASSUME ConnInv, Request PROVE ConnInv'
  OBVIOUS
<1>1. /\ nextId \in Ids /\ nextId' = nextId + 1 /\ pending' = pending \cup {nextId}
      /\ fut' = [fut EXCEPT ![nextId] = Pending] /\ call' = [call EXCEPT ![nextId] = "writing"]
      /\ UNCHANGED <<proc, stdout, eof, reader, stopper>>
  BY DEF Request, server
<1>2. /\ fut \in [Ids -> Settled] /\ call \in [Ids -> Stages] /\ pending \subseteq Ids
      /\ nextId \in Int /\ MaxIds \in Nat
  BY TransportAssumption DEF ConnInv, TypeOK, Settled, Stages
<1>3. TypeOK'
  <2>1. /\ fut' \in [Ids -> Settled] /\ call' \in [Ids -> Stages] /\ pending' \subseteq Ids
        /\ nextId' \in 1..(MaxIds + 1)
    BY <1>1, <1>2 DEF Settled, Stages, Ids
  <2> QED BY <1>1, <2>1 DEF ConnInv, TypeOK, Settled, Stages
<1>4. ASSUME NEW i \in Ids PROVE Called(i)' /\ fut'[i].id \in {0, i} /\ (i \in pending' => fut'[i] = Pending)
  <2>1. Called(i) /\ fut[i].id \in {0, i} /\ (i \in pending => fut[i] = Pending) /\ i \in Int
    BY DEF ConnInv, Calls, Matched, PendingUnsettled, Ids
  <2>2. CASE i = nextId
    <3>1. fut'[i] = Pending /\ call'[i] = "writing" /\ i \in pending' /\ fut'[i].id = 0
      BY <1>1, <1>2, <2>2 DEF Pending
    <3> QED BY <1>1, <1>2, <2>1, <2>2, <3>1, Kinds DEF Called
  <2>3. CASE i # nextId
    <3>1. fut'[i] = fut[i] /\ call'[i] = call[i] /\ (i \in pending' <=> i \in pending)
      BY <1>1, <1>2, <2>3
    <3> QED BY <1>1, <1>2, <2>1, <2>3, <3>1 DEF Called
  <2> QED BY <2>2, <2>3
<1>5. PendingUnsettled' /\ ReaderSurvivesReplies'
  BY <1>1, <1>3, <1>4 DEF PendingUnsettled, ReaderSurvivesReplies, ConnInv, TypeOK
<1> QED BY <1>3, <1>4, <1>5 DEF ConnInv, Matched, Calls

LEMMA CallerKeeps ==
    ASSUME ConnInv, NEW i \in Ids, Caller(i)
    PROVE  ConnInv' /\ reader' = reader
<1>1. CASE Drained(i) \/ DrainFails(i)
  <2>1. /\ call[i] = "writing" /\ UNCHANGED <<server, reader, nextId, pending, fut, stopper>>
        /\ \E to \in {"waiting", "failed"} : call' = [call EXCEPT ![i] = to]
    BY <1>1 DEF Drained, DrainFails, Advance
  <2> QED BY <2>1, CallFrame DEF Stages, Over
<1>2. CASE Return(i) \/ ReturnLate(i)
  <2>1. /\ call[i] \in {"waiting", "expiring"} /\ fut[i] # Pending
        /\ UNCHANGED <<server, reader, nextId, pending, fut, stopper>>
        /\ call' = [call EXCEPT ![i] = IF fut[i] = Failed THEN "failed" ELSE "returned"]
    BY <1>2 DEF Return, ReturnLate, Advance
  <2>2. PICK to \in {"failed", "returned"} : /\ call' = [call EXCEPT ![i] = to]
                                             /\ to = "returned" => fut[i] # Failed
    BY <2>1
  <2> QED BY <2>1, <2>2, CallFrame DEF Stages, Over
<1>3. CASE TimerFires(i)
  <2>1. /\ call[i] = "waiting" /\ UNCHANGED <<server, reader, nextId, pending, fut, stopper>>
        /\ call' = [call EXCEPT ![i] = "expiring"]
    BY <1>3 DEF TimerFires, Advance
  <2> QED BY <2>1, CallFrame DEF Stages
<1>4. CASE Expire(i)
  <2>1. /\ call[i] = "expiring" /\ pending' = pending \ {i}
        /\ UNCHANGED <<server, reader, nextId, fut, stopper>>
        /\ call' = [call EXCEPT ![i] = "timeout"]
    BY <1>4 DEF Expire, Advance
  <2> QED BY <2>1, CallFrame DEF Stages, Over
<1>5. CASE Abandon(i)
  <2>1. /\ call[i] # "none" /\ UNCHANGED <<server, reader, nextId, pending, fut, stopper>>
        /\ call' = [call EXCEPT ![i] = "gone"]
    BY <1>5 DEF Abandon
  <2> QED BY <2>1, CallFrame DEF Stages, Over
<1> QED BY <1>1, <1>2, <1>3, <1>4, <1>5 DEF Caller, Timed

\* Every step keeps the invariant, and one that ends the reader settles the calls
\* in flight.
LEMMA ConnNext ==
    ASSUME ConnInv, [Next]_vars
    PROVE  /\ ConnInv'
           /\ (reader = "reading" /\ reader' # "reading") =>
                \A i \in Ids : call[i] \in {"writing", "waiting"} => fut'[i] # Pending
<1>1. CASE Server \/ Start \/ Stop \/ ReaderReaped \/ Stopped
  <2>1. reader' \in {reader, "reading"}
    BY <1>1 DEF Server, ServerReplies, ServerAsks, ServerBabbles, ServerWrites, ServerClosesStdout,
       ServerExits, Start, Stop, ReaderReaped, Stopped
  <2> QED BY <1>1, <2>1, ServerKeeps
<1>2. CASE Reader
  BY <1>2, ReaderKeeps
<1>3. CASE Request
  BY <1>3, RequestKeeps DEF Request
<1>4. CASE \E i \in Ids : Caller(i)
  BY <1>4, CallerKeeps
<1>5. CASE UNCHANGED vars
  <2>1. TypeOK' /\ reader' = reader /\ UNCHANGED <<nextId, pending, fut, call>>
    BY <1>5 DEF vars, server, ConnInv, TypeOK
  <2> QED BY <2>1, Aside
<1> QED BY <1>1, <1>2, <1>3, <1>4, <1>5 DEF Next, Stopping

LEMMA ConnInvariant == Spec => []ConnInv
<1>1. ConnInv /\ [Next]_vars => ConnInv'
  BY ConnNext
<1> QED BY ConnInit, <1>1, PTL DEF Spec

-----------------------------------------------------------------------------

\* The variables keep their types.
THEOREM TransportTypeCorrect == Spec => []TypeOK
<1>1. ConnInv => TypeOK
  BY DEF ConnInv
<1> QED BY ConnInvariant, <1>1, PTL

\* set_result never raises in the reader: a future that is registered is pending,
\* whatever was timed out, abandoned or answered twice.
THEOREM RepliesNeverBreakTheReader == Spec => [](PendingUnsettled /\ ReaderSurvivesReplies)
<1>1. ConnInv => PendingUnsettled /\ ReaderSurvivesReplies
  BY DEF ConnInv
<1> QED BY ConnInvariant, <1>1, PTL

\* A call returns a line with its own id.
THEOREM AnswersNeverSwapped == Spec => []RepliesMatch
<1>1. ConnInv => RepliesMatch
  BY DEF ConnInv, RepliesMatch, Matched, Calls, Called
<1> QED BY ConnInvariant, <1>1, PTL

\* _pending keeps no entry of a call that returned or timed out.
THEOREM TimeoutsLeakNothing == Spec => []NoLeakByTimeout
<1>1. ConnInv => NoLeakByTimeout
  <2> SUFFICES ASSUME ConnInv, NEW i \in pending PROVE call[i] \notin {"returned", "timeout"}
    BY DEF NoLeakByTimeout
  <2>1. i \in Ids /\ fut[i] = Pending /\ Called(i)
    BY DEF ConnInv, TypeOK, PendingUnsettled, Calls
  <2> QED BY <2>1 DEF Called, Pending, Ids
<1> QED BY ConnInvariant, <1>1, PTL

\* The finally clause of _read_loop reaches every call in flight.
THEOREM ReaderEndSettlesCalls == Spec => ReaderEndReleasesCalls
<1>1. ConnInv /\ [Next]_vars =>
        [(reader = "reading" /\ reader' # "reading") =>
           \A i \in Ids : call[i] \in {"writing", "waiting"} => fut'[i] # Pending]_vars
  BY ConnNext
<1> QED BY ConnInvariant, <1>1, PTL DEF Spec, ReaderEndReleasesCalls

===============================================================================
