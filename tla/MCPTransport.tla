---------------------------- MODULE MCPTransport ----------------------------
(***************************************************************************)
(* The JSON-RPC connection to one MCP server: MCPTransport of              *)
(* src/gateway/mcp/transport.py.  Concurrent calls write requests to the   *)
(* server's stdin, one reader task resolves their futures from its stdout, *)
(* and each call waits for its future under a timeout of its own.          *)
(*                                                                         *)
(* A call is its request id.  A line of stdout is the reply or the request *)
(* it parses to, "noise" (blank, not JSON, a notification) or "poison"     *)
(* (JSON that is no object, undecodable or oversized: reading it raises).  *)
(* Methods, parameters and results are dropped.                            *)
(***************************************************************************)
EXTENDS Integers, Sequences

CONSTANTS
    MaxIds,     \* bound: requests of one connection
    MaxLines    \* bound: lines of stdout that wait to be read

ASSUME TransportAssumption == MaxIds \in Nat /\ MaxLines \in Nat

Ids == 1..MaxIds

VARIABLES
    proc,       \* the server process
    stdout,     \* lines that it wrote and nobody has read
    eof,        \* is its end of stdout closed?
    reader,     \* _reader_task, and how it ended
    nextId,     \* _next_id
    pending,    \* the keys of _pending
    fut,        \* the future of each request
    call,       \* where the coroutine of each request is
    stopper     \* where stop() is

server == <<proc, stdout, eof>>
vars   == <<server, reader, nextId, pending, fut, call, stopper>>

\* "ask" is a request of the server itself: it numbers its requests as it likes.
Reply == [id : Ids, kind : {"ok", "error", "ask"}]
Plain(kinds) == [id : {0}, kind : kinds]
Line  == Reply \cup Plain({"noise", "poison"})

\* The state of a future: the line that settled it, or one of these.
Unset   == [id |-> 0, kind |-> "none"]
Pending == [id |-> 0, kind |-> "pending"]
Failed  == [id |-> 0, kind |-> "closed"]    \* RuntimeError("MCP transport closed")

Ended == {"closed", "poisoned", "broken", "cancelled"}    \* ends of the reader
Over  == {"returned", "timeout", "failed", "gone"}        \* ends of a call

TypeOK ==
    /\ proc \in {"off", "alive", "dead"}
    /\ stdout \in Seq(Line) /\ Len(stdout) <= MaxLines
    /\ eof \in BOOLEAN
    /\ reader \in {"none", "reading"} \cup Ended
    /\ nextId \in 1..(MaxIds + 1)
    /\ pending \subseteq Ids
    /\ fut \in [Ids -> Reply \cup {Unset, Pending, Failed}]
    /\ call \in [Ids -> {"none", "writing", "waiting", "expiring"} \cup Over]
    /\ stopper \in {"idle", "reaping", "terminating", "done"}

Init ==
    /\ proc = "off" /\ stdout = <<>> /\ eof = FALSE
    /\ reader = "none"
    /\ nextId = 1 /\ pending = {}
    /\ fut = [i \in Ids |-> Unset]
    /\ call = [i \in Ids |-> "none"]
    /\ stopper = "idle"

-----------------------------------------------------------------------------
(* The server process.                                                     *)

ServerWrites(l) ==
    /\ proc = "alive" /\ ~eof /\ Len(stdout) < MaxLines
    /\ stdout' = Append(stdout, l)
    /\ UNCHANGED <<proc, eof, reader, nextId, pending, fut, call, stopper>>

\* It may answer, once or more often, any request it was sent, or none.
ServerReplies == \E i \in Ids, k \in {"ok", "error"} :
                    i < nextId /\ ServerWrites([id |-> i, kind |-> k])
ServerAsks    == \E i \in Ids : ServerWrites([id |-> i, kind |-> "ask"])
ServerBabbles == \E l \in Plain({"noise", "poison"}) : ServerWrites(l)

ServerClosesStdout ==
    /\ proc = "alive" /\ ~eof
    /\ eof' = TRUE
    /\ UNCHANGED <<proc, stdout, reader, nextId, pending, fut, call, stopper>>

ServerExits ==
    /\ proc = "alive"
    /\ proc' = "dead" /\ eof' = TRUE
    /\ UNCHANGED <<stdout, reader, nextId, pending, fut, call, stopper>>

-----------------------------------------------------------------------------
(* start() and the reader.                                                 *)

Start ==
    /\ proc = "off" /\ stopper = "idle"
    /\ proc' = "alive" /\ reader' = "reading"
    /\ UNCHANGED <<stdout, eof, nextId, pending, fut, call, stopper>>

\* Mutant of EndReader: the waiting calls are forgotten instead of failed.
EndReaderSilently(how) ==
    /\ reader' = how /\ pending' = {}
    /\ UNCHANGED fut

\* The finally clause: every outstanding future fails.
EndReader(how) ==
    /\ reader' = how
    /\ fut' = [i \in Ids |-> IF i \in pending /\ fut[i] = Pending THEN Failed ELSE fut[i]]
    /\ pending' = {}

\* Mutant of Deliver: a reply answers the oldest call.
DeliverOldest(l) ==
    \E i \in pending :
        /\ \A j \in pending : i <= j
        /\ pending' = pending \ {i} /\ fut' = [fut EXCEPT ![i] = l]
        /\ UNCHANGED reader

\* A line whose id is registered: its future is popped and set, which raises
\* InvalidStateError in the reader if the future is settled already.
Deliver(l) ==
    IF fut[l.id] = Pending
    THEN /\ pending' = pending \ {l.id}
         /\ fut' = [fut EXCEPT ![l.id] = l]
         /\ UNCHANGED reader
    ELSE EndReader("broken")

\* stop() has not cancelled the reader: it takes the next line.
Read ==
    /\ reader = "reading" /\ stopper # "reaping" /\ stdout # <<>>
    /\ stdout' = Tail(stdout)
    /\ LET l == Head(stdout)
       IN  \/ l.kind = "poison" /\ EndReader("poisoned")
           \/ l.id \in pending /\ Deliver(l)
           \/ /\ l.kind # "poison" /\ l.id \notin pending
              /\ UNCHANGED <<reader, pending, fut>>
    /\ UNCHANGED <<proc, eof, nextId, call, stopper>>

ReadEof ==
    /\ reader = "reading" /\ stopper # "reaping" /\ stdout = <<>> /\ eof
    /\ EndReader("closed")
    /\ UNCHANGED <<server, nextId, call, stopper>>

ReaderCancelled ==
    /\ reader = "reading" /\ stopper = "reaping"
    /\ EndReader("cancelled")
    /\ UNCHANGED <<server, nextId, call, stopper>>

-----------------------------------------------------------------------------
(* _request, one coroutine per id.                                         *)

\* The future is registered and the line is written; then drain() is awaited.
Request ==
    /\ proc # "off" /\ nextId \in Ids
    /\ nextId' = nextId + 1
    /\ pending' = pending \cup {nextId}
    /\ fut' = [fut EXCEPT ![nextId] = Pending]
    /\ call' = [call EXCEPT ![nextId] = "writing"]
    /\ UNCHANGED <<server, reader, stopper>>

Advance(i, from, to) ==
    /\ call[i] = from
    /\ call' = [call EXCEPT ![i] = to]
    /\ UNCHANGED <<server, reader, nextId, fut, stopper>>

\* drain() returns, after any time, or raises: the server is gone or stopped.
Drained(i)    == Advance(i, "writing", "waiting") /\ UNCHANGED pending
DrainFails(i) ==
    /\ proc = "dead" \/ stopper \in {"terminating", "done"}
    /\ Advance(i, "writing", "failed") /\ UNCHANGED pending

\* The future is settled: its result is returned, its exception raised.
Return(i) ==
    /\ fut[i] # Pending
    /\ Advance(i, "waiting", IF fut[i] = Failed THEN "failed" ELSE "returned")
    /\ UNCHANGED pending

\* Mutant of TimerFires: a call without a timeout.
NoTimer(i) == FALSE /\ Advance(i, "waiting", "expiring")

\* The timer of wait_for fires; the coroutine runs again only later, and may
\* by then find the future settled.
TimerFires(i) == Advance(i, "waiting", "expiring") /\ UNCHANGED pending

ReturnLate(i) ==
    /\ fut[i] # Pending
    /\ Advance(i, "expiring", IF fut[i] = Failed THEN "failed" ELSE "returned")
    /\ UNCHANGED pending

\* Mutant of Expire: the entry is not popped.
ExpireLeaking(i) == Advance(i, "expiring", "timeout") /\ UNCHANGED pending

Expire(i) ==
    /\ Advance(i, "expiring", "timeout")
    /\ pending' = pending \ {i}

\* Mutant of Abandon: without the shield the future is cancelled as well.
AbandonUnshielded(i) ==
    /\ call[i] \in {"writing", "waiting", "expiring"}
    /\ call' = [call EXCEPT ![i] = "gone"]
    /\ fut' = [fut EXCEPT ![i] = IF fut[i] = Pending THEN Failed ELSE fut[i]]
    /\ UNCHANGED <<server, reader, nextId, pending, stopper>>

\* The caller is cancelled, by the runner's own wait_for or with its run: the
\* shielded future stays registered.
Abandon(i) ==
    /\ call[i] \in {"writing", "waiting", "expiring"}
    /\ call' = [call EXCEPT ![i] = "gone"]
    /\ UNCHANGED <<server, reader, nextId, pending, fut, stopper>>

-----------------------------------------------------------------------------
(* stop().                                                                 *)

\* A reader that is not done is cancelled and awaited.
Stop ==
    /\ stopper = "idle" /\ proc # "off"
    /\ stopper' = IF reader = "reading" THEN "reaping" ELSE "terminating"
    /\ UNCHANGED <<server, reader, nextId, pending, fut, call>>

ReaderReaped ==
    /\ stopper = "reaping" /\ reader # "reading"
    /\ stopper' = "terminating"
    /\ UNCHANGED <<server, reader, nextId, pending, fut, call>>

\* Mutant of Stopped: a process that ignores SIGTERM is waited for.
StoppedGently ==
    /\ stopper = "terminating" /\ proc = "dead"
    /\ stopper' = "done"
    /\ UNCHANGED <<server, reader, nextId, pending, fut, call>>

\* terminate(), then the exit is seen; or five seconds later kill().
Stopped ==
    /\ stopper = "terminating"
    /\ stopper' = "done"
    /\ proc' = "dead" /\ eof' = TRUE
    /\ UNCHANGED <<stdout, reader, nextId, pending, fut, call>>

-----------------------------------------------------------------------------
Server == ServerReplies \/ ServerAsks \/ ServerBabbles \/ ServerClosesStdout \/ ServerExits
Reader == Read \/ ReadEof \/ ReaderCancelled
Timed(i)  == Return(i) \/ ReturnLate(i) \/ TimerFires(i) \/ Expire(i)
Caller(i) == Drained(i) \/ DrainFails(i) \/ Timed(i) \/ Abandon(i)
Stopping  == ReaderReaped \/ Stopped

Next == \/ Start \/ Server \/ Reader \/ Request \/ Stop \/ Stopping
        \/ \E i \in Ids : Caller(i)

Spec == Init /\ [][Next]_vars

\* The reader and the calls are tasks of the event loop, timers fire, and stop()
\* gives the process five seconds.  Nothing obliges the server to answer, to
\* exit, or to read its stdin: drain() may take for ever.
FairSpec == /\ Spec /\ WF_vars(Reader) /\ WF_vars(Stopping)
            /\ \A i \in Ids : WF_vars(Timed(i)) /\ WF_vars(DrainFails(i))

-----------------------------------------------------------------------------
(* Properties                                                              *)

\* A registered future is never settled: whatever the order of replies,
\* duplicates, timeouts and abandoned calls, set_result cannot raise.
PendingUnsettled == \A i \in pending : fut[i] = Pending

\* The reader ends only at the end of stdout, by stop(), or on a line that
\* cannot be read; never because of a late, duplicate or unexpected reply.
ReaderSurvivesReplies == reader # "broken"

\* A call returns what the server sent under the call's own id, and a future is
\* settled by no other line: calls in flight never swap their answers.
RepliesMatch ==
    \A i \in Ids :
        /\ fut[i].id \in {0, i}
        /\ call[i] = "returned" => fut[i].id = i

\* A call that returned or timed out has left no entry behind; what stays
\* registered belongs to calls in flight, cancelled from outside or never
\* written.
NoLeakByTimeout == \A i \in pending : call[i] \notin {"returned", "timeout"}

\* The end of the reader, whatever its reason, fails every call in flight at
\* once: none of them is left to its timeout.
ReaderEndReleasesCalls ==
    [][(reader = "reading" /\ reader' # "reading") =>
         \A i \in Ids : call[i] \in {"writing", "waiting"} => fut'[i] # Pending]_vars

\* A call that waits ends, though the server never answers and though the reader
\* is gone while the process lives on.
WaitingCallsEnd == \A i \in Ids : (call[i] = "waiting") ~> (call[i] \in Over)

\* stop() returns.
StopReturns == (stopper # "idle") ~> (stopper = "done")
=============================================================================
