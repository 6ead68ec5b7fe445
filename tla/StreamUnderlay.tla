--------------------------- MODULE StreamUnderlay ---------------------------
(***************************************************************************)
(* The sessions of one TCP connection: the client's and the server's       *)
(* StreamUnderlay (pkg/protocol/underlay_stream.go, underlay_base.go) with *)
(* their event loops and session maps, the Session objects they carry, and *)
(* a connection that keeps the order of the segments, holds a bounded      *)
(* number of them in each direction and may break.                         *)
(*                                                                         *)
(* An end of a session is a pair <<side, session>>.  The 1 s limit of the  *)
(* poll in closeWithError, the cleaning ticker and the idle timeout may    *)
(* fire at any moment.                                                     *)
(***************************************************************************)
EXTENDS SegmentTree, Sequences

CONSTANTS
    Sessions,          \* session IDs the client uses
    SendQueueCapacity, \* segmentSendQueueTreeCapacity
    TreeCapacity,      \* segmentTreeCapacity of recvQueue
    ChanCapacity,      \* segmentChanCapacity
    ConnCapacity,      \* bound: segments TCP buffers in one direction
    MaxWrites,         \* bound: payloads written on each side of a session
    QuotaOK,           \* the answers checkQuota may give
    FaultChoices       \* sets of events that may interrupt one behaviour

Side == {"client", "server"}
Peer(e) == IF e = "client" THEN "server" ELSE "client"
End == Side \X Sessions
Other(x) == <<Peer(x[1]), x[2]>>

Live == {"Attached", "Established"}
StreamKind == {"openReq", "openResp", "data"}
Kind == StreamKind \cup {"closeReq", "closeResp"}
Segment == [session : Sessions, kind : Kind, seq : Nat, data : Nat]
Element == [seq : Nat, data : Nat]  \* a stream segment, to the applications

\* An application or the Mux closes a session or an underlay, the server finds
\* the connection idle, or the network breaks it.
Fault == {"clientClose", "serverClose", "underlayClose", "idle", "network"}
CloseOf(e) == IF e = "client" THEN "clientClose" ELSE "serverClose"

ASSUME StreamAssumption ==
    /\ {SendQueueCapacity, TreeCapacity, ChanCapacity, ConnCapacity} \subseteq Nat \ {0}
    /\ SendQueueCapacity >= 2
    /\ MaxWrites \in [Side -> Nat]
    /\ QuotaOK \subseteq BOOLEAN
    /\ FaultChoices \subseteq SUBSET Fault

VARIABLES
    faults,      \* the events that may interrupt this behaviour
    state, openSent, closing, closeSeq, outputErr,
    sendQueue, hand, oLock, nextSend, lastSend, recvChan, recvQueue,
    conn,        \* the segments each side has written that the other has not read
    up,          \* the connection works
    registered,  \* the ends in the session map of their underlay
    event,       \* the event loop of each side
    answer,      \* sessions the event loop is about to ask the peer to close
    deadline,    \* Close of the underlay has made I/O fail
    toClose,     \* the sessions it found in the map
    done,        \* the done channel of the underlay is closed
    log,         \* history: number and payload of each stream segment queued
    delivered,   \* history: number and payload of those Read has consumed
    promised     \* history: the segments numbered before a close request that
                 \* was queued behind them and not written ahead of the queue

closeVars == <<closing, closeSeq, promised>>
sendVars == <<sendQueue, hand, oLock, nextSend, lastSend, log>>
recvVars == <<recvChan, recvQueue, delivered>>
loopVars == <<registered, event, answer>>
connVars == <<faults, up, deadline, toClose, done>>
vars == <<state, openSent, closeVars, outputErr, sendVars, recvVars, conn,
          loopVars, connVars>>

Init ==
    /\ faults \in FaultChoices
    /\ state = [x \in End |-> "Init"]
    /\ openSent = {}
    /\ closing = [x \in End |-> "none"]
    /\ closeSeq = [x \in End |-> 0]
    /\ promised = [x \in End |-> 0]
    /\ outputErr = {}
    /\ sendQueue = [x \in End |-> {}]
    /\ hand = [x \in End |-> {}]
    /\ oLock = {}
    /\ nextSend = [x \in End |-> 0]
    /\ lastSend = [x \in End |-> 0]
    /\ recvChan = [x \in End |-> <<>>]
    /\ recvQueue = [x \in End |-> {}]
    /\ conn = [e \in Side |-> <<>>]
    /\ up = TRUE
    /\ registered = {}
    /\ event = [e \in Side |-> "run"]
    /\ answer = [e \in Side |-> {}]
    /\ deadline = {}
    /\ toClose = [e \in Side |-> {}]
    /\ done = {}
    /\ log = [x \in End |-> <<>>]
    /\ delivered = [x \in End |-> <<>>]

-----------------------------------------------------------------------------
(* The connection and the queues.                                          *)

Seg(x, kind, seq, data) == [session |-> x[2], kind |-> kind, seq |-> seq, data |-> data]

\* writeOneSegment succeeds.  It blocks while TCP has no room; what is written
\* to a connection that has broken may be accepted and lost.
Put(e, seg) ==
    /\ e \notin deadline
    /\ up => Len(conn[e]) < ConnCapacity
    /\ conn' = IF up THEN [conn EXCEPT ![e] = Append(@, seg)] ELSE conn

\* writeOneSegment may fail.
CanFail(e) == e \in deadline \/ ~up

\* The element of a stream segment; its payload is 0 for none.
Entry(seg) == [seq |-> seg.seq, data |-> seg.data]

\* Number a stream segment of end x and queue it, under oLock.
Enqueue(x, kind, data) ==
    LET seg == Seg(x, kind, nextSend[x], data)
    IN  /\ x \notin oLock
        /\ sendQueue' = [sendQueue EXCEPT ![x] = Insert(@, seg)]
        /\ nextSend' = [nextSend EXCEPT ![x] = @ + 1]
        /\ log' = [log EXCEPT ![x] = Append(@, Entry(seg))]

-----------------------------------------------------------------------------
(* Closing a session: closeWithError.                                      *)

\* The end of closeWithError.
Finish(x) ==
    /\ state' = [state EXCEPT ![x] = "Closed"]
    /\ sendQueue' = [sendQueue EXCEPT ![x] = {}]

\* closeWithError(nil), up to the poll: the close request is queued behind the
\* data.  `reply` numbers were used before it by a close response.
StartClose(x, who, reply) ==
    IF closing[x] # "none"
    THEN /\ nextSend' = [nextSend EXCEPT ![x] = @ + reply]
         /\ UNCHANGED <<closeVars, sendQueue>>
    ELSE /\ closing' = [closing EXCEPT ![x] = who]
         /\ closeSeq' = [closeSeq EXCEPT ![x] = nextSend[x] + reply]
         /\ nextSend' = [nextSend EXCEPT ![x] = @ + reply + 1]
         /\ IF Remaining(sendQueue[x], SendQueueCapacity) > 0
            THEN /\ sendQueue' = [sendQueue EXCEPT ![x] =
                                      Insert(@, Seg(x, "closeReq", nextSend[x] + reply, 0))]
                 /\ promised' = [promised EXCEPT ![x] = Len(log[x])]
            ELSE UNCHANGED <<sendQueue, promised>>

\* closeWithError with an error: the request is written directly, and here the
\* write fails or is lost.
Abort(x, who) ==
    /\ closing' = [closing EXCEPT ![x] = who]
    /\ closeSeq' = [closeSeq EXCEPT ![x] = nextSend[x]]
    /\ nextSend' = [nextSend EXCEPT ![x] = @ + 1]
    /\ UNCHANGED promised
    /\ Finish(x)

\* Close is called by the application, or by the underlay that is closing.
Close(x) ==
    /\ CloseOf(x[1]) \in faults \/ (x[1] \in deadline \ done /\ x \in registered)
    /\ state[x] \in Live
    /\ closing[x] = "none"
    /\ x \notin oLock
    /\ StartClose(x, "user", 0)
    /\ UNCHANGED <<state, openSent, outputErr, hand, oLock, lastSend, log, recvVars,
                   conn, loopVars, connVars>>

\* The poll finds lastSend at or past the close request.
CloseSucceeds(x) ==
    /\ state[x] \in Live
    /\ closing[x] # "none"
    /\ lastSend[x] >= closeSeq[x]
    /\ Finish(x)
    /\ oLock' = IF hand[x] = {} THEN oLock \ {x} ELSE oLock
    /\ UNCHANGED <<openSent, closeVars, outputErr, hand, nextSend, lastSend, log,
                   recvVars, conn, loopVars, connVars>>

\* The 1000 polls are over, or the queue had no room: the request is written
\* directly, ahead of what is in the queue.  The output loop may have written
\* the queued one after the last poll.
CloseTimesOut(x) ==
    /\ state[x] \in Live
    /\ closing[x] # "none"
    /\ x \notin oLock
    /\ Finish(x)
    /\ \/ /\ Put(x[1], Seg(x, "closeReq", closeSeq[x], 0))
          /\ lastSend' = [lastSend EXCEPT ![x] = closeSeq[x]]
       \/ CanFail(x[1]) /\ UNCHANGED <<conn, lastSend>>
    /\ promised' = [promised EXCEPT ![x] = 0]
    /\ UNCHANGED <<openSent, closing, closeSeq, outputErr, hand, oLock, nextSend, log,
                   recvVars, loopVars, connVars>>

-----------------------------------------------------------------------------
(* The application.                                                        *)

\* AddSession on the client's underlay.
DialSession(s) ==
    LET x == <<"client", s>>
    IN  /\ state[x] = "Init"
        /\ state' = [state EXCEPT ![x] = "Attached"]
        /\ registered' = registered \cup {x}
        /\ UNCHANGED <<openSent, closeVars, outputErr, sendVars, recvVars, conn, event,
                       answer, connVars>>

\* The first Write of a client queues the open request, with the payload if it
\* fits and low-entropy coding is off.
OpenSession(s, data) ==
    LET x == <<"client", s>>
    IN  /\ state[x] = "Attached"
        /\ s \notin openSent
        /\ data <= MaxWrites["client"]
        /\ openSent' = openSent \cup {s}
        /\ Enqueue(x, "openReq", data)
        /\ UNCHANGED <<state, closeVars, outputErr, hand, oLock, lastSend, recvVars, conn,
                       loopVars, connVars>>

Payloads(x) == Cardinality({i \in 1..Len(log[x]) : log[x][i].data # 0})

\* Write checks the state; the mutant forgets that the session may be closed.
MayWriteClosed(x) == state[x] # "Init"
MayWrite(x) == state[x] \in Live

\* writeChunk of one fragment.  A Write that started before closeRequested was
\* set may still get here.
Write(x) ==
    /\ MayWrite(x)
    /\ x[1] = "client" => x[2] \in openSent
    /\ x \notin outputErr
    /\ Payloads(x) < MaxWrites[x[1]]
    /\ Remaining(sendQueue[x], SendQueueCapacity) > 1
    /\ Enqueue(x, "data", nextSend[x] + 1)
    /\ UNCHANGED <<state, openSent, closeVars, outputErr, hand, oLock, lastSend, recvVars,
                   conn, loopVars, connVars>>

\* Read consumes a segment, also after the close.  On the client the open
\* response establishes the session only here.
Read(x) ==
    /\ \E seg \in First(recvQueue[x]) :
        /\ recvQueue' = [recvQueue EXCEPT ![x] = @ \ {seg}]
        /\ delivered' = [delivered EXCEPT ![x] = Append(@, Entry(seg))]
        /\ state' = IF seg.kind = "openResp" /\ state[x] = "Attached"
                    THEN [state EXCEPT ![x] = "Established"] ELSE state
    /\ UNCHANGED <<openSent, closeVars, outputErr, sendVars, recvChan, conn, loopVars,
                   connVars>>

-----------------------------------------------------------------------------
(* The output loop: runOutputOnceStream drains sendQueue under oLock.      *)

OutputTake(x) ==
    /\ x \notin outputErr
    /\ \/ state[x] \in Live /\ x \notin oLock
       \/ x \in oLock /\ hand[x] = {}
    /\ \E seg \in First(sendQueue[x]) :
        /\ hand' = [hand EXCEPT ![x] = {seg}]
        /\ sendQueue' = [sendQueue EXCEPT ![x] = @ \ {seg}]
    /\ oLock' = oLock \cup {x}
    /\ UNCHANGED <<state, openSent, closeVars, outputErr, nextSend, lastSend, log, recvVars,
                   conn, loopVars, connVars>>

OutputPut(x) ==
    /\ \E seg \in hand[x] :
        /\ Put(x[1], seg)
        /\ lastSend' = [lastSend EXCEPT ![x] = seg.seq]
    /\ hand' = [hand EXCEPT ![x] = {}]
    /\ oLock' = IF sendQueue[x] = {} THEN oLock \ {x} ELSE oLock
    /\ UNCHANGED <<state, openSent, closeVars, outputErr, sendQueue, nextSend, log, recvVars,
                   loopVars, connVars>>

\* The lock is released before the session is closed.
Unlock(x) == oLock' = oLock \ {x}

OutputFails(x) ==
    /\ hand[x] # {}
    /\ CanFail(x[1])
    /\ hand' = [hand EXCEPT ![x] = {}]
    /\ Unlock(x)
    /\ outputErr' = outputErr \cup {x}
    /\ IF closing[x] = "none"
       THEN Abort(x, "output")
       ELSE UNCHANGED <<closeVars, nextSend, state, sendQueue>>
    /\ UNCHANGED <<openSent, lastSend, log, recvVars, conn, loopVars, connVars>>

-----------------------------------------------------------------------------
(* The input loop takes segments from recvChan.  It is inside closeWithError *)
(* from the moment a close reaches it until the session is closed.  What it  *)
(* might still do with a segment taken after that changes nothing: the       *)
(* receive queue no longer takes it, and the peer is closing.                *)

InputRuns(x) ==
    /\ state[x] \in Live
    /\ closing[x] \notin {"peer", "refused"}
    /\ recvChan[x] # <<>>

\* waitForRecvQueueSpace and Insert.
Accept(x) ==
    /\ Remaining(recvQueue[x], TreeCapacity) > 0
    /\ recvQueue' = [recvQueue EXCEPT ![x] = Insert(@, Head(recvChan[x]))]
    /\ recvChan' = [recvChan EXCEPT ![x] = Tail(@)]

\* inputData, for a segment that asks for no answer.
InputData(x) ==
    /\ InputRuns(x)
    /\ Head(recvChan[x]).kind \in {"openResp", "data"}
    /\ Accept(x)
    /\ UNCHANGED <<state, openSent, closeVars, outputErr, sendVars, delivered, conn,
                   loopVars, connVars>>

\* inputData for the open request, answered when the quota allows it.
InputOpen(x) ==
    /\ InputRuns(x)
    /\ Head(recvChan[x]).kind = "openReq"
    /\ Accept(x)
    /\ TRUE \in QuotaOK
    /\ Enqueue(x, "openResp", 0)
    /\ state' = [state EXCEPT ![x] = "Established"]
    /\ UNCHANGED <<openSent, closeVars, outputErr, hand, oLock, lastSend, delivered, conn,
                   loopVars, connVars>>

\* inputData for the open request of a user who has used up the quota.
InputRefused(x) ==
    /\ InputRuns(x)
    /\ Head(recvChan[x]).kind = "openReq"
    /\ Accept(x)
    /\ FALSE \in QuotaOK
    /\ x \notin oLock
    /\ StartClose(x, "refused", 0)
    /\ UNCHANGED <<state, openSent, outputErr, hand, oLock, lastSend, log, delivered, conn,
                   loopVars, connVars>>

\* inputClose: a request is answered directly, ahead of the send queue.
InputClose(x) ==
    LET kind == Head(recvChan[x]).kind
    IN  /\ InputRuns(x)
        /\ kind \in {"closeReq", "closeResp"}
        /\ x \notin oLock
        /\ recvChan' = [recvChan EXCEPT ![x] = Tail(@)]
        /\ IF kind = "closeReq"
           THEN /\ Put(x[1], Seg(x, "closeResp", nextSend[x], 0))
                /\ lastSend' = [lastSend EXCEPT ![x] = nextSend[x]]
                /\ StartClose(x, "peer", 1)
           ELSE /\ UNCHANGED <<conn, lastSend>>
                /\ StartClose(x, "peer", 0)
        /\ UNCHANGED <<state, openSent, outputErr, hand, oLock, log, recvQueue, delivered,
                       loopVars, connVars>>

\* inputClose cannot write the response: the input loop ends.
InputCloseFails(x) ==
    /\ InputRuns(x)
    /\ Head(recvChan[x]).kind = "closeReq"
    /\ x \notin oLock
    /\ CanFail(x[1])
    /\ closing[x] = "none"
    /\ Abort(x, "output")
    /\ UNCHANGED <<openSent, outputErr, hand, oLock, lastSend, log, recvVars, conn,
                   loopVars, connVars>>

-----------------------------------------------------------------------------
(* The event loop of a side, RunEventLoop.                                 *)

\* The event loop closes the connection when it returns; the mutant leaves it
\* to the peer.
LeaveConn == up' = up
CloseConn == up' = FALSE

Reads(e) ==
    /\ event[e] = "run"
    /\ answer[e] = {}
    /\ conn[Peer(e)] # <<>>

Arriving(e) == Head(conn[Peer(e)])
Target(e) == <<e, Arriving(e).session>>

\* The segment is read, possibly while the underlay is being closed; then it is
\* the last one.
Consume(e) ==
    /\ conn' = [conn EXCEPT ![Peer(e)] = Tail(@)]
    /\ event' = IF e \in done THEN [event EXCEPT ![e] = "last"] ELSE event

\* deliverSegmentToSession waits for room in recvChan, for a live session.  The
\* mutant does not wait for a live session either.
HandOverOrDrop(x, seg) ==
    \/ /\ Len(recvChan[x]) < ChanCapacity
       /\ recvChan' = [recvChan EXCEPT ![x] = Append(@, seg)]
    \/ Len(recvChan[x]) = ChanCapacity /\ UNCHANGED recvChan
DeliverSegmentToSession(x, seg) ==
    \/ /\ Len(recvChan[x]) < ChanCapacity
       /\ recvChan' = [recvChan EXCEPT ![x] = Append(@, seg)]
    \/ state[x] = "Closed" /\ UNCHANGED recvChan

\* Data for a session of the map, its open response, or its close.
Deliver(e) ==
    LET x == Target(e)
    IN  /\ Reads(e)
        /\ x \in registered
        /\ Arriving(e).kind # "openReq"
        /\ DeliverSegmentToSession(x, Arriving(e))
        /\ Consume(e)
        /\ UNCHANGED <<state, openSent, closeVars, outputErr, sendVars, recvQueue, delivered,
                       registered, answer, connVars>>

\* onOpenSessionRequest creates the session of a new session ID.
OnOpenSessionRequest(e) ==
    LET x == Target(e)
    IN  /\ Reads(e)
        /\ Arriving(e).kind = "openReq"
        /\ x \notin registered
        /\ state' = [state EXCEPT ![x] = "Attached"]
        /\ registered' = registered \cup {x}
        /\ recvChan' = [recvChan EXCEPT ![x] = <<Arriving(e)>>]
        /\ Consume(e)
        /\ UNCHANGED <<openSent, closeVars, outputErr, sendVars, recvQueue, delivered,
                       answer, connVars>>

\* onOpenSessionResponse for a session that is not in the map ends the event
\* loop with an error, and the connection with it.
OnUnknownOpenResponse(e) ==
    /\ Reads(e)
    /\ Arriving(e).kind = "openResp"
    /\ Target(e) \notin registered
    /\ event' = [event EXCEPT ![e] = "failed"]
    /\ CloseConn
    /\ UNCHANGED <<state, openSent, closeVars, outputErr, sendVars, recvVars, conn,
                   registered, answer, faults, deadline, toClose, done>>

\* A close of a session that is not in the map is ignored; data makes the event
\* loop ask the peer to close.
OnUnknownSession(e) ==
    /\ Reads(e)
    /\ Target(e) \notin registered
    /\ Arriving(e).kind \in {"data", "closeReq", "closeResp"}
    /\ answer' = [answer EXCEPT ![e] = IF Arriving(e).kind = "data"
                                       THEN {Arriving(e).session} ELSE {}]
    /\ Consume(e)
    /\ UNCHANGED <<state, openSent, closeVars, outputErr, sendVars, recvVars, registered,
                   connVars>>

\* The event loop itself writes the close request.
Answer(e) ==
    /\ event[e] \in {"run", "last"}
    /\ \E s \in answer[e] : Put(e, Seg(<<e, s>>, "closeReq", 0, 0))
    /\ answer' = [answer EXCEPT ![e] = {}]
    /\ UNCHANGED <<state, openSent, closeVars, outputErr, sendVars, recvVars, registered,
                   event, connVars>>

ClosedOn(e) == {x \in registered : x[1] = e /\ state[x] = "Closed"}

\* cleanSessions: RemoveSession waits for the loops of the session, and the
\* output loop may still be inside a write.
CleanSessions(e) ==
    /\ event[e] = "run"
    /\ answer[e] = {}
    /\ e \notin deadline
    /\ ClosedOn(e) # {}
    /\ registered' = registered \ ClosedOn(e)
    /\ event' = [event EXCEPT ![e] =
                    IF \A x \in ClosedOn(e) : hand[x] = {} THEN "run" ELSE "wait"]
    /\ UNCHANGED <<state, openSent, closeVars, outputErr, sendVars, recvVars, conn, answer,
                   connVars>>

CleanSessionsEnd(e) ==
    /\ event[e] = "wait"
    /\ \A x \in End \ registered : x[1] = e => hand[x] = {}
    /\ event' = [event EXCEPT ![e] = "run"]
    /\ UNCHANGED <<state, openSent, closeVars, outputErr, sendVars, recvVars, conn, answer,
                   registered, connVars>>

\* Reading or writing fails: the event loop returns and closes the connection.
EventFails(e) ==
    /\ event[e] \in {"run", "last"}
    /\ CanFail(e)
    /\ event' = [event EXCEPT ![e] = "ended"]
    /\ CloseConn
    /\ UNCHANGED <<state, openSent, closeVars, outputErr, sendVars, recvVars, conn,
                   registered, answer, faults, deadline, toClose, done>>

\* The event loop finds the underlay closed.
EventEnds(e) ==
    /\ event[e] \in {"run", "last"}
    /\ answer[e] = {}
    /\ e \in done
    /\ event' = [event EXCEPT ![e] = "ended"]
    /\ registered' = registered \ ClosedOn(e)
    /\ CloseConn
    /\ UNCHANGED <<state, openSent, closeVars, outputErr, sendVars, recvVars, conn,
                   answer, faults, deadline, toClose, done>>

-----------------------------------------------------------------------------
(* Closing the underlay.                                                   *)

\* Close, called by the Mux, or by the goroutine whose event loop has returned.
CloseUnderlay(e) ==
    /\ e \notin deadline
    /\ event[e] \in {"ended", "failed"} \/ "underlayClose" \in faults
    /\ deadline' = deadline \cup {e}
    /\ toClose' = [toClose EXCEPT ![e] = {x \in registered : x[1] = e}]
    /\ UNCHANGED <<state, openSent, closeVars, outputErr, sendVars, recvVars, conn, loopVars,
                   faults, up, done>>

\* baseUnderlay.Close has closed the sessions of the map and their loops have
\* returned.  A session that was added meanwhile may have been missed.
CloseUnderlayEnd(e) ==
    /\ e \in deadline \ done
    /\ \A x \in toClose[e] : state[x] = "Closed" /\ hand[x] = {}
    /\ done' = done \cup {e}
    /\ UNCHANGED <<state, openSent, closeVars, outputErr, sendVars, recvVars, conn, loopVars,
                   faults, up, deadline, toClose>>

\* closeIfIdle on the server: the connection is closed first, and the sessions
\* that are not closing already without a graceful close.
CloseIfIdle ==
    LET idle == {x \in registered : x[1] = "server" /\ closing[x] = "none"}
    IN  /\ "idle" \in faults
        /\ "server" \notin deadline
        /\ deadline' = deadline \cup {"server"}
        /\ toClose' = [toClose EXCEPT !["server"] = {x \in registered : x[1] = "server"}]
        /\ up' = FALSE
        /\ closing' = [x \in End |-> IF x \in idle THEN "output" ELSE closing[x]]
        /\ closeSeq' = [x \in End |-> IF x \in idle THEN nextSend[x] ELSE closeSeq[x]]
        /\ nextSend' = [x \in End |-> IF x \in idle THEN nextSend[x] + 1 ELSE nextSend[x]]
        /\ state' = [x \in End |-> IF x \in idle THEN "Closed" ELSE state[x]]
        /\ sendQueue' = [x \in End |-> IF x \in idle THEN {} ELSE sendQueue[x]]
        /\ oLock' = {x \in oLock : x \in idle => hand[x] # {}}
        /\ UNCHANGED <<openSent, promised, outputErr, hand, lastSend, log, recvVars, conn,
                       loopVars, faults, done>>

\* The network breaks the connection.
Break ==
    /\ "network" \in faults
    /\ up
    /\ up' = FALSE
    /\ UNCHANGED <<state, openSent, closeVars, outputErr, sendVars, recvVars, conn, loopVars,
                   faults, deadline, toClose, done>>

-----------------------------------------------------------------------------
InputStep(x) ==
    InputData(x) \/ InputOpen(x) \/ InputRefused(x) \/ InputClose(x) \/ InputCloseFails(x)

SessionStep(x) ==
    \/ Close(x) \/ CloseSucceeds(x) \/ CloseTimesOut(x)
    \/ Write(x) \/ Read(x)
    \/ OutputTake(x) \/ OutputPut(x) \/ OutputFails(x)
    \/ InputStep(x)

EventStep(e) ==
    \/ Deliver(e) \/ OnOpenSessionRequest(e) \/ OnUnknownOpenResponse(e)
    \/ OnUnknownSession(e) \/ Answer(e)
    \/ CleanSessions(e) \/ CleanSessionsEnd(e) \/ EventFails(e) \/ EventEnds(e)

UnderlayStep(e) ==
    EventStep(e) \/ CloseUnderlay(e) \/ CloseUnderlayEnd(e)

Next ==
    \/ \E s \in Sessions : DialSession(s) \/ OpenSession(s, 0) \/ OpenSession(s, 1)
    \/ \E x \in End : SessionStep(x)
    \/ \E e \in Side : UnderlayStep(e)
    \/ CloseIfIdle \/ Break

\* Every goroutine runs, timers fire, the applications read, and I/O on a
\* broken connection fails in the end.  Nobody has to dial, write or close.
Fairness ==
    /\ \A x \in End :
        /\ WF_vars(x[1] \in deadline /\ Close(x))
        /\ WF_vars(CloseSucceeds(x) \/ CloseTimesOut(x))
        /\ WF_vars(OutputTake(x) \/ OutputPut(x) \/ OutputFails(x))
        /\ WF_vars(InputStep(x))
        /\ WF_vars(Read(x))
    /\ \A e \in Side :
        /\ WF_vars(EventStep(e))
        /\ WF_vars(\/ event[e] \in {"ended", "failed"} /\ CloseUnderlay(e)
                   \/ CloseUnderlayEnd(e))

Spec == Init /\ [][Next]_vars
FairSpec == Spec /\ Fairness

-----------------------------------------------------------------------------
(* Properties.                                                             *)

\* Every variable stays in its type.
TypeOK ==
    /\ state \in [End -> {"Init", "Closed"} \cup Live]
    /\ openSent \subseteq Sessions
    /\ closing \in [End -> {"none", "user", "peer", "refused", "output"}]
    /\ closeSeq \in [End -> Nat] /\ promised \in [End -> Nat]
    /\ nextSend \in [End -> Nat] /\ lastSend \in [End -> Nat]
    /\ outputErr \subseteq End /\ oLock \subseteq End /\ registered \subseteq End
    /\ sendQueue \in [End -> SUBSET Segment] /\ hand \in [End -> SUBSET Segment]
    /\ recvQueue \in [End -> SUBSET Segment] /\ recvChan \in [End -> Seq(Segment)]
    /\ log \in [End -> Seq(Element)] /\ delivered \in [End -> Seq(Element)]
    /\ conn \in [Side -> Seq(Segment)]
    /\ faults \subseteq Fault
    /\ up \in BOOLEAN
    /\ event \in [Side -> {"run", "wait", "last", "ended", "failed"}]
    /\ answer \in [Side -> SUBSET Sessions]
    /\ toClose \in [Side -> SUBSET End]
    /\ done \subseteq deadline /\ deadline \subseteq Side

\* Each session is two FIFO streams for its applications, whatever the other
\* sessions of the connection do and however it ends.
Stream(s) == INSTANCE ReliableStream
                 WITH sent <- [e \in Side |-> log[<<e, s>>]],
                      received <- [e \in Side |-> delivered[<<e, s>>]],
                      closed <- {e \in Side : state[<<e, s>>] = "Closed"}
StreamsStep == \A s \in Sessions : Stream(s)!Next \/ UNCHANGED Stream(s)!streamVars
ImplementsStreams == (\A s \in Sessions : Stream(s)!Init) /\ [][StreamsStep]_vars

\* A close request that was queued behind the data does not overtake it: when
\* the peer's request closes this side, everything the peer numbered before
\* the request has reached the application or waits for its Read.
NothingCutOff ==
    \A x \in End : closing[x] = "peer" =>
        Len(delivered[x]) + Cardinality(recvQueue[x]) >= promised[Other(x)]

\* When the connection is lost or one side closes its underlay, both underlays
\* end up closed and every session they found in their maps is closed.
StreamsShutDown == done = Side
\* A Close that has begun comes to an end, although it waits for the output
\* loop, which waits for the peer's event loop, which waits for the peer's
\* input loops.  The one thing that can hold it up for ever is an event loop
\* that writes instead of reading: the answer to data of an unknown session.
CloseFinishes ==
    \A x \in End : (closing[x] # "none") ~>
                      (state[x] = "Closed" \/ \E e \in Side : answer[e] # {})

\* What was written reaches the peer's application, unless the session or the
\* connection is closed.
WrittenIsRead ==
    \A x \in End : \A i \in 1..(MaxWrites[x[1]] + 1) :
        Len(log[x]) >= i ~>
            \/ Len(delivered[Other(x)]) >= i
            \/ closing[x] # "none" \/ closing[Other(x)] # "none"

\* "ignored openSessionResponse segment for closed session": a segment for a
\* session that has been closed does not end the event loop, which carries the
\* other sessions of the connection.
LateSegmentTolerated == \A e \in Side : event[e] # "failed"
=============================================================================
