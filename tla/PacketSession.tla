--------------------------- MODULE PacketSession ---------------------------
(***************************************************************************)
(* One session over a PacketUnderlay (UDP): the client's and the server's  *)
(* Session objects of pkg/protocol/session.go, the event loops of the two  *)
(* packet underlays that feed them, and a network that loses, duplicates   *)
(* and reorders datagrams.                                                 *)
(*                                                                         *)
(* Time is abstracted: a retransmission timeout, a heartbeat, the 1 s      *)
(* polling limit of Close and the idle timer may fire at any moment.  The  *)
(* congestion window is any value CubicSendAlgorithm can return.  Sequence *)
(* numbers are unbounded (the code's are uint32).  The acknowledgement     *)
(* request flag is not a variable here: because a heartbeat may be due at  *)
(* any moment, an ACK may be sent with or without it.                      *)
(***************************************************************************)
EXTENDS SegmentTree, Sequences

CONSTANTS
    TreeCapacity,      \* segmentTreeCapacity: sendBuf, recvBuf, recvQueue
    SendQueueCapacity, \* segmentSendQueueTreeCapacity
    MinWindow,         \* minWindowSize
    TxCountLimit,      \* txCountLimit
    MaxFragments,      \* most fragments in one writeChunk
    MaxWrites,         \* bound: payloads each application writes
    MaxInFlight,       \* bound: datagrams in the network
    MaxSeqUsed,        \* bound: close requests are answered below this number
    Closers,           \* the sides on which Close may be called
    QuotaOK,           \* the answers checkQuota may give
    SocketFails        \* the sides on which writing to the socket may fail

Side == {"client", "server"}
Peer(e) == IF e = "client" THEN "server" ELSE "client"

Live == {"Attached", "Established"}
SessionState == {"Init", "Closed"} \cup Live

\* Segments that carry the byte stream through recvBuf, and all the protocols.
StreamKind == {"openReq", "openResp", "data"}
Kind == StreamKind \cup {"ack", "closeReq", "closeResp"}

Segment == [kind : Kind, seq : Nat, data : Nat, wnd : Nat, tx : Nat]
Message == [to : Side, kind : Kind, seq : Nat, data : Nat, unAck : Nat, wnd : Nat]

ASSUME TreeAssumption ==
    /\ TreeCapacity \in Nat /\ TreeCapacity >= 2
    /\ SendQueueCapacity \in Nat /\ SendQueueCapacity >= 2
ASSUME WindowAssumption == MinWindow \in 1..TreeCapacity
ASSUME BoundAssumption ==
    /\ TxCountLimit \in Nat \ {0}
    /\ MaxFragments \in Nat \ {0}
    /\ MaxWrites \in [Side -> Nat]
    /\ MaxInFlight \in Nat
    /\ MaxSeqUsed \in Nat
    /\ Closers \subseteq Side
    /\ QuotaOK \subseteq BOOLEAN
    /\ SocketFails \subseteq Side

VARIABLES
    state,        \* Session.state
    openSent,     \* openSessionRequestSent of the client
    recvChan,     \* the server's recvChan while it holds the open request
    closing,      \* who called closeWithError first ("none": not called)
    closeSeq,     \* closeRequestSeq of the caller that is polling lastSend
    outputErr,    \* outputHasErr
    sendQueue, sendBuf, nextSend, lastSend, remoteWindow,
    recvBuf, recvQueue, nextRecv,
    net,          \* datagrams in flight
    written,      \* payloads the application has written
    log,          \* history: the payload of each sequence number, 0 for none
    delivered     \* history: the payloads Read has consumed, 0 for none

closeVars == <<closing, closeSeq, outputErr>>
sendVars == <<sendQueue, sendBuf, nextSend, lastSend, log>>
recvVars == <<recvBuf, recvQueue, nextRecv>>
vars == <<state, openSent, recvChan, closeVars, sendVars, remoteWindow,
          recvVars, net, written, delivered>>

Init ==
    /\ state = [e \in Side |-> IF e = "client" THEN "Attached" ELSE "Init"]
    /\ openSent = FALSE
    /\ recvChan = {}
    /\ closing = [e \in Side |-> "none"]
    /\ closeSeq = [e \in Side |-> 0]
    /\ outputErr = [e \in Side |-> FALSE]
    /\ sendQueue = [e \in Side |-> {}]
    /\ sendBuf = [e \in Side |-> {}]
    /\ nextSend = [e \in Side |-> 0]
    /\ lastSend = [e \in Side |-> 0]
    /\ remoteWindow = [e \in Side |-> MinWindow]
    /\ recvBuf = [e \in Side |-> {}]
    /\ recvQueue = [e \in Side |-> {}]
    /\ nextRecv = [e \in Side |-> 0]
    /\ net = {}
    /\ written = [e \in Side |-> 0]
    /\ log = [e \in Side |-> <<>>]
    /\ delivered = [e \in Side |-> <<>>]

-----------------------------------------------------------------------------
(* Helpers.                                                                *)

Seg(kind, seq, data, wnd) ==
    [kind |-> kind, seq |-> seq, data |-> data, wnd |-> wnd, tx |-> 0]

\* A mutant of Datagram acknowledges the number of the last segment received in
\* order instead of the next one.
DatagramAcksLast(e, s) ==
    [to |-> Peer(e), kind |-> s.kind, seq |-> s.seq, data |-> s.data,
     unAck |-> IF s.kind \in {"data", "ack"} THEN nextRecv[e] - 1 ELSE 0,
     wnd |-> s.wnd]

\* The datagram writeOneSegment builds.  The cumulative acknowledgement is
\* read when the segment is transmitted, the window is the one stored in it;
\* session-control segments carry neither.
Datagram(e, s) ==
    [to |-> Peer(e), kind |-> s.kind, seq |-> s.seq, data |-> s.data,
     unAck |-> IF s.kind \in {"data", "ack"} THEN nextRecv[e] ELSE 0,
     wnd |-> s.wnd]

\* A server session has no cipher until its input loop has seen the open
\* request: writeOneSegment returns ErrNotReady and output() swallows it.
CipherReady(e) == e = "client" \/ recvChan = {}

\* Any subset of the datagrams written gets on the wire.
Transmit(remaining, msgs) ==
    \E sent \in SUBSET msgs :
        /\ Cardinality(remaining \cup sent) <= MaxInFlight
        /\ net' = remaining \cup sent

\* isClientPacketSessionOpening, and its mutant.
NeverOpening(e) == FALSE
IsClientOpening(e) == e = "client" /\ state[e] = "Attached"

Largest(a, b) == IF a >= b THEN a ELSE b
Smallest(a, b) == IF a <= b THEN a ELSE b

\* receiveWindowSize, and a mutant that forgets the segments not read yet.
BufferWindow(e) == Largest(0, TreeCapacity - Cardinality(recvBuf[e]))
ReceiveWindow(e) ==
    Largest(0, TreeCapacity - Cardinality(recvBuf[e]) - Cardinality(recvQueue[e]))

\* sendWindowSize with inBuf segments in sendBuf.
SendWindow(e, cwnd, inBuf) == Largest(0, Smallest(cwnd - inBuf, remoteWindow[e]))

-----------------------------------------------------------------------------
(* Closing.                                                                *)

\* closeWithError(nil), called by the application, the idle cleaner or the
\* input loop.  With `reply`, the caller writes a close response first; `rest`
\* is the network without the datagram being handled.  The close request is
\* queued and the caller then polls lastSend; when the queue is full (never
\* before the open request is handled) it is written at once and the session
\* is closed in the same call.
StartClose(e, who, reply, rest) ==
    LET seq == IF reply THEN nextSend[e] + 1 ELSE nextSend[e]
        history == IF reply THEN Append(log[e], 0) ELSE log[e]
        last == IF reply THEN nextSend[e] ELSE lastSend[e]
        req == Seg("closeReq", seq, 0, 0)
        sent == IF reply THEN {Datagram(e, Seg("closeResp", nextSend[e], 0, 0))} ELSE {}
    IN  \/ /\ closing[e] # "none"
           /\ nextSend' = [nextSend EXCEPT ![e] = seq]
           /\ log' = [log EXCEPT ![e] = history]
           /\ lastSend' = [lastSend EXCEPT ![e] = last]
           /\ Transmit(rest, sent)
           /\ UNCHANGED <<state, closeVars, sendQueue, sendBuf>>
        \/ /\ closing[e] = "none"
           /\ Remaining(sendQueue[e], SendQueueCapacity) > 0
           /\ sendQueue' = [sendQueue EXCEPT ![e] = Insert(@, req)]
           /\ closing' = [closing EXCEPT ![e] = who]
           /\ closeSeq' = [closeSeq EXCEPT ![e] = seq]
           /\ nextSend' = [nextSend EXCEPT ![e] = seq + 1]
           /\ log' = [log EXCEPT ![e] = Append(history, 0)]
           /\ lastSend' = [lastSend EXCEPT ![e] = last]
           /\ Transmit(rest, sent)
           /\ UNCHANGED <<state, outputErr, sendBuf>>
        \/ /\ closing[e] = "none"
           /\ Remaining(sendQueue[e], SendQueueCapacity) <= 0
           /\ Transmit(rest, sent \cup (IF CipherReady(e) THEN {Datagram(e, req)} ELSE {}))
           /\ lastSend' = [lastSend EXCEPT ![e] = IF CipherReady(e) THEN seq ELSE last]
           /\ closing' = [closing EXCEPT ![e] = who]
           /\ closeSeq' = [closeSeq EXCEPT ![e] = seq]
           /\ nextSend' = [nextSend EXCEPT ![e] = seq + 1]
           /\ log' = [log EXCEPT ![e] = Append(history, 0)]
           /\ sendQueue' = [sendQueue EXCEPT ![e] = {}]
           /\ sendBuf' = [sendBuf EXCEPT ![e] = {}]
           /\ state' = [state EXCEPT ![e] = "Closed"]
           /\ UNCHANGED outputErr

\* The application, RemoveSession or the idle cleaner calls Close.
Close(e) ==
    /\ e \in Closers
    /\ state[e] \in Live
    /\ closing[e] = "none"
    /\ StartClose(e, "user", FALSE, net)
    /\ UNCHANGED <<openSent, recvChan, remoteWindow, recvVars, written, delivered>>

\* The poll of closeWithError finds lastSend at or past the close request.
CloseSucceeds(e) ==
    /\ state[e] \in Live
    /\ closing[e] # "none"
    /\ lastSend[e] >= closeSeq[e]
    /\ sendQueue' = [sendQueue EXCEPT ![e] = {}]
    /\ sendBuf' = [sendBuf EXCEPT ![e] = {}]
    /\ state' = [state EXCEPT ![e] = "Closed"]
    /\ UNCHANGED <<openSent, recvChan, closeVars, nextSend, lastSend, log,
                   remoteWindow, recvVars, net, written, delivered>>

\* The 1000 polls are over: the close request is written directly.
CloseTimesOut(e) ==
    /\ state[e] \in Live
    /\ closing[e] # "none"
    /\ lastSend[e] < closeSeq[e]
    /\ IF CipherReady(e)
       THEN /\ Transmit(net, {Datagram(e, Seg("closeReq", closeSeq[e], 0, 0))})
            /\ lastSend' = [lastSend EXCEPT ![e] = closeSeq[e]]
       ELSE UNCHANGED <<net, lastSend>>
    /\ sendQueue' = [sendQueue EXCEPT ![e] = {}]
    /\ sendBuf' = [sendBuf EXCEPT ![e] = {}]
    /\ state' = [state EXCEPT ![e] = "Closed"]
    /\ UNCHANGED <<openSent, recvChan, closeVars, nextSend, log,
                   remoteWindow, recvVars, written, delivered>>

-----------------------------------------------------------------------------
(* The application: Write and Read.                                        *)

\* The first Write of a client queues the open request.  A payload that fits
\* travels with it and the call returns; otherwise Write goes on with data.
OpenSession ==
    /\ state["client"] = "Attached"
    /\ ~openSent
    /\ openSent' = TRUE
    /\ \E piggyback \in {0, 1} :
        /\ written["client"] + piggyback <= MaxWrites["client"]
        /\ LET payload == IF piggyback = 1 THEN written["client"] + 1 ELSE 0
               req == Seg("openReq", nextSend["client"], payload, 0)
           IN  /\ written' = [written EXCEPT !["client"] = @ + piggyback]
               /\ sendQueue' = [sendQueue EXCEPT !["client"] = Insert(@, req)]
               /\ log' = [log EXCEPT !["client"] = Append(@, payload)]
    /\ nextSend' = [nextSend EXCEPT !["client"] = @ + 1]
    /\ UNCHANGED <<state, recvChan, closeVars, sendBuf, lastSend, remoteWindow,
                   recvVars, net, delivered>>

\* writeChunk: n fragments are numbered and queued under oLock, once the
\* queue has room for them and for a close request.  A Write that started
\* before closeRequested was set may still get here.
Write(e, n) ==
    /\ state[e] \in Live
    /\ e = "client" => openSent
    /\ ~outputErr[e]
    /\ written[e] + n <= MaxWrites[e]
    /\ Remaining(sendQueue[e], SendQueueCapacity) > n
    /\ sendQueue' = [sendQueue EXCEPT ![e] = @ \cup
           {Seg("data", nextSend[e] + i - 1, written[e] + i, ReceiveWindow(e)) : i \in 1..n}]
    /\ log' = [log EXCEPT ![e] = @ \o [i \in 1..n |-> written[e] + i]]
    /\ nextSend' = [nextSend EXCEPT ![e] = @ + n]
    /\ written' = [written EXCEPT ![e] = @ + n]
    /\ UNCHANGED <<state, openSent, recvChan, closeVars, sendBuf, lastSend,
                   remoteWindow, recvVars, net, delivered>>

\* Read consumes the next segment of recvQueue, also after the close.
Read(e) ==
    /\ \E s \in First(recvQueue[e]) :
        /\ recvQueue' = [recvQueue EXCEPT ![e] = @ \ {s}]
        /\ delivered' = [delivered EXCEPT ![e] = Append(@, s.data)]
    /\ UNCHANGED <<state, openSent, recvChan, closeVars, sendVars, remoteWindow,
                   recvBuf, nextRecv, net, written>>

-----------------------------------------------------------------------------
(* The output loop.                                                        *)

\* The sets of segments one pass may move from sendQueue to sendBuf: for some
\* congestion window, the longest prefix of the queue such that before each
\* move sendBuf keeps more than one free slot, the segment is not client data
\* that must wait for the open response, and the transmissions of the pass are
\* below the send window of that moment.
NewBatches(e, queue, inBuf, resent, opening) ==
    LET MaySend(s, k, cwnd) == /\ TreeCapacity - (inBuf + k) > 1
                               /\ ~(opening /\ s.kind = "data")
                               /\ resent + k < SendWindow(e, cwnd, inBuf + k)
        IsBatch(fresh, cwnd) ==
            /\ \A s \in fresh : MaySend(s, Rank(fresh, s), cwnd)
            /\ \A s \in First(queue \ fresh) : ~MaySend(s, Cardinality(fresh), cwnd)
    IN  {fresh \in SUBSET queue : /\ IsPrefixOf(fresh, queue)
                                  /\ \E cwnd \in MinWindow..TreeCapacity : IsBatch(fresh, cwnd)}

\* runOutputOncePacket: retransmit the segments `due`, send new segments, then
\* send an ACK or a heartbeat.  The retransmission pass stops at a segment sent
\* TxCountLimit times (`exhausted`) and closes the session without waiting;
\* closeWithError does nothing when Close is already under way.
OutputPass(e, due, exhausted, ack) ==
    LET worn == {s \in sendBuf[e] : s.tx >= TxCountLimit}
        abort == exhausted /\ closing[e] = "none"
        opening == IsClientOpening(e) /\ ~abort
        resent == {[s EXCEPT !.tx = s.tx + 1] : s \in due}
        buf == IF abort THEN {} ELSE (sendBuf[e] \ due) \cup resent
        queue == IF abort THEN {} ELSE sendQueue[e]
        closeReq == IF abort THEN {Seg("closeReq", nextSend[e], 0, 0)} ELSE {}
        after == IF abort THEN nextSend[e] + 1 ELSE nextSend[e]
        acks == IF ack THEN {Seg("ack", Largest(0, after - 1), 0, ReceiveWindow(e))} ELSE {}
    IN  /\ exhausted => worn # {}
        /\ due # {} /\ worn # {} => exhausted
        /\ \A s \in due, w \in worn : s.seq < w.seq
        /\ ack => ~opening
        /\ outputErr' = [outputErr EXCEPT ![e] = exhausted]
        /\ closing' = [closing EXCEPT ![e] = IF abort THEN "output" ELSE @]
        /\ state' = [state EXCEPT ![e] = IF abort THEN "Closed" ELSE @]
        /\ nextSend' = [nextSend EXCEPT ![e] = after]
        /\ log' = [log EXCEPT ![e] = IF abort THEN Append(@, 0) ELSE @]
        /\ \E fresh \in NewBatches(e, queue, Cardinality(buf), Cardinality(due), opening) :
            LET sent == {[s EXCEPT !.tx = 1] : s \in fresh}
                out == IF CipherReady(e) THEN resent \cup closeReq \cup sent \cup acks ELSE {}
            IN  /\ sendQueue' = [sendQueue EXCEPT ![e] = queue \ fresh]
                /\ sendBuf' = [sendBuf EXCEPT ![e] = buf \cup sent]
                /\ Transmit(net, {Datagram(e, s) : s \in out})
                /\ \E last \in IF out = {} THEN {lastSend[e]}
                              ELSE Seqs(IF ack THEN acks
                                        ELSE IF fresh # {} THEN Last(fresh) ELSE Last(out)) :
                      lastSend' = [lastSend EXCEPT ![e] = last]

OutputPacket(e) ==
    /\ state[e] \in Live
    /\ ~outputErr[e]
    /\ \E due \in SUBSET sendBuf[e], exhausted, ack \in BOOLEAN :
          OutputPass(e, due, exhausted, ack)
    /\ UNCHANGED <<openSent, recvChan, closeSeq, remoteWindow, recvVars, written, delivered>>

\* output() fails because the socket does: the session is closed at once (the
\* close request that closeWithError writes fails as well).
OutputFails(e) ==
    /\ e \in SocketFails
    /\ state[e] \in Live
    /\ ~outputErr[e]
    /\ outputErr' = [outputErr EXCEPT ![e] = TRUE]
    /\ IF closing[e] = "none"
       THEN /\ closing' = [closing EXCEPT ![e] = "output"]
            /\ nextSend' = [nextSend EXCEPT ![e] = @ + 1]
            /\ log' = [log EXCEPT ![e] = Append(@, 0)]
            /\ sendQueue' = [sendQueue EXCEPT ![e] = {}]
            /\ sendBuf' = [sendBuf EXCEPT ![e] = {}]
            /\ state' = [state EXCEPT ![e] = "Closed"]
       ELSE UNCHANGED <<closing, nextSend, log, sendQueue, sendBuf, state>>
    /\ UNCHANGED <<openSent, recvChan, closeSeq, lastSend, remoteWindow, recvVars,
                   net, written, delivered>>

-----------------------------------------------------------------------------
(* The underlay event loop and the input loop.                             *)

\* Mutant of InputRuns: the input loop goes on after the session is closed.
InputNeverStops(e) == closing[e] # "input" /\ (e = "server" => recvChan = {})

\* The input loop takes the next segment of recvChan unless it is itself
\* inside closeWithError or has returned; the open request comes first.
InputRuns(e) ==
    /\ state[e] \in Live
    /\ closing[e] # "input"
    /\ e = "server" => recvChan = {}

\* The network after m has arrived: m is gone, or was a duplicate.
AfterArrival(m) == {net, net \ {m}}

\* How many segments moveRecvBufToRecvQueue moves: the run of numbers that
\* starts at `first`, as far as recvQueue has room.  The mutant moves one.
MoveOne(buf, first, room) == {IF first \in Seqs(buf) THEN 1 ELSE 0}
RunLength(buf, first, room) ==
    {n \in 0..room : /\ first..(first + n - 1) \subseteq Seqs(buf)
                     /\ n = room \/ first + n \notin Seqs(buf)}

\* The packet part of inputData after the acknowledgement: drop the segment
\* when the receive window is closed, else put it in recvBuf and move the run
\* that starts at nextRecv to recvQueue.  Each data segment moved overwrites
\* the remote window (initially wnd) with the one it carries.
ReceiveSegment(e, seg, wnd) ==
    IF ReceiveWindow(e) = 0
    THEN /\ remoteWindow' = [remoteWindow EXCEPT ![e] = wnd]
         /\ UNCHANGED recvVars
    ELSE LET buf == Insert(recvBuf[e], seg)
             first == nextRecv[e]
             room == Remaining(recvQueue[e], TreeCapacity)
         IN  \E n \in RunLength(buf, first, room) :
             LET run == {s \in buf : s.seq \in first..(first + n - 1)}
                 data == {s \in run : s.kind = "data"}
             IN  /\ recvBuf' = [recvBuf EXCEPT ![e] = DeleteBelow(buf, first + n)]
                 /\ recvQueue' = [recvQueue EXCEPT ![e] = @ \cup run]
                 /\ nextRecv' = [nextRecv EXCEPT ![e] = first + n]
                 /\ \E newest \in IF data = {} THEN {wnd} ELSE {s.wnd : s \in Last(data)} :
                       remoteWindow' = [remoteWindow EXCEPT ![e] = newest]

\* onOpenSessionRequest: the server creates the session and puts the request
\* in its recvChan.  A request for a known session is dropped.
OnOpenSessionRequest(m) ==
    \E rest \in AfterArrival(m) :
        /\ m.kind = "openReq" /\ m.to = "server"
        /\ state["server"] = "Init"
        /\ state' = [state EXCEPT !["server"] = "Attached"]
        /\ recvChan' = {Seg(m.kind, m.seq, m.data, m.wnd)}
        /\ net' = rest
        /\ UNCHANGED <<openSent, closeVars, sendVars, remoteWindow, recvVars, written, delivered>>

\* The end of inputData for the open request, with quota left: the response is
\* queued.  The queue can be full only if Close took the last slot; then the
\* input loop stops.  The mutant leaves the state alone.
AcceptOpenSilently ==
    /\ nextSend' = [nextSend EXCEPT !["server"] = @ + 1]
    /\ log' = [log EXCEPT !["server"] = Append(@, 0)]
    /\ Remaining(sendQueue["server"], SendQueueCapacity) > 0
    /\ sendQueue' = [sendQueue EXCEPT !["server"] =
                         Insert(@, Seg("openResp", nextSend["server"], 0, 0))]
    /\ UNCHANGED <<state, closeVars, net, sendBuf, lastSend>>
AcceptOpen ==
    /\ nextSend' = [nextSend EXCEPT !["server"] = @ + 1]
    /\ log' = [log EXCEPT !["server"] = Append(@, 0)]
    /\ \/ /\ Remaining(sendQueue["server"], SendQueueCapacity) > 0
          /\ sendQueue' = [sendQueue EXCEPT !["server"] =
                               Insert(@, Seg("openResp", nextSend["server"], 0, 0))]
          /\ state' = [state EXCEPT !["server"] = "Established"]
          /\ UNCHANGED closeVars
       \/ /\ Remaining(sendQueue["server"], SendQueueCapacity) <= 0
          /\ closing["server"] # "none"
          /\ closing' = [closing EXCEPT !["server"] = "input"]
          /\ UNCHANGED <<sendQueue, state, closeSeq, outputErr>>
    /\ UNCHANGED <<net, sendBuf, lastSend>>

\* Without quota the session is closed.
RefuseOpen == StartClose("server", "input", FALSE, net)

\* input() of the open request.
InputOpenRequest ==
    \E seg \in recvChan, quotaOK \in QuotaOK :
        /\ state["server"] = "Attached"
        /\ ReceiveSegment("server", seg, remoteWindow["server"])
        /\ recvChan' = {}
        /\ IF quotaOK THEN AcceptOpen ELSE RefuseOpen
        /\ UNCHANGED <<openSent, written, delivered>>

\* input() of an open response: any such segment opens the client session.
InputOpenResponse(m) ==
    \E rest \in AfterArrival(m) :
        /\ m.kind = "openResp" /\ m.to = "client"
        /\ InputRuns("client")
        /\ ReceiveSegment("client", Seg(m.kind, m.seq, m.data, m.wnd), remoteWindow["client"])
        /\ state' = [state EXCEPT !["client"] = "Established"]
        /\ net' = rest
        /\ UNCHANGED <<openSent, recvChan, closeVars, sendVars, written, delivered>>

\* input() of data: acknowledge, update the window, receive the segment.
InputData(m) ==
    \E rest \in AfterArrival(m) :
        /\ m.kind = "data"
        /\ InputRuns(m.to)
        /\ sendBuf' = [sendBuf EXCEPT ![m.to] = DeleteBelow(@, m.unAck)]
        /\ ReceiveSegment(m.to, Seg(m.kind, m.seq, m.data, m.wnd), m.wnd)
        /\ net' = rest
        /\ UNCHANGED <<state, openSent, recvChan, closeVars, sendQueue, nextSend,
                       lastSend, log, written, delivered>>

InputAck(m) ==
    \E rest \in AfterArrival(m) :
        /\ m.kind = "ack"
        /\ InputRuns(m.to)
        /\ sendBuf' = [sendBuf EXCEPT ![m.to] = DeleteBelow(@, m.unAck)]
        /\ remoteWindow' = [remoteWindow EXCEPT ![m.to] = m.wnd]
        /\ net' = rest
        /\ UNCHANGED <<state, openSent, recvChan, closeVars, sendQueue, nextSend,
                       lastSend, log, recvVars, written, delivered>>

\* inputClose: a close request is answered, then the session is closed; a
\* close response closes it.
InputClose(m) ==
    \E rest \in AfterArrival(m) :
        /\ m.kind \in {"closeReq", "closeResp"}
        /\ nextSend[m.to] < MaxSeqUsed
        /\ InputRuns(m.to)
        /\ StartClose(m.to, "input", m.kind = "closeReq", rest)
        /\ UNCHANGED <<openSent, recvChan, remoteWindow, recvVars, written, delivered>>

\* RunEventLoop: data or an ACK for a session that is not registered (not
\* opened yet, or closed and cleaned) is answered with a close request.
AnswerUnknownSession(m) ==
    \E rest \in AfterArrival(m) :
        /\ m.kind \in {"data", "ack"}
        /\ state[m.to] \in {"Init", "Closed"}
        /\ Transmit(rest, {[to |-> Peer(m.to), kind |-> "closeReq", seq |-> m.unAck,
                            data |-> 0, unAck |-> 0, wnd |-> 0]})
        /\ UNCHANGED <<state, openSent, recvChan, closeVars, sendVars, remoteWindow,
                       recvVars, written, delivered>>

Next ==
    \/ OpenSession
    \/ \E e \in Side, n \in 1..MaxFragments : Write(e, n)
    \/ \E e \in Side : Read(e)
    \/ \E e \in Side : OutputPacket(e)
    \/ \E e \in Side : OutputFails(e)
    \/ \E e \in Side : Close(e)
    \/ \E e \in Side : CloseSucceeds(e)
    \/ \E e \in Side : CloseTimesOut(e)
    \/ InputOpenRequest
    \/ \E m \in net : OnOpenSessionRequest(m)
    \/ \E m \in net : InputOpenResponse(m)
    \/ \E m \in net : InputData(m)
    \/ \E m \in net : InputAck(m)
    \/ \E m \in net : InputClose(m)
    \/ \E m \in net : AnswerUnknownSession(m)

Spec == Init /\ [][Next]_vars

-----------------------------------------------------------------------------
(* Properties.                                                             *)

TypeOK ==
    /\ state \in [Side -> SessionState]
    /\ openSent \in BOOLEAN
    /\ recvChan \subseteq Segment
    /\ closing \in [Side -> {"none", "user", "input", "output"}]
    /\ closeSeq \in [Side -> Nat]
    /\ outputErr \in [Side -> BOOLEAN]
    /\ sendQueue \in [Side -> SUBSET Segment]
    /\ sendBuf \in [Side -> SUBSET Segment]
    /\ nextSend \in [Side -> Nat]
    /\ lastSend \in [Side -> Nat]
    /\ remoteWindow \in [Side -> Nat]
    /\ recvBuf \in [Side -> SUBSET Segment]
    /\ recvQueue \in [Side -> SUBSET Segment]
    /\ nextRecv \in [Side -> Nat]
    /\ net \subseteq Message
    /\ written \in [Side -> Nat]
    /\ log \in [Side -> Seq(Nat)]
    /\ delivered \in [Side -> Seq(Nat)]

\* What Read returns on one side is a prefix of what was numbered on the other,
\* in order, without gap, duplicate or alteration, whatever the network does
\* and whoever closes (inputData, moveRecvBufToRecvQueue, Read).
InOrderDelivery ==
    \A e \in Side :
        /\ Len(delivered[e]) <= Len(log[Peer(e)])
        /\ \A i \in 1..Len(delivered[e]) : delivered[e][i] = log[Peer(e)][i]

\* Until a side starts closing, every segment it has numbered is still in its
\* sendQueue or sendBuf, or has reached the peer's recvQueue: a cumulative
\* acknowledgement never discards a segment the peer has not accepted.
NothingLost ==
    \A e \in Side : closing[e] = "none" =>
        \A q \in 0..(nextSend[e] - 1) :
            q \in Seqs(sendQueue[e]) \cup Seqs(sendBuf[e]) \/ q < nextRecv[Peer(e)]

\* Client data is on the wire only once the server session exists, however
\* datagrams are reordered (shouldDeferNextPacketData): data for an unknown
\* session would make the server ask the client to close.
NoEarlyData ==
    \A m \in net : m.to = "server" /\ m.kind = "data" => state["server"] # "Init"

\* recvBuf and recvQueue together never hold more than one tree's capacity, and
\* when the application has read everything there is room for another segment:
\* out-of-order segments cannot fill the receive window and block the one that
\* is missing.
ReceiveSpace ==
    \A e \in Side :
        /\ Cardinality(recvBuf[e]) + Cardinality(recvQueue[e]) <= TreeCapacity
        /\ recvQueue[e] = {} => ReceiveWindow(e) > 0

\* No segment the application could read is left behind in recvBuf.
NothingStranded ==
    \A e \in Side : nextRecv[e] \notin Seqs(recvBuf[e])

\* The client is told that the session is open only after the server accepted
\* it: a session refused for its quota is never established on the client
\* (inputData, isClientPacketSessionOpenResponse).
EstablishedByBoth ==
    state["client"] = "Established" => state["server"] \in {"Established", "Closed"}

\* The session implements two reliable FIFO streams over the datagrams.
Stream == INSTANCE ReliableStream
              WITH sent <- log, received <- delivered,
                   closed <- {e \in Side : state[e] = "Closed"}
ImplementsStream == Stream!Spec

\* "Send closeSessionRequest, but don't wait for closeSessionResponse": when
\* the poll of closeWithError finds lastSend at or past the close request of an
\* established session, the request has left the send queue (closeWithError
\* clears the queue next).
CloseRequestSent ==
    \A e \in Side :
        state[e] = "Established" /\ closing[e] # "none" /\ lastSend[e] >= closeSeq[e]
            => \A s \in sendQueue[e] : s.kind # "closeReq"
=============================================================================
