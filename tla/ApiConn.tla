------------------------------ MODULE ApiConn -------------------------------
(***************************************************************************)
(* The Go API (apis/).  One program owns a client object; it stores a      *)
(* configuration, starts and stops the client, dials one destination and   *)
(* uses the connection from several goroutines.  Another program accepts   *)
(* the connection on a server object, answers the request and exchanges    *)
(* data.  With HANDSHAKE_NO_WAIT the connection is an EarlyConn: the first *)
(* Write carries the request, and reads wait for the answer.               *)
(*                                                                         *)
(* As the documentation of Start asks, Start is called once on an object.  *)
(* The session below is a FIFO in each direction; closing one end may lose *)
(* what is in flight.                                                      *)
(***************************************************************************)
EXTENDS Naturals, Sequences

CONSTANTS
    Callers,    \* goroutines that use the connection
    MaxCalls,   \* bound: calls of each goroutine
    MaxDown     \* bound: payloads the server program writes

Mode == {"STANDARD", "NO_WAIT"}   \* HandshakeMode

VARIABLES
    client,     \* mieruClient: config, mux, running, and the method that holds mu
    listener,   \* mieruServer: config, mux, running
    dial,       \* where DialContext is
    early,      \* it returned an EarlyConn
    once,       \* handshakeOnce
    handshaked, handshakeErr,
    call,       \* the call each goroutine is in
    near, far,  \* the two ends of the session
    up, down,   \* what is in flight
    accept,     \* where Accept and then the server program are
    sentUp,     \* history: everything written on the client's end
    returned,   \* history: the writes that reported success
    skipped,    \* history: Close ran before the first Write
    got, downs  \* history: what reads returned, how much the server program wrote

lifeVars == <<client, listener>>
earlyVars == <<early, once, handshaked, handshakeErr>>
wire == <<near, far, up, down>>
history == <<sentUp, returned, skipped, got, downs>>
apiVars == <<lifeVars, dial, earlyVars, call, wire, accept, history>>

Request == [kind |-> "request", of |-> "dial", n |-> 0]
Payload(g, n) == [kind |-> "data", of |-> g, n |-> n]
Reply(r) == [kind |-> r, of |-> "server", n |-> 0]

ApiInit ==
    /\ client = [config |-> "none", mux |-> "none", running |-> FALSE, holds |-> "none"]
    /\ listener = [config |-> FALSE, mux |-> "none", running |-> FALSE]
    /\ dial = "idle"
    /\ early = FALSE /\ once = "none" /\ handshaked = FALSE /\ handshakeErr = FALSE
    /\ call = [g \in Callers |-> [op |-> "none", pc |-> "idle", n |-> 0]]
    /\ near = "none" /\ far = "none" /\ up = << >> /\ down = << >>
    /\ accept = "idle"
    /\ sentUp = << >> /\ returned = {} /\ skipped = FALSE /\ got = << >> /\ downs = 0

-----------------------------------------------------------------------------
(* The client object.  DialContext and IsRunning do not take mu.           *)

Life(c) == client' = c /\ UNCHANGED <<listener, dial, earlyVars, call, accept, history>>

\* Store of a valid configuration; it is refused while the client runs.
Store(m) ==
    /\ client.holds = "none" /\ ~client.running
    /\ Life([client EXCEPT !.config = m]) /\ UNCHANGED wire

\* Start needs a configuration.
StartMux ==
    /\ client.holds = "none" /\ client.config # "none" /\ client.mux = "none"
    /\ Life([client EXCEPT !.mux = "open", !.holds = "start"]) /\ UNCHANGED wire

StartRuns ==
    /\ client.holds = "start"
    /\ Life([client EXCEPT !.running = TRUE, !.holds = "none"]) /\ UNCHANGED wire

ClientStop ==
    /\ client.holds = "none" /\ client.mux = "open"
    /\ Life([client EXCEPT !.running = FALSE, !.holds = "stop"]) /\ UNCHANGED wire

\* Mux.Close closes the underlays with their sessions.
StopMux ==
    /\ client.holds = "stop"
    /\ Life([client EXCEPT !.mux = "closed", !.holds = "none"])
    /\ near' = IF near = "open" THEN "closed" ELSE near
    /\ UNCHANGED <<far, up, down>>

-----------------------------------------------------------------------------
(* The server object.                                                      *)

Listens(l) ==
    /\ listener' = l
    /\ UNCHANGED <<client, dial, earlyVars, call, accept, history, near, up, down>>

\* Unlike the client's, Store does not look at running.
ServerStore == Listens([listener EXCEPT !.config = TRUE]) /\ UNCHANGED far

\* Start makes the mux first; it may fail to listen.
ServerStart ==
    /\ listener.config /\ listener.mux = "none"
    /\ \/ Listens([listener EXCEPT !.mux = "open", !.running = TRUE])
       \/ Listens([listener EXCEPT !.mux = "deaf"])
    /\ UNCHANGED far

ServerStop ==
    /\ listener.mux # "none"
    /\ Listens([listener EXCEPT !.mux = "closed", !.running = FALSE])
    /\ far' = IF far = "open" THEN "closed" ELSE far

-----------------------------------------------------------------------------
(* The session.                                                            *)

\* Write queues a message, unless an end is closed.
Written(msgs) == near = "open" /\ up' = up \o msgs /\ sentUp' = sentUp \o msgs
WriteFails == "closed" \in {near, far} /\ UNCHANGED <<up, sentUp>>

\* Read returns what has arrived, also after a close.
Arrived == down # << >>
EOF == "closed" \in {near, far}

\* What an answer to the request means to its reader, which waits at most 10
\* seconds.
ReadReply(ok) ==
    /\ \/ Arrived /\ ok = (Head(down).kind = "success") /\ down' = Tail(down)
       \/ ok = FALSE /\ UNCHANGED down
    /\ UNCHANGED <<near, far, up, sentUp>>

-----------------------------------------------------------------------------
(* DialContext, by one goroutine.                                          *)

Dials(to) == dial' = to /\ UNCHANGED <<lifeVars, call, accept, returned, skipped, got, downs>>

DialContext ==
    /\ dial = "idle" /\ client.running
    /\ Dials("mux") /\ UNCHANGED <<earlyVars, wire, sentUp>>

\* mux.DialContext may fail; it does not notice that the mux was closed.
DialMux ==
    /\ dial = "mux"
    /\ \/ client.mux = "none" /\ Dials("panic") /\ UNCHANGED near
       \/ client.mux # "none" /\ Dials("conn") /\ near' = "open"
       \/ client.mux # "none" /\ Dials("failed") /\ UNCHANGED near
    /\ UNCHANGED <<earlyVars, far, up, down, sentUp>>

DialEarly ==
    /\ dial = "conn" /\ client.config = "NO_WAIT"
    /\ Dials("returned") /\ early' = TRUE
    /\ UNCHANGED <<once, handshaked, handshakeErr, wire, sentUp>>

\* PostDialHandshake.  When it fails DialContext returns its error, and the
\* session stays open.
DialRequest ==
    /\ dial = "conn" /\ client.config = "STANDARD"
    /\ \/ Dials("reply") /\ Written(<<Request>>)
       \/ Dials("failed") /\ WriteFails
    /\ UNCHANGED <<earlyVars, near, far, down>>

DialReply ==
    /\ dial = "reply"
    /\ \E ok \in BOOLEAN : ReadReply(ok) /\ Dials(IF ok THEN "returned" ELSE "failed")
    /\ UNCHANGED earlyVars

-----------------------------------------------------------------------------
(* Read, Write and Close of the connection.                                *)

Calls(g, op, pc) == call' = [call EXCEPT ![g].op = op, ![g].pc = pc]
Returns(g) == Calls(g, "none", "idle")
Frame == UNCHANGED <<lifeVars, dial, early, accept, downs>>
At(g, op, pc) == call[g].op = op /\ call[g].pc = pc

Begin(g, op) ==
    /\ dial = "returned" /\ call[g].pc = "idle" /\ call[g].n < MaxCalls
    /\ call' = [call EXCEPT ![g] = [op |-> op, pc |-> IF early THEN "once" ELSE "conn", n |-> @.n + 1]]
    /\ Frame /\ UNCHANGED <<once, handshaked, handshakeErr, wire, sentUp, returned, skipped, got>>

\* What the call writes.
Data(g) == Payload(g, call[g].n)
Success(g) == returned' = returned \cup {Data(g)}

\* handshakeOnce: the first Write runs the handshake, the others wait for it.
\* Mutant: only the first Write is told apart, nobody waits.
FirstWriteOnly(g) ==
    /\ At(g, "write", "once")
    /\ \/ once = "none" /\ once' = "running" /\ Calls(g, "write", "send")
       \/ once # "none" /\ Calls(g, "write", "conn") /\ UNCHANGED once
    /\ Frame /\ UNCHANGED <<handshaked, handshakeErr, wire, sentUp, returned, skipped, got>>
WriteOnce(g) ==
    /\ At(g, "write", "once")
    /\ \/ once = "none" /\ once' = "running" /\ Calls(g, "write", "send")
       \/ once = "done" /\ handshakeErr /\ Returns(g) /\ UNCHANGED once
       \/ once = "done" /\ ~handshakeErr /\ Calls(g, "write", "conn") /\ UNCHANGED once
    /\ Frame /\ UNCHANGED <<handshaked, handshakeErr, wire, sentUp, returned, skipped, got>>

\* doHandshakeAndWrite: the request and the data in one message, ...
HandshakeDone(err) == once' = "done" /\ handshaked' = TRUE /\ handshakeErr' = err
HandshakeSend(g) ==
    /\ At(g, "write", "send")
    /\ \/ Written(<<Request, Data(g)>>) /\ Calls(g, "write", "reply") /\ UNCHANGED <<once, handshaked, handshakeErr>>
       \/ WriteFails /\ Returns(g) /\ HandshakeDone(TRUE)
    /\ Frame /\ UNCHANGED <<near, far, down, returned, skipped, got>>

\* ... then the reply.
HandshakeReply(g) ==
    /\ At(g, "write", "reply")
    /\ \E ok \in BOOLEAN : ReadReply(ok) /\ HandshakeDone(~ok) /\ IF ok THEN Success(g) ELSE UNCHANGED returned
    /\ Returns(g)
    /\ Frame /\ UNCHANGED <<skipped, got>>

Write(g) ==
    /\ At(g, "write", "conn")
    /\ \/ Written(<<Data(g)>>) /\ Success(g)
       \/ WriteFails /\ UNCHANGED returned
    /\ Returns(g)
    /\ Frame /\ UNCHANGED <<once, handshaked, handshakeErr, near, far, down, skipped, got>>

\* Read waits for the end of the handshake.
ReadWaits(g) ==
    /\ At(g, "read", "once") /\ handshaked
    /\ IF handshakeErr THEN Returns(g) ELSE Calls(g, "read", "conn")
    /\ Frame /\ UNCHANGED <<once, handshaked, handshakeErr, wire, sentUp, returned, skipped, got>>

Read(g) ==
    /\ At(g, "read", "conn")
    /\ \/ Arrived /\ got' = Append(got, Head(down)) /\ down' = Tail(down)
       \/ EOF /\ UNCHANGED <<got, down>>
    /\ Returns(g)
    /\ Frame /\ UNCHANGED <<once, handshaked, handshakeErr, near, far, up, sentUp, returned, skipped>>

\* Close ends the wait of Read, unless a handshake ran; it waits for one that
\* runs.
CloseOnce(g) ==
    /\ At(g, "close", "once")
    /\ once \in {"none", "done"}
    /\ once' = "done" /\ handshaked' = TRUE /\ skipped' = (skipped \/ once = "none")
    /\ Calls(g, "close", "conn")
    /\ Frame /\ UNCHANGED <<handshakeErr, wire, sentUp, returned, got>>

Close(g) ==
    /\ At(g, "close", "conn")
    /\ near' = "closed"
    /\ Returns(g)
    /\ Frame /\ UNCHANGED <<once, handshaked, handshakeErr, far, up, down, sentUp, returned, skipped, got>>

CallStep(g) ==
    \/ WriteOnce(g) \/ HandshakeSend(g) \/ HandshakeReply(g) \/ Write(g)
    \/ ReadWaits(g) \/ Read(g)
    \/ CloseOnce(g) \/ Close(g)

-----------------------------------------------------------------------------
(* Accept, and the server program.                                         *)

Accepts(to) ==
    /\ accept' = to
    /\ UNCHANGED <<lifeVars, dial, earlyVars, call, near, sentUp, returned, skipped, got>>

\* The first segment of the client opens the session on the server.
Accept ==
    /\ accept = "idle" /\ listener.mux = "open" /\ far = "none" /\ sentUp # << >>
    /\ Accepts("request") /\ far' = "open" /\ UNCHANGED <<up, down, downs>>

\* It reads the request within 10 seconds.  When that fails Accept returns the
\* error, and the session stays open.
AcceptRequest ==
    /\ accept = "request"
    /\ \/ up # << >> /\ Accepts(IF Head(up).kind = "request" THEN "accepted" ELSE "failed") /\ up' = Tail(up)
       \/ Accepts("failed") /\ UNCHANGED up
    /\ UNCHANGED <<far, down, downs>>

\* The server program answers the request, reads, writes and closes.
ServerReplies(r) ==
    /\ accept = "accepted" /\ far = "open"
    /\ Accepts(r) /\ down' = Append(down, Reply(r)) /\ UNCHANGED <<far, up, downs>>

ServerWrites ==
    /\ accept = "success" /\ far = "open" /\ downs < MaxDown
    /\ downs' = downs + 1 /\ down' = Append(down, Payload("server", downs'))
    /\ Accepts(accept) /\ UNCHANGED <<far, up>>

ServerReads ==
    /\ accept = "success" /\ up # << >>
    /\ up' = Tail(up) /\ Accepts(accept) /\ UNCHANGED <<far, down, downs>>

\* Closing may lose what is in flight.
ServerCloses ==
    /\ accept \in {"accepted", "success", "failure"} /\ far = "open"
    /\ far' = "closed" /\ \E k \in 0..Len(down) : down' = SubSeq(down, 1, k)
    /\ Accepts(accept) /\ UNCHANGED <<up, downs>>

-----------------------------------------------------------------------------

ApiNext ==
    \/ \E m \in Mode : Store(m)
    \/ StartMux \/ StartRuns \/ ClientStop \/ StopMux
    \/ ServerStore \/ ServerStart \/ ServerStop
    \/ DialContext \/ DialMux \/ DialEarly \/ DialRequest \/ DialReply
    \/ \E g \in Callers : (\E op \in {"read", "write", "close"} : Begin(g, op)) \/ CallStep(g)
    \/ Accept \/ AcceptRequest \/ ServerWrites \/ ServerReads \/ ServerCloses
    \/ \E r \in {"success", "failure"} : ServerReplies(r)

\* A goroutine in a call runs, and the wait for a reply ends.
ApiFairness == \A g \in Callers : WF_apiVars(CallStep(g))

ApiSpec == ApiInit /\ [][ApiNext]_apiVars /\ ApiFairness

-----------------------------------------------------------------------------
(* Properties.                                                             *)

\* The request is sent once and before all data, however the goroutines'
\* first writes race.  The exception is a Close that came before them: it
\* marks the handshake as done and leaves the session open for a moment.
RequestFirst ==
    \A i \in 1..Len(sentUp) : (sentUp[i] = Request) <=> (i = 1 /\ ~skipped)

\* A Write that reports success has sent its data exactly once, and nothing is
\* ever sent twice.
SentOnce ==
    /\ \A i, j \in 1..Len(sentUp) : sentUp[i] = sentUp[j] => i = j
    /\ \A w \in returned : \E i \in 1..Len(sentUp) : sentUp[i] = w

\* Reads return the payloads of the server program, in order and from the
\* first: never the answer to the request, which the handshake consumes.
ReadsOnlyData == \A i \in 1..Len(got) : got[i] = Payload("server", i)

\* A connection is usable only once the server program has granted it: a Write
\* or a Read that returned success, and a DialContext that performed the
\* handshake, come after an answer of success.
UsableMeansGranted ==
    (returned # {} \/ got # << >> \/ (dial = "returned" /\ ~early)) /\ ~skipped => accept = "success"

\* What the goroutines that share a connection may rely on.
ConnectionSound == RequestFirst /\ SentOnce /\ ReadsOnlyData /\ UsableMeansGranted

\* Once a goroutine has called Close, every call on the connection returns.
CloseEndsCalls ==
    (\E g \in Callers : call[g].op = "close") ~> (\A g \in Callers : call[g].pc = "idle")

\* "Stop deactivates the client. Established network connections are NOT
\* terminated."
StopKeepsConnections ==
    [][dial = "returned" /\ accept = "success" /\ near = "open" /\ StopMux => near' = "open"]_apiVars
=============================================================================
