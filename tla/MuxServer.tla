------------------------------ MODULE MuxServer ------------------------------
(***************************************************************************)
(* The life cycle of a server multiplexer (pkg/protocol/mux.go): Start,    *)
(* UpdateEndpoints, Accept and Close, the accept loop of every endpoint,   *)
(* the event loop and the forwarding goroutine of every underlay, and the  *)
(* maintenance goroutine.  Each is a process; m.mu is held across steps by *)
(* the calls that wait for something while they hold it.                   *)
(***************************************************************************)
EXTENDS Naturals, FiniteSets

CONSTANTS
    StreamEndpoints,   \* TCP endpoints
    PacketEndpoints,   \* UDP endpoints
    FirstEndpoints,    \* the endpoints configured before Start
    StreamUnderlays,   \* the TCP connections that clients can open
    PacketUnderlays,   \* the UDP sockets that can be opened
    Callers,           \* callers of Close
    Starter,           \* the caller of Start, which also closes on failure
    MaxUpdates,        \* bound on the calls of UpdateEndpoints
    ChanCapacity,      \* sessionChanCapacity
    MaxSessions        \* bound on the sessions an underlay makes ready

Endpoints == StreamEndpoints \cup PacketEndpoints
Underlays == StreamUnderlays \cup PacketUnderlays

None == "none"

ASSUME MuxAssumption ==
    /\ FirstEndpoints \subseteq Endpoints
    /\ StreamEndpoints \cap PacketEndpoints = {}
    /\ StreamUnderlays \cap PacketUnderlays = {}
    /\ Starter \in Callers
    /\ {"free", "update"} \cap Callers = {}
    /\ None \notin Underlays
    /\ MaxUpdates \in Nat /\ ChanCapacity \in Nat /\ MaxSessions \in Nat

VARIABLES
    mu,            \* who holds m.mu over several steps, or "free"
    used,          \* m.used
    done,          \* m.done is closed and m.ctx is cancelled
    closeDone,     \* m.closeDone is closed
    maintenance,   \* the maintenance goroutine
    endpoints,     \* m.endpoints
    batch,         \* the endpoints the holder of mu has started to listen on
    acceptErr,     \* m.acceptErr is set
    updates,       \* calls of UpdateEndpoints so far
    pc,            \* Callers -> position in Close (Starter: in Start, then Close)
    loop,          \* Endpoints -> position of acceptUnderlayLoop
    hand,          \* Endpoints -> the underlay the loop has made, or None
    listener,      \* Endpoints -> whether the TCP listener is open
    list,          \* m.underlays
    underlay,      \* Underlays -> "none", "open" or "closed" (its done channel)
    socket,        \* Underlays -> whether its connection is open
    event,         \* Underlays -> position of its event loop
    ready,         \* Underlays -> sessions in readySessions
    opened,        \* Underlays -> sessions made ready so far
    forward,       \* Underlays -> position of the forwarding goroutine
    chAccept,      \* number of sessions in m.chAccept
    unpublished    \* user cache counters changed since the last flush

loopVars == <<loop, hand, listener>>
underlayVars == <<list, underlay, socket, event>>
sessionVars == <<ready, opened, forward, chAccept>>
callVars == <<used, endpoints, batch, acceptErr, updates>>
vars == <<mu, done, closeDone, maintenance, pc, unpublished, callVars, loopVars,
          underlayVars, sessionVars>>

TypeOK ==
    /\ mu \in Callers \cup {"free", "update"}
    /\ used \in BOOLEAN /\ done \in BOOLEAN /\ closeDone \in BOOLEAN
    /\ maintenance \in {"select", "flush", "ended"}
    /\ endpoints \subseteq Endpoints /\ batch \subseteq Endpoints
    /\ acceptErr \in BOOLEAN /\ updates \in 0 .. MaxUpdates
    /\ pc \in [Callers -> {"idle", "listening", "lock", "closing", "maintenance",
                           "loops", "flush", "signal", "wait", "returned"}]
    /\ loop \in [Endpoints -> {"off", "listen", "accept", "register", "discard", "ended"}]
    /\ hand \in [Endpoints -> Underlays \cup {None}]
    /\ listener \in [Endpoints -> BOOLEAN]
    /\ list \subseteq Underlays
    /\ underlay \in [Underlays -> {"none", "open", "closed"}]
    /\ socket \in [Underlays -> BOOLEAN]
    /\ event \in [Underlays -> {"none", "run", "close", "ended"}]
    /\ ready \in [Underlays -> 0 .. MaxSessions]
    /\ opened \in [Underlays -> 0 .. MaxSessions]
    /\ forward \in [Underlays -> {"none", "accept", "send", "ended"}]
    /\ chAccept \in 0 .. ChanCapacity
    /\ unpublished \in BOOLEAN

Init ==
    /\ mu = "free"
    /\ used = FALSE /\ done = FALSE /\ closeDone = FALSE
    /\ maintenance = "select"
    /\ endpoints = FirstEndpoints /\ batch = {}
    /\ acceptErr = FALSE /\ updates = 0
    /\ pc = [c \in Callers |-> "idle"]
    /\ loop = [e \in Endpoints |-> "off"]
    /\ hand = [e \in Endpoints |-> None]
    /\ listener = [e \in Endpoints |-> FALSE]
    /\ list = {}
    /\ underlay = [u \in Underlays |-> "none"]
    /\ socket = [u \in Underlays |-> FALSE]
    /\ event = [u \in Underlays |-> "none"]
    /\ ready = [u \in Underlays |-> 0]
    /\ opened = [u \in Underlays |-> 0]
    /\ forward = [u \in Underlays |-> "none"]
    /\ chAccept = 0
    /\ unpublished = FALSE

-----------------------------------------------------------------------------
(* Start and UpdateEndpoints hold mu until every new endpoint has tried to *)
(* listen.                                                                 *)

Start ==
    /\ pc[Starter] = "idle"
    /\ endpoints # {}
    /\ mu = "free"
    /\ mu' = Starter
    /\ used' = TRUE
    /\ batch' = endpoints
    /\ loop' = [e \in Endpoints |-> IF e \in endpoints THEN "listen" ELSE loop[e]]
    /\ pc' = [pc EXCEPT ![Starter] = "listening"]
    /\ UNCHANGED <<done, closeDone, maintenance, unpublished, endpoints, acceptErr, updates,
                   hand, listener, underlayVars, sessionVars>>

StartReturn ==
    /\ pc[Starter] = "listening"
    /\ \A e \in batch : loop[e] # "listen"
    /\ mu' = "free"
    /\ batch' = {}
    /\ pc' = [pc EXCEPT ![Starter] = IF acceptErr THEN "lock" ELSE "returned"]
    /\ UNCHANGED <<done, closeDone, maintenance, unpublished, used, endpoints, acceptErr,
                   updates, loopVars, underlayVars, sessionVars>>

\* Before Start (and on a client) the endpoints are only replaced.
UpdateEndpoints(new) ==
    /\ updates < MaxUpdates
    /\ mu = "free"
    /\ ~done
    /\ updates' = updates + 1
    /\ IF used
       THEN /\ mu' = "update"
            /\ batch' = new \ endpoints
            /\ loop' = [e \in Endpoints |-> IF e \in batch' THEN "listen" ELSE loop[e]]
            /\ UNCHANGED endpoints
       ELSE /\ endpoints' = new
            /\ UNCHANGED <<mu, batch, loop>>
    /\ UNCHANGED <<done, closeDone, maintenance, pc, unpublished, used, acceptErr, hand,
                   listener, underlayVars, sessionVars>>

UpdateReturn ==
    /\ mu = "update"
    /\ \A e \in batch : loop[e] # "listen"
    /\ mu' = "free"
    /\ endpoints' = endpoints \cup {e \in batch : loop[e] # "off"}
    /\ batch' = {}
    /\ UNCHANGED <<done, closeDone, maintenance, pc, unpublished, used, acceptErr, updates,
                   loopVars, underlayVars, sessionVars>>

-----------------------------------------------------------------------------
(* acceptUnderlayLoop.                                                     *)

ReportToAccept(e) ==
    /\ loop[e] = "listen"
    /\ loop' = [loop EXCEPT ![e] = "off"]
    /\ acceptErr' = TRUE
    /\ UNCHANGED <<mu, done, closeDone, maintenance, pc, unpublished, used, endpoints, batch,
                   updates, hand, listener, underlayVars, sessionVars>>

\* A listener that fails reports to its caller only: Start passes m.acceptErr.
ListenFails(e) ==
    /\ loop[e] = "listen"
    /\ loop' = [loop EXCEPT ![e] = "off"]
    /\ acceptErr' = (acceptErr \/ mu = Starter)
    /\ UNCHANGED <<mu, done, closeDone, maintenance, pc, unpublished, used, endpoints, batch,
                   updates, hand, listener, underlayVars, sessionVars>>

\* The connection u becomes an underlay that only the loop of e knows.
Create(e, u) ==
    /\ underlay[u] = "none"
    /\ underlay' = [underlay EXCEPT ![u] = "open"]
    /\ socket' = [socket EXCEPT ![u] = TRUE]
    /\ hand' = [hand EXCEPT ![e] = u]
    /\ loop' = [loop EXCEPT ![e] = "register"]
    /\ UNCHANGED <<list, event>>

ListenStream(e) ==
    /\ e \in StreamEndpoints
    /\ loop[e] = "listen"
    /\ loop' = [loop EXCEPT ![e] = "accept"]
    /\ listener' = [listener EXCEPT ![e] = TRUE]
    /\ UNCHANGED <<mu, done, closeDone, maintenance, pc, unpublished, callVars, hand,
                   underlayVars, sessionVars>>

ListenPacket(e, u) ==
    /\ e \in PacketEndpoints
    /\ loop[e] = "listen"
    /\ Create(e, u)
    /\ UNCHANGED <<mu, done, closeDone, maintenance, pc, unpublished, callVars, listener,
                   sessionVars>>

\* The goroutine that waits for ctx.Done().
CloseListener(e) ==
    /\ done
    /\ listener[e]
    /\ listener' = [listener EXCEPT ![e] = FALSE]
    /\ UNCHANGED <<mu, done, closeDone, maintenance, pc, unpublished, callVars, loop, hand,
                   underlayVars, sessionVars>>

AcceptUnderlay(e, u) ==
    /\ loop[e] = "accept"
    /\ listener[e]
    /\ Create(e, u)
    /\ UNCHANGED <<mu, done, closeDone, maintenance, pc, unpublished, callVars, listener,
                   sessionVars>>

\* Any error of the listener ends the loop, not only that it was closed.
AcceptUnderlayFails(e) ==
    /\ loop[e] = "accept"
    /\ loop' = [loop EXCEPT ![e] = "ended"]
    /\ UNCHANGED <<mu, done, closeDone, maintenance, pc, unpublished, callVars, hand, listener,
                   underlayVars, sessionVars>>

\* cleanUnderlay(false) forgets closed underlays; "idle" are the TCP ones that
\* closeIfIdle closes, with their connections.
CleanUnderlay(live, idle) ==
    /\ list' = {v \in live : underlay[v] = "open"} \ idle
    /\ underlay' = [v \in Underlays |-> IF v \in idle THEN "closed" ELSE underlay[v]]
    /\ socket' = [v \in Underlays |-> socket[v] /\ v \notin idle]

IdleSets(live) == SUBSET {v \in live \cap StreamUnderlays : underlay[v] = "open"}

\* The critical section of the loop: append, clean, start the event loop and,
\* after the lock, the forwarding goroutine.
RegisterOpen(e) ==
    LET u == hand[e] IN
    /\ \E idle \in IdleSets(list) : CleanUnderlay(list \cup {u}, idle)
    /\ event' = [event EXCEPT ![u] = "run"]
    /\ forward' = [forward EXCEPT ![u] = "accept"]
    /\ hand' = [hand EXCEPT ![e] = None]
    /\ loop' = [loop EXCEPT ![e] = IF e \in StreamEndpoints THEN "accept" ELSE "ended"]

RegisterUnchecked(e) ==
    /\ loop[e] = "register"
    /\ mu = "free"
    /\ RegisterOpen(e)
    /\ UNCHANGED <<mu, done, closeDone, maintenance, pc, unpublished, callVars, listener,
                   ready, opened, chAccept>>

Register(e) ==
    /\ loop[e] = "register"
    /\ mu = "free"
    /\ IF done
       THEN /\ loop' = [loop EXCEPT ![e] = "discard"]
            /\ UNCHANGED <<hand, underlayVars, forward>>
       ELSE RegisterOpen(e)
    /\ UNCHANGED <<mu, done, closeDone, maintenance, pc, unpublished, callVars, listener,
                   ready, opened, chAccept>>

\* The multiplexer was closed first: underlay.Close() and return.  Close sets
\* the deadline of the connection; only the event loop would close it.
Discard(e) ==
    /\ loop[e] = "discard"
    /\ underlay' = [underlay EXCEPT ![hand[e]] = "closed"]
    /\ hand' = [hand EXCEPT ![e] = None]
    /\ loop' = [loop EXCEPT ![e] = "ended"]
    /\ UNCHANGED <<mu, done, closeDone, maintenance, pc, unpublished, callVars, listener, list,
                   socket, event, sessionVars>>

-----------------------------------------------------------------------------
(* The goroutines of an underlay.                                          *)

\* One pass of RunEventLoop: discovering a user counts in the user cache.
EventPass(u) ==
    /\ event[u] = "run"
    /\ unpublished' = TRUE
    /\ \/ UNCHANGED <<ready, opened>>
       \/ /\ opened[u] < MaxSessions
          /\ underlay[u] = "open"
          /\ opened' = [opened EXCEPT ![u] = @ + 1]
          /\ ready' = [ready EXCEPT ![u] = @ + 1]
    /\ UNCHANGED <<mu, done, closeDone, maintenance, pc, callVars, loopVars, underlayVars,
                   forward, chAccept>>

\* RunEventLoop returns: ctx or the underlay is done, or reading failed.
EventReturn(u) ==
    /\ event[u] = "run"
    /\ event' = [event EXCEPT ![u] = "close"]
    /\ socket' = [socket EXCEPT ![u] = FALSE]
    /\ UNCHANGED <<mu, done, closeDone, maintenance, pc, unpublished, callVars, loopVars, list,
                   underlay, sessionVars>>

\* underlay.Close(), then serverUnderlayLoopWG.Done().
EventClose(u) ==
    /\ event[u] = "close"
    /\ event' = [event EXCEPT ![u] = "ended"]
    /\ underlay' = [underlay EXCEPT ![u] = "closed"]
    /\ UNCHANGED <<mu, done, closeDone, maintenance, pc, unpublished, callVars, loopVars, list,
                   socket, sessionVars>>

\* underlay.Accept() takes a session, or fails because the underlay is closed.
ForwardTake(u) ==
    /\ forward[u] = "accept"
    /\ \/ /\ ready[u] > 0
          /\ ready' = [ready EXCEPT ![u] = @ - 1]
          /\ forward' = [forward EXCEPT ![u] = "send"]
       \/ /\ underlay[u] = "closed"
          /\ forward' = [forward EXCEPT ![u] = "ended"]
          /\ UNCHANGED ready
    /\ UNCHANGED <<mu, done, closeDone, maintenance, pc, unpublished, callVars, loopVars,
                   underlayVars, opened, chAccept>>

ForwardBlocking(u) ==
    /\ forward[u] = "send"
    /\ chAccept < ChanCapacity
    /\ chAccept' = chAccept + 1
    /\ forward' = [forward EXCEPT ![u] = "accept"]
    /\ UNCHANGED <<mu, done, closeDone, maintenance, pc, unpublished, callVars, loopVars,
                   underlayVars, ready, opened>>

ForwardSend(u) ==
    /\ forward[u] = "send"
    /\ \/ /\ chAccept < ChanCapacity
          /\ chAccept' = chAccept + 1
          /\ forward' = [forward EXCEPT ![u] = "accept"]
       \/ /\ done
          /\ forward' = [forward EXCEPT ![u] = "ended"]
          /\ UNCHANGED chAccept
    /\ UNCHANGED <<mu, done, closeDone, maintenance, pc, unpublished, callVars, loopVars,
                   underlayVars, ready, opened>>

\* The application takes a session; the errors of Accept change nothing.
Accept ==
    /\ chAccept > 0
    /\ chAccept' = chAccept - 1
    /\ UNCHANGED <<mu, done, closeDone, maintenance, pc, unpublished, callVars, loopVars,
                   underlayVars, ready, opened, forward>>

-----------------------------------------------------------------------------
(* The maintenance goroutine.                                              *)

Maintain ==
    /\ maintenance = "select"
    /\ mu = "free"
    /\ maintenance' = "flush"
    /\ \E idle \in IdleSets(list) : CleanUnderlay(list, idle)
    /\ UNCHANGED <<mu, done, closeDone, pc, unpublished, callVars, loopVars, event, sessionVars>>

MaintainFlush ==
    /\ maintenance = "flush"
    /\ maintenance' = "select"
    /\ unpublished' = FALSE
    /\ UNCHANGED <<mu, done, closeDone, pc, callVars, loopVars, underlayVars, sessionVars>>

MaintainStop ==
    /\ maintenance = "select"
    /\ done
    /\ maintenance' = "ended"
    /\ UNCHANGED <<mu, done, closeDone, pc, unpublished, callVars, loopVars, underlayVars,
                   sessionVars>>

-----------------------------------------------------------------------------
(* Close.                                                                  *)

CloseCalled(c) == pc[c] = "lock" \/ (c # Starter /\ pc[c] = "idle")

\* The first caller signals shutdown and keeps mu; the others wait for it.
CloseBegin(c) ==
    /\ CloseCalled(c)
    /\ mu = "free"
    /\ IF done
       THEN /\ pc' = [pc EXCEPT ![c] = "wait"]
            /\ UNCHANGED <<mu, done>>
       ELSE /\ pc' = [pc EXCEPT ![c] = "closing"]
            /\ mu' = c
            /\ done' = TRUE
    /\ UNCHANGED <<closeDone, maintenance, unpublished, callVars, loopVars, underlayVars,
                   sessionVars>>

CloseUnderlay(c, u) ==
    /\ pc[c] = "closing"
    /\ u \in list
    /\ underlay[u] = "open"
    /\ underlay' = [underlay EXCEPT ![u] = "closed"]
    /\ UNCHANGED <<mu, done, closeDone, maintenance, pc, unpublished, callVars, loopVars, list,
                   socket, event, sessionVars>>

CloseUnlock(c) ==
    /\ pc[c] = "closing"
    /\ \A u \in list : underlay[u] = "closed"
    /\ list' = {}
    /\ mu' = "free"
    /\ pc' = [pc EXCEPT ![c] = "maintenance"]
    /\ UNCHANGED <<done, closeDone, maintenance, unpublished, callVars, loopVars, underlay,
                   socket, event, sessionVars>>

\* <-m.maintenanceDone and serverUnderlayLoopWG.Wait().
AwaitMaintenance(c) ==
    /\ pc[c] = "maintenance"
    /\ maintenance = "ended"
    /\ pc' = [pc EXCEPT ![c] = "loops"]
    /\ UNCHANGED <<mu, done, closeDone, maintenance, unpublished, callVars, loopVars,
                   underlayVars, sessionVars>>

SkipLoops(c) ==
    /\ pc[c] = "loops"
    /\ pc' = [pc EXCEPT ![c] = "flush"]
    /\ UNCHANGED <<mu, done, closeDone, maintenance, unpublished, callVars, loopVars,
                   underlayVars, sessionVars>>

AwaitLoops(c) ==
    /\ pc[c] = "loops"
    /\ \A u \in Underlays : event[u] \notin {"run", "close"}
    /\ pc' = [pc EXCEPT ![c] = "flush"]
    /\ UNCHANGED <<mu, done, closeDone, maintenance, unpublished, callVars, loopVars,
                   underlayVars, sessionVars>>

FinalFlush(c) ==
    /\ pc[c] = "flush"
    /\ unpublished' = FALSE
    /\ pc' = [pc EXCEPT ![c] = "signal"]
    /\ UNCHANGED <<mu, done, closeDone, maintenance, callVars, loopVars, underlayVars,
                   sessionVars>>

SignalClosed(c) ==
    /\ pc[c] = "signal"
    /\ closeDone' = TRUE
    /\ pc' = [pc EXCEPT ![c] = "returned"]
    /\ UNCHANGED <<mu, done, maintenance, unpublished, callVars, loopVars, underlayVars,
                   sessionVars>>

AwaitClosed(c) ==
    /\ pc[c] = "wait"
    /\ closeDone
    /\ pc' = [pc EXCEPT ![c] = "returned"]
    /\ UNCHANGED <<mu, done, closeDone, maintenance, unpublished, callVars, loopVars,
                   underlayVars, sessionVars>>

-----------------------------------------------------------------------------
LoopStep(e) ==
    \/ ListenFails(e) \/ ListenStream(e) \/ CloseListener(e)
    \/ AcceptUnderlayFails(e) \/ Register(e) \/ Discard(e)
    \/ \E u \in PacketUnderlays : ListenPacket(e, u)
    \/ \E u \in StreamUnderlays : AcceptUnderlay(e, u)

UnderlayStep(u) ==
    EventPass(u) \/ EventReturn(u) \/ EventClose(u) \/ ForwardTake(u) \/ ForwardSend(u)

CloseStep(c) ==
    \/ AwaitMaintenance(c) \/ AwaitLoops(c) \/ FinalFlush(c) \/ SignalClosed(c)
    \/ AwaitClosed(c) \/ CloseUnlock(c)
    \/ \E u \in Underlays : CloseUnderlay(c, u)

Next ==
    \/ Start \/ StartReturn \/ UpdateReturn
    \/ \E new \in SUBSET Endpoints : UpdateEndpoints(new)
    \/ \E e \in Endpoints : LoopStep(e)
    \/ \E u \in Underlays : UnderlayStep(u)
    \/ Accept
    \/ Maintain \/ MaintainFlush \/ MaintainStop
    \/ \E c \in Callers : CloseBegin(c) \/ CloseStep(c)

Spec == Init /\ [][Next]_vars

\* What the scheduler and the network guarantee: a goroutine that can run does;
\* listening ends; a closed listener or connection, or a cancelled context,
\* unblocks what waits on it; and a closed done channel is not passed over by
\* the select of the maintenance goroutine for ever.
Fairness ==
    /\ WF_vars(StartReturn) /\ WF_vars(UpdateReturn)
    /\ WF_vars(CloseBegin(Starter) /\ pc[Starter] = "lock")
    /\ \A c \in Callers : WF_vars(CloseStep(c))
    /\ \A e \in Endpoints :
        /\ WF_vars(loop[e] = "listen" /\ LoopStep(e))
        /\ WF_vars(CloseListener(e)) /\ WF_vars(Register(e)) /\ WF_vars(Discard(e))
        /\ WF_vars(~listener[e] /\ AcceptUnderlayFails(e))
    /\ \A u \in Underlays :
        /\ WF_vars((done \/ underlay[u] = "closed") /\ EventReturn(u))
        /\ WF_vars(EventClose(u)) /\ WF_vars(ForwardTake(u)) /\ WF_vars(ForwardSend(u))
    /\ WF_vars(MaintainFlush) /\ SF_vars(MaintainStop)

FairSpec == Spec /\ Fairness

-----------------------------------------------------------------------------
(* Properties.                                                             *)

\* "The synchronous flush below is therefore the final publication for this
\* Mux and is complete before Close returns": once a call of Close has returned,
\* no event loop is left that could count, and nothing counted is unpublished,
\* whichever call it was and whatever was being accepted when it began.
FinalPublication ==
    \A c \in Callers \ {Starter} :
        pc[c] = "returned" =>
            ~unpublished /\ \A u \in Underlays : event[u] \notin {"run", "close"}

\* Close closes every underlay that was registered; one that an accept loop made
\* in the meantime is open only until that loop has seen m.done.
NoneLeftOpen ==
    closeDone => \A u \in Underlays :
        underlay[u] = "open" => \E e \in Endpoints : hand[e] = u

\* A failing listener of UpdateEndpoints does not reach Accept ("It returns
\* listener errors without stopping the mux"), and m.endpoints has only
\* endpoints whose accept loop was started.
UpdateHarmless ==
    pc[Starter] = "returned" /\ mu = "free" =>
        done \/ (~acceptErr /\ \A e \in endpoints : loop[e] \notin {"off", "listen"})

\* Every goroutine of the multiplexer ends, every listener is released and Close
\* returns, once shutdown was signalled.  The connection of an underlay is released
\* by its event loop: one that was accepted too late to have one stays open.
Quiet ==
    /\ closeDone /\ maintenance = "ended" /\ mu = "free"
    /\ \A e \in Endpoints : loop[e] \in {"off", "ended"} /\ ~listener[e]
    /\ \A u \in Underlays :
        /\ underlay[u] # "open"
        /\ event[u] \in {"none", "ended"}
        /\ forward[u] \in {"none", "ended"}
        /\ socket[u] => event[u] = "none"
ShutsDown == done ~> []Quiet

\* "Mux is automatically closed when accept underlay fails."
AcceptFailureCloses == \A e \in StreamEndpoints : loop[e] = "ended" ~> done
=============================================================================
