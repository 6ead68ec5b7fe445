--------------------------- MODULE PacketUnderlay ---------------------------
(***************************************************************************)
(* The packet underlay of a server (pkg/protocol/underlay_packet.go,       *)
(* underlay_base.go): its event loop with the session map and its          *)
(* cleaning, the sessions it creates, and Close, which the Mux or the end  *)
(* of the event loop calls.                                                *)
(*                                                                         *)
(* Datagrams of the client are lost, duplicated, delayed and reordered, so *)
(* any of them may arrive at any moment.  An open request that arrives     *)
(* after its session was removed creates the session once more: sessions   *)
(* are numbered, and those of one ID are its incarnations.  What a session *)
(* does with its segments is in PacketSession.                             *)
(***************************************************************************)
EXTENDS Integers, Sequences, FiniteSets

CONSTANTS
    Ids,              \* session IDs of clients
    MaxIncarnations,  \* bound: sessions created
    RecvChanCapacity,     \* segmentChanCapacity
    ReadyCapacity,    \* sessionChanCapacity
    MaxArrivals,      \* bound: datagrams
    MaxSilences,      \* bound: how often the sessions of the map are silent for
                      \* longer than idleSessionTimeout
    SocketFails       \* whether the socket may fail

VARIABLES
    arrivals, silences,
    sessions,  \* the sessions created so far
    map,       \* sessionMap: ID -> number of the session, 0 for none
    loop,      \* the event loop: where it is, and the segment it holds
    toClean,   \* sessions that cleanSessions has still to look at
    tick,      \* the ticker has fired
    readySessions,
    recorded,  \* sessions whose authentication was recorded
    closer,    \* where Close is
    ranged,   \* sessions that Close has still to close
    doneChan,      \* the done channel is closed
    socket     \* the socket is open

packetVars == <<arrivals, silences, sessions, map, loop, toClean, tick, readySessions, recorded,
                closer, ranged, doneChan, socket>>

Incarnation == DOMAIN sessions
Loop(pc, s, kind) == [pc |-> pc, s |-> s, kind |-> kind]
Go(pc) == loop' = Loop(pc, 0, "none")
InMap == {s \in Incarnation : map[sessions[s].id] = s}

PacketInit ==
    /\ arrivals = 0 /\ silences = 0
    /\ sessions = << >>
    /\ map = [id \in Ids |-> 0]
    /\ loop = Loop("select", 0, "none")
    /\ toClean = {} /\ tick = FALSE
    /\ readySessions = << >> /\ recorded = {}
    /\ closer = "idle" /\ ranged = {}
    /\ doneChan = FALSE /\ socket = TRUE

-----------------------------------------------------------------------------
(* Sessions.                                                               *)

NewSession(id) ==
    [id |-> id, state |-> "live", loops |-> TRUE, chan |-> << >>, block |-> FALSE, idle |-> FALSE]

\* closeWithError: the first caller does it, in a second at most.
CloseSession(all, s) == [all EXCEPT ![s].state = IF @ = "live" THEN "closing" ELSE @]

FinishClose(s) ==
    /\ sessions[s].state = "closing"
    /\ sessions' = [sessions EXCEPT ![s].state = "closed"]
    /\ UNCHANGED <<arrivals, silences, map, loop, toClean, tick, readySessions, recorded, closer, ranged,
                   doneChan, socket>>

\* The two loops of the session see closedChan.
EndLoops(s) ==
    /\ sessions[s].state = "closed"
    /\ sessions[s].loops
    /\ sessions' = [sessions EXCEPT ![s].loops = FALSE]
    /\ UNCHANGED <<arrivals, silences, map, loop, toClean, tick, readySessions, recorded, closer, ranged,
                   doneChan, socket>>

\* input: the session has a cipher, and has heard from its peer.  It does not
\* wait for the application.
Input(s) ==
    /\ sessions[s].state = "live"
    /\ sessions[s].chan # << >>
    /\ LET kind == Head(sessions[s].chan)
           heard == [sessions EXCEPT ![s].chan = Tail(@), ![s].block = TRUE, ![s].idle = FALSE]
       IN sessions' = IF kind = "close" THEN CloseSession(heard, s) ELSE heard
    /\ UNCHANGED <<arrivals, silences, map, loop, toClean, tick, readySessions, recorded, closer, ranged,
                   doneChan, socket>>

\* The heartbeat, or any other segment, cannot be written to the closed socket,
\* and the session is closed.  Without a cipher the segment waits for one
\* (ErrNotReady).
WriteFails(s) ==
    /\ sessions[s].state = "live"
    /\ sessions[s].block /\ ~socket
    /\ sessions' = CloseSession(sessions, s)
    /\ UNCHANGED <<arrivals, silences, map, loop, toClean, tick, readySessions, recorded, closer, ranged,
                   doneChan, socket>>

\* The application closes the session that Accept has returned.
ApplicationCloses(s) ==
    /\ sessions[s].state = "live"
    /\ s \in recorded /\ \A i \in DOMAIN readySessions : readySessions[i] # s
    /\ sessions' = CloseSession(sessions, s)
    /\ UNCHANGED <<arrivals, silences, map, loop, toClean, tick, readySessions, recorded, closer, ranged,
                   doneChan, socket>>

\* Nothing arrives for a session for idleSessionTimeout.
Silence(s) ==
    /\ silences < MaxSilences
    /\ sessions[s].chan = << >> /\ ~sessions[s].idle /\ sessions[s].state = "live"
    /\ silences' = silences + 1
    /\ sessions' = [sessions EXCEPT ![s].idle = TRUE]
    /\ UNCHANGED <<arrivals, map, loop, toClean, tick, readySessions, recorded, closer, ranged, doneChan, socket>>

-----------------------------------------------------------------------------
(* The event loop.                                                         *)

\* Mux.Close cancels the context of the event loop before it calls Close.
Cancelled == closer # "idle"

\* The select: a case that is ready, otherwise default.
Select ==
    /\ loop.pc = "select"
    /\ \/ (Cancelled \/ doneChan) /\ Go("lastClean") /\ toClean' = InMap /\ UNCHANGED tick
       \/ tick /\ Go("clean") /\ toClean' = InMap /\ tick' = FALSE
       \/ ~Cancelled /\ ~doneChan /\ ~tick /\ Go("read") /\ UNCHANGED <<toClean, tick>>
    /\ UNCHANGED <<arrivals, silences, sessions, map, readySessions, recorded, closer, ranged, doneChan, socket>>

TickerFires ==
    /\ ~tick /\ closer \in {"idle", "cancelled"}
    /\ tick' = TRUE
    /\ UNCHANGED <<arrivals, silences, sessions, map, loop, toClean, readySessions, recorded, closer, ranged,
                   doneChan, socket>>

\* readOneSegment gives up: the read has timed out, or the underlay is closed.
ReadNothing ==
    /\ loop.pc = "read"
    /\ IF doneChan THEN Go("lastClean") /\ toClean' = InMap ELSE Go("select") /\ UNCHANGED toClean
    /\ UNCHANGED <<arrivals, silences, sessions, map, tick, readySessions, recorded, closer, ranged,
                   doneChan, socket>>

\* The event loop returns an error and closes the socket.
LoopFails ==
    /\ SocketFails
    /\ loop.pc = "answer" \/ (loop.pc = "read" /\ ~doneChan)
    /\ Go("ended")
    /\ socket' = FALSE
    /\ UNCHANGED <<arrivals, silences, sessions, map, toClean, tick, readySessions, recorded, closer, ranged,
                   doneChan>>

\* A segment that can be decrypted, of a session in the map.  A second open
\* request is ignored.
ReadKnown(id, kind) ==
    /\ loop.pc = "read" /\ arrivals < MaxArrivals
    /\ map[id] # 0
    /\ arrivals' = arrivals + 1
    /\ IF kind = "open" THEN Go("select") ELSE loop' = Loop("deliver", map[id], kind)
    /\ UNCHANGED <<silences, sessions, map, toClean, tick, readySessions, recorded, closer, ranged, doneChan,
                   socket>>

\* A segment of another session: data is answered, a close ignored.
ReadUnknown(id, kind) ==
    /\ loop.pc = "read" /\ arrivals < MaxArrivals
    /\ map[id] = 0 /\ kind # "open"
    /\ arrivals' = arrivals + 1
    /\ Go(IF kind = "data" THEN "answer" ELSE "select")
    /\ UNCHANGED <<silences, sessions, map, toClean, tick, readySessions, recorded, closer, ranged, doneChan,
                   socket>>

\* The close request for the peer is written.
PacketAnswer ==
    /\ loop.pc = "answer"
    /\ Go("select")
    /\ UNCHANGED <<arrivals, silences, sessions, map, toClean, tick, readySessions, recorded, closer, ranged,
                   doneChan, socket>>

\* onOpenSessionRequest, up to AddSession.  The Range of a Close that is under
\* way may or may not come to the session.
PacketOnOpenSessionRequest(id) ==
    /\ loop.pc = "read" /\ arrivals < MaxArrivals
    /\ map[id] = 0
    /\ Len(sessions) < MaxIncarnations
    /\ arrivals' = arrivals + 1
    /\ sessions' = Append(sessions, NewSession(id))
    /\ map' = [map EXCEPT ![id] = Len(sessions) + 1]
    /\ loop' = Loop("deliver", Len(sessions) + 1, "open")
    /\ ranged' \in {ranged, IF closer = "range" THEN ranged \cup {Len(sessions) + 1} ELSE ranged}
    /\ UNCHANGED <<silences, toClean, tick, readySessions, recorded, closer, doneChan, socket>>

\* deliverSegmentToSession: a case that is ready.
PacketDeliverSegment ==
    LET s == loop.s
    IN /\ loop.pc = "deliver"
       /\ \/ /\ Len(sessions[s].chan) < RecvChanCapacity
             /\ sessions' = [sessions EXCEPT ![s].chan = Append(@, loop.kind)]
             /\ IF loop.kind = "open" THEN loop' = [loop EXCEPT !.pc = "ready"] ELSE Go("select")
          \/ /\ sessions[s].state = "closed" \/ doneChan
             /\ Go("select")
             /\ UNCHANGED sessions
       /\ UNCHANGED <<arrivals, silences, map, toClean, tick, readySessions, recorded, closer, ranged,
                      doneChan, socket>>

\* The end of onOpenSessionRequest: the session is offered to Accept, and then
\* the authentication is recorded.
OfferSession ==
    /\ loop.pc = "ready"
    /\ \/ /\ Len(readySessions) < ReadyCapacity
          /\ readySessions' = Append(readySessions, loop.s)
          /\ recorded' = recorded \cup {loop.s}
       \/ doneChan /\ UNCHANGED <<readySessions, recorded>>
    /\ Go("select")
    /\ UNCHANGED <<arrivals, silences, sessions, map, toClean, tick, closer, ranged, doneChan, socket>>

\* Accept, by the goroutine that forwards to the Mux.
PacketAccept ==
    /\ readySessions # << >>
    /\ readySessions' = Tail(readySessions)
    /\ UNCHANGED <<arrivals, silences, sessions, map, loop, toClean, tick, recorded, closer, ranged,
                   doneChan, socket>>

Cleaning == loop.pc \in {"clean", "lastClean"}

\* closedChan is closed, or nothing was received for idleSessionTimeout.
ToRemove(s) == sessions[s].state = "closed" \/ sessions[s].idle

\* cleanSessions looks at a session and, in RemoveSession, takes it out of the
\* map and closes it.
CleanOne(s) ==
    /\ Cleaning /\ loop.s = 0
    /\ s \in toClean
    /\ toClean' = toClean \ {s}
    /\ IF ToRemove(s)
       THEN /\ map' = [map EXCEPT ![sessions[s].id] = 0]
            /\ sessions' = CloseSession(sessions, s)
            /\ loop' = [loop EXCEPT !.s = s]
       ELSE UNCHANGED <<map, sessions, loop>>
    /\ UNCHANGED <<arrivals, silences, tick, readySessions, recorded, closer, ranged, doneChan, socket>>

\* Mutant: the loops of the session are not waited for.
RemovedAtOnce == TRUE

\* s.wg.Wait in RemoveSession.
RemovedLoopsEnded == ~sessions[loop.s].loops

RemoveSessionEnds ==
    /\ Cleaning /\ loop.s # 0
    /\ RemovedLoopsEnded
    /\ loop' = [loop EXCEPT !.s = 0]
    /\ UNCHANGED <<arrivals, silences, sessions, map, toClean, tick, readySessions, recorded, closer, ranged,
                   doneChan, socket>>

\* defer u.conn.Close
SocketAfterCleaning == loop.pc = "clean"

CleanEnds ==
    /\ Cleaning /\ loop.s = 0 /\ toClean = {}
    /\ Go(IF loop.pc = "clean" THEN "read" ELSE "ended")
    /\ socket' = SocketAfterCleaning
    /\ UNCHANGED <<arrivals, silences, sessions, map, toClean, tick, readySessions, recorded, closer, ranged,
                   doneChan>>

-----------------------------------------------------------------------------
(* Close.                                                                  *)

\* Mux.Close: ctxCancelFunc.
MuxCloses ==
    /\ closer = "idle"
    /\ closer' = "cancelled"
    /\ UNCHANGED <<arrivals, silences, sessions, map, loop, toClean, tick, readySessions, recorded, ranged,
                   doneChan, socket>>

\* The Mux closes the underlay, or the event loop that has ended.  A second call
\* waits for closeMutex and finds done closed.
CloseBegins ==
    /\ closer = "cancelled" \/ (closer = "idle" /\ loop.pc = "ended")
    /\ closer' = "range"
    /\ ranged' = InMap
    /\ UNCHANGED <<arrivals, silences, sessions, map, loop, toClean, tick, readySessions, recorded, doneChan,
                   socket>>

\* One session of the map; its loops are waited for before the next.
CloseOne(s) ==
    /\ closer = "range" /\ s \in ranged
    /\ IF sessions[s].loops
       THEN sessions[s].state = "live" /\ sessions' = CloseSession(sessions, s) /\ UNCHANGED ranged
       ELSE ranged' = ranged \ {s} /\ UNCHANGED sessions
    /\ UNCHANGED <<arrivals, silences, map, loop, toClean, tick, readySessions, recorded, closer, doneChan, socket>>

CloseEnds ==
    /\ closer = "range" /\ ranged = {}
    /\ closer' = "ended"
    /\ doneChan' = TRUE
    /\ UNCHANGED <<arrivals, silences, sessions, map, loop, toClean, tick, readySessions, recorded, ranged, socket>>

-----------------------------------------------------------------------------
PacketSessionStep(s) == Input(s) \/ FinishClose(s) \/ EndLoops(s) \/ WriteFails(s)

Dispatch ==
    Select \/ PacketAnswer \/ PacketDeliverSegment \/ OfferSession \/ RemoveSessionEnds \/ CleanEnds \/ ReadNothing

PacketNext ==
    \/ Dispatch \/ TickerFires \/ LoopFails \/ PacketAccept
    \/ \E id \in Ids : PacketOnOpenSessionRequest(id)
    \/ \E id \in Ids, kind \in {"open", "data", "close"} : ReadKnown(id, kind) \/ ReadUnknown(id, kind)
    \/ \E s \in Incarnation : PacketSessionStep(s) \/ ApplicationCloses(s) \/ Silence(s) \/ CleanOne(s) \/ CloseOne(s)
    \/ MuxCloses \/ CloseBegins \/ CloseEnds

\* The goroutines run, timers fire, and the Mux accepts.
PacketFairness ==
    /\ WF_packetVars(Dispatch \/ \E s \in Incarnation : CleanOne(s))
    /\ WF_packetVars(TickerFires)
    /\ WF_packetVars(~doneChan /\ PacketAccept)
    /\ WF_packetVars(CloseBegins \/ CloseEnds \/ \E s \in Incarnation : CloseOne(s))
    /\ \A s \in 1 .. MaxIncarnations : WF_packetVars(s \in Incarnation /\ PacketSessionStep(s))

-----------------------------------------------------------------------------
(* Properties.                                                             *)

\* At most one incarnation of a session ID has running loops: although
\* RemoveSession takes a session out of the map before it closes it, a late copy
\* of the open request finds the old one gone.
OneIncarnation ==
    \A s, t \in Incarnation : s # t /\ sessions[s].id = sessions[t].id => ~(sessions[s].loops /\ sessions[t].loops)

\* The session whose open request lost the race against Close: AddSession came
\* after Close had looked at the map, and deliverSegmentToSession found done closed.
\* It has no cipher, so that its heartbeat never fails.
Orphan(s) == doneChan /\ ~sessions[s].block /\ sessions[s].chan = << >>

\* A closed session leaves the map while the event loop runs, so that its ID can
\* be used again.
ClosedIsForgotten ==
    \A id \in Ids :
        (map[id] # 0 /\ sessions[map[id]].state = "closed") ~>
            (map[id] = 0 \/ loop.pc = "ended")

\* Once Close has begun, it returns, the event loop ends, and every session ends,
\* also one that the event loop added behind its back: its heartbeat fails.  The
\* exception is an Orphan.
PacketsShutDown ==
    /\ doneChan /\ loop.pc = "ended"
    /\ \A s \in Incarnation : ~sessions[s].loops \/ Orphan(s)
=============================================================================
