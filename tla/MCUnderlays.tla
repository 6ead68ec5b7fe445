---------------------------- MODULE MCUnderlays -----------------------------
(* The two kinds of underlay, for TLC: both ends of a stream underlay, and *)
(* the packet underlay of a server.  They do not share state; a behaviour  *)
(* is about one of them.                                                   *)
EXTENDS MCStreamUnderlay, PacketUnderlay

VARIABLE part  \* which of them, never changes

underlayVars == <<part, vars, packetVars>>

\* The underlay that a behaviour is not about: a stream without sessions, a packet
\* underlay that was closed.
MCInit ==
    /\ part \in {"stream", "packet"}
    /\ Init
    /\ part # "stream" => faults = {"network"}
    /\ arrivals = 0 /\ silences = 0 /\ sessions = << >> /\ map = [id \in Ids |-> 0]
    /\ toClean = {} /\ tick = FALSE /\ readySessions = << >> /\ recorded = {} /\ ranged = {}
    /\ IF part = "packet"
       THEN PacketInit
       ELSE loop = Loop("ended", 0, "none") /\ closer = "ended" /\ doneChan = TRUE /\ socket = FALSE

MCNext ==
    \/ part = "stream" /\ Next /\ UNCHANGED <<part, packetVars>>
    \/ part = "packet" /\ PacketNext /\ UNCHANGED <<part, vars>>

\* Fairness.
StreamsRun ==
    /\ \A x \in End :
        /\ WF_vars(part = "stream" /\ x[1] \in deadline /\ Close(x))
        /\ WF_vars(part = "stream" /\ (CloseSucceeds(x) \/ CloseTimesOut(x)))
        /\ WF_vars(part = "stream" /\ (OutputTake(x) \/ OutputPut(x) \/ OutputFails(x)))
        /\ WF_vars(part = "stream" /\ InputStep(x))
        /\ WF_vars(part = "stream" /\ Read(x))
    /\ \A e \in Side :
        /\ WF_vars(part = "stream" /\ EventStep(e))
        /\ WF_vars(part = "stream" /\ (\/ event[e] \in {"ended", "failed"} /\ CloseUnderlay(e)
                                      \/ CloseUnderlayEnd(e)))

\* PacketFairness.
PacketsRun ==
    /\ WF_packetVars(part = "packet" /\ (Dispatch \/ \E s \in Incarnation : CleanOne(s)))
    /\ WF_packetVars(part = "packet" /\ TickerFires)
    /\ WF_packetVars(part = "packet" /\ ~doneChan /\ PacketAccept)
    /\ WF_packetVars(part = "packet" /\ (CloseBegins \/ CloseEnds \/ \E s \in Incarnation : CloseOne(s)))
    /\ \A s \in 1 .. MaxIncarnations : WF_packetVars(part = "packet" /\ s \in Incarnation /\ PacketSessionStep(s))

MCSpec == MCInit /\ [][MCNext]_underlayVars /\ StreamsRun /\ PacketsRun

\* Closing comes to an end.  When the connection is lost or one side closes its
\* stream underlay, both underlays end up closed (StreamsShutDown); a packet
\* underlay whose Close has begun ends with its event loop and its sessions
\* (PacketsShutDown); a Close of a session finishes (CloseFinishes); and a closed
\* session leaves the map, so that its ID can be used again (ClosedIsForgotten).
ClosingEnds ==
    /\ (IF part = "stream" THEN ~up \/ deadline # {} ELSE closer # "idle") ~>
           (IF part = "stream" THEN StreamsShutDown ELSE PacketsShutDown)
    /\ CloseFinishes
    /\ ClosedIsForgotten
=============================================================================
