--------------------------- MODULE MCSessionLoops ---------------------------
(* The loops of one session, for TLC.  Over UDP: two workloads of the      *)
(* output loop with their own timeouts, segments that arrive and ask for   *)
(* an ACK (the constants of the .cfg) and segments that the application    *)
(* queues while the remote window changes.  Over TCP: the session and the  *)
(* event loops of its underlays while both applications may close it.      *)
EXTENDS PacketOutputLoop, StreamUnderlay

CONSTANT s1

VARIABLE scenario  \* never changes

Sender == INSTANCE PacketOutputLoop
              WITH Heartbeat <- 9, Rto <- 2, Windows <- {0, 2},
                   StartsOpening <- BOOLEAN, MaxTime <- 3,
                   MaxInputs <- 1, MaxQueued <- 2

\* The server writes one payload, or refuses the session.
DownloadOne == [e \in Side |-> IF e = "server" THEN 1 ELSE 0]

MCInit ==
    /\ Init
    /\ \/ scenario \in {"receiver", "stream"} /\ OutputInit
       \/ scenario = "sender" /\ Sender!OutputInit

MCNext ==
    \/ scenario = "receiver" /\ OutputNext /\ UNCHANGED <<scenario, vars>>
    \/ scenario = "sender" /\ Sender!OutputNext /\ UNCHANGED <<scenario, vars>>
    \/ scenario = "stream" /\ Next /\ UNCHANGED <<scenario, outputVars>>

MCSpec == MCInit /\ [][MCNext]_<<scenario, outputVars, vars>>
=============================================================================
