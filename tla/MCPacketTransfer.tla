-------------------------- MODULE MCPacketTransfer --------------------------
(* Two transfers over a packet session, with their own capacities: an      *)
(* upload of several fragments (the constants of the .cfg) and an exchange *)
(* in which both sides write.                                              *)
EXTENDS MCPacketSession

VARIABLE scenario   \* never changes

Exchange == INSTANCE PacketSession
                WITH TreeCapacity <- 2, SendQueueCapacity <- 2,
                     TxCountLimit <- 1, MaxFragments <- 1, MaxWrites <- ExchangeWrites

MCInit ==
    \/ scenario = "upload" /\ Init
    \/ scenario = "exchange" /\ Exchange!Init

MCNext ==
    /\ \/ scenario = "upload" /\ Next
       \/ scenario = "exchange" /\ Exchange!Next
    /\ UNCHANGED scenario

MCSpec == MCInit /\ [][MCNext]_<<vars, scenario>>
=============================================================================
