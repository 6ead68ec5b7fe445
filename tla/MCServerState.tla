--------------------------- MODULE MCServerState ----------------------------
(* What a server remembers besides its sessions, for TLC: the users behind *)
(* a source address, the packets it has seen, and the bytes it has counted. *)
(* The three do not share state; a behaviour is about one of them.         *)
EXTENDS UserRegistry, ReplayCache, TLC

CONSTANT Workers

VARIABLES
    part,   \* which of them, never changes
    clock, steady, loaded, early, value, history, nextCompact, pc, snapshot, synced, dumpMutex,
    visible, durable, adds, published, crashes

Counter == INSTANCE Metrics
    WITH Width <- <<1, 2, 4>>, Retain <- <<1, 3>>, CompactInterval <- 2,
         MaxTime <- 7, MaxAdds <- 2, MaxCrashes <- 1

counterVars == <<clock, steady, loaded, early, value, history, nextCompact, pc, snapshot,
                 synced, dumpMutex, visible, durable, adds, published, crashes>>
allVars == <<vars, part, counterVars, replayVars>>

-----------------------------------------------------------------------------
(* Users.                                                                  *)

User(key, name, password, hashed) ==
    [key |-> key, name |-> name, password |-> password, hashed |-> hashed]

\* Users 1 and 2 share a credential.  The second map drops user 1, so that the
\* ID of each user changes, and has records that buildState skips.
MCUserMaps == <<
    {User(1, 1, 1, << >>), User(2, 2, 0, <<1, 1>>), User(3, 3, 2, << >>)},
    {User(2, 2, 0, <<1, 1>>), User(3, 3, 2, << >>), User(4, 0, 1, << >>),
     User(5, 4, 1, << >>), User(6, 4, 1, << >>), User(7, 5, 0, <<0>>), User(8, 9, 1, << >>)}>>

Msg(source, credential, hint, isCurrent) ==
    [source |-> source, credential |-> credential, hint |-> hint, current |-> isCurrent]

\* Streams require the current generation, datagrams do not.
MCMessages == {
    Msg(1, <<1, 1>>, {1}, TRUE),
    Msg(1, <<1, 1>>, {2}, FALSE),
    Msg(1, <<2, 3>>, {3}, FALSE),
    Msg(2, <<1, 1>>, {}, FALSE)}

\* Either two goroutines race over two users for a short time, or the users of
\* one source come one after the other and their cache entries age.
Busy == {d \in Discoverers : call[d].pc # "idle"}
Racing == now <= 1 /\ \A d \in Busy : call[d].message.credential = <<1, 1>>
Alone == Cardinality(Busy) <= 1 /\ \A d \in Busy : call[d].message.source = 1

-----------------------------------------------------------------------------
MCInit ==
    /\ part \in {"race", "age", "counter", "replay"}
    /\ Init /\ (part \in {"counter", "replay"} => hintMandatory = FALSE)
    /\ Counter!Init
    /\ ReplayInit

MCNext ==
    /\ \/ /\ \/ part = "race" /\ Next /\ Racing'
             \/ part = "age" /\ Next /\ Alone'
          /\ UNCHANGED <<counterVars, replayVars>>
       \/ part = "counter" /\ Counter!Next /\ UNCHANGED <<vars, replayVars>>
       \/ part = "replay" /\ ReplayNext /\ UNCHANGED <<vars, counterVars>>
    /\ UNCHANGED part

MCSpec == MCInit /\ [][MCNext]_allVars

\* The history of the counter accounts for its value, each tier is in order, and
\* what a window of time is said to hold is exact (ValueMatchesHistory, TiersOrdered,
\* WindowIsExact).
HistoryIsExact == Counter!ValueMatchesHistory /\ Counter!TiersOrdered /\ Counter!WindowIsExact

\* The checkpoint file is absent or complete, and never older than one whose writing
\* was reported (CheckpointComplete, CheckpointNeverRegresses).
CheckpointKept == Counter!CheckpointComplete /\ Counter!CheckpointNeverRegresses

Symmetry == Permutations(Discoverers) \cup Permutations(Workers)
=============================================================================
