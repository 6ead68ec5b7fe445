---------------------------- MODULE MCPacketPath ----------------------------
(* A session that fills its receive trees (the constants of the .cfg) or   *)
(* is closed by its server at any moment, and what its segments go through *)
(* below it, for TLC: the framing of a connection, the coding of low       *)
(* entropy payloads, and the keys.  A behaviour is about one of them.      *)
EXTENDS MCPacketSession

VARIABLES
    part,  \* which of them, never changes
    link, writes, accepted, controls, queue, send, recv, drawn, line, losses, usesLow, got, failed,
    sample,
    start, skew, now, cache, decryptor, call, underlay, refused

wireVars == <<link, writes, accepted, controls, queue, send, recv, drawn, line, losses, usesLow, got, failed>>
keyVars == <<start, skew, now, cache, decryptor, call, underlay, refused>>

Sides(client, server) == [e \in Side |-> IF e = "client" THEN client ELSE server]

Link(transport, mtu, mode, padding, lengths) ==
    [transport |-> transport, mtu |-> Sides(mtu, mtu), mode |-> Sides(mode[1], mode[2]),
     middlePadding |-> padding[1], endPadding |-> padding[2], lengths |-> Sides(lengths[1], lengths[2])]

\* The lengths are those around MaxSessionOpenPayload, around maxPDU, and around
\* one and two full datagrams of each MTU with and without coding.
MCLinks ==
    {Link("stream", 1400, mode, <<<< >>, << >>>>, lengths) :
        mode \in {<<0, 0>>, <<1, 0>>, <<1, 4>>},
        lengths \in {<<<<1024, 32769>>, <<32768>>>>, <<<<32768, 1>>, <<1>>>>}}
    \cup {Link("packet", mtu, mode, padding, lengths) :
        mtu \in {1280, 1500},
        mode \in {<<0, 0>>, <<1, 4>>, <<2, 3>>},
        padding \in {<<<< >>, << >>>>, <<<<200>>, <<10>>>>, <<<<-1>>, << >>>>},
        lengths \in {<<<<1024, 2500>>, <<2384>>>>, <<<<1025>>, <<1192>>>>, <<<<2500, 1>>, <<2824>>>>}}

Closing == INSTANCE PacketSession
               WITH MaxWrites <- UploadOne, Closers <- {"server"}, QuotaOK <- {TRUE}, SocketFails <- {}

W == INSTANCE Wire WITH Links <- MCLinks, MaxControls <- 1, MaxLine <- 1, MaxLosses <- 1

C == INSTANCE LowEntropy

K == INSTANCE CipherKeys
    WITH Dialers <- {"d1", "d2"}, Receivers <- {"r1"}, Starts <- {29}, Skews <- {-6, 2},
         MaxDelay <- 1, MaxOpens <- 1, Horizon <- 12

-----------------------------------------------------------------------------
(* Samples for the coding: bytes of several patterns, masks with their     *)
(* bits together and spread, rotations of both directions, and payloads    *)
(* that end in a short chunk or in a full one.                             *)

Pattern(k) == <<{}, 0 .. 7, {0, 3, 7}, {1, 2, 4}>>[(k % 4) + 1]
Spread(ones) == {p \in 0 .. 31 : (p * ones) \div 32 # ((p + 1) * ones) \div 32}

Sample(n, mode, halfMask, rotation, bit) ==
    [src |-> [j \in 1 .. n |-> Pattern(j)], mode |-> mode, halfMask |-> halfMask,
     rotation |-> rotation, bit |-> bit]

Samples ==
    UNION {{Sample(n, mode, halfMask, rotation, bit) :
                n \in {1, C!sourceBytesPerChunk(mode), 2 * C!sourceBytesPerChunk(mode) + 1},
                halfMask \in {32 - C!halfMaskOnes(mode) .. 31, Spread(C!halfMaskOnes(mode))},
                rotation \in {0, 1, 15, 240}, bit \in {0, 1}} : mode \in 1 .. 4}

-----------------------------------------------------------------------------
NoWire ==
    /\ link = 0 /\ writes = 0 /\ accepted = 0 /\ controls = 0 /\ queue = 0 /\ send = 0 /\ recv = 0
    /\ drawn = 0 /\ line = 0 /\ losses = 0 /\ usesLow = 0 /\ got = 0 /\ failed = 0

NoKeys ==
    /\ start = 0 /\ skew = 0 /\ now = 0 /\ cache = 0 /\ decryptor = 0 /\ call = 0
    /\ underlay = 0 /\ refused = 0

MCInit ==
    /\ part \in {"upload", "close", "wire", "code", "keys"}
    /\ Init
    /\ IF part = "wire" THEN W!WireInit ELSE NoWire
    /\ IF part = "code" THEN sample \in Samples ELSE sample = 0
    /\ IF part = "keys" THEN K!KeysInit ELSE NoKeys

MCNext ==
    /\ \/ part = "upload" /\ Next /\ UNCHANGED <<wireVars, keyVars>>
       \/ part = "close" /\ Closing!Next /\ UNCHANGED <<wireVars, keyVars>>
       \/ part = "wire" /\ W!WireNext /\ UNCHANGED <<vars, keyVars>>
       \/ part = "keys" /\ K!KeysNext /\ UNCHANGED <<vars, wireVars>>
    /\ UNCHANGED <<part, sample>>

MCSpec == MCInit /\ [][MCNext]_<<vars, part, wireVars, sample, keyVars>>

\* Two peers that follow the code understand each other (Wire!Understood), the
\* fragments of a chunk cover it (NothingLeftOut), and no datagram exceeds the MTU
\* (DatagramFits), for every padding, low entropy mode and fragment size.
Understood == part = "wire" => W!Understood /\ W!NothingLeftOut /\ W!DatagramFits

\* The coding of low entropy payloads is undone by its decoding, and a change of
\* any bit of the code is noticed or changes the payload (encode, decode).
CodeRoundTrips ==
    part = "code" =>
        /\ C!RoundTrips(sample)
        /\ \A c \in 1 .. C!chunkCount(Len(sample.src), sample.mode), at \in {0, 17, 63} :
               C!EveryBitMatters(sample, c, at)

\* The server accepts the first segment of every session in time, although the
\* clocks differ and keys are cached (CipherKeys!FirstSegmentAccepted).
FirstSegmentAccepted == part = "keys" => K!FirstSegmentAccepted
=============================================================================
