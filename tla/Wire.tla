-------------------------------- MODULE Wire --------------------------------
(***************************************************************************)
(* How segments become bytes and bytes become segments, on one connection: *)
(* the fragments of a Write (pkg/protocol/session.go, segment.go), the     *)
(* padding (padding.go), the layout that writeOneSegment produces and      *)
(* readOneSegment takes apart (underlay_stream.go, underlay_packet.go),    *)
(* and the nonces of the ciphers (pkg/cipher/cipher.go).                   *)
(*                                                                         *)
(* The lengths are the real ones, in bytes.  The bytes on the line are a   *)
(* sequence of fields, each with its length; what is sealed is known by    *)
(* its nonce and by what it contains.  A random nonce differs from every   *)
(* other one.                                                              *)
(***************************************************************************)
EXTENDS LowEntropy

CONSTANTS
    Links,         \* [transport, mtu and mode of each side, middlePadding,
                   \* endPadding, lengths]: LowEntropyMode 0 is OFF, a padding is
                   \* <<its configured limit>> or << >>, lengths what each
                   \* application writes
    MaxControls,   \* bound: segments without payload
    MaxLine,       \* bound: segments on a TCP connection in each direction
    MaxLosses      \* bound: datagrams lost

VARIABLES
    link,     \* the transport and the settings of the sides, never changes
    writes,   \* side -> calls of Write
    accepted, \* side -> bytes its application has written
    controls, \* segments without payload so far
    queue,    \* side -> segments to send
    send,     \* side -> its cipher for sending, None before the first segment
    recv,     \* side -> its cipher for receiving
    drawn,    \* side -> random nonces it has drawn
    line,     \* side -> segments it has sent, each a sequence of fields
    losses,   \* datagrams lost
    usesLow,  \* clientUseLowEntropy of the server's session
    got,      \* side -> bytes its application can read
    failed    \* side -> why reading failed, or "no"

wireVars == <<link, writes, accepted, controls, queue, send, recv, drawn, line, losses, usesLow, got, failed>>

WireSide == {"client", "server"}
Other(e) == IF e = "client" THEN "server" ELSE "client"
Smaller(a, b) == IF a <= b THEN a ELSE b

MetadataLength == 32
DefaultNonceSize == 24
DefaultOverhead == 16
packetOverhead == DefaultNonceSize + MetadataLength + 2 * DefaultOverhead
ReadBuffer == 1500
maxPDU == 32 * 1024
MaxSessionOpenPayload == 1024
MaxUint16 == 65535

-----------------------------------------------------------------------------
(* Fragments.                                                              *)

lowEntropyEncodedPayloadLen(n, mode) == chunkCount(n, mode) * lowEntropyChunkLen

maxFragmentSize(mtu, mode) ==
    LET chunks == IF link.transport = "stream" THEN MaxUint16 \div lowEntropyChunkLen
                  ELSE (mtu - packetOverhead) \div lowEntropyChunkLen
        plain == IF link.transport = "stream" THEN maxPDU ELSE mtu - packetOverhead
    IN IF mode = 0 THEN plain
       ELSE IF link.transport = "stream" THEN Smaller(plain, chunks * sourceBytesPerChunk(mode))
       ELSE chunks * sourceBytesPerChunk(mode)

\* The server uses low entropy only after the client has.
lowEntropySendMode(e) == IF e = "server" /\ ~usesLow THEN 0 ELSE link.mode[e]

\* A segment with len bytes of plain text from position `from` of the stream.
Seg(kind, from, len, mode) ==
    [kind |-> kind, from |-> from, len |-> len, mode |-> mode,
     payloadLen |-> (IF mode = 0 THEN len ELSE lowEntropyEncodedPayloadLen(len, mode)) % (MaxUint16 + 1)]

nFragments(n, size) == IF n > size THEN (n - 1) \div size + 1 ELSE 1

\* The segments of writeChunk for n bytes.
writeChunk(e, from, n) ==
    LET mode == lowEntropySendMode(e)
        size == maxFragmentSize(link.mtu[e], mode)
    IN [i \in 1 .. nFragments(n, size) |->
           Seg("dataAck", from + (i - 1) * size, Smaller(size, n - (i - 1) * size), mode)]

\* Write of the first bytes of a client takes them along with the open request
\* when they fit; a larger Write is cut into chunks of maxPDU.
Write(e) ==
    LET n == link.lengths[e][writes[e] + 1]
        opens == e = "client" /\ writes[e] = 0
        piggyback == opens /\ lowEntropySendMode(e) = 0 /\ n <= MaxSessionOpenPayload
        open == IF ~opens THEN << >> ELSE <<Seg("session", accepted[e], IF piggyback THEN n ELSE 0, 0)>>
        first == writeChunk(e, accepted[e], Smaller(n, maxPDU))
        second == IF n > maxPDU THEN writeChunk(e, accepted[e] + maxPDU, n - maxPDU) ELSE << >>
    IN /\ writes[e] < Len(link.lengths[e])
       /\ queue[e] = << >>
       /\ n <= 2 * maxPDU
       /\ queue' = [queue EXCEPT ![e] = @ \o open \o (IF piggyback THEN << >> ELSE first \o second)]
       /\ writes' = [writes EXCEPT ![e] = @ + 1]
       /\ accepted' = [accepted EXCEPT ![e] = @ + n]
       /\ UNCHANGED <<link, controls, send, recv, drawn, line, losses, usesLow, got, failed>>

\* A response, a close, or an acknowledgement: nothing but metadata.
Control(e, kind) ==
    /\ controls < MaxControls
    /\ writes["client"] > 0
    /\ queue[e] = << >>
    /\ queue' = [queue EXCEPT ![e] = Append(@, Seg(kind, accepted[e], 0, 0))]
    /\ controls' = controls + 1
    /\ UNCHANGED <<link, writes, accepted, send, recv, drawn, line, losses, usesLow, got, failed>>

-----------------------------------------------------------------------------
(* Padding.                                                                *)

maxPaddingSize(mtu, fragmentSize, existing) ==
    IF link.transport = "stream" THEN 255
    ELSE LET res == mtu - fragmentSize - packetOverhead
         IN IF res <= existing THEN 0 ELSE Smaller(res - existing, 255)

maxPaddingSizeWithTrafficPattern(mtu, fragmentSize, existing, configured) ==
    LET most == maxPaddingSize(mtu, fragmentSize, existing)
    IN IF configured = << >> THEN most ELSE IF configured[1] < 0 THEN 0 ELSE Smaller(most, configured[1])

\* newPadding: the length is random; both ends of the range.
newPadding(maxLen) == {0, maxLen}

-----------------------------------------------------------------------------
(* Ciphers.                                                                *)

Cipher(implicit, nonce) == [implicit |-> implicit, nonce |-> nonce]
None == Cipher(FALSE, <<"none", 0>>)

\* Mutant: the server's clone keeps the nonce of the other direction.
CloneAsItIs(e) == IF e = "server" THEN recv[e] ELSE Cipher(link.transport = "stream", << >>)

\* maybeInitSendBlockCipher: a clone of the client's block, or of the cipher for
\* receiving, without its nonce.
InitSend(e) == Cipher(link.transport = "stream", << >>)

SendsNonce(c) == ~c.implicit \/ c.nonce = << >>

\* Encrypt: a random nonce, or the implicit one, increased.
NextNonce(c, random) == IF SendsNonce(c) THEN random ELSE <<c.nonce[1], c.nonce[2] + 1>>
Used(c, nonce) == IF c.implicit THEN [c EXCEPT !.nonce = nonce] ELSE c

-----------------------------------------------------------------------------
(* Writing.                                                                *)

Field(what, len, nonce, value) == [what |-> what, len |-> len, nonce |-> nonce, value |-> value]
Pad(n) == IF n = 0 THEN << >> ELSE <<Field("padding", n, << >>, << >>)>>

\* Metadata as Marshal writes it: bytes for the padding.
Metadata(seg, prefix, suffix) ==
    [kind |-> seg.kind, mode |-> seg.mode, payloadLen |-> seg.payloadLen, extracted |-> seg.len,
     prefixLen |-> prefix % 256, suffixLen |-> suffix % 256]

\* The payload, sealed, and coded if it is a low entropy one: the tag is not.
Payload(seg, nonce) ==
    IF seg.len = 0 THEN << >>
    ELSE <<Field(IF seg.mode = 0 THEN "sealed" ELSE "coded", seg.payloadLen + DefaultOverhead, nonce,
                 <<seg.from, seg.len>>)>>

\* The bytes of one segment.
Layout(seg, prefix, suffix, withNonce, n1, n2) ==
    (IF withNonce THEN <<Field("nonce", DefaultNonceSize, n1, << >>)>> ELSE << >>)
        \o <<Field("sealed", MetadataLength + DefaultOverhead, n1, Metadata(seg, prefix, suffix))>>
        \o Pad(prefix) \o Payload(seg, n2) \o Pad(suffix)

\* writeOneSegment.  Over TCP the payload takes the next nonce, over UDP the one
\* of the metadata.  A server cannot send before it has received.  The refusal of
\* a low entropy datagram larger than the MTU is left out: see DatagramFits.
WriteOneSegment(e) ==
    /\ queue[e] # << >>
    /\ Len(line[e]) < (IF link.transport = "stream" THEN MaxLine ELSE 1)
    /\ e = "server" => recv[e] # None
    /\ LET seg == Head(queue[e])
           c0 == IF send[e] = None THEN InitSend(e) ELSE send[e]
           random == <<e, IF link.transport = "stream" THEN 0 ELSE drawn[e]>>
           n1 == NextNonce(c0, random)
           c1 == Used(c0, n1)
           n2 == IF c1.implicit THEN NextNonce(c1, random) ELSE n1
       IN /\ \E prefix \in IF seg.kind = "session" THEN {0}
                           ELSE newPadding(maxPaddingSizeWithTrafficPattern(link.mtu[e], seg.payloadLen, 0, link.middlePadding)) :
             \E suffix \in newPadding(maxPaddingSizeWithTrafficPattern(link.mtu[e], seg.payloadLen, prefix, link.endPadding)) :
                line' = [line EXCEPT ![e] = Append(@, Layout(seg, prefix, suffix, SendsNonce(c0), n1, n2))]
          /\ send' = [send EXCEPT ![e] = IF seg.len > 0 THEN Used(c1, n2) ELSE c1]
    /\ drawn' = [drawn EXCEPT ![e] = IF link.transport = "stream" THEN @ ELSE 1 - @]
    /\ queue' = IF link.transport = "stream" THEN [queue EXCEPT ![e] = Tail(@)] ELSE queue
    /\ UNCHANGED <<link, writes, accepted, controls, recv, losses, usesLow, got, failed>>

-----------------------------------------------------------------------------
(* Reading.                                                                *)

\* The cipher that decrypts the first segment, and the following ones: it takes
\* the nonce from the data, or increases its own.
InitRecv == Cipher(link.transport = "stream", << >>)
ReadsNonce(c) == ~c.implicit \/ c.nonce = << >>

\* The lengths that the metadata announces for the fields after it.
Announced(meta) ==
    (IF meta.prefixLen > 0 THEN <<meta.prefixLen>> ELSE << >>)
        \o (IF meta.payloadLen > 0 THEN <<meta.payloadLen + DefaultOverhead>> ELSE << >>)
        \o (IF meta.suffixLen > 0 THEN <<meta.suffixLen>> ELSE << >>)

\* Unmarshal and validateLowEntropyDataAckMetadata.
ValidMetadata(meta) ==
    /\ meta.kind = "session" => meta.payloadLen <= MaxSessionOpenPayload
    /\ meta.mode # 0 =>
          /\ meta.extracted <= maxPDU
          /\ meta.payloadLen % lowEntropyChunkLen = 0
          /\ meta.payloadLen = lowEntropyEncodedPayloadLen(meta.extracted, meta.mode)

Length(fields) == LET Sum[i \in 0 .. Len(fields)] == IF i = 0 THEN 0 ELSE Sum[i - 1] + fields[i].len
                  IN Sum[Len(fields)]

\* readOneSegment of the segment at the head of the line: the nonce and the
\* metadata, then as many bytes as the metadata announces.  Over UDP nothing may
\* be left in the datagram.
ReadOneSegment(e, c) ==
    LET fields == Head(line[Other(e)])
        at == IF ReadsNonce(c) THEN 2 ELSE 1
        n1 == IF ReadsNonce(c) THEN fields[1].nonce ELSE <<c.nonce[1], c.nonce[2] + 1>>
        n2 == IF c.implicit THEN <<n1[1], n1[2] + 1>> ELSE n1
        meta == fields[at].value
        rest == SubSeq(fields, at + 1, Len(fields))
        at2 == IF meta.prefixLen > 0 THEN 2 ELSE 1
    IN IF \/ ReadsNonce(c) /\ fields[1].what # "nonce"
          \/ ~ReadsNonce(c) /\ fields[1].what = "nonce"
          \/ fields[at].nonce # n1
          \/ link.transport = "packet" /\ Length(fields) > ReadBuffer
       THEN [result |-> "metadata"]
       ELSE IF ~ValidMetadata(meta) THEN [result |-> "invalid"]
       ELSE IF [i \in DOMAIN rest |-> rest[i].len] # Announced(meta) THEN [result |-> "length"]
       ELSE IF meta.payloadLen = 0
       THEN [result |-> "ok", cipher |-> Used(c, n1), from |-> -1, len |-> 0, low |-> FALSE]
       ELSE IF rest[at2].nonce # n2 \/ rest[at2].what # (IF meta.mode = 0 THEN "sealed" ELSE "coded")
       THEN [result |-> "payload"]
       ELSE [result |-> "ok", cipher |-> Used(c, n2), from |-> rest[at2].value[1], len |-> rest[at2].value[2],
             low |-> meta.mode # 0]

\* A segment is read.  Over UDP the peer's output loop is told, and sends the next.
Receive(e) ==
    /\ line[Other(e)] # << >>
    /\ failed[e] = "no"
    /\ LET c == IF recv[e] = None THEN InitRecv ELSE recv[e]
           read == ReadOneSegment(e, c)
       IN IF read.result # "ok"
          THEN /\ failed' = [failed EXCEPT ![e] = read.result]
               /\ UNCHANGED <<queue, recv, usesLow, got, line>>
          ELSE /\ recv' = [recv EXCEPT ![e] = read.cipher]
               /\ failed' = [failed EXCEPT ![e] = IF read.len > 0 /\ read.from # got[e] THEN "order" ELSE "no"]
               /\ got' = [got EXCEPT ![e] = @ + read.len]
               /\ usesLow' = (usesLow \/ (e = "server" /\ read.low))
               /\ line' = [line EXCEPT ![Other(e)] = Tail(@)]
               /\ queue' = IF link.transport = "stream" THEN queue ELSE [queue EXCEPT ![Other(e)] = Tail(@)]
    /\ UNCHANGED <<link, writes, accepted, controls, send, drawn, losses>>

\* A datagram is lost, and will be sent again with other padding and nonce.
Lose(e) ==
    /\ link.transport = "packet"
    /\ line[e] # << >>
    /\ losses < MaxLosses
    /\ line' = [line EXCEPT ![e] = Tail(@)]
    /\ losses' = losses + 1
    /\ UNCHANGED <<link, writes, accepted, controls, queue, send, recv, drawn, usesLow, got, failed>>

WireInit ==
    /\ link \in Links
    /\ writes = [e \in WireSide |-> 0] /\ accepted = [e \in WireSide |-> 0]
    /\ controls = 0
    /\ queue = [e \in WireSide |-> << >>] /\ line = [e \in WireSide |-> << >>]
    /\ send = [e \in WireSide |-> None] /\ recv = [e \in WireSide |-> None]
    /\ drawn = [e \in WireSide |-> 0] /\ losses = 0 /\ usesLow = FALSE
    /\ got = [e \in WireSide |-> 0] /\ failed = [e \in WireSide |-> "no"]

WireNext ==
    \/ \E e \in WireSide : Write(e)
    \/ \E e \in WireSide, kind \in {"session", "dataAck"} : Control(e, kind)
    \/ \E e \in WireSide : WriteOneSegment(e) \/ Receive(e) \/ Lose(e)

-----------------------------------------------------------------------------
(* Properties.                                                             *)

\* Two peers that follow the code always understand each other: whatever they
\* write, with whatever padding, low entropy mode and fragment size, no segment
\* is refused because of its lengths, its nonce or its metadata, and the payloads
\* come out in the order they went in.  Over TCP one wrong length or nonce would
\* end the connection (readOneSegment, writeOneSegment).
Understood == \A e \in WireSide : failed[e] = "no"

\* When everything queued has been read, the peer has every byte of every Write:
\* the fragments of a chunk cover it (writeChunk).
NothingLeftOut ==
    \A e \in WireSide : queue[e] = << >> /\ line[e] = << >> => got[Other(e)] = accepted[e]

\* No datagram is larger than the MTU of its sender (maxFragmentSize,
\* maxPaddingSize and the layout of writeOneSegment agree on the overhead), so the
\* check that would refuse to send a low entropy segment again and again never does.
DatagramFits ==
    link.transport = "packet" =>
        \A e \in WireSide : \A i \in DOMAIN line[e] : Length(line[e][i]) <= link.mtu[e]
=============================================================================
