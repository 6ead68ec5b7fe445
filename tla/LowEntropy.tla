----------------------------- MODULE LowEntropy -----------------------------
(***************************************************************************)
(* The coding of low entropy payloads (pkg/protocol/low_entropy.go) with   *)
(* the bit operations it uses (pkg/mathext/bit.go).  A word is the set of  *)
(* the positions of its one-bits, 0 to 63; a byte a subset of 0 .. 7; a    *)
(* half mask a subset of 0 .. 31.                                          *)
(***************************************************************************)
EXTENDS Integers, Sequences, FiniteSets

lowEntropyChunkLen == 8
Word == 0 .. 63

\* buildLowEntropyParams, for LOW_ENTROPY_MODE_32 (1) to LOW_ENTROPY_MODE_56 (4).
sourceBytesPerChunk(mode) == 3 + mode
halfMaskOnes(mode) == 4 * sourceBytesPerChunk(mode)

RepeatUint32(v) == v \cup {p + 32 : p \in v}
RotateLeft(word, k) == {(p + k) % 64 : p \in word}
lowBits(n) == {p \in Word : p < n}

\* The number of mask bits below p.
Rank(mask, p) == Cardinality({q \in mask : q < p})

PDEP(x, mask) == {p \in mask : Rank(mask, p) \in x}
PEXT(x, mask) == {Rank(mask, p) : p \in x \cap mask}

-----------------------------------------------------------------------------

\* Values 1 to 15 rotate to the right, multiples of 16 up to 240 to the left.
isValidLowEntropyRotation(rotation) ==
    \/ rotation \in 0 .. 15
    \/ rotation \in 16 .. 240 /\ rotation % 16 = 0

rotateLowEntropyMask(mask, rotation, chunkIndex) ==
    IF rotation <= 15 THEN RotateLeft(mask, -((chunkIndex % 64) * rotation))
    ELSE RotateLeft(mask, (chunkIndex % 64) * (rotation \div 16))

ValidParams(mode, halfMask, rotation) ==
    /\ mode \in 1 .. 4
    /\ Cardinality(halfMask) = halfMaskOnes(mode)
    /\ isValidLowEntropyRotation(rotation)

chunkCount(n, mode) == (n + sourceBytesPerChunk(mode) - 1) \div sourceBytesPerChunk(mode)

\* How many of n bytes are in chunk i, from 0.
sourceLen(n, mode, i) ==
    LET left == n - i * sourceBytesPerChunk(mode)
    IN IF left < sourceBytesPerChunk(mode) THEN left ELSE sourceBytesPerChunk(mode)

\* Mutant: the bytes of a short chunk start where those of a full one would.
BytesLeftAligned(bytes, mode) ==
    UNION {{8 * (sourceBytesPerChunk(mode) - j) + b : b \in bytes[j]} : j \in DOMAIN bytes}

\* The bytes of a chunk as a big-endian number, and back.
BytesToWord(bytes, mode) == UNION {{8 * (Len(bytes) - j) + b : b \in bytes[j]} : j \in DOMAIN bytes}
WordToBytes(word, len) == [j \in 1 .. len |-> {b \in 0 .. 7 : 8 * (len - j) + b \in word}]

dataMask(len, mask) == PDEP(lowBits(len * 8), mask)

\* encodeLowEntropyPayloadWithPaddingBit: one word for each chunk.
encodeLowEntropyPayload(src, mode, halfMask, rotation, paddingBit) ==
    [c \in 1 .. chunkCount(Len(src), mode) |->
        LET len == sourceLen(Len(src), mode, c - 1)
            first == (c - 1) * sourceBytesPerChunk(mode)
            mask == rotateLowEntropyMask(RepeatUint32(halfMask), rotation, c - 1)
            chunk == PDEP(BytesToWord(SubSeq(src, first + 1, first + len), mode), mask)
        IN IF paddingBit = 1 THEN chunk \cup (Word \ dataMask(len, mask)) ELSE chunk]

\* The polarity is that of the first chunk, and the same in every other.
Uniform(paddings, masks) ==
    /\ paddings[1] \in {{}, masks[1]}
    /\ \A c \in DOMAIN paddings : paddings[c] = IF paddings[1] = {} THEN {} ELSE masks[c]

\* An error; no payload is empty.
Refused == << >>

\* decodeLowEntropyPayload: the bytes, or an error.
decodeLowEntropyPayload(encoded, n, mode, halfMask, rotation) ==
    LET mask(c) == rotateLowEntropyMask(RepeatUint32(halfMask), rotation, c - 1)
        paddingMask == [c \in DOMAIN encoded |-> Word \ dataMask(sourceLen(n, mode, c - 1), mask(c))]
        padding == [c \in DOMAIN encoded |-> encoded[c] \cap paddingMask[c]]
        decoded == [c \in DOMAIN encoded |-> WordToBytes(PEXT(encoded[c], mask(c)), sourceLen(n, mode, c - 1))]
    IN IF ~ValidParams(mode, halfMask, rotation) \/ Len(encoded) # chunkCount(n, mode) THEN Refused
       ELSE IF ~Uniform(padding, paddingMask) THEN Refused
       ELSE [j \in 1 .. n |->
                decoded[(j - 1) \div sourceBytesPerChunk(mode) + 1][((j - 1) % sourceBytesPerChunk(mode)) + 1]]

-----------------------------------------------------------------------------
(* Properties of a sample [src, mode, halfMask, rotation, bit].            *)

Code(s) == encodeLowEntropyPayload(s.src, s.mode, s.halfMask, s.rotation, s.bit)
Decode(s, encoded) == decodeLowEntropyPayload(encoded, Len(s.src), s.mode, s.halfMask, s.rotation)

\* The peer gets back the bytes, whatever the mode, the mask, its rotation and the
\* polarity of the padding, also when the last chunk is short.
RoundTrips(s) == Decode(s, Code(s)) = s.src

\* Each bit of the encoded form matters: when the bit at `at` of chunk c is turned
\* over, the payload is refused or is not the same any more.
EveryBitMatters(s, c, at) ==
    LET encoded == Code(s)
        changed == IF at \in encoded[c] THEN [encoded EXCEPT ![c] = @ \ {at}] ELSE [encoded EXCEPT ![c] = @ \cup {at}]
    IN Decode(s, changed) # s.src
=============================================================================
