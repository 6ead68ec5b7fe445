--------------------------- MODULE TrafficPattern ---------------------------
(***************************************************************************)
(* Traffic patterns (apis/trafficpattern/config.go): which patterns are    *)
(* valid, how the fields that are not set are generated, and how many      *)
(* bytes of a nonce the cipher rewrites (pkg/cipher/cipher.go).            *)
(*                                                                         *)
(* A pattern is [unlockAll, fragment : [enable, maxSleepMs],               *)
(* nonce : [type, applyToAll, minLen, maxLen, custom],                     *)
(* padding : [middle, end], lowEntropy : [mode, rotation]]; its fields are *)
(* optional, except custom: the lengths of the custom prefixes, -1 for a   *)
(* text that is not hexadecimal.  A message that is not set has all its    *)
(* fields not set.                                                         *)
(***************************************************************************)
EXTENDS ConfigCommon, FiniteSets

NonceSize == 24        \* cipher.DefaultNonceSize
MaxPaddingLen == 255
Modes == 0 .. 4        \* appctlpb.LowEntropyMode_name
Rotations == 0 .. 15 \cup {16 * n : n \in 1 .. 15}  \* appctlpb.LowEntropyMaskRotation_name

\* The value of an optional field, as a set that is empty when it is not set.
ValueOf(field) == {field[i] : i \in DOMAIN field}

validateTCPFragment(f) == \A ms \in ValueOf(f.maxSleepMs) : ms \in 0 .. 100

validateNoncePattern(n) ==
    /\ \A len \in ValueOf(n.minLen) : len \in 0 .. 12
    /\ \A len \in ValueOf(n.maxLen) : len \in 0 .. 12
    /\ n.minLen # << >> /\ n.maxLen # << >> => n.minLen[1] <= n.maxLen[1]
    /\ \A i \in DOMAIN n.custom : n.custom[i] \in 0 .. 12

validatePaddingPattern(p) ==
    /\ \A len \in ValueOf(p.middle) : len \in 0 .. MaxPaddingLen
    /\ \A len \in ValueOf(p.end) : len \in 0 .. MaxPaddingLen

validateLowEntropyPattern(l) ==
    /\ \A mode \in ValueOf(l.mode) : mode \in Modes
    /\ \A rotation \in ValueOf(l.rotation) : rotation \in Rotations

Validate(pattern) ==
    /\ validateTCPFragment(pattern.fragment)
    /\ validateNoncePattern(pattern.nonce)
    /\ validatePaddingPattern(pattern.padding)
    /\ validateLowEntropyPattern(pattern.lowEntropy)

-----------------------------------------------------------------------------
(* The effective pattern.  rng.FixedInt(n, hint) depends on the seed and   *)
(* the hint; draw maps each hint to a number that FixedInt reduces.        *)

FixedInt(draw, n, hint) == draw[hint] % n

generateTCPFragment(f, draw, unlockAll) ==
    [enable |-> <<Get(f.enable, unlockAll /\ FixedInt(draw, 2, "enable") = 1)>>,
     maxSleepMs |-> <<Get(f.maxSleepMs, IF unlockAll THEN FixedInt(draw, 100, "maxSleepMs") + 1 ELSE 0)>>]

\* The type NONCE_TYPE_FIXED (3) is never generated.
generateNoncePattern(n, draw, unlockAll) ==
    LET minLen == Get(n.minLen, IF unlockAll THEN FixedInt(draw, 13, "minLen")
                                             ELSE FixedInt(draw, 7, "minLen") + 6)
    IN [type |-> <<Get(n.type, IF unlockAll THEN FixedInt(draw, 3, "type") ELSE FixedInt(draw, 2, "type") + 1)>>,
        applyToAll |-> <<Get(n.applyToAll, FixedInt(draw, 2, "applyToAll") = 1)>>,
        minLen |-> <<minLen>>,
        maxLen |-> <<Get(n.maxLen, minLen + FixedInt(draw, 13 - minLen, "maxLen"))>>,
        custom |-> n.custom]

generatePaddingPattern(p, draw, unlockAll) ==
    LET middle == FixedInt(draw, MaxPaddingLen + 1, "middle") - 128
    IN [middle |-> <<Get(p.middle, IF middle <= 0 THEN 0 ELSE middle)>>,
        end |-> <<Get(p.end, IF unlockAll THEN FixedInt(draw, MaxPaddingLen + 1, "end") ELSE MaxPaddingLen)>>]

generateLowEntropyPattern(l, draw, unlockAll) ==
    LET i == FixedInt(draw, Cardinality(Rotations), "rotation")
    IN [mode |-> <<Get(l.mode, IF unlockAll THEN FixedInt(draw, Cardinality(Modes), "mode") ELSE 0)>>,
        rotation |-> <<Get(l.rotation, IF i <= 15 THEN i ELSE (i - 15) * 16)>>]

Effective(pattern, draw) ==
    LET unlockAll == Get(pattern.unlockAll, FALSE)
    IN [unlockAll |-> pattern.unlockAll,
        fragment |-> generateTCPFragment(pattern.fragment, draw, unlockAll),
        nonce |-> generateNoncePattern(pattern.nonce, draw, unlockAll),
        padding |-> generatePaddingPattern(pattern.padding, draw, unlockAll),
        lowEntropy |-> generateLowEntropyPattern(pattern.lowEntropy, draw, unlockAll)]

\* aeadBlockCipher.nonceRewriteLen: how many bytes may be rewritten.
nonceRewriteLen(nonce) ==
    LET maxLen == IF nonce.maxLen[1] > NonceSize THEN NonceSize ELSE nonce.maxLen[1]
        minLen == IF nonce.minLen[1] > maxLen THEN maxLen ELSE nonce.minLen[1]
    IN minLen .. maxLen

=============================================================================
