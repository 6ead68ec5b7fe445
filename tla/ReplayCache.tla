----------------------------- MODULE ReplayCache -----------------------------
(***************************************************************************)
(* The replay cache (pkg/replay/replay.go): two replayMaps of packet      *)
(* signatures with their tags, rotated by size and by time.  Each method   *)
(* runs under c.mu and is one action.  A signature stands for the data it  *)
(* is computed from.                                                       *)
(***************************************************************************)
EXTENDS Integers, FiniteSets

CONSTANTS
    Signatures,       \* the signatures of the packets that arrive
    Tags,             \* network addresses used as tags
    Capacity,         \* c.capacity; the cache is disabled when it is 0
    ExpireInterval,   \* c.expireInterval, in ticks
    MaxReplayTime           \* bound on the clock

EmptyTag == ""
Absent == "absent"
Never == -1
AnyTag == Tags \cup {EmptyTag}

\* A packet's tag is not one of the two markers.
ASSUME ReplayAssumption ==
    /\ Capacity \in Nat /\ ExpireInterval \in Nat
    /\ IsFiniteSet(Signatures)
    /\ Absent \notin AnyTag /\ EmptyTag \notin Tags

VARIABLES
    time,          \* c.clock
    current,      \* c.current: Signatures -> tag, or Absent
    previous,     \* c.previous
    expireTime,   \* c.expireTime
    last,         \* history: Signatures -> when it last arrived since Clear
    since,        \* history: Signatures -> the ones that arrived after it
    tags          \* history: Signatures -> the tags it arrived with

replayMaps == <<current, previous, expireTime>>
replayHistory == <<last, since, tags>>
replayVars == <<time, replayMaps, replayHistory>>

EmptyMap == [s \in Signatures |-> Absent]
Entries(map) == {s \in Signatures : map[s] # Absent}

\* NewCache.
ReplayInit ==
    /\ time = 0
    /\ current = EmptyMap
    /\ previous = EmptyMap
    /\ expireTime = time + ExpireInterval
    /\ last = [s \in Signatures |-> Never]
    /\ since = [s \in Signatures |-> {}]
    /\ tags = [s \in Signatures |-> {}]

-----------------------------------------------------------------------------
(* The cache as IsDuplicate finds it after expiry and rotation.            *)

BothExpired == time - expireTime > ExpireInterval

CurrentFull == Cardinality(Entries(current)) >= Capacity

TimeToRotate == time > expireTime
Rotates == ~BothExpired /\ (CurrentFull \/ TimeToRotate)

CurrentNow == IF BothExpired \/ Rotates THEN EmptyMap ELSE current
PreviousNow == IF BothExpired THEN EmptyMap ELSE IF Rotates THEN current ELSE previous
ExpireTimeNow == IF BothExpired \/ Rotates THEN time + ExpireInterval ELSE expireTime

\* The tag under which s is known.
Known(s) == IF CurrentNow[s] # Absent THEN CurrentNow[s] ELSE PreviousNow[s]

\* What IsDuplicate returns for a packet with signature s and the given tag.
Duplicate(s, tag) ==
    /\ Capacity # 0
    /\ Known(s) # Absent
    /\ Known(s) = EmptyTag \/ tag = EmptyTag \/ Known(s) # tag

StoreIfNew(s, tag) ==
    current' = IF Known(s) = Absent THEN [CurrentNow EXCEPT ![s] = tag] ELSE CurrentNow

\* A signature that is only in the previous generation is stored in the current one too.
Store(s, tag) ==
    current' = IF CurrentNow[s] = Absent THEN [CurrentNow EXCEPT ![s] = tag] ELSE CurrentNow

IsDuplicate(s, tag) ==
    /\ IF Capacity = 0
       THEN UNCHANGED replayMaps
       ELSE /\ Store(s, tag)
            /\ previous' = PreviousNow
            /\ expireTime' = ExpireTimeNow
    /\ last' = [last EXCEPT ![s] = time]
    /\ since' = [x \in Signatures |-> IF x = s THEN {} ELSE since[x] \cup {s}]
    /\ tags' = [tags EXCEPT ![s] = @ \cup {tag}]
    /\ UNCHANGED time

\* expireTime is left alone.
Clear ==
    /\ current' = EmptyMap
    /\ previous' = EmptyMap
    /\ last' = [s \in Signatures |-> Never]
    /\ since' = [s \in Signatures |-> {}]
    /\ tags' = [s \in Signatures |-> {}]
    /\ UNCHANGED <<time, expireTime>>

ReplayTick ==
    /\ time < MaxReplayTime
    /\ time' = time + 1
    /\ UNCHANGED <<replayMaps, replayHistory>>

ReplayNext ==
    \/ \E s \in Signatures, tag \in AnyTag : IsDuplicate(s, tag)
    \/ Clear
    \/ ReplayTick

ReplaySpec == ReplayInit /\ [][ReplayNext]_replayVars

-----------------------------------------------------------------------------
(* Properties.                                                             *)

Recent(s) ==
    /\ last[s] # Never
    /\ time - last[s] <= ExpireInterval
    /\ Cardinality(since[s]) < Capacity

\* The horizon of the cache: a packet is reported when it arrived at most
\* ExpireInterval ago and fewer than Capacity others have arrived since, however
\* rotation by size, rotation by time, expiry of both generations and Clear fall.
Remembered == \A s \in Signatures : Recent(s) => Duplicate(s, EmptyTag)

\* Nothing is remembered for more than three intervals: the one in which it
\* arrived, one that passes before a call rotates, and one as previous generation.
Forgotten ==
    \A s \in Signatures, tag \in AnyTag :
        time - last[s] > 3 * ExpireInterval => ~Duplicate(s, tag)

\* A packet that has not arrived before, or only with the same tag, is not
\* reported: "This can allow retransmit exact content from the same network address".
NoFalseDuplicate ==
    \A s \in Signatures, tag \in Tags : tags[s] \subseteq {tag} => ~Duplicate(s, tag)

\* What IsDuplicate answers is right in each of these ways.
AnswersRight == Remembered /\ Forgotten /\ NoFalseDuplicate
=============================================================================
