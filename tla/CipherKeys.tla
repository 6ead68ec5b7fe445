----------------------------- MODULE CipherKeys -----------------------------
(***************************************************************************)
(* Keys that change with time: the cache of derived ciphers in each        *)
(* process (pkg/cipher/cache.go, keygen.go, api.go), the expiry of a       *)
(* client's packet underlay (NewPacketUnderlay, ScheduleController), the   *)
(* time in the metadata, and the decryption of a new session's first       *)
(* segment by the server, whose clock differs.  The password is one and    *)
(* the same, so a key is known by its time.                                *)
(*                                                                         *)
(* Time is in units of 10 seconds.  Delays are bounded: dialling with its  *)
(* key, the first write of a session, the network and the decryption take  *)
(* at most MaxDelay each.                                                  *)
(***************************************************************************)
EXTENDS Integers, FiniteSets

CONSTANTS
    Dialers,    \* calls of newUnderlay on the client
    Receivers,  \* packet underlays of the server
    Starts,     \* when a behaviour starts
    Skews,      \* the server's clock minus the client's
    MaxDelay,   \* bound of each delay
    MaxOpens,   \* bound: sessions on an underlay
    Horizon     \* bound: how long a behaviour is

KeyRefreshInterval == 12
Minute == 6
cacheValidInterval == KeyRefreshInterval \div 4

VARIABLES
    start, skew,  \* never change
    now,          \* the client's clock
    cache,        \* process -> blockCipherCache
    decryptor,    \* StatelessDecryptor.ciphers of the user at the server
    call,         \* caller -> a call that needs ciphers
    underlay,     \* dialer -> its packet underlay
    refused       \* receiver -> the reason the last segment was dropped

keyVars == <<start, skew, now, cache, decryptor, call, underlay, refused>>

Callers == Dialers \cup Receivers
Process(c) == IF c \in Dialers THEN "client" ELSE "server"
Clock(c) == IF c \in Dialers THEN now ELSE now + skew

\* t.Round(KeyRefreshInterval), and the unit of the time in the metadata.
cipherKeyEpoch(t) == (t + KeyRefreshInterval \div 2) \div KeyRefreshInterval
Minutes(t) == t \div Minute

\* saltFromTime: the rounded time, the one before and the one after.
saltFromTime(t) == {cipherKeyEpoch(t) - 1, cipherKeyEpoch(t), cipherKeyEpoch(t) + 1}

NoEntry == [epoch |-> -1, createTime |-> 0, keys |-> {}]
newBlockCipherList(t) == [epoch |-> cipherKeyEpoch(t), createTime |-> t, keys |-> saltFromTime(t)]

Idle == [pc |-> "idle", t |-> 0, entry |-> NoEntry, since |-> 0, key |-> 0, stamp |-> 0]

Goto(c, pc, entry) == call' = [call EXCEPT ![c].pc = pc, ![c].entry = entry]

-----------------------------------------------------------------------------
(* getCachedCiphers.                                                       *)

\* Mutant: an entry is good for its age alone.
FreshByAge(entry, t) == entry # NoEntry /\ t - entry.createTime < cacheValidInterval

\* The entry is of this epoch; near the end of its time the jitter decides.
MayBeFresh(entry, t) ==
    /\ entry # NoEntry
    /\ entry.epoch = cipherKeyEpoch(t)
    /\ t - entry.createTime <= cacheValidInterval
MayBeStale(entry, t) ==
    \/ entry = NoEntry
    \/ entry.epoch # cipherKeyEpoch(t)
    \/ t - entry.createTime >= cacheValidInterval

Lookup(c) ==
    /\ call[c].pc = "lookup"
    /\ \/ MayBeFresh(cache[Process(c)], call[c].t) /\ Goto(c, "have", cache[Process(c)])
       \/ MayBeStale(cache[Process(c)], call[c].t) /\ Goto(c, "store", newBlockCipherList(call[c].t))
    /\ UNCHANGED <<start, skew, now, cache, decryptor, underlay, refused>>

\* Whoever stores last wins, also with an entry that is older.
Store(c) ==
    /\ call[c].pc = "store"
    /\ cache' = [cache EXCEPT ![Process(c)] = call[c].entry]
    /\ Goto(c, "have", call[c].entry)
    /\ UNCHANGED <<start, skew, now, decryptor, underlay, refused>>

-----------------------------------------------------------------------------
(* The client.                                                             *)

NoUnderlay == [key |-> -1, disableTime |-> 0, opens |-> 0]

\* BlockCipherFromPassword takes the time.
Dial(d) ==
    /\ call[d].pc = "idle"
    /\ underlay[d] = NoUnderlay
    /\ call' = [call EXCEPT ![d] = [Idle EXCEPT !.pc = "lookup", !.t = now, !.since = now]]
    /\ UNCHANGED <<start, skew, now, cache, decryptor, underlay, refused>>

\* NewPacketUnderlay: the key in the middle, and SetRemainingTime.
NewPacketUnderlay(d) ==
    /\ call[d].pc = "have"
    /\ underlay' = [underlay EXCEPT ![d].key = call[d].entry.epoch,
                                    ![d].disableTime = now + KeyRefreshInterval \div 2]
    /\ call' = [call EXCEPT ![d] = Idle]
    /\ UNCHANGED <<start, skew, now, cache, decryptor, refused>>

\* IncPending for a new session, which is opened with the key of the underlay.
Schedule(d) ==
    /\ call[d].pc = "idle"
    /\ underlay[d] # NoUnderlay
    /\ now <= underlay[d].disableTime
    /\ underlay[d].opens < MaxOpens
    /\ underlay' = [underlay EXCEPT ![d].opens = @ + 1]
    /\ call' = [call EXCEPT ![d] = [Idle EXCEPT !.pc = "open", !.since = now]]
    /\ UNCHANGED <<start, skew, now, cache, decryptor, refused>>

\* writeOneSegment of the open request, and its way to a receiver that is free.
Open(d) ==
    /\ call[d].pc = "open"
    /\ call' = [call EXCEPT ![d] = [Idle EXCEPT !.pc = "sent", !.since = now, !.key = underlay[d].key,
                                                !.stamp = Minutes(now)]]
    /\ UNCHANGED <<start, skew, now, cache, decryptor, underlay, refused>>

-----------------------------------------------------------------------------
(* The server.                                                             *)

\* ReadFrom, then tryDecryptAt takes the time.  Receivers and their underlays
\* share the decryptor of the user.
Arrive(d, r) ==
    /\ call[d].pc = "sent"
    /\ call[r].pc = "idle"
    /\ LET t == Clock(r)
           known == decryptor # NoEntry /\ decryptor.epoch = cipherKeyEpoch(t)
       IN call' = [call EXCEPT ![d] = Idle,
                       ![r] = [Idle EXCEPT !.pc = IF known THEN "decrypt" ELSE "lookup",
                                           !.t = t, !.since = now, !.entry = IF known THEN decryptor ELSE NoEntry,
                                           !.key = call[d].key, !.stamp = call[d].stamp]]
    /\ UNCHANGED <<start, skew, now, cache, decryptor, underlay, refused>>

\* d.ciphers.Store.
Remember(r) ==
    /\ call[r].pc = "have"
    /\ decryptor' = call[r].entry
    /\ Goto(r, "decrypt", call[r].entry)
    /\ UNCHANGED <<start, skew, now, cache, underlay, refused>>

\* WithinRange(currentTimestamp, originalTimestamp, 1).
TimestampValid(t, stamp) == Minutes(t) - stamp \in -1 .. 1

\* selectDecryptStateless, then Unmarshal of the metadata, which reads the clock.
Decrypt(r) ==
    /\ call[r].pc = "decrypt"
    /\ refused' = [refused EXCEPT ![r] = IF call[r].key \notin call[r].entry.keys THEN "key"
                                         ELSE IF ~TimestampValid(Clock(r), call[r].stamp) THEN "timestamp"
                                         ELSE "no"]
    /\ call' = [call EXCEPT ![r] = Idle]
    /\ UNCHANGED <<start, skew, now, cache, decryptor, underlay>>

Pass ==
    /\ now < start + Horizon
    /\ \A c \in Callers : call[c].pc # "idle" => now - call[c].since < MaxDelay
    /\ now' = now + 1
    /\ UNCHANGED <<start, skew, cache, decryptor, call, underlay, refused>>

KeysInit ==
    /\ start \in Starts /\ skew \in Skews
    /\ now = start
    /\ cache = [p \in {"client", "server"} |-> NoEntry]
    /\ decryptor = NoEntry
    /\ call = [c \in Callers |-> Idle]
    /\ underlay = [d \in Dialers |-> NoUnderlay]
    /\ refused = [r \in Receivers |-> "no"]

KeysNext ==
    \/ \E c \in Callers : Lookup(c) \/ Store(c)
    \/ \E d \in Dialers : Dial(d) \/ NewPacketUnderlay(d) \/ Schedule(d) \/ Open(d)
    \/ \E d \in Dialers, r \in Receivers : Arrive(d, r)
    \/ \E r \in Receivers : Remember(r) \/ Decrypt(r)
    \/ Pass

-----------------------------------------------------------------------------
(* Properties.                                                             *)

\* A session that a client opens on an underlay that it may still use is not
\* refused by a server whose clock is close enough, whenever in an interval the
\* key was made, and also when concurrent callers have left an older entry in the
\* cache (getCachedCiphers, NewPacketUnderlay, tryDecryptAt, Unmarshal).
FirstSegmentAccepted == \A r \in Receivers : refused[r] = "no"
=============================================================================
