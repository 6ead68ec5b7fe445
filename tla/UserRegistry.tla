---------------------------- MODULE UserRegistry ----------------------------
(***************************************************************************)
(* The server's user registry and its source-to-user cache                 *)
(* (pkg/protocol/serveruser): concurrent discoveries of the user behind a  *)
(* first message, lock-free lookups and locked updates of the cache, and   *)
(* SetUsers, which replaces the generation of users they work on.  All     *)
(* sources share one bucket of the cache.  Counters of cache activity are  *)
(* left out.                                                               *)
(***************************************************************************)
EXTENDS Integers, FiniteSets, Sequences

CONSTANTS
    UserMaps,        \* the arguments of successive calls of SetUsers: sets of user records
    Messages,        \* what Discover is called with
    Discoverers,     \* the goroutines that call Discover
    MaxNameLen,      \* constant.MaxUserNameLen; a name is its length
    Ways, Slots,     \* sourceUserCacheWays, sourceUserCacheUsers
    Life,            \* sourceUserCacheLifeSeconds
    TickModulus,     \* 2^32: ticks are uint32
    FirstTick,       \* the tick at which the observation starts
    MaxTime,         \* bound: ticks observed
    MaxEntries,      \* bound: cache entries ever allocated
    MaxCalls         \* bound: calls of Discover

NoSource == 0    \* a zero Source
NoUser == 0      \* user ID 0 is reserved
NoEntry == 0     \* a nil *sourceUserCacheEntry

ASSUME RegistryAssumption ==
    /\ {Ways, Slots, Life} \subseteq Nat \ {0}
    /\ {TickModulus, FirstTick, MaxTime} \subseteq Nat
    /\ Life + MaxTime < TickModulus
    /\ Len(UserMaps) \in Nat /\ \A i \in 1 .. Len(UserMaps) : IsFiniteSet(UserMaps[i])

VARIABLES
    generations,   \* the states published so far; the last one is current
    hintMandatory, \* Registry.hintMandatory
    table,         \* generation -> its cache's table is attached
    ways,          \* generation -> the bucket: the entry of each way
    lock,          \* generation -> who holds the lock of the bucket
    entries,       \* the heap of sourceUserCacheEntry
    now,           \* ticks since the observation started
    call,          \* Discoverers -> position and locals of Discover and Record
    calls,         \* history: calls of Discover
    authenticated, \* history: [gen, key, id] that Discover returned
    seen           \* history: [gen, key, id, time] that Record stored

registryVars == <<generations, hintMandatory>>
cacheVars == <<table, ways, lock, entries>>
historyVars == <<calls, authenticated, seen>>
vars == <<registryVars, cacheVars, now, call, historyVars>>

Tick == 0 .. TickModulus - 1
Generation == 1 .. Len(generations)
Empty == [id |-> NoUser, tick |-> 0]   \* an unused slot

\* The locals of a goroutine that is not in Discover or Record.
Idle == [pc |-> "idle", message |-> CHOOSE m \in Messages : TRUE, generation |-> 0,
         mandatory |-> FALSE, tick |-> 0, at |-> 1, entry |-> NoEntry, cached |-> << >>, user |-> NoUser]

TypeOK ==
    /\ generations \in Seq(Seq([name : 1 .. MaxNameLen, credential : Seq(Nat)]))
    /\ hintMandatory \in BOOLEAN
    /\ table \in [Generation -> BOOLEAN]
    /\ ways \in [Generation -> [1 .. Ways -> 0 .. Len(entries)]]
    /\ lock \in [Generation -> SUBSET Discoverers]
    /\ entries \in Seq([key : Nat \ {NoSource}, lastActive : Tick, users : [1 .. Slots -> [id : Nat, tick : Tick]]])
    /\ now \in 0 .. MaxTime
    /\ DOMAIN call = Discoverers
    /\ \A d \in Discoverers :
          /\ call[d].pc \in {"idle", "load", "lookup", "way", "slot", "try", "returned", "lock", "store", "active"}
          /\ call[d].message \in Messages
          /\ call[d].generation \in 0 .. Len(generations) /\ call[d].mandatory \in BOOLEAN
          /\ call[d].tick \in Tick /\ call[d].at \in 1 .. Ways + Slots
          /\ call[d].entry \in 0 .. Len(entries)
          /\ call[d].cached \in Seq([id : Nat, age : Int]) /\ Len(call[d].cached) <= Slots
          /\ call[d].user \in Nat

Init ==
    /\ generations = << >> /\ hintMandatory \in BOOLEAN
    /\ table = << >> /\ ways = << >> /\ lock = << >> /\ entries = << >>
    /\ now = 0
    /\ call = [d \in Discoverers |-> Idle]
    /\ calls = 0 /\ authenticated = {} /\ seen = {}

-----------------------------------------------------------------------------
(* Compiling a user map.  A credential is a pair <<password, salt>>, where *)
(* the salt is the user's name; a hashed password is such a pair, or       *)
(* <<0>> if it is not the hex form of a hash; 0 and << >> are empty.       *)

HashPassword(password, name) == <<password, name>>

\* << >> is the error result.
Credential(u) ==
    CASE u.hashed # << >> -> IF Len(u.hashed) = 2 THEN u.hashed ELSE << >>
      [] u.hashed = << >> /\ u.password = 0 -> << >>
      [] OTHER -> HashPassword(u.password, u.name)

Usable(u, users) ==
    /\ u.name \in 1 .. MaxNameLen
    /\ \A v \in users : v.name = u.name => v = u
    /\ Credential(u) # << >>

\* The ID of a user is its place in the order of the names.
BuildState(users) ==
    LET usable == {u \in users : Usable(u, users)}
        At(i) == CHOOSE u \in usable : Cardinality({v \in usable : v.name < u.name}) = i - 1
    IN [i \in 1 .. Cardinality(usable) |-> [name |-> At(i).name, credential |-> Credential(At(i))]]

Current == Len(generations)

\* The swap of the published state; the old table is detached afterwards.
SetUsers ==
    /\ Current < Len(UserMaps)
    /\ generations' = Append(generations, BuildState(UserMaps[Current + 1]))
    /\ table' = Append(table, TRUE)
    /\ ways' = Append(ways, [w \in 1 .. Ways |-> NoEntry])
    /\ lock' = Append(lock, {})
    /\ UNCHANGED <<hintMandatory, entries, now, call, historyVars>>

Retire(g) ==
    /\ g < Current /\ table[g]
    /\ table' = [table EXCEPT ![g] = FALSE]
    /\ UNCHANGED <<registryVars, ways, lock, entries, now, call, historyVars>>

SetHintMandatory ==
    /\ hintMandatory' = ~hintMandatory
    /\ UNCHANGED <<generations, cacheVars, now, call, historyVars>>

Pass ==
    /\ now < MaxTime
    /\ now' = now + 1
    /\ UNCHANGED <<registryVars, cacheVars, call, historyVars>>

-----------------------------------------------------------------------------
(* Age of a tick.                                                          *)

CurrentTick == (FirstTick + now) % TickModulus

SignedAge(t, then) == t - then

Age(t, then) == (t - then) % TickModulus

Expired(t, then) == Age(t, then) >= Life

-----------------------------------------------------------------------------
(* The candidates, in the order in which tryState tries them.  A message   *)
(* carries the credential it is encrypted with and the set of names that   *)
(* its hint matches.                                                       *)

Hinted(users, m, i) == users[i].name \in m.hint

\* tryUser
Decrypts(users, m, i) == users[i].credential = m.credential

FirstOf(indices) == CHOOSE i \in indices : \A j \in indices : i <= j

\* One of the loops of tryState: the first user that decrypts, of those whose
\* names match the hint or of the others.  userByID drops an ID that is not
\* one of this generation.
FirstMatch(users, ids, m, hinted) ==
    LET hits == {k \in DOMAIN ids : /\ ids[k] \in DOMAIN users
                                    /\ Hinted(users, m, ids[k]) <=> hinted
                                    /\ Decrypts(users, m, ids[k])}
    IN IF hits = {} THEN NoUser ELSE ids[FirstOf(hits)]

TryCachedFirst(users, ids, m, isMandatory) ==
    LET registry == [i \in DOMAIN users |-> i]
        cachedHint == FirstMatch(users, ids, m, TRUE)
        registryHint == FirstMatch(users, registry, m, TRUE)
        cachedFallback == FirstMatch(users, ids, m, FALSE)
        registryFallback == FirstMatch(users, registry, m, FALSE)
    IN CASE cachedHint # NoUser -> cachedHint
         [] cachedHint = NoUser /\ ~isMandatory /\ cachedFallback # NoUser -> cachedFallback
         [] cachedHint = NoUser /\ (isMandatory \/ cachedFallback = NoUser) /\ registryHint # NoUser -> registryHint
         [] OTHER -> IF isMandatory THEN NoUser ELSE registryFallback

TryState(users, ids, m, isMandatory) ==
    LET registry == [i \in DOMAIN users |-> i]
        cachedHint == FirstMatch(users, ids, m, TRUE)
        registryHint == FirstMatch(users, registry, m, TRUE)
        cachedFallback == FirstMatch(users, ids, m, FALSE)
        registryFallback == FirstMatch(users, registry, m, FALSE)
    IN CASE cachedHint # NoUser -> cachedHint
         [] cachedHint = NoUser /\ registryHint # NoUser -> registryHint
         [] cachedHint = NoUser /\ registryHint = NoUser /\ isMandatory -> NoUser
         [] OTHER -> IF cachedFallback # NoUser THEN cachedFallback ELSE registryFallback

-----------------------------------------------------------------------------
(* Discover.                                                               *)

Key(d) == call[d].message.source

Users(d) == generations[call[d].generation]

Bucket(d) == ways[call[d].generation]

LoadState(d, m) ==
    LET usable == Current > 0 /\ generations[Current] # << >>
        loaded == [Idle EXCEPT !.pc = IF m.source = NoSource THEN "try" ELSE "lookup",
                               !.message = m, !.generation = Current, !.mandatory = hintMandatory]
    IN /\ call' = [call EXCEPT ![d] = IF usable THEN loaded ELSE Idle]
       /\ UNCHANGED <<registryVars, cacheVars, now, authenticated, seen>>

Discover(d, m) ==
    /\ call[d].pc = "idle" /\ calls < MaxCalls
    /\ calls' = calls + 1
    /\ LoadState(d, m)

Retry(d) ==
    /\ call[d].pc = "load"
    /\ LoadState(d, call[d].message)
    /\ UNCHANGED calls

\* The table is loaded once.
LookupTable(d) ==
    /\ call[d].pc = "lookup"
    /\ call' = [call EXCEPT ![d].pc = IF table[call[d].generation] THEN "way" ELSE "try",
                            ![d].tick = CurrentTick]
    /\ UNCHANGED <<registryVars, cacheVars, now, historyVars>>

\* One way of the bucket, and lastActive of the entry that matches.
LookupWay(d) ==
    LET c == call[d]
        e == Bucket(d)[c.at]
        matches == e # NoEntry /\ entries[e].key = Key(d)
        stale == Expired(c.tick, entries[e].lastActive)
    IN /\ c.pc = "way"
       /\ \/ /\ matches /\ ~stale
             /\ call' = [call EXCEPT ![d].pc = "slot", ![d].at = 1, ![d].entry = e]
          \/ /\ IF matches THEN stale ELSE c.at = Ways
             /\ call' = [call EXCEPT ![d].pc = "try", ![d].at = 1]
          \/ /\ ~matches /\ c.at < Ways
             /\ call' = [call EXCEPT ![d].at = @ + 1]
       /\ UNCHANGED <<registryVars, cacheVars, now, historyVars>>

\* Candidates with the slot added: each user once, with its smallest age.
AddCandidate(candidates, id, age) ==
    IF \E j \in DOMAIN candidates : candidates[j].id = id
    THEN [j \in DOMAIN candidates |->
             IF candidates[j].id = id /\ age < candidates[j].age
             THEN [candidates[j] EXCEPT !.age = age] ELSE candidates[j]]
    ELSE Append(candidates, [id |-> id, age |-> age])

\* The stable sort by age, as the set of its one result.
ByAge(candidates) ==
    LET Before(i, j) == \/ candidates[i].age < candidates[j].age
                        \/ candidates[i].age = candidates[j].age /\ i < j
        orders == {p \in [DOMAIN candidates -> DOMAIN candidates] :
                      \A i, j \in DOMAIN candidates : i < j => Before(p[i], p[j])}
    IN {[i \in DOMAIN candidates |-> candidates[p[i]]] : p \in orders}

LookupSlot(d) ==
    LET c == call[d]
        slot == entries[c.entry].users[c.at]
        found == IF slot.id = NoUser \/ Expired(c.tick, slot.tick) THEN c.cached
                 ELSE AddCandidate(c.cached, slot.id, Age(c.tick, slot.tick))
    IN /\ c.pc = "slot"
       /\ \/ c.at < Slots /\ call' = [call EXCEPT ![d].at = @ + 1, ![d].cached = found]
          \/ /\ c.at = Slots
             /\ \E sorted \in ByAge(found) :
                   call' = [call EXCEPT ![d].pc = "try", ![d].at = 1, ![d].cached = sorted]
       /\ UNCHANGED <<registryVars, cacheVars, now, historyVars>>

\* tryState works on data that never changes; then the published state is
\* loaded again if the caller requires the current generation.
Try(d) ==
    LET c == call[d]
        ids == [i \in DOMAIN c.cached |-> c.cached[i].id]
        found == TryState(Users(d), ids, c.message, c.mandatory)
        replaced == c.message.current /\ c.generation # Current
    IN /\ c.pc = "try"
       /\ call' = [call EXCEPT ![d] = IF replaced THEN [Idle EXCEPT !.pc = "load", !.message = c.message]
                                      ELSE [c EXCEPT !.pc = "returned", !.user = found]]
       /\ authenticated' = IF replaced \/ found = NoUser THEN authenticated
                           ELSE authenticated \cup {[gen |-> c.generation, key |-> Key(d), id |-> found]}
       /\ UNCHANGED <<registryVars, cacheVars, now, calls, seen>>

\* The caller reports the error, or drops a segment that is not valid.
Discard(d) ==
    /\ call[d].pc = "returned"
    /\ call' = [call EXCEPT ![d] = Idle]
    /\ UNCHANGED <<registryVars, cacheVars, now, historyVars>>

-----------------------------------------------------------------------------
(* Record, after the segment has been dispatched.                          *)

RecordInto(d, g) ==
    /\ call[d].pc = "returned" /\ call[d].user # NoUser
    /\ call' = [call EXCEPT ![d] = IF Key(d) = NoSource \/ ~table[g] THEN Idle
                                   ELSE [Idle EXCEPT !.pc = "lock", !.message = call[d].message,
                                                     !.generation = g, !.user = call[d].user]]
    /\ UNCHANGED <<registryVars, cacheVars, now, historyVars>>

RecordIntoCurrent(d) == RecordInto(d, Current)

Record(d) == RecordInto(d, call[d].generation)

Lock(d) ==
    /\ call[d].pc = "lock" /\ lock[call[d].generation] = {}
    /\ lock' = [lock EXCEPT ![call[d].generation] = {d}]
    /\ call' = [call EXCEPT ![d].pc = "store", ![d].tick = CurrentTick]
    /\ UNCHANGED <<registryVars, table, ways, entries, now, historyVars>>

\* The first index with the largest age.
Oldest(ages) ==
    CHOOSE i \in DOMAIN ages : \A j \in DOMAIN ages : ages[i] > ages[j] \/ (ages[i] = ages[j] /\ i <= j)

\* recordUser: the slot of the user, else an empty, an expired or the oldest.
SelectSlot(users, id, t) ==
    LET same == {i \in DOMAIN users : users[i].id = id}
        empty == {i \in DOMAIN users : users[i].id = NoUser}
        expired == {i \in DOMAIN users : Expired(t, users[i].tick)}
    IN CASE same # {} -> FirstOf(same)
         [] same = {} /\ empty # {} -> FirstOf(empty)
         [] same \cup empty = {} /\ expired # {} -> FirstOf(expired)
         [] OTHER -> Oldest([i \in DOMAIN users |-> Age(t, users[i].tick)])

SelectWay(bucket, t) ==
    LET empty == {w \in DOMAIN bucket : bucket[w] = NoEntry}
        expired == {w \in DOMAIN bucket : Expired(t, entries[bucket[w]].lastActive)}
    IN CASE empty # {} -> FirstOf(empty)
         [] empty = {} /\ expired # {} -> FirstOf(expired)
         [] OTHER -> Oldest([w \in DOMAIN bucket |-> Age(t, entries[bucket[w]].lastActive)])

MatchingWays(d) == {w \in 1 .. Ways : Bucket(d)[w] # NoEntry /\ entries[Bucket(d)[w]].key = Key(d)}

\* When the tick that call d works with was read.
TimeOf(d) == now - ((CurrentTick - call[d].tick) % TickModulus)

Remember(d) == seen' = seen \cup {[gen |-> call[d].generation, key |-> Key(d), id |-> call[d].user, time |-> TimeOf(d)]}

\* The key has an entry: its slot is stored first, lastActive afterwards.
StoreUser(d) ==
    LET e == Bucket(d)[FirstOf(MatchingWays(d))]
        slot == SelectSlot(entries[e].users, call[d].user, call[d].tick)
    IN /\ call[d].pc = "store" /\ MatchingWays(d) # {}
       /\ entries' = [entries EXCEPT ![e].users[slot] = [id |-> call[d].user, tick |-> call[d].tick]]
       /\ call' = [call EXCEPT ![d].pc = "active", ![d].entry = e]
       /\ Remember(d)
       /\ UNCHANGED <<registryVars, table, ways, lock, now, calls, authenticated>>

StoreActive(d) ==
    /\ call[d].pc = "active"
    /\ entries' = [entries EXCEPT ![call[d].entry].lastActive = call[d].tick]
    /\ lock' = [lock EXCEPT ![call[d].generation] = {}]
    /\ call' = [call EXCEPT ![d] = Idle]
    /\ UNCHANGED <<registryVars, table, ways, now, historyVars>>

\* The key has no entry: a new one is published in an empty, an expired or
\* the oldest way.
StoreEntry(d) ==
    LET g == call[d].generation
        first == [id |-> call[d].user, tick |-> call[d].tick]
        fresh == [key |-> Key(d), lastActive |-> call[d].tick,
                  users |-> [i \in 1 .. Slots |-> IF i = 1 THEN first ELSE Empty]]
    IN /\ call[d].pc = "store" /\ MatchingWays(d) = {} /\ Len(entries) < MaxEntries
       /\ entries' = Append(entries, fresh)
       /\ ways' = [ways EXCEPT ![g][SelectWay(Bucket(d), call[d].tick)] = Len(entries) + 1]
       /\ lock' = [lock EXCEPT ![g] = {}]
       /\ call' = [call EXCEPT ![d] = Idle]
       /\ Remember(d)
       /\ UNCHANGED <<registryVars, table, now, calls, authenticated>>

Next ==
    \/ SetUsers
    \/ \E g \in Generation : Retire(g)
    \/ SetHintMandatory
    \/ Pass
    \/ \E d \in Discoverers :
          \/ \E m \in Messages : Discover(d, m)
          \/ Retry(d) \/ LookupTable(d) \/ LookupWay(d) \/ LookupSlot(d) \/ Try(d) \/ Discard(d)
          \/ Record(d) \/ Lock(d) \/ StoreUser(d) \/ StoreActive(d) \/ StoreEntry(d)

Spec == Init /\ [][Next]_vars

-----------------------------------------------------------------------------
(* Properties.                                                             *)

\* The cache of a generation, and what a lookup has read from it, names a
\* user only for a source from which that user of that generation has been
\* authenticated: an authentication that a reload overtakes is never
\* recorded under the new generation, where its ID is another user
\* (recordAuthenticated).
CacheIsAuthentic ==
    /\ \A g \in Generation, w \in 1 .. Ways : ways[g][w] # NoEntry =>
          LET e == entries[ways[g][w]]
          IN \A i \in 1 .. Slots : e.users[i].id # NoUser =>
                [gen |-> g, key |-> e.key, id |-> e.users[i].id] \in authenticated
    /\ \A d \in Discoverers : \A i \in DOMAIN call[d].cached :
          [gen |-> call[d].generation, key |-> Key(d), id |-> call[d].cached[i].id] \in authenticated

\* Whatever the cache holds and whatever changes it during the lookup, the
\* user that Discover returns is one whom a search without a cache may
\* return: a user whose name matches the hint has precedence over all
\* others, and only a mandatory hint makes the search fail when some user
\* can decrypt (tryState).
IdentityPreserved ==
    \A d \in Discoverers : call[d].pc = "returned" =>
        LET able == {i \in DOMAIN Users(d) : Decrypts(Users(d), call[d].message, i)}
            hinted == {i \in able : Hinted(Users(d), call[d].message, i)}
            allowed == IF hinted # {} \/ call[d].mandatory THEN hinted ELSE able
        IN IF allowed = {} THEN call[d].user = NoUser ELSE call[d].user \in allowed

\* A candidate of a lookup was recorded for the source exactly as long ago
\* as the lookup believes, and within the life time of the cache, also when
\* the 32-bit tick wraps around in between (sourceUserCacheAge).
AgesAreTrue ==
    \A d \in Discoverers : call[d].pc \in {"slot", "try"} =>
        \A i \in DOMAIN call[d].cached :
            [gen |-> call[d].generation, key |-> Key(d), id |-> call[d].cached[i].id,
             time |-> TimeOf(d) - call[d].cached[i].age] \in seen

\* Unless an update is in progress, an association is found as long as it is
\* young and fewer than Slots other users of its source, and fewer than Ways
\* other sources, have been recorded since: eviction takes the least
\* recently used (recordUser, selectSourceUserCacheWay).
RecentlySeenKept ==
    \A s \in seen :
        LET since == {r \in seen : r.gen = s.gen /\ r.time >= s.time}
            otherUsers == {r.id : r \in {q \in since : q.key = s.key}} \ {s.id}
            otherKeys == {r.key : r \in since} \ {s.key}
            recent == now - s.time < Life /\ Cardinality(otherUsers) < Slots /\ Cardinality(otherKeys) < Ways
        IN recent /\ lock[s.gen] = {} =>
              \E w \in 1 .. Ways :
                 LET e == entries[ways[s.gen][w]]
                 IN /\ ways[s.gen][w] # NoEntry /\ e.key = s.key
                    /\ ~Expired(CurrentTick, e.lastActive)
                    /\ \E i \in 1 .. Slots : e.users[i].id = s.id /\ ~Expired(CurrentTick, e.users[i].tick)

\* The source cache remembers what is recent, with its true age.
CacheIsTimely == AgesAreTrue /\ RecentlySeenKept
=============================================================================
