-------------------------- MODULE ServerStateProofs --------------------------
(***************************************************************************)
(* What the server remembers.                                              *)
(*                                                                         *)
(* The user registry, for any user maps, any number of discoveries and any *)
(* size of the source cache: the cache names a user only for a source that *)
(* this user of this generation has been authenticated from, and it never  *)
(* changes the user that a discovery finds.                                *)
(*                                                                         *)
(* The replay cache, for every capacity, every expiry interval and any set *)
(* of packets: a recent packet is reported, an old one is not, and neither *)
(* is a new one.                                                           *)
(***************************************************************************)
EXTENDS UserRegistry, ReplayCache, FiniteSetTheorems, TLAPS

-----------------------------------------------------------------------------
(* The user registry.  Each cache entry belongs to one generation of       *)
(* users; a lookup that reads it without the lock works on the same one.   *)

\* The part of the type invariant the argument needs.
Users0 == {BuildState(UserMaps[i]) : i \in 1 .. Len(UserMaps)}
Slot == [id : Nat, tick : Tick]
AnyMessage == Messages \cup {Idle.message}
Entry == [key : {m.source : m \in AnyMessage}, lastActive : Tick, users : [1 .. Slots -> Slot]]
Candidate == [id : Nat, age : Int]
Call == [pc : {"idle", "load", "lookup", "way", "slot", "try", "returned", "lock", "store", "active"},
         message : AnyMessage, generation : Nat, mandatory : BOOLEAN, tick : Tick, at : Nat,
         entry : Nat, cached : Seq(Candidate), user : Nat]

RegistryTypes ==
    /\ generations \in Seq(Users0) /\ hintMandatory \in BOOLEAN
    /\ ways \in Seq([1 .. Ways -> Nat]) /\ Len(ways) = Len(generations)
    /\ entries \in Seq(Entry)
    /\ now \in Nat
    /\ call \in [Discoverers -> Call]

Auth(g, k, u) == [gen |-> g, key |-> k, id |-> u] \in authenticated

\* Every cache entry belongs to one generation.
Owned(owner) ==
    /\ \A g \in Generation, w \in 1 .. Ways : ways[g][w] # NoEntry =>
          ways[g][w] \in 1 .. Len(entries) /\ owner[ways[g][w]] = g
    /\ \A d \in Discoverers : call[d].pc = "slot" => owner[call[d].entry] = call[d].generation
    /\ \A e \in 1 .. Len(entries), i \in 1 .. Slots : entries[e].users[i].id # NoUser =>
          Auth(owner[e], entries[e].key, entries[e].users[i].id)

OwnerInv == \E owner \in [1 .. Len(entries) -> Nat] : Owned(owner)

Identity(d) ==
    LET able == {i \in DOMAIN Users(d) : Decrypts(Users(d), call[d].message, i)}
        hinted == {i \in able : Hinted(Users(d), call[d].message, i)}
        allowed == IF hinted # {} \/ call[d].mandatory THEN hinted ELSE able
    IN IF allowed = {} THEN call[d].user = NoUser ELSE call[d].user \in allowed

CallInv(d) ==
    /\ call[d].pc \notin {"idle", "load"} => call[d].generation \in Generation
    /\ call[d].pc = "lookup" => call[d].at = 1
    /\ call[d].pc = "way" => call[d].at \in 1 .. Ways
    /\ call[d].pc = "slot" => /\ call[d].at \in 1 .. Slots
                              /\ call[d].entry \in 1 .. Len(entries)
                              /\ entries[call[d].entry].key = Key(d)
    /\ \A i \in 1 .. Len(call[d].cached) : Auth(call[d].generation, Key(d), call[d].cached[i].id)
    /\ call[d].pc \in {"returned", "lock", "store"} /\ call[d].user # NoUser =>
          Auth(call[d].generation, Key(d), call[d].user)
    /\ call[d].pc = "returned" => Identity(d)

RegistryInv ==
    /\ RegistryTypes
    /\ OwnerInv
    /\ \A d \in Discoverers : CallInv(d)

-----------------------------------------------------------------------------
(* The operators.                                                          *)

\* Sequences as functions.
LEMMA SeqOf ==
    ASSUME NEW S, NEW n \in Nat, NEW f \in [1 .. n -> S]
    PROVE  f \in Seq(S) /\ Len(f) = n
OBVIOUS

\* What is known of a sequence.
LEMMA SeqFacts ==
    ASSUME NEW S, NEW s \in Seq(S)
    PROVE  /\ Len(s) \in Nat /\ DOMAIN s = 1 .. Len(s) /\ s \in [1 .. Len(s) -> S]
           /\ \A i \in DOMAIN s : s[i] \in S
OBVIOUS

\* A non-empty set of indices has a first one.
LEMMA FirstInside ==
    ASSUME NEW S \in SUBSET Nat, S # {}
    PROVE  FirstOf(S) \in S
<1> DEFINE R == OpToRel(<, Nat)
<1>1. IsWellFoundedOn(R, Nat)
  BY NatLessThanWellFounded, Zenon
<1>2. \A a, b \in Nat : a < b => <<a, b>> \in R
  BY Zenon DEF OpToRel
<1> HIDE DEF R
<1>3. PICK x \in S : \A y \in S : ~(<<y, x>> \in R)
  BY <1>1, WFMin, Zenon
<1>4. \A y \in S : ~(y < x)
  BY <1>2, <1>3, Zenon
<1>5. \A y \in S : x <= y
  BY <1>4
<1> QED
  BY <1>5, Zenon DEF FirstOf

\* The IDs of a generation are positive.
LEMMA PositiveIDs ==
    ASSUME NEW users \in Users0
    PROVE  DOMAIN users \subseteq Nat \ {NoUser}
<1>1. PICK i \in 1 .. Len(UserMaps) : users = BuildState(UserMaps[i])
  BY Zenon DEF Users0
<1> DEFINE usable == {u \in UserMaps[i] : Usable(u, UserMaps[i])}
<1>2. IsFiniteSet(UserMaps[i]) /\ usable \in SUBSET UserMaps[i]
  BY RegistryAssumption, Zenon DEF RegistryAssumption
<1>3. Cardinality(usable) \in Nat
  BY <1>2, FS_Subset, FS_CardinalityType, Zenon
<1>4. DOMAIN users = 1 .. Cardinality(usable)
  BY <1>1, Zenon DEF BuildState
<1> QED
  BY <1>3, <1>4 DEF NoUser

\* A loop of tryState finds one of the users it is to try, if one decrypts.
LEMMA MatchFacts ==
    ASSUME NEW users \in Users0, NEW ids, DOMAIN ids \subseteq Nat, NEW m, NEW hinted \in BOOLEAN,
           NEW found, found = FirstMatch(users, ids, m, hinted)
    PROVE  /\ found # NoUser => /\ found \in DOMAIN users /\ Decrypts(users, m, found)
                                /\ Hinted(users, m, found) <=> hinted
           /\ found = NoUser => \A k \in DOMAIN ids :
                  ids[k] \in DOMAIN users /\ (Hinted(users, m, ids[k]) <=> hinted) =>
                      ~Decrypts(users, m, ids[k])
<1> DEFINE hits == {k \in DOMAIN ids : /\ ids[k] \in DOMAIN users
                                       /\ Hinted(users, m, ids[k]) <=> hinted
                                       /\ Decrypts(users, m, ids[k])}
<1>1. found = IF hits = {} THEN NoUser ELSE ids[FirstOf(hits)]
  BY Zenon DEF FirstMatch
<1>2. CASE hits = {}
  BY <1>1, <1>2, Zenon
<1>3. CASE hits # {}
  <2>1. FirstOf(hits) \in hits
    BY <1>3, FirstInside, Zenon
  <2>2. /\ found \in DOMAIN users /\ Decrypts(users, m, found)
        /\ Hinted(users, m, found) <=> hinted
    BY <1>1, <1>3, <2>1, Zenon
  <2>3. found # NoUser
    BY <2>2, PositiveIDs, Zenon
  <2> QED  BY <2>2, <2>3, Zenon
<1> QED  BY <1>2, <1>3, Zenon

\* tryState returns a user whom a search without a cache may return.
LEMMA TryFacts ==
    ASSUME NEW users \in Users0, NEW ids, DOMAIN ids \subseteq Nat, NEW m, NEW isMandatory \in BOOLEAN,
           NEW found, found = TryState(users, ids, m, isMandatory),
           NEW able, able = {i \in DOMAIN users : Decrypts(users, m, i)},
           NEW hinted, hinted = {i \in able : Hinted(users, m, i)}
    PROVE  /\ hinted # {} => found \in hinted
           /\ hinted = {} /\ (isMandatory \/ able = {}) => found = NoUser
           /\ hinted = {} /\ ~isMandatory /\ able # {} => found \in able
<1> DEFINE registry == [i \in DOMAIN users |-> i]
           a == FirstMatch(users, ids, m, TRUE)
           b == FirstMatch(users, registry, m, TRUE)
           c == FirstMatch(users, ids, m, FALSE)
           e == FirstMatch(users, registry, m, FALSE)
<1>1. found = CASE a # NoUser -> a
                [] a = NoUser /\ b # NoUser -> b
                [] a = NoUser /\ b = NoUser /\ isMandatory -> NoUser
                [] OTHER -> IF c # NoUser THEN c ELSE e
  BY Zenon DEF TryState
<1>2. DOMAIN registry \subseteq Nat /\ DOMAIN registry = DOMAIN users /\ \A i \in DOMAIN users : registry[i] = i
  BY PositiveIDs, Zenon
<1> HIDE DEF registry
<1>3. a # NoUser => a \in hinted
  BY MatchFacts, Zenon
<1>4. /\ b # NoUser => b \in hinted
      /\ b = NoUser => hinted = {}
  <2>1. b = NoUser => \A k \in DOMAIN registry : registry[k] \in DOMAIN users /\ (Hinted(users, m, registry[k]) <=> TRUE)
                          => ~Decrypts(users, m, registry[k])
    BY <1>2, MatchFacts, Zenon
  <2>2. b # NoUser => b \in hinted
    BY <1>2, MatchFacts, Zenon
  <2> QED  BY <2>1, <2>2, <1>2, Zenon
<1>5. c # NoUser => c \in able \ hinted
  BY MatchFacts, Zenon
<1>6. /\ e # NoUser => e \in able \ hinted
      /\ e = NoUser => able \subseteq hinted
  <2>1. e = NoUser => \A k \in DOMAIN registry : registry[k] \in DOMAIN users /\ (Hinted(users, m, registry[k]) <=> FALSE)
                          => ~Decrypts(users, m, registry[k])
    BY <1>2, MatchFacts, Zenon
  <2>2. e # NoUser => e \in able \ hinted
    BY <1>2, MatchFacts, Zenon
  <2>3. e = NoUser => \A k \in DOMAIN users : Decrypts(users, m, k) => Hinted(users, m, k)
    BY <2>1, <1>2, Zenon
  <2> QED  BY <2>2, <2>3, Zenon
<1> HIDE DEF a, b, c, e
<1>7. CASE a # NoUser
  BY <1>1, <1>3, <1>7, Zenon
<1>8. CASE a = NoUser /\ b # NoUser
  BY <1>1, <1>4, <1>8, Zenon
<1>9. CASE a = NoUser /\ b = NoUser /\ isMandatory
  BY <1>1, <1>4, <1>9, Zenon
<1>10. CASE a = NoUser /\ b = NoUser /\ ~isMandatory
  <2>1. found = IF c # NoUser THEN c ELSE e
    BY <1>1, <1>10, Zenon
  <2> QED  BY <2>1, <1>4, <1>5, <1>6, <1>10, Zenon
<1> QED  BY <1>7, <1>8, <1>9, <1>10, Zenon

-----------------------------------------------------------------------------
(* Steps.                                                                  *)

\* What is known of a call stays true while the registry and the cache grow.
Grows ==
    /\ authenticated \subseteq authenticated'
    /\ Generation \subseteq Generation' /\ \A g \in Generation : generations'[g] = generations[g]
    /\ 1 .. Len(entries) \subseteq 1 .. Len(entries')
    /\ \A e \in 1 .. Len(entries) : entries'[e].key = entries[e].key

\* A call that takes no part in such a step keeps what is known of it.
LEMMA CallKept ==
    ASSUME NEW d \in Discoverers, CallInv(d), Grows, call'[d] = call[d]
    PROVE  CallInv(d)'
<1>1. \A g, k, u : Auth(g, k, u) => Auth(g, k, u)'
  BY Zenon DEF Grows, Auth
<1>2. Key(d)' = Key(d)
  BY Zenon DEF Key
<1>3. call[d].pc = "returned" => Identity(d)'
  <2>1. call[d].pc = "returned" => Users(d)' = Users(d) /\ Identity(d)
    BY Zenon DEF CallInv, Grows, Users
  <2> QED  BY <2>1, Zenon DEF Identity, Decrypts, Hinted
<1> QED  BY <1>1, <1>2, <1>3, Zenon DEF CallInv, Grows

\* The locals of an idle goroutine.
LEMMA IdleType ==
    /\ Idle \in Call /\ Idle.pc = "idle" /\ Idle.generation = 0 /\ Idle.cached = <<>> /\ Idle.at = 1
    /\ Idle.user = NoUser
BY RegistryAssumption DEF RegistryAssumption, Idle, Call, AnyMessage, Tick, NoEntry, NoUser

\* Giving a goroutine other locals.
LEMMA Update ==
    ASSUME RegistryTypes, NEW d \in Discoverers, NEW c \in Call, call' = [call EXCEPT ![d] = c]
    PROVE  /\ call' \in [Discoverers -> Call] /\ call'[d] = c
           /\ \A e \in Discoverers : e # d => call'[e] = call[e]
BY Zenon DEF RegistryTypes

\* A step of one goroutine that leaves the users and the cache alone.
LEMMA Quiet ==
    ASSUME RegistryInv, NEW d \in Discoverers, UNCHANGED <<generations, ways, entries, hintMandatory, now>>,
           authenticated \subseteq authenticated',
           call' \in [Discoverers -> Call], \A e \in Discoverers : e # d => call'[e] = call[e],
           CallInv(d)',
           \/ call'[d].pc # "slot"
           \/ /\ call[d].pc = "slot"
              /\ call'[d].entry = call[d].entry /\ call'[d].generation = call[d].generation
           \/ \E w \in 1 .. Ways : /\ call'[d].generation \in Generation
                                   /\ call'[d].entry = ways[call'[d].generation][w]
                                   /\ call'[d].entry # NoEntry
    PROVE  RegistryInv'
<1>1. Grows
  BY Zenon DEF Grows, Generation
<1>2. \A e \in Discoverers : CallInv(e)'
  <2> SUFFICES ASSUME NEW e \in Discoverers PROVE CallInv(e)'
    BY Zenon
  <2>1. CASE e = d
    BY <2>1, Zenon
  <2>2. CASE e # d
    BY <2>2, <1>1, CallKept, Zenon DEF RegistryInv
  <2> QED  BY <2>1, <2>2, Zenon
<1>3. OwnerInv'
  <2>1. PICK owner \in [1 .. Len(entries) -> Nat] : Owned(owner)
    BY Zenon DEF RegistryInv, OwnerInv
  <2>2. \A g, k, u : Auth(g, k, u) => Auth(g, k, u)'
    BY Zenon DEF Auth
  <2>3. call'[d].pc = "slot" => owner[call'[d].entry] = call'[d].generation
    <3>1. ASSUME NEW w \in 1 .. Ways, call'[d].generation \in Generation,
                 call'[d].entry = ways[call'[d].generation][w], call'[d].entry # NoEntry
          PROVE  owner[call'[d].entry] = call'[d].generation
      BY <2>1, <3>1 DEF Owned
    <3>2. CASE /\ call[d].pc = "slot" /\ call'[d].entry = call[d].entry
               /\ call'[d].generation = call[d].generation
      BY <2>1, <3>2, Zenon DEF Owned
    <3> QED  BY <3>1, <3>2, Zenon
  <2>4. \A e \in Discoverers : call'[e].pc = "slot" => owner[call'[e].entry] = call'[e].generation
    BY <2>1, <2>3, Zenon DEF Owned
  <2>5. ways' = ways /\ entries' = entries /\ Generation' = Generation
    BY Zenon DEF Generation
  <2>6. \A e \in 1 .. Len(entries), i \in 1 .. Slots : entries[e].users[i].id # NoUser =>
           Auth(owner[e], entries[e].key, entries[e].users[i].id)'
    BY <2>1, <2>2, <2>5, Zenon DEF Owned
  <2>7. Owned(owner)'
    <3>1. \A g \in Generation', w \in 1 .. Ways : ways'[g][w] # NoEntry =>
              ways'[g][w] \in 1 .. Len(entries') /\ owner[ways'[g][w]] = g
      BY <2>1, <2>5 DEF Owned
    <3>2. \A e \in 1 .. Len(entries'), i \in 1 .. Slots : entries'[e].users[i].id # NoUser =>
              Auth(owner[e], entries[e].key, entries[e].users[i].id)'
      BY <2>5, <2>6, Zenon DEF Auth
    <3> QED  BY <2>4, <3>1, <3>2, Zenon DEF Owned
  <2> QED  BY <2>5, <2>7, Zenon DEF OwnerInv
<1>4. RegistryTypes'
  BY Zenon DEF RegistryInv, RegistryTypes
<1> QED  BY <1>2, <1>3, <1>4, Zenon DEF RegistryInv

\* Ticks stay within their width.
LEMMA TickType ==
    ASSUME RegistryTypes
    PROVE  CurrentTick \in Tick
BY RegistryAssumption, SMTT(30) DEF RegistryTypes, RegistryAssumption, CurrentTick, Tick

\* A goroutine that becomes idle.
LEMMA Rests ==
    ASSUME RegistryInv, NEW d \in Discoverers, UNCHANGED <<registryVars, ways, entries, now, authenticated>>,
           call' = [call EXCEPT ![d] = Idle]
    PROVE  RegistryInv'
<1>1. /\ call' \in [Discoverers -> Call] /\ call'[d] = Idle
      /\ \A e \in Discoverers : e # d => call'[e] = call[e]
  BY IdleType, Update, Zenon DEF RegistryInv
<1>2. CallInv(d)'
  BY <1>1, IdleType DEF CallInv, NoUser
<1> QED  BY <1>1, <1>2, IdleType, Quiet, Zenon DEF registryVars

\* Discover begins with the published state.
LEMMA LoadKeeps ==
    ASSUME RegistryInv, NEW d \in Discoverers, NEW m \in AnyMessage, LoadState(d, m)
    PROVE  RegistryInv'
<1> DEFINE usable == Current > 0 /\ generations[Current] # << >>
           loaded == [Idle EXCEPT !.pc = IF m.source = NoSource THEN "try" ELSE "lookup",
                                  !.message = m, !.generation = Current, !.mandatory = hintMandatory]
<1>1. /\ call' = [call EXCEPT ![d] = IF usable THEN loaded ELSE Idle]
      /\ UNCHANGED <<registryVars, ways, entries, now, authenticated>>
  BY Zenon DEF LoadState, cacheVars
<1>2. CASE ~usable
  BY <1>1, <1>2, Rests, Zenon
<1>3. CASE usable
  <2>1. Current \in Nat /\ Current \in Generation /\ hintMandatory \in BOOLEAN
    BY <1>3 DEF RegistryInv, RegistryTypes, Generation, Current
  <2>2. /\ loaded \in Call /\ loaded.pc \in {"try", "lookup"} /\ loaded.at = 1 /\ loaded.cached = <<>>
        /\ loaded.generation = Current /\ loaded.message = m
    <3>1. m \in AnyMessage /\ Idle \in Call /\ Idle.at = 1 /\ Idle.cached = <<>>
      BY IdleType, Zenon
    <3> QED  BY <2>1, <3>1, Zenon DEF Call
  <2> HIDE DEF loaded, usable
  <2>3. call' = [call EXCEPT ![d] = loaded]
    BY <1>1, <1>3, Zenon
  <2>4. /\ call' \in [Discoverers -> Call] /\ call'[d] = loaded
        /\ \A e \in Discoverers : e # d => call'[e] = call[e]
    BY <2>2, <2>3, Update, Zenon DEF RegistryInv
  <2>5. CallInv(d)'
    <3>1. call'[d].generation \in Generation'
      BY <1>1, <2>1, <2>2, <2>4, Zenon DEF Generation, registryVars
    <3>2. 1 .. Len(call'[d].cached) = {}
      BY <2>2, <2>4
    <3> QED  BY <2>2, <2>4, <3>1, <3>2, Zenon DEF CallInv
  <2> QED  BY <1>1, <2>2, <2>4, <2>5, Quiet, Zenon DEF registryVars
<1> QED  BY <1>2, <1>3, Zenon

\* The lookup loads the table.
LEMMA TableKeeps ==
    ASSUME RegistryInv, NEW d \in Discoverers, LookupTable(d)
    PROVE  RegistryInv'
<1> DEFINE c == [call[d] EXCEPT !.pc = IF table[call[d].generation] THEN "way" ELSE "try",
                                !.tick = CurrentTick]
<1>1. call' = [call EXCEPT ![d] = c] /\ call[d].pc = "lookup"
  BY Zenon DEF LookupTable, RegistryInv, RegistryTypes, Call
<1>2. call[d] \in Call /\ CallInv(d) /\ CurrentTick \in Tick
  BY TickType, Zenon DEF RegistryInv, RegistryTypes
<1>3. /\ c \in Call /\ c.pc \in {"way", "try"} /\ c.at = call[d].at /\ c.cached = call[d].cached
      /\ c.generation = call[d].generation /\ c.message = call[d].message
  BY <1>2, Zenon DEF Call
<1> HIDE DEF c
<1>4. /\ call' \in [Discoverers -> Call] /\ call'[d] = c
      /\ \A e \in Discoverers : e # d => call'[e] = call[e]
  BY <1>1, <1>3, Update, Zenon DEF RegistryInv
<1>5. UNCHANGED <<registryVars, ways, entries, now, authenticated>>
  BY Zenon DEF LookupTable, cacheVars, historyVars
<1>6. CallInv(d)'
  <2>1. call'[d].generation \in Generation'
    BY <1>1, <1>2, <1>3, <1>4, <1>5, Zenon DEF CallInv, Generation, registryVars
  <2>2. call'[d].at \in 1 .. Ways
    <3>1. call'[d].at = 1
      BY <1>1, <1>2, <1>3, <1>4, Zenon DEF CallInv
    <3>2. 1 \in 1 .. Ways
      BY RegistryAssumption
    <3> QED  BY <3>1, <3>2, Zenon
  <2>3. (\A i \in 1 .. Len(call[d].cached) : Auth(call[d].generation, Key(d), call[d].cached[i].id))'
    BY <1>2, <1>3, <1>4, <1>5, Zenon DEF CallInv, Auth, Key
  <2> QED  BY <1>3, <1>4, <2>1, <2>2, <2>3, Zenon DEF CallInv
<1> QED  BY <1>3, <1>4, <1>5, <1>6, Quiet, Zenon DEF registryVars

\* The lookup reads one way of the bucket.
LEMMA WayKeeps ==
    ASSUME RegistryInv, NEW d \in Discoverers, LookupWay(d)
    PROVE  RegistryInv'
<1>0. call[d] \in Call /\ CallInv(d) /\ call[d].pc = "way"
  BY Zenon DEF RegistryInv, RegistryTypes, LookupWay
<1>1. PICK e : e = Bucket(d)[call[d].at]
  BY Zenon
<1>2. PICK c : /\ call' = [call EXCEPT ![d] = c]
               /\ \/ /\ e # NoEntry /\ entries[e].key = Key(d)
                     /\ c = [call[d] EXCEPT !.pc = "slot", !.at = 1, !.entry = e]
                  \/ c = [call[d] EXCEPT !.pc = "try", !.at = 1]
                  \/ call[d].at < Ways /\ c = [call[d] EXCEPT !.at = @ + 1]
  <2>1. \/ /\ e # NoEntry /\ entries[e].key = Key(d)
           /\ call' = [call EXCEPT ![d].pc = "slot", ![d].at = 1, ![d].entry = e]
        \/ call' = [call EXCEPT ![d].pc = "try", ![d].at = 1]
        \/ call[d].at < Ways /\ call' = [call EXCEPT ![d].at = @ + 1]
    BY <1>1, Zenon DEF LookupWay
  <2>2. call \in [Discoverers -> Call]
    BY Zenon DEF RegistryInv, RegistryTypes
  <2>3. CASE /\ e # NoEntry /\ entries[e].key = Key(d)
             /\ call' = [call EXCEPT ![d].pc = "slot", ![d].at = 1, ![d].entry = e]
    <3>1. call' = [call EXCEPT ![d] = [call[d] EXCEPT !.pc = "slot", !.at = 1, !.entry = e]]
      BY <2>2, <2>3, Zenon DEF Call
    <3> QED  BY <2>3, <3>1, Zenon
  <2>4. CASE call' = [call EXCEPT ![d].pc = "try", ![d].at = 1]
    <3>1. call' = [call EXCEPT ![d] = [call[d] EXCEPT !.pc = "try", !.at = 1]]
      BY <2>2, <2>4, Zenon DEF Call
    <3> QED  BY <3>1, Zenon
  <2>5. CASE call[d].at < Ways /\ call' = [call EXCEPT ![d].at = @ + 1]
    <3>1. call' = [call EXCEPT ![d] = [call[d] EXCEPT !.at = @ + 1]]
      BY <2>2, <2>5, Zenon DEF Call
    <3> QED  BY <2>5, <3>1, Zenon
  <2> QED  BY <2>1, <2>3, <2>4, <2>5, Zenon
<1>3. /\ call[d].generation \in Generation /\ call[d].at \in 1 .. Ways
      /\ e = ways[call[d].generation][call[d].at] /\ e \in Nat
  <2>1. call[d].generation \in Generation /\ call[d].at \in 1 .. Ways
    BY <1>0, Zenon DEF CallInv
  <2>2. ways \in Seq([1 .. Ways -> Nat]) /\ Generation = 1 .. Len(ways)
    BY Zenon DEF RegistryInv, RegistryTypes, Generation
  <2>3. e = ways[call[d].generation][call[d].at]
    BY <1>1, Zenon DEF Bucket
  <2>4. ways[call[d].generation] \in [1 .. Ways -> Nat]
    BY <2>1, <2>2
  <2> QED  BY <2>1, <2>3, <2>4, Zenon
<1>4. /\ c \in Call /\ c.cached = call[d].cached
      /\ c.generation = call[d].generation /\ c.message = call[d].message
      /\ \/ c.pc = "slot" /\ c.entry = e /\ e # NoEntry /\ entries[e].key = Key(d) /\ c.at = 1
         \/ c.pc = "try"
         \/ c.pc = "way" /\ c.at \in 1 .. Ways
  <2>1. CASE /\ e # NoEntry /\ entries[e].key = Key(d)
             /\ c = [call[d] EXCEPT !.pc = "slot", !.at = 1, !.entry = e]
    BY <1>0, <1>3, <2>1, Zenon DEF Call
  <2>2. CASE c = [call[d] EXCEPT !.pc = "try", !.at = 1]
    BY <1>0, <2>2, Zenon DEF Call
  <2>3. CASE call[d].at < Ways /\ c = [call[d] EXCEPT !.at = @ + 1]
    <3>1. Ways \in Nat
      BY RegistryAssumption, Zenon DEF RegistryAssumption
    <3>2. call[d].at + 1 \in Nat /\ call[d].at + 1 \in 1 .. Ways
      BY <1>3, <2>3, <3>1
    <3> QED  BY <1>0, <2>3, <3>2, Zenon DEF Call
  <2> QED  BY <1>2, <2>1, <2>2, <2>3, Zenon
<1>5. /\ call' \in [Discoverers -> Call] /\ call'[d] = c
      /\ \A x \in Discoverers : x # d => call'[x] = call[x]
  BY <1>2, <1>4, Update, Zenon DEF RegistryInv
<1>6. UNCHANGED <<registryVars, ways, entries, now, authenticated>>
  BY Zenon DEF LookupWay, cacheVars, historyVars
<1>7. e # NoEntry => e \in 1 .. Len(entries)
  BY <1>3, Zenon DEF RegistryInv, OwnerInv, Owned
<1>8. CallInv(d)'
  <2>1. call'[d].generation \in Generation' /\ Key(d)' = Key(d)
    BY <1>3, <1>4, <1>5, <1>6, Zenon DEF Generation, Key, registryVars
  <2>2. \A i \in 1 .. Len(c.cached) : Auth(c.generation, Key(d), c.cached[i].id)'
    BY <1>0, <1>4, <1>6, <2>1, Zenon DEF CallInv, Auth
  <2>3. 1 \in 1 .. Slots
    BY RegistryAssumption DEF RegistryAssumption
  <2>4. c.pc = "slot" => /\ c.at \in 1 .. Slots /\ c.entry \in 1 .. Len(entries')
                         /\ entries'[c.entry].key = Key(d)'
    BY <1>4, <1>6, <1>7, <2>1, <2>3, Zenon
  <2>5. c.pc \notin {"idle", "load", "lookup", "returned", "lock", "store"} /\ (c.pc = "way" => c.at \in 1 .. Ways)
    BY <1>4, Zenon
  <2> QED  BY <1>5, <2>1, <2>2, <2>4, <2>5, Zenon DEF CallInv
<1> QED  BY <1>3, <1>4, <1>5, <1>6, <1>8, Quiet, Zenon DEF registryVars

\* AddCandidate adds no user but the given one.
LEMMA AddFacts ==
    ASSUME NEW s \in Seq(Candidate), NEW id \in Nat, NEW age \in Int, NEW S,
           id \in S, \A i \in DOMAIN s : s[i].id \in S,
           NEW t, t = AddCandidate(s, id, age)
    PROVE  t \in Seq(Candidate) /\ \A i \in DOMAIN t : t[i].id \in S
<1>1. CASE \E j \in DOMAIN s : s[j].id = id
  <2>1. t = [j \in DOMAIN s |-> IF s[j].id = id /\ age < s[j].age
                                THEN [s[j] EXCEPT !.age = age] ELSE s[j]]
    BY <1>1, Zenon DEF AddCandidate
  <2>2. \A j \in DOMAIN s : t[j] \in Candidate /\ t[j].id = s[j].id
    <3> SUFFICES ASSUME NEW j \in DOMAIN s PROVE t[j] \in Candidate /\ t[j].id = s[j].id
      BY Zenon
    <3>1. s[j] \in Candidate
      BY SeqFacts, Zenon
    <3>2. t[j] = s[j] \/ t[j] = [s[j] EXCEPT !.age = age]
      BY <2>1, Zenon
    <3> QED  BY <3>1, <3>2, Zenon DEF Candidate
  <2>3. DOMAIN t = 1 .. Len(s) /\ DOMAIN s = 1 .. Len(s) /\ Len(s) \in Nat
    BY <2>1
  <2>4. t = [j \in 1 .. Len(s) |-> t[j]]
    BY <2>1, <2>3, Zenon
  <2>5. t \in [1 .. Len(s) -> Candidate]
    BY <2>2, <2>3, <2>4, Zenon
  <2>6. t \in Seq(Candidate)
    BY <2>3, <2>5, SeqOf, Zenon
  <2> QED  BY <2>2, <2>3, <2>6, Zenon
<1>2. CASE ~\E j \in DOMAIN s : s[j].id = id
  <2>1. t = Append(s, [id |-> id, age |-> age]) /\ [id |-> id, age |-> age] \in Candidate
    BY <1>2, Zenon DEF AddCandidate, Candidate
  <2>2. /\ t \in Seq(Candidate) /\ DOMAIN t = 1 .. Len(s) + 1
        /\ t[Len(s) + 1] = [id |-> id, age |-> age] /\ \A i \in 1 .. Len(s) : t[i] = s[i]
        /\ DOMAIN s = 1 .. Len(s)
    BY <2>1
  <2>3. \A i \in 1 .. Len(s) + 1 : i \in 1 .. Len(s) \/ i = Len(s) + 1
    BY <2>2
  <2>4. \A i \in 1 .. Len(s) : t[i].id \in S
    BY <2>2, Zenon
  <2>5. t[Len(s) + 1].id \in S
    BY <2>2
  <2> QED  BY <2>2, <2>3, <2>4, <2>5, Zenon
<1> QED  BY <1>1, <1>2, Zenon

\* Sorting adds no user.
LEMMA SortFacts ==
    ASSUME NEW s \in Seq(Candidate), NEW S, \A i \in DOMAIN s : s[i].id \in S, NEW t \in ByAge(s)
    PROVE  t \in Seq(Candidate) /\ \A i \in DOMAIN t : t[i].id \in S
<1>1. PICK p \in [DOMAIN s -> DOMAIN s] : t = [i \in DOMAIN s |-> s[p[i]]]
  BY Zenon DEF ByAge
<1>2. DOMAIN s = 1 .. Len(s) /\ Len(s) \in Nat /\ \A i \in DOMAIN s : s[i] \in Candidate
  BY SeqFacts, Zenon
<1>3. t = [i \in 1 .. Len(s) |-> s[p[i]]] /\ \A i \in 1 .. Len(s) : s[p[i]] \in Candidate
  BY <1>1, <1>2, Zenon
<1>4. t \in [1 .. Len(s) -> Candidate]
  BY <1>3, Zenon
<1>5. t \in Seq(Candidate)
  BY <1>2, <1>4, SeqOf, Zenon
<1> QED  BY <1>1, <1>5, Zenon

\* The lookup reads one slot of the entry.
LEMMA SlotKeeps ==
    ASSUME RegistryInv, NEW d \in Discoverers, LookupSlot(d)
    PROVE  RegistryInv'
<1>0. call[d] \in Call /\ CallInv(d) /\ call[d].pc = "slot" /\ call \in [Discoverers -> Call]
  BY Zenon DEF RegistryInv, RegistryTypes, LookupSlot
<1>1. PICK slot : slot = entries[call[d].entry].users[call[d].at]
  BY Zenon
<1>2. /\ call[d].generation \in Generation
      /\ call[d].at \in 1 .. Slots /\ call[d].entry \in 1 .. Len(entries)
      /\ entries[call[d].entry].key = Key(d)
  BY <1>0, Zenon DEF CallInv
<1>3. slot \in Slot
  <2>1. entries \in Seq(Entry)
    BY Zenon DEF RegistryInv, RegistryTypes
  <2>2. entries[call[d].entry] \in Entry
    BY <1>2, <2>1
  <2>3. entries[call[d].entry].users \in [1 .. Slots -> Slot]
    BY <2>2, Zenon DEF Entry
  <2> QED  BY <1>1, <1>2, <2>3, Zenon
<1> DEFINE S == {u \in Nat : Auth(call[d].generation, Key(d), u)}
<1>4. slot.id # NoUser => slot.id \in S
  <2>1. PICK owner \in [1 .. Len(entries) -> Nat] : Owned(owner)
    BY Zenon DEF RegistryInv, OwnerInv
  <2>2. owner[call[d].entry] = call[d].generation
    BY <1>0, <2>1, Zenon DEF Owned
  <2>3. slot.id # NoUser => Auth(owner[call[d].entry], entries[call[d].entry].key, slot.id)
    BY <1>1, <1>2, <2>1, Zenon DEF Owned
  <2>4. slot.id \in Nat
    BY <1>3, Zenon DEF Slot
  <2> QED  BY <1>2, <2>2, <2>3, <2>4, Zenon
<1>5. /\ call[d].cached \in Seq(Candidate) /\ call[d].tick \in Tick /\ call[d].at \in Nat
      /\ \A i \in DOMAIN call[d].cached : call[d].cached[i].id \in S
  <2>1. call[d].cached \in Seq(Candidate) /\ call[d].tick \in Tick /\ call[d].at \in Nat
    BY <1>0, Zenon DEF Call
  <2>2. DOMAIN call[d].cached = 1 .. Len(call[d].cached)
        /\ \A i \in DOMAIN call[d].cached : call[d].cached[i] \in Candidate
    BY <2>1, SeqFacts, Zenon
  <2>3. \A i \in DOMAIN call[d].cached : call[d].cached[i].id \in Nat
    BY <2>2, Zenon DEF Candidate
  <2> QED  BY <1>0, <2>1, <2>2, <2>3, Zenon DEF CallInv
<1>6. PICK found : /\ found = IF slot.id = NoUser \/ Expired(call[d].tick, slot.tick) THEN call[d].cached
                             ELSE AddCandidate(call[d].cached, slot.id, Age(call[d].tick, slot.tick))
  BY Zenon
<1>7. found \in Seq(Candidate) /\ \A i \in DOMAIN found : found[i].id \in S
  <2>1. slot.id \in Nat /\ Age(call[d].tick, slot.tick) \in Int
    BY <1>3, <1>5, RegistryAssumption, SMTT(30) DEF RegistryAssumption, Slot, Age, Tick
  <2>2. CASE slot.id = NoUser \/ Expired(call[d].tick, slot.tick)
    BY <1>5, <1>6, <2>2, Zenon
  <2>3. CASE ~(slot.id = NoUser \/ Expired(call[d].tick, slot.tick))
    <3> HIDE DEF S
    <3>1. found = AddCandidate(call[d].cached, slot.id, Age(call[d].tick, slot.tick)) /\ slot.id \in S
      BY <1>4, <1>6, <2>3, Zenon
    <3>2. call[d].cached \in Seq(Candidate) /\ \A i \in DOMAIN call[d].cached : call[d].cached[i].id \in S
      BY <1>5, Zenon
    <3> QED  BY <2>1, <3>1, <3>2, AddFacts, ZenonT(60)
  <2> QED  BY <2>2, <2>3, Zenon
<1>8. PICK c : /\ call' = [call EXCEPT ![d] = c]
               /\ c \in Call /\ c.generation = call[d].generation /\ c.message = call[d].message
               /\ \/ c.pc = "slot" /\ c.at \in 1 .. Slots /\ c.entry = call[d].entry
                  \/ c.pc = "try"
               /\ \A i \in DOMAIN c.cached : c.cached[i].id \in S
  <2>1. \/ call[d].at < Slots /\ call' = [call EXCEPT ![d].at = @ + 1, ![d].cached = found]
        \/ \E sorted \in ByAge(found) :
               call' = [call EXCEPT ![d].pc = "try", ![d].at = 1, ![d].cached = sorted]
    BY <1>1, <1>6, Zenon DEF LookupSlot
  <2> HIDE DEF S
  <2>2. CASE call[d].at < Slots /\ call' = [call EXCEPT ![d].at = @ + 1, ![d].cached = found]
    <3> DEFINE c == [call[d] EXCEPT !.at = @ + 1, !.cached = found]
    <3>1. call' = [call EXCEPT ![d] = c]
      BY <1>0, <2>2, Zenon DEF Call
    <3>2. Slots \in Nat
      BY RegistryAssumption, Zenon DEF RegistryAssumption
    <3>3. call[d].at + 1 \in Nat /\ call[d].at + 1 \in 1 .. Slots
      BY <1>2, <2>2, <3>2
    <3>4. /\ c \in Call /\ c.generation = call[d].generation /\ c.message = call[d].message
          /\ c.pc = "slot" /\ c.at \in 1 .. Slots /\ c.entry = call[d].entry /\ c.cached = found
      BY <1>0, <1>7, <3>3, Zenon DEF Call
    <3> QED  BY <1>7, <3>1, <3>4, Zenon
  <2>3. ASSUME NEW sorted \in ByAge(found),
               call' = [call EXCEPT ![d].pc = "try", ![d].at = 1, ![d].cached = sorted]
        PROVE  \E c : /\ call' = [call EXCEPT ![d] = c]
                      /\ c \in Call /\ c.generation = call[d].generation /\ c.message = call[d].message
                      /\ c.pc = "try" /\ \A i \in DOMAIN c.cached : c.cached[i].id \in S
    <3> DEFINE c == [call[d] EXCEPT !.pc = "try", !.at = 1, !.cached = sorted]
    <3>1. call' = [call EXCEPT ![d] = c]
      BY <1>0, <2>3, Zenon DEF Call
    <3>2. sorted \in Seq(Candidate) /\ \A i \in DOMAIN sorted : sorted[i].id \in S
      BY <1>7, SortFacts, Zenon
    <3>3. /\ c \in Call /\ c.generation = call[d].generation /\ c.message = call[d].message
          /\ c.pc = "try" /\ c.cached = sorted
      BY <1>0, <3>2, Zenon DEF Call
    <3> QED  BY <3>1, <3>2, <3>3, Zenon
  <2> QED  BY <2>1, <2>2, <2>3, Zenon
<1>9. /\ call' \in [Discoverers -> Call] /\ call'[d] = c
      /\ \A x \in Discoverers : x # d => call'[x] = call[x]
  BY <1>8, Update, Zenon DEF RegistryInv
<1>10. UNCHANGED <<registryVars, ways, entries, now, authenticated>>
  BY Zenon DEF LookupSlot, cacheVars, historyVars
<1>11. CallInv(d)'
  <2>1. call'[d].generation \in Generation' /\ Key(d)' = Key(d)
    BY <1>2, <1>8, <1>9, <1>10, Zenon DEF Generation, Key, registryVars
  <2>2. \A i \in 1 .. Len(c.cached) : Auth(c.generation, Key(d), c.cached[i].id)'
    <3>1. c.cached \in Seq(Candidate)
      BY <1>8, Zenon DEF Call
    <3>2. DOMAIN c.cached = 1 .. Len(c.cached)
      BY <3>1, SeqFacts, Zenon
    <3> QED  BY <1>8, <1>10, <2>1, <3>2, Zenon DEF Auth
  <2>3. c.pc = "slot" => /\ c.at \in 1 .. Slots /\ c.entry \in 1 .. Len(entries')
                         /\ entries'[c.entry].key = Key(d)'
    BY <1>2, <1>8, <1>10, <2>1, Zenon
  <2>4. c.pc \in {"slot", "try"}
    BY <1>8, Zenon
  <2> QED  BY <1>9, <2>1, <2>2, <2>3, <2>4, Zenon DEF CallInv
<1> QED  BY <1>0, <1>8, <1>9, <1>10, <1>11, Quiet, Zenon DEF registryVars

\* Discover tries the candidates and returns the user it finds.
LEMMA TryKeeps ==
    ASSUME RegistryInv, NEW d \in Discoverers, Try(d)
    PROVE  RegistryInv'
<1>0. call[d] \in Call /\ CallInv(d) /\ call[d].pc = "try" /\ call[d].generation \in Generation
  BY Zenon DEF RegistryInv, RegistryTypes, Try, CallInv
<1>1. UNCHANGED <<registryVars, ways, entries, now>> /\ authenticated \subseteq authenticated'
  BY Zenon DEF Try, cacheVars
<1> DEFINE ids == [i \in DOMAIN call[d].cached |-> call[d].cached[i].id]
           replaced == call[d].message.current /\ call[d].generation # Current
<1>2. PICK found : found = TryState(Users(d), ids, call[d].message, call[d].mandatory)
  BY Zenon
<1>3. /\ call[d].message \in AnyMessage /\ call[d].mandatory \in BOOLEAN
      /\ call[d].cached \in Seq(Candidate)
  BY <1>0, Zenon DEF Call
<1>4. CASE replaced
  <2> DEFINE c == [Idle EXCEPT !.pc = "load", !.message = call[d].message]
  <2>1. call' = [call EXCEPT ![d] = c]
    BY <1>4, Zenon DEF Try
  <2>2. c \in Call /\ c.pc = "load" /\ c.cached = <<>>
    BY <1>3, IdleType, Zenon DEF Call
  <2> HIDE DEF c
  <2>3. /\ call' \in [Discoverers -> Call] /\ call'[d] = c
        /\ \A x \in Discoverers : x # d => call'[x] = call[x]
    BY <2>1, <2>2, Update, Zenon DEF RegistryInv
  <2>4. CallInv(d)'
    BY <2>2, <2>3 DEF CallInv
  <2> QED  BY <1>1, <2>2, <2>3, <2>4, Quiet, Zenon DEF registryVars
<1>5. CASE ~replaced
  <2>0. PICK c : c = [call[d] EXCEPT !.pc = "returned", !.user = found]
    BY Zenon
  <2> DEFINE able == {i \in DOMAIN Users(d) : Decrypts(Users(d), call[d].message, i)}
             hinted == {i \in able : Hinted(Users(d), call[d].message, i)}
  <2>1. /\ call' = [call EXCEPT ![d] = c]
        /\ found # NoUser => [gen |-> call[d].generation, key |-> Key(d), id |-> found] \in authenticated'
    BY <1>2, <1>5, <2>0, Zenon DEF Try
  <2>2. Users(d) \in Users0
    <3>1. generations \in Seq(Users0)
      BY Zenon DEF RegistryInv, RegistryTypes
    <3> QED  BY <1>0, <3>1 DEF Users, Generation
  <2>3. DOMAIN ids \subseteq Nat
    BY <1>3
  <2>4. /\ hinted # {} => found \in hinted
        /\ hinted = {} /\ (call[d].mandatory \/ able = {}) => found = NoUser
        /\ hinted = {} /\ ~call[d].mandatory /\ able # {} => found \in able
    <3> HIDE DEF ids
    <3>1. able = {i \in DOMAIN Users(d) : Decrypts(Users(d), call[d].message, i)}
      BY Zenon
    <3>2. hinted = {i \in able : Hinted(Users(d), call[d].message, i)}
      BY Zenon
    <3> HIDE DEF able, hinted
    <3> QED  BY <1>2, <1>3, <2>2, <2>3, <3>1, <3>2, TryFacts
  <2>5. found \in Nat
    <3>1. DOMAIN Users(d) \subseteq Nat
      BY <2>2, PositiveIDs, Zenon
    <3>2. NoUser \in Nat
      BY Zenon DEF NoUser
    <3> QED  BY <2>4, <3>1, <3>2, Zenon
  <2>6. /\ c \in Call /\ c.pc = "returned" /\ c.cached = call[d].cached /\ c.user = found
        /\ c.generation = call[d].generation /\ c.message = call[d].message
        /\ c.mandatory = call[d].mandatory
    BY <1>0, <2>0, <2>5, Zenon DEF Call
  <2>7. /\ call' \in [Discoverers -> Call] /\ call'[d] = c
        /\ \A x \in Discoverers : x # d => call'[x] = call[x]
    BY <2>1, <2>6, Update, Zenon DEF RegistryInv
  <2>8. /\ call'[d].generation \in Generation' /\ Key(d)' = Key(d) /\ Users(d)' = Users(d)
    BY <1>0, <1>1, <2>6, <2>7, Zenon DEF Generation, Key, Users, registryVars
  <2>9. Identity(d)'
    <3>1. /\ call'[d].user = found /\ call'[d].message = call[d].message
          /\ call'[d].mandatory = call[d].mandatory
      BY <2>6, <2>7, Zenon
    <3>2. able = {i \in DOMAIN Users(d)' : Decrypts(Users(d), call[d].message, i)'}
      BY <2>8, <3>1, Zenon DEF Decrypts
    <3>3. hinted = {i \in able : Hinted(Users(d), call[d].message, i)'}
      BY <2>8, <3>1, Zenon DEF Hinted
    <3> DEFINE allowed == IF hinted # {} \/ call[d].mandatory THEN hinted ELSE able
    <3>4. IF allowed = {} THEN found = NoUser ELSE found \in allowed
      BY <1>3, <2>4, Zenon
    <3> HIDE DEF able, hinted
    <3> QED  BY <3>1, <3>2, <3>3, <3>4, Zenon DEF Identity
  <2>10. \A i \in 1 .. Len(c.cached) : Auth(c.generation, Key(d), c.cached[i].id)'
    BY <1>0, <1>1, <2>6, <2>8, Zenon DEF CallInv, Auth
  <2>11. c.user # NoUser => Auth(c.generation, Key(d), c.user)'
    BY <2>1, <2>6, <2>8, Zenon DEF Auth
  <2>12. CallInv(d)'
    BY <2>6, <2>7, <2>8, <2>9, <2>10, <2>11, Zenon DEF CallInv
  <2> QED  BY <1>1, <2>6, <2>7, <2>12, Quiet, Zenon DEF registryVars
<1> QED  BY <1>4, <1>5, Zenon

\* What Discover has returned is dropped, or recorded under its generation.
LEMMA RecordKeeps ==
    ASSUME RegistryInv, NEW d \in Discoverers, Record(d)
    PROVE  RegistryInv'
<1>1. /\ call[d] \in Call /\ CallInv(d) /\ call[d].pc = "returned" /\ call[d].user # NoUser
      /\ UNCHANGED <<registryVars, ways, entries, now, authenticated>>
  BY Zenon DEF RegistryInv, RegistryTypes, Record, RecordInto, cacheVars, historyVars
<1>0. PICK c : c = [Idle EXCEPT !.pc = "lock", !.message = call[d].message,
                                !.generation = call[d].generation, !.user = call[d].user]
  BY Zenon
<1> DEFINE dropped == Key(d) = NoSource \/ ~table[call[d].generation]
<1>2. CASE dropped
  <2>1. call' = [call EXCEPT ![d] = Idle]
    BY <1>2, Zenon DEF Record, RecordInto
  <2> QED  BY <1>1, <2>1, Rests, Zenon
<1>3. CASE ~dropped
  <2>1. call' = [call EXCEPT ![d] = c]
    BY <1>0, <1>3, Zenon DEF Record, RecordInto
  <2>2. /\ call[d].message \in AnyMessage /\ call[d].generation \in Nat /\ call[d].user \in Nat
    BY <1>1, Zenon DEF Call
  <2>3. /\ c \in Call /\ c.pc = "lock" /\ c.cached = <<>> /\ c.user = call[d].user
        /\ c.generation = call[d].generation /\ c.message = call[d].message
    BY <1>0, <2>2, IdleType, Zenon DEF Call
  <2>4. /\ call' \in [Discoverers -> Call] /\ call'[d] = c
        /\ \A x \in Discoverers : x # d => call'[x] = call[x]
    BY <2>1, <2>3, Update, Zenon DEF RegistryInv
  <2>5. /\ call'[d].generation \in Generation' /\ Auth(c.generation, Key(d), c.user)'
    BY <1>1, <2>3, <2>4, Zenon DEF CallInv, Generation, Key, Auth, registryVars
  <2>6. CallInv(d)'
    BY <2>3, <2>4, <2>5 DEF CallInv
  <2> QED  BY <1>1, <2>3, <2>4, <2>6, Quiet, Zenon DEF registryVars
<1> QED  BY <1>2, <1>3, Zenon

\* The lock of the bucket is taken.
LEMMA LockKeeps ==
    ASSUME RegistryInv, NEW d \in Discoverers, Lock(d)
    PROVE  RegistryInv'
<1>1. /\ call[d] \in Call /\ CallInv(d) /\ call[d].pc = "lock" /\ call \in [Discoverers -> Call]
      /\ CurrentTick \in Tick
      /\ UNCHANGED <<registryVars, ways, entries, now, authenticated>>
  BY TickType, Zenon DEF RegistryInv, RegistryTypes, Lock, historyVars
<1>0. PICK c : c = [call[d] EXCEPT !.pc = "store", !.tick = CurrentTick]
  BY Zenon
<1>2. call' = [call EXCEPT ![d] = c]
  BY <1>0, <1>1, Zenon DEF Lock, Call
<1>3. /\ c \in Call /\ c.pc = "store" /\ c.cached = call[d].cached /\ c.user = call[d].user
      /\ c.generation = call[d].generation /\ c.message = call[d].message
  BY <1>0, <1>1, Zenon DEF Call
<1>4. /\ call' \in [Discoverers -> Call] /\ call'[d] = c
      /\ \A x \in Discoverers : x # d => call'[x] = call[x]
  BY <1>2, <1>3, Update, Zenon DEF RegistryInv
<1>5. /\ call'[d].generation \in Generation' /\ Key(d)' = Key(d)
      /\ c.user # NoUser => Auth(c.generation, Key(d), c.user)'
  BY <1>1, <1>3, <1>4, Zenon DEF CallInv, Generation, Key, Auth, registryVars
<1>6. \A i \in 1 .. Len(c.cached) : Auth(c.generation, Key(d), c.cached[i].id)'
  BY <1>1, <1>3, <1>5, Zenon DEF CallInv, Auth
<1>7. CallInv(d)'
  BY <1>3, <1>4, <1>5, <1>6, Zenon DEF CallInv
<1> QED  BY <1>1, <1>3, <1>4, <1>7, Quiet, Zenon DEF registryVars

-----------------------------------------------------------------------------
(* Steps that change the users, the clock or the cache.                    *)

\* A step of which the calls of the other goroutines take no notice.
LEMMA OthersKept ==
    ASSUME RegistryInv, Grows, RegistryTypes', OwnerInv',
           \A d \in Discoverers : CallInv(d)' \/ call'[d] = call[d]
    PROVE  RegistryInv'
<1>1. \A d \in Discoverers : CallInv(d)'
  <2> SUFFICES ASSUME NEW d \in Discoverers PROVE CallInv(d)'
    BY Zenon
  <2>1. CASE call'[d] = call[d]
    BY <2>1, CallKept, Zenon DEF RegistryInv
  <2> QED  BY <2>1, Zenon
<1> QED  BY <1>1, Zenon DEF RegistryInv

\* The next user map is compiled and published.
LEMMA SetUsersKeeps ==
    ASSUME RegistryInv, SetUsers
    PROVE  RegistryInv'
<1>1. PICK owner \in [1 .. Len(entries) -> Nat] : Owned(owner)
  BY Zenon DEF RegistryInv, OwnerInv
<1>2. /\ generations \in Seq(Users0) /\ ways \in Seq([1 .. Ways -> Nat]) /\ Len(ways) = Len(generations)
      /\ UNCHANGED <<hintMandatory, entries, now, call, authenticated>>
  BY Zenon DEF RegistryInv, RegistryTypes, SetUsers, historyVars
<1>3. BuildState(UserMaps[Current + 1]) \in Users0
  <2>1. Current + 1 \in 1 .. Len(UserMaps)
    BY <1>2, RegistryAssumption DEF SetUsers, Current, RegistryAssumption
  <2> QED  BY <2>1, Zenon DEF Users0
<1>4. PICK new : /\ new \in [1 .. Ways -> Nat] /\ ways' = Append(ways, new)
                 /\ \A w \in 1 .. Ways : new[w] = NoEntry
  <2>1. [w \in 1 .. Ways |-> NoEntry] \in [1 .. Ways -> Nat]
    BY Zenon DEF NoEntry
  <2>2. \A w \in 1 .. Ways : [v \in 1 .. Ways |-> NoEntry][w] = NoEntry
    BY Zenon
  <2>3. ways' = Append(ways, [w \in 1 .. Ways |-> NoEntry])
    BY Zenon DEF SetUsers
  <2> QED  BY <2>1, <2>2, <2>3, Zenon
<1>5. PICK users : users \in Users0 /\ generations' = Append(generations, users)
  BY <1>3, Zenon DEF SetUsers
<1>6. /\ generations' \in Seq(Users0) /\ ways' \in Seq([1 .. Ways -> Nat])
      /\ Len(ways') = Len(generations')
      /\ Generation' = 1 .. Len(generations) + 1 /\ Generation = 1 .. Len(generations)
      /\ \A g \in Generation : generations'[g] = generations[g] /\ ways'[g] = ways[g]
      /\ ways'[Len(generations) + 1] = new
  BY <1>2, <1>4, <1>5 DEF Generation
<1>7. /\ Generation \subseteq Generation'
      /\ \A g \in Generation' : g \in Generation \/ g = Len(generations) + 1
  BY <1>2, <1>6
<1>8. Grows
  BY <1>2, <1>6, <1>7, Zenon DEF Grows
<1>9. RegistryTypes'
  BY <1>2, <1>6, Zenon DEF RegistryInv, RegistryTypes
<1>10. Owned(owner)'
  <2>1. ASSUME NEW g \in Generation', NEW w \in 1 .. Ways, ways'[g][w] # NoEntry
        PROVE  ways'[g][w] \in 1 .. Len(entries') /\ owner[ways'[g][w]] = g
    <3>1. g \in Generation /\ ways'[g] = ways[g]
      BY <1>4, <1>6, <1>7, <2>1, Zenon
    <3>2. ways[g][w] \in 1 .. Len(entries) /\ owner[ways[g][w]] = g
      BY <1>1, <2>1, <3>1, Zenon DEF Owned
    <3> QED  BY <1>2, <3>1, <3>2, Zenon
  <2>2. \A e \in 1 .. Len(entries), i \in 1 .. Slots : entries[e].users[i].id # NoUser =>
           Auth(owner[e], entries[e].key, entries[e].users[i].id)'
    BY <1>1, <1>2, Zenon DEF Owned, Auth
  <2> QED  BY <1>1, <1>2, <2>1, <2>2, Zenon DEF Owned
<1>11. OwnerInv'
  BY <1>2, <1>10, Zenon DEF OwnerInv
<1> QED  BY <1>2, <1>8, <1>9, <1>11, OthersKept, Zenon

\* Steps that leave the users, the cache and the calls alone.
LEMMA IdleSteps ==
    ASSUME RegistryInv, UNCHANGED <<generations, ways, entries, call, authenticated>>,
           hintMandatory' \in BOOLEAN, now' \in Nat
    PROVE  RegistryInv'
<1>1. Grows
  BY Zenon DEF Grows, Generation
<1>2. RegistryTypes'
  BY Zenon DEF RegistryInv, RegistryTypes
<1>3. PICK owner \in [1 .. Len(entries) -> Nat] : Owned(owner)
  BY Zenon DEF RegistryInv, OwnerInv
<1>4. Owned(owner)'
  BY <1>3, Zenon DEF Owned, Auth, Generation
<1> QED  BY <1>1, <1>2, <1>3, <1>4, OthersKept, Zenon DEF OwnerInv

\* A step that rewrites one entry of the cache, keeping its key.
LEMMA RewriteKeeps ==
    ASSUME RegistryInv, NEW d \in Discoverers, NEW c \in Call, c.pc \in {"idle", "active"},
           call' = [call EXCEPT ![d] = c], CallInv(d)',
           UNCHANGED <<registryVars, ways, now, authenticated>>,
           entries' \in Seq(Entry), Len(entries') = Len(entries),
           \A e \in 1 .. Len(entries) : entries'[e].key = entries[e].key,
           NEW owner \in [1 .. Len(entries) -> Nat], Owned(owner),
           \A e \in 1 .. Len(entries), i \in 1 .. Slots : entries'[e].users[i].id # NoUser =>
              Auth(owner[e], entries[e].key, entries'[e].users[i].id)
    PROVE  RegistryInv'
<1>1. /\ call' \in [Discoverers -> Call] /\ call'[d] = c
      /\ \A x \in Discoverers : x # d => call'[x] = call[x]
  BY Update, Zenon DEF RegistryInv
<1>2. Grows
  BY Zenon DEF Grows, Generation, registryVars
<1>3. RegistryTypes'
  BY <1>1, Zenon DEF RegistryInv, RegistryTypes, registryVars
<1>4. Owned(owner)'
  <2>1. \A g \in Generation', w \in 1 .. Ways : ways'[g][w] # NoEntry =>
            ways'[g][w] \in 1 .. Len(entries') /\ owner[ways'[g][w]] = g
    BY Zenon DEF Owned, Generation, registryVars
  <2>2. \A x \in Discoverers : call'[x].pc = "slot" => owner[call'[x].entry] = call'[x].generation
    <3>1. \A x \in Discoverers : x # d => (call[x].pc = "slot" => owner[call[x].entry] = call[x].generation)
      BY Zenon DEF Owned
    <3>2. call'[d].pc # "slot"
      BY <1>1, Zenon
    <3> QED  BY <1>1, <3>1, <3>2, Zenon
  <2>3. \A e \in 1 .. Len(entries'), i \in 1 .. Slots : entries'[e].users[i].id # NoUser =>
            Auth(owner[e], entries[e].key, entries[e].users[i].id)'
    BY Zenon DEF Auth
  <2> QED  BY <2>1, <2>2, <2>3, Zenon DEF Owned
<1>5. OwnerInv'
  BY <1>4, Zenon DEF OwnerInv
<1> QED  BY <1>1, <1>2, <1>3, <1>5, OthersKept, Zenon

\* A slot of the entry of the source is given to the user.
LEMMA StoreUserKeeps ==
    ASSUME RegistryInv, NEW d \in Discoverers, StoreUser(d)
    PROVE  RegistryInv'
<1>1. /\ call[d] \in Call /\ CallInv(d) /\ call[d].pc = "store" /\ call[d].generation \in Generation
      /\ call \in [Discoverers -> Call] /\ entries \in Seq(Entry)
      /\ UNCHANGED <<registryVars, ways, now, authenticated>>
  BY Zenon DEF RegistryInv, RegistryTypes, StoreUser, CallInv
<1>2. PICK owner \in [1 .. Len(entries) -> Nat] : Owned(owner)
  BY Zenon DEF RegistryInv, OwnerInv
<1>3. PICK w \in 1 .. Ways : w = FirstOf(MatchingWays(d)) /\ w \in MatchingWays(d)
  <2>1. MatchingWays(d) \in SUBSET Nat /\ MatchingWays(d) # {}
    <3>1. 1 .. Ways \subseteq Nat
      BY RegistryAssumption DEF RegistryAssumption
    <3> QED  BY <3>1, Zenon DEF StoreUser, MatchingWays
  <2> QED  BY <2>1, FirstInside, Zenon DEF MatchingWays
<1>4. PICK e : e = ways[call[d].generation][w] /\ e # NoEntry /\ entries[e].key = Key(d)
  BY <1>3, Zenon DEF MatchingWays, Bucket
<1>5. e \in 1 .. Len(entries) /\ owner[e] = call[d].generation
  BY <1>1, <1>2, <1>4, Zenon DEF Owned
<1>6. PICK slot : slot = SelectSlot(entries[e].users, call[d].user, call[d].tick)
  BY Zenon
<1>7. PICK x : x = [id |-> call[d].user, tick |-> call[d].tick]
  BY Zenon
<1>8. /\ entries' = [entries EXCEPT ![e].users[slot] = x]
      /\ call' = [call EXCEPT ![d].pc = "active", ![d].entry = e]
  BY <1>3, <1>4, <1>6, <1>7, Zenon DEF StoreUser, Bucket
<1>9. PICK c : c = [call[d] EXCEPT !.pc = "active", !.entry = e]
  BY Zenon
<1>10. /\ call' = [call EXCEPT ![d] = c]
       /\ c \in Call /\ c.pc = "active" /\ c.cached = call[d].cached
       /\ c.generation = call[d].generation /\ c.message = call[d].message
  <2>1. call' = [call EXCEPT ![d] = c]
    BY <1>1, <1>8, <1>9, Zenon DEF Call
  <2>2. e \in Nat
    BY <1>5
  <2> QED  BY <1>1, <1>9, <2>1, <2>2, Zenon DEF Call
<1>11. x \in Slot /\ x.id = call[d].user
  BY <1>1, <1>7, Zenon DEF Call, Slot
<1>12. PICK users : users = [entries[e].users EXCEPT ![slot] = x]
  BY Zenon
<1>13. /\ entries[e] \in Entry /\ entries[e].users \in [1 .. Slots -> Slot]
  <2>1. entries[e] \in Entry
    BY <1>1, <1>5
  <2> QED  BY <2>1, Zenon DEF Entry
<1>14. /\ users \in [1 .. Slots -> Slot]
       /\ \A i \in 1 .. Slots : users[i] = x \/ users[i] = entries[e].users[i]
  BY <1>11, <1>12, <1>13, Zenon
<1>15. PICK new : new = [entries[e] EXCEPT !.users = users]
  BY Zenon
<1>16. new \in Entry /\ new.key = entries[e].key /\ new.users = users
  BY <1>13, <1>14, <1>15, Zenon DEF Entry
<1>17. entries' = [entries EXCEPT ![e] = new]
  BY <1>1, <1>5, <1>8, <1>12, <1>13, <1>15, Zenon DEF Entry
<1>18. /\ entries' \in Seq(Entry) /\ Len(entries') = Len(entries) /\ entries'[e] = new
       /\ \A f \in 1 .. Len(entries) : f # e => entries'[f] = entries[f]
  BY <1>1, <1>5, <1>16, <1>17
<1>19. \A f \in 1 .. Len(entries) : entries'[f].key = entries[f].key
  BY <1>16, <1>18, Zenon
<1>20. \A f \in 1 .. Len(entries), i \in 1 .. Slots : entries'[f].users[i].id # NoUser =>
           Auth(owner[f], entries[f].key, entries'[f].users[i].id)
  <2> SUFFICES ASSUME NEW f \in 1 .. Len(entries), NEW i \in 1 .. Slots, entries'[f].users[i].id # NoUser
               PROVE  Auth(owner[f], entries[f].key, entries'[f].users[i].id)
    BY Zenon
  <2>1. entries[f].users[i].id # NoUser => Auth(owner[f], entries[f].key, entries[f].users[i].id)
    BY <1>2, Zenon DEF Owned
  <2>2. CASE f # e
    BY <1>18, <2>1, <2>2, Zenon
  <2>3. CASE f = e
    <3>1. entries'[f].users[i] = users[i]
      BY <1>16, <1>18, <2>3, Zenon
    <3>2. CASE users[i] = entries[e].users[i]
      BY <2>1, <2>3, <3>1, <3>2, Zenon
    <3>3. CASE users[i] = x
      <4>1. call[d].user # NoUser
        BY <1>11, <3>1, <3>3, Zenon
      <4>2. Auth(call[d].generation, Key(d), call[d].user)
        BY <1>1, <4>1, Zenon DEF CallInv
      <4> QED  BY <1>4, <1>5, <1>11, <2>3, <3>1, <3>3, <4>2, Zenon
    <3> QED  BY <1>14, <3>2, <3>3, Zenon
  <2> QED  BY <2>2, <2>3, Zenon
<1>21. CallInv(d)'
  <2>1. call'[d] = c
    BY <1>1, <1>10, Zenon
  <2>2. c.generation \in Generation' /\ Key(d)' = Key(d)
    BY <1>1, <1>10, <2>1, Zenon DEF Generation, Key, registryVars
  <2>3. \A i \in 1 .. Len(c.cached) : Auth(c.generation, Key(d), c.cached[i].id)'
    BY <1>1, <1>10, <2>2, Zenon DEF CallInv, Auth
  <2> QED  BY <1>10, <2>1, <2>2, <2>3, Zenon DEF CallInv
<1> QED  BY <1>1, <1>2, <1>10, <1>18, <1>19, <1>20, <1>21, RewriteKeeps, Zenon

\* The entry is marked active and the lock released.
LEMMA StoreActiveKeeps ==
    ASSUME RegistryInv, NEW d \in Discoverers, StoreActive(d)
    PROVE  RegistryInv'
<1>1. /\ call[d] \in Call /\ call \in [Discoverers -> Call] /\ entries \in Seq(Entry)
      /\ UNCHANGED <<registryVars, ways, now, authenticated>>
      /\ call' = [call EXCEPT ![d] = Idle]
      /\ entries' = [entries EXCEPT ![call[d].entry].lastActive = call[d].tick]
  BY Zenon DEF RegistryInv, RegistryTypes, StoreActive, historyVars
<1>2. PICK owner \in [1 .. Len(entries) -> Nat] : Owned(owner)
  BY Zenon DEF RegistryInv, OwnerInv
<1>3. PICK e, t : e = call[d].entry /\ t = call[d].tick /\ t \in Tick /\ e \in Nat
  BY <1>1, Zenon DEF Call
<1>4. entries' = [entries EXCEPT ![e].lastActive = t]
  BY <1>1, <1>3, Zenon
<1>5. \A f \in 1 .. Len(entries) : entries[f] \in Entry
  BY <1>1
<1>6. /\ DOMAIN entries' = 1 .. Len(entries) /\ Len(entries) \in Nat
      /\ \A f \in 1 .. Len(entries) : entries'[f] = entries[f] \/ entries'[f] = [entries[f] EXCEPT !.lastActive = t]
  <2>1. DOMAIN entries = 1 .. Len(entries) /\ Len(entries) \in Nat
    BY <1>1
  <2> QED  BY <1>4, <2>1, Zenon
<1>7. \A f \in 1 .. Len(entries) : /\ entries'[f] \in Entry /\ entries'[f].key = entries[f].key
                                   /\ entries'[f].users = entries[f].users
  <2> SUFFICES ASSUME NEW f \in 1 .. Len(entries)
               PROVE  /\ entries'[f] \in Entry /\ entries'[f].key = entries[f].key
                      /\ entries'[f].users = entries[f].users
    BY Zenon
  <2>1. entries[f] \in Entry /\ (entries'[f] = entries[f] \/ entries'[f] = [entries[f] EXCEPT !.lastActive = t])
    BY <1>5, <1>6, Zenon
  <2> QED  BY <1>3, <2>1, Zenon DEF Entry
<1>8. entries' \in Seq(Entry) /\ Len(entries') = Len(entries)
  <2>1. entries' = [f \in 1 .. Len(entries) |-> entries'[f]]
    BY <1>4, <1>6, Zenon
  <2>2. entries' \in [1 .. Len(entries) -> Entry]
    BY <1>7, <2>1, Zenon
  <2>3. entries' \in Seq(Entry)
    BY <1>6, <2>2, SeqOf, Zenon
  <2> QED  BY <1>6, <2>3
<1>9. \A f \in 1 .. Len(entries), i \in 1 .. Slots : entries'[f].users[i].id # NoUser =>
          Auth(owner[f], entries[f].key, entries'[f].users[i].id)
  BY <1>2, <1>7, Zenon DEF Owned
<1>10. CallInv(d)'
  <2>1. call'[d] = Idle
    BY <1>1, Zenon
  <2> QED  BY <2>1, IdleType DEF CallInv
<1> QED  BY <1>1, <1>2, <1>7, <1>8, <1>9, <1>10, IdleType, RewriteKeeps, Zenon

\* A new entry is published in a way of the bucket.
LEMMA StoreEntryKeeps ==
    ASSUME RegistryInv, NEW d \in Discoverers, StoreEntry(d)
    PROVE  RegistryInv'
<1>1. /\ call[d] \in Call /\ CallInv(d) /\ call[d].pc = "store" /\ call[d].generation \in Generation
      /\ call \in [Discoverers -> Call] /\ entries \in Seq(Entry)
      /\ ways \in Seq([1 .. Ways -> Nat]) /\ Len(ways) = Len(generations)
      /\ UNCHANGED <<registryVars, now, authenticated>>
      /\ call' = [call EXCEPT ![d] = Idle]
  BY Zenon DEF RegistryInv, RegistryTypes, StoreEntry, CallInv
<1>2. PICK owner \in [1 .. Len(entries) -> Nat] : Owned(owner)
  BY Zenon DEF RegistryInv, OwnerInv
<1>3. PICK g, first : /\ g = call[d].generation
                      /\ first = [id |-> call[d].user, tick |-> call[d].tick]
  BY Zenon
<1>4. PICK fresh : fresh = [key |-> Key(d), lastActive |-> call[d].tick,
                            users |-> [i \in 1 .. Slots |-> IF i = 1 THEN first ELSE Empty]]
  BY Zenon
<1>5. PICK v, n : v = SelectWay(Bucket(d), call[d].tick) /\ n = Len(entries) + 1
  BY Zenon
<1>6. /\ entries' = Append(entries, fresh)
      /\ ways' = [ways EXCEPT ![g][v] = n]
  BY <1>3, <1>4, <1>5, Zenon DEF StoreEntry
<1>7. /\ first \in Slot /\ first.id = call[d].user /\ Empty \in Slot /\ Empty.id = NoUser
      /\ call[d].tick \in Tick /\ call[d].message \in AnyMessage
  BY <1>1, <1>3, RegistryAssumption, SMTT(30) DEF RegistryAssumption, Call, Slot, Empty, NoUser, Tick
<1>8. /\ fresh \in Entry /\ fresh.key = Key(d)
      /\ \A i \in 1 .. Slots : fresh.users[i] = first \/ fresh.users[i] = Empty
  <2>1. [i \in 1 .. Slots |-> IF i = 1 THEN first ELSE Empty] \in [1 .. Slots -> Slot]
    BY <1>7, Zenon
  <2>2. Key(d) \in {m.source : m \in AnyMessage}
    BY <1>7, Zenon DEF Key
  <2>3. fresh \in Entry
    BY <1>4, <1>7, <2>1, <2>2, Zenon DEF Entry
  <2> QED  BY <1>4, <2>3, Zenon
<1>9. /\ entries' \in Seq(Entry) /\ Len(entries') = n /\ entries'[n] = fresh
      /\ n = Len(entries) + 1 /\ Len(entries) \in Nat
      /\ \A e \in 1 .. Len(entries) : entries'[e] = entries[e]
  BY <1>1, <1>5, <1>6, <1>8
<1>10. /\ n \in Nat /\ n # NoEntry /\ 1 .. Len(entries) \subseteq 1 .. Len(entries')
       /\ \A e \in 1 .. Len(entries') : e \in 1 .. Len(entries) \/ e = n
       /\ n \in 1 .. Len(entries') /\ n \notin 1 .. Len(entries)
  BY <1>9 DEF NoEntry
<1>11. g \in 1 .. Len(ways) /\ Generation = 1 .. Len(ways) /\ ways[g] \in [1 .. Ways -> Nat]
       /\ g \in Nat
  BY <1>1, <1>3 DEF Generation
<1>12. PICK bucket : bucket = [ways[g] EXCEPT ![v] = n]
  BY Zenon
<1>13. /\ bucket \in [1 .. Ways -> Nat]
       /\ \A w \in 1 .. Ways : bucket[w] = n \/ bucket[w] = ways[g][w]
  BY <1>10, <1>11, <1>12, Zenon
<1>14. ways' = [ways EXCEPT ![g] = bucket]
  BY <1>1, <1>6, <1>11, <1>12, Zenon
<1>15. /\ ways' \in Seq([1 .. Ways -> Nat]) /\ Len(ways') = Len(ways) /\ ways'[g] = bucket
       /\ \A h \in Generation : h # g => ways'[h] = ways[h]
  BY <1>1, <1>11, <1>13, <1>14
<1>16. /\ call' \in [Discoverers -> Call] /\ call'[d] = Idle
       /\ \A x \in Discoverers : x # d => call'[x] = call[x]
  BY <1>1, IdleType, Update, Zenon DEF RegistryInv
<1>17. RegistryTypes'
  BY <1>1, <1>9, <1>15, <1>16, Zenon DEF RegistryInv, RegistryTypes, registryVars
<1>18. Grows
  BY <1>1, <1>9, <1>10, Zenon DEF Grows, Generation, registryVars
<1>19. PICK own : own = [e \in 1 .. Len(entries') |-> IF e = n THEN g ELSE owner[e]]
  BY Zenon
<1>20. /\ own \in [1 .. Len(entries') -> Nat] /\ own[n] = g
       /\ \A e \in 1 .. Len(entries) : own[e] = owner[e]
  BY <1>2, <1>10, <1>11, <1>19, Zenon
<1>21. Owned(own)'
  <2>1. ASSUME NEW h \in Generation, NEW w \in 1 .. Ways, ways'[h][w] # NoEntry
        PROVE  ways'[h][w] \in 1 .. Len(entries') /\ own[ways'[h][w]] = h
    <3>1. ways[h][w] # NoEntry => ways[h][w] \in 1 .. Len(entries) /\ owner[ways[h][w]] = h
      BY <1>2, Zenon DEF Owned
    <3>2. CASE ways'[h][w] = ways[h][w]
      <4>1. PICK e : e = ways[h][w]
        BY Zenon
      <4>2. e \in 1 .. Len(entries) /\ owner[e] = h
        BY <2>1, <3>1, <3>2, <4>1, Zenon
      <4>3. e \in 1 .. Len(entries') /\ own[e] = h
        BY <1>10, <1>20, <4>2, Zenon
      <4> QED  BY <3>2, <4>1, <4>3, Zenon
    <3>3. CASE h = g /\ ways'[h][w] = n
      BY <1>10, <1>20, <3>3, Zenon
    <3> QED  BY <1>13, <1>15, <3>2, <3>3, Zenon
  <2>2. \A x \in Discoverers : call'[x].pc = "slot" => own[call'[x].entry] = call'[x].generation
    <3> SUFFICES ASSUME NEW x \in Discoverers, call'[x].pc = "slot"
                 PROVE  own[call'[x].entry] = call'[x].generation
      BY Zenon
    <3>1. x # d /\ call'[x] = call[x]
      BY <1>16, IdleType, Zenon
    <3>2. call[x].entry \in 1 .. Len(entries) /\ owner[call[x].entry] = call[x].generation
      BY <1>2, <3>1, Zenon DEF Owned, RegistryInv, CallInv
    <3> QED  BY <1>20, <3>1, <3>2, Zenon
  <2>3. ASSUME NEW e \in 1 .. Len(entries'), NEW i \in 1 .. Slots, entries'[e].users[i].id # NoUser
        PROVE  Auth(own[e], entries'[e].key, entries'[e].users[i].id)
    <3>1. CASE e \in 1 .. Len(entries)
      BY <1>2, <1>9, <1>20, <2>3, <3>1, Zenon DEF Owned
    <3>2. CASE e = n
      <4>1. entries'[e] = fresh /\ fresh.users[i] = first
        BY <1>7, <1>8, <1>9, <2>3, <3>2, Zenon
      <4>2. call[d].user # NoUser
        BY <1>7, <2>3, <4>1, Zenon
      <4>3. Auth(g, Key(d), call[d].user)
        BY <1>1, <1>3, <4>2, Zenon DEF CallInv
      <4> QED  BY <1>7, <1>8, <1>20, <3>2, <4>1, <4>3, Zenon
    <3> QED  BY <1>10, <3>1, <3>2, Zenon
  <2>4. \A e \in 1 .. Len(entries'), i \in 1 .. Slots : entries'[e].users[i].id # NoUser =>
            Auth(own[e], entries[e].key, entries[e].users[i].id)'
    BY <1>1, <2>3, Zenon DEF Auth
  <2>5. Generation' = Generation
    BY <1>1, Zenon DEF Generation, registryVars
  <2> QED  BY <2>1, <2>2, <2>4, <2>5, Zenon DEF Owned
<1>22. OwnerInv'
  BY <1>20, <1>21, Zenon DEF OwnerInv
<1>23. CallInv(d)'
  BY <1>16, IdleType DEF CallInv
<1> QED  BY <1>16, <1>17, <1>18, <1>22, <1>23, OthersKept, Zenon

-----------------------------------------------------------------------------
(* The theorems about the user registry.                                   *)

\* A new registry has no users.
LEMMA RegistryInit == Init => RegistryInv
<1> SUFFICES ASSUME Init PROVE RegistryInv
  BY Zenon
<1>1. RegistryTypes
  <2>1. /\ generations = <<>> /\ ways = <<>> /\ entries = <<>> /\ now = 0 /\ hintMandatory \in BOOLEAN
        /\ call = [d \in Discoverers |-> Idle]
    BY Zenon DEF Init
  <2>2. call \in [Discoverers -> Call]
    BY <2>1, IdleType, Zenon
  <2> QED  BY <2>1, <2>2 DEF RegistryTypes
<1>2. OwnerInv
  <2>1. Generation = {} /\ 1 .. Len(entries) = {}
    BY DEF Init, Generation
  <2>2. \A d \in Discoverers : call[d].pc # "slot"
    BY IdleType, Zenon DEF Init
  <2>3. \E owner : owner \in [1 .. Len(entries) -> Nat]
    <3>1. [e \in 1 .. Len(entries) |-> 0] \in [1 .. Len(entries) -> Nat]
      BY Zenon
    <3> QED  BY <3>1, Zenon
  <2> QED  BY <2>1, <2>2, <2>3, Zenon DEF OwnerInv, Owned
<1>3. \A d \in Discoverers : CallInv(d)
  <2> SUFFICES ASSUME NEW d \in Discoverers PROVE CallInv(d)
    BY Zenon
  <2>1. call[d] = Idle
    BY Zenon DEF Init
  <2> QED  BY <2>1, IdleType DEF CallInv
<1> QED  BY <1>1, <1>2, <1>3, Zenon DEF RegistryInv

\* Every step of the registry and of the discoveries keeps the invariant.
LEMMA RegistryStep ==
    ASSUME RegistryInv, [Next]_vars
    PROVE  RegistryInv'
<1>1. CASE UNCHANGED vars
  <2>1. /\ UNCHANGED <<generations, ways, entries, call, authenticated>>
        /\ hintMandatory' = hintMandatory /\ now' = now
    BY <1>1, Zenon DEF vars, registryVars, cacheVars, historyVars
  <2> QED  BY <2>1, IdleSteps, Zenon DEF RegistryInv, RegistryTypes
<1>2. CASE SetUsers
  BY <1>2, SetUsersKeeps, Zenon
<1>3. ASSUME NEW g \in Generation, Retire(g)
      PROVE  RegistryInv'
  <2>1. /\ UNCHANGED <<generations, ways, entries, call, authenticated>>
        /\ hintMandatory' = hintMandatory /\ now' = now
    BY <1>3, Zenon DEF Retire, registryVars, historyVars
  <2> QED  BY <2>1, IdleSteps, Zenon DEF RegistryInv, RegistryTypes
<1>4. CASE SetHintMandatory
  <2>1. /\ UNCHANGED <<generations, ways, entries, call, authenticated>>
        /\ hintMandatory' \in BOOLEAN /\ now' = now
    BY <1>4, Zenon DEF SetHintMandatory, cacheVars, historyVars
  <2> QED  BY <2>1, IdleSteps, Zenon DEF RegistryInv, RegistryTypes
<1>5. CASE Pass
  <2>1. /\ UNCHANGED <<generations, ways, entries, call, authenticated>>
        /\ hintMandatory' = hintMandatory /\ now' = now + 1
    BY <1>5, Zenon DEF Pass, registryVars, cacheVars, historyVars
  <2>2. now' \in Nat
    BY <2>1 DEF RegistryInv, RegistryTypes
  <2> QED  BY <2>1, <2>2, IdleSteps, Zenon DEF RegistryInv, RegistryTypes
<1>6. ASSUME NEW d \in Discoverers, NEW m \in Messages, Discover(d, m)
      PROVE  RegistryInv'
  BY <1>6, LoadKeeps, Zenon DEF Discover, AnyMessage
<1>7. ASSUME NEW d \in Discoverers, Retry(d)
      PROVE  RegistryInv'
  <2>1. call[d].message \in AnyMessage
    BY Zenon DEF RegistryInv, RegistryTypes, Call
  <2> QED  BY <1>7, <2>1, LoadKeeps, Zenon DEF Retry
<1>8. ASSUME NEW d \in Discoverers, Discard(d)
      PROVE  RegistryInv'
  <2>1. UNCHANGED <<registryVars, ways, entries, now, authenticated>> /\ call' = [call EXCEPT ![d] = Idle]
    BY <1>8, Zenon DEF Discard, cacheVars, historyVars
  <2> QED  BY <2>1, Rests, Zenon
<1> QED
  BY <1>1, <1>2, <1>3, <1>4, <1>5, <1>6, <1>7, <1>8, TableKeeps, WayKeeps, SlotKeeps, TryKeeps,
     RecordKeeps, LockKeeps, StoreUserKeeps, StoreActiveKeeps, StoreEntryKeeps, ZenonT(60) DEF Next

\* The cache of a generation, and what a lookup has read from it without the
\* lock, names a user only for a source from which that user of that
\* generation has been authenticated, however discoveries, records and
\* replacements of the users interleave (recordAuthenticated, Lookup).
THEOREM CacheAuthenticity == Spec => []CacheIsAuthentic
<1>1. RegistryInv => CacheIsAuthentic
  <2> SUFFICES ASSUME RegistryInv PROVE CacheIsAuthentic
    BY Zenon
  <2>1. PICK owner \in [1 .. Len(entries) -> Nat] : Owned(owner)
    BY Zenon DEF RegistryInv, OwnerInv
  <2>2. ASSUME NEW g \in Generation, NEW w \in 1 .. Ways, ways[g][w] # NoEntry,
               NEW i \in 1 .. Slots, entries[ways[g][w]].users[i].id # NoUser
        PROVE  [gen |-> g, key |-> entries[ways[g][w]].key, id |-> entries[ways[g][w]].users[i].id]
                   \in authenticated
    <3>1. PICK e : e = ways[g][w]
      BY Zenon
    <3>2. e \in 1 .. Len(entries) /\ owner[e] = g
      BY <2>1, <2>2, <3>1, Zenon DEF Owned
    <3>3. Auth(owner[e], entries[e].key, entries[e].users[i].id)
      BY <2>1, <2>2, <3>1, <3>2, Zenon DEF Owned
    <3> QED  BY <3>1, <3>2, <3>3, Zenon DEF Auth
  <2>3. ASSUME NEW d \in Discoverers, NEW i \in DOMAIN call[d].cached
        PROVE  [gen |-> call[d].generation, key |-> Key(d), id |-> call[d].cached[i].id] \in authenticated
    <3>1. call[d].cached \in Seq(Candidate)
      BY Zenon DEF RegistryInv, RegistryTypes, Call
    <3>2. i \in 1 .. Len(call[d].cached)
      BY <3>1, SeqFacts, Zenon
    <3> QED  BY <3>2, Zenon DEF RegistryInv, CallInv, Auth
  <2> QED  BY <2>2, <2>3, Zenon DEF CacheIsAuthentic
<1>2. Spec => []RegistryInv
  BY RegistryInit, RegistryStep, PTL DEF Spec
<1> QED  BY <1>1, <1>2, PTL

\* Whatever the cache holds and whatever changes it during a lookup, the user
\* that Discover returns is one whom a search without a cache may return: a
\* user whose name matches the hint has precedence, and only a mandatory hint
\* makes the search fail when some user can decrypt (tryState).
THEOREM IdentityIsPreserved == Spec => []IdentityPreserved
<1>1. RegistryInv => IdentityPreserved
  BY Zenon DEF RegistryInv, CallInv, Identity, IdentityPreserved
<1>2. Spec => []RegistryInv
  BY RegistryInit, RegistryStep, PTL DEF Spec
<1> QED  BY <1>1, <1>2, PTL

-----------------------------------------------------------------------------
(* The replay cache.                                                       *)

\* The part of the type invariant the argument needs.
CacheTypes ==
    /\ time \in Nat /\ expireTime \in Nat
    /\ current \in [Signatures -> AnyTag \cup {Absent}]
    /\ previous \in [Signatures -> AnyTag \cup {Absent}]
    /\ last \in [Signatures -> Nat \cup {Never}]
    /\ since \in [Signatures -> SUBSET Signatures]
    /\ tags \in [Signatures -> SUBSET AnyTag]

Arrived(s) == last[s] # Never
InCurrent(s) == current[s] # Absent
InPrevious(s) == previous[s] # Absent

\* No arrival is later than the end of the current generation.  An entry of a
\* generation arrived in it, with the tag stored.  A packet that is not in the
\* current generation arrived before it; when it is in neither, enough others
\* have arrived since or enough time has passed.
Bounded(s) == Arrived(s) => last[s] <= time /\ (Capacity # 0 => last[s] <= expireTime)
FromCurrent(s) == InCurrent(s) => Arrived(s) /\ current[s] \in tags[s] /\ expireTime <= last[s] + ExpireInterval
FromPrevious(s) == InPrevious(s) => Arrived(s) /\ previous[s] \in tags[s] /\ expireTime <= last[s] + 3 * ExpireInterval
Older(s) == Entries(current) \subseteq since[s] /\ last[s] + ExpireInterval <= expireTime
Overtaken(s) == Capacity <= Cardinality(since[s]) \/ last[s] + ExpireInterval < time
Kept(s) == Arrived(s) => InCurrent(s) \/ (InPrevious(s) /\ Older(s)) \/ Overtaken(s)

CacheInv ==
    /\ CacheTypes
    /\ expireTime <= time + ExpireInterval
    /\ \A s \in Signatures : Bounded(s) /\ FromCurrent(s) /\ FromPrevious(s) /\ Kept(s)

\* A new cache is empty.
LEMMA CacheInit ==
  ASSUME ReplayInit
  PROVE  CacheInv
<1> USE ReplayAssumption DEF ReplayInit, EmptyMap, Never
<1>1. CacheTypes
  BY DEF CacheTypes
<1>2. \A s \in Signatures : ~Arrived(s) /\ ~InCurrent(s) /\ ~InPrevious(s)
  BY Zenon DEF Arrived, InCurrent, InPrevious
<1> QED BY <1>1, <1>2 DEF CacheInv, CacheTypes, Bounded, FromCurrent, FromPrevious, Kept

\* Clear empties the cache and what is asked of it.
LEMMA ClearKeeps ==
  ASSUME CacheInv, Clear
  PROVE  CacheInv'
<1> USE ReplayAssumption DEF Clear, EmptyMap, Never
<1>1. CacheTypes'
  BY Zenon DEF CacheInv, CacheTypes
<1>2. \A s \in Signatures : ~Arrived(s)' /\ ~InCurrent(s)' /\ ~InPrevious(s)'
  BY Zenon DEF Arrived, InCurrent, InPrevious
<1> QED BY <1>1, <1>2, Zenon DEF CacheInv, CacheTypes, Bounded, FromCurrent, FromPrevious, Kept

\* Time makes packets old.
LEMMA TickKeeps ==
  ASSUME CacheInv, ReplayTick
  PROVE  CacheInv'
BY ReplayAssumption DEF CacheInv, CacheTypes, ReplayTick, replayMaps, replayHistory, Arrived,
   InCurrent, InPrevious, Bounded,
       FromCurrent, FromPrevious, Older, Overtaken, Kept, Entries, Never

\* Sets of packets are finite, and a larger one has at least as many.
LEMMA CountGrows ==
  ASSUME NEW S \in SUBSET Signatures, NEW T \in SUBSET S
  PROVE  Cardinality(S) \in Nat /\ Cardinality(T) \in Nat /\ Cardinality(T) <= Cardinality(S)
<1>1. IsFiniteSet(S)
  BY FS_Subset, ReplayAssumption, Zenon
<1>2. IsFiniteSet(T) /\ Cardinality(T) <= Cardinality(S)
  BY <1>1, FS_Subset, Zenon
<1> QED BY <1>1, <1>2, FS_CardinalityType, Zenon

\* A packet that has not arrived with this call is where rotation left it, or
\* has been overtaken.
LEMMA RotationKeeps ==
  ASSUME CacheInv, Capacity # 0, NEW s \in Signatures, Arrived(s)
  PROVE  \/ CurrentNow[s] # Absent
         \/ /\ PreviousNow[s] # Absent /\ Entries(CurrentNow) \subseteq since[s]
            /\ last[s] + ExpireInterval <= ExpireTimeNow
         \/ Overtaken(s)
<1> USE ReplayAssumption DEF CacheInv, CacheTypes, Never
<1>1. CASE BothExpired
  BY <1>1 DEF BothExpired, Overtaken, Arrived, Bounded
<1>2. CASE Rotates
  <2>0. CurrentNow = EmptyMap /\ PreviousNow = current /\ ExpireTimeNow = time + ExpireInterval
    BY <1>2, Zenon DEF CurrentNow, PreviousNow, ExpireTimeNow, Rotates
  <2>1. CASE InCurrent(s)
    <3>1. Entries(EmptyMap) = {}
      BY Zenon DEF Entries, EmptyMap
    <3>2. last[s] <= time
      BY Zenon DEF Bounded
    <3> QED BY <2>0, <2>1, <3>1, <3>2 DEF InCurrent, Arrived
  <2>2. CASE Older(s)
    <3>1. CASE CurrentFull
      <4>1. Cardinality(Entries(current)) <= Cardinality(since[s])
            /\ Cardinality(since[s]) \in Nat /\ Cardinality(Entries(current)) \in Nat
        BY <2>2, CountGrows, Zenon DEF Older
      <4> QED BY <3>1, <4>1 DEF CurrentFull, Overtaken
    <3>2. CASE TimeToRotate
      BY <2>2, <3>2 DEF TimeToRotate, Older, Overtaken, Arrived
    <3> QED BY <1>2, <3>1, <3>2, Zenon DEF Rotates
  <2> QED BY <2>1, <2>2, Zenon DEF Kept
<1>3. CASE ~BothExpired /\ ~Rotates
  BY <1>3, Zenon DEF CurrentNow, PreviousNow, ExpireTimeNow, Kept, Older, InCurrent, InPrevious
<1> QED BY <1>1, <1>2, <1>3, Zenon

\* What an entry that survives rotation says of its packet.
LEMMA SurvivorFacts ==
  ASSUME CacheInv, NEW s \in Signatures
  PROVE  /\ CurrentNow[s] # Absent =>
             Arrived(s) /\ CurrentNow[s] \in tags[s] /\ ExpireTimeNow <= last[s] + ExpireInterval
         /\ PreviousNow[s] # Absent =>
             Arrived(s) /\ PreviousNow[s] \in tags[s] /\ ExpireTimeNow <= last[s] + 3 * ExpireInterval
         /\ time <= ExpireTimeNow /\ ExpireTimeNow <= time + ExpireInterval /\ ExpireTimeNow \in Nat
         /\ CurrentNow \in [Signatures -> AnyTag \cup {Absent}]
         /\ PreviousNow \in [Signatures -> AnyTag \cup {Absent}]
<1> USE ReplayAssumption DEF CacheInv, CacheTypes, Never, CurrentNow, PreviousNow, ExpireTimeNow
<1>1. EmptyMap \in [Signatures -> AnyTag \cup {Absent}] /\ EmptyMap[s] = Absent
  BY Zenon DEF EmptyMap
<1>2. CASE BothExpired
  BY <1>1, <1>2
<1>3. CASE Rotates
  BY <1>1, <1>3 DEF Rotates, BothExpired, FromCurrent, InCurrent, Arrived
<1>4. CASE ~BothExpired /\ ~Rotates
  BY <1>4 DEF Rotates, TimeToRotate, FromCurrent, FromPrevious, InCurrent, InPrevious
<1> QED BY <1>2, <1>3, <1>4, Zenon

\* The arrival of a packet.
LEMMA ArrivalKeeps ==
  ASSUME CacheInv, NEW x \in Signatures, NEW tag \in AnyTag, IsDuplicate(x, tag)
  PROVE  CacheInv'
<1> USE ReplayAssumption
<1>1. /\ time' = time /\ last' = [last EXCEPT ![x] = time]
      /\ since' = [s \in Signatures |-> IF s = x THEN {} ELSE since[s] \cup {x}]
      /\ tags' = [tags EXCEPT ![x] = @ \cup {tag}]
  BY Zenon DEF IsDuplicate
<1>2. \A s \in Signatures : /\ s # x => Arrived(s)' = Arrived(s) /\ last'[s] = last[s]
                            /\ Arrived(x)' /\ last'[x] = time
                            /\ tags[s] \subseteq tags'[s] /\ tag \in tags'[x]
                            /\ s # x => since'[s] = since[s] \cup {x}
  BY <1>1 DEF CacheInv, CacheTypes, Arrived, Never
<1>3. \A s \in Signatures \ {x} : Arrived(s) /\ Overtaken(s) => Overtaken(s)'
  <2> SUFFICES ASSUME NEW s \in Signatures \ {x}, Arrived(s), Overtaken(s) PROVE Overtaken(s)'
    BY Zenon
  <2>1. Cardinality(since[s]) <= Cardinality(since'[s]) /\ Cardinality(since[s]) \in Nat /\ Cardinality(since'[s]) \in Nat
    BY <1>2, CountGrows DEF CacheInv, CacheTypes
  <2> QED BY <1>1, <1>2, <2>1 DEF Overtaken
<1>4. CASE Capacity = 0
  <2>1. UNCHANGED <<current, previous, expireTime>>
    BY <1>4, Zenon DEF IsDuplicate, replayMaps
  <2>2. CacheTypes'
    BY <1>1, <2>1, Zenon DEF CacheInv, CacheTypes
  <2>3. \A s \in Signatures : Cardinality(since'[s]) \in Nat
    BY <2>2, CountGrows, Zenon DEF CacheTypes
  <2>4. ASSUME NEW s \in Signatures PROVE Bounded(s)' /\ Kept(s)'
    <3>1. Bounded(s) /\ time \in Nat
      BY Zenon DEF CacheInv, CacheTypes
    <3>2. Bounded(s)'
      BY <1>1, <1>2, <1>4, <3>1 DEF Bounded
    <3>3. Overtaken(s)'
      BY <1>4, <2>3 DEF Overtaken
    <3> QED BY <3>2, <3>3, Zenon DEF Kept
  <2>5. ASSUME NEW s \in Signatures PROVE FromCurrent(s)'
    <3>1. /\ FromCurrent(s) /\ Bounded(s) /\ last[s] \in Nat \cup {Never} /\ time \in Nat /\ expireTime \in Nat
      BY Zenon DEF CacheInv, CacheTypes
    <3> QED BY <1>2, <2>1, <3>1 DEF FromCurrent, InCurrent, Bounded, Never, Arrived
  <2>6. ASSUME NEW s \in Signatures PROVE FromPrevious(s)'
    <3>1. /\ FromPrevious(s) /\ Bounded(s) /\ last[s] \in Nat \cup {Never} /\ time \in Nat /\ expireTime \in Nat
      BY Zenon DEF CacheInv, CacheTypes
    <3> QED BY <1>2, <2>1, <3>1 DEF FromPrevious, InPrevious, Bounded, Never, Arrived
  <2> QED BY <1>1, <2>1, <2>2, <2>4, <2>5, <2>6, Zenon DEF CacheInv
<1>5. CASE Capacity # 0
  <2>1. /\ current' = IF CurrentNow[x] = Absent THEN [CurrentNow EXCEPT ![x] = tag] ELSE CurrentNow
        /\ previous' = PreviousNow /\ expireTime' = ExpireTimeNow
    BY <1>5, Zenon DEF IsDuplicate, Store
  <2>2. /\ time <= ExpireTimeNow /\ ExpireTimeNow <= time + ExpireInterval /\ ExpireTimeNow \in Nat
        /\ CurrentNow \in [Signatures -> AnyTag \cup {Absent}]
        /\ PreviousNow \in [Signatures -> AnyTag \cup {Absent}]
    BY SurvivorFacts, Zenon
  <2>3. CacheTypes'
    BY <1>1, <2>1, <2>2, Zenon DEF CacheInv, CacheTypes
  <2>4. ASSUME NEW s \in Signatures PROVE Bounded(s)'
    BY <1>1, <1>2, <2>1, <2>2 DEF CacheInv, CacheTypes, Bounded, Arrived, Never
  <2>5. ASSUME NEW s \in Signatures PROVE FromCurrent(s)'
    <3>0. last[s] \in Nat \cup {Never} /\ time \in Nat /\ Bounded(s)
      BY Zenon DEF CacheInv, CacheTypes
    <3>1. CASE s # x
      BY <1>2, <2>1, <2>2, <3>1, SurvivorFacts, Zenon DEF FromCurrent, InCurrent
    <3>2. CASE s = x /\ CurrentNow[x] # Absent
      BY <1>2, <2>1, <2>2, <3>0, <3>2, SurvivorFacts, Zenon DEF FromCurrent, InCurrent, Bounded,
         Arrived, Never
    <3>3. CASE s = x /\ CurrentNow[x] = Absent
      BY <1>2, <2>1, <2>2, <3>3, Zenon DEF FromCurrent, InCurrent
    <3> QED BY <3>1, <3>2, <3>3, Zenon
  <2>6. ASSUME NEW s \in Signatures PROVE FromPrevious(s)'
    <3>0. last[s] \in Nat \cup {Never} /\ time \in Nat /\ Bounded(s)
      BY Zenon DEF CacheInv, CacheTypes
    <3>1. CASE s # x
      BY <1>2, <2>1, <3>1, SurvivorFacts, Zenon DEF FromPrevious, InPrevious
    <3>2. CASE s = x
      <4>1. ExpireTimeNow <= time + 3 * ExpireInterval
        BY <2>2, <3>0
      <4>2. PreviousNow[x] # Absent => PreviousNow[x] \in tags[x]
        BY SurvivorFacts, Zenon
      <4> QED BY <1>2, <2>1, <3>2, <4>1, <4>2, Zenon DEF FromPrevious, InPrevious
    <3> QED BY <3>1, <3>2, Zenon
  <2>7. current'[x] # Absent /\ Entries(current)' \subseteq Entries(CurrentNow) \cup {x}
    BY <2>1, <2>2, Zenon DEF Entries
  <2>8. ASSUME NEW s \in Signatures PROVE Kept(s)'
    <3>1. CASE s = x
      BY <2>7, <3>1, Zenon DEF Kept, InCurrent
    <3>2. CASE s # x /\ Arrived(s)
      <4>1. CASE CurrentNow[s] # Absent
        BY <2>1, <2>2, <3>2, <4>1, Zenon DEF Kept, InCurrent
      <4>2. CASE /\ PreviousNow[s] # Absent /\ Entries(CurrentNow) \subseteq since[s]
                 /\ last[s] + ExpireInterval <= ExpireTimeNow
        BY <1>2, <2>1, <2>7, <3>2, <4>2, Zenon DEF Kept, InPrevious, Older
      <4>3. CASE Overtaken(s)
        BY <1>3, <3>2, <4>3, Zenon DEF Kept
      <4> QED BY <1>5, <3>2, <4>1, <4>2, <4>3, RotationKeeps, Zenon
    <3> QED BY <1>2, <3>1, <3>2, Zenon DEF Kept
  <2> QED BY <1>1, <2>1, <2>2, <2>3, <2>4, <2>5, <2>6, <2>8, Zenon DEF CacheInv
<1> QED BY <1>4, <1>5, Zenon

\* CacheInv is inductive.
LEMMA CacheStep ==
  ASSUME CacheInv, [ReplayNext]_replayVars
  PROVE  CacheInv'
<1>1. CASE UNCHANGED replayVars
  BY <1>1, Zenon DEF replayVars, replayMaps, replayHistory, CacheInv, CacheTypes, Arrived,
     InCurrent, InPrevious, Bounded,
              FromCurrent, FromPrevious, Older, Overtaken, Kept, Entries
<1>2. CASE ReplayNext
  BY <1>2, ArrivalKeeps, ClearKeeps, TickKeeps, Zenon DEF ReplayNext
<1> QED BY <1>1, <1>2, Zenon

\* The rotation that the next call would make does not lose a recent packet.
LEMMA RecentIsDuplicate ==
  ASSUME CacheInv
  PROVE  Remembered
<1> SUFFICES ASSUME NEW s \in Signatures, Recent(s) PROVE Duplicate(s, EmptyTag)
  BY Zenon DEF Remembered
<1>1. Arrived(s) /\ last[s] \in Nat /\ time \in Nat /\ Cardinality(since[s]) \in Nat
  BY CountGrows, Zenon DEF Recent, Arrived, CacheInv, CacheTypes, Never
<1>2. Capacity # 0 /\ ~Overtaken(s)
  BY <1>1, ReplayAssumption DEF Recent, Overtaken
<1>3. CurrentNow[s] # Absent \/ PreviousNow[s] # Absent
  BY <1>1, <1>2, RotationKeeps, Zenon
<1> QED BY <1>2, <1>3, Zenon DEF Duplicate, Known

\* An entry says when its packet arrived and with which tag.
LEMMA EntriesAreHonest ==
  ASSUME CacheInv
  PROVE  Forgotten /\ NoFalseDuplicate
<1>1. ASSUME NEW s \in Signatures, Known(s) # Absent
      PROVE  time - last[s] <= 3 * ExpireInterval /\ Known(s) \in tags[s]
  <2>1. last[s] \in Nat \cup {Never} /\ time \in Nat
    BY Zenon DEF CacheInv, CacheTypes
  <2> QED BY <1>1, <2>1, SurvivorFacts, ReplayAssumption DEF Known, Never, Arrived
<1>2. Forgotten
  BY <1>1, ReplayAssumption DEF Forgotten, Duplicate, CacheInv, CacheTypes, Never
<1>3. NoFalseDuplicate
  BY <1>1, ReplayAssumption, Zenon DEF NoFalseDuplicate, Duplicate
<1> QED BY <1>2, <1>3, Zenon

\* For every capacity, interval and set of packets: a packet that arrived at most
\* an interval ago, with fewer than Capacity others since, is reported; none is
\* reported more than three intervals after it last arrived; and one that is new,
\* or that only its own sender has sent, is not reported.
THEOREM ReplayDetection == ReplaySpec => []AnswersRight
<1>1. ReplayInit => CacheInv
  BY CacheInit, Zenon
<1>2. CacheInv /\ [ReplayNext]_replayVars => CacheInv'
  BY CacheStep, Zenon
<1>3. CacheInv => AnswersRight
  BY RecentIsDuplicate, EntriesAreHonest, Zenon DEF AnswersRight
<1> QED BY <1>1, <1>2, <1>3, PTL DEF ReplaySpec

=============================================================================
