--------------------------- MODULE ControlProofs ----------------------------
(***************************************************************************)
(* The server daemon, for any administrators, patches and bounds: what is  *)
(* on disk can be started from, wherever a crash falls and whatever        *)
(* commands overlap; and if none do, it is what the commands mean one      *)
(* after another, and the status tells the truth about the proxies.        *)
(***************************************************************************)
EXTENDS ServerControl, TLAPS

\* What a user's credential is once it is stored.
Secret(user) == IF user.password # 0 THEN HashPassword(user.password, user.name) ELSE user.hashed

\* A configuration whose credentials were supplied, that the daemon can start
\* from or that is empty, and that holds no plain password.
Supplied(config) ==
    \A name \in DOMAIN config.users :
        \E user \in supplied : user.name = name /\ Secret(user) = Secret(config.users[name])
Startable(config) == config = EmptyServerConfig \/ ValidateFullServerConfig(config)
Sound(config) == IsServerConfig(config) /\ Startable(config) /\ Supplied(config)
Hashed(config) == \A name \in DOMAIN config.users : config.users[name].password = 0

\* The file and what the calls carry.
FileInv == file = << >> \/ (file = <<file[1]>> /\ Sound(file[1]) /\ Hashed(file[1]))

Locals(x) == x = [pc |-> x.pc, op |-> x.op, patch |-> x.patch, names |-> x.names, config |-> x.config,
                  proxy |-> x.proxy]
Carries(x) ==
    /\ Locals(x) /\ Sound(x.config)
    /\ IsServerConfig(x.patch) /\ Supplied(x.patch)
    /\ x.op = "replace" => ValidateFullServerConfig(x.patch)

\* Which calls may write the file.
Writes(c, x) ==
    /\ x.op = "query" => x.pc \in {"load", "answer"}
    /\ c # "main" /\ x.pc = "call" => x.op \in DOMAIN AfterValid \cup {"stop", "exit", "replace"}
    /\ c # "main" /\ x.pc = "load" => x.op \in DOMAIN AfterValid
    /\ c # "main" /\ x.pc \in {"set", "write"} => x.op \in {"apply", "replace", "delete"}
    /\ c = "main" => x.op = "none" /\ (x.pc \in {"load", "write"} => x.config = EmptyServerConfig)

CallsInv ==
    /\ call = [c \in Callers |-> call[c]]
    /\ \A c \in Callers : Carries(call[c]) /\ Writes(c, call[c])
    /\ daemon = "down" => call = [c \in Callers |-> Idle]

\* One call at a time holds the lock of the file.
LockInv ==
    /\ \A c \in Callers : call[c].pc = "write" <=> storing = {c}
    /\ storing # Nobody => file = <<EmptyServerConfig>> /\ \E c \in Callers : storing = {c}

\* While no calls overlap, one call at a time changes the file, and what it is
\* about to write is what it means.
Means(c) ==
    /\ call[c].pc = "set" /\ call[c].op # "replace" => Stored(call[c].config) = Intended(acked, call[c])
    /\ call[c].pc = "write" => Stored(call[c].config) = Intended(acked, call[c])
AckInv ==
    /\ file = << >> => acked = EmptyServerConfig
    /\ ~overlapped => /\ \A c, d \in Callers : Busy(c) /\ Busy(d) => c = d
                      /\ \A c \in Callers : Means(c)
                      /\ file # << >> /\ storing = Nobody => file[1] = acked

ControlInv == FileInv /\ CallsInv /\ LockInv /\ overlapped \in BOOLEAN /\ AckInv

-----------------------------------------------------------------------------
(* Configurations.                                                         *)

\* The empty configuration.
LEMMA EmptyFacts ==
    /\ IsServerConfig(EmptyServerConfig) /\ DOMAIN EmptyServerConfig.users = {}
    /\ Sound(EmptyServerConfig) /\ Hashed(EmptyServerConfig)
<1>1. /\ EmptyServerConfig.users = << >> /\ DOMAIN EmptyServerConfig.users = {}
  BY DEF EmptyServerConfig
<1>2. EmptyServerConfig.users = [name \in DOMAIN EmptyServerConfig.users |-> EmptyServerConfig.users[name]]
  BY <1>1
<1>3. IsServerConfig(EmptyServerConfig)
  BY <1>1, <1>2, Zenon DEF IsServerConfig, EmptyServerConfig
<1> QED  BY <1>1, <1>3, Zenon DEF Sound, Startable, Supplied, Hashed

\* A configuration with other users.
Differs(new, config, users) ==
    /\ new = [listenIPAddress |-> config.listenIPAddress, portBindings |-> config.portBindings,
              users |-> users, advancedSettings |-> config.advancedSettings,
              loggingLevel |-> config.loggingLevel, mtu |-> config.mtu, egress |-> config.egress,
              dns |-> config.dns, trafficPattern |-> config.trafficPattern]
    /\ new.users = users /\ new.listenIPAddress = config.listenIPAddress
    /\ new.portBindings = config.portBindings /\ new.advancedSettings = config.advancedSettings
    /\ new.loggingLevel = config.loggingLevel /\ new.mtu = config.mtu /\ new.egress = config.egress
    /\ new.dns = config.dns /\ new.trafficPattern = config.trafficPattern

LEMMA WithUsers ==
    ASSUME NEW config, IsServerConfig(config), NEW users, NEW new, new = [config EXCEPT !.users = users]
    PROVE  Differs(new, config, users)
BY DEF IsServerConfig, Differs

\* It is valid if its users are.
LEMMA WithUsersValid ==
    ASSUME NEW config, IsServerConfig(config), NEW users, NEW new, new = [config EXCEPT !.users = users],
           ValidateFullServerConfig(config),
           \A name \in DOMAIN users : ValidateServerConfigSingleUser(users[name])
    PROVE  ValidateFullServerConfig(new)
<1>1. Differs(new, config, users)
  BY WithUsers, Zenon
<1>2. ValidateServerConfigPatch(new)
  BY <1>1, Zenon DEF Differs, ValidateFullServerConfig, ValidateServerConfigPatch
<1>3. new.portBindings # << >>
  BY <1>1, Zenon DEF Differs, ValidateFullServerConfig
<1>4. EmptyServerConfig.portBindings = << >>
  BY DEF EmptyServerConfig
<1> QED  BY <1>2, <1>3, <1>4, Zenon DEF ValidateFullServerConfig

\* The fields of a user.
LEMMA UserFields ==
    ASSUME NEW name, NEW password, NEW hashed, NEW quotas, NEW user,
           user = [name |-> name, password |-> password, hashed |-> hashed, quotas |-> quotas]
    PROVE  user.name = name /\ user.password = password /\ user.hashed = hashed /\ user.quotas = quotas
OBVIOUS

\* A user whose password has been replaced by its hash.
LEMMA HashedUser ==
    ASSUME NEW user, NEW new, user.password # 0,
           new = [name |-> user.name, password |-> 0, hashed |-> HashPassword(user.password, user.name),
                  quotas |-> user.quotas]
    PROVE  /\ IsUser(user.name, new) /\ new.password = 0 /\ Secret(new) = Secret(user)
           /\ ValidateServerConfigSingleUser(user) => ValidateServerConfigSingleUser(new)
<1>1. /\ new.name = user.name /\ new.password = 0 /\ new.hashed = HashPassword(user.password, user.name)
      /\ new.quotas = user.quotas
  BY UserFields, Zenon
<1>2. Secret(new) = Secret(user)
  BY <1>1, Zenon DEF Secret
<1>3. HashPassword(user.password, user.name) # << >>
  BY DEF HashPassword
<1>4. 0 <= MaxPasswordLen
  BY ConfigAssumption DEF ConfigAssumption
<1>5. ValidateServerConfigSingleUser(user) => ValidateServerConfigSingleUser(new)
  BY <1>1, <1>3, <1>4, Zenon DEF ValidateServerConfigSingleUser, ValidIdentity
<1>6. IsUser(user.name, new)
  BY <1>1, Zenon DEF IsUser
<1> QED  BY <1>1, <1>2, <1>5, <1>6, Zenon

\* Hashing the password of a user.
LEMMA HashFacts ==
    ASSUME NEW user, NEW name, IsUser(name, user), NEW new, new = HashUserPassword(user, FALSE)
    PROVE  /\ IsUser(name, new) /\ new.password = 0 /\ Secret(new) = Secret(user)
           /\ user.password = 0 => new = user
           /\ ValidateServerConfigSingleUser(user) => ValidateServerConfigSingleUser(new)
<1>1. CASE user.password = 0
  BY <1>1, Zenon DEF HashUserPassword
<1>2. CASE user.password # 0
  <2>1. PICK p, h, q : user = [name |-> name, password |-> p, hashed |-> h, quotas |-> q]
    BY Zenon DEF IsUser
  <2>2. user.name = name /\ user.password = p /\ user.quotas = q
    BY <2>1, UserFields, Zenon
  <2>3. new = [name |-> name, password |-> 0, hashed |-> HashPassword(p, name), quotas |-> q]
    BY <1>2, <2>1, <2>2, Zenon DEF HashUserPassword
  <2>4. new = [name |-> user.name, password |-> 0, hashed |-> HashPassword(user.password, user.name),
               quotas |-> user.quotas]
    BY <2>2, <2>3, Zenon
  <2> QED  BY <1>2, <2>2, <2>4, HashedUser, Zenon
<1> QED  BY <1>1, <1>2, Zenon

\* What StoreServerConfig writes is as sound as what it is given.
LEMMA StoredFacts ==
    ASSUME NEW config, IsServerConfig(config), NEW new, new = Stored(config)
    PROVE  /\ IsServerConfig(new) /\ Hashed(new)
           /\ Startable(config) => Startable(new)
           /\ Supplied(config) => Supplied(new)
           /\ Hashed(config) => new = config
<1>1. PICK users : /\ users = [name \in DOMAIN config.users |-> HashUserPassword(config.users[name], FALSE)]
                   /\ new = [config EXCEPT !.users = users]
  BY Zenon DEF Stored
<1>2. /\ DOMAIN users = DOMAIN config.users
      /\ \A name \in DOMAIN users : users[name] = HashUserPassword(config.users[name], FALSE)
      /\ users = [name \in DOMAIN users |-> users[name]]
  BY <1>1, Zenon
<1>3. Differs(new, config, users)
  BY <1>1, WithUsers, Zenon
<1>4. ASSUME NEW name \in DOMAIN users
      PROVE  /\ IsUser(name, users[name])
             /\ users[name].password = 0 /\ Secret(users[name]) = Secret(config.users[name])
             /\ config.users[name].password = 0 => users[name] = config.users[name]
             /\ ValidateServerConfigSingleUser(config.users[name]) => ValidateServerConfigSingleUser(users[name])
  <2>1. PICK user : user = config.users[name] /\ IsUser(name, user)
    BY <1>2, Zenon DEF IsServerConfig, Differs
  <2>2. users[name] = HashUserPassword(user, FALSE)
    BY <1>2, <2>1, Zenon
  <2> QED  BY <2>1, <2>2, HashFacts, Zenon
<1>5. IsServerConfig(new)
  BY <1>2, <1>3, <1>4, Zenon DEF IsServerConfig, Differs
<1>6. Hashed(new)
  BY <1>3, <1>4, Zenon DEF Hashed, Differs
<1>7. Startable(config) => Startable(new)
  <2>1. CASE config = EmptyServerConfig
    <3>1. DOMAIN users = {} /\ config.users = [name \in DOMAIN config.users |-> config.users[name]]
      BY <1>2, <2>1, EmptyFacts, Zenon DEF IsServerConfig, Differs
    <3>2. users = config.users
      BY <1>2, <3>1, Zenon
    <3>3. new = config
      BY <1>3, <3>2, Zenon DEF IsServerConfig, Differs
    <3> QED  BY <3>3, Zenon
  <2>2. CASE ValidateFullServerConfig(config)
    <3>1. \A name \in DOMAIN users : ValidateServerConfigSingleUser(users[name])
      BY <1>2, <1>4, <2>2, Zenon DEF ValidateFullServerConfig, ValidateServerConfigPatch
    <3> QED  BY <1>1, <2>2, <3>1, WithUsersValid, ZenonT(60) DEF Startable
  <2> QED  BY <2>1, <2>2, Zenon DEF Startable
<1>8. Supplied(config) => Supplied(new)
  <2> SUFFICES ASSUME Supplied(config), NEW name \in DOMAIN users
               PROVE  \E user \in supplied : user.name = name /\ Secret(user) = Secret(users[name])
    BY <1>3, Zenon DEF Supplied, Differs
  <2>1. PICK user \in supplied : user.name = name /\ Secret(user) = Secret(config.users[name])
    BY <1>2, Zenon DEF Supplied
  <2> QED  BY <1>2, <1>4, <2>1, Zenon
<1>9. Hashed(config) => new = config
  <2>1. ASSUME Hashed(config) PROVE users = config.users
    <3>1. \A name \in DOMAIN users : users[name] = config.users[name]
      BY <1>2, <1>4, <2>1, Zenon DEF Hashed
    <3> QED  BY <1>2, <3>1, Zenon DEF IsServerConfig, Differs
  <2> QED  BY <1>3, <2>1, Zenon DEF IsServerConfig, Differs
<1> QED  BY <1>5, <1>6, <1>7, <1>8, <1>9, Zenon

\* Deleting users.
LEMMA DeleteFacts ==
    ASSUME NEW config, IsServerConfig(config), NEW names, NEW new, new = DeleteUsers(config, names)
    PROVE  /\ IsServerConfig(new)
           /\ Startable(config) => Startable(new)
           /\ Supplied(config) => Supplied(new)
           /\ Hashed(config) => Hashed(new)
<1>1. PICK users : /\ users = [name \in DOMAIN config.users \ names |-> config.users[name]]
                   /\ new = [config EXCEPT !.users = users]
  BY Zenon DEF DeleteUsers
<1>2. /\ DOMAIN users \subseteq DOMAIN config.users
      /\ \A name \in DOMAIN users : users[name] = config.users[name]
      /\ users = [name \in DOMAIN users |-> users[name]]
  BY <1>1, Zenon
<1>3. Differs(new, config, users)
  BY <1>1, WithUsers, Zenon
<1>4. IsServerConfig(new)
  BY <1>2, <1>3, Zenon DEF IsServerConfig, Differs
<1>5. Startable(config) => Startable(new)
  <2>1. CASE config = EmptyServerConfig
    <3>1. users = config.users
      <4>1. DOMAIN config.users = {} /\ config.users = [name \in DOMAIN config.users |-> config.users[name]]
        BY <2>1, EmptyFacts, Zenon DEF IsServerConfig, Differs
      <4>2. DOMAIN config.users \ names = DOMAIN config.users
        BY <4>1, Zenon
      <4> QED  BY <1>1, <4>1, <4>2, Zenon
    <3>2. new = config
      BY <1>3, <3>1, Zenon DEF IsServerConfig, Differs
    <3> QED  BY <3>2, Zenon
  <2>2. CASE ValidateFullServerConfig(config)
    <3>1. \A name \in DOMAIN users : ValidateServerConfigSingleUser(users[name])
      BY <1>2, <2>2, Zenon DEF ValidateFullServerConfig, ValidateServerConfigPatch
    <3>2. ValidateFullServerConfig(new)
      BY <1>1, <2>2, <3>1, WithUsersValid
    <3> QED  BY <3>2, Zenon DEF Startable
  <2> QED  BY <2>1, <2>2, Zenon DEF Startable
<1>6. Supplied(config) => Supplied(new)
  <2> SUFFICES ASSUME Supplied(config), NEW name \in DOMAIN users
               PROVE  \E user \in supplied : user.name = name /\ Secret(user) = Secret(users[name])
    BY <1>3, Zenon DEF Supplied, Differs
  <2>1. PICK user \in supplied : user.name = name /\ Secret(user) = Secret(config.users[name])
    BY <1>2, Zenon DEF Supplied
  <2> QED  BY <1>2, <2>1, Zenon
<1>7. Hashed(config) => Hashed(new)
  BY <1>2, <1>3, Zenon DEF Hashed, Differs
<1> QED  BY <1>4, <1>5, <1>6, <1>7, Zenon

\* Merging a patch into a configuration.
LEMMA MergeFacts ==
    ASSUME NEW config, IsServerConfig(config), NEW patch, IsServerConfig(patch),
           NEW new, new = MergeServerConfig(config, patch)
    PROVE  /\ IsServerConfig(new)
           /\ Supplied(config) /\ Supplied(patch) => Supplied(new)
<1>1. PICK users : users = MergeUsers(config.users, patch.users)
  BY Zenon
<1>2. /\ DOMAIN users = DOMAIN config.users \cup DOMAIN patch.users
      /\ \A name \in DOMAIN users : \/ name \in DOMAIN config.users /\ users[name] = config.users[name]
                                    \/ name \in DOMAIN patch.users /\ users[name] = patch.users[name]
      /\ users = [name \in DOMAIN users |-> users[name]]
  BY <1>1, Zenon DEF MergeUsers
<1>3. new.users = users
  BY <1>1 DEF MergeServerConfig
<1>4. new = [listenIPAddress |-> new.listenIPAddress, portBindings |-> new.portBindings,
             users |-> new.users, advancedSettings |-> new.advancedSettings,
             loggingLevel |-> new.loggingLevel, mtu |-> new.mtu, egress |-> new.egress,
             dns |-> new.dns, trafficPattern |-> new.trafficPattern]
  BY DEF MergeServerConfig
<1>5. \A name \in DOMAIN users : IsUser(name, users[name])
  BY <1>2, Zenon DEF IsServerConfig, Differs
<1>6. IsServerConfig(new)
  BY <1>2, <1>3, <1>4, <1>5, Zenon DEF IsServerConfig, Differs
<1>7. Supplied(config) /\ Supplied(patch) => Supplied(new)
  <2> SUFFICES ASSUME Supplied(config), Supplied(patch), NEW name \in DOMAIN users
               PROVE  \E user \in supplied : user.name = name /\ Secret(user) = Secret(users[name])
    BY <1>3, Zenon DEF Supplied
  <2> QED  BY <1>2, ZenonT(60) DEF Supplied
<1> QED  BY <1>6, <1>7, Zenon

-----------------------------------------------------------------------------
(* Steps.                                                                  *)

\* What administrators have supplied stays supplied.
LEMMA StillSupplied ==
    ASSUME supplied \subseteq supplied'
    PROVE  /\ \A config : Supplied(config) => Supplied(config)'
           /\ \A config : Sound(config) => Sound(config)'
           /\ \A x : Carries(x) => Carries(x)'
<1>1. \A config : Supplied(config) => Supplied(config)'
  <2> SUFFICES ASSUME NEW config, Supplied(config), NEW name \in DOMAIN config.users
               PROVE  \E user \in supplied' : user.name = name /\ Secret(user) = Secret(config.users[name])
    BY Zenon DEF Supplied
  <2>1. PICK user \in supplied : user.name = name /\ Secret(user) = Secret(config.users[name])
    BY Zenon DEF Supplied
  <2> QED  BY <2>1, Zenon
<1> QED  BY <1>1, Zenon DEF Sound, Carries

\* What is known of a call is known of its new state.
LEMMA CarriedBy ==
    ASSUME NEW d, NEW x, call'[d] = x, Carries(x)'
    PROVE  Carries(call[d])'
BY Zenon DEF Carries, Locals, Sound, Supplied

\* A goroutine that is doing nothing.
LEMMA IdleFacts ==
    /\ Carries(Idle) /\ \A c : Writes(c, Idle)
    /\ Idle.pc = "idle" /\ Idle.op = "none" /\ Idle.config = EmptyServerConfig /\ Idle.patch = EmptyServerConfig
<1>1. /\ Idle.pc = "idle" /\ Idle.op = "none" /\ Idle.config = EmptyServerConfig
      /\ Idle.patch = EmptyServerConfig /\ Idle.names = {} /\ Idle.proxy = 0
  BY DEF Idle
<1>2. Locals(Idle)
  BY <1>1, Zenon DEF Locals, Idle
<1>3. Supplied(EmptyServerConfig)
  BY EmptyFacts, Zenon DEF Sound
<1>4. Carries(Idle)
  BY <1>1, <1>2, <1>3, EmptyFacts, Zenon DEF Carries
<1>5. \A c : Writes(c, Idle)
  BY <1>1 DEF Writes
<1> QED  BY <1>1, <1>4, <1>5, Zenon

\* Steps that leave the file and the calls alone.
LEMMA Elsewhere ==
    ASSUME ControlInv, UNCHANGED <<file, storing, daemon, call, supplied, acked>>,
           overlapped' \in BOOLEAN, overlapped => overlapped'
    PROVE  ControlInv'
<1>1. \A x : Carries(x) => Carries(x)'
  BY StillSupplied, Zenon
<1>2. FileInv'
  BY StillSupplied, Zenon DEF ControlInv, FileInv
<1>3. CallsInv'
  BY <1>1, Zenon DEF ControlInv, CallsInv
<1>4. LockInv'
  BY Zenon DEF ControlInv, LockInv
<1>5. AckInv'
  <2>1. \A c \in Callers : (Busy(c)' <=> Busy(c)) /\ (Means(c)' <=> Means(c))
    BY Zenon DEF Busy, Means
  <2> QED  BY <2>1, Zenon DEF ControlInv, AckInv
<1> QED  BY <1>2, <1>3, <1>4, <1>5, Zenon DEF ControlInv

Active(x) == x.pc \notin {"idle", "call", "wait"} /\ x.op # "query"
MeansWell(x) ==
    /\ x.pc = "set" /\ x.op # "replace" => Stored(x.config) = Intended(acked, x)
    /\ x.pc = "write" => Stored(x.config) = Intended(acked, x)

\* A step of one call that does not touch the file.
LEMMA CallStep ==
    ASSUME ControlInv, NEW c \in Callers, NEW x, call' = [call EXCEPT ![c] = x],
           UNCHANGED <<file, storing, acked>>, supplied \subseteq supplied',
           overlapped' \in BOOLEAN, overlapped => overlapped',
           daemon' # "down",
           Carries(x)', Writes(c, x), x.pc # "write", call[c].pc # "write",
           ~overlapped' => \/ ~Active(x)
                           \/ Busy(c)
                           \/ \A d \in Callers \ {c} : ~Busy(d),
           ~overlapped' => MeansWell(x)
    PROVE  ControlInv'
<1>1. /\ call'[c] = x /\ \A d \in Callers : d # c => call'[d] = call[d]
      /\ call' = [d \in Callers |-> call'[d]]
  BY Zenon DEF ControlInv, CallsInv
<1>2. FileInv'
  BY StillSupplied, Zenon DEF ControlInv, FileInv
<1>3. CallsInv'
  <2>1. \A d \in Callers : Carries(call[d])' \/ d = c
    <3> SUFFICES ASSUME NEW d \in Callers, d # c PROVE Carries(call[d])'
      BY Zenon
    <3>1. PICK y : y = call[d] /\ Carries(y)
      BY Zenon DEF ControlInv, CallsInv
    <3>2. Carries(y)' /\ call'[d] = y
      BY <1>1, <3>1, StillSupplied, Zenon
    <3> QED  BY <3>2, CarriedBy, Zenon
  <2>2. Carries(call[c])'
    BY <1>1, CarriedBy, Zenon
  <2>3. \A d \in Callers : Writes(d, call'[d])
    BY <1>1, Zenon DEF ControlInv, CallsInv
  <2> QED  BY <1>1, <2>1, <2>2, <2>3, Zenon DEF CallsInv
<1>4. LockInv'
  <2>1. storing # {c}
    BY Zenon DEF ControlInv, LockInv
  <2> QED  BY <1>1, <2>1, Zenon DEF ControlInv, LockInv
<1>5. AckInv'
  <2>1. \A d \in Callers \ {c} : (Busy(d)' <=> Busy(d)) /\ (Means(d)' <=> Means(d))
    BY <1>1, Zenon DEF Busy, Means
  <2>2. (Busy(c)' <=> Active(x)) /\ (Means(c)' <=> MeansWell(x))
    BY <1>1, Zenon DEF Busy, Active, Means, MeansWell
  <2>3. ASSUME ~overlapped', NEW d \in Callers, NEW e \in Callers, Busy(d)', Busy(e)'
        PROVE  d = e
    <3>1. ~overlapped /\ \A u, v \in Callers : Busy(u) /\ Busy(v) => u = v
      BY <2>3, Zenon DEF ControlInv, AckInv
    <3> QED  BY <2>1, <2>2, <2>3, <3>1, Zenon
  <2>4. ASSUME ~overlapped', NEW d \in Callers PROVE Means(d)'
    BY <2>1, <2>2, <2>4, Zenon DEF ControlInv, AckInv
  <2> QED  BY <2>3, <2>4, Zenon DEF ControlInv, AckInv
<1> QED  BY <1>2, <1>3, <1>4, <1>5, Zenon DEF ControlInv

\* A call ends, or goes on without a configuration of its own.
LEMMA Ends ==
    ASSUME ControlInv, NEW c \in Callers, call' = [call EXCEPT ![c] = Idle], call[c].pc # "write",
           UNCHANGED <<file, storing, acked>>, supplied \subseteq supplied',
           overlapped' \in BOOLEAN, overlapped => overlapped', daemon' # "down"
    PROVE  ControlInv'
<1>1. Carries(Idle)' /\ Writes(c, Idle) /\ Idle.pc = "idle"
  BY IdleFacts, StillSupplied, Zenon
<1>2. ~Active(Idle) /\ MeansWell(Idle)
  BY <1>1 DEF Active, MeansWell
<1> QED  BY <1>1, <1>2, CallStep, Zenon

\* A call takes the lock and truncates the file.
LEMMA TruncateStep ==
    ASSUME ControlInv, NEW c \in Callers, NEW x, call' = [call EXCEPT ![c] = x],
           storing = Nobody, storing' = {c}, file' = <<EmptyServerConfig>>,
           UNCHANGED <<acked, supplied, overlapped, daemon>>, daemon # "down",
           Carries(x), Writes(c, x), x.pc = "write", Busy(c),
           ~overlapped => MeansWell(x)
    PROVE  ControlInv'
<1>1. /\ call'[c] = x /\ \A d \in Callers : d # c => call'[d] = call[d]
      /\ call' = [d \in Callers |-> call'[d]]
  BY Zenon DEF ControlInv, CallsInv
<1>2. file' # << >> /\ file'[1] = EmptyServerConfig
  OBVIOUS
<1>3. FileInv'
  <2>1. Sound(EmptyServerConfig)' /\ Hashed(EmptyServerConfig)
    BY EmptyFacts, StillSupplied, Zenon
  <2>2. Sound(file[1])' /\ Hashed(file'[1])
    BY <1>2, <2>1, Zenon DEF Sound, Supplied
  <2> QED  BY <1>2, <2>2, Zenon DEF FileInv, Hashed
<1>4. CallsInv'
  <2>1. \A d \in Callers : Carries(call[d])'
    <3> SUFFICES ASSUME NEW d \in Callers PROVE Carries(call[d])'
      BY Zenon
    <3>1. PICK y : y = call'[d] /\ Carries(y)
      BY <1>1, Zenon DEF ControlInv, CallsInv
    <3>2. Carries(y)'
      BY <3>1, StillSupplied, Zenon
    <3> QED  BY <3>1, <3>2, CarriedBy, Zenon
  <2>2. \A d \in Callers : Writes(d, call'[d])
    BY <1>1, Zenon DEF ControlInv, CallsInv
  <2> QED  BY <1>1, <2>1, <2>2, Zenon DEF CallsInv
<1>5. LockInv'
  <2>1. \A d \in Callers : call[d].pc # "write"
    <3>1. \A d : {d} # Nobody
      BY Zenon DEF Nobody
    <3>2. \A d \in Callers : call[d].pc = "write" <=> storing = {d}
      BY Zenon DEF ControlInv, LockInv
    <3> QED  BY <3>1, <3>2, Zenon
  <2>2. \A d \in Callers : call'[d].pc = "write" <=> storing' = {d}
    BY <1>1, <2>1, Zenon
  <2> QED  BY <2>2, Zenon DEF LockInv
<1>6. AckInv'
  <2>1. \A d \in Callers \ {c} : (Busy(d)' <=> Busy(d)) /\ (Means(d)' <=> Means(d))
    BY <1>1, Zenon DEF Busy, Means
  <2>2. Means(c)' <=> MeansWell(x)
    BY <1>1, Zenon DEF Means, MeansWell
  <2>3. storing' # Nobody
    BY Zenon DEF Nobody
  <2>4. \A d \in Callers : Busy(d)' => Busy(d)
    BY <2>1, Zenon
  <2> QED  BY <1>2, <2>1, <2>2, <2>3, <2>4, Zenon DEF ControlInv, AckInv
<1> QED  BY <1>3, <1>4, <1>5, <1>6, Zenon DEF ControlInv

\* A call moves on, with its locals as they were.
Becomes(c, x) == call' = [call EXCEPT ![c] = x]
Moved(y, pc, x) ==
    /\ x.pc = pc /\ x.op = y.op /\ x.config = y.config /\ x.patch = y.patch /\ x.names = y.names
    /\ Carries(x)

LEMMA GoesStep ==
    ASSUME ControlInv, NEW c \in Callers, NEW pc, Goes(c, pc)
    PROVE  \E x : Becomes(c, x) /\ Moved(call[c], pc, x)
<1>1. /\ call = [d \in Callers |-> call[d]] /\ Carries(call[c]) /\ Locals(call[c])
  BY Zenon DEF ControlInv, CallsInv, Carries
<1>2. PICK y : y = call[c] /\ y = [pc |-> y.pc, op |-> y.op, patch |-> y.patch, names |-> y.names,
                                   config |-> y.config, proxy |-> y.proxy]
  BY <1>1, Zenon DEF Locals
<1>3. PICK x : x = [pc |-> pc, op |-> y.op, patch |-> y.patch, names |-> y.names, config |-> y.config,
                    proxy |-> y.proxy]
  BY Zenon
<1>4. /\ x.pc = pc /\ x.op = y.op /\ x.config = y.config /\ x.patch = y.patch /\ x.names = y.names
      /\ x.proxy = y.proxy
  BY <1>3
<1>5. Carries(x)
  <2>1. Locals(x)
    BY <1>3, <1>4, Zenon DEF Locals
  <2> QED  BY <1>1, <1>2, <1>4, <2>1, Zenon DEF Carries
<1>6. Becomes(c, x)
  <2>1. x = [call[c] EXCEPT !.pc = pc]
    BY <1>2, <1>3
  <2> QED  BY <1>1, <2>1 DEF Goes, Becomes
<1> QED  BY <1>2, <1>4, <1>5, <1>6, Zenon DEF Moved

\* The process ends.
LEMMA DownStep ==
    ASSUME ControlInv, Down, overlapped' = overlapped
    PROVE  ControlInv'
<1>1. /\ daemon' = "down" /\ storing' = Nobody /\ call' = [c \in Callers |-> Idle]
      /\ acked' = IF storing = Nobody THEN acked ELSE EmptyServerConfig
      /\ UNCHANGED <<file, supplied>>
  BY Zenon DEF Down
<1>2. \A c \in Callers : call'[c] = Idle
  BY <1>1, Zenon
<1>3. FileInv'
  BY <1>1, StillSupplied, Zenon DEF ControlInv, FileInv
<1>4. CallsInv'
  <2>1. Carries(Idle)'
    BY <1>1, IdleFacts, StillSupplied, Zenon
  <2>2. \A c \in Callers : Carries(call[c])'
    BY <1>2, <2>1, CarriedBy, Zenon
  <2>3. call' = [c \in Callers |-> call'[c]]
    BY <1>1, Zenon
  <2> QED  BY <1>1, <1>2, <2>2, <2>3, IdleFacts, Zenon DEF CallsInv
<1>5. LockInv'
  <2>1. \A c \in Callers : call'[c].pc # "write" /\ storing' # {c}
    BY <1>1, <1>2, IdleFacts DEF Nobody
  <2> QED  BY <1>1, <2>1, Zenon DEF LockInv
<1>6. AckInv'
  <2>1. \A c \in Callers : ~Busy(c)' /\ Means(c)'
    BY <1>2, IdleFacts DEF Busy, Means
  <2>2. file # << >> /\ storing # Nobody => file[1] = EmptyServerConfig
    BY DEF ControlInv, LockInv
  <2>3. file' = << >> => acked' = EmptyServerConfig
    BY <1>1, Zenon DEF ControlInv, AckInv
  <2>4. ~overlapped' /\ file' # << >> => file'[1] = acked'
    BY <1>1, <2>2, Zenon DEF ControlInv, AckInv
  <2> QED  BY <2>1, <2>3, <2>4, Zenon DEF AckInv
<1> QED  BY <1>3, <1>4, <1>5, <1>6, Zenon DEF ControlInv

\* mita run.
LEMMA RunStep ==
    ASSUME ControlInv, Run
    PROVE  ControlInv'
<1>1. /\ daemon = "down" /\ daemon' = "up" /\ overlapped' = FALSE
      /\ acked' = IF overlapped /\ file # << >> THEN file[1] ELSE acked
      /\ UNCHANGED <<file, storing, supplied>> /\ "main" \in Callers
      /\ call' = [call EXCEPT !["main"].pc = "load"]
  BY Zenon DEF Run, Goes, fileVars, Callers
<1>2. call = [c \in Callers |-> Idle] /\ \A c \in Callers : call[c] = Idle
  BY <1>1, Zenon DEF ControlInv, CallsInv
<1>3. Goes("main", "load")
  BY Zenon DEF Run
<1>4. PICK x : Becomes("main", x) /\ Moved(call["main"], "load", x)
  BY <1>1, <1>3, GoesStep, Zenon
<1>5. /\ call' = [call EXCEPT !["main"] = x] /\ Carries(x) /\ x.pc = "load"
      /\ x.op = call["main"].op /\ x.config = call["main"].config
  BY <1>4, Zenon DEF Becomes, Moved
<1>6. x.op = "none" /\ x.config = EmptyServerConfig
  BY <1>1, <1>2, <1>5, IdleFacts, Zenon
<1>7. call' = [c \in Callers |-> call'[c]] /\ call'["main"] = x /\ \A c \in Callers \ {"main"} : call'[c] = Idle
  BY <1>1, <1>2, <1>5, Zenon
<1>8. FileInv'
  BY <1>1, StillSupplied, Zenon DEF ControlInv, FileInv
<1>9. CallsInv'
  <2>1. Carries(Idle)' /\ Carries(x)'
    BY <1>1, <1>5, IdleFacts, StillSupplied, Zenon
  <2>2. \A c \in Callers : Carries(call[c])'
    BY <1>7, <2>1, CarriedBy, Zenon
  <2>3. Writes("main", x)
    BY <1>5, <1>6 DEF Writes
  <2>4. daemon' # "down"
    BY <1>1
  <2> QED  BY <1>7, <2>2, <2>3, <2>4, IdleFacts, Zenon DEF CallsInv
<1>10. LockInv'
  <2>1. \A c \in Callers : call[c].pc # "write" /\ call'[c].pc # "write"
    BY <1>2, <1>5, <1>7, IdleFacts
  <2> QED  BY <1>1, <2>1, Zenon DEF ControlInv, LockInv
<1>11. AckInv'
  <2>1. \A c \in Callers \ {"main"} : ~Busy(c)' /\ Means(c)'
    BY <1>7, IdleFacts DEF Busy, Means
  <2>2. Means("main")'
    BY <1>5, <1>7 DEF Means
  <2>3. storing = Nobody
    <3>1. \A c \in Callers : call[c].pc # "write"
      BY <1>2, IdleFacts
    <3> QED  BY <3>1, Zenon DEF ControlInv, LockInv
  <2>4. file' = << >> => acked' = EmptyServerConfig
    BY <1>1, Zenon DEF ControlInv, AckInv
  <2>5. file' # << >> => file'[1] = acked'
    BY <1>1, <2>3, Zenon DEF ControlInv, AckInv
  <2> QED  BY <2>1, <2>2, <2>4, <2>5, Zenon DEF AckInv
<1> QED  BY <1>1, <1>8, <1>9, <1>10, <1>11, Zenon DEF ControlInv

\* The file is written and the lock released.
LEMMA StoreStep ==
    ASSUME ControlInv, NEW c \in Callers, StoreServerConfig(c)
    PROVE  ControlInv'
<1>1. /\ call[c].pc = "write" /\ storing' = Nobody /\ file' = <<Stored(call[c].config)>>
      /\ acked' = Intended(acked, call[c]) /\ UNCHANGED <<daemon, overlapped, supplied>>
  BY Zenon DEF StoreServerConfig
<1>2. PICK x : /\ call' = [call EXCEPT ![c] = x] /\ Carries(x) /\ Writes(c, x)
               /\ x.pc \in {"idle", "load"} /\ (c # "main" => x.pc = "idle")
  <2>1. CASE c = "main"
    <3>1. Goes(c, "load")
      BY <2>1, Zenon DEF StoreServerConfig
    <3>2. PICK x : Becomes(c, x) /\ Moved(call[c], "load", x)
      BY <3>1, GoesStep, Zenon
    <3>3. Writes(c, x)
      BY <1>1, <2>1, <3>2 DEF Moved, Writes, ControlInv, CallsInv
    <3> QED  BY <2>1, <3>2, <3>3, Zenon DEF Becomes, Moved
  <2>2. CASE c # "main"
    <3>1. call' = [call EXCEPT ![c] = Idle]
      BY <2>2, Zenon DEF StoreServerConfig, Returns
    <3> QED  BY <3>1, IdleFacts, Zenon
  <2> QED  BY <2>1, <2>2, Zenon
<1>3. /\ call'[c] = x /\ \A d \in Callers : d # c => call'[d] = call[d]
      /\ call' = [d \in Callers |-> call'[d]]
  BY <1>2, Zenon DEF ControlInv, CallsInv
<1>4. PICK config : config = Stored(call[c].config)
  BY Zenon
<1>5. IsServerConfig(config) /\ Hashed(config) /\ Sound(config)
  BY <1>4, StoredFacts, Zenon DEF ControlInv, CallsInv, Carries, Sound
<1>6. file' # << >> /\ file'[1] = config /\ file' = <<config>>
  BY <1>1, <1>4
<1>7. FileInv'
  <2>1. Sound(config)'
    BY <1>1, <1>5, StillSupplied, Zenon
  <2>2. Sound(file[1])'
    BY <1>6, <2>1, Zenon DEF Sound, Supplied
  <2> QED  BY <1>5, <1>6, <2>2, Zenon DEF FileInv, Hashed
<1>8. CallsInv'
  <2>1. \A d \in Callers : Carries(call[d])'
    <3> SUFFICES ASSUME NEW d \in Callers PROVE Carries(call[d])'
      BY Zenon
    <3>1. PICK y : y = call'[d] /\ Carries(y)
      BY <1>2, <1>3, Zenon DEF ControlInv, CallsInv
    <3>2. Carries(y)'
      BY <1>1, <3>1, StillSupplied, Zenon
    <3> QED  BY <3>1, <3>2, CarriedBy, Zenon
  <2>2. \A d \in Callers : Writes(d, call'[d])
    BY <1>2, <1>3, Zenon DEF ControlInv, CallsInv
  <2>3. daemon # "down"
    BY <1>1, IdleFacts DEF ControlInv, CallsInv
  <2> QED  BY <1>1, <1>3, <2>1, <2>2, <2>3, Zenon DEF CallsInv
<1>9. LockInv'
  <2>1. \A d \in Callers : call'[d].pc # "write"
    <3>1. storing = {c} /\ \A d \in Callers : call[d].pc = "write" <=> storing = {d}
      BY <1>1, Zenon DEF ControlInv, LockInv
    <3> QED  BY <1>2, <1>3, <3>1
  <2>2. \A d : Nobody # {d}
    BY DEF Nobody
  <2> QED  BY <1>1, <2>1, <2>2, Zenon DEF LockInv
<1>10. AckInv'
  <2>1. Busy(c)
    BY <1>1 DEF ControlInv, CallsInv, Writes, Busy
  <2>2. ASSUME ~overlapped
        PROVE  /\ config = Intended(acked, call[c])
               /\ \A d \in Callers \ {c} : ~Busy(d)
    BY <1>1, <1>4, <2>1, <2>2, Zenon DEF ControlInv, AckInv, Means
  <2>3. \A d \in Callers \ {c} : ~Busy(d) => ~Busy(d)' /\ Means(d)'
    <3>1. \A d \in Callers \ {c} : ~Busy(d) => call[d].pc \notin {"set", "write"}
      BY DEF ControlInv, CallsInv, Writes, Busy
    <3> QED  BY <1>3, <3>1 DEF Busy, Means
  <2>4. Means(c)'
    BY <1>2, <1>3 DEF Means
  <2>5. ASSUME ~overlapped' PROVE file'[1] = acked'
    BY <1>1, <1>6, <2>2, <2>5, Zenon
  <2>6. ASSUME ~overlapped', NEW d \in Callers, NEW e \in Callers, Busy(d)', Busy(e)'
        PROVE  d = e
    BY <1>1, <2>2, <2>3, <2>6, Zenon
  <2>7. ASSUME ~overlapped', NEW d \in Callers PROVE Means(d)'
    BY <1>1, <2>2, <2>3, <2>4, <2>7, Zenon
  <2> QED  BY <1>6, <2>5, <2>6, <2>7, Zenon DEF AckInv
<1> QED  BY <1>1, <1>7, <1>8, <1>9, <1>10, Zenon DEF ControlInv

\* A call that is under way keeps the daemon up.
LEMMA Alive ==
    ASSUME ControlInv, NEW c \in Callers, call[c].pc # "idle"
    PROVE  daemon # "down"
BY IdleFacts DEF ControlInv, CallsInv

\* A call that looks at the proxy moves on.
LEMMA MovesOn ==
    ASSUME ControlInv, NEW c \in Callers, NEW pc, Goes(c, pc),
           call[c].pc \in {"startProxy", "starting", "stop", "close"}, pc \in {"wait", "none", "close", "closed"},
           UNCHANGED <<file, storing, acked, supplied, overlapped, daemon>>
    PROVE  ControlInv'
<1>1. PICK x : Becomes(c, x) /\ Moved(call[c], pc, x)
  BY GoesStep, Zenon
<1>2. x.pc = pc /\ x.op = call[c].op /\ x.config = call[c].config /\ Carries(x)
  BY <1>1, Zenon DEF Moved
<1>3. Writes(c, x) /\ call[c].op # "query"
  BY <1>2 DEF ControlInv, CallsInv, Writes
<1>4. Busy(c) /\ MeansWell(x) /\ x.pc # "write" /\ call[c].pc # "write" /\ call[c].pc # "idle"
  BY <1>2, <1>3 DEF Busy, MeansWell
<1>5. daemon' # "down" /\ overlapped' \in BOOLEAN
  BY <1>4, Alive, Zenon DEF ControlInv
<1>6. Carries(x)'
  BY <1>2, StillSupplied, Zenon
<1>7. call' = [call EXCEPT ![c] = x]
  BY <1>1, Zenon DEF Becomes
<1> QED  BY <1>3, <1>4, <1>5, <1>6, <1>7, CallStep, Zenon

\* A call ends that leaves everything else alone.
LEMMA JustEnds ==
    ASSUME ControlInv, NEW c \in Callers, Returns(c), call[c].pc \notin {"idle", "write"},
           UNCHANGED <<file, storing, acked, supplied, overlapped>>, daemon' \in {daemon, "exiting"}
    PROVE  ControlInv'
<1>1. call' = [call EXCEPT ![c] = Idle] /\ overlapped' \in BOOLEAN /\ supplied \subseteq supplied'
  BY Zenon DEF Returns, ControlInv
<1>2. daemon # "down" /\ daemon' # "down"
  BY Alive
<1> QED  BY <1>1, <1>2, Ends, Zenon

\* A call gets a configuration.
Sets(c, pc, config) ==
    \/ call' = [call EXCEPT ![c].pc = pc, ![c].config = config]
    \/ call' = [call EXCEPT ![c].config = config, ![c].pc = pc]
Given(y, pc, config, x) ==
    /\ x.pc = pc /\ x.config = config /\ x.op = y.op /\ x.patch = y.patch /\ x.names = y.names
    /\ Carries(x)

LEMMA SetsStep ==
    ASSUME ControlInv, NEW c \in Callers, NEW pc, NEW config, Sound(config), Sets(c, pc, config)
    PROVE  \E x : Becomes(c, x) /\ Given(call[c], pc, config, x)
<1>1. /\ call = [d \in Callers |-> call[d]] /\ Carries(call[c]) /\ Locals(call[c])
  BY Zenon DEF ControlInv, CallsInv, Carries
<1>2. PICK y : y = call[c] /\ y = [pc |-> y.pc, op |-> y.op, patch |-> y.patch, names |-> y.names,
                                   config |-> y.config, proxy |-> y.proxy]
  BY <1>1, Zenon DEF Locals
<1>3. PICK x : x = [pc |-> pc, op |-> y.op, patch |-> y.patch, names |-> y.names, config |-> config, proxy |-> y.proxy]
  BY Zenon
<1>4. /\ x.pc = pc /\ x.op = y.op /\ x.config = config /\ x.patch = y.patch /\ x.names = y.names
      /\ x.proxy = y.proxy
  BY <1>3
<1>5. Carries(x)
  <2>1. Locals(x)
    BY <1>3, <1>4, Zenon DEF Locals
  <2> QED  BY <1>1, <1>2, <1>4, <2>1, Zenon DEF Carries
<1>6. Becomes(c, x)
  <2>1. /\ x = [[y EXCEPT !.pc = pc] EXCEPT !.config = config]
        /\ x = [[y EXCEPT !.config = config] EXCEPT !.pc = pc]
    <3>1. PICK p, o, t, n, g, r :
             y = [pc |-> p, op |-> o, patch |-> t, names |-> n, config |-> g, proxy |-> r]
      BY <1>2, Zenon
    <3>2. x = [pc |-> pc, op |-> o, patch |-> t, names |-> n, config |-> config, proxy |-> r]
      BY <1>3, <3>1
    <3>3. [y EXCEPT !.pc = pc] = [pc |-> pc, op |-> o, patch |-> t, names |-> n, config |-> g, proxy |-> r]
      BY <3>1
    <3>4. [y EXCEPT !.config = config]
             = [pc |-> p, op |-> o, patch |-> t, names |-> n, config |-> config, proxy |-> r]
      BY <3>1
    <3>5. x = [[pc |-> pc, op |-> o, patch |-> t, names |-> n, config |-> g, proxy |-> r] EXCEPT !.config = config]
      BY <3>2
    <3>6. x = [[pc |-> p, op |-> o, patch |-> t, names |-> n, config |-> config, proxy |-> r] EXCEPT !.pc = pc]
      BY <3>2
    <3> QED  BY <3>3, <3>4, <3>5, <3>6, Zenon
  <2>2. call' = [call EXCEPT ![c] = x]
    BY <1>1, <1>2, <2>1 DEF Sets
  <2> QED  BY <2>2, Zenon DEF Becomes
<1> QED  BY <1>2, <1>4, <1>5, <1>6, Zenon DEF Given

\* The four meanings.
LEMMA IntendedFacts ==
    ASSUME NEW x, NEW config
    PROVE  /\ x.op = "apply" => Intended(config, x) = Stored(MergeServerConfig(config, x.patch))
           /\ x.op = "replace" => Intended(config, x) = Stored(x.patch)
           /\ x.op = "delete" => Intended(config, x) = DeleteUsers(config, x.names)
           /\ x.op = "none" => Intended(config, x) = config
           /\ \A y : y.op = x.op /\ y.patch = x.patch /\ y.names = x.names => Intended(config, y) = Intended(config, x)
<1>1. x.op = "apply" => Intended(config, x) = Stored(MergeServerConfig(config, x.patch))
  BY DEF Intended
<1>2. x.op = "replace" => Intended(config, x) = Stored(x.patch)
  BY DEF Intended
<1>3. x.op = "delete" => Intended(config, x) = DeleteUsers(config, x.names)
  BY DEF Intended
<1>4. x.op = "none" => Intended(config, x) = config
  BY DEF Intended
<1>5. \A y : y.op = x.op /\ y.patch = x.patch /\ y.names = x.names => Intended(config, y) = Intended(config, x)
  BY Zenon DEF Intended
<1> QED  BY <1>1, <1>2, <1>3, <1>4, <1>5, Zenon

\* A call waits for a proxy.
LEMMA StartingFacts ==
    ASSUME ControlInv, NEW c \in Callers, NEW pc, NEW n,
           call' = [call EXCEPT ![c].pc = pc, ![c].proxy = n]
    PROVE  \E x : Becomes(c, x) /\ Moved(call[c], pc, x) /\ x.proxy = n
<1>1. /\ call = [d \in Callers |-> call[d]] /\ Carries(call[c]) /\ Locals(call[c])
  BY Zenon DEF ControlInv, CallsInv, Carries
<1>2. PICK y : y = call[c] /\ y = [pc |-> y.pc, op |-> y.op, patch |-> y.patch, names |-> y.names,
                                   config |-> y.config, proxy |-> y.proxy]
  BY <1>1, Zenon DEF Locals
<1>3. PICK x : x = [pc |-> pc, op |-> y.op, patch |-> y.patch, names |-> y.names, config |-> y.config, proxy |-> n]
  BY Zenon
<1>4. /\ x.pc = pc /\ x.op = y.op /\ x.config = y.config /\ x.patch = y.patch /\ x.names = y.names
      /\ x.proxy = n
  BY <1>3
<1>5. Carries(x)
  <2>1. Locals(x)
    BY <1>3, <1>4, Zenon DEF Locals
  <2> QED  BY <1>1, <1>2, <1>4, <2>1, Zenon DEF Carries
<1>6. Becomes(c, x)
  <2>1. x = [[y EXCEPT !.pc = pc] EXCEPT !.proxy = n]
    <3>1. PICK p, o, t, m, g, r :
             y = [pc |-> p, op |-> o, patch |-> t, names |-> m, config |-> g, proxy |-> r]
      BY <1>2, Zenon
    <3>2. x = [pc |-> pc, op |-> o, patch |-> t, names |-> m, config |-> g, proxy |-> n]
      BY <1>3, <3>1
    <3>3. [y EXCEPT !.pc = pc] = [pc |-> pc, op |-> o, patch |-> t, names |-> m, config |-> g, proxy |-> r]
      BY <3>1
    <3>4. x = [[pc |-> pc, op |-> o, patch |-> t, names |-> m, config |-> g, proxy |-> r] EXCEPT !.proxy = n]
      BY <3>2
    <3> QED  BY <3>3, <3>4, Zenon
  <2>2. call' = [call EXCEPT ![c] = x]
    BY <1>1, <1>2, <2>1, Zenon
  <2> QED  BY <2>2, Zenon DEF Becomes
<1> QED  BY <1>2, <1>4, <1>5, <1>6, Zenon DEF Moved

-----------------------------------------------------------------------------
(* The actions.                                                            *)

\* main reads the file, or creates it.
LEMMA MainLoadStep ==
    ASSUME ControlInv, MainLoad
    PROVE  ControlInv'
<1>1. /\ call["main"].pc = "load" /\ "main" \in Callers
      /\ UNCHANGED <<daemon, overlapped, supplied, acked>>
  BY Zenon DEF MainLoad, Callers, historyVars
<1>2. call["main"].op = "none" /\ call["main"].config = EmptyServerConfig /\ Busy("main")
  BY <1>1 DEF ControlInv, CallsInv, Writes, Busy
<1>3. daemon # "down" /\ overlapped' \in BOOLEAN
  BY <1>1, Alive DEF ControlInv
<1>4. CASE file = << >> /\ Truncate("main")
  <2>1. PICK x : Becomes("main", x) /\ Moved(call["main"], "write", x)
    BY <1>1, <1>4, GoesStep, Zenon DEF Truncate
  <2>2. /\ call' = [call EXCEPT !["main"] = x] /\ Carries(x) /\ x.pc = "write" /\ x.op = "none"
        /\ x.config = EmptyServerConfig
    BY <1>2, <2>1, Zenon DEF Becomes, Moved
  <2>3. Writes("main", x)
    BY <2>2 DEF Writes
  <2>4. Stored(x.config) = Intended(acked, x)
    <3>1. Intended(acked, x) = acked /\ acked = EmptyServerConfig
      BY <1>4, <2>2, IntendedFacts, Zenon DEF ControlInv, AckInv
    <3>2. Stored(EmptyServerConfig) = EmptyServerConfig
      BY EmptyFacts, StoredFacts, Zenon
    <3> QED  BY <2>2, <3>1, <3>2, Zenon
  <2>5. MeansWell(x)
    BY <2>2, <2>4 DEF MeansWell
  <2>6. storing = Nobody /\ storing' = {"main"} /\ file' = <<EmptyServerConfig>>
    BY <1>4, Zenon DEF Truncate
  <2> QED  BY <1>1, <1>2, <1>3, <2>2, <2>3, <2>5, <2>6, TruncateStep, Zenon
<1>5. CASE \E config \in Range(file) :
             /\ LoadServerConfig(config)
             /\ call' = [call EXCEPT !["main"].config = config,
                                     !["main"].pc = IF ValidateFullServerConfig(config) THEN "startProxy" ELSE "wait"]
             /\ UNCHANGED fileVars
  <2>1. PICK config, pc :
            /\ LoadServerConfig(config) /\ UNCHANGED fileVars /\ pc \in {"startProxy", "wait"}
            /\ call' = [call EXCEPT !["main"].config = config, !["main"].pc = pc]
    BY <1>5, Zenon
  <2>2. Sound(config)
    BY <2>1, Zenon DEF LoadServerConfig, ControlInv, FileInv
  <2>3. Sets("main", pc, config)
    BY <2>1, Zenon DEF Sets
  <2>4. PICK x : Becomes("main", x) /\ Given(call["main"], pc, config, x)
    BY <1>1, <2>2, <2>3, SetsStep, Zenon
  <2>5. Becomes("main", x) /\ Carries(x) /\ x.pc = pc /\ x.op = call["main"].op
    BY <2>4, Zenon DEF Given
  <2>6. Writes("main", x) /\ MeansWell(x) /\ x.pc # "write" /\ call["main"].pc # "write"
    BY <1>1, <1>2, <2>1, <2>5 DEF Writes, MeansWell
  <2>7. call' = [call EXCEPT !["main"] = x] /\ UNCHANGED <<file, storing>> /\ supplied \subseteq supplied'
    BY <1>1, <2>1, <2>5, Zenon DEF Becomes, fileVars
  <2>8. Carries(x)'
    BY <2>5, <2>7, StillSupplied, Zenon
  <2> QED  BY <1>1, <1>2, <1>3, <2>6, <2>7, <2>8, CallStep, Zenon
<1> QED  BY <1>4, <1>5, Zenon DEF MainLoad

\* A proxy is started.
LEMMA StartStep ==
    ASSUME ControlInv, NEW c \in Callers, StartServerProxy(c)
    PROVE  ControlInv'
<1>1. /\ call[c].pc = "startProxy" /\ UNCHANGED <<file, storing, daemon, overlapped, supplied, acked>>
      /\ daemon' \in {daemon, "exiting"}
  BY Zenon DEF StartServerProxy, fileVars, historyVars
<1>2. CASE socks5Ref # 0 /\ c = "main"
  <2>1. Goes(c, "wait")
    BY <1>2, Zenon DEF StartServerProxy
  <2> QED  BY <1>1, <2>1, MovesOn
<1>3. CASE socks5Ref # 0 /\ c # "main"
  <2>1. Returns(c)
    BY <1>3, Zenon DEF StartServerProxy
  <2> QED  BY <1>1, <2>1, JustEnds
<1>4. CASE socks5Ref = 0
  <2>1. PICK n : call' = [call EXCEPT ![c].pc = "starting", ![c].proxy = n]
    BY <1>4, Zenon DEF StartServerProxy
  <2>2. PICK x : Becomes(c, x) /\ Moved(call[c], "starting", x)
    BY <2>1, StartingFacts, Zenon
  <2>3. x.pc = "starting" /\ x.op = call[c].op /\ x.config = call[c].config /\ Carries(x)
    BY <2>2, Zenon DEF Moved
  <2>4. Writes(c, x) /\ call[c].op # "query"
    BY <1>1, <2>3 DEF ControlInv, CallsInv, Writes
  <2>5. Busy(c) /\ MeansWell(x) /\ x.pc # "write" /\ call[c].pc # "write" /\ call[c].pc # "idle"
    BY <1>1, <2>3, <2>4 DEF Busy, MeansWell
  <2>6. daemon' # "down" /\ overlapped' \in BOOLEAN /\ supplied \subseteq supplied'
    BY <1>1, <2>5, Alive, Zenon DEF ControlInv
  <2>7. Carries(x)' /\ call' = [call EXCEPT ![c] = x]
    BY <2>2, <2>3, <2>6, StillSupplied, Zenon DEF Becomes
  <2> QED  BY <1>1, <2>4, <2>5, <2>6, <2>7, CallStep, Zenon
<1> QED  BY <1>2, <1>3, <1>4, Zenon

\* The start of the proxy has succeeded or failed.
LEMMA StartReturnsStep ==
    ASSUME ControlInv, NEW c \in Callers, StartReturns(c)
    PROVE  ControlInv'
<1>1. /\ call[c].pc = "starting" /\ UNCHANGED <<file, storing, daemon, overlapped, supplied, acked>>
      /\ daemon' \in {daemon, "exiting"}
  BY Zenon DEF StartReturns, fileVars, historyVars
<1>2. CASE c = "main"
  <2>1. Goes(c, "wait")
    BY <1>2, Zenon DEF StartReturns
  <2> QED  BY <1>1, <2>1, MovesOn
<1>3. CASE c # "main"
  <2>1. Returns(c)
    BY <1>3, Zenon DEF StartReturns
  <2> QED  BY <1>1, <2>1, JustEnds
<1> QED  BY <1>2, <1>3, Zenon

\* A command asks for the status, and what it is about to send is checked.
LEMMA CommandStep ==
    ASSUME ControlInv, NEW a \in Admins, NEW op, NEW patch, NEW names, Command(a, op, patch, names),
           op \in {"start", "stop", "reload", "apply", "replace", "delete", "exit"},
           IsServerConfig(patch), op = "replace" => ValidateFullServerConfig(patch)
    PROVE  ControlInv'
<1>1. /\ call[a].pc = "idle" /\ daemon = "up" /\ UNCHANGED <<file, storing, daemon, overlapped, acked>>
      /\ call' = [call EXCEPT ![a] = [Idle EXCEPT !.pc = "call", !.op = op, !.patch = patch, !.names = names]]
      /\ supplied' = supplied \cup {patch.users[name] : name \in DOMAIN patch.users}
  BY Zenon DEF Command, fileVars
<1>2. PICK x : x = [pc |-> "call", op |-> op, patch |-> patch, names |-> names, config |-> EmptyServerConfig,
                    proxy |-> 0]
  BY Zenon
<1>3. call' = [call EXCEPT ![a] = x]
  <2>1. [Idle EXCEPT !.pc = "call"] =
              [pc |-> "call", op |-> "none", patch |-> EmptyServerConfig, names |-> {}, config |-> EmptyServerConfig,
               proxy |-> 0]
    BY DEF Idle
  <2>2. [[pc |-> "call", op |-> "none", patch |-> EmptyServerConfig, names |-> {}, config |-> EmptyServerConfig,
               proxy |-> 0] EXCEPT !.op = op] =
              [pc |-> "call", op |-> op, patch |-> EmptyServerConfig, names |-> {}, config |-> EmptyServerConfig,
               proxy |-> 0]
    OBVIOUS
  <2>3. [[pc |-> "call", op |-> op, patch |-> EmptyServerConfig, names |-> {}, config |-> EmptyServerConfig,
               proxy |-> 0] EXCEPT !.patch = patch] =
              [pc |-> "call", op |-> op, patch |-> patch, names |-> {}, config |-> EmptyServerConfig,
               proxy |-> 0]
    OBVIOUS
  <2>4. [[pc |-> "call", op |-> op, patch |-> patch, names |-> {}, config |-> EmptyServerConfig,
               proxy |-> 0] EXCEPT !.names = names] = x
    BY <1>2
  <2>5. x = [Idle EXCEPT !.pc = "call", !.op = op, !.patch = patch, !.names = names]
    BY <2>1, <2>2, <2>3, <2>4, Zenon
  <2> QED  BY <1>1, <2>5, Zenon
<1>4. /\ x.pc = "call" /\ x.op = op /\ x.patch = patch /\ x.names = names /\ x.config = EmptyServerConfig
      /\ x.proxy = 0
  BY <1>2
<1>5. a \in Callers /\ a # "main" /\ supplied \subseteq supplied' /\ overlapped' \in BOOLEAN /\ daemon' # "down"
  BY <1>1, ControlAssumption DEF ControlAssumption, Callers, ControlInv
<1>6. Carries(x)'
  <2>1. Supplied(patch)'
    <3> SUFFICES ASSUME NEW name \in DOMAIN patch.users
                 PROVE  \E user \in supplied' : user.name = name /\ Secret(user) = Secret(patch.users[name])
      BY Zenon DEF Supplied
    <3>1. patch.users[name] \in supplied'
      BY <1>1, Zenon
    <3>2. patch.users[name].name = name
      <4>1. PICK user : user = patch.users[name] /\ IsUser(name, user)
        BY Zenon DEF IsServerConfig
      <4>2. PICK p, h, q : user = [name |-> name, password |-> p, hashed |-> h, quotas |-> q]
        BY <4>1, Zenon DEF IsUser
      <4>3. user.name = name
        BY <4>2
      <4> QED  BY <4>1, <4>3, Zenon
    <3> QED  BY <3>1, <3>2, Zenon
  <2>2. Sound(EmptyServerConfig)'
    BY <1>5, EmptyFacts, StillSupplied, Zenon
  <2>3. Locals(x)
    BY <1>2, <1>4, Zenon DEF Locals
  <2>4. /\ Sound(x.config)' /\ Supplied(x.patch)' /\ IsServerConfig(x.patch)
        /\ x.op = "replace" => ValidateFullServerConfig(x.patch)
    BY <1>4, <2>1, <2>2, Zenon
  <2> QED  BY <2>3, <2>4, Zenon DEF Carries, Sound, Supplied
<1>7. Writes(a, x)
  BY <1>4, <1>5 DEF Writes, AfterValid
<1>8. ~Active(x) /\ MeansWell(x) /\ x.pc # "write" /\ call[a].pc # "write"
  BY <1>1, <1>4 DEF Active, MeansWell
<1> QED  BY <1>1, <1>3, <1>5, <1>6, <1>7, <1>8, CallStep, Zenon

\* A query.
LEMMA QueryStep ==
    ASSUME ControlInv, NEW a \in Admins, NEW pc \in {"load", "answer"}, Query(a, pc)
    PROVE  ControlInv'
<1>1. /\ call[a].pc = "idle" /\ daemon = "up" /\ UNCHANGED <<file, storing, daemon, overlapped, acked, supplied>>
      /\ call' = [call EXCEPT ![a] = [Idle EXCEPT !.pc = pc, !.op = "query"]]
  BY Zenon DEF Query, fileVars, historyVars
<1>2. PICK x : x = [pc |-> pc, op |-> "query", patch |-> EmptyServerConfig, names |-> {}, config |-> EmptyServerConfig,
                    proxy |-> 0]
  BY Zenon
<1>3. call' = [call EXCEPT ![a] = x]
  <2>1. [Idle EXCEPT !.pc = pc] =
              [pc |-> pc, op |-> "none", patch |-> EmptyServerConfig, names |-> {}, config |-> EmptyServerConfig,
               proxy |-> 0]
    BY DEF Idle
  <2>2. [[pc |-> pc, op |-> "none", patch |-> EmptyServerConfig, names |-> {}, config |-> EmptyServerConfig,
               proxy |-> 0] EXCEPT !.op = "query"] = x
    BY <1>2
  <2>3. x = [Idle EXCEPT !.pc = pc, !.op = "query"]
    BY <2>1, <2>2, Zenon
  <2> QED  BY <1>1, <2>3, Zenon
<1>4. /\ x.pc = pc /\ x.op = "query" /\ x.patch = EmptyServerConfig /\ x.names = {} /\ x.config = EmptyServerConfig
      /\ x.proxy = 0
  BY <1>2
<1>5. a \in Callers /\ a # "main" /\ supplied \subseteq supplied' /\ overlapped' \in BOOLEAN /\ daemon' # "down"
  BY <1>1, ControlAssumption DEF ControlAssumption, Callers, ControlInv
<1>6. Carries(x)'
  <2>1. Locals(x)
    BY <1>2, <1>4, Zenon DEF Locals
  <2>2. Carries(x)
    BY <1>4, <2>1, EmptyFacts, Zenon DEF Carries, Sound
  <2> QED  BY <1>5, <2>2, StillSupplied, Zenon
<1>7. Writes(a, x)
  BY <1>4, <1>5 DEF Writes, AfterValid
<1>8. ~Active(x) /\ MeansWell(x) /\ x.pc # "write" /\ call[a].pc # "write"
  BY <1>1, <1>4 DEF Active, MeansWell
<1> QED  BY <1>1, <1>3, <1>5, <1>6, <1>7, <1>8, CallStep, Zenon

\* The commands of mita.
LEMMA RequestStep ==
    ASSUME ControlInv, NEW a \in Admins, Request(a)
    PROVE  ControlInv'
<1>1. IsServerConfig(EmptyServerConfig)
  BY EmptyFacts, Zenon
<1>2. CASE serverStartFunc(a) \/ serverStopFunc(a) \/ serverReloadFunc(a) \/ ExitRequest(a)
  <2>1. PICK op \in {"start", "stop", "reload", "exit"} : Command(a, op, EmptyServerConfig, {})
    BY <1>2, Zenon DEF serverStartFunc, serverStopFunc, serverReloadFunc, ExitRequest
  <2> QED  BY <1>1, <2>1, CommandStep
<1>3. CASE serverApplyConfigFunc(a)
  <2>1. PICK patch \in Patches : Command(a, "apply", patch, {})
    BY <1>3, Zenon DEF serverApplyConfigFunc
  <2>2. IsServerConfig(patch)
    BY ControlAssumption, Zenon DEF ControlAssumption
  <2> QED  BY <2>1, <2>2, CommandStep
<1>4. CASE serverReplaceConfigFunc(a)
  <2>1. PICK patch \in Patches : ValidateFullServerConfig(patch) /\ Command(a, "replace", patch, {})
    BY <1>4, Zenon DEF serverReplaceConfigFunc
  <2>2. IsServerConfig(patch)
    BY ControlAssumption, Zenon DEF ControlAssumption
  <2> QED  BY <2>1, <2>2, CommandStep
<1>5. CASE serverDeleteUserFunc(a)
  <2>1. PICK names \in Deletions : Command(a, "delete", EmptyServerConfig, names)
    BY <1>5, Zenon DEF serverDeleteUserFunc
  <2> QED  BY <1>1, <2>1, CommandStep
<1>6. CASE \E pc \in {"load", "answer"} : Query(a, pc)
  BY <1>6, QueryStep, Zenon
<1> QED
  BY <1>2, <1>3, <1>4, <1>5, <1>6, Zenon
  DEF Request, serverDescribeConfigFunc, serverDescribeEffectiveTrafficPatternFunc, serverExportTrafficPatternFunc,
      serverGetUsersFunc, serverGetQuotasFunc, serverStatusFunc, serverGetMetricsFunc, serverGetConnectionsFunc,
      serverProfileFunc

\* The call reaches the daemon.
LEMMA CallsStep ==
    ASSUME ControlInv, NEW a \in Admins, Calls(a)
    PROVE  ControlInv'
<1>1. /\ call[a].pc = "call" /\ UNCHANGED <<file, storing, daemon, supplied, acked>>
      /\ daemon' \in {daemon, "exiting"} /\ supplied \subseteq supplied'
  BY Zenon DEF Calls, fileVars
<1>2. a \in Callers /\ a # "main"
  BY ControlAssumption DEF ControlAssumption, Callers
<1>3. CASE daemon # "up"
  <2>1. Returns(a) /\ overlapped' = overlapped
    BY <1>3, Zenon DEF Calls
  <2> QED  BY <1>1, <1>2, <2>1, JustEnds
<1>4. CASE daemon = "up"
  <2>1. PICK pc : /\ Goes(a, pc)
                  /\ pc = CASE call[a].op \in {"stop", "exit"} -> "stop" [] call[a].op = "replace" -> "set"
                            [] OTHER -> "load"
                  /\ overlapped' = (overlapped \/ OthersBusy(a) \/ \E p \in DOMAIN proxies : Failing(p))
    BY <1>4, Zenon DEF Calls
  <2>2. /\ pc \in {"stop", "set", "load"} /\ (pc = "set" => call[a].op = "replace")
        /\ pc = "load" => call[a].op \notin {"stop", "exit", "replace"}
    <3>1. CASE call[a].op \in {"stop", "exit"}
      BY <2>1, <3>1
    <3>2. CASE call[a].op = "replace"
      BY <2>1, <3>2
    <3>3. CASE call[a].op \notin {"stop", "exit", "replace"}
      BY <2>1, <3>3
    <3> QED  BY <3>1, <3>2, <3>3
  <2>3. PICK x : Becomes(a, x) /\ Moved(call[a], pc, x)
    BY <1>2, <2>1, GoesStep, Zenon
  <2>4. x.pc = pc /\ x.op = call[a].op /\ Carries(x) /\ call' = [call EXCEPT ![a] = x]
    BY <2>3, Zenon DEF Becomes, Moved
  <2>5. Writes(a, x)
    <3>1. /\ call[a].op \in DOMAIN AfterValid \cup {"stop", "exit", "replace"}
          /\ call[a].op # "query"
      BY <1>1, <1>2 DEF ControlInv, CallsInv, Writes
    <3> QED  BY <1>2, <2>2, <2>4, <3>1 DEF Writes
  <2>6. MeansWell(x) /\ x.pc # "write" /\ call[a].pc # "write"
    BY <1>1, <2>2, <2>4 DEF MeansWell
  <2>7. overlapped' \in BOOLEAN /\ (overlapped => overlapped') /\ (~overlapped' => \A d \in Callers \ {a} : ~Busy(d))
    BY <2>1, Zenon DEF OthersBusy
  <2>8. Carries(x)'
    BY <1>1, <2>4, StillSupplied, Zenon
  <2>9. daemon' # "down"
    BY <1>1, <1>4
  <2> QED  BY <1>1, <1>2, <2>4, <2>5, <2>6, <2>7, <2>8, <2>9, CallStep, Zenon
<1> QED  BY <1>3, <1>4, Zenon

\* Where a call goes on, and with what.
LEMMA NextFacts ==
    ASSUME ControlInv, NEW a \in Callers, a # "main", call[a].pc = "load", storing = Nobody, file # << >>,
           NEW config, config = NextConfig(a, file[1]), NEW pc, pc = AfterLoad(a, config), pc # "idle"
    PROVE  /\ Sound(config)
           /\ pc \in {"set", "answer", "startProxy", "reload"}
           /\ pc = "set" => call[a].op \in {"apply", "delete"}
           /\ pc # "answer" => call[a].op # "query"
           /\ pc = "answer" => call[a].op = "query"
           /\ pc = "set" /\ ~overlapped => Stored(config) = Intended(acked, call[a])
<1>1. PICK loaded : loaded = file[1] /\ Sound(loaded) /\ Hashed(loaded)
  BY Zenon DEF ControlInv, FileInv
<1>2. PICK x : x = call[a] /\ Carries(x)
  BY Zenon DEF ControlInv, CallsInv
<1>3. x.op \in {"delete", "apply", "query", "start", "reload"}
  <2>1. DOMAIN AfterValid = {"delete", "apply", "query", "start", "reload"}
    BY DEF AfterValid
  <2> QED  BY <1>2, <2>1, Zenon DEF ControlInv, CallsInv, Writes
<1>4. ~overlapped => loaded = acked
  BY <1>1, Zenon DEF ControlInv, AckInv
<1>5. pc = AfterValid[x.op] /\ (x.op \in {"apply", "start", "reload"} => ValidateFullServerConfig(config))
  BY <1>2, Zenon DEF AfterLoad
<1>6. CASE x.op = "apply"
  <2>1. config = MergeServerConfig(loaded, x.patch)
    BY <1>1, <1>2, <1>6 DEF NextConfig
  <2>2. IsServerConfig(config) /\ Supplied(config)
    BY <1>1, <1>2, <2>1, MergeFacts, Zenon DEF Sound, Carries
  <2>3. Sound(config)
    BY <1>5, <1>6, <2>2, Zenon DEF Sound, Startable
  <2>4. pc = "set"
    BY <1>5, <1>6 DEF AfterValid
  <2>5. ~overlapped => Stored(config) = Intended(acked, x)
    BY <1>4, <1>6, <2>1, IntendedFacts, Zenon
  <2> QED  BY <1>2, <1>6, <2>3, <2>4, <2>5, Zenon
<1>7. CASE x.op = "delete"
  <2>1. config = DeleteUsers(loaded, x.names)
    BY <1>1, <1>2, <1>7 DEF NextConfig
  <2>2. Sound(config) /\ Hashed(config)
    BY <1>1, <2>1, DeleteFacts, Zenon DEF Sound
  <2>3. Stored(config) = config
    BY <2>2, StoredFacts, Zenon DEF Sound
  <2>4. pc = "set"
    BY <1>5, <1>7 DEF AfterValid
  <2>5. ~overlapped => Stored(config) = Intended(acked, x)
    BY <1>4, <1>7, <2>1, <2>3, IntendedFacts, Zenon
  <2> QED  BY <1>2, <1>7, <2>2, <2>4, <2>5, Zenon
<1>8. CASE x.op \in {"query", "start", "reload"}
  <2>1. config = loaded
    BY <1>1, <1>2, <1>8 DEF NextConfig
  <2>2. (x.op = "query" /\ pc = "answer") \/ (x.op # "query" /\ pc \in {"startProxy", "reload"})
    BY <1>5, <1>8 DEF AfterValid
  <2>3. pc \in {"answer", "startProxy", "reload"} /\ pc # "set"
    BY <2>2
  <2>4. (pc # "answer" => x.op # "query") /\ (pc = "answer" => x.op = "query")
    BY <2>2
  <2> QED  BY <1>1, <1>2, <2>1, <2>3, <2>4, Zenon
<1> QED  BY <1>3, <1>6, <1>7, <1>8, Zenon

\* A call reads the file.
LEMMA LoadStep ==
    ASSUME ControlInv, NEW a \in Admins, LoadConfig(a)
    PROVE  ControlInv'
<1>1. /\ call[a].pc = "load" /\ UNCHANGED <<file, storing, daemon, supplied, acked, overlapped>>
      /\ daemon' \in {daemon, "exiting"} /\ supplied \subseteq supplied'
  BY Zenon DEF LoadConfig, fileVars, historyVars
<1>2. a \in Callers /\ a # "main" /\ daemon' # "down" /\ overlapped' \in BOOLEAN
  <2>1. a \in Callers /\ a # "main"
    BY ControlAssumption DEF ControlAssumption, Callers
  <2>2. daemon # "down"
    BY <1>1, <2>1, Alive
  <2> QED  BY <1>1, <2>1, <2>2, Zenon DEF ControlInv
<1>3. CASE Returns(a)
  BY <1>1, <1>2, <1>3, JustEnds
<1>4. CASE ~Returns(a)
  <2>1. PICK loaded, config, pc :
           /\ LoadServerConfig(loaded) /\ config = NextConfig(a, loaded) /\ pc = AfterLoad(a, config) /\ pc # "idle"
           /\ call' = [call EXCEPT ![a].pc = pc, ![a].config = config]
    BY <1>4, Zenon DEF LoadConfig
  <2>2. storing = Nobody /\ file # << >> /\ config = NextConfig(a, file[1])
    BY <2>1, Zenon DEF LoadServerConfig
  <2>3. /\ Sound(config)
        /\ pc \in {"set", "answer", "startProxy", "reload"}
        /\ pc = "set" => call[a].op \in {"apply", "delete"}
        /\ pc # "answer" => call[a].op # "query"
        /\ pc = "answer" => call[a].op = "query"
        /\ pc = "set" /\ ~overlapped => Stored(config) = Intended(acked, call[a])
    BY <1>1, <1>2, <2>1, <2>2, NextFacts, Zenon
  <2>4. Sets(a, pc, config)
    BY <2>1, Zenon DEF Sets
  <2>5. PICK x : Becomes(a, x) /\ Given(call[a], pc, config, x)
    BY <1>2, <2>3, <2>4, SetsStep, Zenon
  <2>6. /\ call' = [call EXCEPT ![a] = x] /\ Carries(x) /\ x.pc = pc /\ x.config = config
        /\ x.op = call[a].op /\ x.patch = call[a].patch /\ x.names = call[a].names
    BY <2>5, Zenon DEF Becomes, Given
  <2>7. Writes(a, x) /\ x.pc # "write" /\ call[a].pc # "write"
    BY <1>1, <1>2, <2>3, <2>6 DEF Writes
  <2>8. ~Active(x) \/ Busy(a)
    BY <1>1, <2>3, <2>6 DEF Active, Busy
  <2>9. ~overlapped' => MeansWell(x)
    <3>1. Intended(acked, x) = Intended(acked, call[a])
      BY <2>6, IntendedFacts, Zenon
    <3>2. x.pc # "write" /\ (x.pc = "set" /\ ~overlapped => Stored(x.config) = Intended(acked, x))
      BY <2>3, <2>6, <2>7, <3>1, Zenon
    <3> QED  BY <1>1, <3>2, Zenon DEF MeansWell
  <2>10. Carries(x)'
    BY <1>1, <2>6, StillSupplied, Zenon
  <2> QED  BY <1>1, <1>2, <2>6, <2>7, <2>8, <2>9, <2>10, CallStep, Zenon
<1> QED  BY <1>3, <1>4, Zenon

\* A call takes the lock and truncates the file.
LEMMA SetConfigStep ==
    ASSUME ControlInv, NEW a \in Admins, SetConfig(a)
    PROVE  ControlInv'
<1>1. /\ call[a].pc = "set" /\ UNCHANGED <<daemon, supplied, acked, overlapped>> /\ daemon' \in {daemon, "exiting"}
  BY Zenon DEF SetConfig, historyVars
<1>2. a \in Callers /\ a # "main"
  BY ControlAssumption DEF ControlAssumption, Callers
<1>3. CASE daemon # "up"
  <2>1. Returns(a) /\ UNCHANGED <<file, storing>>
    BY <1>3, Zenon DEF SetConfig, fileVars
  <2> QED  BY <1>1, <1>2, <2>1, JustEnds
<1>4. CASE daemon = "up"
  <2>1. PICK config : /\ config = IF call[a].op = "replace" THEN call[a].patch ELSE call[a].config
                      /\ storing = Nobody /\ storing' = {a} /\ file' = <<EmptyServerConfig>>
                      /\ call' = [call EXCEPT ![a].pc = "write", ![a].config = config]
    BY <1>4, Zenon DEF SetConfig
  <2>2. Sound(config)
    BY <1>2, <2>1, Zenon DEF ControlInv, CallsInv, Carries, Sound, Startable
  <2>3. Sets(a, "write", config)
    BY <2>1, Zenon DEF Sets
  <2>4. PICK x : Becomes(a, x) /\ Given(call[a], "write", config, x)
    BY <1>2, <2>2, <2>3, SetsStep, Zenon
  <2>5. /\ call' = [call EXCEPT ![a] = x] /\ Carries(x) /\ x.pc = "write" /\ x.config = config
        /\ x.op = call[a].op /\ x.patch = call[a].patch /\ x.names = call[a].names
    BY <2>4, Zenon DEF Becomes, Given
  <2>6. call[a].op \in {"apply", "replace", "delete"}
    BY <1>1, <1>2 DEF ControlInv, CallsInv, Writes
  <2>7. Writes(a, x) /\ Busy(a)
    BY <1>1, <1>2, <2>5, <2>6 DEF Writes, Busy
  <2>8. ~overlapped => MeansWell(x)
    <3>1. Intended(acked, x) = Intended(acked, call[a])
      BY <2>5, IntendedFacts, Zenon
    <3>2. CASE call[a].op = "replace"
      <4>1. Intended(acked, x) = Stored(x.patch) /\ x.config = x.patch
        BY <2>1, <2>5, <3>2, IntendedFacts
      <4> QED  BY <4>1, <2>5, <3>2 DEF MeansWell
    <3>3. CASE call[a].op # "replace"
      <4>1. ~overlapped => Stored(call[a].config) = Intended(acked, call[a])
        BY <1>1, <1>2, <3>3, Zenon DEF ControlInv, AckInv, Means
      <4> QED  BY <2>1, <2>5, <3>1, <3>3, <4>1, Zenon DEF MeansWell
    <3> QED  BY <3>2, <3>3, Zenon
  <2>9. daemon # "down"
    BY <1>4
  <2> QED  BY <1>1, <1>2, <2>1, <2>2, <2>5, <2>7, <2>8, <2>9, TruncateStep, Zenon
<1> QED  BY <1>3, <1>4, Zenon

\* The other steps of the handlers.
LEMMA HandlerSteps ==
    ASSUME ControlInv, NEW a \in Admins, HandlerStep(a)
    PROVE  ControlInv'
<1>1. a \in Callers
  BY Zenon DEF Callers
<1>2. CASE Answer(a)
  <2>1. /\ call[a].pc \notin {"idle", "write"} /\ Returns(a)
        /\ UNCHANGED <<file, storing, daemon, supplied, acked, overlapped>> /\ daemon' \in {daemon, "exiting"}
    BY <1>2 DEF Answer, fileVars, historyVars
  <2> QED  BY <1>1, <2>1, JustEnds
<1>3. CASE StopLooks(a)
  <2>1. PICK pc \in {"close", "none"} : Goes(a, pc)
    BY <1>3, Zenon DEF StopLooks
  <2>2. call[a].pc = "stop" /\ UNCHANGED <<file, storing, daemon, supplied, acked, overlapped>>
    BY <1>3, Zenon DEF StopLooks, fileVars, historyVars
  <2> QED  BY <1>1, <2>1, <2>2, MovesOn
<1>4. CASE StopCloses(a)
  <2>1. CASE Down /\ UNCHANGED overlapped
    BY <2>1, DownStep, Zenon
  <2>2. CASE ~Panics(socks5Ref)
    <3>1. /\ call[a].pc = "close" /\ Goes(a, "closed")
          /\ UNCHANGED <<file, storing, daemon, supplied, acked, overlapped>>
      BY <1>4, <2>2, Zenon DEF StopCloses, fileVars, historyVars
    <3> QED  BY <1>1, <3>1, MovesOn
  <2> QED  BY <1>4, <2>1, <2>2, Zenon DEF StopCloses
<1>5. CASE StopReturns(a)
  <2>1. /\ call[a].pc \notin {"idle", "write"} /\ Returns(a)
        /\ UNCHANGED <<file, storing, supplied, acked, overlapped>> /\ daemon' \in {daemon, "exiting"}
    BY <1>5 DEF StopReturns, fileVars, historyVars
  <2> QED  BY <1>1, <2>1, JustEnds
<1>6. CASE Reload(a)
  <2>1. /\ call[a].pc = "reload" /\ Returns(a)
        /\ UNCHANGED <<file, storing, daemon, supplied, acked, overlapped>>
    BY <1>6, Zenon DEF Reload, fileVars, historyVars
  <2>2. call[a].pc \notin {"idle", "write"} /\ daemon' \in {daemon, "exiting"}
    BY <2>1
  <2> QED  BY <1>1, <2>1, <2>2, JustEnds
<1> QED  BY <1>2, <1>3, <1>4, <1>5, <1>6, CallsStep, LoadStep, SetConfigStep, Zenon DEF HandlerStep

\* The steps of the proxies.
LEMMA ProxySteps ==
    ASSUME ControlInv, NEW p \in DOMAIN proxies, ProxyStep(p) \/ ServeFails(p)
    PROVE  ControlInv'
<1>1. overlapped \in BOOLEAN
  BY Zenon DEF ControlInv
<1>2. CASE MuxStart(p) \/ PublishMux(p) \/ PublishSocks5(p) \/ ServeStops(p)
  <2>1. UNCHANGED <<file, storing, daemon, call, supplied, acked, overlapped>>
    BY <1>2, Zenon DEF MuxStart, PublishMux, PublishSocks5, ServeStops, fileVars, historyVars
  <2> QED  BY <1>1, <2>1, Elsewhere
<1>3. CASE ServeFails(p)
  <2>1. UNCHANGED <<file, storing, daemon, call, supplied, acked>>
        /\ overlapped' = (overlapped \/ ~Quiet \/ proxies[p].die)
    BY <1>3, Zenon DEF ServeFails, fileVars
  <2>2. overlapped' \in BOOLEAN /\ (overlapped => overlapped')
    BY <2>1, Zenon
  <2> QED  BY <2>1, <2>2, Elsewhere
<1>4. CASE CleanupFailed(p)
  <2>1. CASE Down /\ UNCHANGED overlapped
    BY <2>1, DownStep, Zenon
  <2>2. CASE UNCHANGED <<fileVars, daemon, call, boundVars, historyVars>>
    <3>1. UNCHANGED <<file, storing, daemon, call, supplied, acked, overlapped>>
      BY <2>2, Zenon DEF fileVars, historyVars
    <3> QED  BY <1>1, <3>1, Elsewhere
  <2> QED  BY <1>4, <2>1, <2>2, Zenon DEF CleanupFailed
<1> QED  BY <1>2, <1>3, <1>4, Zenon DEF ProxyStep

-----------------------------------------------------------------------------

\* A server that was never run.
LEMMA ControlInitial == ControlInit => ControlInv
<1> SUFFICES ASSUME ControlInit PROVE ControlInv
  BY Zenon
<1>1. /\ file = << >> /\ storing = Nobody /\ daemon = "down" /\ call = [c \in Callers |-> Idle]
      /\ overlapped = FALSE /\ acked = EmptyServerConfig
  BY Zenon DEF ControlInit
<1>2. \A c \in Callers : call[c] = Idle
  BY <1>1, Zenon
<1>3. CallsInv
  BY <1>1, <1>2, IdleFacts, Zenon DEF CallsInv
<1>4. LockInv
  <2>1. \A c \in Callers : call[c].pc # "write" /\ storing # {c}
    BY <1>1, <1>2, IdleFacts DEF Nobody
  <2> QED  BY <1>1, <2>1, Zenon DEF LockInv
<1>5. AckInv
  <2>1. \A c \in Callers : ~Busy(c) /\ Means(c)
    BY <1>2, IdleFacts DEF Busy, Means
  <2> QED  BY <1>1, <2>1, Zenon DEF AckInv
<1> QED  BY <1>1, <1>3, <1>4, <1>5, Zenon DEF ControlInv, FileInv

\* Every step of the daemon and of its administrators.
LEMMA ControlSteps == ControlInv /\ [ControlNext]_controlVars => ControlInv'
<1> SUFFICES ASSUME ControlInv, [ControlNext]_controlVars PROVE ControlInv'
  BY Zenon
<1>1. CASE UNCHANGED controlVars
  <2>1. UNCHANGED <<file, storing, daemon, call, supplied, acked, overlapped>> /\ overlapped \in BOOLEAN
    BY <1>1, Zenon DEF controlVars, ControlInv
  <2> QED  BY <2>1, Elsewhere
<1>2. CASE Run
  BY <1>2, RunStep, Zenon
<1>3. CASE MainLoad
  BY <1>3, MainLoadStep, Zenon
<1>4. CASE Exits \/ Crash
  BY <1>4, DownStep, Zenon DEF Exits, Crash
<1>5. CASE \E a \in Admins : Request(a) \/ HandlerStep(a)
  BY <1>5, RequestStep, HandlerSteps, Zenon
<1>6. CASE \E c \in Callers : CallerStep(c)
  BY <1>6, StartStep, StartReturnsStep, StoreStep, Zenon DEF CallerStep
<1>7. CASE \E p \in DOMAIN proxies : ProxyStep(p) \/ ServeFails(p)
  BY <1>7, ProxySteps, Zenon
<1> QED  BY <1>1, <1>2, <1>3, <1>4, <1>5, <1>6, <1>7, Zenon DEF ControlNext

\* What the invariant says of the file.
LEMMA InvStartable == ControlInv => StoredIsStartable /\ AckedIsStored
<1> SUFFICES ASSUME ControlInv PROVE StoredIsStartable /\ AckedIsStored
  BY Zenon
<1>1. AckedIsStored
  BY Zenon DEF ControlInv, AckInv, AckedIsStored
<1>2. StoredIsValid
  BY Zenon DEF ControlInv, FileInv, Sound, Startable, Hashed, StoredIsValid
<1>3. CredentialWasSupplied
  <2> SUFFICES ASSUME file # << >>, NEW name \in DOMAIN file[1].users
               PROVE  \E user \in supplied : user.name = name /\ file[1].users[name].hashed =
                          IF user.password # 0 THEN HashPassword(user.password, name) ELSE user.hashed
    BY Zenon DEF CredentialWasSupplied
  <2>1. file[1].users[name].password = 0 /\ Supplied(file[1])
    BY Zenon DEF ControlInv, FileInv, Sound, Hashed
  <2>2. PICK user \in supplied : user.name = name /\ Secret(user) = Secret(file[1].users[name])
    BY <2>1, Zenon DEF Supplied
  <2> QED  BY <2>1, <2>2, Zenon DEF Secret
<1> QED  BY <1>1, <1>2, <1>3, Zenon DEF StoredIsStartable

\* Whatever the administrators do at once, wherever the daemon crashes, and
\* whatever they apply, replace or delete, the file on disk is empty or valid as
\* a whole, holds no plain password, and holds for each user a credential that
\* was supplied for that user (StoreServerConfig, ApplyServerConfig, DeleteUsers).
THEOREM FileIsStartable == ControlSpec => []StoredIsStartable
<1>1. ControlInv => StoredIsStartable
  BY InvStartable, Zenon
<1> QED  BY <1>1, ControlInitial, ControlSteps, PTL DEF ControlSpec

\* As long as no calls overlapped in a run of the daemon, the file holds what the
\* commands mean one after another, also across restarts and crashes.
THEOREM FileIsAcked == ControlSpec => []AckedIsStored
<1>1. ControlInv => AckedIsStored
  BY InvStartable, Zenon
<1> QED  BY <1>1, ControlInitial, ControlSteps, PTL DEF ControlSpec

-----------------------------------------------------------------------------
(* The status and the references.                                          *)

IsProxy(x) == x = [state |-> x.state, die |-> x.die, endpoints |-> x.endpoints, users |-> x.users]
ProxiesInv ==
    /\ proxies \in Seq({proxies[p] : p \in DOMAIN proxies})
    /\ \A p \in DOMAIN proxies : IsProxy(proxies[p])

\* No process, no proxy.
DownInv == daemon = "down" => proxies = << >> /\ socks5Ref = 0 /\ muxRef = 0 /\ status = "UNKNOWN"

\* A proxy that failed to start, that has ended or that will end.
Dead(p) == proxies[p].state \in {"failed", "closed"} \/ (proxies[p].state = "serving" /\ proxies[p].die)
OthersDead(p) == \A q \in DOMAIN proxies : q # p => Dead(q)

\* What a call may rely on, as long as no calls overlap: nothing is started;
\* one proxy is, and both references point to it; or one is being started.
NoProxy == socks5Ref = 0 /\ muxRef = 0 /\ \A q \in DOMAIN proxies : Dead(q)
OneProxy(p) ==
    /\ p \in DOMAIN proxies /\ socks5Ref = p /\ muxRef = p /\ OthersDead(p)
    /\ proxies[p].state \in {"serving", "failing"} /\ ~proxies[p].die
BeingStarted(p) ==
    /\ p \in DOMAIN proxies /\ ~proxies[p].die /\ OthersDead(p)
    /\ \/ proxies[p].state \in {"new", "started", "failed"} /\ muxRef = 0 /\ socks5Ref = 0
       \/ proxies[p].state = "published" /\ muxRef = p /\ socks5Ref = 0
       \/ proxies[p].state = "serving" /\ muxRef = p /\ socks5Ref = p
Settled ==
    \/ NoProxy /\ status # "RUNNING"
    \/ (\E p \in DOMAIN proxies : OneProxy(p)) /\ status = "RUNNING"

\* Where a call is about to change the references or the status.
Changing == {"starting", "close", "closed", "none"}
Phase(x) ==
    /\ x.pc = "starting" => BeingStarted(x.proxy)
    /\ x.pc = "close" => \E p \in DOMAIN proxies : OneProxy(p)
    /\ x.pc = "closed" => \A q \in DOMAIN proxies : Dead(q)
    /\ x.pc = "none" => NoProxy
NoneFailing == \A p \in DOMAIN proxies : ~Failing(p)
PhaseInv ==
    ~overlapped => /\ \A c \in Callers : Phase(call[c])
                   /\ (\A c \in Callers : call[c].pc \notin Changing) => Settled
                   /\ ~Quiet => NoneFailing
StatusInv == ProxiesInv /\ DownInv /\ PhaseInv

\* Only the state and the die channel of a proxy matter.
Kept(q) == proxies'[q].state = proxies[q].state /\ proxies'[q].die = proxies[q].die
AllKept == DOMAIN proxies' = DOMAIN proxies /\ \A q \in DOMAIN proxies : Kept(q)
SetTo(p, state, die) ==
    /\ DOMAIN proxies' = DOMAIN proxies /\ p \in DOMAIN proxies
    /\ proxies'[p].state = state /\ proxies'[p].die = die
    /\ \A q \in DOMAIN proxies : q # p => Kept(q)

\* Sequences as functions.
LEMMA SeqOf ==
    ASSUME NEW S, NEW n \in Nat, NEW f \in [1 .. n -> S]
    PROVE  f \in Seq(S) /\ Len(f) = n
OBVIOUS

\* A sequence with one more element.
LEMMA AppendFacts ==
    ASSUME NEW s, s \in Seq({s[p] : p \in DOMAIN s}), NEW x, NEW t, t = Append(s, x)
    PROVE  /\ t \in Seq({t[p] : p \in DOMAIN t}) /\ DOMAIN t = DOMAIN s \cup {Len(s) + 1}
           /\ Len(s) + 1 \notin DOMAIN s /\ t[Len(s) + 1] = x
           /\ \A p \in DOMAIN s : t[p] = s[p]
<1>1. Len(s) \in Nat /\ DOMAIN s = 1 .. Len(s)
  OBVIOUS
<1>2. /\ DOMAIN t = 1 .. Len(s) + 1 /\ t[Len(s) + 1] = x
      /\ \A p \in 1 .. Len(s) : t[p] = s[p]
  BY <1>1
<1>3. t = [p \in 1 .. Len(s) + 1 |-> t[p]]
  <2>1. PICK S : S = {s[p] : p \in DOMAIN s}
    BY Zenon
  <2>2. s \in Seq(S)
    BY <2>1, Zenon
  <2>3. s \in [1 .. Len(s) -> S \cup {x}]
    BY <2>2
  <2>4. s \in Seq(S \cup {x})
    BY <1>1, <2>3, SeqOf
  <2>5. t \in Seq(S \cup {x}) /\ Len(t) = Len(s) + 1
    BY <2>4
  <2>6. \A r \in Seq(S \cup {x}) : r \in [1 .. Len(r) -> S \cup {x}]
    OBVIOUS
  <2>7. t \in [1 .. Len(s) + 1 -> S \cup {x}]
    BY <2>5, <2>6, Zenon
  <2>8. \A D, R : \A f \in [D -> R] : f = [p \in D |-> f[p]]
    BY Zenon
  <2> QED  BY <2>7, <2>8, Zenon
<1>4. t \in Seq({t[p] : p \in DOMAIN t})
  <2>1. PICK S : S = {t[p] : p \in DOMAIN t}
    BY Zenon
  <2>2. \A p \in DOMAIN t : t[p] \in S
    BY <2>1, Zenon
  <2>3. t \in [1 .. Len(s) + 1 -> S] /\ Len(s) + 1 \in Nat
    BY <1>1, <1>2, <1>3, <2>2
  <2>4. t \in Seq(S)
    BY <2>3, SeqOf, Zenon
  <2> QED  BY <2>1, <2>4, Zenon
<1> QED  BY <1>1, <1>2, <1>4

\* A sequence with other elements.
LEMMA OtherElements ==
    ASSUME NEW s, s \in Seq({s[p] : p \in DOMAIN s}), NEW t, DOMAIN t = DOMAIN s, t = [p \in DOMAIN t |-> t[p]]
    PROVE  t \in Seq({t[p] : p \in DOMAIN t})
<1>1. Len(s) \in Nat /\ DOMAIN s = 1 .. Len(s)
  OBVIOUS
<1>2. PICK S : S = {t[p] : p \in DOMAIN t}
  BY Zenon
<1>3. \A p \in DOMAIN t : t[p] \in S
  BY <1>2, Zenon
<1>4. t \in [1 .. Len(s) -> S]
  BY <1>1, <1>3
<1>5. t \in Seq(S)
  BY <1>1, <1>4
<1> QED  BY <1>2, <1>5, Zenon

\* A proxy changes.
LEMMA ProxyBecomes ==
    ASSUME ProxiesInv, NEW p \in DOMAIN proxies, NEW x, IsProxy(x), proxies' = [proxies EXCEPT ![p] = x]
    PROVE  ProxiesInv' /\ SetTo(p, x.state, x.die)
<1>1. /\ DOMAIN proxies' = DOMAIN proxies /\ proxies'[p] = x
      /\ \A q \in DOMAIN proxies : q # p => proxies'[q] = proxies[q]
      /\ proxies' = [q \in DOMAIN proxies' |-> proxies'[q]]
  BY Zenon
<1>2. proxies' \in Seq({proxies'[q] : q \in DOMAIN proxies'})
  <2>1. PICK s : s = proxies
    BY Zenon
  <2>2. PICK t : t = proxies'
    BY Zenon
  <2>3. s \in Seq({s[q] : q \in DOMAIN s})
    BY <2>1, Zenon DEF ProxiesInv
  <2>4. DOMAIN t = DOMAIN s /\ t = [q \in DOMAIN t |-> t[q]]
    BY <1>1, <2>1, <2>2, Zenon
  <2>5. t \in Seq({t[q] : q \in DOMAIN t})
    BY <2>3, <2>4, OtherElements
  <2> QED  BY <2>5, <2>2, Zenon
<1>3. \A q \in DOMAIN proxies' : IsProxy(proxies'[q])
  BY <1>1, Zenon DEF ProxiesInv
<1>4. ProxiesInv'
  BY <1>2, <1>3, Zenon DEF ProxiesInv, IsProxy
<1>5. SetTo(p, x.state, x.die)
  BY <1>1, Zenon DEF SetTo, Kept
<1> QED  BY <1>4, <1>5, Zenon

\* The state of a proxy changes.
LEMMA StateBecomes ==
    ASSUME ProxiesInv, NEW p \in DOMAIN proxies, NEW state, proxies' = [proxies EXCEPT ![p].state = state]
    PROVE  ProxiesInv' /\ SetTo(p, state, proxies[p].die)
<1>1. PICK y : y = proxies[p] /\ y = [state |-> y.state, die |-> y.die, endpoints |-> y.endpoints, users |-> y.users]
  BY Zenon DEF ProxiesInv, IsProxy
<1>2. PICK x : x = [state |-> state, die |-> y.die, endpoints |-> y.endpoints, users |-> y.users]
  BY Zenon
<1>3. x.state = state /\ x.die = y.die /\ x.endpoints = y.endpoints /\ x.users = y.users
  BY <1>2
<1>4. IsProxy(x)
  BY <1>2, <1>3, Zenon DEF IsProxy
<1>5. x = [y EXCEPT !.state = state]
  BY <1>1, <1>2
<1>6. proxies' = [proxies EXCEPT ![p] = x]
  BY <1>1, <1>5, Zenon
<1>7. ProxiesInv' /\ SetTo(p, x.state, x.die)
  BY <1>4, <1>6, ProxyBecomes, Zenon
<1> QED  BY <1>1, <1>3, <1>7, Zenon

\* The die channel of a proxy is closed.
LEMMA DieBecomes ==
    ASSUME ProxiesInv, NEW p \in DOMAIN proxies, NEW die, proxies' = [proxies EXCEPT ![p].die = die]
    PROVE  ProxiesInv' /\ SetTo(p, proxies[p].state, die)
<1>1. PICK y : y = proxies[p] /\ y = [state |-> y.state, die |-> y.die, endpoints |-> y.endpoints, users |-> y.users]
  BY Zenon DEF ProxiesInv, IsProxy
<1>2. PICK x : x = [state |-> y.state, die |-> die, endpoints |-> y.endpoints, users |-> y.users]
  BY Zenon
<1>3. x.state = y.state /\ x.die = die /\ x.endpoints = y.endpoints /\ x.users = y.users
  BY <1>2
<1>4. IsProxy(x)
  BY <1>2, <1>3, Zenon DEF IsProxy
<1>5. x = [y EXCEPT !.die = die]
  BY <1>1, <1>2
<1>6. proxies' = [proxies EXCEPT ![p] = x]
  BY <1>1, <1>5, Zenon
<1>7. ProxiesInv' /\ SetTo(p, x.state, x.die)
  BY <1>4, <1>6, ProxyBecomes, Zenon
<1> QED  BY <1>1, <1>3, <1>7, Zenon

\* Both change.
LEMMA BothBecome ==
    ASSUME ProxiesInv, NEW p \in DOMAIN proxies, NEW state, NEW die,
           proxies' = [proxies EXCEPT ![p].state = state, ![p].die = die]
    PROVE  ProxiesInv' /\ SetTo(p, state, die)
<1>1. PICK y : y = proxies[p] /\ y = [state |-> y.state, die |-> y.die, endpoints |-> y.endpoints, users |-> y.users]
  BY Zenon DEF ProxiesInv, IsProxy
<1>2. PICK x : x = [state |-> state, die |-> die, endpoints |-> y.endpoints, users |-> y.users]
  BY Zenon
<1>3. x.state = state /\ x.die = die /\ x.endpoints = y.endpoints /\ x.users = y.users
  BY <1>2
<1>4. IsProxy(x)
  BY <1>2, <1>3, Zenon DEF IsProxy
<1>5. x = [[y EXCEPT !.state = state] EXCEPT !.die = die]
  <2>1. PICK s, d, e, u : y = [state |-> s, die |-> d, endpoints |-> e, users |-> u]
    BY <1>1, Zenon
  <2>2. x = [state |-> state, die |-> die, endpoints |-> e, users |-> u]
    BY <1>2, <2>1
  <2>3. [y EXCEPT !.state = state] = [state |-> state, die |-> d, endpoints |-> e, users |-> u]
    BY <2>1
  <2>4. x = [[state |-> state, die |-> d, endpoints |-> e, users |-> u] EXCEPT !.die = die]
    BY <2>2
  <2> QED  BY <2>3, <2>4, Zenon
<1>6. proxies' = [proxies EXCEPT ![p] = x]
  BY <1>1, <1>5, Zenon
<1>7. ProxiesInv' /\ SetTo(p, x.state, x.die)
  BY <1>4, <1>6, ProxyBecomes, Zenon
<1> QED  BY <1>3, <1>7, Zenon

-----------------------------------------------------------------------------
(* What stays as it is.                                                    *)

\* Nothing of the daemon changes.
LEMMA Undisturbed ==
    ASSUME AllKept, UNCHANGED <<socks5Ref, muxRef>>
    PROVE  /\ NoneFailing => NoneFailing'
           /\ \A x : Phase(x) => Phase(x)'
           /\ status' = status /\ Settled => Settled'
<1>1. \A q \in DOMAIN proxies : Dead(q)' <=> Dead(q)
  BY Zenon DEF AllKept, Kept, Dead
<1>2. NoneFailing => NoneFailing'
  BY Zenon DEF NoneFailing, Failing, AllKept, Kept
<1>3. NoProxy => NoProxy'
  BY <1>1, Zenon DEF NoProxy, AllKept
<1>4. \A p : OneProxy(p) => OneProxy(p)'
  BY <1>1, Zenon DEF OneProxy, OthersDead, AllKept, Kept
<1>5. \A p : BeingStarted(p) => BeingStarted(p)'
  BY <1>1, Zenon DEF BeingStarted, OthersDead, AllKept, Kept
<1>6. \A x : Phase(x) => Phase(x)'
  BY <1>1, <1>3, <1>4, <1>5, Zenon DEF Phase, AllKept
<1>7. status' = status /\ Settled => Settled'
  BY <1>3, <1>4, Zenon DEF Settled, AllKept
<1> QED  BY <1>2, <1>6, <1>7, Zenon

\* The phase of a call, from its locals.
LEMMA PhaseBy ==
    ASSUME NEW d, NEW x, call'[d] = x, Phase(x)'
    PROVE  Phase(call[d])'
BY Zenon DEF Phase, BeingStarted, OthersDead, OneProxy, NoProxy, Dead

\* A call that changes nothing has no phase.
LEMMA NoPhase ==
    ASSUME NEW x, x.pc \notin Changing
    PROVE  Phase(x)'
BY DEF Phase, Changing

\* A call that is about to change something is busy.
LEMMA ChangingIsBusy ==
    ASSUME ControlInv, NEW c \in Callers, call[c].pc \in Changing \cup {"startProxy", "stop", "reload"}
    PROVE  Busy(c)
BY DEF ControlInv, CallsInv, Writes, Busy, Changing

\* While no calls overlap, no other call is about to change something.
LEMMA OnlyOne ==
    ASSUME ControlInv, ~overlapped, NEW c \in Callers, Busy(c)
    PROVE  \A d \in Callers : d # c => call[d].pc \notin Changing
<1>1. \A d \in Callers : Busy(d) => c = d
  BY Zenon DEF ControlInv, AckInv
<1>2. \A d \in Callers : call[d].pc \in Changing => Busy(d)
  BY ChangingIsBusy
<1> QED  BY <1>1, <1>2, Zenon

\* When no call is busy, the daemon is settled.
LEMMA QuietIsSettled ==
    ASSUME ControlInv, PhaseInv, ~overlapped, Quiet
    PROVE  Settled
<1>1. \A d \in Callers : call[d].pc \notin Changing
  BY ChangingIsBusy, Zenon DEF Quiet
<1> QED  BY <1>1, Zenon DEF PhaseInv

\* A step of a call that leaves the proxies alone.
LEMMA Passes ==
    ASSUME ControlInv, StatusInv, NEW c \in Callers, NEW x, Becomes(c, x),
           call[c].pc \notin Changing, x.pc \notin Changing,
           AllKept, ProxiesInv', UNCHANGED <<status, socks5Ref, muxRef>>, daemon' # "down",
           ~overlapped' => ~overlapped,
           ~overlapped' /\ Active(x) => Busy(c) \/ NoneFailing
    PROVE  StatusInv'
<1>1. call'[c] = x /\ \A d \in Callers : d # c => call'[d] = call[d]
  BY Zenon DEF ControlInv, CallsInv, Becomes
<1>2. SUFFICES ASSUME ~overlapped'
               PROVE  /\ \A d \in Callers : Phase(call[d])'
                      /\ (\A d \in Callers : call'[d].pc \notin Changing) => Settled'
                      /\ ~Quiet' => NoneFailing'
  BY <1>2, Zenon DEF StatusInv, PhaseInv, DownInv, Changing
<1>3. \A d \in Callers : Phase(call[d])'
  <2>1. Phase(x)'
    BY NoPhase
  <2>2. \A d \in Callers : Phase(call[d]) => Phase(call[d])' \/ d = c
    <3> SUFFICES ASSUME NEW d \in Callers, d # c, Phase(call[d]) PROVE Phase(call[d])'
      BY Zenon
    <3>1. PICK y : y = call[d]
      BY Zenon
    <3>2. Phase(y)' /\ call'[d] = y
      BY <1>1, <3>1, Undisturbed, Zenon
    <3> QED  BY <3>2, PhaseBy, Zenon
  <2>3. Phase(call[c])'
    BY <1>1, <2>1, PhaseBy, Zenon
  <2> QED  BY <1>2, <2>2, <2>3, Zenon DEF StatusInv, PhaseInv
<1>4. (\A d \in Callers : call'[d].pc \notin Changing) => Settled'
  BY <1>1, <1>2, Undisturbed, Zenon DEF StatusInv, PhaseInv
<1>5. ~Quiet' => NoneFailing'
  <2>1. \A d \in Callers : d # c => (Busy(d)' => Busy(d))
    BY <1>1, Zenon DEF Busy
  <2>2. Busy(c)' => Active(x)
    BY <1>1, Zenon DEF Busy, Active
  <2>3. ~Quiet' => NoneFailing \/ ~Quiet
    BY <1>2, <2>1, <2>2, Zenon DEF Quiet
  <2> QED  BY <1>2, <2>3, Undisturbed, Zenon DEF StatusInv, PhaseInv
<1> QED  BY <1>3, <1>4, <1>5, Zenon

\* A step of the busy call that changes something.
LEMMA Changes ==
    ASSUME ControlInv, StatusInv, NEW c \in Callers, NEW x, Becomes(c, x), Busy(c),
           ProxiesInv', daemon' # "down", overlapped' = overlapped,
           ~overlapped => Phase(x)' /\ (x.pc \notin Changing => Settled') /\ NoneFailing'
    PROVE  StatusInv'
<1>1. call'[c] = x /\ \A d \in Callers : d # c => call'[d] = call[d]
  BY Zenon DEF ControlInv, CallsInv, Becomes
<1>2. SUFFICES ASSUME ~overlapped
               PROVE  /\ \A d \in Callers : Phase(call[d])'
                      /\ (\A d \in Callers : call'[d].pc \notin Changing) => Settled'
                      /\ ~Quiet' => NoneFailing'
  BY Zenon DEF StatusInv, PhaseInv, DownInv, Changing
<1>3. \A d \in Callers : d # c => call[d].pc \notin Changing
  BY <1>2, OnlyOne
<1>4. ASSUME NEW d \in Callers PROVE Phase(call[d])'
  <2>1. CASE d = c
    BY <1>1, <1>2, <2>1, PhaseBy, Zenon
  <2>2. CASE d # c
    <3>1. PICK y : y = call[d]
      BY Zenon
    <3>2. y.pc \notin Changing /\ call'[d] = y
      BY <1>1, <1>3, <2>2, <3>1, Zenon
    <3>3. Phase(y)'
      BY <3>2, NoPhase
    <3> QED  BY <3>2, <3>3, PhaseBy, Zenon
  <2> QED  BY <2>1, <2>2, Zenon
<1> QED  BY <1>1, <1>2, <1>4, Zenon

\* A step of a proxy, while all calls stay where they are.
LEMMA ProxyMoves ==
    ASSUME StatusInv, UNCHANGED <<call, daemon>>, NEW p \in DOMAIN proxies, ProxiesInv',
           ~overlapped' => /\ ~overlapped
                           /\ \A c \in Callers : Phase(call[c]) => Phase(call[c])'
                           /\ (\A c \in Callers : call[c].pc \notin Changing) => Settled'
                           /\ ~Quiet => NoneFailing'
    PROVE  StatusInv'
<1>1. daemon # "down"
  BY DEF StatusInv, DownInv
<1>2. Quiet' <=> Quiet
  BY Zenon DEF Quiet, Busy
<1> QED  BY <1>1, <1>2, Zenon DEF StatusInv, DownInv, PhaseInv, Changing

\* Who waits for a proxy that is being started.
LEMMA Starter ==
    ASSUME ControlInv, StatusInv, ~overlapped, NEW p \in DOMAIN proxies,
           proxies[p].state \in {"new", "started", "published"}
    PROVE  \E c \in Callers : call[c].pc = "starting" /\ call[c].proxy = p /\ BeingStarted(p) /\ Busy(c)
<1>1. ~Dead(p)
  BY DEF Dead
<1>2. ~NoProxy /\ \A q \in DOMAIN proxies : ~OneProxy(q)
  <2>1. \A q \in DOMAIN proxies : OneProxy(q) => q = p
    BY <1>1, Zenon DEF OneProxy, OthersDead
  <2>2. ~OneProxy(p)
    BY DEF OneProxy
  <2> QED  BY <1>1, <2>1, <2>2, Zenon DEF NoProxy
<1>3. PICK c \in Callers : call[c].pc \in Changing
  BY <1>2, Zenon DEF StatusInv, PhaseInv, Settled
<1>4. Phase(call[c])
  BY Zenon DEF StatusInv, PhaseInv
<1>5. call[c].pc = "starting"
  BY <1>1, <1>2, <1>3, <1>4 DEF Phase, Changing
<1>6. BeingStarted(call[c].proxy)
  BY <1>4, <1>5, Zenon DEF Phase
<1>7. call[c].proxy = p
  BY <1>1, <1>6, Zenon DEF BeingStarted, OthersDead
<1>8. Busy(c)
  BY <1>3, ChangingIsBusy
<1> QED  BY <1>5, <1>6, <1>7, <1>8, Zenon

\* The proxy that is being started goes on.
LEMMA StartGoesOn ==
    ASSUME ControlInv, StatusInv, UNCHANGED <<call, daemon, overlapped>>, NEW p \in DOMAIN proxies, ProxiesInv',
           proxies[p].state \in {"new", "started", "published"},
           NEW state, SetTo(p, state, proxies[p].die), state # "failing",
           BeingStarted(p) => BeingStarted(p)'
    PROVE  StatusInv'
<1>1. ASSUME ~overlapped
      PROVE  /\ \A c \in Callers : Phase(call[c]) => Phase(call[c])'
             /\ (\A c \in Callers : call[c].pc \notin Changing) => Settled'
             /\ ~Quiet => NoneFailing'
  <2>1. PICK c \in Callers : call[c].pc = "starting" /\ call[c].proxy = p /\ BeingStarted(p) /\ Busy(c)
    BY <1>1, Starter, Zenon
  <2>2. \A d \in Callers : d # c => call[d].pc \notin Changing
    BY <1>1, <2>1, OnlyOne
  <2>3. "starting" \in Changing
    BY DEF Changing
  <2>4. NoneFailing'
    <3>1. NoneFailing
      BY <1>1, <2>1, Zenon DEF StatusInv, PhaseInv, Quiet
    <3> QED  BY <3>1, Zenon DEF NoneFailing, Failing, SetTo, Kept
  <2>5. ASSUME NEW d \in Callers PROVE Phase(call[d])'
    <3>1. PICK y : y = call[d] /\ call'[d] = y
      BY Zenon
    <3>2. CASE d = c
      <4>1. y.pc = "starting" /\ y.proxy = p
        BY <2>1, <3>1, <3>2, Zenon
      <4>2. BeingStarted(y.proxy)'
        BY <2>1, <4>1, Zenon DEF BeingStarted, OthersDead, Dead
      <4>3. Phase(y)'
        BY <4>1, <4>2 DEF Phase
      <4> QED  BY <3>1, <4>3, PhaseBy, Zenon
    <3>3. CASE d # c
      <4>1. Phase(y)'
        BY <2>2, <3>1, <3>3, NoPhase, Zenon
      <4> QED  BY <3>1, <4>1, PhaseBy, Zenon
    <3> QED  BY <3>2, <3>3, Zenon
  <2> QED  BY <2>1, <2>3, <2>4, <2>5, Zenon
<1> QED  BY <1>1, ProxyMoves

-----------------------------------------------------------------------------
(* The steps of the proxies and of the daemon.                             *)

\* A proxy that is being started: mux.Start, and the two references.
LEMMA StartingSteps ==
    ASSUME ControlInv, StatusInv, NEW p \in DOMAIN proxies, MuxStart(p) \/ PublishMux(p) \/ PublishSocks5(p)
    PROVE  StatusInv'
<1>1. ProxiesInv /\ UNCHANGED <<call, daemon, overlapped>>
  BY Zenon DEF MuxStart, PublishMux, PublishSocks5, historyVars, StatusInv
<1>2. CASE MuxStart(p)
  <2>1. PICK state \in {"started", "failed"} : proxies' = [proxies EXCEPT ![p].state = state]
    BY <1>2, Zenon DEF MuxStart
  <2>2. ProxiesInv' /\ SetTo(p, state, proxies[p].die)
    BY <1>1, <2>1, StateBecomes, Zenon
  <2>3. proxies[p].state = "new" /\ UNCHANGED <<socks5Ref, muxRef>>
    BY <1>2, Zenon DEF MuxStart
  <2>4. BeingStarted(p) => BeingStarted(p)'
    BY <2>1, <2>2, <2>3 DEF BeingStarted, OthersDead, Dead, SetTo, Kept
  <2>5. state # "failing" /\ proxies[p].state \in {"new", "started", "published"}
    BY <2>1, <2>3
  <2> QED  BY <1>1, <2>2, <2>4, <2>5, StartGoesOn, Zenon
<1>3. CASE PublishMux(p)
  <2>1. proxies' = [proxies EXCEPT ![p].state = "published"]
    BY <1>3, Zenon DEF PublishMux
  <2>2. ProxiesInv' /\ SetTo(p, "published", proxies[p].die)
    BY <1>1, <2>1, StateBecomes, Zenon
  <2>3. proxies[p].state = "started" /\ muxRef' = p /\ socks5Ref' = socks5Ref
    BY <1>3, Zenon DEF PublishMux
  <2>4. BeingStarted(p) => BeingStarted(p)'
    BY <2>2, <2>3 DEF BeingStarted, OthersDead, Dead, SetTo, Kept
  <2> QED  BY <1>1, <2>2, <2>3, <2>4, StartGoesOn, Zenon
<1>4. CASE PublishSocks5(p)
  <2>1. proxies' = [proxies EXCEPT ![p].state = "serving"]
    BY <1>4, Zenon DEF PublishSocks5
  <2>2. ProxiesInv' /\ SetTo(p, "serving", proxies[p].die)
    BY <1>1, <2>1, StateBecomes, Zenon
  <2>3. proxies[p].state = "published" /\ muxRef' = muxRef /\ socks5Ref' = p
    BY <1>4, Zenon DEF PublishSocks5
  <2>4. BeingStarted(p) => BeingStarted(p)'
    BY <2>2, <2>3 DEF BeingStarted, OthersDead, Dead, SetTo, Kept
  <2> QED  BY <1>1, <2>2, <2>3, <2>4, StartGoesOn, Zenon
<1> QED  BY <1>2, <1>3, <1>4, Zenon

\* A proxy that was told to stop ends.
LEMMA ServeStopsStep ==
    ASSUME ControlInv, StatusInv, NEW p \in DOMAIN proxies, ServeStops(p)
    PROVE  StatusInv'
<1>1. /\ ProxiesInv /\ UNCHANGED <<call, daemon, overlapped, status, socks5Ref, muxRef>>
      /\ proxies[p].state = "serving" /\ proxies[p].die /\ proxies' = [proxies EXCEPT ![p].state = "closed"]
  BY Zenon DEF ServeStops, historyVars, StatusInv
<1>2. ProxiesInv' /\ SetTo(p, "closed", proxies[p].die)
  BY <1>1, StateBecomes, Zenon
<1>3. DOMAIN proxies' = DOMAIN proxies /\ \A q \in DOMAIN proxies : Dead(q) => Dead(q)'
  BY <1>2 DEF SetTo, Kept, Dead
<1>4. NoProxy => NoProxy'
  BY <1>1, <1>3, Zenon DEF NoProxy
<1>5. \A q : OneProxy(q) => OneProxy(q)'
  <2>1. \A q : OneProxy(q) => q # p
    BY <1>1, Zenon DEF OneProxy
  <2> QED  BY <1>1, <1>2, <1>3, <2>1, Zenon DEF OneProxy, OthersDead, SetTo, Kept
<1>6. \A q : BeingStarted(q) => BeingStarted(q)'
  <2>1. \A q : BeingStarted(q) => q # p
    BY <1>1, Zenon DEF BeingStarted
  <2> QED  BY <1>1, <1>2, <1>3, <2>1, Zenon DEF BeingStarted, OthersDead, SetTo, Kept
<1>7. \A c \in Callers : Phase(call[c]) => Phase(call[c])'
  <2> SUFFICES ASSUME NEW c \in Callers, Phase(call[c]) PROVE Phase(call[c])'
    BY Zenon
  <2>1. PICK y : y = call[c] /\ call'[c] = y
    BY <1>1, Zenon
  <2>2. Phase(y)'
    BY <1>3, <1>4, <1>5, <1>6, <2>1, Zenon DEF Phase
  <2> QED  BY <2>1, <2>2, PhaseBy, Zenon
<1>8. Settled => Settled'
  BY <1>1, <1>3, <1>4, <1>5, Zenon DEF Settled
<1>9. NoneFailing => NoneFailing'
  BY <1>2 DEF NoneFailing, Failing, SetTo, Kept
<1>10. ~overlapped' => /\ ~overlapped
                       /\ (\A c \in Callers : call[c].pc \notin Changing) => Settled'
                       /\ ~Quiet => NoneFailing'
  BY <1>1, <1>8, <1>9, Zenon DEF StatusInv, PhaseInv
<1> QED  BY <1>1, <1>2, <1>7, <1>10, ProxyMoves, Zenon

\* A listener fails.
LEMMA ServeFailsStep ==
    ASSUME ControlInv, StatusInv, NEW p \in DOMAIN proxies, ServeFails(p)
    PROVE  StatusInv'
<1>1. /\ ProxiesInv /\ UNCHANGED <<call, daemon, status, socks5Ref, muxRef>>
      /\ proxies[p].state = "serving" /\ proxies' = [proxies EXCEPT ![p].state = "failing"]
      /\ ~overlapped' => ~overlapped /\ Quiet /\ ~proxies[p].die
  BY Zenon DEF ServeFails, StatusInv
<1>2. ProxiesInv' /\ SetTo(p, "failing", proxies[p].die)
  BY <1>1, StateBecomes, Zenon
<1>3. ASSUME ~overlapped' PROVE Settled' /\ \A c \in Callers : Phase(call[c])'
  <2>1. Settled /\ ~Dead(p)
    BY <1>1, <1>3, QuietIsSettled DEF StatusInv, Dead
  <2>2. OneProxy(p) /\ status = "RUNNING"
    BY <2>1, Zenon DEF Settled, NoProxy, OneProxy, OthersDead
  <2>3. OneProxy(p)'
    BY <1>1, <1>2, <2>2 DEF OneProxy, OthersDead, Dead, SetTo, Kept
  <2>4. Settled'
    BY <1>1, <1>2, <2>2, <2>3, Zenon DEF Settled, SetTo
  <2>5. ASSUME NEW c \in Callers PROVE Phase(call[c])'
    <3>1. PICK y : y = call[c] /\ call'[c] = y
      BY <1>1, Zenon
    <3>2. y.pc \notin Changing
      BY <1>1, <1>3, <3>1, ChangingIsBusy, Zenon DEF Quiet
    <3>3. Phase(y)'
      BY <3>2, NoPhase
    <3> QED  BY <3>1, <3>3, PhaseBy, Zenon
  <2> QED  BY <2>4, <2>5, Zenon
<1> QED  BY <1>1, <1>2, <1>3, ProxyMoves, Zenon

\* The process ends.
LEMMA EndsStatus ==
    ASSUME Down, overlapped' = overlapped
    PROVE  StatusInv'
<1>1. /\ daemon' = "down" /\ status' = "UNKNOWN" /\ socks5Ref' = 0 /\ muxRef' = 0 /\ proxies' = << >>
      /\ call' = [c \in Callers |-> Idle]
  BY Zenon DEF Down
<1>2. DOMAIN proxies' = {} /\ proxies' \in Seq({proxies'[p] : p \in DOMAIN proxies'})
  BY <1>1
<1>3. ProxiesInv' /\ DownInv' /\ NoneFailing' /\ NoProxy'
  BY <1>1, <1>2, Zenon DEF ProxiesInv, DownInv, NoneFailing, NoProxy
<1>4. ASSUME NEW c \in Callers PROVE Phase(call[c])'
  <2>1. call'[c] = Idle /\ Idle.pc \notin Changing
    BY <1>1, IdleFacts DEF Changing
  <2>2. Phase(Idle)'
    BY <2>1, NoPhase
  <2> QED  BY <2>1, <2>2, PhaseBy, Zenon
<1>5. Settled'
  BY <1>1, <1>3 DEF Settled
<1> QED  BY <1>3, <1>4, <1>5, Zenon DEF StatusInv, PhaseInv

\* cleanupFailedServerProxy
LEMMA CleanupStep ==
    ASSUME ControlInv, StatusInv, NEW p \in DOMAIN proxies, CleanupFailed(p)
    PROVE  StatusInv'
<1>1. CASE Down /\ UNCHANGED overlapped
  BY <1>1, EndsStatus, Zenon
<1>2. CASE ~(Down /\ UNCHANGED overlapped)
  <2>1. /\ Failing(p) /\ UNCHANGED <<daemon, call, overlapped>>
        /\ socks5Ref' = IF socks5Ref = p THEN 0 ELSE socks5Ref
        /\ muxRef' = IF muxRef = p THEN 0 ELSE muxRef
        /\ status' = "STOPPED"
    BY <1>2, Zenon DEF CleanupFailed, historyVars
  <2>2. PICK die : proxies' = [proxies EXCEPT ![p].state = "closed", ![p].die = die]
    BY <1>2, Zenon DEF CleanupFailed
  <2>3. ProxiesInv' /\ SetTo(p, "closed", die)
    BY <2>2, BothBecome, Zenon DEF StatusInv
  <2>4. ASSUME ~overlapped PROVE Settled' /\ \A c \in Callers : Phase(call[c])'
    <3>1. Quiet
      BY <2>1, <2>4, Zenon DEF StatusInv, PhaseInv, NoneFailing
    <3>2. Settled /\ ~Dead(p)
      BY <2>1, <2>4, <3>1, QuietIsSettled DEF StatusInv, Dead, Failing
    <3>3. OneProxy(p)
      BY <3>2, Zenon DEF Settled, NoProxy, OneProxy, OthersDead
    <3>4. NoProxy'
      BY <2>1, <2>3, <3>3 DEF OneProxy, NoProxy, OthersDead, Dead, SetTo, Kept
    <3>5. Settled'
      BY <2>1, <3>4 DEF Settled
    <3>6. ASSUME NEW c \in Callers PROVE Phase(call[c])'
      <4>1. PICK y : y = call[c] /\ call'[c] = y
        BY <2>1, Zenon
      <4>2. y.pc \notin Changing
        BY <3>1, <4>1, ChangingIsBusy, Zenon DEF Quiet
      <4>3. Phase(y)'
        BY <4>2, NoPhase
      <4> QED  BY <4>1, <4>3, PhaseBy, Zenon
    <3> QED  BY <3>5, <3>6, Zenon
  <2>5. ~overlapped => Quiet
    BY <2>1, Zenon DEF StatusInv, PhaseInv, NoneFailing
  <2> QED  BY <2>1, <2>3, <2>4, <2>5, ProxyMoves, Zenon
<1> QED  BY <1>1, <1>2, Zenon

\* mita run
LEMMA RunStatus ==
    ASSUME ControlInv, StatusInv, Run
    PROVE  StatusInv'
<1>1. /\ daemon = "down" /\ daemon' = "up" /\ status' = "IDLE" /\ Goes("main", "load") /\ "main" \in Callers
      /\ UNCHANGED <<socks5Ref, muxRef, proxies>>
  BY Zenon DEF Run, Callers
<1>2. proxies = << >> /\ socks5Ref = 0 /\ muxRef = 0 /\ \A c \in Callers : call[c].pc = "idle"
  BY <1>1, IdleFacts, Zenon DEF StatusInv, DownInv, ControlInv, CallsInv
<1>3. PICK x : Becomes("main", x) /\ Moved(call["main"], "load", x)
  BY <1>1, GoesStep, Zenon
<1>4. /\ call'["main"] = x /\ x.pc = "load"
      /\ \A d \in Callers : d # "main" => call'[d] = call[d]
  BY <1>1, <1>3, Zenon DEF ControlInv, CallsInv, Becomes, Moved
<1>5. ASSUME NEW c \in Callers PROVE Phase(call[c])'
  <2>1. PICK y : y = call'[c]
    BY Zenon
  <2>2. y.pc \notin Changing
    BY <1>2, <1>4, <2>1 DEF Changing
  <2>3. Phase(y)'
    BY <2>2, NoPhase
  <2> QED  BY <2>1, <2>3, PhaseBy, Zenon
<1>6. DOMAIN proxies' = {}
  BY <1>1, <1>2
<1>7. NoProxy' /\ NoneFailing'
  BY <1>1, <1>2, <1>6, Zenon DEF NoProxy, NoneFailing
<1>8. Settled' /\ DownInv'
  BY <1>1, <1>7 DEF Settled, DownInv
<1>9. ProxiesInv'
  BY <1>1, Zenon DEF StatusInv, ProxiesInv, IsProxy
<1> QED  BY <1>5, <1>7, <1>8, <1>9, Zenon DEF StatusInv, PhaseInv

-----------------------------------------------------------------------------
(* The steps of the calls.                                                 *)

\* The proxies are as they were.
LEMMA Unchanged ==
    ASSUME StatusInv, proxies' = proxies
    PROVE  AllKept /\ ProxiesInv'
BY Zenon DEF AllKept, Kept, StatusInv, ProxiesInv, IsProxy

\* A call that moves on.
LEMMA PassesOn ==
    ASSUME ControlInv, StatusInv, NEW c \in Callers, NEW pc, Goes(c, pc), pc \notin Changing,
           call[c].pc \notin Changing \cup {"idle", "call", "wait"},
           UNCHANGED <<refVars, daemon, overlapped>>
    PROVE  StatusInv'
<1>1. UNCHANGED <<status, socks5Ref, muxRef, proxies>> /\ daemon' # "down"
  BY Alive DEF refVars
<1>2. PICK x : Becomes(c, x) /\ Moved(call[c], pc, x)
  BY GoesStep, Zenon
<1>3. x.pc \notin Changing /\ (Active(x) => Busy(c)) /\ call[c].pc \notin Changing
  BY <1>2 DEF Moved, Active, Busy
<1>4. AllKept /\ ProxiesInv'
  BY <1>1, Unchanged, Zenon
<1> QED  BY <1>1, <1>2, <1>3, <1>4, Passes, Zenon

\* A call that returns.
LEMMA PassesBack ==
    ASSUME ControlInv, StatusInv, NEW c \in Callers, Returns(c), call[c].pc \notin Changing \cup {"idle"},
           AllKept, ProxiesInv', UNCHANGED <<status, socks5Ref, muxRef, daemon, overlapped>>
    PROVE  StatusInv'
<1>1. Idle.pc \notin Changing /\ ~Active(Idle) /\ daemon' # "down" /\ call[c].pc \notin Changing
  BY Alive, IdleFacts DEF Changing, Active
<1>2. Becomes(c, Idle)
  BY Zenon DEF Returns, Becomes
<1> QED  BY <1>1, <1>2, Passes, Zenon

\* A call that gets a configuration.
LEMMA PassesWith ==
    ASSUME ControlInv, StatusInv, NEW c \in Callers, NEW pc, NEW config, Sound(config), Sets(c, pc, config),
           pc \notin Changing, call[c].pc \notin Changing \cup {"idle", "call", "wait"},
           UNCHANGED <<refVars, daemon, overlapped>>
    PROVE  StatusInv'
<1>1. UNCHANGED <<status, socks5Ref, muxRef, proxies>> /\ daemon' # "down"
  BY Alive DEF refVars
<1>2. PICK x : Becomes(c, x) /\ Given(call[c], pc, config, x)
  BY SetsStep, Zenon
<1>3. x.pc \notin Changing /\ (Active(x) => Busy(c)) /\ call[c].pc \notin Changing
  BY <1>2 DEF Given, Active, Busy
<1>4. AllKept /\ ProxiesInv'
  BY <1>1, Unchanged, Zenon
<1> QED  BY <1>1, <1>2, <1>3, <1>4, Passes, Zenon

\* The file is read or written.
LEMMA FileStatus ==
    ASSUME ControlInv, StatusInv, NEW c \in Callers,
           (c = "main" /\ MainLoad) \/ StoreServerConfig(c)
           \/ (c \in Admins /\ (LoadConfig(c) \/ SetConfig(c) \/ Answer(c)))
    PROVE  StatusInv'
<1>1. UNCHANGED <<refVars, daemon, overlapped>> /\ UNCHANGED <<status, socks5Ref, muxRef>> /\ AllKept /\ ProxiesInv'
  <2>1. UNCHANGED <<refVars, daemon, overlapped>>
    BY Zenon DEF MainLoad, StoreServerConfig, LoadConfig, SetConfig, Answer, historyVars
  <2> QED  BY <2>1, Unchanged, Zenon DEF refVars
<1>2. call[c].pc \in {"load", "write", "set", "answer"}
  BY Zenon DEF MainLoad, StoreServerConfig, LoadConfig, SetConfig, Answer
<1>3. call[c].pc \notin Changing \cup {"idle", "call", "wait"} /\ call[c].pc \notin Changing \cup {"idle"}
  BY <1>2 DEF Changing
<1>4. \A pc \in {"write", "load", "startProxy", "wait", "set", "answer", "reload"} : pc \notin Changing
  BY DEF Changing
<1>5. CASE Returns(c)
  BY <1>1, <1>3, <1>5, PassesBack, Zenon
<1>6. CASE c = "main" /\ MainLoad
  <2>1. CASE Goes(c, "write")
    BY <1>1, <1>3, <1>4, <2>1, PassesOn
  <2>2. CASE ~Goes(c, "write")
    <3>1. PICK config, pc :
            /\ LoadServerConfig(config) /\ pc \in {"startProxy", "wait"}
            /\ call' = [call EXCEPT !["main"].config = config, !["main"].pc = pc]
      BY <1>6, <2>2, Zenon DEF MainLoad, Truncate
    <3>2. Sound(config)
      BY <3>1, Zenon DEF LoadServerConfig, ControlInv, FileInv
    <3>3. Sets(c, pc, config)
      BY <1>6, <3>1, Zenon DEF Sets
    <3>4. pc \notin Changing
      BY <1>4, <3>1
    <3> QED  BY <1>1, <1>3, <3>2, <3>3, <3>4, PassesWith, Zenon
  <2> QED  BY <2>1, <2>2, Zenon
<1>7. CASE StoreServerConfig(c)
  <2>1. Returns(c) \/ Goes(c, "load")
    BY <1>7, Zenon DEF StoreServerConfig
  <2> QED  BY <1>1, <1>3, <1>4, <1>5, <2>1, PassesOn
<1>8. CASE c \in Admins /\ LoadConfig(c) /\ ~Returns(c)
  <2>1. PICK loaded, config, pc :
           /\ LoadServerConfig(loaded) /\ config = NextConfig(c, loaded) /\ pc = AfterLoad(c, config) /\ pc # "idle"
           /\ call' = [call EXCEPT ![c].pc = pc, ![c].config = config]
    BY <1>8, Zenon DEF LoadConfig
  <2>2. /\ storing = Nobody /\ file # << >> /\ config = NextConfig(c, file[1]) /\ call[c].pc = "load"
    BY <1>8, <2>1, Zenon DEF LoadServerConfig, LoadConfig
  <2>3. c # "main"
    BY <1>8, ControlAssumption DEF ControlAssumption
  <2>4. Sound(config) /\ pc \in {"set", "answer", "startProxy", "reload"}
    BY <2>1, <2>2, <2>3, NextFacts, Zenon
  <2>5. Sets(c, pc, config) /\ pc \notin Changing
    BY <1>4, <2>1, <2>4 DEF Sets
  <2> QED  BY <1>1, <1>3, <2>4, <2>5, PassesWith, Zenon
<1>9. CASE c \in Admins /\ SetConfig(c) /\ ~Returns(c)
  <2>1. PICK config : /\ config = IF call[c].op = "replace" THEN call[c].patch ELSE call[c].config
                      /\ call' = [call EXCEPT ![c].pc = "write", ![c].config = config]
    BY <1>9, Zenon DEF SetConfig
  <2>2. Sound(config)
    BY <2>1, Zenon DEF ControlInv, CallsInv, Carries, Sound, Startable
  <2>3. Sets(c, "write", config) /\ "write" \notin Changing
    BY <1>4, <2>1, Zenon DEF Sets
  <2> QED  BY <1>1, <1>3, <2>2, <2>3, PassesWith, Zenon
<1>10. CASE Answer(c)
  BY <1>5, <1>10, Zenon DEF Answer
<1> QED  BY <1>5, <1>6, <1>7, <1>8, <1>9, <1>10, Zenon

\* A command begins.
LEMMA RequestStatus ==
    ASSUME ControlInv, StatusInv, NEW a \in Admins, Request(a)
    PROVE  StatusInv'
<1>1. PICK pc, op, patch, names :
         /\ call' = [call EXCEPT ![a] = [Idle EXCEPT !.pc = pc, !.op = op, !.patch = patch, !.names = names]]
            \/ call' = [call EXCEPT ![a] = [Idle EXCEPT !.pc = pc, !.op = op]]
         /\ pc = "call" \/ (pc \in {"load", "answer"} /\ op = "query")
         /\ call[a].pc = "idle" /\ daemon = "up" /\ UNCHANGED <<refVars, daemon, overlapped>>
  <2>1. CASE \E op, patch, names : Command(a, op, patch, names)
    <3>1. PICK op, patch, names : Command(a, op, patch, names)
      BY <2>1, Zenon
    <3>2. /\ call' = [call EXCEPT ![a] = [Idle EXCEPT !.pc = "call", !.op = op, !.patch = patch, !.names = names]]
          /\ call[a].pc = "idle" /\ daemon = "up" /\ UNCHANGED <<refVars, daemon, overlapped>>
      BY <3>1, Zenon DEF Command
    <3> QED  BY <3>2, Zenon
  <2>2. CASE \E pc \in {"load", "answer"} : Query(a, pc)
    BY <2>2, Zenon DEF Query, historyVars
  <2> QED
    BY <2>1, <2>2, Zenon
    DEF Request, serverStartFunc, serverStopFunc, serverReloadFunc, serverApplyConfigFunc, serverReplaceConfigFunc,
        serverDeleteUserFunc, ExitRequest, serverDescribeConfigFunc, serverDescribeEffectiveTrafficPatternFunc,
        serverExportTrafficPatternFunc, serverGetUsersFunc, serverGetQuotasFunc, serverStatusFunc,
        serverGetMetricsFunc, serverGetConnectionsFunc, serverProfileFunc
<1>2. PICK x : Becomes(a, x) /\ x.pc = pc /\ x.op = op
  <2>1. /\ [Idle EXCEPT !.pc = pc, !.op = op, !.patch = patch, !.names = names].pc = pc
        /\ [Idle EXCEPT !.pc = pc, !.op = op, !.patch = patch, !.names = names].op = op
        /\ [Idle EXCEPT !.pc = pc, !.op = op].pc = pc /\ [Idle EXCEPT !.pc = pc, !.op = op].op = op
    BY DEF Idle
  <2> QED  BY <1>1, <2>1, Zenon DEF Becomes
<1>3. a \in Callers /\ x.pc \notin Changing /\ call[a].pc \notin Changing /\ ~Active(x)
  BY <1>1, <1>2 DEF Callers, Changing, Active
<1>4. UNCHANGED <<status, socks5Ref, muxRef>> /\ daemon' # "down" /\ AllKept /\ ProxiesInv'
  <2>1. UNCHANGED <<status, socks5Ref, muxRef, proxies>> /\ daemon' # "down"
    BY <1>1 DEF refVars
  <2> QED  BY <2>1, Unchanged, Zenon
<1> QED  BY <1>1, <1>2, <1>3, <1>4, Passes, Zenon

\* A call reaches the daemon.
LEMMA CallsStatus ==
    ASSUME ControlInv, StatusInv, NEW a \in Admins, Calls(a)
    PROVE  StatusInv'
<1>1. a \in Callers /\ call[a].pc = "call" /\ UNCHANGED <<daemon, status, socks5Ref, muxRef, proxies>>
  BY Zenon DEF Calls, Callers, refVars
<1>2. AllKept /\ ProxiesInv' /\ call[a].pc \notin Changing \cup {"idle"} /\ daemon' # "down"
  BY <1>1, Unchanged, Alive DEF Changing
<1>3. CASE daemon # "up"
  <2>1. Returns(a) /\ overlapped' = overlapped
    BY <1>3, Zenon DEF Calls
  <2> QED  BY <1>1, <1>2, <2>1, PassesBack, Zenon
<1>4. CASE daemon = "up"
  <2>1. PICK pc : /\ Goes(a, pc)
                  /\ pc = CASE call[a].op \in {"stop", "exit"} -> "stop" [] call[a].op = "replace" -> "set"
                            [] OTHER -> "load"
                  /\ overlapped' = (overlapped \/ OthersBusy(a) \/ \E p \in DOMAIN proxies : Failing(p))
    BY <1>4, Zenon DEF Calls
  <2>2. pc \notin Changing
    <3>1. CASE call[a].op \in {"stop", "exit"}
      BY <2>1, <3>1 DEF Changing
    <3>2. CASE call[a].op = "replace"
      BY <2>1, <3>2 DEF Changing
    <3>3. CASE call[a].op \notin {"stop", "exit", "replace"}
      BY <2>1, <3>3 DEF Changing
    <3> QED  BY <3>1, <3>2, <3>3
  <2>3. PICK x : Becomes(a, x) /\ Moved(call[a], pc, x)
    BY <1>1, <2>1, GoesStep, Zenon
  <2>4. x.pc \notin Changing /\ call[a].pc \notin Changing
    BY <1>2, <2>2, <2>3, Zenon DEF Moved
  <2>5. ~overlapped' => ~overlapped /\ NoneFailing
    BY <2>1, Zenon DEF NoneFailing
  <2> QED  BY <1>1, <1>2, <2>3, <2>4, <2>5, Passes, Zenon
<1> QED  BY <1>3, <1>4, Zenon

\* What a call finds that is about to look at the references.
LEMMA Finds ==
    ASSUME ControlInv, StatusInv, ~overlapped, NEW c \in Callers, call[c].pc \in {"startProxy", "stop"}
    PROVE  /\ NoneFailing
           /\ socks5Ref = 0 => NoProxy
           /\ socks5Ref # 0 => \E p \in DOMAIN proxies : OneProxy(p)
<1>1. Busy(c) /\ call[c].pc \notin Changing
  BY ChangingIsBusy DEF Changing
<1>2. NoneFailing
  BY <1>1, Zenon DEF StatusInv, PhaseInv, Quiet
<1>3. Settled
  BY <1>1, OnlyOne, Zenon DEF StatusInv, PhaseInv
<1>4. 0 \notin DOMAIN proxies
  <2>1. \A S : \A s \in Seq(S) : 0 \notin DOMAIN s
    OBVIOUS
  <2> QED  BY <2>1, Zenon DEF StatusInv, ProxiesInv
<1> QED  BY <1>2, <1>3, <1>4, Zenon DEF Settled, NoProxy, OneProxy

\* A proxy is created, unless there is one.
LEMMA StartStatus ==
    ASSUME ControlInv, StatusInv, NEW c \in Callers, StartServerProxy(c)
    PROVE  StatusInv'
<1>1. call[c].pc = "startProxy" /\ UNCHANGED <<daemon, overlapped, socks5Ref, muxRef>>
  BY Zenon DEF StartServerProxy, historyVars
<1>2. /\ Busy(c) /\ daemon' # "down" /\ call[c].pc \notin Changing \cup {"idle"}
      /\ call[c].pc \notin Changing \cup {"idle", "call", "wait"} /\ "wait" \notin Changing
  BY <1>1, ChangingIsBusy, Alive DEF Changing
<1>3. CASE socks5Ref # 0
  <2>1. (Goes(c, "wait") \/ Returns(c)) /\ UNCHANGED <<status, proxies>>
    BY <1>3, Zenon DEF StartServerProxy
  <2>2. AllKept /\ ProxiesInv' /\ UNCHANGED <<refVars, status>>
    BY <1>1, <2>1, Unchanged, Zenon DEF refVars
  <2>3. CASE Goes(c, "wait")
    BY <1>1, <1>2, <2>2, <2>3, PassesOn, Zenon
  <2>4. CASE Returns(c)
    BY <1>1, <1>2, <2>2, <2>4, PassesBack, Zenon
  <2> QED  BY <2>1, <2>3, <2>4, Zenon
<1>4. CASE socks5Ref = 0
  <2>1. PICK n, new : /\ n = Len(proxies) + 1 /\ new = NewProxy(call[c].config)
                      /\ proxies' = Append(proxies, new)
                      /\ call' = [call EXCEPT ![c].pc = "starting", ![c].proxy = n]
    BY <1>4, Zenon DEF StartServerProxy
  <2>2. /\ proxies' \in Seq({proxies'[p] : p \in DOMAIN proxies'}) /\ DOMAIN proxies' = DOMAIN proxies \cup {n}
        /\ n \notin DOMAIN proxies /\ proxies'[n] = new
        /\ \A p \in DOMAIN proxies : proxies'[p] = proxies[p]
    <3>1. PICK s : s = proxies
      BY Zenon
    <3>2. PICK t : t = proxies'
      BY Zenon
    <3>3. s \in Seq({s[p] : p \in DOMAIN s}) /\ t = Append(s, new) /\ n = Len(s) + 1
      BY <2>1, <3>1, <3>2, Zenon DEF StatusInv, ProxiesInv
    <3>4. /\ t \in Seq({t[p] : p \in DOMAIN t}) /\ DOMAIN t = DOMAIN s \cup {n}
          /\ n \notin DOMAIN s /\ t[n] = new
          /\ \A p \in DOMAIN s : t[p] = s[p]
      BY <3>3, AppendFacts, SMTT(30)
    <3> QED  BY <3>1, <3>2, <3>4, Zenon
  <2>3. IsProxy(new) /\ new.state = "new" /\ ~new.die
    <3>1. PICK e, u : new = [state |-> "new", die |-> FALSE, endpoints |-> e, users |-> u]
      BY <2>1, Zenon DEF NewProxy
    <3> QED  BY <3>1 DEF IsProxy
  <2>4. ProxiesInv'
    <3>1. \A p \in DOMAIN proxies' : IsProxy(proxies'[p])
      BY <2>2, <2>3, Zenon DEF StatusInv, ProxiesInv
    <3> QED  BY <2>2, <3>1, Zenon DEF ProxiesInv, IsProxy
  <2>5. PICK x : Becomes(c, x) /\ Moved(call[c], "starting", x) /\ x.proxy = n
    BY <2>1, StartingFacts, Zenon
  <2>6. ASSUME ~overlapped PROVE Phase(x)' /\ x.pc \in Changing /\ NoneFailing'
    <3>1. NoProxy /\ NoneFailing
      BY <1>1, <1>4, <2>6, Finds
    <3>2. NoneFailing'
      BY <2>2, <2>3, <3>1 DEF NoneFailing, Failing
    <3>3. \A q \in DOMAIN proxies : Dead(q)'
      BY <2>2, <3>1, Zenon DEF NoProxy, Dead
    <3>4. OthersDead(n)'
      BY <2>2, <3>3, Zenon DEF OthersDead
    <3>5. BeingStarted(n)'
      BY <1>1, <2>2, <2>3, <3>1, <3>4, SMTT(30) DEF BeingStarted, NoProxy
    <3>6. x.pc = "starting" /\ x.proxy = n /\ x.pc \in Changing
      BY <2>5 DEF Moved, Changing
    <3>7. BeingStarted(x.proxy)'
      BY <3>5, <3>6, Zenon DEF BeingStarted, OthersDead, Dead
    <3>8. Phase(x)'
      BY <3>6, <3>7 DEF Phase
    <3> QED  BY <3>2, <3>6, <3>8, Zenon
  <2> QED  BY <1>1, <1>2, <2>4, <2>5, <2>6, Changes, Zenon
<1> QED  BY <1>3, <1>4, Zenon

\* The proxy has been started, or not.
LEMMA StartReturnsStatus ==
    ASSUME ControlInv, StatusInv, NEW c \in Callers, StartReturns(c)
    PROVE  StatusInv'
<1>1. /\ call[c].pc = "starting" /\ UNCHANGED <<daemon, overlapped, socks5Ref, muxRef, proxies>>
      /\ proxies[call[c].proxy].state \in {"failed", "serving", "failing", "closed"}
      /\ status' = IF proxies[call[c].proxy].state = "failed" THEN "STOPPED" ELSE "RUNNING"
      /\ Goes(c, "wait") \/ Returns(c)
  BY Zenon DEF StartReturns, historyVars
<1>2. Busy(c) /\ daemon' # "down" /\ AllKept /\ ProxiesInv'
  BY <1>1, ChangingIsBusy, Alive, Unchanged DEF Changing
<1>3. PICK x : Becomes(c, x) /\ x.pc \notin Changing
  <2>1. CASE Returns(c)
    <3>1. Idle.pc \notin Changing
      BY IdleFacts DEF Changing
    <3> QED  BY <2>1, <3>1, Zenon DEF Returns, Becomes
  <2>2. CASE Goes(c, "wait")
    <3>1. PICK x : Becomes(c, x) /\ Moved(call[c], "wait", x)
      BY <2>2, GoesStep, Zenon
    <3>2. x.pc \notin Changing
      BY <3>1 DEF Moved, Changing
    <3> QED  BY <3>1, <3>2, Zenon
  <2> QED  BY <1>1, <2>1, <2>2, Zenon
<1>4. Phase(x)'
  BY <1>3, NoPhase
<1>5. ASSUME ~overlapped PROVE Settled' /\ NoneFailing'
  <2>1. PICK p : p = call[c].proxy
    BY Zenon
  <2>2. BeingStarted(p)
    BY <1>1, <1>5, <2>1, Zenon DEF StatusInv, PhaseInv, Phase
  <2>3. NoneFailing'
    BY <1>1, <1>2, <1>5, Undisturbed, Zenon DEF StatusInv, PhaseInv, Quiet
  <2>4. CASE proxies[p].state = "failed"
    <3>1. NoProxy
      BY <2>2, <2>4 DEF BeingStarted, NoProxy, OthersDead, Dead
    <3>2. NoProxy' /\ status' = "STOPPED"
      BY <1>1, <2>1, <2>4, <3>1, Zenon DEF NoProxy, Dead
    <3> QED  BY <2>3, <3>2 DEF Settled
  <2>5. CASE proxies[p].state # "failed"
    <3>1. OneProxy(p) /\ p \in DOMAIN proxies
      BY <1>1, <2>1, <2>2, <2>5 DEF BeingStarted, OneProxy
    <3>2. OneProxy(p)' /\ status' = "RUNNING"
      BY <1>1, <2>1, <2>5, <3>1, Zenon DEF OneProxy, OthersDead, Dead
    <3> QED  BY <1>1, <2>3, <3>1, <3>2, ZenonT(60) DEF Settled
  <2> QED  BY <2>4, <2>5, Zenon
<1> QED  BY <1>1, <1>2, <1>3, <1>4, <1>5, Changes, Zenon

\* Stop and Exit look for a proxy.
LEMMA StopLooksStatus ==
    ASSUME ControlInv, StatusInv, NEW a \in Callers, StopLooks(a)
    PROVE  StatusInv'
<1>1. /\ call[a].pc = "stop" /\ UNCHANGED <<daemon, overlapped, socks5Ref, muxRef, proxies>>
      /\ Goes(a, IF socks5Ref # 0 THEN "close" ELSE "none")
  BY Zenon DEF StopLooks, historyVars
<1>2. Busy(a) /\ daemon' # "down" /\ AllKept /\ ProxiesInv'
  BY <1>1, ChangingIsBusy, Alive, Unchanged
<1>3. PICK x : Becomes(a, x) /\ Moved(call[a], IF socks5Ref # 0 THEN "close" ELSE "none", x)
  BY <1>1, GoesStep, Zenon
<1>4. /\ x.pc \in Changing /\ x.pc \notin {"starting", "closed"}
      /\ (x.pc = "close" => socks5Ref # 0) /\ (x.pc = "none" => socks5Ref = 0)
  BY <1>3 DEF Moved, Changing
<1>5. ASSUME ~overlapped PROVE Phase(x)' /\ NoneFailing'
  <2>1. /\ NoneFailing
        /\ socks5Ref = 0 => NoProxy
        /\ socks5Ref # 0 => \E p \in DOMAIN proxies : OneProxy(p)
    BY <1>1, <1>5, Finds
  <2>2. Phase(x)
    BY <1>4, <2>1 DEF Phase
  <2> QED  BY <1>1, <1>2, <2>1, <2>2, Undisturbed, Zenon
<1> QED  BY <1>1, <1>2, <1>3, <1>4, <1>5, Changes, Zenon

\* The proxy is told to stop.
LEMMA StopClosesStatus ==
    ASSUME ControlInv, StatusInv, NEW a \in Callers, StopCloses(a)
    PROVE  StatusInv'
<1>1. CASE Down /\ UNCHANGED overlapped
  BY <1>1, EndsStatus, Zenon
<1>2. CASE ~(Down /\ UNCHANGED overlapped)
  <2>1. /\ call[a].pc = "close" /\ proxies' = [proxies EXCEPT ![socks5Ref].die = TRUE] /\ Goes(a, "closed")
        /\ UNCHANGED <<daemon, socks5Ref, muxRef, overlapped>>
    BY <1>2, Zenon DEF StopCloses, historyVars
  <2>2. Busy(a) /\ daemon' # "down"
    BY <2>1, ChangingIsBusy, Alive DEF Changing
  <2>3. PICK x : Becomes(a, x) /\ Moved(call[a], "closed", x)
    BY <2>1, GoesStep, Zenon
  <2>4. x.pc = "closed" /\ x.pc \in Changing
    BY <2>3 DEF Moved, Changing
  <2>5. ProxiesInv'
    <3>1. CASE socks5Ref \in DOMAIN proxies
      BY <2>1, <3>1, DieBecomes, Zenon DEF StatusInv
    <3>2. CASE socks5Ref \notin DOMAIN proxies
      <4>1. proxies = [p \in DOMAIN proxies |-> proxies[p]]
        <5>1. \A S : \A s \in Seq(S) : s = [p \in DOMAIN s |-> s[p]]
          OBVIOUS
        <5> QED  BY <5>1, Zenon DEF StatusInv, ProxiesInv
      <4>2. proxies' = proxies
        BY <2>1, <3>2, <4>1
      <4> QED  BY <4>2, Unchanged, Zenon
    <3> QED  BY <3>1, <3>2, Zenon
  <2>6. ASSUME ~overlapped PROVE Phase(x)' /\ NoneFailing'
    <3>1. PICK p \in DOMAIN proxies : OneProxy(p)
      BY <2>1, <2>6, Zenon DEF StatusInv, PhaseInv, Phase
    <3>2. NoneFailing
      BY <2>2, <2>6, Zenon DEF StatusInv, PhaseInv, Quiet
    <3>3. socks5Ref = p /\ proxies[p].state = "serving" /\ OthersDead(p)
      BY <3>1, <3>2 DEF OneProxy, NoneFailing, Failing
    <3>4. SetTo(p, proxies[p].state, TRUE)
      BY <2>1, <3>3, DieBecomes, Zenon DEF StatusInv
    <3>5. (\A q \in DOMAIN proxies : Dead(q))' /\ NoneFailing'
      BY <3>2, <3>3, <3>4 DEF SetTo, Kept, Dead, OthersDead, NoneFailing, Failing
    <3>6. Phase(x)'
      BY <2>4, <3>5 DEF Phase
    <3> QED  BY <3>5, <3>6, Zenon
  <2> QED  BY <2>1, <2>2, <2>3, <2>4, <2>5, <2>6, Changes, Zenon
<1> QED  BY <1>1, <1>2, Zenon

\* The references are dropped.
LEMMA StopReturnsStatus ==
    ASSUME ControlInv, StatusInv, NEW a \in Callers, StopReturns(a)
    PROVE  StatusInv'
<1>1. /\ call[a].pc \in {"none", "closed"} /\ muxRef' = 0 /\ status' = "IDLE" /\ UNCHANGED <<proxies, overlapped>>
      /\ socks5Ref' = IF call[a].pc = "closed" THEN 0 ELSE socks5Ref
      /\ daemon' \in {daemon, "exiting"} /\ Returns(a)
  BY Zenon DEF StopReturns, historyVars
<1>2. Busy(a) /\ daemon' # "down" /\ ProxiesInv' /\ AllKept
  BY <1>1, ChangingIsBusy, Alive, Unchanged, SMTT(30) DEF Changing
<1>3. Becomes(a, Idle) /\ Idle.pc \notin Changing
  BY <1>1, IdleFacts DEF Returns, Becomes, Changing
<1>4. Phase(Idle)'
  BY <1>3, NoPhase
<1>5. ASSUME ~overlapped PROVE Settled' /\ NoneFailing'
  <2>1. NoneFailing'
    BY <1>1, <1>2, <1>5, Zenon DEF StatusInv, PhaseInv, Quiet, NoneFailing, Failing
  <2>2. Phase(call[a])
    BY <1>5, Zenon DEF StatusInv, PhaseInv
  <2>3. (\A q \in DOMAIN proxies : Dead(q)) /\ socks5Ref' = 0
    BY <1>1, <2>2 DEF Phase, NoProxy
  <2>4. NoProxy'
    BY <1>1, <2>3, Zenon DEF NoProxy, Dead
  <2> QED  BY <1>1, <2>1, <2>4 DEF Settled
<1> QED  BY <1>1, <1>2, <1>3, <1>4, <1>5, Changes, Zenon

\* Reload changes the endpoints and the users of a proxy.
LEMMA ReloadStatus ==
    ASSUME ControlInv, StatusInv, NEW a \in Callers, Reload(a)
    PROVE  StatusInv'
<1>1. /\ call[a].pc = "reload" /\ Returns(a) /\ UNCHANGED <<daemon, status, socks5Ref, muxRef, overlapped>>
  BY Zenon DEF Reload, historyVars
<1>2. ASSUME NEW p \in DOMAIN proxies
      PROVE  \/ proxies'[p] = proxies[p]
             \/ \E endpoints, users : proxies'[p] = [proxies[p] EXCEPT !.endpoints = endpoints, !.users = users]
  BY Zenon DEF Reload
<1>3. ASSUME NEW p \in DOMAIN proxies
      PROVE  IsProxy(proxies'[p]) /\ Kept(p)
  <2>1. CASE proxies'[p] = proxies[p]
    BY <2>1, Zenon DEF StatusInv, ProxiesInv, Kept
  <2>2. CASE proxies'[p] # proxies[p]
    <3>1. PICK s, d, e, u : proxies[p] = [state |-> s, die |-> d, endpoints |-> e, users |-> u]
      BY Zenon DEF StatusInv, ProxiesInv, IsProxy
    <3>2. PICK f, v : proxies'[p] = [proxies[p] EXCEPT !.endpoints = f, !.users = v]
      BY <1>2, <2>2, Zenon
    <3>3. proxies'[p] = [state |-> s, die |-> d, endpoints |-> f, users |-> v]
      <4>1. proxies'[p] = [[proxies[p] EXCEPT !.endpoints = f] EXCEPT !.users = v]
        BY <3>2
      <4>2. [proxies[p] EXCEPT !.endpoints = f] = [state |-> s, die |-> d, endpoints |-> f, users |-> u]
        BY <3>1
      <4>3. [[state |-> s, die |-> d, endpoints |-> f, users |-> u] EXCEPT !.users = v]
               = [state |-> s, die |-> d, endpoints |-> f, users |-> v]
        BY SMTT(30)
      <4> QED  BY <4>1, <4>2, <4>3, Zenon
    <3>4. proxies'[p].state = proxies[p].state /\ proxies'[p].die = proxies[p].die
      BY <3>1, <3>3, SMTT(30)
    <3>5. IsProxy(proxies'[p])
      BY <3>3 DEF IsProxy
    <3> QED  BY <3>4, <3>5, Zenon DEF Kept
  <2> QED  BY <2>1, <2>2, Zenon
<1>4. DOMAIN proxies' = DOMAIN proxies /\ proxies' = [p \in DOMAIN proxies' |-> proxies'[p]]
  BY Zenon DEF Reload
<1>5. proxies' \in Seq({proxies'[p] : p \in DOMAIN proxies'})
  <2>1. PICK s : s = proxies
    BY Zenon
  <2>2. PICK t : t = proxies'
    BY Zenon
  <2>3. s \in Seq({s[p] : p \in DOMAIN s}) /\ DOMAIN t = DOMAIN s /\ t = [p \in DOMAIN t |-> t[p]]
    BY <1>4, <2>1, <2>2, Zenon DEF StatusInv, ProxiesInv
  <2>4. t \in Seq({t[p] : p \in DOMAIN t})
    BY <2>3, OtherElements
  <2> QED  BY <2>2, <2>4, Zenon
<1>6. ProxiesInv' /\ AllKept
  BY <1>3, <1>4, <1>5, Zenon DEF ProxiesInv, IsProxy, AllKept
<1>7. call[a].pc \notin Changing \cup {"idle"}
  BY <1>1 DEF Changing
<1> QED  BY <1>1, <1>6, <1>7, PassesBack, Zenon

-----------------------------------------------------------------------------

\* A server that was never run.
LEMMA StatusInitial == ControlInit => StatusInv
<1> SUFFICES ASSUME ControlInit PROVE StatusInv
  BY Zenon
<1>1. /\ daemon = "down" /\ status = "UNKNOWN" /\ socks5Ref = 0 /\ muxRef = 0 /\ proxies = << >>
      /\ \A c \in Callers : call[c] = Idle
  BY Zenon DEF ControlInit
<1>2. DOMAIN proxies = {} /\ proxies \in Seq({proxies[p] : p \in DOMAIN proxies})
  BY <1>1
<1>3. ProxiesInv /\ DownInv /\ NoneFailing /\ NoProxy
  BY <1>1, <1>2, ZenonT(60) DEF ProxiesInv, DownInv, NoneFailing, NoProxy
<1>4. \A c \in Callers : Phase(call[c])
  BY <1>1, IdleFacts DEF Phase
<1>5. Settled
  BY <1>1, <1>3 DEF Settled
<1> QED  BY <1>3, <1>4, <1>5, Zenon DEF StatusInv, PhaseInv

\* Every step of the daemon and of its administrators.
LEMMA StatusSteps == ControlInv /\ StatusInv /\ [ControlNext]_controlVars => StatusInv'
<1> SUFFICES ASSUME ControlInv, StatusInv, [ControlNext]_controlVars PROVE StatusInv'
  BY Zenon
<1>1. CASE UNCHANGED controlVars
  <2>1. UNCHANGED <<daemon, call, overlapped, status, socks5Ref, muxRef, proxies>>
    BY <1>1, Zenon DEF controlVars
  <2> QED
    BY <2>1, ZenonT(60)
    DEF StatusInv, ProxiesInv, IsProxy, DownInv, PhaseInv, Phase, Settled, NoProxy, OneProxy, BeingStarted,
        OthersDead, Dead, NoneFailing, Failing, Quiet, Busy
<1>2. CASE Run
  BY <1>2, RunStatus, Zenon
<1>3. CASE Exits \/ Crash
  BY <1>3, EndsStatus, Zenon DEF Exits, Crash
<1>4. CASE MainLoad
  <2>1. "main" \in Callers
    BY Zenon DEF Callers
  <2> QED  BY <1>4, <2>1, FileStatus, Zenon
<1>5. CASE \E a \in Admins : Request(a)
  BY <1>5, RequestStatus, Zenon
<1>6. CASE \E a \in Admins : HandlerStep(a)
  <2>1. PICK a \in Admins : HandlerStep(a)
    BY <1>6, Zenon
  <2>2. a \in Callers
    BY Zenon DEF Callers
  <2> QED
    BY <2>1, <2>2, CallsStatus, FileStatus, StopLooksStatus, StopClosesStatus, StopReturnsStatus, ReloadStatus, Zenon
    DEF HandlerStep
<1>7. CASE \E c \in Callers : CallerStep(c)
  BY <1>7, StartStatus, StartReturnsStatus, FileStatus, Zenon DEF CallerStep
<1>8. CASE \E p \in DOMAIN proxies : ProxyStep(p) \/ ServeFails(p)
  BY <1>8, StartingSteps, ServeStopsStep, CleanupStep, ServeFailsStep, Zenon DEF ProxyStep
<1> QED  BY <1>1, <1>2, <1>3, <1>4, <1>5, <1>6, <1>7, <1>8, Zenon DEF ControlNext

\* What the invariant says of the status.
LEMMA InvTruthful == ControlInv /\ StatusInv => StatusTruthful
<1> SUFFICES ASSUME ControlInv, StatusInv, Quiet, ~overlapped
             PROVE  /\ (\A p \in DOMAIN proxies : ~Failing(p)) =>
                          (status = "RUNNING" <=> muxRef # 0 /\ muxRef = socks5Ref /\ Serving(muxRef))
                    /\ \A p \in DOMAIN proxies : Listening(p) => socks5Ref = p \/ proxies[p].die
  BY Zenon DEF StatusTruthful, StatusIsTrue, NoOrphan
<1>1. Settled
  BY QuietIsSettled, Zenon DEF StatusInv
<1>2. \A p \in DOMAIN proxies : Listening(p) /\ Dead(p) => proxies[p].die
  BY DEF Listening, Dead
<1>3. CASE NoProxy /\ status # "RUNNING"
  BY <1>2, <1>3, Zenon DEF NoProxy
<1>4. CASE (\E p \in DOMAIN proxies : OneProxy(p)) /\ status = "RUNNING"
  <2>1. PICK p \in DOMAIN proxies : OneProxy(p)
    BY <1>4, Zenon
  <2>2. p # 0
    <3>1. \A S : \A s \in Seq(S) : 0 \notin DOMAIN s
      OBVIOUS
    <3> QED  BY <3>1, Zenon DEF StatusInv, ProxiesInv
  <2>3. muxRef = p /\ socks5Ref = p /\ (Failing(p) \/ Serving(p)) /\ OthersDead(p)
    BY <2>1 DEF OneProxy, Failing, Serving
  <2> QED  BY <1>2, <1>4, <2>1, <2>2, <2>3, Zenon DEF OthersDead
<1> QED  BY <1>1, <1>3, <1>4, Zenon DEF Settled

\* As long as no calls overlap and no listener fails under a call, RUNNING means
\* a proxy that both references point to and that serves, once the calls have
\* returned; and no other proxy keeps its ports, unless it is being closed
\* (StartServerProxy, Stop, Exit, cleanupFailedServerProxy).
THEOREM StatusIsTruthful == ControlSpec => []StatusTruthful
<1>1. ControlInit => ControlInv /\ StatusInv
  BY ControlInitial, StatusInitial, Zenon
<1>2. ControlInv /\ StatusInv /\ [ControlNext]_controlVars => (ControlInv /\ StatusInv)'
  BY ControlSteps, StatusSteps, Zenon
<1> QED  BY <1>1, <1>2, InvTruthful, PTL DEF ControlSpec

=============================================================================
