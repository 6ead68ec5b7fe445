--------------------------- MODULE ServerControl ----------------------------
(***************************************************************************)
(* The server daemon under its administrators: mita run, the management    *)
(* RPCs (pkg/appctl/server.go) and the mita commands that call them        *)
(* (pkg/cli/server.go), which several administrators may run at once.      *)
(*                                                                         *)
(* A command first asks for the status, then makes its call; the calls     *)
(* share the atomic references to the proxy without a common lock.  The    *)
(* configuration file is truncated and written in place, under a lock; a   *)
(* truncated file reads as the empty protobuf message.  The timeouts of    *)
(* the commands are not modelled: a handler does not look at its context,  *)
(* and a command that gave up is one more administrator.                   *)
(***************************************************************************)
EXTENDS ServerConfig, Functions

CONSTANTS
    Admins,       \* those who run mita commands
    Patches,      \* the configurations they may apply or replace
    Deletions,    \* the sets of user names they may delete
    MaxProxies,   \* bound: proxies created
    MaxCommands,  \* bound: commands run
    MaxFaults     \* bound: crashes and failures of a listener

ASSUME ControlAssumption ==
    /\ MaxProxies \in Nat /\ MaxCommands \in Nat /\ MaxFaults \in Nat /\ "main" \notin Admins
    /\ \A patch \in Patches : IsServerConfig(patch)

VARIABLES
    file,       \* the configuration file: << >> if it does not exist
    storing,    \* who is between truncating and writing the file
    daemon,     \* "down", "up", or "exiting": GracefulStop was called
    status,     \* currentAppStatus
    socks5Ref,  \* socks5ServerRef: a proxy, or 0
    muxRef,     \* serverMuxRef: a proxy, or 0
    proxies,    \* the proxies created since the daemon started
    call,       \* what main and the administrators are doing
    commands,   \* commands run so far
    faults,     \* faults so far
    overlapped, \* history: calls that change the daemon overlapped in this run of it
    supplied,   \* history: the users that administrators gave
    acked       \* history: what the file should hold, if no calls overlapped

fileVars == <<file, storing>>
refVars == <<status, socks5Ref, muxRef, proxies>>
boundVars == <<commands, faults>>
historyVars == <<overlapped, supplied, acked>>
controlVars == <<file, storing, daemon, status, socks5Ref, muxRef, proxies, call, commands, faults,
                 overlapped, supplied, acked>>

Callers == Admins \cup {"main"}
Nobody == {}
Idle == [pc |-> "idle", op |-> "none", patch |-> EmptyServerConfig, names |-> {}, config |-> EmptyServerConfig,
         proxy |-> 0]

\* Between the first and the last call that a command which changes something
\* makes to the daemon.
Busy(c) == call[c].pc \notin {"idle", "call", "wait"} /\ call[c].op # "query"
Quiet == \A c \in Callers : ~Busy(c)
OthersBusy(c) == \E d \in Callers \ {c} : Busy(d)

\* A proxy holds its ports from a successful mux.Start until mux.Close.
Listening(p) == proxies[p].state \in {"started", "published", "serving"}
Taken(p) == UNION {proxies[q].endpoints : q \in {q \in DOMAIN proxies \ {p} : Listening(q)}}
Failing(p) == proxies[p].state = "failing"
Serving(p) == proxies[p].state = "serving" /\ ~proxies[p].die

ControlInit ==
    /\ file = << >> /\ storing = Nobody /\ daemon = "down"
    /\ status = "UNKNOWN" /\ socks5Ref = 0 /\ muxRef = 0 /\ proxies = << >>
    /\ call = [c \in Callers |-> Idle] /\ commands = 0 /\ faults = 0
    /\ overlapped = FALSE /\ supplied = {} /\ acked = EmptyServerConfig

-----------------------------------------------------------------------------
(* Reading and writing the configuration file.  Both hold serverIOLock.    *)

Returns(c) == call' = [call EXCEPT ![c] = Idle]
Goes(c, pc) == call' = [call EXCEPT ![c].pc = pc]

LoadServerConfig(config) == storing = Nobody /\ file # << >> /\ config = file[1]

Truncate(c) ==
    /\ storing = Nobody
    /\ storing' = {c} /\ file' = <<EmptyServerConfig>>
    /\ Goes(c, "write")

\* What the commands mean, one after another.
Intended(config, c) ==
    CASE c.op = "apply" -> Stored(MergeServerConfig(config, c.patch))
      [] c.op = "replace" -> Stored(c.patch)
      [] c.op = "delete" -> DeleteUsers(config, c.names)
      [] OTHER -> config

\* The end of StoreServerConfig.  SetConfig then reads the file back and
\* returns it to a command that ignores it.
StoreServerConfig(c) ==
    /\ call[c].pc = "write"
    /\ storing' = Nobody /\ file' = <<Stored(call[c].config)>>
    /\ acked' = Intended(acked, call[c])
    /\ IF c = "main" THEN Goes(c, "load") ELSE Returns(c)
    /\ UNCHANGED <<daemon, refVars, boundVars, overlapped, supplied>>

-----------------------------------------------------------------------------
(* StartServerProxy, called by main and by the handler of Start.           *)

\* newServerProxy cannot fail on a configuration that was validated.
NewProxy(config) ==
    [state |-> "new", die |-> FALSE, endpoints |-> FlatPortBindings(config.portBindings), users |-> DOMAIN config.users]

StartServerProxy(c) ==
    /\ call[c].pc = "startProxy"
    /\ IF socks5Ref # 0
       THEN (IF c = "main" THEN Goes(c, "wait") ELSE Returns(c)) /\ UNCHANGED <<status, proxies>>
       ELSE /\ Len(proxies) < MaxProxies
            /\ status' = "STARTING"
            /\ proxies' = Append(proxies, NewProxy(call[c].config))
            /\ call' = [call EXCEPT ![c].pc = "starting", ![c].proxy = Len(proxies) + 1]
    /\ UNCHANGED <<fileVars, daemon, socks5Ref, muxRef, boundVars, historyVars>>

\* The goroutine: mux.Start, which releases what it opened when it fails.
MuxStart(p) ==
    /\ proxies[p].state = "new"
    /\ proxies' = [proxies EXCEPT ![p].state =
          IF proxies[p].users # {} /\ proxies[p].endpoints \cap Taken(p) = {} THEN "started" ELSE "failed"]
    /\ UNCHANGED <<fileVars, daemon, status, socks5Ref, muxRef, call, boundVars, historyVars>>

\* The references are set one after the other.
PublishMux(p) ==
    /\ proxies[p].state = "started"
    /\ muxRef' = p /\ proxies' = [proxies EXCEPT ![p].state = "published"]
    /\ UNCHANGED <<fileVars, daemon, status, socks5Ref, call, boundVars, historyVars>>

PublishSocks5(p) ==
    /\ proxies[p].state = "published"
    /\ socks5Ref' = p /\ proxies' = [proxies EXCEPT ![p].state = "serving"]
    /\ UNCHANGED <<fileVars, daemon, status, muxRef, call, boundVars, historyVars>>

\* The mutant does not look at the error.
StartReturnsRunning(c) ==
    /\ call[c].pc = "starting"
    /\ proxies[call[c].proxy].state \in {"failed", "serving", "failing", "closed"}
    /\ status' = "RUNNING"
    /\ IF c = "main" THEN Goes(c, "wait") ELSE Returns(c)
    /\ UNCHANGED <<fileVars, daemon, socks5Ref, muxRef, proxies, boundVars, historyVars>>

\* <-startErr
StartReturns(c) ==
    /\ call[c].pc = "starting"
    /\ proxies[call[c].proxy].state \in {"failed", "serving", "failing", "closed"}
    /\ status' = IF proxies[call[c].proxy].state = "failed" THEN "STOPPED" ELSE "RUNNING"
    /\ IF c = "main" THEN Goes(c, "wait") ELSE Returns(c)
    /\ UNCHANGED <<fileVars, daemon, socks5Ref, muxRef, proxies, boundVars, historyVars>>

\* Serve sees die: it closes the mux and returns nil.
ServeStops(p) ==
    /\ proxies[p].state = "serving" /\ proxies[p].die
    /\ proxies' = [proxies EXCEPT ![p].state = "closed"]
    /\ UNCHANGED <<fileVars, daemon, status, socks5Ref, muxRef, call, boundVars, historyVars>>

\* Serve gets an error from Accept: it closes the mux and returns the error.
ServeFails(p) ==
    /\ proxies[p].state = "serving" /\ faults < MaxFaults
    /\ proxies' = [proxies EXCEPT ![p].state = "failing"]
    /\ faults' = faults + 1 /\ overlapped' = (overlapped \/ ~Quiet \/ proxies[p].die)
    /\ UNCHANGED <<fileVars, daemon, status, socks5Ref, muxRef, call, commands, supplied, acked>>

-----------------------------------------------------------------------------
(* The end of the process: a panic, a crash or an orderly exit.            *)

Down ==
    /\ daemon' = "down" /\ status' = "UNKNOWN" /\ socks5Ref' = 0 /\ muxRef' = 0 /\ proxies' = << >>
    /\ storing' = Nobody /\ call' = [c \in Callers |-> Idle]
    /\ acked' = IF storing = Nobody THEN acked ELSE EmptyServerConfig
    /\ UNCHANGED <<file, commands, supplied>>

\* Closing a socks5 server that is closed already, or that is nil, panics.
Panics(p) == p = 0 \/ proxies[p].die

\* cleanupFailedServerProxy, then SetAppStatus.
CleanupFailed(p) ==
    /\ Failing(p)
    /\ IF socks5Ref = p /\ Panics(p) THEN Down /\ UNCHANGED <<faults, overlapped>>
       ELSE /\ socks5Ref' = IF socks5Ref = p THEN 0 ELSE socks5Ref
            /\ muxRef' = IF muxRef = p THEN 0 ELSE muxRef
            /\ status' = "STOPPED"
            /\ proxies' = [proxies EXCEPT ![p].state = "closed", ![p].die = @ \/ socks5Ref = p]
            /\ UNCHANGED <<fileVars, daemon, call, boundVars, historyVars>>

Crash ==
    /\ daemon # "down" /\ faults < MaxFaults /\ Down
    /\ faults' = faults + 1 /\ UNCHANGED overlapped

-----------------------------------------------------------------------------
(* serverRunFunc.                                                          *)

Run ==
    /\ daemon = "down"
    /\ daemon' = "up" /\ status' = "IDLE" /\ Goes("main", "load")
    /\ overlapped' = FALSE /\ acked' = IF overlapped /\ file # << >> THEN file[1] ELSE acked
    /\ UNCHANGED <<fileVars, socks5Ref, muxRef, proxies, boundVars, supplied>>

\* A file that does not exist is created with the empty configuration.
MainLoad ==
    /\ call["main"].pc = "load"
    /\ \/ file = << >> /\ Truncate("main")
       \/ \E config \in Range(file) :
             /\ LoadServerConfig(config)
             /\ call' = [call EXCEPT !["main"].config = config,
                                     !["main"].pc = IF ValidateFullServerConfig(config) THEN "startProxy" ELSE "wait"]
             /\ UNCHANGED fileVars
    /\ UNCHANGED <<daemon, refVars, boundVars, historyVars>>

\* A mutant of Exits that needs a proxy.
ExitsAfterServing ==
    /\ daemon = "exiting" /\ call["main"].pc = "wait" /\ socks5Ref # 0
    /\ \A a \in Admins : call[a].pc \in {"idle", "call"}
    /\ Down /\ UNCHANGED <<faults, overlapped>>

\* rpcTasks.Wait returns once GracefulStop has waited for the calls.
Exits ==
    /\ daemon = "exiting" /\ call["main"].pc = "wait"
    /\ \A a \in Admins : call[a].pc \in {"idle", "call"}
    /\ Down /\ UNCHANGED <<faults, overlapped>>

-----------------------------------------------------------------------------
(* The commands: GetServerStatusWithRPC and the checks made before the     *)
(* call.  A command that fails these changes nothing.                      *)

Command(a, op, patch, names) ==
    /\ call[a].pc = "idle" /\ daemon = "up" /\ commands < MaxCommands
    /\ call' = [call EXCEPT ![a] = [Idle EXCEPT !.pc = "call", !.op = op, !.patch = patch, !.names = names]]
    /\ commands' = commands + 1
    /\ supplied' = supplied \cup {patch.users[name] : name \in DOMAIN patch.users}
    /\ UNCHANGED <<fileVars, daemon, refVars, faults, overlapped, acked>>

serverStartFunc(a) == status # "RUNNING" /\ Command(a, "start", EmptyServerConfig, {})
serverStopFunc(a) == status = "RUNNING" /\ Command(a, "stop", EmptyServerConfig, {})
serverReloadFunc(a) == Command(a, "reload", EmptyServerConfig, {})
serverApplyConfigFunc(a) ==
    /\ commands < MaxCommands
    /\ \E patch \in {p \in Patches : ValidateServerConfigPatch(p)} : Command(a, "apply", patch, {})
serverReplaceConfigFunc(a) ==
    /\ commands < MaxCommands
    /\ \E patch \in {p \in Patches : ValidateFullServerConfig(p)} : Command(a, "replace", patch, {})
serverDeleteUserFunc(a) == \E names \in Deletions : Command(a, "delete", EmptyServerConfig, names)

\* The describe, get users and get quotas commands read the file; the other get
\* commands and the profilers ask the daemon about itself.
Query(a, pc) ==
    /\ call[a].pc = "idle" /\ daemon = "up" /\ commands < MaxCommands
    /\ call' = [call EXCEPT ![a] = [Idle EXCEPT !.pc = pc, !.op = "query"]]
    /\ commands' = commands + 1
    /\ UNCHANGED <<fileVars, daemon, refVars, faults, historyVars>>
serverDescribeConfigFunc(a) == Query(a, "load")
serverDescribeEffectiveTrafficPatternFunc(a) == Query(a, "load")
serverExportTrafficPatternFunc(a) == Query(a, "load")
serverGetUsersFunc(a) == Query(a, "load")
serverGetQuotasFunc(a) == Query(a, "load")
serverStatusFunc(a) == Query(a, "answer")
serverGetMetricsFunc(a) == Query(a, "answer")
serverGetConnectionsFunc(a) == Query(a, "answer")
serverProfileFunc(a) == Query(a, "answer")

\* No command of mita makes this call; a client of the RPC service may.
ExitRequest(a) == Command(a, "exit", EmptyServerConfig, {})

\* The call reaches the daemon, or finds it gone.
Calls(a) ==
    /\ call[a].pc = "call"
    /\ IF daemon # "up" THEN Returns(a) /\ UNCHANGED overlapped
       ELSE /\ Goes(a, CASE call[a].op \in {"stop", "exit"} -> "stop" [] call[a].op = "replace" -> "set" [] OTHER -> "load")
            /\ overlapped' = (overlapped \/ OthersBusy(a) \/ \E p \in DOMAIN proxies : Failing(p))
    /\ UNCHANGED <<fileVars, daemon, refVars, boundVars, supplied, acked>>

-----------------------------------------------------------------------------
(* The handlers of the calls.                                              *)

\* The mutant merges the patch into nothing.
NextConfigFromNothing(a, config) ==
    CASE call[a].op = "apply" -> MergeServerConfig(EmptyServerConfig, call[a].patch)
      [] call[a].op = "delete" -> DeleteUsers(config, call[a].names)
      [] OTHER -> config

\* GetConfig, and what apply and delete do with its answer; Start and
\* Reload, which validate the configuration.
NextConfig(a, config) ==
    CASE call[a].op = "apply" -> MergeServerConfig(config, call[a].patch)
      [] call[a].op = "delete" -> DeleteUsers(config, call[a].names)
      [] OTHER -> config

\* Where each kind of call goes on.
AfterValid == [delete |-> "set", apply |-> "set", query |-> "answer", start |-> "startProxy", reload |-> "reload"]

\* The mutant stores a merged configuration unchecked.
AfterLoadUnchecked(a, config) ==
    IF call[a].op \in {"start", "reload"} /\ ~ValidateFullServerConfig(config) THEN "idle"
    ELSE AfterValid[call[a].op]

AfterLoad(a, config) ==
    IF call[a].op \in {"apply", "start", "reload"} /\ ~ValidateFullServerConfig(config) THEN "idle"
    ELSE AfterValid[call[a].op]

LoadConfig(a) ==
    /\ call[a].pc = "load"
    /\ \/ file = << >> /\ Returns(a)
       \/ \E loaded \in Range(file) :
             LET config == NextConfig(a, loaded)
             IN /\ LoadServerConfig(loaded)
                /\ IF AfterLoad(a, config) = "idle" THEN Returns(a)
                   ELSE call' = [call EXCEPT ![a].pc = AfterLoad(a, config), ![a].config = config]
    /\ UNCHANGED <<fileVars, daemon, refVars, boundVars, historyVars>>

\* The answer to a query; nothing else is left of it.
Answer(a) ==
    /\ call[a].pc = "answer"
    /\ Returns(a)
    /\ UNCHANGED <<fileVars, daemon, refVars, boundVars, historyVars>>

\* A call of its own: replace sends the file that it was given.
SetConfig(a) ==
    /\ call[a].pc = "set"
    /\ IF daemon # "up" THEN Returns(a) /\ UNCHANGED fileVars
       ELSE LET config == IF call[a].op = "replace" THEN call[a].patch ELSE call[a].config
            IN /\ storing = Nobody /\ storing' = {a} /\ file' = <<EmptyServerConfig>>
               /\ call' = [call EXCEPT ![a].pc = "write", ![a].config = config]
    /\ UNCHANGED <<daemon, refVars, boundVars, historyVars>>

\* Stop and Exit: is there a socks5 server?
StopLooks(a) ==
    /\ call[a].pc = "stop"
    /\ status' = "STOPPING"
    /\ Goes(a, IF socks5Ref # 0 THEN "close" ELSE "none")
    /\ UNCHANGED <<fileVars, daemon, socks5Ref, muxRef, proxies, boundVars, historyVars>>

\* The reference is read again.
StopCloses(a) ==
    /\ call[a].pc = "close"
    /\ IF Panics(socks5Ref) THEN Down /\ UNCHANGED <<faults, overlapped>>
       ELSE /\ proxies' = [proxies EXCEPT ![socks5Ref].die = TRUE]
            /\ Goes(a, "closed")
            /\ UNCHANGED <<fileVars, daemon, status, socks5Ref, muxRef, boundVars, historyVars>>

\* The references are dropped one by one in the code.  Nothing is lost by
\* doing it in one step, as PublishMux and PublishSocks5 are two.
StopReturns(a) ==
    /\ call[a].pc \in {"none", "closed"}
    /\ socks5Ref' = IF call[a].pc = "closed" THEN 0 ELSE socks5Ref
    /\ muxRef' = 0 /\ status' = "IDLE"
    /\ daemon' = IF call[a].op = "exit" THEN "exiting" ELSE daemon
    /\ Returns(a)
    /\ UNCHANGED <<fileVars, proxies, boundVars, historyVars>>

\* mux.UpdateEndpoints opens the endpoints that are new, and fails when the
\* mux is closed or when it cannot open one of them; the users are replaced
\* only if it succeeds.
Reload(a) ==
    /\ call[a].pc = "reload"
    /\ LET wanted == FlatPortBindings(call[a].config.portBindings)
       IN proxies' = [p \in DOMAIN proxies |->
             IF p # muxRef \/ ~Listening(p) THEN proxies[p]
             ELSE [proxies[p] EXCEPT !.endpoints = @ \cup (wanted \ Taken(p)),
                                     !.users = IF wanted \cap Taken(p) = {} THEN DOMAIN call[a].config.users ELSE @]]
    /\ Returns(a)
    /\ UNCHANGED <<fileVars, daemon, status, socks5Ref, muxRef, boundVars, historyVars>>

-----------------------------------------------------------------------------

HandlerStep(a) ==
    \/ Calls(a) \/ LoadConfig(a) \/ Answer(a) \/ SetConfig(a) \/ StopLooks(a) \/ StopCloses(a) \/ StopReturns(a) \/ Reload(a)

CallerStep(c) == StartServerProxy(c) \/ StartReturns(c) \/ StoreServerConfig(c)

ProxyStep(p) == MuxStart(p) \/ PublishMux(p) \/ PublishSocks5(p) \/ ServeStops(p) \/ CleanupFailed(p)

Request(a) ==
    \/ serverStartFunc(a) \/ serverStopFunc(a) \/ serverReloadFunc(a) \/ serverApplyConfigFunc(a)
    \/ serverReplaceConfigFunc(a) \/ serverDeleteUserFunc(a) \/ ExitRequest(a)
    \/ serverDescribeConfigFunc(a) \/ serverDescribeEffectiveTrafficPatternFunc(a) \/ serverExportTrafficPatternFunc(a)
    \/ serverGetUsersFunc(a) \/ serverGetQuotasFunc(a) \/ serverStatusFunc(a) \/ serverGetMetricsFunc(a)
    \/ serverGetConnectionsFunc(a) \/ serverProfileFunc(a)

ControlNext ==
    \/ Run \/ MainLoad \/ Exits \/ Crash
    \/ \E a \in Admins : Request(a) \/ HandlerStep(a)
    \/ \E c \in Callers : CallerStep(c)
    \/ \E p \in DOMAIN proxies : ProxyStep(p) \/ ServeFails(p)

ControlSpec == ControlInit /\ [][ControlNext]_controlVars

\* Handlers and goroutines are not held up for ever.
ControlFairness ==
    /\ WF_controlVars(MainLoad) /\ WF_controlVars(Exits)
    /\ \A a \in Admins : WF_controlVars(HandlerStep(a))
    /\ \A c \in Callers : WF_controlVars(CallerStep(c))
    /\ \A p \in 1 .. MaxProxies : WF_controlVars(p \in DOMAIN proxies /\ ProxyStep(p))

-----------------------------------------------------------------------------

\* Each write of the file comes from a single snapshot that was validated as a
\* whole, and holds no plain password.
StoredIsValid ==
    file # << >> =>
        /\ file[1] = EmptyServerConfig \/ ValidateFullServerConfig(file[1])
        /\ \A name \in DOMAIN file[1].users : file[1].users[name].password = 0

\* A stored credential is the hash of a password, or the hash, that some
\* administrator supplied for that very user: it is never hashed twice, nor
\* moved to another name, on its way through load, merge and store.
CredentialWasSupplied ==
    file # << >> =>
        \A name \in DOMAIN file[1].users :
            \E user \in supplied : user.name = name /\ file[1].users[name].hashed =
                IF user.password # 0 THEN HashPassword(user.password, name) ELSE user.hashed

\* Whatever commands overlap, and wherever a crash falls, the file is one that
\* the daemon can start from, or empty, with the credentials that were supplied.
StoredIsStartable == StoredIsValid /\ CredentialWasSupplied

\* As long as no calls overlap, the file holds what the commands mean one
\* after another, also across restarts of the daemon.
AckedIsStored == file # << >> /\ storing = Nobody /\ ~overlapped => file[1] = acked

\* The status that the commands go by is true once the daemon is quiet: RUNNING
\* means a proxy that both references point to and that is not being closed.
StatusIsTrue ==
    daemon = "up" /\ Quiet /\ ~overlapped /\ (\A p \in DOMAIN proxies : ~Failing(p)) =>
        (status = "RUNNING" <=> muxRef # 0 /\ muxRef = socks5Ref /\ Serving(muxRef))

\* No proxy keeps its ports without a reference through which it could be
\* stopped, unless it is being closed.
NoOrphan ==
    Quiet /\ ~overlapped =>
        \A p \in DOMAIN proxies : Listening(p) => socks5Ref = p \/ proxies[p].die

\* As long as no calls overlap, the daemon tells the truth about the proxy it has,
\* and has no other (StartServerProxy, Stop, cleanupFailedServerProxy).
StatusTruthful == StatusIsTrue /\ NoOrphan

\* A proxy that was told to stop gives its ports back, and an Exit ends the
\* daemon (Serve, GracefulStop).
StopReleases == \A p \in 1 .. MaxProxies :
    (p \in DOMAIN proxies /\ proxies[p].die) ~> (p \notin DOMAIN proxies \/ ~Listening(p))
ExitEnds == daemon = "exiting" ~> daemon = "down"

=============================================================================
