--------------------------- MODULE ClientControl ----------------------------
(***************************************************************************)
(* The client daemon, mieru run, under the mieru commands (pkg/cli/        *)
(* client.go, pkg/appctl/client.go).  Unlike those of the server, the      *)
(* commands read and write the configuration file themselves, each in a    *)
(* process of its own: clientIOLock does not order them.  The file also    *)
(* says on which port the daemon is asked, so a daemon that was started    *)
(* with another port is out of reach.                                      *)
(*                                                                         *)
(* A file is opened and truncated, then written from its start: of two     *)
(* overlapping writes the later one may leave the end of the earlier one   *)
(* behind it, and the file no longer parses.                               *)
(***************************************************************************)
EXTENDS ClientConfig

CONSTANTS
    Terminals,        \* where the commands are typed
    ClientPatches,    \* the configurations they may apply, import or replace
    Numeric,          \* the hosts that are IP addresses
    MaxDaemons,       \* bound: daemons launched
    MaxRuns           \* bound: commands run

VARIABLES
    cfile,      \* the file: << >> if it does not exist, <<Corrupt>> if it does not parse
    written,    \* the terminals that wrote the file since it was last truncated
    daemons,    \* the daemons launched
    term,       \* what each terminal is doing
    runs,       \* commands run so far
    clobbered,  \* history: two writes of the file overlapped
    entangled,  \* history: two commands that change the file overlapped
    kept        \* history: the credentials that are to be in the file, if not

historyOfClient == <<clobbered, entangled, kept>>
clientVars == <<cfile, written, daemons, term, runs, clobbered, entangled, kept>>

Corrupt == [EmptyClientConfig EXCEPT !.loggingLevel = <<"CORRUPT">>]
Readable == cfile # << >> /\ cfile[1] # Corrupt
Ready == [pc |-> "ready", op |-> "none", patch |-> EmptyClientConfig, name |-> 0, config |-> EmptyClientConfig]

\* A daemon: pc is where clientRunFunc is; ref and die belong to its socks5
\* server.  The goroutine of a server is "off", "new", "up" or "done".
Launched == [pc |-> "load", config |-> EmptyClientConfig, status |-> "STARTING", rpc |-> "off", ref |-> FALSE,
             die |-> FALSE, socks5 |-> "off", http |-> "off", asked |-> FALSE]

Alive(d) == daemons[d].pc # "dead"
Holds(d, port) ==
    LET daemon == daemons[d]
    IN \/ daemon.rpc = "up" /\ daemon.config.rpcPort = <<port>>
       \/ daemon.socks5 = "up" /\ daemon.config.socks5Port = <<port>>
       \/ daemon.http = "up" /\ daemon.config.httpProxyPort = <<port>>
InUse(port) == \E d \in DOMAIN daemons : Alive(d) /\ Holds(d, port)

ClientInit ==
    /\ cfile = << >> /\ written = {} /\ daemons = << >>
    /\ term = [t \in Terminals |-> Ready] /\ runs = 0
    /\ clobbered = FALSE /\ entangled = FALSE /\ kept = {}

-----------------------------------------------------------------------------
(* clientRunFunc.  A log.Fatalf ends the process.                          *)

Becomes(d, record) == daemons' = [daemons EXCEPT ![d] = record]
Fatal(d) == Becomes(d, [daemons[d] EXCEPT !.pc = "dead"])

RunLoads(d) ==
    /\ daemons[d].pc = "load"
    /\ IF Readable /\ ValidateFullClientConfig(cfile[1])
       THEN Becomes(d, [daemons[d] EXCEPT !.config = cfile[1], !.pc = IF Get(cfile[1].rpcPort, 0) # 0 THEN "rpc" ELSE "mux"])
       ELSE Fatal(d)

RunListensRPC(d) ==
    /\ daemons[d].pc = "rpc"
    /\ IF InUse(daemons[d].config.rpcPort[1]) THEN Fatal(d)
       ELSE Becomes(d, [daemons[d] EXCEPT !.rpc = "up", !.pc = "mux"])

ActiveProfile(config) == config.profiles[ProfileOf(config, config.activeProfile[1])]

\* The multiplexer and the socks5 server are made, and their references set.
RunMakesServers(d) ==
    /\ daemons[d].pc = "mux"
    /\ IF NewClientMuxFails(ActiveProfile(daemons[d].config)) THEN Fatal(d)
       ELSE Becomes(d, [daemons[d] EXCEPT !.ref = TRUE, !.socks5 = "new", !.pc = "http"])

\* The goroutine of the socks5 server listens; Serve returns once die is set.
Socks5Listens(d) ==
    /\ Alive(d) /\ daemons[d].socks5 = "new"
    /\ IF InUse(daemons[d].config.socks5Port[1]) THEN Fatal(d)
       ELSE Becomes(d, [daemons[d] EXCEPT !.socks5 = "up"])

Socks5Returns(d) ==
    /\ Alive(d) /\ daemons[d].socks5 = "up" /\ daemons[d].die
    /\ Becomes(d, [daemons[d] EXCEPT !.socks5 = "done"])

\* The HTTP proxy does not go with user password authentication.
RunStartsHTTP(d) ==
    /\ daemons[d].pc = "http"
    /\ IF daemons[d].config.httpProxyPort = << >> THEN Becomes(d, [daemons[d] EXCEPT !.pc = "wait"])
       ELSE IF daemons[d].config.socks5Auth # << >> THEN Fatal(d)
       ELSE Becomes(d, [daemons[d] EXCEPT !.http = "new", !.pc = "wait"])

HTTPListens(d) ==
    /\ Alive(d) /\ daemons[d].http = "new"
    /\ IF InUse(daemons[d].config.httpProxyPort[1]) THEN Fatal(d)
       ELSE Becomes(d, [daemons[d] EXCEPT !.http = "up"])

\* <-ClientSocks5ServerStarted
RunIsRunning(d) ==
    /\ daemons[d].pc = "wait" /\ daemons[d].socks5 \in {"up", "done"}
    /\ Becomes(d, [daemons[d] EXCEPT !.status = "RUNNING", !.pc = "running"])

\* wg.Wait: the HTTP proxy is not waited for.
RunReturns(d) ==
    /\ daemons[d].pc = "running" /\ daemons[d].rpc \in {"off", "done"} /\ daemons[d].socks5 = "done"
    /\ Fatal(d)

\* The handler of Exit, up to its return.  A second Close of the socks5
\* server panics.
Exit(d) ==
    Becomes(d, IF daemons[d].ref /\ daemons[d].die THEN [daemons[d] EXCEPT !.pc = "dead"]
               ELSE [daemons[d] EXCEPT !.status = "STOPPING", !.die = @ \/ daemons[d].ref, !.rpc = "stopping",
                                       !.asked = TRUE])

\* GracefulStop, and with it grpcServer.Serve, returns.
RPCStops(d) ==
    /\ Alive(d) /\ daemons[d].rpc = "stopping"
    /\ Becomes(d, [daemons[d] EXCEPT !.rpc = "done"])

DaemonStep(d) ==
    /\ \/ RunLoads(d) \/ RunListensRPC(d) \/ RunMakesServers(d) \/ Socks5Listens(d) \/ Socks5Returns(d)
       \/ RunStartsHTTP(d) \/ HTTPListens(d) \/ RunIsRunning(d) \/ RunReturns(d) \/ RPCStops(d)
    /\ UNCHANGED <<cfile, written, term, runs, historyOfClient>>

-----------------------------------------------------------------------------
(* The commands that change the file.                                      *)

Goto(t, pc) == term' = [term EXCEPT ![t].pc = pc]
Ends(t) == term' = [term EXCEPT ![t] = Ready]

ChangesFile(t) == term[t].pc \in {"ensure", "create", "change", "open", "write"}

Types(t, op, pc, patch, name) ==
    /\ term[t].pc = "ready" /\ runs < MaxRuns
    /\ term' = [term EXCEPT ![t] = [Ready EXCEPT !.op = op, !.pc = pc, !.patch = patch, !.name = name]]
    /\ runs' = runs + 1
    /\ entangled' = (entangled \/ (pc \in {"ensure", "change", "open"} /\ \E u \in Terminals : ChangesFile(u)))
    /\ UNCHANGED <<cfile, written, daemons, clobbered, kept>>

clientApplyConfigFunc(t) ==
    \E patch \in {p \in ClientPatches : ValidateClientConfigPatch(p)} : Types(t, "apply", "ensure", patch, 0)

\* The URL carries a configuration, encoded as a whole, or describes a profile.
ParseURLClientConfig ==
    LET profiles == UNION {Range(patch.profiles) : patch \in ClientPatches}
        urls == {url \in UNION {Range(ClientProfileToMultiURLs(p)) : p \in profiles} : ParsesURL(url)}
    IN ClientPatches \cup {[EmptyClientConfig EXCEPT !.profiles = <<URLToClientProfile(url, Numeric)>>] : url \in urls}
clientImportConfigFunc(t) ==
    /\ runs < MaxRuns
    /\ \E patch \in {p \in ParseURLClientConfig : ValidateClientConfigPatch(p)} : Types(t, "apply", "ensure", patch, 0)
clientReplaceConfigFunc(t) ==
    \E patch \in {p \in ClientPatches : ValidateFullClientConfig(p)} : Types(t, "replace", "open", patch, 0)
clientDescribeConfigFunc(t) == Types(t, "describe", "ensure", EmptyClientConfig, 0)
clientDeleteProfileFunc(t) ==
    \E patch \in ClientPatches : \E i \in DOMAIN patch.profiles :
        Types(t, "deleteProfile", "change", EmptyClientConfig, patch.profiles[i].name)
clientDeleteHTTPProxyFunc(t) == Types(t, "deleteHTTP", "change", EmptyClientConfig, 0)
clientDeleteSocks5AuthenticationFunc(t) == Types(t, "deleteAuth", "change", EmptyClientConfig, 0)

\* These only read the file.
clientDescribeEffectiveTrafficPatternFunc(t) == Types(t, "read", "read", EmptyClientConfig, 0)
clientExportConfigSimpleFunc(t) == Types(t, "read", "read", EmptyClientConfig, 0)
clientExportConfigFunc(t) == Types(t, "read", "read", EmptyClientConfig, 0)
clientExportTrafficPatternFunc(t) == Types(t, "read", "read", EmptyClientConfig, 0)

LoadClientConfig(t) ==
    /\ term[t].pc = "read"
    /\ Ends(t) /\ UNCHANGED <<cfile, written, daemons, runs, historyOfClient>>

\* A file that does not exist is first stored empty: it is opened, and no
\* bytes are written.
EnsureFile(t) ==
    /\ term[t].pc = "ensure"
    /\ Goto(t, IF cfile = << >> THEN "create" ELSE IF term[t].op = "apply" THEN "change" ELSE "ready")
    /\ UNCHANGED <<cfile, written, daemons, runs, historyOfClient>>

CreateFile(t) ==
    /\ term[t].pc = "create"
    /\ cfile' = <<EmptyClientConfig>> /\ written' = {}
    /\ Goto(t, IF term[t].op = "apply" THEN "change" ELSE "ready")
    /\ UNCHANGED <<daemons, runs, historyOfClient>>

\* The mutant lets the active profile be deleted.
RefusedInvalid(command, config) ==
    CASE command.op = "apply" -> ~ValidateFullClientConfig(mergeClientConfigByProfile(config, command.patch))
      [] command.op = "deleteProfile" -> FALSE
      [] command.op = "deleteHTTP" -> config.httpProxyPort = << >> /\ config.httpProxyListenLAN = << >>
      [] command.op = "deleteAuth" -> config.socks5Auth = << >>

Refused(command, config) ==
    CASE command.op = "apply" -> ~ValidateFullClientConfig(mergeClientConfigByProfile(config, command.patch))
      [] command.op = "deleteProfile" -> Get(config.activeProfile, 0) = command.name
      [] command.op = "deleteHTTP" -> config.httpProxyPort = << >> /\ config.httpProxyListenLAN = << >>
      [] command.op = "deleteAuth" -> config.socks5Auth = << >>

Changed(command, config) ==
    CASE command.op = "apply" -> mergeClientConfigByProfile(config, command.patch)
      [] command.op = "deleteProfile" -> WithoutProfile(config, command.name)
      [] command.op = "deleteHTTP" -> [config EXCEPT !.httpProxyPort = << >>, !.httpProxyListenLAN = << >>]
      [] command.op = "deleteAuth" -> [config EXCEPT !.socks5Auth = << >>]

ChangeConfig(t) ==
    /\ term[t].pc = "change"
    /\ IF ~Readable \/ Refused(term[t], cfile[1]) THEN Ends(t)
       ELSE term' = [term EXCEPT ![t].config = Changed(term[t], cfile[1]), ![t].pc = "open"]
    /\ UNCHANGED <<cfile, written, daemons, runs, historyOfClient>>

OpenFile(t) ==
    /\ term[t].pc = "open"
    /\ cfile' = <<EmptyClientConfig>> /\ written' = {}
    /\ term' = [term EXCEPT ![t].pc = "write", ![t].config = IF term[t].op = "replace" THEN term[t].patch ELSE @]
    /\ UNCHANGED <<daemons, runs, historyOfClient>>

CredentialsIn(config) == {<<config.profiles[i].name, Credential(config.profiles[i].user)>> : i \in DOMAIN config.profiles}

\* Writing the empty configuration writes no bytes.
StoreClientConfig(t) ==
    LET stored == StoredClient(term[t].config)
    IN /\ term[t].pc = "write"
       /\ cfile' \in IF stored = EmptyClientConfig THEN {cfile}
                     ELSE IF written = {} THEN {<<stored>>} ELSE {<<stored>>, <<Corrupt>>}
       /\ written' = written \cup {t}
       /\ clobbered' = (clobbered \/ written # {})
       /\ kept' = CASE term[t].op = "apply" -> {c \in kept : c[1] \notin ProfileNames(term[t].patch)}
                                                 \cup CredentialsIn(term[t].patch)
                     [] term[t].op = "replace" -> CredentialsIn(term[t].patch)
                     [] term[t].op = "deleteProfile" -> {c \in kept : c[1] # term[t].name}
                     [] OTHER -> kept
       /\ Ends(t)
       /\ UNCHANGED <<daemons, runs, entangled>>

-----------------------------------------------------------------------------
(* The commands that call the daemon.  Its port is read from the file.     *)

Reachable(d) ==
    /\ Alive(d) /\ daemons[d].rpc = "up"
    /\ Readable /\ cfile[1] # EmptyClientConfig /\ ValidPort(Get(cfile[1].rpcPort, 0))
    /\ daemons[d].config.rpcPort = cfile[1].rpcPort

clientStartFunc(t) == Types(t, "start", "check", EmptyClientConfig, 0)
clientStopFunc(t) == Types(t, "stop", "ask", EmptyClientConfig, 0)
\* These make one call that leaves the daemon as it is.
clientStatusFunc(t) == Types(t, "get", "ask", EmptyClientConfig, 0)
clientTestFunc(t) == Types(t, "get", "ask", EmptyClientConfig, 0)
clientGetMetricsFunc(t) == Types(t, "get", "ask", EmptyClientConfig, 0)
clientGetConnectionsFunc(t) == Types(t, "get", "ask", EmptyClientConfig, 0)
clientProfileFunc(t) == Types(t, "get", "ask", EmptyClientConfig, 0)

StartChecks(t) ==
    /\ term[t].pc = "check"
    /\ Goto(t, IF Readable /\ ValidateFullClientConfig(cfile[1]) THEN "status" ELSE "ready")
    /\ UNCHANGED <<cfile, written, daemons, runs, historyOfClient>>

\* A daemon is launched only if none answers.
StartAsks(t) ==
    /\ term[t].pc = "status"
    /\ IF \E d \in DOMAIN daemons : Reachable(d)
       THEN /\ Goto(t, IF \E d \in DOMAIN daemons : Reachable(d) /\ daemons[d].status = "RUNNING" THEN "ready" ELSE "poll")
            /\ UNCHANGED daemons
       ELSE /\ Len(daemons) < MaxDaemons /\ daemons' = Append(daemons, Launched)
            /\ Goto(t, "poll")
    /\ UNCHANGED <<cfile, written, runs, historyOfClient>>

StartPolls(t) ==
    /\ term[t].pc = "poll"
    /\ \E d \in DOMAIN daemons : Reachable(d) /\ daemons[d].status = "RUNNING"
    /\ Ends(t) /\ UNCHANGED <<cfile, written, daemons, runs, historyOfClient>>

\* newClientManagementRPCClient asks for the status first.
AsksStatus(t) ==
    /\ term[t].pc = "ask"
    /\ Goto(t, IF \E d \in DOMAIN daemons : Reachable(d) THEN "call" ELSE "ready")
    /\ UNCHANGED <<cfile, written, daemons, runs, historyOfClient>>

CallsDaemon(t) ==
    /\ term[t].pc = "call"
    /\ IF term[t].op = "stop" /\ \E d \in DOMAIN daemons : Reachable(d)
       THEN Exit(CHOOSE d \in DOMAIN daemons : Reachable(d))
       ELSE UNCHANGED daemons
    /\ Ends(t) /\ UNCHANGED <<cfile, written, runs, historyOfClient>>

\* A command ends early: it is interrupted, or its time is over.
Interrupt(t) ==
    /\ term[t].pc # "ready"
    /\ kept' = IF term[t].pc = "write" THEN {} ELSE kept
    /\ Ends(t) /\ UNCHANGED <<cfile, written, daemons, runs, clobbered, entangled>>

TerminalStep(t) ==
    \/ LoadClientConfig(t) \/ EnsureFile(t) \/ CreateFile(t) \/ ChangeConfig(t) \/ OpenFile(t) \/ StoreClientConfig(t)
    \/ StartChecks(t) \/ StartAsks(t) \/ StartPolls(t) \/ AsksStatus(t) \/ CallsDaemon(t)

TypesCommand(t) ==
    \/ clientApplyConfigFunc(t) \/ clientImportConfigFunc(t) \/ clientReplaceConfigFunc(t) \/ clientDescribeConfigFunc(t)
    \/ clientDescribeEffectiveTrafficPatternFunc(t) \/ clientExportConfigSimpleFunc(t) \/ clientExportConfigFunc(t)
    \/ clientExportTrafficPatternFunc(t)
    \/ clientDeleteProfileFunc(t) \/ clientDeleteHTTPProxyFunc(t) \/ clientDeleteSocks5AuthenticationFunc(t)
    \/ clientStartFunc(t) \/ clientStopFunc(t) \/ clientStatusFunc(t) \/ clientTestFunc(t)
    \/ clientGetMetricsFunc(t) \/ clientGetConnectionsFunc(t) \/ clientProfileFunc(t)

ClientNext ==
    \/ \E d \in DOMAIN daemons : DaemonStep(d)
    \/ \E t \in Terminals : TypesCommand(t) \/ TerminalStep(t) \/ Interrupt(t)

ClientSpec == ClientInit /\ [][ClientNext]_clientVars

\* The threads of a daemon are not held up for ever.
ClientFairness == \A d \in 1 .. MaxDaemons : WF_clientVars(d \in DOMAIN daemons /\ DaemonStep(d))

-----------------------------------------------------------------------------

\* As long as no two writes of the file overlap, the file is one that the
\* daemon can start from, or empty, although commands read it, change what
\* they read and write it back without a lock (applyClientConfig,
\* DeleteClientConfigProfile): what is written was valid as a whole, and
\* deleting from a valid configuration leaves a valid one.
ClientFileUsable ==
    cfile # << >> /\ ~clobbered => cfile[1] = EmptyClientConfig \/ ValidateFullClientConfig(cfile[1])

\* As long as no commands overlap, the multiplexer made from a profile in
\* the file uses the credential that the last command to name the profile
\* gave it, and no profile is lost (StoreClientConfig keeps the password and
\* its hash, and NewClientMuxFromProfile takes the hash).
CredentialsKept ==
    ~entangled /\ (\A t \in Terminals : term[t].pc # "write") =>
        \A c \in kept : \E i \in DOMAIN cfile[1].profiles :
            /\ i = ProfileOf(cfile[1], c[1])
            /\ NewClientMuxFromProfile(cfile[1].profiles[i]).credential = c[2]

\* A daemon that says it is running accepts connections, unless it was asked
\* to exit, and can then be asked to exit, unless it has no RPC server.
RunningServes ==
    \A d \in DOMAIN daemons : Alive(d) /\ daemons[d].status = "RUNNING" /\ ~daemons[d].asked =>
        /\ daemons[d].socks5 = "up"
        /\ daemons[d].rpc = "up" \/ Get(daemons[d].config.rpcPort, 0) = 0

\* An Exit that finds the socks5 server ends the daemon, whatever it is
\* doing then.
ExitOfServerEnds == \A d \in 1 .. MaxDaemons :
    (d \in DOMAIN daemons /\ daemons[d].die) ~> (d \in DOMAIN daemons /\ ~Alive(d))

=============================================================================
