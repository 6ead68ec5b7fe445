----------------------------- MODULE MCControl ------------------------------
(* The management of server and client, for TLC: the server daemon under   *)
(* two administrators, the client daemon under two terminals, the sharing  *)
(* of a profile by URL, the generation of a traffic pattern and the        *)
(* command line.  They do not share state; a behaviour is about one of     *)
(* them.                                                                   *)
EXTENDS ServerControl, TLC

CONSTANTS Terminals, ClientPatches, MaxDaemons, MaxRuns, a1, a2, t1, t2

VARIABLES
    part,    \* which of them, never changes
    sample,  \* what the last three are about, never changes
    cfile, written, daemons, term, runs, clobbered, entangled, kept

U(name, password) == [name |-> name, password |-> password, hashed |-> << >>, quotas |-> {}]
B(protocol, port, range) == [protocol |-> protocol, port |-> port, range |-> range]

-----------------------------------------------------------------------------
(* The server.  The second patch is incomplete on its own, and the last    *)
(* one is refused.                                                         *)

MCPatches == {
    [EmptyServerConfig EXCEPT !.users = (1 :> U(1, 1)), !.portBindings = <<B("TCP", 1, << >>)>>],
    [EmptyServerConfig EXCEPT !.users = (1 :> U(1, 2))],
    [EmptyServerConfig EXCEPT !.users = (2 :> U(2, 1)), !.portBindings = <<B("TCP", 2, << >>)>>],
    [EmptyServerConfig EXCEPT !.portBindings = <<B("UDP", 0, <<2, 1>>)>>]}
MCDeletions == {{1}}

\* One of the two makes the queries, which change nothing, the exits, the
\* replacements and the deletions.
\* For liveness one only applies a configuration and starts, the other stops
\* the proxy or the daemon.
OneAsks == call[a2].op \notin {"query", "exit", "replace", "delete"}
OneStops == call[a1].op \in {"none", "apply", "start"} /\ call[a2].op \in {"none", "stop", "exit"}

\* ControlFairness, stated only where liveness is asked for.
LiveFairness ==
    /\ WF_controlVars(part = "live" /\ MainLoad) /\ WF_controlVars(part = "live" /\ Exits)
    /\ \A a \in Admins : WF_controlVars(part = "live" /\ HandlerStep(a))
    /\ \A c \in Callers : WF_controlVars(part = "live" /\ CallerStep(c))
    /\ \A p \in 1 .. MaxProxies : WF_controlVars(part = "live" /\ p \in DOMAIN proxies /\ ProxyStep(p))

-----------------------------------------------------------------------------
(* The client: patches that rename the active profile, change its          *)
(* password, move the ports, and combine what run refuses.                 *)

Server(ip, domain, bindings) == [ip |-> ip, domain |-> domain, bindings |-> bindings]
P(name, user, servers, mtu, multiplexing, handshakeMode) ==
    [name |-> name, user |-> user, servers |-> servers, mtu |-> mtu, trafficPattern |-> << >>, dialer |-> << >>,
     multiplexing |-> multiplexing, handshakeMode |-> handshakeMode]
Plain(name, password) ==
    P(name, U(1, password), <<Server(IF name = 1 THEN "IPv4" ELSE "", "name", <<B("TCP", 1, << >>)>>)>>, << >>, << >>, << >>)

ClientFile == INSTANCE ClientConfig
Client == INSTANCE ClientControl WITH Numeric <- {"IPv4"}

MCClientPatches == {
    [ClientFile!EmptyClientConfig EXCEPT !.activeProfile = <<1>>, !.profiles = <<Plain(1, 1)>>, !.rpcPort = <<1>>,
        !.socks5Port = <<2>>],
    [ClientFile!EmptyClientConfig EXCEPT !.activeProfile = <<2>>, !.profiles = <<Plain(2, 1)>>],
    [ClientFile!EmptyClientConfig EXCEPT !.activeProfile = <<2>>, !.profiles = <<Plain(2, 2), Plain(1, 2)>>,
        !.rpcPort = <<3>>, !.socks5Port = <<1>>, !.httpProxyPort = <<2>>],
    [ClientFile!EmptyClientConfig EXCEPT !.socks5Auth = <<[user |-> "a", password |-> "b"]>>, !.httpProxyPort = <<3>>]}

clientVars == <<cfile, written, daemons, term, runs, clobbered, entangled, kept>>

-----------------------------------------------------------------------------
(* Profiles to share: valid and invalid ones, with and without a plain     *)
(* password, with one server or two.                                       *)

Bindings == {B("TCP", 1, << >>), B("UDP", 2, << >>), B("TCP", 0, <<1, 3>>), B("TCP", 0, <<2, 2>>), B("UDP", 0, <<3, 1>>),
             B("UDP", 4, << >>), B("TCP", 1, <<2, 3>>)}
Servers == {Server(host[1], host[2], bindings) :
    host \in {<<"ip", "">>, <<"", "name">>, <<"ip", "name">>, <<"bad", "">>},
    bindings \in {<< >>} \cup {<<b>> : b \in Bindings} \cup {<<b, c>> : b, c \in Bindings}}
Few == {s \in Servers : Len(s.bindings) <= 1 /\ s.ip # "bad"}
Profiles == {P(1, user, servers, mtu, multiplexing, << >>) :
    user \in {U(1, 1), U(1, 0), [U(1, 2) EXCEPT !.hashed = HashPassword(2, 1)], [U(1, 0) EXCEPT !.hashed = HashPassword(1, 1)]},
    servers \in {<<s>> : s \in Servers} \cup {<<s, t>> : s, t \in Few},
    mtu \in {<< >>, <<1400>>}, multiplexing \in {<< >>, <<"HIGH">>}}

\* What the design of the URLs can carry: a plain password, and bindings that
\* set a port or a range but not both.
Shareable(profile) ==
    /\ Client!ValidateClientConfigSingleProfile(profile) /\ profile.user.password # 0
    /\ \A i \in DOMAIN profile.servers : \A j \in DOMAIN profile.servers[i].bindings :
          profile.servers[i].bindings[j].port = 0 \/ profile.servers[i].bindings[j].range = << >>

\* The URLs of a profile that can be shared, taken together, give the
\* receiver the same endpoints, and each of them parses and gives a valid
\* profile with the same credential and the same settings of the multiplexer
\* (ClientProfileToMultiURLs, URLToClientProfile).
ShareRoundTrip ==
    part = "share" /\ Shareable(sample) =>
        LET urls == Client!ClientProfileToMultiURLs(sample)
            Imported(i) == Client!URLToClientProfile(urls[i], {"ip"})
            Mux(profile) == [Client!NewClientMuxFromProfile(profile) EXCEPT !.endpoints = {}]
        IN /\ urls # << >>
           /\ \A i \in DOMAIN urls :
                 /\ Client!ParsesURL(urls[i])
                 /\ Client!ValidateClientConfigSingleProfile(Imported(i))
                 /\ Mux(Imported(i)) = Mux(sample)
           /\ UNION {Client!clientEndpointsFromProfile(Imported(i)) : i \in DOMAIN urls}
                 = Client!clientEndpointsFromProfile(sample)

-----------------------------------------------------------------------------
(* Traffic patterns and the numbers drawn for the fields that are not set. *)

Lengths == {<< >>, <<0>>, <<5>>, <<12>>, <<13>>}
Patterns == {
    [unlockAll |-> unlockAll, fragment |-> [enable |-> << >>, maxSleepMs |-> other],
     nonce |-> [type |-> << >>, applyToAll |-> << >>, minLen |-> minLen, maxLen |-> maxLen, custom |-> << >>],
     padding |-> [middle |-> << >>, end |-> other], lowEntropy |-> [mode |-> << >>, rotation |-> other]] :
    unlockAll \in {<< >>, <<FALSE>>, <<TRUE>>}, minLen \in Lengths, maxLen \in Lengths, other \in {<< >>, <<16>>, <<17>>}}
Draws == {[hint \in {"enable", "maxSleepMs", "minLen", "type", "applyToAll", "maxLen", "middle", "end", "mode", "rotation"} |->
    IF hint = "minLen" THEN x ELSE IF hint = "maxLen" THEN y ELSE z] :
    x \in {0, 6, 12}, y \in {0, 6, 12}, z \in {0, 99, 127, 128, 129, 255}}

NonceFields == {"minLen", "maxLen", "type", "applyToAll"}

\* Whatever is drawn, the effective form of a valid pattern keeps what was
\* set, each generated field is one that validation accepts, and there is a
\* number of nonce bytes to rewrite that exceeds neither the maximum nor the
\* nonce, also when only the maximum was set and the minimum drawn is larger
\* (generateNoncePattern, nonceRewriteLen).
EffectiveUsable ==
    part = "pattern" /\ Validate(sample.pattern) =>
        LET pattern == sample.pattern
            effective == Effective(pattern, sample.draw)
        IN /\ validateTCPFragment(effective.fragment) /\ validatePaddingPattern(effective.padding)
           /\ validateLowEntropyPattern(effective.lowEntropy)
           /\ \A field \in NonceFields : pattern.nonce[field] # << >> => effective.nonce[field] = pattern.nonce[field]
           /\ validateNoncePattern([effective.nonce EXCEPT !.minLen = << >>])
           /\ validateNoncePattern([effective.nonce EXCEPT !.maxLen = << >>])
           /\ nonceRewriteLen(effective.nonce) # {}
           /\ nonceRewriteLen(effective.nonce) \subseteq 0 .. effective.nonce.maxLen[1]
           /\ nonceRewriteLen(effective.nonce) \subseteq 0 .. NonceSize

-----------------------------------------------------------------------------
(* Command lines: the words of each command or line of the help, with up   *)
(* to three arguments.                                                     *)

Line == INSTANCE CommandLine
Words(binary) ==
    {Line!Hooks(binary)[i].words : i \in DOMAIN Line!Hooks(binary)}
        \cup UNION {help.none \cup help.one : help \in {Line!clientHelp, Line!serverHelp}}

\* Every command that mieru or mita registers can be run, and the help tells
\* the truth about it (RegisterClientCommands, RegisterServerCommands,
\* ParseAndExecute, whose result depends on the order of registration).
CommandsRun == part = "line" => Line!EveryCommandRuns(sample.binary, sample.words, sample.args)

-----------------------------------------------------------------------------

MCInit ==
    /\ ControlInit /\ Client!ClientInit
    /\ \/ part \in {"server", "live", "client"} /\ sample = << >>
       \/ part = "share" /\ sample \in Profiles
       \/ part = "pattern" /\ sample \in [pattern : Patterns, draw : Draws]
       \/ part = "line" /\ \E binary \in {"mieru", "mita"} :
             sample \in [binary : {binary}, words : Words(binary), args : 0 .. 3]

MCNext ==
    /\ \/ part = "server" /\ ControlNext /\ OneAsks' /\ UNCHANGED clientVars
       \/ part = "live" /\ ControlNext /\ OneStops' /\ UNCHANGED clientVars
       \/ part = "client" /\ Client!ClientNext /\ UNCHANGED controlVars
    /\ UNCHANGED <<part, sample>>

MCSpec ==
    /\ MCInit /\ [][MCNext]_<<part, sample, controlVars, clientVars>>
    /\ LiveFairness /\ Client!ClientFairness

\* The configuration of the client stays usable: what is stored can be started
\* from, keeps the credentials, and a daemon that says RUNNING serves
\* (ClientFileUsable, CredentialsKept, RunningServes of ClientControl).
ClientFileUsable == Client!ClientFileUsable /\ Client!CredentialsKept /\ Client!RunningServes

\* What an administrator or a user gives the programs means the same to them
\* afterwards: the URLs of a profile (ShareRoundTrip), a traffic pattern
\* (EffectiveUsable), a command line (CommandsRun).
InputsUnderstood == ShareRoundTrip /\ EffectiveUsable /\ CommandsRun

\* What is told to end, ends: a proxy that was stopped gives its ports back, an
\* Exit ends the server's daemon, and the client's (StopReleases, ExitEnds of
\* ServerControl, ExitOfServerEnds of ClientControl).
ControlEnds == (part = "live" => StopReleases /\ ExitEnds) /\ Client!ExitOfServerEnds

=============================================================================
