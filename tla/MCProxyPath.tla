---------------------------- MODULE MCProxyPath -----------------------------
(* The path of an application's traffic, for TLC: the dials of the client  *)
(* multiplexer, one proxied TCP connection, one UDP association, and one   *)
(* connection of programs that use the Go API.  They do not share state; a *)
(* behaviour is about one of them.                                         *)
EXTENDS MuxClient, ApiConn

CONSTANTS MaxData, Window, MaxSent, MaxAnswers

VARIABLES
    part,    \* which of them, never changes
    live,    \* whether liveness is asked for, never changes
    setup, app, handler, action, remote, link,
    mode, ctl, tunnel, sock, mieru, server, egress, sent, answers, delivered, faulty

relayVars == <<setup, app, handler, action, remote, link>>
udpVars == <<mode, ctl, tunnel, sock, mieru, server, egress, sent, answers, delivered, faulty>>
pathVars == <<vars, part, live, relayVars, udpVars, apiVars>>

Live(p) == live /\ part = p

-----------------------------------------------------------------------------
(* One TCP connection.  The configurations differ in the handshake mode,   *)
(* in who authenticates, in the credentials, in the egress rules and in    *)
(* what the user may reach.  The invalid rules are never used.             *)

MCLower(label) == IF label = "LOCALHOST" THEN "localhost" ELSE label
MCLocalNames == [name \in {<<"localhost">>} |-> "127.0.0.1"]

EgressProxy == [name |-> "p", protocol |-> "SOCKS5", host |-> "h", port |-> 1, user |-> "", password |-> ""]
Rule(ips, names, act, proxies) == [ipRanges |-> ips, domainNames |-> names, action |-> act, proxyNames |-> proxies]
NoRules == [proxies |-> << >>, rules |-> << >>]
Rules == [proxies |-> <<EgressProxy>>,
          rules |-> <<Rule(<< >>, <<<<"blocked">>>>, "REJECT", << >>), Rule(<<<< >>>>, <<<<"*">>>>, "PROXY", <<"p">>)>>]
InvalidRules == [proxies |-> <<EgressProxy>>, rules |-> <<Rule(<<<< >>>>, <<<<"*">>>>, "PROXY", <<"p", "q">>)>>]

Users == [u \in {"u", "v"} |-> [allowPrivate |-> u = "v", allowLoopback |-> FALSE]]
S(noWait, clientAuth, credentials, rules, user) ==
    [noWait |-> noWait, clientAuth |-> clientAuth, credentials |-> credentials, egress |-> rules,
     users |-> Users, user |-> user]
MCSetups == {
    S(FALSE, TRUE, {}, NoRules, "u"), S(TRUE, TRUE, {}, NoRules, "v"), S(FALSE, TRUE, {"c"}, Rules, "u"),
    S(TRUE, TRUE, {}, Rules, ""), S(FALSE, FALSE, {}, Rules, "v"), S(FALSE, FALSE, {"c"}, InvalidRules, "u"),
    S(FALSE, FALSE, {"c"}, NoRules, "u")}

Req(command, ip, domain) == [command |-> command, ip |-> ip, domain |-> domain]
MCRequests == {
    Req("CONNECT", <<"10.0.0.1">>, << >>), Req("CONNECT", << >>, <<"LOCALHOST", "">>),
    Req("CONNECT", << >>, <<"www", "blocked">>), Req("CONNECT", <<"1.1.1.1">>, << >>),
    Req("BIND", <<"1.1.1.1">>, << >>)}

Relay == INSTANCE Socks5Relay WITH
    target <- remote, Setups <- MCSetups, Requests <- MCRequests, AppCredentials <- {"c", "d"}, Addresses <- {"1.1.1.1"},
    Lower <- MCLower, PrivateIPs <- {"10.0.0.1"}, LoopbackIPs <- {"127.0.0.1"}, LocalNames <- MCLocalNames,
    AllowLoopbackDestination <- FALSE, MaxPort <- 2, MaxUserNameLen <- 2, MaxPasswordLen <- 2

\* RelayFairness.
RelayRuns ==
    /\ WF_relayVars(Live("relay") /\ Relay!ClientStep) /\ WF_relayVars(Live("relay") /\ Relay!ServerStep)
    /\ \A h \in Relay!Handlers :
        /\ WF_relayVars(Live("relay") /\ (\/ Relay!handleAuthentication(h) \/ Relay!VerifyCredential(h)
                                           \/ Relay!HandshakeFails(h) \/ Relay!CopyReturns(h)))
        /\ \A d \in Relay!Directions :
            WF_relayVars(Live("relay") /\ (Relay!CopyReads(h, d) \/ Relay!CopyWrites(h, d) \/ Relay!CopyEnds(h, d)))
    /\ WF_relayVars(Live("relay") /\ Relay!AppReads)
    /\ WF_relayVars(Live("relay") /\ Relay!TargetReads /\ action.rule[1].action = "DIRECT")

\* What application and target send reaches the other in order and from the start,
\* with one reply before it, and an application that is told that it is connected is
\* (UplinkIntact, DownlinkIntact, SuccessMeansConnected).
RelayIntact == Relay!UplinkIntact /\ Relay!DownlinkIntact /\ Relay!SuccessMeansConnected

\* No request goes further than the credentials and the rules allow
\* (OnlyAuthenticated, EgressGuarded).
RequestAllowed == Relay!OnlyAuthenticated /\ Relay!EgressGuarded

-----------------------------------------------------------------------------
(* One UDP association.  One name resolves to one of the two addresses,    *)
(* the other one cannot be resolved.                                       *)

MCResolved == [name \in {"name", "nx"} |-> IF name = "name" THEN "a" ELSE "fails"]

UDP == INSTANCE Socks5UDP WITH
    client <- mieru, Modes <- {"associate", "forward", "datagram"}, Endpoints <- {"e1", "e2"}, Addresses <- {"a", "b"},
    Names <- {"name", "nx"}, Resolved <- MCResolved

\* UDPFairness.
UDPRuns ==
    /\ WF_udpVars(Live("udp") /\ (UDP!ClientAssociates \/ UDP!ClientTimesOut \/ UDP!BidiCopyUDP))
    /\ WF_udpVars(Live("udp") /\ UDP!ControlEnds)
    /\ WF_udpVars(Live("udp") /\ UDP!ClientUp) /\ WF_udpVars(Live("udp") /\ UDP!ClientDown)
    /\ WF_udpVars(Live("udp") /\ (UDP!ServerStarts \/ UDP!LoopReturns))
    /\ WF_udpVars(Live("udp") /\ UDP!ServerUp) /\ WF_udpVars(Live("udp") /\ UDP!ServerDown)
    /\ WF_udpVars(Live("udp") /\ UDP!ServerMonitor)

\* An association serves one endpoint, names the sources of its answers, and does not
\* take the process down when it ends (OneEndpoint, AnswersNamed, PanicOnlyAfterFault).
AssociationKept == UDP!OneEndpoint /\ UDP!AnswersNamed /\ UDP!PanicOnlyAfterFault

-----------------------------------------------------------------------------
(* One connection of the Go API, used by two goroutines.                   *)

\* ApiFairness.
ApiRuns == \A g \in Callers : WF_apiVars(Live("api") /\ CallStep(g))

-----------------------------------------------------------------------------

\* Fairness.
DialsRun ==
    /\ WF_vars(Live("dial") /\ Tick) /\ WF_vars(Live("dial") /\ Maintain({}))
    /\ \A u \in Underlays : WF_vars(Live("dial") /\ CleanSessions(u))
    /\ \A u \in Underlays : WF_vars(Live("dial") /\ underlay[u] = "closed" /\ EndEventLoop(u))
    /\ \A d \in Dialers : WF_vars(Live("dial") /\ DialStep(d)) /\ WF_vars(Live("dial") /\ NewUnderlayFails(d))

\* Whatever has ended is given up: an underlay that no dial uses is closed, a
\* connection that one side has left and an association that is over are released,
\* requests are answered, and calls on a closed connection return (UnusedIsClosed,
\* Released, Answered, UDPReleased, CloseEndsCalls).
AllGivenUp ==
    /\ Live("dial") => UnusedIsClosed
    /\ Live("relay") => Relay!Released /\ Relay!Answered
    /\ Live("udp") => UDP!UDPReleased
    /\ Live("api") => CloseEndsCalls

\* What is not in the behaviour stays at one of its initial states.
MCInit ==
    /\ part \in {"dial", "relay", "udp", "api"} /\ live \in BOOLEAN
    /\ Init /\ Relay!RelayInit /\ UDP!UDPInit /\ ApiInit
    /\ part # "relay" => setup = S(FALSE, TRUE, {}, NoRules, "u")
    /\ part # "udp" => mode = "associate"

\* Smaller instances for liveness: no stop of the client and no network errors, one
\* message in each direction, one datagram, one call of each goroutine.  The endpoints
\* are alike: the first datagram is from the first.
Smaller ==
    /\ running' /\ \A u \in Underlays : underlay'[u] = "closed" => u \in cleaned'
    /\ app'.sent <= 1 /\ remote'.sent <= 1
    /\ Len(sent') <= 1
    /\ \A g \in Callers : call'[g].n <= 1
FirstEndpoint == sent' # << >> => sent'[1].from = "e1"

MCNext ==
    /\ \/ part = "dial" /\ Next /\ UNCHANGED <<part, live, relayVars, udpVars, apiVars>>
       \/ part = "relay" /\ Relay!RelayNext /\ UNCHANGED <<vars, part, live, udpVars, apiVars>>
       \/ part = "udp" /\ UDP!UDPNext /\ FirstEndpoint /\ UNCHANGED <<vars, part, live, relayVars, apiVars>>
       \/ part = "api" /\ ApiNext /\ UNCHANGED <<vars, part, live, relayVars, udpVars>>
    /\ live => Smaller

MCSpec == MCInit /\ [][MCNext]_pathVars /\ DialsRun /\ RelayRuns /\ UDPRuns /\ ApiRuns

=============================================================================
