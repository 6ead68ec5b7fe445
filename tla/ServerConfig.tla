---------------------------- MODULE ServerConfig ----------------------------
(***************************************************************************)
(* The configuration of the server (pkg/appctl/server.go): which patches   *)
(* and which complete configurations are valid, and what merging a patch,  *)
(* deleting users and storing do to it.                                    *)
(*                                                                         *)
(* The list of users is a function from names to users: of two users with  *)
(* the same name the later one counts (UserListToMap).  A domain name is   *)
(* the sequence of its labels, so that a leading or trailing dot is an     *)
(* empty label.  An IP range is << >> for *, and otherwise a sequence of   *)
(* one element: the set of its addresses, {} if it does not parse.         *)
(***************************************************************************)
EXTENDS TrafficPattern

EmptyServerConfig ==
    [listenIPAddress |-> << >>, portBindings |-> << >>, users |-> << >>, advancedSettings |-> << >>,
     loggingLevel |-> << >>, mtu |-> << >>, egress |-> << >>, dns |-> << >>, trafficPattern |-> << >>]

IsUser(name, user) ==
    user = [name |-> name, password |-> user.password, hashed |-> user.hashed, quotas |-> user.quotas]

\* The form of a configuration: its users are listed under their names.
IsServerConfig(config) ==
    /\ config = [listenIPAddress |-> config.listenIPAddress, portBindings |-> config.portBindings,
                 users |-> config.users, advancedSettings |-> config.advancedSettings,
                 loggingLevel |-> config.loggingLevel, mtu |-> config.mtu, egress |-> config.egress,
                 dns |-> config.dns, trafficPattern |-> config.trafficPattern]
    /\ config.users = [name \in DOMAIN config.users |-> config.users[name]]
    /\ \A name \in DOMAIN config.users : IsUser(name, config.users[name])

ValidateServerListenIPAddress(address) == address \in {"", "IPv4", "IPv6"}

ParsesTCPIdleTimeout(timeout) == timeout = << >> \/ timeout[1] >= 60

ValidateServerConfigSingleUser(user) ==
    /\ ValidIdentity(user)
    /\ \A quota \in user.quotas : quota[1] > 0 /\ quota[2] > 0

DotFree(domain) == domain[1] # "" /\ domain[Len(domain)] # ""

\* hosts lists pairs <<domain, address>>, the domain names trimmed and in lower
\* case, so that two entries may collide; the address is "" if it does not parse.
TransformDNSHosts(hosts) ==
    /\ \A i \in DOMAIN hosts : hosts[i][1] # << >> /\ DotFree(hosts[i][1]) /\ hosts[i][2] # ""
    /\ \A i, j \in DOMAIN hosts : hosts[i][1] = hosts[j][1] => i = j

ValidEgressProxy(proxy) ==
    /\ proxy.name # "" /\ proxy.protocol # "UNKNOWN" /\ proxy.host # "" /\ ValidPort(proxy.port)
    /\ (proxy.user = "") <=> (proxy.password = "")

ValidEgressRule(rule, proxies) ==
    /\ \A i \in DOMAIN rule.ipRanges : rule.ipRanges[i] # <<{}>>
    /\ \A i \in DOMAIN rule.domainNames : rule.domainNames[i] # << >> /\ DotFree(rule.domainNames[i])
    /\ IF rule.action = "PROXY"
       THEN /\ rule.proxyNames # << >>
            /\ \A i \in DOMAIN rule.proxyNames : \E j \in DOMAIN proxies : proxies[j].name = rule.proxyNames[i]
       ELSE rule.proxyNames = << >>

ValidEgress(egress) ==
    /\ \A i \in DOMAIN egress.proxies : ValidEgressProxy(egress.proxies[i])
    /\ \A i, j \in DOMAIN egress.proxies : egress.proxies[i].name = egress.proxies[j].name => i = j
    /\ \A i \in DOMAIN egress.rules : ValidEgressRule(egress.rules[i], egress.proxies)

ValidAdvancedSettings(settings) ==
    /\ settings.metricsLoggingInterval = << >> \/ settings.metricsLoggingInterval[1] >= 1
    /\ ParsesTCPIdleTimeout(settings.tcpIdleTimeout)

ValidateServerConfigPatch(patch) ==
    /\ ValidateServerListenIPAddress(Get(patch.listenIPAddress, ""))
    /\ ValidPortBindings(patch.portBindings)
    /\ \A name \in DOMAIN patch.users : ValidateServerConfigSingleUser(patch.users[name])
    /\ ValidMTU(Get(patch.mtu, 0))
    /\ \A egress \in ValueOf(patch.egress) : ValidEgress(egress)
    /\ \A dns \in ValueOf(patch.dns) : TransformDNSHosts(dns)
    /\ \A settings \in ValueOf(patch.advancedSettings) : ValidAdvancedSettings(settings)
    /\ \A pattern \in ValueOf(patch.trafficPattern) : Validate(pattern)

ValidateFullServerConfig(config) ==
    /\ ValidateServerConfigPatch(config)
    /\ config # EmptyServerConfig
    /\ config.portBindings # << >>

-----------------------------------------------------------------------------

\* dst with the users of src added or replacing those of the same name.
MergeUsers(dst, src) ==
    [name \in DOMAIN dst \cup DOMAIN src |-> IF name \in DOMAIN src THEN src[name] ELSE dst[name]]

MergeServerConfig(dst, src) ==
    [listenIPAddress |-> Override(dst.listenIPAddress, src.listenIPAddress),
     portBindings |-> Override(dst.portBindings, src.portBindings),
     users |-> MergeUsers(dst.users, src.users),
     advancedSettings |-> Override(dst.advancedSettings, src.advancedSettings),
     loggingLevel |-> <<Get(Override(dst.loggingLevel, src.loggingLevel), "DEFAULT")>>,
     mtu |-> <<Get(Override(dst.mtu, src.mtu), 0)>>,
     egress |-> Override(dst.egress, src.egress),
     dns |-> Override(dst.dns, src.dns),
     trafficPattern |-> Override(dst.trafficPattern, src.trafficPattern)]

\* serverDeleteUserFunc
DeleteUsers(config, names) ==
    [config EXCEPT !.users = [name \in DOMAIN config.users \ names |-> config.users[name]]]

\* What StoreServerConfig writes.
Stored(config) ==
    [config EXCEPT !.users = [name \in DOMAIN config.users |-> HashUserPassword(config.users[name], FALSE)]]

=============================================================================
