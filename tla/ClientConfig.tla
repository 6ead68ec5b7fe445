---------------------------- MODULE ClientConfig ----------------------------
(***************************************************************************)
(* The configuration of the client (pkg/appctl/client.go): its validation, *)
(* the merging of a patch, the deletions, the multiplexer that a profile   *)
(* gives (pkg/appctl/appctlcommon/client.go), and the URLs that share a    *)
(* profile (pkg/appctl/url.go).                                            *)
(*                                                                         *)
(* A profile is [name, user, servers, mtu, trafficPattern, dialer,         *)
(* multiplexing, handshakeMode], the last five optional; a server          *)
(* [ip, domain, bindings], where an address that does not parse is "bad";  *)
(* a dialer [protocol, host, port, auth].  Profile names are numbers, as   *)
(* the code sorts them, and 0 is the empty one.  A hashed password that is *)
(* not hexadecimal is <<-1>>.                                              *)
(***************************************************************************)
EXTENDS TrafficPattern, SequencesExt

EmptyClientConfig ==
    [activeProfile |-> << >>, profiles |-> << >>, rpcPort |-> << >>, socks5Port |-> << >>, httpProxyPort |-> << >>,
     httpProxyListenLAN |-> << >>, socks5ListenLAN |-> << >>, socks5Auth |-> << >>, advancedSettings |-> << >>,
     loggingLevel |-> << >>]

ValidAuth(auth) == auth.user # "" /\ auth.password # ""

validateClientProfileDialer(dialer) ==
    /\ dialer.protocol = "SOCKS5" /\ dialer.host # "" /\ ValidPort(dialer.port)
    /\ \A auth \in ValueOf(dialer.auth) : ValidAuth(auth)

ValidServer(server) ==
    /\ server.ip # "" \/ server.domain # ""
    /\ server.ip # "bad"
    /\ server.bindings # << >> /\ ValidPortBindings(server.bindings)

ValidateClientConfigSingleProfile(profile) ==
    /\ profile.name # 0
    /\ ValidIdentity(profile.user)
    /\ profile.user.quotas = {}
    /\ profile.servers # << >>
    /\ \A i \in DOMAIN profile.servers : ValidServer(profile.servers[i])
    /\ ValidMTU(Get(profile.mtu, 0))
    /\ \A pattern \in ValueOf(profile.trafficPattern) : Validate(pattern)
    /\ \A d \in ValueOf(profile.dialer) : validateClientProfileDialer(d)

ValidateClientConfigPatch(patch) ==
    /\ \A i \in DOMAIN patch.profiles : ValidateClientConfigSingleProfile(patch.profiles[i])
    /\ \A i \in DOMAIN patch.socks5Auth : ValidAuth(patch.socks5Auth[i])
    /\ \A settings \in ValueOf(patch.advancedSettings) :
          \A d \in ValueOf(settings.metricsLoggingInterval) : d >= 1

ProfileNames(config) == {config.profiles[i].name : i \in DOMAIN config.profiles}

\* GetActiveProfileFromConfig: where the first profile of that name is.
ProfileOf(config, name) == SelectInSeq(config.profiles, LAMBDA profile : profile.name = name)

\* RPC port 0 disables the RPC server.
ValidateFullClientConfig(config) ==
    LET rpc == Get(config.rpcPort, 0)
        socks5 == Get(config.socks5Port, 0)
    IN /\ ValidateClientConfigPatch(config)
       /\ config.profiles # << >>
       /\ Get(config.activeProfile, 0) # 0
       /\ Get(config.activeProfile, 0) \in ProfileNames(config)
       /\ rpc \in 0 .. MaxPort /\ ValidPort(socks5) /\ rpc # socks5
       /\ \A http \in ValueOf(config.httpProxyPort) : ValidPort(http) /\ http # rpc /\ http # socks5

-----------------------------------------------------------------------------
(* Changing a configuration.                                               *)

\* The last profile of a name counts, and the result is sorted by name.
MergeProfiles(dst, src) ==
    LET all == dst \o src
        names == {all[i].name : i \in DOMAIN all}
        last(name) == SelectLastInSeq(all, LAMBDA profile : profile.name = name)
    IN [i \in 1 .. Cardinality(names) |-> all[last(SetToSortSeq(names, <)[i])]]

mergeClientConfigByProfile(dst, src) ==
    [activeProfile |-> <<Get(Override(dst.activeProfile, src.activeProfile), 0)>>,
     profiles |-> MergeProfiles(dst.profiles, src.profiles),
     rpcPort |-> Override(dst.rpcPort, src.rpcPort),
     socks5Port |-> <<Get(Override(dst.socks5Port, src.socks5Port), 0)>>,
     httpProxyPort |-> Override(dst.httpProxyPort, src.httpProxyPort),
     httpProxyListenLAN |-> Override(dst.httpProxyListenLAN, src.httpProxyListenLAN),
     socks5ListenLAN |-> Override(dst.socks5ListenLAN, src.socks5ListenLAN),
     socks5Auth |-> Override(dst.socks5Auth, src.socks5Auth),
     advancedSettings |-> Override(dst.advancedSettings, src.advancedSettings),
     loggingLevel |-> <<Get(Override(dst.loggingLevel, src.loggingLevel), "DEFAULT")>>]

WithoutProfile(config, name) ==
    [config EXCEPT !.profiles = SelectSeq(@, LAMBDA profile : profile.name # name)]

\* What StoreClientConfig writes.
StoredClient(config) ==
    [config EXCEPT !.profiles = [i \in DOMAIN @ |-> [@[i] EXCEPT !.user = HashUserPassword(@, TRUE)]]]

-----------------------------------------------------------------------------
(* NewClientMuxFromProfile.                                                *)

\* The host of a server: the domain name wins.
Host(server) == IF server.domain # "" THEN server.domain ELSE server.ip

clientEndpointsFromProfile(profile) ==
    UNION {{Host(profile.servers[i])} \X FlatPortBindings(profile.servers[i].bindings) : i \in DOMAIN profile.servers}

MultiplexFactor(level) ==
    CASE level = "OFF" -> 0 [] level = "MIDDLE" -> 2 [] level = "HIGH" -> 3 [] OTHER -> 1

\* It fails, after validation, only on a hashed password that is not
\* hexadecimal.
NewClientMuxFails(profile) == Credential(profile.user) = <<-1>>

NewClientMuxFromProfile(profile) ==
    [user |-> profile.user.name, credential |-> Credential(profile.user),
     endpoints |-> clientEndpointsFromProfile(profile), mtu |-> Get(profile.mtu, 0),
     factor |-> MultiplexFactor(Get(profile.multiplexing, "DEFAULT")), pattern |-> profile.trafficPattern,
     noWait |-> Get(profile.handshakeMode, "DEFAULT") = "NO_WAIT"]

-----------------------------------------------------------------------------
(* Sharing a profile: one URL for each server.  In the query the ports and *)
(* the protocols are two lists; a range goes before a port.                *)

SharedFirstPort(binding) == IF binding.range # << >> THEN <<binding.range[1]>> ELSE <<binding.port>>
SharedPort(binding) == IF binding.range # << >> THEN binding.range ELSE <<binding.port>>

SharedURL(profile, server) ==
    [user |-> profile.user.name, password |-> profile.user.password, host |-> Host(server), profile |-> profile.name,
     mtu |-> profile.mtu, multiplexing |-> profile.multiplexing, handshakeMode |-> profile.handshakeMode,
     trafficPattern |-> profile.trafficPattern,
     ports |-> [i \in DOMAIN server.bindings |-> SharedPort(server.bindings[i])],
     protocols |-> [i \in DOMAIN server.bindings |-> server.bindings[i].protocol]]

\* No URL at all if something is missing.
ClientProfileToMultiURLs(profile) ==
    IF /\ profile.name # 0 /\ profile.user.name # 0 /\ profile.user.password # 0
       /\ \A i \in DOMAIN profile.servers : Host(profile.servers[i]) # "" /\ profile.servers[i].bindings # << >>
    THEN [i \in DOMAIN profile.servers |-> SharedURL(profile, profile.servers[i])]
    ELSE << >>

ParsesURL(url) ==
    /\ url.user # 0 /\ url.password # 0 /\ url.host # "" /\ url.profile # 0
    /\ Len(url.ports) = Len(url.protocols)
    /\ \A i \in DOMAIN url.ports :
          LET port == url.ports[i]
          IN \A j \in DOMAIN port : ValidPort(port[j]) /\ port[1] <= port[j]

\* addresses is the set of hosts that parse as an IP address.
URLToClientProfile(url, addresses) ==
    [name |-> url.profile,
     user |-> [name |-> url.user, password |-> url.password, hashed |-> << >>, quotas |-> {}],
     servers |-> <<[ip |-> IF url.host \in addresses THEN url.host ELSE "",
                    domain |-> IF url.host \in addresses THEN "" ELSE url.host,
                    bindings |-> [i \in DOMAIN url.ports |->
                       [protocol |-> url.protocols[i],
                        port |-> IF Len(url.ports[i]) = 1 THEN url.ports[i][1] ELSE 0,
                        range |-> IF Len(url.ports[i]) = 1 THEN << >> ELSE url.ports[i]]]]>>,
     mtu |-> url.mtu, trafficPattern |-> url.trafficPattern, dialer |-> << >>,
     multiplexing |-> url.multiplexing, handshakeMode |-> url.handshakeMode]

=============================================================================
