------------------------------- MODULE Egress -------------------------------
(***************************************************************************)
(* What the socks5 server of the proxy server does with a request          *)
(* (pkg/socks5/egress.go), and how a socks5 server authenticates a         *)
(* connection (pkg/socks5/auth.go).                                        *)
(*                                                                         *)
(* A request is [command, ip, domain]: ip is optional, and a domain name   *)
(* is the sequence of its labels, << >> if the request has an address.     *)
(* Egress settings are as in ServerConfig.                                 *)
(***************************************************************************)
EXTENDS ServerConfig

CONSTANTS
    Lower(_),       \* strings.ToLower, of a label
    PrivateIPs,     \* the addresses that are private
    LoopbackIPs,    \* the addresses that are loopback
    LocalNames,     \* from well-known local domain names to a loopback address
    AllowLoopbackDestination    \* set by tests only: everyone may use loopback addresses

Private(ip) == ip \in PrivateIPs
Loopback(ip) == ip \in LoopbackIPs

\* The name without a trailing dot and in lower case.
Normalized(domain) ==
    LET trimmed == IF Len(domain) > 1 /\ domain[Len(domain)] = "" THEN SubSeq(domain, 1, Len(domain) - 1) ELSE domain
    IN [i \in DOMAIN trimmed |-> Lower(trimmed[i])]

\* The address that is checked, if any: the name is not looked up, unless it
\* is a well-known local name.
CheckedIP(req) ==
    IF req.ip # << >> THEN req.ip
    ELSE IF Normalized(req.domain) \in DOMAIN LocalNames THEN <<LocalNames[Normalized(req.domain)]>>
    ELSE << >>

\* users maps the names of the registered users to what they may reach:
\* [allowPrivate, allowLoopback]; an unknown user has the name "".
\* In the mutant either permission grants both.
RejectUnlessEither(users, user, req) ==
    /\ CheckedIP(req) # << >>
    /\ Private(CheckedIP(req)[1]) \/ Loopback(CheckedIP(req)[1])
    /\ user \in DOMAIN users => ~users[user].allowPrivate /\ ~users[user].allowLoopback

rejectPrivateAndLoopbackIPAction(users, user, req) ==
    /\ CheckedIP(req) # << >>
    /\ LET ip == CheckedIP(req)[1]
       IN /\ Private(ip) \/ Loopback(ip)
          /\ ~(Loopback(ip) /\ AllowLoopbackDestination)
          /\ \/ user \notin DOMAIN users
             \/ /\ ~(Private(ip) /\ users[user].allowPrivate)
                /\ ~(Loopback(ip) /\ users[user].allowLoopback)

MatchesDomain(domain, d) ==
    \/ d = <<"*">>
    \/ Len(d) <= Len(domain) /\ SubSeq(domain, Len(domain) - Len(d) + 1, Len(domain)) = d

\* An IP range that is * is << >>.
matchEgressRule(req, rule) ==
    IF req.ip # << >>
    THEN \E i \in DOMAIN rule.ipRanges : rule.ipRanges[i] = << >> \/ req.ip[1] \in rule.ipRanges[i][1]
    ELSE \E i \in DOMAIN rule.domainNames : MatchesDomain(req.domain, rule.domainNames[i])

Direct == [action |-> "DIRECT", proxy |-> << >>]
Reject == [action |-> "REJECT", proxy |-> << >>]

\* The first proxy of that name.
ProxyNamed(egress, name) ==
    LET found == {i \in DOMAIN egress.proxies : egress.proxies[i].name = name}
    IN IF found = {} THEN << >> ELSE <<egress.proxies[CHOOSE i \in found : \A j \in found : i <= j]>>

\* The actions that may be taken: of several proxies one is drawn.
RuleActions(egress, rule) ==
    IF rule.action = "PROXY" /\ rule.proxyNames # << >>
    THEN {[action |-> "PROXY", proxy |-> ProxyNamed(egress, rule.proxyNames[i])] : i \in DOMAIN rule.proxyNames}
    ELSE {[action |-> rule.action, proxy |-> << >>]}

forwardToProxyAction(egress, req) ==
    LET matching == {i \in DOMAIN egress.rules : matchEgressRule(req, egress.rules[i])}
    IN IF (req.ip = << >> /\ req.domain = << >>) \/ matching = {} THEN {Direct}
       ELSE RuleActions(egress, egress.rules[CHOOSE i \in matching : \A j \in matching : i <= j])

FindAction(egress, users, user, req) ==
    IF req.command \notin {"CONNECT", "UDP_ASSOCIATE"} THEN {Direct}
    ELSE IF rejectPrivateAndLoopbackIPAction(users, user, req) THEN {Reject}
    ELSE forwardToProxyAction(egress, req)

-----------------------------------------------------------------------------

\* handleAuthentication, up to the choice of a method: the answer to the
\* methods that the peer offers, where "none" closes without an answer.
ChosenMethod(offered, credentials) ==
    CASE offered \cap {"NO_AUTH", "USER_PASS"} = {} -> "NO_ACCEPTABLE"
      [] "NO_AUTH" \in offered /\ credentials = {} -> "NO_AUTH"
      [] "USER_PASS" \in offered /\ credentials # {} -> "USER_PASS"
      [] OTHER -> "none"

=============================================================================
