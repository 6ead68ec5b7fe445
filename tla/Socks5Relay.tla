---------------------------- MODULE Socks5Relay ----------------------------
(***************************************************************************)
(* The life of one proxied TCP connection (pkg/socks5): an application     *)
(* speaks socks5 with the handler in the proxy client, which talks through *)
(* a session of the mux with the handler in the proxy server, which        *)
(* connects to the target or to an egress proxy.                           *)
(*                                                                         *)
(*   application --user-- client handler --tunnel-- server handler         *)
(*       --egress-- target or egress proxy                                 *)
(*                                                                         *)
(* A link is two queues of messages, up towards the target and down        *)
(* towards the application, with a near and a far end that are open or     *)
(* closed. A message stands for the bytes of one step of the protocol;     *)
(* data are numbered in the order in which they are sent.                  *)
(*                                                                         *)
(* Requests of an unknown address type end at the client, which cannot     *)
(* parse them. UDP associations are in Socks5UDP.                          *)
(***************************************************************************)
EXTENDS Egress

CONSTANTS
    Setups,         \* configurations: [noWait, clientAuth, credentials, egress, users, user]
    Requests,       \* the requests the application may make
    AppCredentials, \* the credentials the application may present
    Addresses,      \* what a domain name may resolve to
    MaxData,        \* bound: data sent in each direction
    Window          \* bound: messages in a queue before a write blocks

VARIABLES
    setup,      \* the configuration, which does not change
    app,        \* the application: its step, the data sent, what it got, its credential and request
    handler,    \* of both handlers: step, copiers, bytes held by the copiers
    action,     \* the egress action of the server handler, the address connected to
    target,     \* the target or egress proxy: data sent, what it got, its reply
    link        \* the three links

relayVars == <<setup, app, handler, action, target, link>>

Handlers == {"client", "server"}
Directions == {"up", "down"}
In(h) == IF h = "client" THEN "user" ELSE "tunnel"
Out(h) == IF h = "client" THEN "tunnel" ELSE "egress"
From(h, d) == IF d = "up" THEN In(h) ELSE Out(h)
To(h, d) == IF d = "up" THEN Out(h) ELSE In(h)

Msg(kind, val) == [kind |-> kind, val |-> val]
Unopened == [up |-> << >>, down |-> << >>, near |-> FALSE, far |-> FALSE]
Opened == [Unopened EXCEPT !.near = TRUE, !.far = TRUE]

\* The end that sends in a direction, and the one that receives.
Sender(d) == IF d = "up" THEN "near" ELSE "far"
Receiver(d) == IF d = "up" THEN "far" ELSE "near"

Readable(l, d) == link[l][Receiver(d)] /\ link[l][d] # << >>
ReadFails(l, d) == ~link[l][Receiver(d)] \/ (link[l][d] = << >> /\ ~link[l][Sender(d)])
WriteFails(l, d) == ~link[l].near \/ ~link[l].far
Writable(l, d) == ~WriteFails(l, d) /\ Len(link[l][d]) < Window

\* Links after a message is taken, sent (lost if an end is closed), an end is closed.
Taken(ls, l, d) == [ls EXCEPT ![l][d] = Tail(@)]
Sent(ls, l, d, msgs) == IF ls[l].near /\ ls[l].far THEN [ls EXCEPT ![l][d] = @ \o msgs] ELSE ls
Closed(ls, l, end) == [ls EXCEPT ![l][end] = FALSE]

\* A handler that copies nothing yet.
Handler(pc) == [pc |-> pc, up |-> "done", down |-> "done", held |-> [d \in Directions |-> << >>]]

RelayInit ==
    /\ setup \in {s \in Setups : ValidEgress(s.egress)}
    /\ app = [pc |-> "start", sent |-> 0, got |-> << >>, cred |-> << >>, request |-> << >>]
    /\ handler = [h \in Handlers |-> Handler(IF h = "server" THEN "none" ELSE IF setup.clientAuth THEN "auth" ELSE "dial")]
    /\ action = [rule |-> << >>, dst |-> << >>]
    /\ target = [sent |-> 0, got |-> << >>, reply |-> << >>]
    /\ link = [l \in {"user", "tunnel", "egress"} |-> IF l = "user" THEN Opened ELSE Unopened]

-----------------------------------------------------------------------------
\* The application, which may be the ClientDialer of the repository.

AppWrites(msg, pc) ==
    /\ Writable("user", "up")
    /\ link' = Sent(link, "user", "up", <<msg>>)
    /\ app' = [app EXCEPT !.pc = pc]

AppOffers ==
    /\ app.pc = "start"
    /\ \E methods \in SUBSET {"NO_AUTH", "USER_PASS", "OTHER"} \ {{}} : AppWrites(Msg("methods", methods), "method")
    /\ UNCHANGED <<setup, handler, action, target>>

AppChoice ==
    /\ app.pc = "method" /\ Readable("user", "down")
    /\ CASE Head(link["user"].down).val = "NO_AUTH" ->
                app' = [app EXCEPT !.pc = "request"] /\ link' = Taken(link, "user", "down")
         [] Head(link["user"].down).val = "USER_PASS" ->
                \E c \in AppCredentials :
                    /\ app' = [app EXCEPT !.pc = "authed", !.cred = <<c>>]
                    /\ link' = Sent(Taken(link, "user", "down"), "user", "up", <<Msg("cred", c)>>)
         [] OTHER ->
                app' = [app EXCEPT !.pc = "closed"] /\ link' = Closed(link, "user", "near")
    /\ UNCHANGED <<setup, handler, action, target>>

AppAuthed ==
    /\ app.pc = "authed" /\ Readable("user", "down")
    /\ link' = Taken(link, "user", "down")
    /\ app' = [app EXCEPT !.pc = IF Head(link["user"].down).val THEN "request" ELSE "failed"]
    /\ UNCHANGED <<setup, handler, action, target>>

AppRequests ==
    /\ app.pc = "request" /\ Writable("user", "up")
    /\ \E r \in Requests :
        /\ app' = [app EXCEPT !.pc = "reply", !.request = <<r>>]
        /\ link' = Sent(link, "user", "up", <<Msg("request", r)>>)
    /\ UNCHANGED <<setup, handler, action, target>>

AppReads ==
    /\ app.pc \in {"reply", "open"} /\ Readable("user", "down")
    /\ LET msg == Head(link["user"].down)
       IN app' = [app EXCEPT !.got = Append(@, msg),
                             !.pc = IF @ = "open" \/ msg = Msg("reply", "SUCCESS") THEN "open" ELSE "failed"]
    /\ link' = Taken(link, "user", "down")
    /\ UNCHANGED <<setup, handler, action, target>>

AppSends ==
    /\ app.pc = "open" /\ app.sent < MaxData /\ Writable("user", "up")
    /\ link' = Sent(link, "user", "up", <<Msg("data", app.sent + 1)>>)
    /\ app' = [app EXCEPT !.sent = @ + 1]
    /\ UNCHANGED <<setup, handler, action, target>>

\* It is done, gives up, or its dial is cancelled.
AppCloses ==
    /\ app.pc # "closed"
    /\ app' = [app EXCEPT !.pc = "closed"]
    /\ link' = Closed(link, "user", "near")
    /\ UNCHANGED <<setup, handler, action, target>>

AppStep == AppOffers \/ AppChoice \/ AppAuthed \/ AppRequests \/ AppReads \/ AppSends

-----------------------------------------------------------------------------
\* Both handlers.

Goto(h, pc) == handler' = [handler EXCEPT ![h].pc = pc]

\* ServeConn closes its connection; whatever was dialled is closed as well.
Returned(h, ls) == Closed(Closed(ls, In(h), "far"), Out(h), "near")
Returns(h, ls) == Goto(h, "closed") /\ link' = Returned(h, ls)

\* The handler sends an answer towards the application and goes on, or
\* returns if the write fails.
Answers(h, ls, msg, pc) ==
    IF WriteFails(In(h), "down") THEN Returns(h, ls)
    ELSE Goto(h, pc) /\ link' = Sent(ls, In(h), "down", <<msg>>)
AnswersAndReturns(h, ls, msg) == Returns(h, Sent(ls, In(h), "down", <<msg>>))

Authenticated(h) == IF h = "client" THEN "dial" ELSE "request"

handleAuthentication(h) ==
    /\ handler[h].pc = "auth" /\ Readable(In(h), "up")
    /\ LET method == ChosenMethod(Head(link[In(h)].up).val, setup.credentials)
           ls == Taken(link, In(h), "up")
       IN CASE method = "none" -> Returns(h, ls)
            [] method = "NO_ACCEPTABLE" -> AnswersAndReturns(h, ls, Msg("method", method))
            [] method = "NO_AUTH" -> Answers(h, ls, Msg("method", method), Authenticated(h))
            [] OTHER -> Answers(h, ls, Msg("method", method), "cred")
    /\ UNCHANGED <<setup, app, action, target>>

VerifyCredential(h) ==
    /\ handler[h].pc = "cred" /\ Readable(In(h), "up")
    /\ LET msg == Head(link[In(h)].up)
           ls == Taken(link, In(h), "up")
       IN IF msg.val \in setup.credentials THEN Answers(h, ls, Msg("authed", TRUE), Authenticated(h))
          ELSE AnswersAndReturns(h, ls, Msg("authed", FALSE))
    /\ UNCHANGED <<setup, app, action, target>>

\* A read of the handshake fails, or takes longer than HandshakeTimeout.  The
\* mutant does not watch what it reads from the tunnel.
ReadingInOnly(h) ==
    IF handler[h].pc \in {"auth", "cred", "methods", "request"} THEN <<In(h), "up">> ELSE << >>

Reading(h) == CASE handler[h].pc \in {"auth", "cred", "methods", "request"} -> <<In(h), "up">>
                [] handler[h].pc \in {"choice", "reply"} -> <<Out(h), "down">>
                [] OTHER -> << >>

\* A session keeps a read deadline for one read: the second read of the
\* authentication is not limited there.
Limited(h) == ~(h = "server" /\ handler[h].pc = "cred")

HandshakeFails(h) ==
    /\ Reading(h) # << >>
    /\ Limited(h) \/ ReadFails(Reading(h)[1], Reading(h)[2])
    /\ Returns(h, link)
    /\ UNCHANGED <<setup, app, action, target>>

-----------------------------------------------------------------------------
\* BidiCopy and BidiCopySocks5: one copier for each direction.

Copying(state) == [Handler("copy") EXCEPT !.up = state, !.down = state]

\* The request that the client still has to send.
Pending == IF app.request[1].command = "CONNECT" THEN <<Msg("request", app.request[1])>> ELSE << >>

\* In HANDSHAKE_NO_WAIT mode the first message up follows the pending request,
\* and the first message down, the reply of the server, is dropped.  The
\* mutant drops nothing.
CopyReadsDropsNothing(h, d) ==
    /\ handler[h][d] \in {"first", "copy"} /\ handler[h].held[d] = << >>
    /\ Readable(From(h, d), d)
    /\ link' = Taken(link, From(h, d), d)
    /\ handler' = [handler EXCEPT ![h][d] = "copy",
                                  ![h].held[d] = IF handler[h][d] = "first" /\ d = "up"
                                                 THEN Pending \o <<Head(link[From(h, d)][d])>>
                                                 ELSE <<Head(link[From(h, d)][d])>>]
    /\ UNCHANGED <<setup, app, action, target>>

CopyReads(h, d) ==
    LET msg == Head(link[From(h, d)][d])
    IN /\ handler[h][d] \in {"first", "copy"} /\ handler[h].held[d] = << >>
       /\ Readable(From(h, d), d)
       /\ link' = Taken(link, From(h, d), d)
       /\ handler' = [handler EXCEPT ![h][d] = "copy",
                                     ![h].held[d] = IF handler[h][d] = "copy" THEN <<msg>>
                                                    ELSE IF d = "down" THEN << >>
                                                    ELSE Pending \o <<msg>>]
       /\ UNCHANGED <<setup, app, action, target>>

CopyWrites(h, d) ==
    /\ handler[h].held[d] # << >>
    /\ Writable(To(h, d), d)
    /\ link' = Sent(link, To(h, d), d, handler[h].held[d])
    /\ handler' = [handler EXCEPT ![h].held[d] = << >>]
    /\ UNCHANGED <<setup, app, action, target>>

\* A write to an egress proxy that takes longer than forwardingWriteTimeout fails.
WriteTimesOut(h, d) == h = "server" /\ d = "up" /\ action.rule[1].action = "PROXY"

CopyEnds(h, d) ==
    /\ handler[h][d] # "done"
    /\ IF handler[h].held[d] = << >> THEN ReadFails(From(h, d), d)
       ELSE WriteFails(To(h, d), d) \/ (~Writable(To(h, d), d) /\ WriteTimesOut(h, d))
    /\ handler' = [handler EXCEPT ![h][d] = "done", ![h].held[d] = << >>]
    /\ link' = Closed(link, To(h, d), Sender(d))
    /\ UNCHANGED <<setup, app, action, target>>

CopyReturns(h) ==
    /\ handler[h].pc = "copy" /\ \A d \in Directions : handler[h][d] = "done"
    /\ Returns(h, link)
    /\ UNCHANGED <<setup, app, action, target>>

-----------------------------------------------------------------------------
\* The handler of the proxy client.

ClientDials ==
    /\ handler["client"].pc = "dial"
    /\ \/ Goto("client", IF setup.clientAuth THEN "request" ELSE "methods") /\ link' = [link EXCEPT !["tunnel"] = Opened]
       \/ Returns("client", link)
    /\ UNCHANGED <<setup, app, action, target>>

proxySocks5AuthReq ==
    /\ \/ /\ handler["client"].pc = "methods" /\ Readable("user", "up")
          /\ IF WriteFails("tunnel", "up") THEN Returns("client", link)
             ELSE /\ Goto("client", "choice")
                  /\ link' = Sent(Taken(link, "user", "up"), "tunnel", "up", <<Head(link["user"].up)>>)
       \/ /\ handler["client"].pc = "choice" /\ Readable("tunnel", "down")
          /\ Answers("client", Taken(link, "tunnel", "down"), Head(link["tunnel"].down), "request")
    /\ UNCHANGED <<setup, app, action, target>>

\* In HANDSHAKE_NO_WAIT mode the client answers on its own, and the request
\* goes out together with the first data of the application.
proxySocks5ConnReq ==
    /\ handler["client"].pc = "request" /\ Readable("user", "up")
    /\ LET msg == Head(link["user"].up)
           ls == Taken(link, "user", "up")
       IN IF msg.kind # "request" THEN Returns("client", ls)
          ELSE IF setup.noWait /\ msg.val.command = "CONNECT"
          THEN IF WriteFails("user", "down") THEN Returns("client", ls)
               ELSE /\ handler' = [handler EXCEPT !["client"] = Copying("first")]
                    /\ link' = Sent(ls, "user", "down", <<Msg("reply", "SUCCESS")>>)
          ELSE IF WriteFails("tunnel", "up") THEN Returns("client", ls)
          ELSE Goto("client", "reply") /\ link' = Sent(ls, "tunnel", "up", <<msg>>)
    /\ UNCHANGED <<setup, app, action, target>>

ClientReplies ==
    /\ handler["client"].pc = "reply" /\ Readable("tunnel", "down")
    /\ LET ls == Taken(link, "tunnel", "down")
       IN IF WriteFails("user", "down") THEN Returns("client", ls)
          ELSE /\ handler' = [handler EXCEPT !["client"] = Copying(IF setup.noWait THEN "first" ELSE "copy")]
               /\ link' = Sent(ls, "user", "down", <<Head(link["tunnel"].down)>>)
    /\ UNCHANGED <<setup, app, action, target>>

-----------------------------------------------------------------------------
\* The handler of the proxy server.

acceptLoop ==
    /\ handler["server"].pc = "none" /\ handler["client"].pc # "dial" /\ link["tunnel"].far
    /\ Goto("server", IF setup.clientAuth THEN "request" ELSE "auth")
    /\ UNCHANGED <<setup, app, action, target, link>>

\* readRequest and FindAction.
serverServeConn ==
    /\ handler["server"].pc = "request" /\ Readable("tunnel", "up")
    /\ LET msg == Head(link["tunnel"].up)
           ls == Taken(link, "tunnel", "up")
       IN IF msg.kind # "request" THEN Returns("server", ls) /\ UNCHANGED action
          ELSE \E rule \in FindAction(setup.egress, setup.users, setup.user, msg.val) :
                /\ action' = [rule |-> <<rule>>, dst |-> msg.val.ip]
                /\ CASE rule.action = "DIRECT" ->
                            Goto("server", IF msg.val.ip = << >> THEN "resolve" ELSE "command") /\ link' = ls
                     [] rule.action = "PROXY" ->
                            IF rule.proxy = << >> THEN Returns("server", ls)
                            ELSE Goto("server", "forward") /\ link' = ls
                     [] OTHER -> AnswersAndReturns("server", ls, Msg("reply", "NOT_ALLOWED"))
    /\ UNCHANGED <<setup, app, target>>

\* The start of handleRequest.
Resolve ==
    /\ handler["server"].pc = "resolve"
    /\ \/ \E ip \in Addresses :
            action' = [action EXCEPT !.dst = <<ip>>] /\ Goto("server", "command") /\ UNCHANGED link
       \/ \E code \in {"HOST_UNREACHABLE", "NETWORK_UNREACHABLE"} :
            AnswersAndReturns("server", link, Msg("reply", code)) /\ UNCHANGED action
    /\ UNCHANGED <<setup, app, target>>

handleConnect ==
    /\ handler["server"].pc = "command" /\ app.request[1].command = "CONNECT"
    /\ \/ IF WriteFails("tunnel", "down") THEN Returns("server", link)
          ELSE /\ handler' = [handler EXCEPT !["server"] = Copying("copy")]
               /\ link' = Sent([link EXCEPT !["egress"] = Opened], "tunnel", "down", <<Msg("reply", "SUCCESS")>>)
       \/ \E code \in {"REFUSED", "NETWORK_UNREACHABLE", "HOST_UNREACHABLE"} :
            AnswersAndReturns("server", link, Msg("reply", code))
    /\ UNCHANGED <<setup, app, action, target>>

\* handleBind, and the commands that handleRequest does not know.
handleBind ==
    /\ handler["server"].pc = "command" /\ app.request[1].command \notin {"CONNECT", "UDP_ASSOCIATE"}
    /\ AnswersAndReturns("server", link, Msg("reply", "NOT_SUPPORTED"))
    /\ UNCHANGED <<setup, app, action, target>>

\* The egress proxy is dialled and authenticates the server; the request is
\* forwarded as it is. Nothing is answered if that fails.
handleForwarding ==
    /\ handler["server"].pc = "forward"
    /\ \/ /\ handler' = [handler EXCEPT !["server"] = Copying("copy")]
          /\ link' = Sent([link EXCEPT !["egress"] = Opened], "egress", "up", <<Msg("request", app.request[1])>>)
       \/ Returns("server", link)
    /\ UNCHANGED <<setup, app, action, target>>

-----------------------------------------------------------------------------
\* The target, or an egress proxy, which also answers the request.

TargetReads ==
    /\ Readable("egress", "up")
    /\ target' = [target EXCEPT !.got = Append(@, Head(link["egress"].up))]
    /\ link' = Taken(link, "egress", "up")
    /\ UNCHANGED <<setup, app, handler, action>>

EgressReplies ==
    /\ target.got # << >> /\ target.got[1].kind = "request" /\ target.reply = << >>
    /\ Writable("egress", "down")
    /\ \E code \in {"SUCCESS", "REFUSED"} :
        /\ target' = [target EXCEPT !.reply = <<code>>]
        /\ link' = Sent(link, "egress", "down", <<Msg("reply", code)>>)
    /\ UNCHANGED <<setup, app, handler, action>>

TargetSends ==
    /\ target.sent < MaxData /\ Writable("egress", "down")
    /\ action.rule[1].action = "PROXY" => target.reply = <<"SUCCESS">>
    /\ target' = [target EXCEPT !.sent = @ + 1]
    /\ link' = Sent(link, "egress", "down", <<Msg("data", target.sent + 1)>>)
    /\ UNCHANGED <<setup, app, handler, action>>

TargetCloses ==
    /\ link["egress"].far
    /\ link' = Closed(link, "egress", "far")
    /\ UNCHANGED <<setup, app, handler, action, target>>

-----------------------------------------------------------------------------

HandlerStep(h) ==
    \/ handleAuthentication(h) \/ VerifyCredential(h) \/ HandshakeFails(h) \/ CopyReturns(h)
    \/ \E d \in Directions : CopyReads(h, d) \/ CopyWrites(h, d) \/ CopyEnds(h, d)

ClientStep == ClientDials \/ proxySocks5AuthReq \/ proxySocks5ConnReq \/ ClientReplies
ServerStep == acceptLoop \/ serverServeConn \/ Resolve \/ handleConnect \/ handleBind \/ handleForwarding
TargetStep == TargetReads \/ EgressReplies \/ TargetSends

RelayNext ==
    \/ AppStep \/ AppCloses \/ ClientStep \/ ServerStep \/ TargetStep \/ TargetCloses
    \/ \E h \in Handlers : HandlerStep(h)

RelaySpec == RelayInit /\ [][RelayNext]_relayVars

\* The goroutines of the handlers run, their dials, lookups and timers end. The
\* application and a target that is reached directly read what they are sent, as
\* nothing limits the time of a write to them; an egress proxy need not.
RelayFairness ==
    /\ WF_relayVars(ClientStep) /\ WF_relayVars(ServerStep)
    /\ \A h \in Handlers :
        /\ WF_relayVars(handleAuthentication(h) \/ VerifyCredential(h) \/ HandshakeFails(h) \/ CopyReturns(h))
        /\ \A d \in Directions : WF_relayVars(CopyReads(h, d) \/ CopyWrites(h, d) \/ CopyEnds(h, d))
    /\ WF_relayVars(AppReads)
    /\ WF_relayVars(TargetReads /\ action.rule[1].action = "DIRECT")

-----------------------------------------------------------------------------

\* What was sent, if it begins with first: the data that follow are the data
\* of the sender, in order, none twice and none left out.
InOrder(got, first, sent) ==
    /\ Len(got) <= Len(first) + sent
    /\ \A i \in DOMAIN got : got[i] = IF i <= Len(first) THEN first[i] ELSE Msg("data", i - Len(first))

\* What the target receives is what the application sent after its request, in
\* order and from the start; an egress proxy receives the request first
\* (BidiCopy, BidiCopySocks5, handleForwarding).
UplinkIntact ==
    InOrder(target.got,
            IF action.rule # << >> /\ action.rule[1].action = "PROXY" THEN <<Msg("request", app.request[1])>> ELSE << >>,
            app.sent)

\* The application receives one reply and then what the target sent, in order
\* and from the start: in HANDSHAKE_NO_WAIT mode the reply of the server never
\* shows up among the data (proxySocks5ConnReq, BidiCopySocks5).
DownlinkIntact ==
    app.got # << >> => app.got[1].kind = "reply" /\ InOrder(app.got, <<app.got[1]>>, target.sent)

\* An application that is told that it is connected is connected, unless the
\* client answers for the server: the server handler has reached the target,
\* or the egress proxy says that it has (handleConnect, handleForwarding).
SuccessMeansConnected ==
    app.got # << >> /\ app.got[1].val = "SUCCESS" /\ ~setup.noWait
        => /\ action.rule # << >> /\ action.rule[1].action \in {"DIRECT", "PROXY"}
           /\ action.rule[1].action = "DIRECT" => action.dst # << >> /\ handler["server"].pc \in {"copy", "closed"}
           /\ action.rule[1].action = "PROXY" => target.reply = <<"SUCCESS">>

\* A server that has credentials configured serves only applications that
\* presented one of them: a request goes no further before that
\* (handleAuthentication).
OnlyAuthenticated ==
    setup.credentials # {} /\ (action.rule # << >> \/ app.request # << >>)
        => app.cred # << >> /\ app.cred[1] \in setup.credentials

\* A request for a private or loopback address, or for a local name, reaches
\* neither a target nor an egress proxy unless its user may use such addresses;
\* and a request that a rule sends to a proxy has one to go to
\* (rejectPrivateAndLoopbackIPAction, forwardToProxyAction, validation).
EgressGuarded ==
    action.rule # << >> /\ action.rule[1].action # "REJECT" =>
        /\ app.request[1].command = "CONNECT" /\ CheckedIP(app.request[1]) # << >> =>
            LET ip == CheckedIP(app.request[1])[1]
            IN Private(ip) \/ Loopback(ip) =>
                /\ setup.user \in DOMAIN setup.users
                /\ \/ Private(ip) /\ setup.users[setup.user].allowPrivate
                   \/ Loopback(ip) /\ setup.users[setup.user].allowLoopback
        /\ action.rule[1].action = "PROXY" => action.rule[1].proxy # << >>

\* Once the application or the target has gone, both handlers return and all
\* their connections are closed (BidiCopy, ServeConn, HandshakeTimeout,
\* forwardingWriteTimeout).
Gone == ~link["user"].near \/ (action.rule # << >> /\ handler["server"].pc = "copy" /\ ~link["egress"].far)
AllReleased ==
    /\ \A h \in Handlers : handler[h].pc \in {"none", "closed"}
    /\ ~link["user"].far /\ ~link["tunnel"].near /\ ~link["tunnel"].far /\ ~link["egress"].near
Released == Gone ~> AllReleased

\* A request is answered or the connection closed (HandshakeTimeout).
Answered == app.pc = "reply" ~> (app.pc # "reply" \/ ~link["user"].far \/ link["user"].down # << >>)

=============================================================================
