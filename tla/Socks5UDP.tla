----------------------------- MODULE Socks5UDP -----------------------------
(***************************************************************************)
(* The life of one UDP association (pkg/socks5): udp.go, BidiCopyUDP, and  *)
(* the UDP parts of handler.go and socks5.go.                              *)
(*                                                                         *)
(*   "associate": datagrams of the application go through the UDP socket   *)
(*     of the proxy client and, packet over stream, through the tunnel to  *)
(*     the UDP socket of the proxy server and on to their targets;         *)
(*   "forward": the proxy server passes them on to an egress proxy;        *)
(*   "datagram": a plain socks5 server, whose UDP socket the application   *)
(*     uses without a tunnel.                                              *)
(*                                                                         *)
(* A datagram is [from, header]: the header names its target, or for an    *)
(* answer the source. A socket keeps a few datagrams; one that is lost is  *)
(* one that was not sent.                                                  *)
(***************************************************************************)
EXTENDS Naturals, Sequences, FiniteSets

CONSTANTS
    Modes,          \* the modes to consider
    Endpoints,      \* UDP endpoints of the application
    Addresses,      \* addresses of targets; an address is also a header
    Names,          \* domain names, other headers
    Resolved,       \* from names to addresses, or "fails"
    MaxSent,        \* bound: datagrams sent by the application
    MaxAnswers,     \* bound: datagrams sent by targets
    Window          \* bound: messages in a queue

VARIABLES
    mode,       \* the mode, which does not change
    ctl,        \* the control connection of the application: its ends app and handler
    tunnel,     \* [up, down, near, far]
    sock,       \* the UDP sockets of the client and of the server: [state, inbox]
    client,     \* the client handler: [pc, up, down, addr]
    server,     \* the server handler: [pc, up, down, monitor, addrMap, err, clientAddr, targets]
    egress,     \* the control connection to the egress proxy: none, asked, open, ended, closed
    sent,       \* datagrams sent by the application: [from, header]
    answers,    \* number of datagrams sent by targets
    delivered,  \* datagrams delivered to the application: [to, from, header]
    faulty      \* whether a read of the server's UDP socket has failed on its own

udpVars == <<mode, ctl, tunnel, sock, client, server, egress, sent, answers, delivered, faulty>>

Socket(state) == [state |-> state, inbox |-> << >>]
Shut(s) == IF s.state = "open" THEN Socket("closed") ELSE s
Valid == Addresses \cup Names       \* headers that can be parsed
Target(header) == IF header \in Addresses THEN header ELSE Resolved[header]

UDPInit ==
    /\ mode \in Modes
    /\ ctl = [app |-> TRUE, handler |-> TRUE]
    /\ tunnel = [up |-> << >>, down |-> << >>, near |-> mode # "datagram", far |-> mode # "datagram"]
    /\ sock = [s \in {"client", "server"} |-> Socket("none")]
    /\ client = [pc |-> IF mode = "datagram" THEN "closed" ELSE "reply", up |-> "end", down |-> "end", addr |-> << >>]
    /\ server = [pc |-> "start", up |-> "end", down |-> "end", monitor |-> "end", addrMap |-> [a \in {} |-> a],
                 err |-> "none", clientAddr |-> << >>, targets |-> {}]
    /\ egress = "none"
    /\ sent = << >> /\ answers = 0 /\ delivered = {} /\ faulty = FALSE

TunnelReadFails(d) ==
    IF d = "up" THEN ~tunnel.far \/ (tunnel.up = << >> /\ ~tunnel.near)
    ELSE ~tunnel.near \/ (tunnel.down = << >> /\ ~tunnel.far)
TunnelWriteFails == ~tunnel.near \/ ~tunnel.far

-----------------------------------------------------------------------------
\* The application and the targets.

AppSends(endpoint, header) ==
    LET s == IF mode = "datagram" THEN "server" ELSE "client"
    IN /\ ctl.app /\ Len(sent) < MaxSent
       /\ sock[s].state = "open" /\ Len(sock[s].inbox) < Window
       /\ sent' = Append(sent, [from |-> endpoint, header |-> header])
       /\ sock' = [sock EXCEPT ![s].inbox = Append(@, [from |-> endpoint, header |-> header])]
       /\ UNCHANGED <<mode, ctl, tunnel, client, server, egress, answers, delivered, faulty>>

AppCloses ==
    /\ ctl.app
    /\ ctl' = [ctl EXCEPT !.app = FALSE]
    /\ UNCHANGED <<mode, tunnel, sock, client, server, egress, sent, answers, delivered, faulty>>

\* Anyone may send a datagram to the server; an egress proxy adds the header.
TargetSends(a) ==
    /\ answers < MaxAnswers
    /\ sock["server"].state = "open" /\ Len(sock["server"].inbox) < Window
    /\ answers' = answers + 1
    /\ sock' = [sock EXCEPT !["server"].inbox =
                    Append(@, [from |-> a, header |-> IF mode = "forward" THEN a ELSE "payload"])]
    /\ UNCHANGED <<mode, ctl, tunnel, client, server, egress, sent, delivered, faulty>>

-----------------------------------------------------------------------------
\* The proxy client.

ClientReturned == client' = [client EXCEPT !.pc = "closed", !.up = "end", !.down = "end"]

\* The end of proxySocks5ConnReq: the reply of the server, with the port of
\* the client's own socket, goes to the application whatever it says.
ClientAssociates ==
    /\ client.pc = "reply" /\ tunnel.near /\ tunnel.down # << >>
    /\ \/ /\ ctl.app
          /\ client' = [client EXCEPT !.pc = "copy", !.up = "run", !.down = "run"]
          /\ sock' = [sock EXCEPT !["client"] = Socket("open")]
          /\ tunnel' = [tunnel EXCEPT !.down = Tail(@)]
          /\ UNCHANGED ctl
       \/ /\ ClientReturned
          /\ tunnel' = [tunnel EXCEPT !.near = FALSE]
          /\ ctl' = [ctl EXCEPT !.handler = FALSE]
          /\ UNCHANGED sock
    /\ UNCHANGED <<mode, server, egress, sent, answers, delivered, faulty>>

\* No reply within HandshakeTimeout.
ClientTimesOut ==
    /\ client.pc = "reply"
    /\ ClientReturned
    /\ tunnel' = [tunnel EXCEPT !.near = FALSE]
    /\ ctl' = [ctl EXCEPT !.handler = FALSE]
    /\ UNCHANGED <<mode, sock, server, egress, sent, answers, delivered, faulty>>

\* clientServeConn watches the control connection: once it is read to its end
\* it is closed, and with it the UDP socket that was added to it.
ControlEnds ==
    /\ client.pc \in {"copy", "closing"} /\ ~ctl.app /\ ctl.handler
    /\ ctl' = [ctl EXCEPT !.handler = FALSE]
    /\ sock' = [sock EXCEPT !["client"] = Shut(@)]
    /\ UNCHANGED <<mode, tunnel, client, server, egress, sent, answers, delivered, faulty>>

\* BidiCopyUDP, from the socket to the tunnel.
ClientUp ==
    /\ client.up = "run"
    /\ IF sock["client"].state = "closed"
       THEN client' = [client EXCEPT !.up = "end"] /\ UNCHANGED <<sock, tunnel>>
       ELSE /\ sock["client"].inbox # << >>
            /\ sock' = [sock EXCEPT !["client"].inbox = Tail(@)]
            /\ LET msg == Head(sock["client"].inbox)
               IN IF (client.addr # << >> /\ client.addr # <<msg.from>>) \/ TunnelWriteFails
                  THEN /\ client' = [client EXCEPT !.up = "end", !.addr = IF @ = << >> THEN <<msg.from>> ELSE @]
                       /\ UNCHANGED tunnel
                  ELSE /\ Len(tunnel.up) < Window
                       /\ client' = [client EXCEPT !.addr = <<msg.from>>]
                       /\ tunnel' = [tunnel EXCEPT !.up = Append(@, msg)]
    /\ UNCHANGED <<mode, ctl, server, egress, sent, answers, delivered, faulty>>

\* BidiCopyUDP, from the tunnel to the socket.
ClientDown ==
    /\ client.down = "run"
    /\ IF TunnelReadFails("down")
       THEN client' = [client EXCEPT !.down = "end"] /\ UNCHANGED <<tunnel, delivered>>
       ELSE /\ tunnel.down # << >>
            /\ tunnel' = [tunnel EXCEPT !.down = Tail(@)]
            /\ IF client.addr = << >> \/ sock["client"].state = "closed"
               THEN client' = [client EXCEPT !.down = "end"] /\ UNCHANGED delivered
               ELSE /\ delivered' = delivered \cup {[to |-> client.addr[1], from |-> Head(tunnel.down).from,
                                                     header |-> Head(tunnel.down).header]}
                    /\ UNCHANGED client
    /\ UNCHANGED <<mode, ctl, sock, server, egress, sent, answers, faulty>>

\* After the first error everything is closed, after the second it returns.
BidiCopyUDP ==
    /\ \/ /\ client.pc = "copy" /\ (client.up = "end" \/ client.down = "end")
          /\ client' = [client EXCEPT !.pc = "closing"]
          /\ tunnel' = [tunnel EXCEPT !.near = FALSE]
          /\ sock' = [sock EXCEPT !["client"] = Shut(@)]
          /\ UNCHANGED ctl
       \/ /\ client.pc = "closing" /\ client.up = "end" /\ client.down = "end"
          /\ ClientReturned
          /\ ctl' = [ctl EXCEPT !.handler = FALSE]
          /\ UNCHANGED <<tunnel, sock>>
    /\ UNCHANGED <<mode, server, egress, sent, answers, delivered, faulty>>

ClientStep == ClientAssociates \/ ClientTimesOut \/ ControlEnds \/ ClientUp \/ ClientDown \/ BidiCopyUDP

-----------------------------------------------------------------------------
\* The proxy server, up to its reply.

Reply == [from |-> "server", header |-> "reply"]
Replied == tunnel' = [tunnel EXCEPT !.down = Append(@, Reply)]
Loops(monitor, down) == server' = [server EXCEPT !.pc = "loop", !.up = "run", !.down = down, !.monitor = monitor]

\* ServeConn closes the connection that it serves.
ServerReturns ==
    /\ server' = [server EXCEPT !.pc = "closed", !.up = "end", !.down = "end", !.monitor = "end"]
    /\ tunnel' = [tunnel EXCEPT !.far = FALSE]
    /\ ctl' = IF mode = "datagram" THEN [ctl EXCEPT !.handler = FALSE] ELSE ctl

\* A socket that could not be announced is left to the garbage collector.
handleAssociatePacketOverStream ==
    /\ mode = "associate" /\ server.pc = "start"
    /\ \/ ServerReturns /\ UNCHANGED sock
       \/ /\ TunnelWriteFails
          /\ ServerReturns
          /\ sock' = [sock EXCEPT !["server"] = Socket("abandoned")]
       \/ /\ ~TunnelWriteFails
          /\ Loops("end", "run") /\ Replied
          /\ sock' = [sock EXCEPT !["server"] = Socket("open")]
          /\ UNCHANGED ctl
    /\ UNCHANGED <<mode, client, egress, sent, answers, delivered, faulty>>

handleAssociateDatagram ==
    /\ mode = "datagram" /\ server.pc = "start"
    /\ \/ ServerReturns /\ UNCHANGED sock
       \/ /\ ctl.app
          /\ Loops("run", "end")
          /\ sock' = [sock EXCEPT !["server"] = Socket("open")]
          /\ UNCHANGED <<ctl, tunnel>>
    /\ UNCHANGED <<mode, client, egress, sent, answers, delivered, faulty>>

\* handleForwarding, up to the request for an association with the egress proxy.
AsksEgress ==
    /\ mode = "forward" /\ server.pc = "start"
    /\ \/ ServerReturns /\ UNCHANGED egress
       \/ /\ server' = [server EXCEPT !.pc = "asked"] /\ egress' = "asked"
          /\ UNCHANGED <<tunnel, ctl>>
    /\ UNCHANGED <<mode, sock, client, sent, answers, delivered, faulty>>

\* The answer of the egress proxy, for which there is no time limit: it may be
\* an error, which is passed on, and what follows may fail.
handleForwardingUDP ==
    /\ server.pc = "asked"
    /\ \/ /\ ~TunnelWriteFails
          /\ Loops("run", "run") /\ Replied
          /\ sock' = [sock EXCEPT !["server"] = Socket("open")] /\ egress' = "open"
          /\ UNCHANGED ctl
       \/ /\ server' = [server EXCEPT !.pc = "closed"]
          /\ tunnel' = [tunnel EXCEPT !.far = FALSE, !.down = IF TunnelWriteFails THEN @ ELSE Append(@, Reply)]
          /\ egress' = "closed"
          /\ UNCHANGED <<ctl, sock>>
       \/ ServerReturns /\ egress' = "closed" /\ UNCHANGED sock
    /\ UNCHANGED <<mode, client, sent, answers, delivered, faulty>>

ServerStarts == handleAssociatePacketOverStream \/ handleAssociateDatagram \/ AsksEgress \/ handleForwardingUDP

-----------------------------------------------------------------------------
\* RunUDPAssociateLoop. The first error is kept in an atomic.Value, to which an
\* error of another type must not be stored: reads of the socket give "op"
\* errors, everything else "string" errors.

Store(err) == IF server.err \in {"none", err} THEN err ELSE "panic"
Fails(err) == IF server.err = "none" THEN err ELSE "end"    \* udpErr.Load() = nil

AssociateUp ==
    /\ mode = "associate" /\ server.up = "run" /\ server.err # "panic"
    /\ LET failed == TunnelReadFails("up")
           header == IF failed THEN "none" ELSE Head(tunnel.up).header
       IN /\ failed \/ tunnel.up # << >>
          /\ tunnel' = IF failed THEN tunnel ELSE [tunnel EXCEPT !.up = Tail(@)]
          /\ IF header \notin Valid
             THEN /\ server' = [server EXCEPT !.up = "end", !.err = Store("string")]
                  /\ sock' = [sock EXCEPT !["server"] = Shut(@)]
             ELSE /\ server' = IF Target(header) = "fails" THEN server
                               ELSE [server EXCEPT !.addrMap =
                                        [a \in DOMAIN @ \cup {Target(header)} |-> IF a = Target(header) THEN header ELSE @[a]]]
                  /\ UNCHANGED sock
    /\ UNCHANGED <<mode, ctl, client, egress, sent, answers, delivered, faulty>>

AssociateDown ==
    /\ mode = "associate" /\ server.down = "run" /\ server.err # "panic"
    /\ IF sock["server"].state = "closed"
       THEN server' = [server EXCEPT !.down = Fails("op")] /\ UNCHANGED <<sock, tunnel>>
       ELSE /\ sock["server"].inbox # << >>
            /\ sock' = [sock EXCEPT !["server"].inbox = Tail(@)]
            /\ LET from == Head(sock["server"].inbox).from
                   header == IF from \in DOMAIN server.addrMap THEN server.addrMap[from] ELSE from
                   known == [a \in DOMAIN server.addrMap \cup {from} |-> IF a = from THEN header ELSE server.addrMap[a]]
               IN IF TunnelWriteFails
                  THEN server' = [server EXCEPT !.addrMap = known, !.down = Fails("string")] /\ UNCHANGED tunnel
                  ELSE /\ Len(tunnel.down) < Window
                       /\ server' = [server EXCEPT !.addrMap = known]
                       /\ tunnel' = [tunnel EXCEPT !.down = Append(@, [from |-> from, header |-> header])]
    /\ UNCHANGED <<mode, ctl, client, egress, sent, answers, delivered, faulty>>

AssociateDownStores ==
    /\ server.down \in {"op", "string"} /\ server.err # "panic"
    /\ server' = [server EXCEPT !.down = "end", !.err = Store(server.down)]
    /\ UNCHANGED <<mode, ctl, tunnel, sock, client, egress, sent, answers, delivered, faulty>>

-----------------------------------------------------------------------------
\* RunUDPForwardingLoop.

CloseAll ==
    /\ egress' = "closed"
    /\ sock' = [sock EXCEPT !["server"] = Shut(@)]
    /\ tunnel' = [tunnel EXCEPT !.far = FALSE]

ForwardMonitor ==
    /\ mode = "forward" /\ server.monitor = "run" /\ egress \in {"ended", "closed"}
    /\ server' = [server EXCEPT !.monitor = "end"]
    /\ CloseAll
    /\ UNCHANGED <<mode, ctl, client, sent, answers, delivered, faulty>>

ForwardUp ==
    /\ mode = "forward" /\ server.up = "run"
    /\ IF TunnelReadFails("up") THEN server' = [server EXCEPT !.up = "end"] /\ CloseAll
       ELSE /\ tunnel.up # << >>
            /\ tunnel' = [tunnel EXCEPT !.up = Tail(@)]
            /\ UNCHANGED <<server, sock, egress>>
    /\ UNCHANGED <<mode, ctl, client, sent, answers, delivered, faulty>>

ForwardDown ==
    /\ mode = "forward" /\ server.down = "run"
    /\ IF sock["server"].state = "closed" THEN server' = [server EXCEPT !.down = "end"] /\ CloseAll
       ELSE /\ sock["server"].inbox # << >>
            /\ IF TunnelWriteFails THEN server' = [server EXCEPT !.down = "end"] /\ CloseAll
               ELSE /\ Len(tunnel.down) < Window
                    /\ tunnel' = [tunnel EXCEPT !.down = Append(@, Head(sock["server"].inbox))]
                    /\ sock' = [sock EXCEPT !["server"].inbox = Tail(@)]
                    /\ UNCHANGED <<server, egress>>
    /\ UNCHANGED <<mode, ctl, client, sent, answers, delivered, faulty>>

\* The egress proxy ends the association.
EgressEnds ==
    /\ egress = "open"
    /\ egress' = "ended"
    /\ UNCHANGED <<mode, ctl, tunnel, sock, client, server, sent, answers, delivered, faulty>>

-----------------------------------------------------------------------------
\* runUDPAssociateDatagramLoop: one goroutine serves the socket, another one
\* watches the control connection.

DatagramEnds ==
    /\ server' = [server EXCEPT !.up = "end"]
    /\ sock' = [sock EXCEPT !["server"] = Shut(@)]
    /\ ctl' = [ctl EXCEPT !.handler = FALSE]

DatagramFromClient(msg) ==
    /\ server.clientAddr \in {<< >>, <<msg.from>>}
    /\ IF msg.header \notin Valid THEN UNCHANGED server
       ELSE IF Target(msg.header) = "fails" THEN UNCHANGED server
       ELSE \E written \in {{}, {Target(msg.header)}} :
                server' = [server EXCEPT !.clientAddr = <<msg.from>>, !.targets = @ \cup written]
    /\ UNCHANGED delivered

\* The mutant does not ask whether the target was used.
DatagramFromAnyone(msg) ==
    /\ server.clientAddr \notin {<< >>, <<msg.from>>}
    /\ delivered' = delivered \cup {[to |-> server.clientAddr[1], from |-> msg.from, header |-> msg.from]}
    /\ UNCHANGED server

DatagramFromOther(msg) ==
    /\ server.clientAddr \notin {<< >>, <<msg.from>>}
    /\ delivered' = IF msg.from \in server.targets
                    THEN delivered \cup {[to |-> server.clientAddr[1], from |-> msg.from, header |-> msg.from]}
                    ELSE delivered
    /\ UNCHANGED server

DatagramLoop ==
    /\ mode = "datagram" /\ server.up = "run"
    /\ IF sock["server"].state = "closed" THEN DatagramEnds /\ UNCHANGED delivered
       ELSE /\ sock["server"].inbox # << >>
            /\ sock' = [sock EXCEPT !["server"].inbox = Tail(@)]
            /\ LET msg == Head(sock["server"].inbox) IN DatagramFromClient(msg) \/ DatagramFromOther(msg)
            /\ UNCHANGED ctl
    /\ UNCHANGED <<mode, tunnel, client, egress, sent, answers, faulty>>

DatagramMonitor ==
    /\ mode = "datagram" /\ server.monitor = "run" /\ (~ctl.app \/ ~ctl.handler)
    /\ server' = [server EXCEPT !.monitor = "end"]
    /\ sock' = [sock EXCEPT !["server"] = Shut(@)]
    /\ UNCHANGED <<mode, ctl, tunnel, client, egress, sent, answers, delivered, faulty>>

-----------------------------------------------------------------------------

\* A read of the server's socket fails although the socket is open.
SocketFails ==
    /\ sock["server"].state = "open" /\ server.err # "panic"
    /\ \/ /\ mode = "associate" /\ server.down = "run"
          /\ server' = [server EXCEPT !.down = Fails("op")]
          /\ UNCHANGED <<ctl, tunnel, sock, egress>>
       \/ /\ mode = "forward" /\ server.down = "run"
          /\ server' = [server EXCEPT !.down = "end"] /\ CloseAll /\ UNCHANGED ctl
       \/ /\ mode = "datagram" /\ server.up = "run"
          /\ DatagramEnds /\ UNCHANGED <<tunnel, egress>>
    /\ faulty' = TRUE
    /\ UNCHANGED <<mode, client, sent, answers, delivered>>

LoopReturns ==
    /\ server.pc = "loop" /\ server.err # "panic"
    /\ server.up = "end" /\ server.down = "end" /\ server.monitor = "end"
    /\ ServerReturns
    /\ UNCHANGED <<mode, sock, client, egress, sent, answers, delivered, faulty>>

ServerUp == AssociateUp \/ ForwardUp \/ DatagramLoop
ServerDown == AssociateDown \/ AssociateDownStores \/ ForwardDown
ServerMonitor == ForwardMonitor \/ DatagramMonitor

UDPNext ==
    \/ \E e \in Endpoints, h \in Valid \cup {"malformed"} : AppSends(e, h)
    \/ \E a \in Addresses : TargetSends(a)
    \/ AppCloses \/ EgressEnds \/ SocketFails
    \/ ClientStep \/ ServerStarts \/ ServerUp \/ ServerDown \/ ServerMonitor \/ LoopReturns

UDPSpec == UDPInit /\ [][UDPNext]_udpVars

\* All goroutines run; the egress proxy answers the request for an association.
UDPFairness ==
    /\ WF_udpVars(ClientAssociates \/ ClientTimesOut \/ BidiCopyUDP) /\ WF_udpVars(ControlEnds)
    /\ WF_udpVars(ClientUp) /\ WF_udpVars(ClientDown)
    /\ WF_udpVars(ServerStarts \/ LoopReturns)
    /\ WF_udpVars(ServerUp) /\ WF_udpVars(ServerDown) /\ WF_udpVars(ServerMonitor)

-----------------------------------------------------------------------------

\* An association belongs to the endpoint that used it first: only its datagrams
\* enter the tunnel and only it receives answers (BidiCopyUDP,
\* runUDPAssociateDatagramLoop).
OneEndpoint ==
    /\ \A i \in DOMAIN tunnel.up : client.addr = <<tunnel.up[i].from>>
    /\ \A m, n \in delivered : m.to = n.to
    /\ \A m \in delivered : mode # "datagram" => m.to = sent[1].from

\* An answer names its source the way the application named it, or by its
\* address; a plain socks5 server delivers answers of targets that were used
\* only (addrMap, targetAddrs).
AnswersNamed ==
    \A m \in delivered :
        LET used == {sent[i].header : i \in DOMAIN sent} \cap Valid
        IN /\ m.header = m.from \/ (m.header \in used /\ Target(m.header) = m.from)
           /\ mode = "datagram" => \E h \in used : Target(h) = m.from

\* The server process panics on errors of different types only if the socket
\* has failed on its own, never because an association ends
\* (RunUDPAssociateLoop).
PanicOnlyAfterFault == server.err = "panic" => faulty

\* Once the application gives up the association, or the egress proxy ends it,
\* all goroutines of both handlers end and all their sockets and connections
\* are closed (BidiCopyUDP, RunUDPAssociateLoop, RunUDPForwardingLoop).
AssociationOver ==
    \/ server.err = "panic"
    \/ /\ client.pc = "closed" /\ server.pc = "closed"
       /\ ~tunnel.near /\ ~tunnel.far /\ ~ctl.handler /\ egress \in {"none", "closed"}
       /\ \A s \in DOMAIN sock : sock[s].state # "open"
UDPReleased == (~ctl.app \/ egress = "ended") ~> AssociationOver

=============================================================================
