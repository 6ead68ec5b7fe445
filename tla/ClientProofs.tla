---------------------------- MODULE ClientProofs ----------------------------
(***************************************************************************)
(* The client, for any number of goroutines, calls and underlays.          *)
(*                                                                         *)
(* The mux: cleaning never closes an underlay under a dial that is about   *)
(* to use it, whatever the idle time.                                      *)
(*                                                                         *)
(* A connection of the API is sound.  The argument has three layers: who   *)
(* runs the handshake (RequestInv), what each call has sent (DataInv), and *)
(* where the answer and the server program's payloads are (GrantInv).      *)
(***************************************************************************)
EXTENDS ApiConn, MuxClient, TLAPS

-----------------------------------------------------------------------------
(* The mux of the client.                                                  *)

Using(d) == pc[d] \in {"inc", "incAgain", "add"}
Slack(d) == IF late[d] THEN 1 ELSE 0

\* The part of the type invariant the argument needs.
ClientTypes ==
    /\ disabled \in [Underlays -> Age \cup {Enabled}]
    /\ underlay \in [Underlays -> {"none", "open", "closed"}]
    /\ late \in [Dialers -> BOOLEAN]
    /\ target \in [Dialers -> Underlays \cup {None}]
    /\ pc \in [Dialers -> {"idle", "begin", "dial", "inc", "again", "incAgain", "add", "dec", "returned"}]
    /\ sessionMap \in [Underlays -> SUBSET Dialers]
    /\ list \subseteq Underlays
    /\ cleaned \subseteq Underlays

\* An underlay that is not made yet is not disabled; the one a dial uses has been
\* disabled for a tick at most; a cleaned one has been disabled for the idle time.
CleanInv ==
    /\ ClientTypes
    /\ \A u \in Underlays : underlay[u] = "none" => disabled[u] = Enabled
    /\ \A d \in Dialers : Using(d) => target[d] \in Underlays /\ disabled[target[d]] <= Slack(d)
    /\ \A u \in cleaned : disabled[u] > IdleTime /\ sessionMap[u] = {}

\* Initially no underlay exists and no call has begun.
LEMMA CleanInit == Init => CleanInv
BY ClientAssumption DEF Init, CleanInv, ClientTypes, Using, Age, Enabled

\* What cleanUnderlay does to the ages: an age changes only from zero time to
\* now, only on open underlays, and only idle underlays are closed.
LEMMA CleanEffect ==
  ASSUME CleanInv, NEW overloaded, CleanUnderlay(overloaded)
  PROVE  /\ disabled' \in [Underlays -> Age \cup {Enabled}]
         /\ underlay' \in [Underlays -> {"none", "open", "closed"}]
         /\ list' \subseteq Underlays /\ cleaned' \subseteq Underlays
         /\ \A u \in Underlays : disabled'[u] = disabled[u] \/ (disabled[u] = Enabled /\ disabled'[u] = 0)
         /\ \A u \in Underlays : underlay'[u] = "none" => disabled'[u] = Enabled
         /\ \A u \in cleaned' : disabled'[u] > IdleTime /\ sessionMap[u] = {}
<1>1. /\ OpenOnes \subseteq list /\ ToClose \subseteq OpenOnes
      /\ \A u \in OpenOnes : underlay[u] = "open"
      /\ \A u \in ToClose : disabled[u] > IdleTime /\ sessionMap[u] = {} /\ disabled[u] # Enabled
  BY Zenon DEF OpenOnes, ToClose, Idle
<1>2. \A u \in Underlays :
         disabled'[u] = disabled[u] \/ (disabled[u] = Enabled /\ disabled'[u] = 0 /\ u \in OpenOnes)
  BY <1>1, Zenon DEF CleanUnderlay, CleanInv, ClientTypes, CanDisableIdle
<1>3. disabled' \in [Underlays -> Age \cup {Enabled}]
  BY ClientAssumption DEF CleanUnderlay, CleanInv, ClientTypes, Age
<1>4. underlay' = [u \in Underlays |-> IF u \in ToClose THEN "closed" ELSE underlay[u]]
  BY Zenon DEF CleanUnderlay, CloseUnderlays
<1>5. list' \subseteq Underlays /\ cleaned' = cleaned \cup ToClose /\ cleaned' \subseteq Underlays
  BY <1>1, Zenon DEF CleanUnderlay, CleanInv, ClientTypes
<1>6. \A u \in cleaned' : disabled'[u] > IdleTime /\ sessionMap[u] = {}
  BY <1>1, <1>2, <1>5, ClientAssumption DEF CleanInv, ClientTypes, Enabled
<1>7. underlay' \in [Underlays -> {"none", "open", "closed"}]
  BY <1>4, Zenon DEF CleanInv, ClientTypes
<1>8. \A u \in Underlays : underlay'[u] = "none" => disabled'[u] = Enabled
  BY <1>1, <1>2, <1>4, Zenon DEF CleanInv, ClientTypes
<1> QED BY <1>2, <1>3, <1>5, <1>6, <1>7, <1>8, Zenon

\* Every action keeps CleanInv.
LEMMA CleanStep ==
  ASSUME CleanInv, [Next]_vars
  PROVE  CleanInv'
<1> USE DEF CleanInv, ClientTypes
<1>1. ASSUME NEW overloaded \in SUBSET list, Maintain(overloaded) PROVE CleanInv'
  <2>1. CleanUnderlay(overloaded)
    BY <1>1, Zenon DEF Maintain
  <2>2. UNCHANGED <<pc, target, late, sessionMap>>
    BY <1>1, Zenon DEF Maintain, dialVars
  <2> QED BY <2>1, <2>2, CleanEffect, ClientAssumption DEF Using, Slack, Age, Enabled
<1>2. ASSUME NEW d \in Dialers, DialBegin(d) PROVE CleanInv'
  <2>1. PICK overloaded \in SUBSET list : CleanUnderlay(overloaded)
    BY <1>2, Zenon DEF DialBegin
  <2>2. UNCHANGED sessionMap
    BY <1>2, Zenon DEF DialBegin
  <2>3. /\ late' = [late EXCEPT ![d] = FALSE]
        /\ \/ pc' = [pc EXCEPT ![d] = "dial"] /\ target' = [target EXCEPT ![d] = None]
           \/ \E u \in list' : /\ disabled'[u] \in {Enabled, 0}
                               /\ pc' = [pc EXCEPT ![d] = "inc"]
                               /\ target' = [target EXCEPT ![d] = u]
    BY <1>2, Zenon DEF DialBegin, Goto
  <2>4. \A e \in Dialers \ {d} : pc'[e] = pc[e] /\ target'[e] = target[e] /\ late'[e] = late[e]
    BY <2>3, Zenon
  <2>5. Using(d)' => target'[d] \in Underlays /\ disabled'[target'[d]] <= Slack(d)'
    BY <2>1, <2>3, CleanEffect DEF Using, Slack, Enabled
  <2>6. \A e \in Dialers : Using(e)' => target'[e] \in Underlays /\ disabled'[target'[e]] <= Slack(e)'
    BY <2>1, <2>4, <2>5, CleanEffect DEF Using, Slack, Enabled, Age
  <2>7. /\ pc' \in [Dialers -> {"idle", "begin", "dial", "inc", "again", "incAgain", "add", "dec", "returned"}]
        /\ late' \in [Dialers -> BOOLEAN] /\ target' \in [Dialers -> Underlays \cup {None}]
    BY <2>1, <2>3, CleanEffect
  <2> QED BY <2>1, <2>2, <2>6, <2>7, CleanEffect, Zenon
<1>3. ASSUME NEW d \in Dialers, NEW u \in Underlays, NewUnderlay(d, u) PROVE CleanInv'
  BY <1>3, ClientAssumption DEF NewUnderlay, Goto, schedVars, Using, Slack, Enabled
<1>4. ASSUME NEW d \in Dialers, DialInc(d) PROVE CleanInv'
  <2>1. UNCHANGED <<disabled, underlay, list, cleaned, sessionMap, target, late>>
    BY <1>4, Zenon DEF DialInc, IncPending, schedVars
  <2>2. Using(d) /\ \E p \in {"again", "add"} : pc' = [pc EXCEPT ![d] = p]
    BY <1>4, Zenon DEF DialInc, Using
  <2> QED BY <2>1, <2>2 DEF Using, Slack
<1>5. ASSUME NEW d \in Dialers, DialAdd(d) PROVE CleanInv'
  <2>1. target[d] \in Underlays /\ disabled[target[d]] <= 1 /\ target[d] \notin cleaned
    BY <1>5, ClientAssumption DEF DialAdd, Using, Slack, Age, Enabled
  <2> QED BY <1>5, <2>1, Zenon DEF DialAdd, schedVars, Using, Slack
<1>6. ASSUME NEW d \in Dialers, DialReturn(d) PROVE CleanInv'
  BY <1>6, Zenon DEF DialReturn, DecPending, Using, Slack
<1>7. ASSUME NEW d \in Dialers, CallDial(d) \/ NewUnderlayFails(d) PROVE CleanInv'
  <2>1. UNCHANGED <<disabled, underlay, list, cleaned, sessionMap>>
    BY <1>7, Zenon DEF CallDial, NewUnderlayFails, schedVars
  <2>2. /\ \E p \in {"begin", "returned"} : pc' = [pc EXCEPT ![d] = p]
        /\ target' = [target EXCEPT ![d] = None]
        /\ late' = [late EXCEPT ![d] = FALSE]
    BY <1>7, Zenon DEF CallDial, NewUnderlayFails, Goto
  <2> QED BY <2>1, <2>2, Zenon DEF Using, Slack
<1>8. ASSUME NEW d \in Dialers, CloseSession(d) PROVE CleanInv'
  BY <1>8, Zenon DEF CloseSession, schedVars, dialVars, Using, Slack
<1>9. ASSUME NEW u \in Underlays, CleanSessions(u) PROVE CleanInv'
  BY <1>9, Zenon DEF CleanSessions, schedVars, dialVars, Using, Slack
<1>10. ASSUME NEW u \in Underlays, EndEventLoop(u) PROVE CleanInv'
  BY <1>10, Zenon DEF EndEventLoop, CloseUnderlays, schedVars, dialVars, Using, Slack
<1>11. CASE Stop
  BY <1>11, Zenon DEF Stop, schedVars, dialVars, Using, Slack
<1>12. CASE CloseMux
  BY <1>12, Zenon DEF CloseMux, CloseUnderlays, schedVars, dialVars, Using, Slack
<1>13. CASE Tick
  <2>1. UNCHANGED <<pc, target, underlay, list, cleaned, sessionMap>>
    BY <1>13, Zenon DEF Tick
  <2>2. \A d \in Dialers : Using(d) => ~late[d] /\ late'[d]
    <3>1. late' = [d \in Dialers |-> Quick(d)] /\ \A d \in Dialers : Quick(d) => ~late[d]
      BY <1>13, Zenon DEF Tick
    <3>2. \A d \in Dialers : Using(d) => Quick(d)
      BY Zenon DEF Using, Quick
    <3> QED BY <3>1, <3>2, Zenon
  <2>3. late' \in [Dialers -> BOOLEAN]
    <3>1. late' = [d \in Dialers |-> Quick(d)]
      BY <1>13, Zenon DEF Tick
    <3>2. \A d \in Dialers : Quick(d) \in BOOLEAN
      BY DEF Quick
    <3> QED BY <3>1, <3>2, Zenon
  <2>4. /\ disabled' \in [Underlays -> Age \cup {Enabled}]
        /\ \A u \in Underlays : /\ disabled[u] = Enabled => disabled'[u] = Enabled
                                /\ disabled'[u] <= disabled[u] + 1
                                /\ disabled[u] > IdleTime => disabled'[u] > IdleTime
    BY <1>13, ClientAssumption DEF Tick, Older, Age, Enabled
  <2> QED BY <2>1, <2>2, <2>3, <2>4 DEF Using, Slack, Age, Enabled
<1>14. CASE UNCHANGED vars
  BY <1>14, Zenon DEF vars, schedVars, dialVars, Using, Slack
<1> HIDE DEF CleanInv, ClientTypes
<1> QED
  BY <1>1, <1>2, <1>3, <1>4, <1>5, <1>6, <1>7, <1>8, <1>9, <1>10, <1>11, <1>12, <1>13, <1>14
    , Zenon DEF Next, DialStep

\* An underlay that cleanUnderlay closed has no session and gets none, for any
\* number of concurrent calls of DialContext and any idle time of a tick or more.
THEOREM CleaningIsSafe == Spec => []NoSessionOnCleaned
<1>1. CleanInv => NoSessionOnCleaned
  BY ClientAssumption DEF CleanInv, ClientTypes, NoSessionOnCleaned, Using, Slack, Age, Enabled
<1> QED BY CleanInit, CleanStep, <1>1, PTL DEF Spec

-----------------------------------------------------------------------------
(* A connection of the API.                                                *)

Messages == {Request} \cup {Payload(g, n) : g \in Callers, n \in Nat}

\* The part of the type invariant the argument needs.
ApiTypes ==
    /\ call \in [Callers -> [op : {"none", "read", "write", "close"}, n : Nat,
                             pc : {"idle", "once", "send", "reply", "conn"}]]
    /\ sentUp \in Seq(Messages)
    /\ early \in BOOLEAN /\ skipped \in BOOLEAN /\ handshaked \in BOOLEAN /\ handshakeErr \in BOOLEAN
    /\ once \in {"none", "running", "done"}

\* The two kinds of messages differ, and a payload names its call.
LEMMA MessageFacts ==
  ASSUME NEW g, NEW n, NEW h, NEW k
  PROVE  /\ Payload(g, n) # Request
         /\ Payload(g, n) = Payload(h, k) => g = h /\ n = k
BY Zenon DEF Payload, Request

\* What one more message does to a sequence.
LEMMA AppendOne ==
  ASSUME NEW S, NEW s \in Seq(S), NEW a \in S
  PROVE  /\ s \o <<a>> \in Seq(S) /\ Len(s \o <<a>>) = Len(s) + 1
         /\ \A i \in 1..Len(s) : (s \o <<a>>)[i] = s[i]
         /\ (s \o <<a>>)[Len(s) + 1] = a
OBVIOUS

\* Two more messages.
LEMMA AppendTwo ==
  ASSUME NEW S, NEW s \in Seq(S), NEW a \in S, NEW b \in S
  PROVE  /\ s \o <<a, b>> \in Seq(S) /\ Len(s \o <<a, b>>) = Len(s) + 2
         /\ \A i \in 1..Len(s) : (s \o <<a, b>>)[i] = s[i]
         /\ (s \o <<a, b>>)[Len(s) + 1] = a /\ (s \o <<a, b>>)[Len(s) + 2] = b
OBVIOUS

-----------------------------------------------------------------------------
(* The request.                                                            *)

\* DialContext hands out a connection after the request (STANDARD) or before
\* everything (NO_WAIT).
DialInv ==
    /\ dial \in {"idle", "mux", "conn"} => sentUp = << >>
    /\ dial # "returned" => ~early /\ \A g \in Callers : call[g].pc = "idle"
    /\ dial \in {"reply", "returned"} /\ ~early => Len(sentUp) >= 1
    /\ ~early => once = "none" /\ ~skipped /\ \A g \in Callers : call[g].pc \in {"idle", "conn"}

\* One goroutine at most runs the handshake, nothing is sent before it, and
\* the others find it done with the request sent, unless Close came first.
HandshakeInv ==
    /\ early /\ once = "none" =>
        sentUp = << >> /\ ~skipped /\ \A g \in Callers : call[g].pc \in {"idle", "once"}
    /\ once = "running" => ~skipped
    /\ handshaked => once = "done"
    /\ \A g \in Callers : call[g].pc \in {"send", "reply"} =>
        /\ once = "running" /\ call[g].op = "write"
        /\ \A h \in Callers : call[h].pc \in {"send", "reply"} => h = g
    /\ \A g \in Callers : call[g].pc = "send" => sentUp = << >>
    /\ \A g \in Callers : call[g].pc = "reply" => Len(sentUp) >= 1
    /\ early /\ once = "done" /\ ~handshakeErr /\ ~skipped => Len(sentUp) >= 1
    /\ \A g \in Callers : early /\ call[g].op = "write" /\ call[g].pc = "conn" => once = "done" /\ ~handshakeErr

RequestInv == ApiTypes /\ DialInv /\ HandshakeInv /\ RequestFirst

\* Initially nothing is sent and nobody is in a call.
LEMMA RequestInit ==
  ASSUME ApiInit
  PROVE  RequestInv
<1>1. ApiTypes
  <2>1. call \in [Callers -> [op : {"none", "read", "write", "close"}, n : Nat,
                              pc : {"idle", "once", "send", "reply", "conn"}]]
    BY Zenon DEF ApiInit
  <2>2. sentUp \in Seq(Messages)
    BY DEF ApiInit
  <2> QED BY <2>1, <2>2, Zenon DEF ApiInit, ApiTypes
<1>2. DialInv
  BY Zenon DEF ApiInit, DialInv
<1>3. HandshakeInv
  BY Zenon DEF ApiInit, HandshakeInv
<1>4. RequestFirst
  BY DEF ApiInit, RequestFirst
<1> QED BY <1>1, <1>2, <1>3, <1>4, Zenon DEF RequestInv

Elsewhere == UNCHANGED <<dial, earlyVars, call, sentUp, skipped>>

\* What the objects and the server program do leaves the client's end alone.
LEMMA ElsewhereKeeps == RequestInv /\ Elsewhere => RequestInv'
BY DEF RequestInv, ApiTypes, DialInv, HandshakeInv, RequestFirst, Elsewhere, earlyVars

\* DialContext keeps the invariant.
LEMMA DialKeeps ==
  ASSUME RequestInv, DialContext \/ DialMux \/ DialEarly \/ DialRequest \/ DialReply
  PROVE  RequestInv'
<1> USE DEF RequestInv, ApiTypes, DialInv, HandshakeInv, RequestFirst, Dials, earlyVars
<1>1. CASE DialContext
  BY <1>1, Zenon DEF DialContext
<1>2. CASE DialMux
  BY <1>2 DEF DialMux
<1>3. CASE DialEarly
  BY <1>3, Zenon DEF DialEarly
<1>4. CASE DialRequest
  <2>1. CASE WriteFails /\ Dials("failed")
    BY <1>4, <2>1, Zenon DEF DialRequest, WriteFails
  <2>2. CASE Written(<<Request>>) /\ Dials("reply")
    <3>1. sentUp' = << >> \o <<Request>> /\ Request \in Messages
      BY <1>4, <2>2 DEF DialRequest, Written, Messages
    <3>2. sentUp' \in Seq(Messages) /\ Len(sentUp') = 1 /\ sentUp'[1] = Request
      BY <3>1, AppendOne
    <3> QED BY <1>4, <2>2, <3>2 DEF DialRequest
  <2> QED BY <1>4, <2>1, <2>2, Zenon DEF DialRequest
<1>5. CASE DialReply
  BY <1>5 DEF DialReply, ReadReply
<1> QED BY <1>1, <1>2, <1>3, <1>4, <1>5, Zenon

\* A call keeps the invariant.
LEMMA CallKeeps ==
  ASSUME RequestInv, NEW g \in Callers, CallStep(g) \/ \E op \in {"read", "write", "close"} : Begin(g, op)
  PROVE  RequestInv'
<1> USE DEF RequestInv, ApiTypes, DialInv, HandshakeInv, RequestFirst, Calls, Returns, Frame, At
<1>1. ASSUME NEW op \in {"read", "write", "close"}, Begin(g, op) PROVE RequestInv'
  BY <1>1 DEF Begin
<1>2. CASE WriteOnce(g)
  BY <1>2, SMTT(30) DEF WriteOnce
<1>3. CASE HandshakeSend(g)
  <2>1. CASE WriteFails
    BY <1>3, <2>1, SMTT(30) DEF HandshakeSend, WriteFails, HandshakeDone, Written
  <2>2. CASE Written(<<Request, Data(g)>>)
    <3>1. sentUp = << >> /\ sentUp' = sentUp \o <<Request, Data(g)>>
      BY <1>3, <2>2, Zenon DEF HandshakeSend, Written
    <3>2. Request \in Messages /\ Data(g) \in Messages /\ Data(g) # Request
      BY MessageFacts DEF Messages, Data
    <3>3. sentUp' \in Seq(Messages) /\ Len(sentUp') = 2 /\ sentUp'[1] = Request /\ sentUp'[2] # Request
      BY <3>1, <3>2, AppendTwo
    <3>4. /\ UNCHANGED <<dial, earlyVars, skipped>>
          /\ call' = [call EXCEPT ![g].op = "write", ![g].pc = "reply"]
      BY <1>3, <2>2, <3>1 DEF HandshakeSend, Written, WriteFails, earlyVars
    <3>5. ApiTypes'
      <4> DEFINE Call == [op : {"none", "read", "write", "close"}, n : Nat,
                          pc : {"idle", "once", "send", "reply", "conn"}]
      <4>0. call[g] \in Call /\ call \in [Callers -> Call]
        BY Zenon
      <4>1. [call[g] EXCEPT !.op = "write", !.pc = "reply"] \in Call
        BY <4>0, Zenon
      <4>2. call' = [call EXCEPT ![g] = [call[g] EXCEPT !.op = "write", !.pc = "reply"]]
        BY <3>4, <4>0, Zenon
      <4> HIDE DEF Call
      <4>3. call' \in [Callers -> Call]
        BY <4>0, <4>1, <4>2, Zenon
      <4> QED
        BY <3>3, <3>4, <4>3, Zenon DEF earlyVars, Call
    <3>6. DialInv'
      BY <1>3, <3>3, <3>4 DEF HandshakeSend, earlyVars
    <3>7. HandshakeInv'
      BY <1>3, <3>3, <3>4 DEF HandshakeSend, earlyVars
    <3>8. RequestFirst'
      BY <1>3, <3>3, <3>4 DEF HandshakeSend, earlyVars
    <3> QED BY <3>5, <3>6, <3>7, <3>8, Zenon
  <2> QED BY <1>3, <2>1, <2>2, Zenon DEF HandshakeSend
<1>4. CASE HandshakeReply(g)
  BY <1>4, SMTT(30) DEF HandshakeReply, ReadReply, HandshakeDone
<1>5. CASE Write(g)
  <2>1. CASE WriteFails
    BY <1>5, <2>1 DEF Write, WriteFails
  <2>2. CASE Written(<<Data(g)>>)
    <3>1. sentUp' = sentUp \o <<Data(g)>> /\ Data(g) \in Messages /\ Data(g) # Request
      BY <1>5, <2>2, MessageFacts DEF Write, Written, Messages, Data
    <3>2. /\ sentUp' \in Seq(Messages) /\ Len(sentUp') = Len(sentUp) + 1
          /\ \A i \in 1..Len(sentUp) : sentUp'[i] = sentUp[i]
          /\ sentUp'[Len(sentUp) + 1] # Request
      BY <3>1, AppendOne
    <3>3. skipped \/ Len(sentUp) >= 1
      BY <1>5, Zenon DEF Write
    <3>4. RequestFirst'
      BY <1>5, <3>2, <3>3 DEF Write
    <3> QED BY <1>5, <3>2, <3>4 DEF Write
  <2> QED BY <1>5, <2>1, <2>2, Zenon DEF Write
<1>6. CASE ReadWaits(g)
  BY <1>6 DEF ReadWaits
<1>7. CASE Read(g)
  BY <1>7 DEF Read
<1>8. CASE CloseOnce(g)
  BY <1>8 DEF CloseOnce
<1>9. CASE Close(g)
  BY <1>9 DEF Close
<1> QED BY <1>1, <1>2, <1>3, <1>4, <1>5, <1>6, <1>7, <1>8, <1>9, Zenon DEF CallStep

\* Every step is of the dial, of a call, or elsewhere.
LEMMA StepKinds ==
  ASSUME ApiNext
  PROVE  \/ DialContext \/ DialMux \/ DialEarly \/ DialRequest \/ DialReply
         \/ \E g \in Callers : CallStep(g) \/ \E op \in {"read", "write", "close"} : Begin(g, op)
         \/ Elsewhere /\ UNCHANGED returned
<1> USE DEF Elsewhere, Life, Listens, Accepts, history
<1>1. ASSUME (\E m \in Mode : Store(m)) \/ StartMux \/ StartRuns \/ ClientStop \/ StopMux
      PROVE  Elsewhere /\ UNCHANGED returned
  BY <1>1, Zenon DEF Store, StartMux, StartRuns, ClientStop, StopMux
<1>2. ASSUME ServerStore \/ ServerStart \/ ServerStop
      PROVE  Elsewhere /\ UNCHANGED returned
  BY <1>2, Zenon DEF ServerStore, ServerStart, ServerStop
<1>3. ASSUME \/ Accept \/ AcceptRequest \/ ServerWrites \/ ServerReads \/ ServerCloses
             \/ \E r \in {"success", "failure"} : ServerReplies(r)
      PROVE  Elsewhere /\ UNCHANGED returned
  BY <1>3, Zenon DEF Accept, AcceptRequest, ServerWrites, ServerReads, ServerCloses, ServerReplies
<1> QED BY <1>1, <1>2, <1>3, Zenon DEF ApiNext

\* RequestInv is inductive.
LEMMA RequestStep ==
  ASSUME RequestInv, [ApiNext]_apiVars
  PROVE  RequestInv'
<1>1. CASE UNCHANGED apiVars
  BY <1>1, ElsewhereKeeps, Zenon DEF apiVars, history, Elsewhere
<1>2. CASE ApiNext
  BY <1>2, StepKinds, DialKeeps, CallKeeps, ElsewhereKeeps, Zenon
<1> QED BY <1>1, <1>2, Zenon

-----------------------------------------------------------------------------
(* The data.                                                               *)

\* The message is among those sent.
Sent(w) == \E i \in 1..Len(sentUp) : sentUp[i] = w

\* Only calls that were made have sent data; a Write that has not come to
\* sending has sent none, and one that waits for the reply has.
DataInv ==
    /\ \A g \in Callers, n \in Nat : Sent(Payload(g, n)) => n <= call[g].n
    /\ \A g \in Callers : call[g].op = "write" /\ call[g].pc \in {"once", "send", "conn"} => ~Sent(Data(g))
    /\ \A g \in Callers : call[g].pc = "reply" => Sent(Data(g))
    /\ SentOnce

\* Initially nothing is sent.
LEMMA DataInit == ApiInit => DataInv
BY DEF ApiInit, DataInv, Sent, SentOnce

\* What is sent does not change with the other variables.
LEMMA SameSent ==
  ASSUME UNCHANGED sentUp
  PROVE  /\ \A w : Sent(w)' <=> Sent(w)
         /\ UNCHANGED returned /\ SentOnce => SentOnce'
BY Zenon DEF Sent, SentOnce

\* Steps elsewhere do not touch the data.
LEMMA ElsewhereKeepsData ==
  ASSUME DataInv, UNCHANGED <<call, sentUp, returned>>
  PROVE  DataInv'
BY Zenon DEF DataInv, Sent, SentOnce, Data

\* The dial sends no data.
LEMMA DialKeepsData ==
  ASSUME RequestInv, DataInv, DialContext \/ DialMux \/ DialEarly \/ DialRequest \/ DialReply
  PROVE  DataInv'
<1>1. UNCHANGED <<call, returned>>
  BY Zenon DEF DialContext, DialMux, DialEarly, DialRequest, DialReply, Dials
<1>2. CASE UNCHANGED sentUp
  BY <1>1, <1>2, ElsewhereKeepsData, Zenon
<1>3. CASE DialRequest /\ Written(<<Request>>)
  <2>1. sentUp = << >> /\ sentUp' = sentUp \o <<Request>> /\ Request \in Messages
    BY <1>3 DEF DialRequest, Written, RequestInv, DialInv, Messages
  <2>2. Len(sentUp') = 1 /\ sentUp'[1] = Request
    BY <2>1, AppendOne DEF RequestInv, ApiTypes
  <2>3. \A g \in Callers : call[g].pc = "idle"
    BY <1>3, Zenon DEF DialRequest, RequestInv, DialInv
  <2>4. returned = {}
    BY <2>1 DEF DataInv, SentOnce
  <2>5. \A g, n : Payload(g, n) # Request
    BY MessageFacts, Zenon
  <2> QED BY <1>1, <2>2, <2>3, <2>4, <2>5 DEF DataInv, Sent, SentOnce, Data
<1> QED BY <1>2, <1>3, Zenon DEF DialContext, DialMux, DialEarly, DialRequest, DialReply,
           ReadReply, WriteFails

\* A call sends its data once.
LEMMA CallKeepsData ==
  ASSUME RequestInv, DataInv, NEW g \in Callers,
         CallStep(g) \/ \E op \in {"read", "write", "close"} : Begin(g, op)
  PROVE  DataInv'
<1> USE DEF RequestInv, ApiTypes, Calls, Returns, Frame, At
<1>0. \A h, n, k, m : Payload(h, n) # Request /\ (Payload(h, n) = Payload(k, m) => h = k /\ n = m)
  BY MessageFacts, Zenon
<1>1. ASSUME NEW op \in {"read", "write", "close"}, Begin(g, op) PROVE DataInv'
  <2>1. ~Sent(Payload(g, call[g].n + 1))
    BY DEF DataInv
  <2>2. /\ call'[g].n = call[g].n + 1 /\ call'[g].op = op /\ call'[g].pc \in {"once", "conn"}
        /\ \A h \in Callers \ {g} : call'[h] = call[h]
        /\ UNCHANGED <<sentUp, returned>>
    BY <1>1, Zenon DEF Begin
  <2> QED BY <2>1, <2>2, SameSent, SMTT(30) DEF DataInv, Data
<1>2. ASSUME UNCHANGED <<sentUp, returned>>,
             call'[g].n = call[g].n, \A h \in Callers \ {g} : call'[h] = call[h],
             call'[g].pc # "reply", call'[g].op = "write" => call[g].op = "write" /\ call[g].pc = "once"
      PROVE  DataInv'
  BY <1>2, SameSent, Zenon DEF DataInv, Data
<1>3. CASE HandshakeSend(g) /\ Written(<<Request, Data(g)>>)
  <2>0. sentUp = << >> /\ sentUp' = sentUp \o <<Request, Data(g)>>
    BY <1>3, Zenon DEF HandshakeSend, Written, HandshakeInv
  <2>1. /\ UNCHANGED returned /\ call' = [call EXCEPT ![g].op = "write", ![g].pc = "reply"]
    BY <1>3, <2>0 DEF HandshakeSend, Written, WriteFails
  <2>2. Request \in Messages /\ Data(g) \in Messages
    BY DEF Messages, Data
  <2>3. Len(sentUp') = 2 /\ sentUp'[1] = Request /\ sentUp'[2] = Data(g)
    BY <2>0, <2>2, AppendTwo
  <2>4. returned = {}
    BY <2>0 DEF DataInv, SentOnce
  <2>5. \A h \in Callers : call[h].pc = "reply" => h = g
    BY <1>3, Zenon DEF HandshakeSend, HandshakeInv
  <2> QED BY <1>0, <2>1, <2>3, <2>4, <2>5 DEF DataInv, Sent, SentOnce, Data
<1>4. CASE HandshakeReply(g)
  <2>1. /\ UNCHANGED sentUp /\ returned' \subseteq returned \cup {Data(g)}
        /\ call'[g].n = call[g].n /\ call'[g].pc = "idle" /\ \A h \in Callers \ {g} : call'[h] = call[h]
    BY <1>4, Zenon DEF HandshakeReply, ReadReply, Success
  <2>2. Sent(Data(g))
    BY <1>4, Zenon DEF HandshakeReply, DataInv
  <2>3. SentOnce'
    BY <2>1, <2>2 DEF DataInv, SentOnce, Sent
  <2> QED BY <2>1, <2>3, SameSent, Zenon DEF DataInv, Data
<1>5. CASE Write(g) /\ Written(<<Data(g)>>)
  <2>1. /\ sentUp' = sentUp \o <<Data(g)>> /\ returned' \subseteq returned \cup {Data(g)}
        /\ call'[g].n = call[g].n /\ call'[g].pc = "idle" /\ \A h \in Callers \ {g} : call'[h] = call[h]
    BY <1>5, Zenon DEF Write, Written, Success
  <2>2. Data(g) \in Messages
    BY DEF Messages, Data
  <2>3. /\ Len(sentUp') = Len(sentUp) + 1 /\ sentUp'[Len(sentUp) + 1] = Data(g)
        /\ \A i \in 1..Len(sentUp) : sentUp'[i] = sentUp[i]
    BY <2>1, <2>2, AppendOne
  <2>4. ~Sent(Data(g))
    BY <1>5, Zenon DEF Write, DataInv
  <2>5. \A w : Sent(w)' <=> Sent(w) \/ w = Data(g)
    BY <2>3 DEF Sent
  <2>6. \A i, j \in 1..Len(sentUp') : sentUp'[i] = sentUp'[j] => i = j
    <3>1. \A i \in 1..Len(sentUp) : sentUp'[i] # Data(g)
      BY <2>3, <2>4, Zenon DEF Sent
    <3>2. \A i, j \in 1..Len(sentUp) : sentUp'[i] = sentUp'[j] => i = j
      BY <2>3, Zenon DEF DataInv, SentOnce
    <3>3. Len(sentUp) \in Nat
      OBVIOUS
    <3> HIDE DEF ApiTypes, RequestInv
    <3> QED BY <2>3, <3>1, <3>2, <3>3
  <2>7. \A w \in returned' : Sent(w)'
    BY <2>1, <2>5, Zenon DEF DataInv, SentOnce, Sent
  <2>8. \A h \in Callers, n \in Nat : Sent(Payload(h, n))' => n <= call'[h].n
    BY <1>0, <2>1, <2>5 DEF DataInv, Data
  <2>9. \A h \in Callers : call'[h].op = "write" /\ call'[h].pc \in {"once", "send", "conn"} =>
                            ~Sent(Data(h))'
    BY <1>0, <2>1, <2>5, SMTT(30) DEF DataInv, Data
  <2>10. \A h \in Callers : call'[h].pc = "reply" => Sent(Data(h))'
    BY <2>1, <2>5, Zenon DEF DataInv, Data
  <2> QED BY <2>6, <2>7, <2>8, <2>9, <2>10, Zenon DEF DataInv, SentOnce, Sent
<1>6. CASE WriteOnce(g) \/ ReadWaits(g) \/ Read(g) \/ CloseOnce(g) \/ Close(g)
  BY <1>2, <1>6 DEF WriteOnce, ReadWaits, Read, CloseOnce, Close
<1>7. CASE HandshakeSend(g) /\ WriteFails /\ Returns(g)
  BY <1>2, <1>7, Zenon DEF HandshakeSend, WriteFails
<1>8. CASE Write(g) /\ WriteFails /\ UNCHANGED returned
  BY <1>2, <1>8, Zenon DEF Write, WriteFails
<1> QED BY <1>1, <1>3, <1>4, <1>5, <1>6, <1>7, <1>8, Zenon DEF CallStep, HandshakeSend, Write

\* DataInv is inductive relative to RequestInv.
LEMMA DataStep ==
  ASSUME RequestInv, DataInv, [ApiNext]_apiVars
  PROVE  DataInv'
<1>1. CASE UNCHANGED apiVars
  BY <1>1, ElsewhereKeepsData, Zenon DEF apiVars, history
<1>2. CASE ApiNext
  BY <1>2, StepKinds, DialKeepsData, CallKeepsData, ElsewhereKeepsData, Zenon DEF Elsewhere
<1> QED BY <1>1, <1>2, Zenon

-----------------------------------------------------------------------------
(* The answer.                                                             *)

\* What the server program writes.
Answers == {Reply(r) : r \in {"success", "failure"}} \cup {Payload("server", n) : n \in Nat}

\* A handshake has taken the answer of success from the session.
Taken ==
    \/ dial = "returned" /\ ~early
    \/ early /\ handshaked /\ ~handshakeErr /\ ~skipped

\* Only what was sent arrives at the server, so only a request is answered.
UpInv ==
    /\ up \in Seq(Messages) /\ \A i \in 1..Len(up) : Sent(up[i])
    /\ accept \in {"accepted", "success", "failure"} => Sent(Request)

\* The answer comes first and the payloads follow: taken, read or in flight.
DownInv ==
    /\ down \in Seq(Answers) /\ got \in Seq(Answers) /\ downs \in Nat
    /\ accept \notin {"success", "failure"} => down = << >> /\ downs = 0
    /\ accept = "failure" => \A i \in 1..Len(down) : down[i] = Reply("failure")
    /\ ~Taken => got = << >>
    /\ ~Taken /\ accept = "success" =>
        /\ \A i \in 1..Len(down) : down[i] = IF i = 1 THEN Reply("success") ELSE Payload("server", i - 1)
        /\ far = "open" => Len(down) = downs + 1
    /\ Taken =>
        /\ \A i \in 1..Len(down) : down[i] = Payload("server", Len(got) + i)
        /\ far = "open" => Len(got) + Len(down) = downs
    /\ ReadsOnlyData

\* A call that uses the session, and one that has, come after the answer.
UseInv ==
    /\ once = "done" => handshaked
    /\ Taken => accept = "success"
    /\ returned # {} => Taken \/ skipped
    /\ \A g \in Callers : call[g].op = "read" /\ call[g].pc = "conn" => Taken \/ skipped

GrantInv == UpInv /\ DownInv /\ UseInv

\* Initially nothing is in flight.
LEMMA GrantInit == ApiInit => GrantInv
BY DEF ApiInit, GrantInv, UpInv, DownInv, UseInv, Taken, Sent, ReadsOnlyData

\* A message of the client that asks for something is the request.
LEMMA RequestKind ==
  ASSUME NEW msg \in Messages, msg.kind = "request"
  PROVE  msg = Request
BY DEF Messages, Request, Payload

\* The messages that arrive are messages that were sent.
LEMMA UpStep ==
  ASSUME RequestInv, UpInv, [ApiNext]_apiVars
  PROVE  UpInv'
<1> USE DEF RequestInv, ApiTypes
<1>1. ASSUME NEW msgs \in Seq(Messages), up' = up \o msgs, sentUp' = sentUp \o msgs, accept' = accept
      PROVE  UpInv'
  <2>1. up' \in Seq(Messages) /\ sentUp' \in Seq(Messages)
    BY <1>1 DEF UpInv
  <2>2. \A w : Sent(w) => Sent(w)'
    BY <1>1 DEF Sent
  <2>3. ASSUME NEW i \in 1..Len(up') PROVE \E j \in 1..Len(sentUp') : sentUp'[j] = up'[i]
    <3>1. CASE i <= Len(up)
      <4>1. i \in 1..Len(up) /\ up'[i] = up[i]
        BY <1>1, <2>1, <2>3, <3>1 DEF UpInv
      <4>2. Sent(up[i])'
        BY <2>2, <4>1, Zenon DEF UpInv
      <4> QED BY <4>1, <4>2, Zenon DEF Sent
    <3>2. CASE i > Len(up)
      <4>1. up'[i] = msgs[i - Len(up)] /\ i - Len(up) \in 1..Len(msgs)
        BY <1>1, <2>3, <3>2 DEF UpInv
      <4>2. sentUp'[Len(sentUp) + (i - Len(up))] = msgs[i - Len(up)]
        BY <1>1, <4>1, SMTT(30)
      <4>3. Len(sentUp) + (i - Len(up)) \in 1..Len(sentUp')
        BY <1>1, <4>1
      <4> QED BY <4>1, <4>2, <4>3, Zenon
    <3> QED BY <1>1, <2>1, <2>3, <3>1, <3>2 DEF UpInv
  <2> QED BY <1>1, <2>1, <2>2, <2>3, Zenon DEF UpInv, Sent
<1>2. ASSUME UNCHANGED <<up, sentUp>>, accept' = accept \/ accept' \in {"request", "failed"}
             \/ accept \in {"accepted", "success", "failure"}
      PROVE  UpInv'
  BY <1>2, Zenon DEF UpInv, Sent
<1>3. ASSUME up # << >>, up' = Tail(up), UNCHANGED sentUp,
             accept' \in {"accepted", "success", "failure"} =>
                 accept \in {"accepted", "success", "failure"} \/ Head(up).kind = "request"
      PROVE  UpInv'
  <2>1. up' \in Seq(Messages) /\ Head(up) \in Messages /\ Head(up) = up[1] /\ 1 \in 1..Len(up)
    BY <1>3 DEF UpInv
  <2>2. \A i \in 1..Len(up') : i + 1 \in 1..Len(up) /\ up'[i] = up[i + 1]
    BY <1>3 DEF UpInv
  <2>3. \A w : Sent(w)' <=> Sent(w)
    BY <1>3, Zenon DEF Sent
  <2>4. Head(up).kind = "request" => Sent(Request)
    BY <2>1, RequestKind, Zenon DEF UpInv
  <2> QED BY <1>3, <2>1, <2>2, <2>3, <2>4, Zenon DEF UpInv
<1>4. CASE DialContext \/ DialMux \/ DialEarly \/ DialReply
  BY <1>2, <1>4, Zenon DEF DialContext, DialMux, DialEarly, DialReply, Dials, ReadReply, wire
<1>5. CASE DialRequest
  <2>1. Request \in Messages
    BY DEF Messages
  <2>2. <<Request>> \in Seq(Messages)
    BY <2>1
  <2> QED BY <1>1, <1>2, <1>5, <2>2, Zenon DEF DialRequest, Dials, Written, WriteFails
<1>6. ASSUME NEW g \in Callers, CallStep(g) \/ \E op \in {"read", "write", "close"} : Begin(g, op)
      PROVE  UpInv'
  <2> USE DEF Frame
  <2>1. <<Request, Data(g)>> \in Seq(Messages) /\ <<Data(g)>> \in Seq(Messages)
    <3>1. Request \in Messages /\ Data(g) \in Messages
      BY DEF Messages, Data
    <3> QED BY <3>1
  <2>2. CASE HandshakeSend(g)
    BY <1>1, <1>2, <2>1, <2>2, Zenon DEF HandshakeSend, Written, WriteFails
  <2>3. CASE Write(g)
    BY <1>1, <1>2, <2>1, <2>3, Zenon DEF Write, Written, WriteFails
  <2>4. CASE HandshakeReply(g)
    BY <1>2, <2>4, Zenon DEF HandshakeReply, ReadReply
  <2>5. CASE WriteOnce(g) \/ ReadWaits(g) \/ Read(g) \/ CloseOnce(g) \/ Close(g)
    BY <1>2, <2>5, Zenon DEF WriteOnce, ReadWaits, Read, CloseOnce, Close, wire
  <2>6. CASE \E op \in {"read", "write", "close"} : Begin(g, op)
    BY <1>2, <2>6, Zenon DEF Begin, wire
  <2> QED BY <1>6, <2>2, <2>3, <2>4, <2>5, <2>6, Zenon DEF CallStep
<1>7. CASE (\E m \in Mode : Store(m)) \/ StartMux \/ StartRuns \/ ClientStop \/ StopMux
  BY <1>2, <1>7, Zenon DEF Store, StartMux, StartRuns, ClientStop, StopMux, Life, wire, history
<1>8. CASE ServerStore \/ ServerStart \/ ServerStop
  BY <1>2, <1>8, Zenon DEF ServerStore, ServerStart, ServerStop, Listens, history
<1>9. CASE Accept \/ ServerWrites \/ ServerCloses \/ \E r \in {"success", "failure"} : ServerReplies(r)
  BY <1>2, <1>9, Zenon DEF Accept, ServerWrites, ServerCloses, ServerReplies, Accepts
<1>10. CASE ServerReads
  BY <1>3, <1>10, Zenon DEF ServerReads, Accepts
<1>11. CASE AcceptRequest
  BY <1>2, <1>3, <1>11, Zenon DEF AcceptRequest, Accepts
<1>12. CASE UNCHANGED apiVars
  BY <1>2, <1>12, Zenon DEF apiVars, wire, history
<1> QED BY <1>4, <1>5, <1>6, <1>7, <1>8, <1>9, <1>10, <1>11, <1>12, Zenon DEF ApiNext

\* Without a request nothing is answered, so a connection that Close took
\* before its first Write has nothing to read.
LEMMA SkippedIsSilent ==
  ASSUME RequestInv, UpInv, DownInv, skipped
  PROVE  accept \notin {"accepted", "success", "failure"} /\ down = << >>
<1>1. ~Sent(Request)
  BY Zenon DEF RequestInv, RequestFirst, Sent
<1> QED BY <1>1, Zenon DEF UpInv, DownInv

\* The session's way down does not change with the other variables.
LEMMA SameDown ==
  ASSUME DownInv, UNCHANGED <<down, got, downs>>, Taken' <=> Taken,
         \/ UNCHANGED <<accept, far>>
         \/ UNCHANGED accept /\ far' # "open"
         \/ ~Taken /\ accept \notin {"success", "failure"} /\ accept' \notin {"success", "failure"}
  PROVE  DownInv'
BY Zenon DEF DownInv, ReadsOnlyData

\* The dial and the handshake see success only when it was answered, and take
\* the answer alone.
LEMMA ReplyTaken ==
  ASSUME DownInv, ~Taken, NEW ok \in BOOLEAN, ReadReply(ok), UNCHANGED <<got, downs, accept>>, Taken' <=> ok
  PROVE  DownInv' /\ (ok => accept = "success")
<1>1. \A r : Reply(r).kind = r /\ Reply("success") \notin {Payload("server", n) : n \in Nat}
  BY Zenon DEF Reply, Payload
<1>2. CASE UNCHANGED down /\ ~ok
  BY <1>2, SameDown, Zenon DEF ReadReply
<1>3. CASE Arrived /\ ok = (Head(down).kind = "success") /\ down' = Tail(down)
  <2>1. /\ down \in Seq(Answers) /\ down # << >> /\ down' \in Seq(Answers)
        /\ Len(down') = Len(down) - 1 /\ \A i \in 1..Len(down') : i + 1 \in 1..Len(down) /\ down'[i] = down[i + 1]
        /\ Head(down) = down[1] /\ 1 \in 1..Len(down)
    BY <1>3 DEF DownInv, Arrived
  <2>2. accept \in {"success", "failure"} /\ got = << >>
    BY <2>1, Zenon DEF DownInv
  <2>3. CASE accept = "failure"
    <3>1. ~ok
      BY <1>1, <1>3, <2>1, <2>3, Zenon DEF DownInv
    <3> QED BY <2>1, <2>3, <3>1, Zenon DEF DownInv, ReadsOnlyData
  <2>4. CASE accept = "success"
    <3>1. ok
      BY <1>1, <1>3, <2>1, <2>4, ZenonT(60) DEF DownInv
    <3>2. \A i \in 1..Len(down') : down'[i] = Payload("server", i)
      BY <2>1, <2>4 DEF DownInv
    <3>3. far' = far /\ (far = "open" => Len(down') = downs)
      BY <2>1, <2>4 DEF DownInv, ReadReply
    <3>4. Len(got') = 0 /\ got' \in Seq(Answers)
      BY <2>2
    <3> HIDE DEF Taken
    <3> QED BY <2>1, <2>2, <2>4, <3>1, <3>2, <3>3, <3>4, SMTT(30) DEF DownInv, ReadsOnlyData
  <2> QED BY <2>2, <2>3, <2>4, Zenon
<1> QED BY <1>2, <1>3, Zenon DEF ReadReply

\* What the server program does to the way down.
LEMMA ServerKeepsDown ==
  ASSUME DownInv, ServerWrites \/ ServerCloses \/ \E r \in {"success", "failure"} : ServerReplies(r),
         Taken => accept = "success"
  PROVE  DownInv'
<1>0. Taken' <=> Taken
  BY DEF Taken, ServerWrites, ServerCloses, ServerReplies, Accepts, earlyVars
<1> HIDE DEF Taken
<1>1. ASSUME NEW r \in {"success", "failure"}, ServerReplies(r) PROVE DownInv'
  <2>1. down = << >> /\ downs = 0 /\ ~Taken /\ got = << >>
    BY <1>1, Zenon DEF ServerReplies, DownInv
  <2>2. Reply(r) \in Answers
    BY Zenon DEF Answers
  <2>3. down' = <<Reply(r)>> /\ down' \in Seq(Answers) /\ Len(down') = 1 /\ down'[1] = Reply(r)
    BY <1>1, <2>1, <2>2 DEF ServerReplies
  <2> QED BY <1>0, <1>1, <2>1, <2>3 DEF ServerReplies, Accepts, DownInv, ReadsOnlyData
<1>2. CASE ServerWrites
  <2>1. /\ downs \in Nat /\ downs' = downs + 1 /\ down' = Append(down, Payload("server", downs + 1))
        /\ accept = "success" /\ far = "open" /\ UNCHANGED <<accept, far, got>>
    BY <1>2, Zenon DEF ServerWrites, Accepts, DownInv
  <2>2. Payload("server", downs + 1) \in Answers
    BY <2>1 DEF Answers
  <2>3. /\ down' \in Seq(Answers) /\ Len(down') = Len(down) + 1 /\ down'[Len(down) + 1] = Payload("server", downs + 1)
        /\ \A i \in 1..Len(down) : down'[i] = down[i]
    BY <2>1, <2>2 DEF DownInv
  <2>4. Len(down) \in Nat /\ Len(got) \in Nat
    BY DEF DownInv
  <2>5. CASE Taken
    BY <1>0, <2>1, <2>3, <2>4, <2>5, SMTT(30) DEF DownInv, ReadsOnlyData
  <2>6. CASE ~Taken
    <3>1. Len(down) = downs + 1
      BY <2>1, <2>6, Zenon DEF DownInv
    <3>2. \A i \in 1..Len(down') : down'[i] = IF i = 1 THEN Reply("success") ELSE Payload("server", i - 1)
      BY <2>1, <2>3, <2>4, <2>6, <3>1 DEF DownInv
    <3> QED BY <1>0, <2>1, <2>3, <2>4, <2>6, <3>1, <3>2, Zenon DEF DownInv, ReadsOnlyData
  <2> QED BY <2>5, <2>6, Zenon
<1>3. CASE ServerCloses
  <2>1. PICK k \in 0..Len(down) : down' = SubSeq(down, 1, k)
    BY <1>3, Zenon DEF ServerCloses
  <2>2. down' \in Seq(Answers) /\ Len(down') = k /\ \A i \in 1..k : i \in 1..Len(down) /\ down'[i] = down[i]
    BY <2>1 DEF DownInv
  <2>3. far' = "closed" /\ UNCHANGED <<accept, got, downs>>
    BY <1>3, Zenon DEF ServerCloses, Accepts
  <2>4. down = << >> => down' = << >>
    BY <2>1, <2>2 DEF DownInv
  <2> QED BY <1>0, <2>2, <2>3, <2>4, ZenonT(60) DEF DownInv, ReadsOnlyData
<1> QED BY <1>1, <1>2, <1>3, Zenon

\* The dial keeps the way down and the grant.
LEMMA DialKeepsGrant ==
  ASSUME RequestInv, UpInv, DownInv, UseInv, DialContext \/ DialMux \/ DialEarly \/ DialRequest \/ DialReply
  PROVE  DownInv' /\ UseInv'
<1> USE DEF RequestInv, ApiTypes, DialInv, HandshakeInv
<1>1. ~Taken /\ UNCHANGED <<got, downs, accept, call, returned, skipped, once, handshaked, handshakeErr>>
  BY Zenon DEF DialContext, DialMux, DialEarly, DialRequest, DialReply, Dials, Taken, earlyVars
<1>2. CASE DialReply
  <2>1. PICK ok \in BOOLEAN : ReadReply(ok) /\ dial' = IF ok THEN "returned" ELSE "failed"
    BY <1>2, Zenon DEF DialReply, Dials
  <2>2. ~early' /\ (Taken' <=> ok)
    BY <1>2, <2>1, Zenon DEF DialReply, Taken, earlyVars
  <2>3. DownInv' /\ (ok => accept = "success")
    BY <1>1, <2>1, <2>2, ReplyTaken, Zenon
  <2>4. UseInv'
    BY <1>1, <1>2, <2>2, <2>3, Zenon DEF UseInv, DialReply
  <2> QED BY <2>3, <2>4, Zenon
<1>3. CASE DialContext \/ DialMux \/ DialEarly \/ DialRequest
  <2>1. UNCHANGED <<down, far>>
    BY <1>3, Zenon DEF DialContext, DialMux, DialEarly, DialRequest, wire
  <2>2. ~Taken'
    BY <1>3, Zenon DEF DialContext, DialMux, DialEarly, DialRequest, Dials, Taken, earlyVars
  <2>3. DownInv'
    BY <1>1, <2>1, <2>2, SameDown, Zenon
  <2>4. UseInv'
    BY <1>1, <2>2, Zenon DEF UseInv
  <2> QED BY <2>3, <2>4, Zenon
<1> QED BY <1>2, <1>3, Zenon

\* A call keeps them.
LEMMA CallKeepsGrant ==
  ASSUME RequestInv, UpInv, DownInv, UseInv, NEW g \in Callers,
         CallStep(g) \/ \E op \in {"read", "write", "close"} : Begin(g, op)
  PROVE  DownInv' /\ UseInv'
<1> USE DEF RequestInv, ApiTypes, DialInv, HandshakeInv, Calls, Returns, Frame, At
<1>0. UNCHANGED <<dial, early, accept, downs>> /\ dial = "returned"
  BY Zenon DEF CallStep, Begin, WriteOnce, HandshakeSend, HandshakeReply, Write, ReadWaits, Read,
     CloseOnce, Close
<1>1. ASSUME NEW op \in {"read", "write", "close"}, Begin(g, op) PROVE DownInv' /\ UseInv'
  <2>1. (Taken' <=> Taken) /\ UNCHANGED <<down, got, far>>
    BY <1>1, Zenon DEF Begin, Taken, wire
  <2>2. DownInv'
    BY <1>0, <2>1, SameDown, Zenon
  <2>3. early \/ Taken
    BY <1>0, Zenon DEF Taken
  <2> QED BY <1>0, <1>1, <2>1, <2>2, <2>3, Zenon DEF Begin, UseInv
<1>2. CASE WriteOnce(g)
  <2>1. (Taken' <=> Taken) /\ UNCHANGED <<down, got, far>>
    BY <1>0, <1>2 DEF WriteOnce, Taken, wire
  <2>2. DownInv'
    BY <1>0, <2>1, SameDown, Zenon
  <2> QED BY <1>0, <1>2, <2>1, <2>2 DEF WriteOnce, UseInv
<1>3. CASE HandshakeSend(g)
  <2>1. early /\ ~Taken /\ ~Taken' /\ UNCHANGED <<down, got, far>>
    BY <1>0, <1>3 DEF HandshakeSend, HandshakeDone, Taken
  <2>2. DownInv'
    BY <1>0, <2>1, SameDown, Zenon
  <2> QED BY <1>0, <1>3, <2>1, <2>2 DEF HandshakeSend, HandshakeDone, UseInv
<1>4. CASE HandshakeReply(g)
  <2>1. PICK ok \in BOOLEAN : ReadReply(ok) /\ HandshakeDone(~ok)
    BY <1>4, Zenon DEF HandshakeReply
  <2>2. early /\ ~Taken /\ (Taken' <=> ok) /\ UNCHANGED got
    BY <1>0, <1>4, <2>1 DEF HandshakeReply, HandshakeDone, Taken
  <2>3. DownInv' /\ (ok => accept = "success")
    BY <1>0, <2>1, <2>2, ReplyTaken, Zenon
  <2>4. returned = {} /\ \A h \in Callers : ~(call[h].op = "read" /\ call[h].pc = "conn")
    BY <1>4, <2>2, Zenon DEF HandshakeReply, UseInv
  <2>5. returned' # {} => ok
    BY <1>4, <2>1, <2>4, Zenon DEF HandshakeReply, HandshakeDone
  <2> QED BY <1>0, <1>4, <2>1, <2>2, <2>3, <2>4, <2>5 DEF HandshakeReply, HandshakeDone, UseInv
<1>5. CASE Write(g)
  <2>1. (Taken' <=> Taken) /\ UNCHANGED <<down, got, far>>
    BY <1>0, <1>5 DEF Write, Taken
  <2>2. DownInv'
    BY <1>0, <2>1, SameDown, Zenon
  <2>3. Taken \/ skipped
    BY <1>0, <1>5, Zenon DEF Write, Taken, UseInv
  <2> QED BY <1>0, <1>5, <2>1, <2>2, <2>3, Zenon DEF Write, UseInv
<1>6. CASE ReadWaits(g)
  <2>1. (Taken' <=> Taken) /\ UNCHANGED <<down, got, far>>
    BY <1>0, <1>6 DEF ReadWaits, Taken, wire
  <2>2. DownInv'
    BY <1>0, <2>1, SameDown, Zenon
  <2>3. ~handshakeErr => Taken \/ skipped
    BY <1>0, <1>6, Zenon DEF ReadWaits, Taken
  <2> QED BY <1>0, <1>6, <2>1, <2>2, <2>3 DEF ReadWaits, UseInv
<1>7. CASE Read(g)
  <2>1. (Taken' <=> Taken) /\ UNCHANGED <<far, handshaked, once, returned, skipped>>
    BY <1>0, <1>7 DEF Read, Taken
  <2>2. UseInv'
    BY <1>0, <1>7, <2>1 DEF Read, UseInv
  <2>3. CASE UNCHANGED <<got, down>>
    BY <1>0, <2>1, <2>2, <2>3, SameDown, Zenon
  <2>4. CASE Arrived /\ got' = Append(got, Head(down)) /\ down' = Tail(down)
    <3>1. Taken
      BY <1>7, <2>4, SkippedIsSilent, Zenon DEF Read, UseInv, Arrived
    <3>2. /\ down \in Seq(Answers) /\ down # << >> /\ down' \in Seq(Answers) /\ Len(down') = Len(down) - 1
          /\ \A i \in 1..Len(down') : i + 1 \in 1..Len(down) /\ down'[i] = down[i + 1]
          /\ Head(down) = down[1] /\ 1 \in 1..Len(down) /\ Len(down) \in Nat /\ Len(got) \in Nat
      BY <2>4, SMTT(30) DEF DownInv, Arrived
    <3>3. Head(down) \in Answers /\ Head(down) = Payload("server", Len(got) + 1)
      BY <3>1, <3>2 DEF DownInv
    <3>4. /\ got' \in Seq(Answers) /\ Len(got') = Len(got) + 1 /\ got'[Len(got) + 1] = Head(down)
          /\ \A i \in 1..Len(got) : got'[i] = got[i]
      BY <2>4, <3>3 DEF DownInv
    <3>5. \A i \in 1..Len(down') : down'[i] = Payload("server", Len(got') + i)
      <4>1. \A i \in 1..Len(down) : down[i] = Payload("server", Len(got) + i)
        BY <3>1, Zenon DEF DownInv
      <4>2. \A i \in 1..Len(down') : i \in Nat /\ Len(got) + (i + 1) = Len(got') + i
        BY <3>2, <3>4
      <4> QED BY <3>2, <4>1, <4>2, SMTT(30)
    <3>6. ReadsOnlyData'
      <4>1. \A i \in 1..Len(got) : got[i] = Payload("server", i)
        BY Zenon DEF DownInv, ReadsOnlyData
      <4>2. \A i \in 1..Len(got') : i \in 1..Len(got) \/ i = Len(got) + 1
        BY <3>2, <3>4, SMTT(30)
      <4> QED BY <3>3, <3>4, <4>1, <4>2, Zenon DEF ReadsOnlyData
    <3>7. accept = "success"
      BY <3>1, Zenon DEF UseInv
    <3>8. far = "open" => Len(got') + Len(down') = downs
      <4>1. far = "open" => Len(got) + Len(down) = downs
        BY <3>1, Zenon DEF DownInv
      <4> QED BY <3>2, <3>4, <4>1
    <3>9. DownInv'
      BY <1>0, <2>1, <3>1, <3>2, <3>4, <3>5, <3>6, <3>7, <3>8, Zenon DEF DownInv
    <3> QED BY <2>2, <3>9, Zenon
  <2> QED BY <1>7, <2>3, <2>4, Zenon DEF Read
<1>8. CASE CloseOnce(g)
  <2>1. (Taken' <=> Taken) /\ UNCHANGED <<down, got, far>>
    BY <1>0, <1>8, SMTT(30) DEF CloseOnce, Taken, UseInv, wire
  <2>2. DownInv'
    BY <1>0, <2>1, SameDown, Zenon
  <2> QED BY <1>0, <1>8, <2>1, <2>2 DEF CloseOnce, UseInv
<1>9. CASE Close(g)
  <2>1. (Taken' <=> Taken) /\ UNCHANGED <<down, got, far>>
    BY <1>0, <1>9 DEF Close, Taken
  <2>2. DownInv'
    BY <1>0, <2>1, SameDown, Zenon
  <2> QED BY <1>0, <1>9, <2>1, <2>2 DEF Close, UseInv
<1> QED BY <1>1, <1>2, <1>3, <1>4, <1>5, <1>6, <1>7, <1>8, <1>9, Zenon DEF CallStep

\* Steps of the objects and of the server program keep them.
LEMMA ElsewhereKeepsGrant ==
  ASSUME RequestInv, UpInv, DownInv, UseInv,
         \/ \E m \in Mode : Store(m)
         \/ StartMux \/ StartRuns \/ ClientStop \/ StopMux \/ ServerStore \/ ServerStart \/ ServerStop
         \/ Accept \/ AcceptRequest \/ ServerWrites \/ ServerReads \/ ServerCloses
         \/ \E r \in {"success", "failure"} : ServerReplies(r)
         \/ UNCHANGED apiVars
  PROVE  DownInv' /\ UseInv'
<1> USE DEF Life, Listens, Accepts, history, apiVars, wire
<1>0. UNCHANGED <<dial, earlyVars, call, returned, skipped, got>>
  BY Zenon DEF Store, StartMux, StartRuns, ClientStop, StopMux, ServerStore, ServerStart,
     ServerStop, Accept,
         AcceptRequest, ServerWrites, ServerReads, ServerCloses, ServerReplies
<1>1. Taken' <=> Taken
  BY <1>0, Zenon DEF Taken, earlyVars
<1>2. Taken => accept = "success"
  BY Zenon DEF UseInv
<1>3. accept = "success" => accept' = "success"
  BY Zenon DEF Store, StartMux, StartRuns, ClientStop, StopMux, ServerStore, ServerStart,
     ServerStop, Accept,
         AcceptRequest, ServerWrites, ServerReads, ServerCloses, ServerReplies
<1>4. UseInv'
  BY <1>0, <1>1, <1>3, Zenon DEF UseInv, earlyVars
<1>5. CASE \/ (\E m \in Mode : Store(m)) \/ StartMux \/ StartRuns \/ ClientStop \/ StopMux
           \/ ServerStore \/ ServerStart \/ ServerReads \/ UNCHANGED apiVars
  <2>1. UNCHANGED <<down, got, downs, accept, far>>
    BY <1>5, Zenon DEF Store, StartMux, StartRuns, ClientStop, StopMux, ServerStore, ServerStart,
       ServerReads
  <2> QED BY <1>1, <1>4, <2>1, SameDown, Zenon
<1>6. CASE ServerStop
  <2>1. UNCHANGED <<down, got, downs, accept>> /\ (far' = far \/ far' # "open")
    BY <1>6, Zenon DEF ServerStop
  <2> QED BY <1>1, <2>1, SameDown, <1>4, Zenon
<1>7. CASE Accept \/ AcceptRequest
  <2>1. /\ UNCHANGED <<down, got, downs>>
        /\ accept \notin {"success", "failure"} /\ accept' \notin {"success", "failure"}
    BY <1>7, Zenon DEF Accept, AcceptRequest
  <2> QED BY <1>1, <1>2, <2>1, SameDown, <1>4, Zenon
<1>8. CASE ServerWrites \/ ServerCloses \/ \E r \in {"success", "failure"} : ServerReplies(r)
  BY <1>2, <1>4, <1>8, ServerKeepsDown, Zenon
<1> QED BY <1>4, <1>5, <1>6, <1>7, <1>8, Zenon

\* GrantInv is inductive relative to RequestInv.
LEMMA GrantStep ==
  ASSUME RequestInv, GrantInv, [ApiNext]_apiVars
  PROVE  GrantInv'
<1>1. UpInv'
  BY UpStep, Zenon DEF GrantInv
<1>2. CASE DialContext \/ DialMux \/ DialEarly \/ DialRequest \/ DialReply
  BY <1>1, <1>2, DialKeepsGrant, Zenon DEF GrantInv
<1>3. CASE \E g \in Callers : CallStep(g) \/ \E op \in {"read", "write", "close"} : Begin(g, op)
  BY <1>1, <1>3, CallKeepsGrant, Zenon DEF GrantInv
<1> QED BY <1>1, <1>2, <1>3, ElsewhereKeepsGrant, Zenon DEF GrantInv, ApiNext

\* What goroutines that share a connection of the API may rely on, whatever
\* their number and that of their calls: the request goes first and alone,
\* data that was reported as written was sent exactly once, reads return the
\* server program's payloads in order, and neither reports success before the
\* server program has granted the request.
THEOREM ConnectionIsSound == ApiSpec => []ConnectionSound
<1>1. RequestInv /\ DataInv /\ GrantInv => ConnectionSound
  <2> SUFFICES ASSUME RequestInv, DataInv, GrantInv PROVE ConnectionSound
    BY Zenon
  <2>1. UsableMeansGranted
    BY Zenon DEF GrantInv, DownInv, UseInv, UsableMeansGranted, Taken, RequestInv, ApiTypes
  <2> QED BY <2>1, Zenon DEF ConnectionSound, RequestInv, DataInv, GrantInv, DownInv
<1>2. /\ RequestInv /\ DataInv /\ GrantInv /\ [ApiNext]_apiVars
      => (RequestInv /\ DataInv /\ GrantInv)'
  BY RequestStep, DataStep, GrantStep, Zenon
<1> QED BY RequestInit, DataInit, GrantInit, <1>1, <1>2, PTL DEF ApiSpec
=============================================================================
