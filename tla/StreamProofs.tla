---------------------------- MODULE StreamProofs ----------------------------
(***************************************************************************)
(* The sessions of a stream underlay implement reliable byte streams, for  *)
(* any number of sessions, capacities and writes: the invariant SInv of    *)
(* StreamFlowProofs is inductive (StreamStep), and under it every step is  *)
(* a step of ReliableStream for each session, or leaves it alone           *)
(* (StreamRefinement).                                                     *)
(***************************************************************************)
EXTENDS StreamFlowProofs

-----------------------------------------------------------------------------
(* What a step of a session may do to its end.                             *)

\* A segment numbered by this step; the send queue, the hand, the receive channel,
\* the state and the log of the end that takes a step.
New(z, g) == /\ g.session = z[2] /\ g.kind # "openReq"
             /\ nextSend[z] <= g.seq /\ g.seq < nextSend'[z]
QueueStep(z) == /\ nextSend'[z] >= nextSend[z]
                /\ \A g \in sendQueue'[z] : g \in sendQueue[z] \/ New(z, g)
HandStep(z) ==
    /\ hand'[z] = hand[z] \/ hand'[z] = {} \/ \E g \in sendQueue[z] : hand'[z] = {g}
    /\ hand'[z] # {} => z \in oLock'
    /\ z \in outputErr' => hand'[z] = {}
ChanStep(z) == \/ recvChan'[z] = recvChan[z]
               \/ recvChan[z] # <<>> /\ recvChan'[z] = Tail(recvChan[z])
StateStep(z) ==
    /\ state[z] # "Init" /\ state'[z] # "Init"
    /\ state'[z] \in Live => state[z] \in Live
    /\ state'[z] = "Closed" => closing'[z] # "none"
LogStep(z) ==
    \/ log'[z] = log[z]
    \/ Write(z)
    \/ InputOpen(z)

\* Queueing a segment that is not the open request.
LEMMA EnqueueNew ==
    ASSUME TypeOK, NEW z \in End, NEW kind \in Kind \ {"openReq"}, NEW data \in Nat,
           Enqueue(z, kind, data)
    PROVE  QueueStep(z)
<1> DEFINE g == Seg(z, kind, nextSend[z], data)
<1>1. nextSend[z] \in Nat /\ g.session = z[2] /\ g.kind = kind /\ g.seq = nextSend[z]
  BY SegType, EndTypes
<1>2. nextSend'[z] = nextSend[z] + 1 /\ sendQueue'[z] = Insert(sendQueue[z], g)
  BY Zenon DEF Enqueue, TypeOK
<1> HIDE DEF g
<1> QED  BY <1>1, <1>2 DEF QueueStep, New, Insert

\* Starting to close.
LEMMA StartCloseNew ==
    ASSUME TypeOK, NEW z \in End, NEW who, who # "none", NEW reply \in Nat,
           StartClose(z, who, reply)
    PROVE  QueueStep(z) /\ closing'[z] # "none"
<1> DEFINE g == Seg(z, "closeReq", nextSend[z] + reply, 0)
<1>1. nextSend[z] \in Nat /\ nextSend[z] + reply \in Nat /\ "closeReq" \in Kind /\ 0 \in Nat
  BY EndTypes DEF Kind
<1>2. g.session = z[2] /\ g.kind = "closeReq" /\ g.seq = nextSend[z] + reply
  BY <1>1, SegType
<1>3. CASE closing[z] # "none"
  BY <1>1, <1>3 DEF StartClose, QueueStep, closeVars, TypeOK
<1>4. CASE closing[z] = "none"
  <2>1. /\ closing'[z] = who /\ nextSend'[z] = nextSend[z] + reply + 1
        /\ sendQueue'[z] = Insert(sendQueue[z], g) \/ sendQueue'[z] = sendQueue[z]
    BY <1>4 DEF StartClose, TypeOK
  <2> HIDE DEF g
  <2> QED  BY <1>1, <1>2, <2>1 DEF QueueStep, New, Insert
<1> QED  BY <1>3, <1>4, Zenon

\* The queues and the lock of an end that takes a step.
LEMMA LocalStep ==
    ASSUME SInv, TypeOK', NEW z \in End, SessionStep(z)
    PROVE  QueueStep(z) /\ HandStep(z) /\ ChanStep(z) /\ StateStep(z) /\ LogStep(z)
<1>1. TypeOK /\ Own(z) /\ Life(z) /\ nextSend[z] \in Nat /\ nextSend[z] + 1 >= nextSend[z]
  BY EndTypes DEF SInv
<1>2. CASE Close(z)
  <2>1. QueueStep(z) /\ closing'[z] # "none"
    BY <1>1, <1>2, StartCloseNew, Zenon DEF Close
  <2> QED  BY <1>1, <1>2, <2>1
          , Zenon DEF Close, HandStep, ChanStep, StateStep, LogStep, Own, Life, recvVars, Live
<1>3. CASE CloseSucceeds(z)
  <2>1. QueueStep(z)
    BY <1>1, <1>3, SMTT(30) DEF CloseSucceeds, Finish, QueueStep, TypeOK
  <2> QED  BY <1>1, <1>3, <2>1, SMTT(30)
           DEF CloseSucceeds, Finish, HandStep, ChanStep, StateStep, LogStep, Own, Life,
               recvVars, closeVars, Live, TypeOK
<1>4. CASE CloseTimesOut(z)
  <2>1. QueueStep(z)
    BY <1>1, <1>4 DEF CloseTimesOut, Finish, QueueStep, TypeOK
  <2> QED  BY <1>1, <1>4, <2>1, SMTT(30)
           DEF CloseTimesOut, Finish, HandStep, ChanStep, StateStep, LogStep, Own, Life,
               recvVars, Live, TypeOK
<1>5. CASE Write(z)
  <2>1. nextSend[z] + 1 \in Nat /\ "data" \in Kind \ {"openReq"}
    BY <1>1, NextNat, Zenon DEF Kind, StreamKind
  <2>2. QueueStep(z)
    BY <1>1, <1>5, <2>1, EnqueueNew, Zenon DEF Write
  <2> QED  BY <1>1, <1>5, <2>2
          , Zenon DEF Write, MayWrite, HandStep, ChanStep, StateStep, LogStep, Own, Life, recvVars, Live
<1>6. CASE Read(z)
  <2>1. recvQueue[z] # {}
    BY <1>6, Zenon DEF Read, First
  <2>2. state[z] # "Init"
    BY <1>1, <2>1, Zenon DEF Life
  <2>3. state'[z] = state[z] \/ (state'[z] = "Established" /\ state[z] = "Attached")
    BY <1>1, <1>6 DEF Read, TypeOK
  <2>4. StateStep(z)
    BY <1>1, <1>6, <2>2, <2>3, Zenon DEF Read, StateStep, closeVars, Life, Live
  <2> QED  BY <1>1, <1>6, <2>4 DEF Read, QueueStep, HandStep, ChanStep, LogStep, Own, sendVars
<1>7. CASE OutputTake(z)
  <2>1. PICK g \in First(sendQueue[z]) :
            /\ hand' = [hand EXCEPT ![z] = {g}]
            /\ sendQueue' = [sendQueue EXCEPT ![z] = @ \ {g}]
    BY <1>7, Zenon DEF OutputTake
  <2>2. g \in sendQueue[z] /\ hand'[z] = {g} /\ sendQueue'[z] = sendQueue[z] \ {g}
    BY <1>1, <2>1, Zenon DEF First, TypeOK
  <2>3. state[z] # "Init"
    BY <1>1, <2>2, Zenon DEF Life
  <2>4. HandStep(z)
    BY <1>7, <2>2, Zenon DEF OutputTake, HandStep
  <2> QED  BY <1>1, <1>7, <2>2, <2>3, <2>4, SMTT(30)
           DEF OutputTake, QueueStep, ChanStep, StateStep, LogStep, Life, recvVars, closeVars
<1>8. CASE OutputPut(z)
  <2>1. hand[z] # {} /\ hand'[z] = {}
    BY <1>1, <1>8, Zenon DEF OutputPut, TypeOK
  <2>2. state[z] # "Init"
    BY <1>1, <2>1, Zenon DEF Life
  <2> QED  BY <1>1, <1>8, <2>1, <2>2, SMTT(30)
           DEF OutputPut, QueueStep, HandStep, ChanStep, StateStep, LogStep, Life, recvVars, closeVars
<1>9. CASE OutputFails(z)
  <2>1. hand[z] # {} /\ hand'[z] = {}
    BY <1>1, <1>9, ZenonT(60) DEF OutputFails, TypeOK
  <2>2. state[z] # "Init"
    BY <1>1, <2>1, Zenon DEF Life
  <2>3. QueueStep(z) /\ StateStep(z)
    BY <1>1, <1>9, <2>2, SMTT(30)
       DEF OutputFails, Abort, Finish, QueueStep, StateStep, Life, closeVars, TypeOK, Live
  <2> QED  BY <1>9, <2>1, <2>3, Zenon DEF OutputFails, HandStep, ChanStep, LogStep, recvVars
<1>10. ASSUME InputRuns(z) PROVE recvChan[z] # <<>> /\ state[z] \in Live /\ state[z] # "Init"
  BY <1>10, ZenonT(60) DEF InputRuns, Live
<1>11. CASE InputData(z)
  BY <1>1, <1>10, <1>11, SMTT(30)
     DEF InputData, Accept, QueueStep, HandStep, ChanStep, StateStep, LogStep, Own, Life,
         sendVars, closeVars, TypeOK
<1>12. CASE InputOpen(z)
  <2>1. "openResp" \in Kind \ {"openReq"} /\ 0 \in Nat
    BY Zenon DEF Kind, StreamKind
  <2>2. QueueStep(z)
    BY <1>1, <1>12, <2>1, EnqueueNew, Zenon DEF InputOpen
  <2>3. StateStep(z)
    BY <1>1, <1>10, <1>12, ZenonT(60) DEF InputOpen, StateStep, Live, TypeOK
  <2>4. ChanStep(z)
    BY <1>1, <1>10, <1>12, ZenonT(60) DEF InputOpen, Accept, ChanStep, TypeOK
  <2> QED  BY <1>1, <1>12, <2>2, <2>3, <2>4, ZenonT(60) DEF InputOpen, HandStep, LogStep, Own
<1>13. CASE InputRefused(z)
  <2>1. QueueStep(z) /\ closing'[z] # "none"
    BY <1>1, <1>13, StartCloseNew, Zenon DEF InputRefused
  <2>2. ChanStep(z)
    BY <1>1, <1>10, <1>13, ZenonT(60) DEF InputRefused, Accept, ChanStep, TypeOK
  <2>3. StateStep(z)
    BY <1>10, <1>13, <2>1, Zenon DEF InputRefused, StateStep
  <2> QED  BY <1>1, <1>13, <2>1, <2>2, <2>3, Zenon DEF InputRefused, HandStep, LogStep, Own
<1>14. CASE InputClose(z)
  <2>1. QueueStep(z) /\ closing'[z] # "none"
    <3>1. StartClose(z, "peer", 1) \/ StartClose(z, "peer", 0)
      BY <1>14, Zenon DEF InputClose
    <3> QED  BY <1>1, <3>1, StartCloseNew, Zenon
  <2>2. ChanStep(z)
    BY <1>1, <1>10, <1>14, Zenon DEF InputClose, ChanStep, TypeOK
  <2>3. StateStep(z)
    BY <1>10, <1>14, <2>1, Zenon DEF InputClose, StateStep
  <2> QED  BY <1>1, <1>14, <2>1, <2>2, <2>3, Zenon DEF InputClose, HandStep, LogStep, Own
<1>15. CASE InputCloseFails(z)
  <2>1. QueueStep(z) /\ StateStep(z)
    BY <1>1, <1>10, <1>15, SMTT(30) DEF InputCloseFails, Abort, Finish, QueueStep, StateStep, TypeOK, Live
  <2> QED  BY <1>1, <1>15, <2>1, ZenonT(60) DEF InputCloseFails, HandStep, ChanStep, LogStep, Own,
              recvVars
<1> QED
  BY <1>2, <1>3, <1>4, <1>5, <1>6, <1>7, <1>8, <1>9, <1>11, <1>12, <1>13, <1>14, <1>15, ZenonT(60)
    , Zenon DEF SessionStep, InputStep

\* The channel of a session holds segments of the session only.
InChan(x) == \A i \in 1..Len(recvChan[x]) : recvChan[x][i].session = x[2]

\* Taking a segment from the receive channel.
LEMMA InChanTail ==
    ASSUME TypeOK, NEW x \in End, InChan(x), ChanStep(x)
    PROVE  InChan(x)'
<1>1. recvChan[x] \in Seq(Segment)
  BY EndTypes, Zenon
<1>2. CASE recvChan'[x] = recvChan[x]
  BY <1>2, Zenon DEF InChan
<1>3. CASE recvChan[x] # <<>> /\ recvChan'[x] = Tail(recvChan[x])
  <2> DEFINE q == recvChan[x]
  <2>1. /\ Len(Tail(q)) = Len(q) - 1 /\ Len(q) \in Nat
        /\ \A i \in 1..(Len(q) - 1) : Tail(q)[i] = q[i + 1]
    BY <1>1, <1>3
  <2>2. \A i \in 1..(Len(q) - 1) : i + 1 \in 1..Len(q)
    BY <2>1
  <2>3. \A i \in 1..(Len(q) - 1) : Tail(q)[i].session = x[2]
    BY <2>1, <2>2, Zenon DEF InChan
  <2> HIDE DEF q
  <2>4. Len(recvChan'[x]) = Len(q) - 1 /\ recvChan'[x] = Tail(q)
    BY <1>3, <2>1 DEF q
  <2> QED  BY <2>3, <2>4, Zenon DEF InChan
<1> QED  BY <1>2, <1>3, Zenon DEF ChanStep

\* A segment of the session joins the receive channel.
LEMMA InChanAppend ==
    ASSUME TypeOK, NEW x \in End, InChan(x), NEW g \in Segment, g.session = x[2],
           recvChan'[x] = Append(recvChan[x], g)
    PROVE  InChan(x)'
<1> DEFINE q == recvChan[x]
<1>1. q \in Seq(Segment) /\ Len(q) \in Nat
  BY EndTypes
<1>2. Len(Append(q, g)) = Len(q) + 1 /\ Append(q, g)[Len(q) + 1] = g
      /\ \A i \in 1..Len(q) : Append(q, g)[i] = q[i]
  BY <1>1
<1>3. \A i \in 1..(Len(q) + 1) : i \in 1..Len(q) \/ i = Len(q) + 1
  BY <1>1
<1> QED  BY <1>2, <1>3, Zenon DEF InChan

\* A segment that arrives for an end.
LEMMA InChanArrives ==
    ASSUME SInv, TypeOK', NEW e \in Side, UnderlayStep(e), NEW x \in End
    PROVE  /\ InChan(x)'
           /\ recvChan'[x] # recvChan[x] => x \in registered'
           /\ \/ recvChan'[x] = recvChan[x]
              \/ \E g \in Segment : /\ g.session = x[2]
                                    /\ g.kind \in StreamKind => g \in Net(Other(x))
                                    /\ recvChan'[x] = Append(recvChan[x], g)
                                    /\ g.kind = "openReq" => OnOpenSessionRequest(e)
<1>1. TypeOK /\ InChan(x)
  BY Zenon DEF SInv, Own, InChan
<1>2. CASE recvChan'[x] = recvChan[x]
  BY <1>1, <1>2, Zenon DEF InChan
<1>3. CASE recvChan'[x] # recvChan[x]
  <2> DEFINE g == Arriving(e)
             t == Target(e)
             w == Other(t)
  <2>1. (Deliver(e) \/ OnOpenSessionRequest(e)) /\ Reads(e) /\ Consume(e) /\ conn[Peer(e)] # <<>>
    BY <1>3, Zenon DEF UnderlayStep, EventStep, Deliver, OnOpenSessionRequest,
       OnUnknownOpenResponse,
       OnUnknownSession, Answer, CleanSessions, CleanSessionsEnd, EventFails, EventEnds,
       CloseUnderlay, CloseUnderlayEnd, recvVars, Reads
  <2>2. g \in Segment /\ t \in End /\ t[1] = e /\ t[2] = g.session
    BY <2>1, ArrivingFacts, Zenon DEF SInv
  <2>3. w \in End /\ Other(w) = t
    BY <2>2, Ends, Zenon
  <2>4. /\ g.kind \in StreamKind => g \in Net(w)
        /\ g.kind \in StreamKind => \A h \in Net(w) : h # g => g.seq < h.seq
    BY <2>1, ArrivesFirst, Zenon
  <2>5. CASE Deliver(e)
    <3>1. x = t /\ recvChan'[t] = Append(recvChan[t], g) /\ x \in registered' /\ g.kind # "openReq"
      BY <1>1, <1>3, <2>2, <2>5, ZenonT(60) DEF Deliver, DeliverSegmentToSession, TypeOK
    <3>2. InChan(x)'
      BY <1>1, <2>2, <3>1, InChanAppend, Zenon
    <3> QED  BY <2>2, <2>4, <3>1, <3>2, ZenonT(60)
  <2>6. CASE OnOpenSessionRequest(e)
    <3>1. x = t /\ recvChan'[t] = <<g>> /\ x \in registered' /\ g.kind = "openReq"
      BY <1>1, <1>3, <2>2, <2>6, ZenonT(60) DEF OnOpenSessionRequest, TypeOK
    <3>2. state[t] = "Init"
      BY <2>2, <2>3, <2>4, <3>1, OpenReqIsFirst, Zenon DEF StreamKind
    <3>3. recvChan[t] = <<>>
      BY <2>2, <3>2, Zenon DEF SInv, Life
    <3>4. recvChan'[t] = Append(recvChan[t], g)
      BY <3>1, <3>3
    <3>5. InChan(x)'
      BY <1>1, <2>2, <3>1, <3>4, InChanAppend, Zenon
    <3> QED  BY <2>2, <2>4, <2>6, <3>1, <3>4, <3>5, Zenon
  <2> QED  BY <2>1, <2>5, <2>6, Zenon
<1> QED  BY <1>2, <1>3, Zenon

\* Every step keeps what an end holds its own.
LEMMA OwnStep ==
    ASSUME SInv, TypeOK', [Next]_vars, NEW x \in End
    PROVE  Own(x)'
<1>1. TypeOK /\ Own(x) /\ InChan(x) /\ nextSend[x] \in Nat /\ nextSend'[x] \in Nat
      /\ (\A g \in sendQueue[x] : g.seq \in Nat)
  <2>1. TypeOK /\ Own(x)
    BY Zenon DEF SInv
  <2>2. nextSend[x] \in Nat /\ nextSend'[x] \in Nat /\ sendQueue[x] \subseteq Segment
    BY <2>1, Zenon DEF TypeOK
  <2> QED  BY <2>1, <2>2, Zenon DEF Own, InChan, Segment
<1>2. ASSUME NEW z \in End, SessionStep(z) PROVE Own(x)'
  <2>1. CASE x # z
    <3>1. SameEnd(x)
      BY <1>1, <1>2, <2>1, OnlyHere, Zenon
    <3> QED  BY <1>1, <3>1 DEF SameEnd, Own
  <2>2. CASE x = z
    <3>1. QueueStep(x) /\ HandStep(x) /\ ChanStep(x)
      BY <1>2, <2>2, LocalStep, Zenon
    <3>2. InChan(x)'
      BY <1>1, <3>1, InChanTail, ZenonT(60)
    <3>3. /\ \A g \in sendQueue'[x] : g.session = x[2] /\ g.seq < nextSend'[x]
          /\ \A g \in hand'[x] : g.session = x[2]
          /\ \A g, h \in hand'[x] : g = h
      BY <1>1, <3>1 DEF QueueStep, HandStep, New, Own
    <3> QED  BY <3>1, <3>2, <3>3, Zenon DEF HandStep, Own, InChan
  <2> QED  BY <2>1, <2>2, ZenonT(60)
<1>3. ASSUME NEW e \in Side, UnderlayStep(e) PROVE Own(x)'
  <2>1. InChan(x)'
    BY <1>3, InChanArrives, Zenon
  <2>2. UNCHANGED <<sendVars, outputErr>>
    BY <1>3, Zenon DEF UnderlayStep, EventStep, Deliver, OnOpenSessionRequest,
       OnUnknownOpenResponse,
       OnUnknownSession, Answer, CleanSessions, CleanSessionsEnd, EventFails, EventEnds,
       CloseUnderlay, CloseUnderlayEnd
  <2> QED  BY <1>1, <2>1, <2>2, Zenon DEF Own, InChan, sendVars
<1>4. ASSUME NEW s \in Sessions, DialSession(s) PROVE Own(x)'
  BY <1>1, <1>4, Zenon DEF DialSession, Own, sendVars, recvVars
<1>5. ASSUME NEW s \in Sessions, NEW data \in {0, 1}, OpenSession(s, data) PROVE Own(x)'
  <2> DEFINE c == <<"client", s>>
             g == Seg(c, "openReq", nextSend[c], data)
  <2>1. c \in End /\ Enqueue(c, "openReq", data)
    BY <1>5, Zenon DEF OpenSession, End, Side
  <2>2. UNCHANGED <<outputErr, hand, oLock, recvVars>>
    BY <1>5, Zenon DEF OpenSession
  <2>3. CASE x # c
    BY <1>1, <2>1, <2>2, <2>3, ZenonT(60) DEF Enqueue, TypeOK, Own, recvVars
  <2>4. CASE x = c
    <3>1. g.session = x[2] /\ g.seq = nextSend[x]
      BY <2>4, Zenon DEF Seg
    <3>2. nextSend'[x] = nextSend[x] + 1 /\ sendQueue'[x] = Insert(sendQueue[x], g)
      BY <1>1, <2>1, <2>4, ZenonT(60) DEF Enqueue, TypeOK
    <3> HIDE DEF g
    <3>3. \A h \in sendQueue'[x] : h.session = x[2] /\ h.seq < nextSend'[x]
      BY <1>1, <3>1, <3>2 DEF Insert, Own
    <3> QED  BY <1>1, <2>2, <3>3, Zenon DEF Own, recvVars
  <2> QED  BY <2>3, <2>4, Zenon
<1>6. CASE CloseIfIdle
  <2>1. /\ sendQueue'[x] \subseteq sendQueue[x] /\ nextSend'[x] >= nextSend[x]
        /\ hand[x] # {} /\ x \in oLock => x \in oLock'
    BY <1>1, <1>6 DEF CloseIfIdle
  <2>2. UNCHANGED <<outputErr, hand, recvVars>>
    BY <1>6, Zenon DEF CloseIfIdle
  <2>3. \A h \in sendQueue'[x] : h.session = x[2] /\ h.seq < nextSend'[x]
    BY <1>1, <2>1 DEF Own
  <2> QED  BY <1>1, <2>1, <2>2, <2>3, Zenon DEF Own, recvVars
<1>7. CASE Break \/ UNCHANGED vars
  BY <1>1, <1>7, ZenonT(60) DEF Break, vars, Own, sendVars, recvVars
<1> QED  BY <1>2, <1>3, <1>4, <1>5, <1>6, <1>7, Zenon DEF Next

\* Every step keeps registration and state together.
LEMMA LifeStep ==
    ASSUME SInv, TypeOK', [Next]_vars, NEW x \in End
    PROVE  Life(x)'
<1>1. TypeOK /\ Life(x)
  BY Zenon DEF SInv
<1>2. ASSUME NEW z \in End, SessionStep(z) PROVE Life(x)'
  <2>1. CASE x # z
    <3>1. SameEnd(x) /\ registered' = registered
      BY <1>1, <1>2, <2>1, OnlyHere, Zenon
    <3> QED  BY <1>1, <3>1, Zenon DEF SameEnd, Life
  <2>2. CASE x = z
    <3>1. StateStep(x)
      BY <1>2, <2>2, LocalStep, Zenon
    <3>2. registered' = registered
      <4>1. Other(x) \in End /\ Other(x) # z
        BY <2>2, Ends, Zenon
      <4> QED  BY <1>1, <1>2, <4>1, OnlyHere, Zenon
    <3> QED  BY <1>1, <3>1, <3>2, Zenon DEF StateStep, Life
  <2> QED  BY <2>1, <2>2, Zenon
<1>3. ASSUME NEW e \in Side, UnderlayStep(e) PROVE Life(x)'
  <2>1. /\ recvChan'[x] # recvChan[x] => x \in registered'
    BY <1>3, InChanArrives, ZenonT(60)
  <2>2. /\ UNCHANGED <<sendVars, closing, recvQueue, delivered>>
        /\ \/ state'[x] = state[x] /\ (x \in registered' => x \in registered)
              /\ (x \in registered /\ state[x] # "Closed" => x \in registered')
           \/ state'[x] = "Attached" /\ x \in registered'
    BY <1>1, <1>3, ZenonT(60) DEF UnderlayStep, EventStep, Deliver, OnOpenSessionRequest, OnUnknownOpenResponse,
       OnUnknownSession, Answer, CleanSessions, CleanSessionsEnd, EventFails, EventEnds,
       CloseUnderlay, CloseUnderlayEnd, closeVars, recvVars, loopVars, ClosedOn, TypeOK
  <2> QED  BY <1>1, <2>1, <2>2, Zenon DEF Life, sendVars, Live
<1>4. ASSUME NEW s \in Sessions, DialSession(s) PROVE Life(x)'
  <2>1. state'[x] = state[x] \/ (state'[x] = "Attached" /\ x \in registered')
    BY <1>1, <1>4, Zenon DEF DialSession, TypeOK
  <2>2. x \in registered' => x \in registered \/ state'[x] = "Attached"
    BY <1>1, <1>4, Zenon DEF DialSession, TypeOK
  <2>3. registered \subseteq registered' /\ UNCHANGED <<closeVars, sendVars, recvVars>>
    BY <1>4, Zenon DEF DialSession
  <2> QED  BY <1>1, <2>1, <2>2, <2>3, Zenon DEF Life, closeVars, sendVars, recvVars, Live
<1>5. ASSUME NEW s \in Sessions, NEW data \in {0, 1}, OpenSession(s, data) PROVE Life(x)'
  <2>1. state' = state /\ registered' = registered /\ closing' = closing
        /\ recvVars' = recvVars /\ hand' = hand /\ state[<<"client", s>>] = "Attached"
    BY <1>5, Zenon DEF OpenSession, closeVars, loopVars
  <2>2. x # <<"client", s>> => log'[x] = log[x] /\ sendQueue'[x] = sendQueue[x]
    BY <1>1, <1>5, Zenon DEF OpenSession, Enqueue, TypeOK
  <2> QED  BY <1>1, <2>1, <2>2, Zenon DEF Life, recvVars, Live
<1>6. CASE CloseIfIdle
  <2>1. /\ recvVars' = recvVars /\ hand' = hand /\ log' = log /\ registered' = registered
        /\ \/ state'[x] = state[x] /\ closing'[x] = closing[x] /\ sendQueue'[x] = sendQueue[x]
           \/ state'[x] = "Closed" /\ closing'[x] = "output"
    BY <1>6, Zenon DEF CloseIfIdle, loopVars
  <2> QED  BY <1>1, <2>1, Zenon DEF Life, recvVars, Live
<1>7. CASE Break \/ UNCHANGED vars
  BY <1>1, <1>7, Zenon DEF Break, vars, Life, sendVars, recvVars, loopVars, closeVars
<1> QED  BY <1>2, <1>3, <1>4, <1>5, <1>6, <1>7, Zenon DEF Next

\* What keeps the place of the open request.
LEMMA OpenedKept ==
    ASSUME NEW s, NEW c, NEW v, c = <<"client", s>>, v = <<"server", s>>, Opened(s),
           s \in openSent' <=> s \in openSent,
           \/ log'[c] = log[c]
           \/ log[c] # <<>> /\ log'[c] # <<>> /\ log'[c][1] = log[c][1],
           state[c] # "Init" => state'[c] # "Init", state'[v] # "Init" => state[v] # "Init",
           \A g \in Sending(c)' : \/ g \in Sending(c)
                                  \/ g.kind # "openReq" /\ g.seq # log[c][1].seq,
           \A g \in Sending(v)' \cup Fl(s, recvChan'[c]) :
               g \in Sending(v) \cup Fl(s, recvChan[c]) \/ g.kind # "openReq"
    PROVE  Opened(s)'
<1>1. \A g \in Sending(c)' : g.kind = "openReq" <=> g.seq = log'[c][1].seq
  BY ZenonT(60) DEF Opened
<1>2. state'[v] # "Init" => \A g \in Sending(c)' : g.kind # "openReq"
  BY Zenon DEF Opened
<1>3. \A g \in Sending(v)' \cup Fl(s, recvChan'[c]) : g.kind # "openReq"
  BY Zenon DEF Opened
<1>4. /\ s \in openSent' <=> log'[c] # <<>>
      /\ s \in openSent' => state'[c] # "Init"
      /\ state'[v] # "Init" => s \in openSent'
  BY Zenon DEF Opened
<1> QED  BY <1>1, <1>2, <1>3, <1>4, Zenon DEF Opened

\* What a step of a session puts on the connection comes from its queue.
LEMMA NetGrows ==
    ASSUME SInv, NEW z \in End, SessionStep(z)
    PROVE  \A g \in Net(z)' : g \in Net(z) \/ g \in Out(z)
<1>1. TypeOK /\ z[1] \in Side /\ conn[z[1]] \in Seq(Segment)
  BY Ends, EndTypes, Zenon DEF SInv
<1>2. CASE UNCHANGED conn
  BY <1>2, Zenon DEF Net
<1>3. ASSUME NEW seg \in Segment, Put(z[1], seg)
      PROVE  \A g \in Net(z)' : g \in Net(z) \/ (g = seg /\ Mine(z[2], seg))
  <2> DEFINE q == conn[z[1]]
             s == z[2]
  <2>1. conn'[z[1]] = q \/ conn'[z[1]] = Append(q, seg)
    BY <1>1, <1>3, Zenon DEF Put, TypeOK
  <2>2. q \in Seq(Segment)
    BY <1>1, Zenon
  <2> HIDE DEF q, s
  <2>3. Mine(s, seg) => Fl(s, Append(q, seg)) = Fl(s, q) \cup {seg}
    BY <2>2, FlGrows
  <2>4. ~Mine(s, seg) => Fl(s, Append(q, seg)) = Fl(s, q)
    BY <2>2, FlAppend, Zenon
  <2> QED  BY <2>1, <2>3, <2>4, Zenon DEF Net, q, s
<1>4. CASE CloseTimesOut(z)
  <2>1. closeSeq[z] \in Nat /\ "closeReq" \in Kind /\ 0 \in Nat
    BY <1>1, Zenon DEF Kind, TypeOK
  <2>2. Seg(z, "closeReq", closeSeq[z], 0) \in Segment
    BY <2>1, SegType, Zenon
  <2>3. ~Mine(z[2], Seg(z, "closeReq", closeSeq[z], 0))
    BY Zenon DEF Mine, Seg, StreamKind
  <2> QED  BY <1>2, <1>3, <1>4, <2>2, <2>3, Zenon DEF CloseTimesOut
<1>5. CASE OutputPut(z)
  <2>1. PICK seg \in hand[z] : Put(z[1], seg)
    BY <1>5, Zenon DEF OutputPut
  <2>2. seg \in Segment
    BY <1>1, <2>1, EndTypes, Zenon
  <2> QED  BY <1>3, <2>1, <2>2, Zenon DEF Out, Str, Mine
<1>6. CASE InputClose(z)
  <2>1. nextSend[z] \in Nat /\ "closeResp" \in Kind /\ 0 \in Nat
    BY <1>1, Zenon DEF Kind, TypeOK
  <2>2. Seg(z, "closeResp", nextSend[z], 0) \in Segment
    BY <2>1, SegType, Zenon
  <2>3. ~Mine(z[2], Seg(z, "closeResp", nextSend[z], 0))
    BY Zenon DEF Mine, Seg, StreamKind
  <2> QED  BY <1>2, <1>3, <1>6, <2>2, <2>3, Zenon DEF InputClose
<1> QED
  BY <1>2, <1>4, <1>5, <1>6, ZenonT(60) DEF SessionStep, InputStep, Close, CloseSucceeds, Write, Read,
     OutputTake, OutputFails, InputData, InputOpen, InputRefused, InputCloseFails

\* A step of a session queues no open request.
LEMMA SendingType ==
    ASSUME TypeOK', NEW x \in End
    PROVE  Sending(x)' \subseteq Segment
<1>1. /\ conn'[x[1]] \in Seq(Segment)
      /\ hand'[x] \in SUBSET Segment /\ sendQueue'[x] \in SUBSET Segment
  BY Ends, Zenon DEF TypeOK
<1>2. Fl(x[2], conn'[x[1]]) \in SUBSET Segment
  BY <1>1, FlType, Zenon
<1> QED  BY <1>1, <1>2, Zenon DEF Sending, Str

\* A step of a session sends nothing but what it numbers.
LEMMA SendingStep ==
    ASSUME SInv, TypeOK', NEW z \in End, SessionStep(z), NEW g \in Sending(z)'
    PROVE  g \in Sending(z) \/ New(z, g)
<1>1. QueueStep(z) /\ HandStep(z)
  BY LocalStep, Zenon
<1>2. g \in Net(z)' \/ g \in Str(hand'[z]) \/ g \in Str(sendQueue'[z])
  BY Zenon DEF Sending, Net
<1>3. CASE g \in Net(z)'
  BY <1>3, NetGrows, Zenon DEF Sending, Net, Out
<1>4. CASE g \in Str(hand'[z])
  BY <1>1, <1>4, Zenon DEF HandStep, Str, Sending
<1>5. CASE g \in Str(sendQueue'[z])
  BY <1>1, <1>5, Zenon DEF QueueStep, Str, Sending
<1> QED  BY <1>2, <1>3, <1>4, <1>5, Zenon

\* The channel of an end that takes a step only loses segments.
LEMMA FlShrinks ==
    ASSUME TypeOK, NEW z \in End, ChanStep(z), NEW s
    PROVE  Fl(s, recvChan'[z]) \subseteq Fl(s, recvChan[z])
<1>1. recvChan[z] \in Seq(Segment)
  BY EndTypes, Zenon
<1> DEFINE q == recvChan[z]
<1>2. q \in Seq(Segment)
  BY <1>1, Zenon
<1> HIDE DEF q
<1>3. q # <<>> => Fl(s, Tail(q)) \subseteq Fl(s, q)
  <2> SUFFICES ASSUME q # <<>> PROVE Fl(s, Tail(q)) \subseteq Fl(s, q)
    BY Zenon
  <2>1. Mine(s, Head(q)) => Fl(s, q) = Fl(s, Tail(q)) \cup {Head(q)}
    BY <1>2, FlTail, Zenon
  <2>2. ~Mine(s, Head(q)) => Fl(s, q) = Fl(s, Tail(q))
    BY <1>2, FlTail, Zenon
  <2> QED  BY <2>1, <2>2, Zenon
<1> QED  BY <1>3, Zenon DEF ChanStep, q

\* The open request of a session is not queued twice.
LEMMA OpenedSession ==
    ASSUME SInv, TypeOK', NEW z \in End, SessionStep(z), NEW s \in Sessions
    PROVE  Opened(s)'
<1> DEFINE c == <<"client", s>>
           v == <<"server", s>>
<1>1. /\ TypeOK /\ Opened(s) /\ c \in End /\ v \in End /\ c # v /\ c[2] = s /\ v[2] = s
      /\ Other(c) = v /\ Other(v) = c
  BY Zenon DEF SInv, End, Side, Other, Peer
<1>2. openSent' = openSent
  <2>1. PICK y \in End : y # z
    BY <1>1
  <2> QED  BY <1>1, <2>1, OnlyHere, Zenon
<1>3. QueueStep(z) /\ HandStep(z) /\ ChanStep(z) /\ StateStep(z) /\ LogStep(z)
  BY LocalStep, Zenon
<1>4. ASSUME NEW x \in End, x # z
      PROVE  Sending(x)' = Sending(x) /\ log'[x] = log[x] /\ state'[x] = state[x]
             /\ recvChan'[x] = recvChan[x]
  <2>1. SameEnd(x) /\ ConnSame(x)
    BY <1>1, <1>4, OnlyHere, ConnElsewhere, ZenonT(60)
  <2> QED  BY <2>1, Zenon DEF SameEnd, ConnSame, Sending
<1>5. CASE z = c
  <2>1. \A g \in Sending(c)' : g \in Sending(c) \/ New(c, g)
    BY <1>5, SendingStep, Zenon
  <2>2. Fl(s, recvChan'[c]) \subseteq Fl(s, recvChan[c])
    BY <1>1, <1>3, <1>5, FlShrinks, Zenon
  <2>3. ~InputOpen(c)
    <3> SUFFICES ASSUME InputOpen(c) PROVE FALSE
      BY Zenon
    <3>1. /\ recvChan[c] # <<>> /\ recvChan[c] \in Seq(Segment)
          /\ Head(recvChan[c]).kind = "openReq"
      BY <1>1, EndTypes, Zenon DEF InputOpen, InputRuns
    <3>2. /\ Head(recvChan[c]) = recvChan[c][1] /\ 1 \in 1..Len(recvChan[c])
      BY <3>1
    <3>3. recvChan[c][1].session = s
      BY <1>1, <3>2, Zenon DEF SInv, Own
    <3>4. recvChan[c][1] \in Fl(s, recvChan[c])
      BY <3>1, <3>2, <3>3, Zenon DEF Fl, Mine, StreamKind
    <3> QED  BY <1>1, <3>1, <3>2, <3>4, Zenon DEF Opened
  <2>4. /\ \/ log'[c] = log[c]
           \/ log[c] # <<>> /\ log'[c] # <<>> /\ log'[c][1] = log[c][1]
        /\ \A g \in Sending(c)' : \/ g \in Sending(c)
                                  \/ g.kind # "openReq" /\ g.seq # log[c][1].seq
    <3> DEFINE L == log[c]
    <3>1. L \in Seq(Element) /\ nextSend[c] \in Nat
      BY <1>1, EndTypes, Zenon
    <3>2. CASE L # <<>>
      <4>1. 1 \in 1..Len(L)
        BY <3>1, <3>2
      <4>2. L[1].seq < nextSend[c] /\ L[1].seq \in Nat
        <5>1. FlowOf(c)
          BY <1>1, Zenon DEF SInv
        <5> QED  BY <3>1, <4>1, <5>1, ElementAt, Zenon DEF FlowOf, Flow, Numbers
      <4>3. ASSUME NEW g, g \in Sending(c)', New(c, g) PROVE g.kind # "openReq" /\ g.seq # L[1].seq
        <5>1. g \in Segment
          <6>1. Sending(c)' \subseteq Segment
            BY <1>1, SendingType, Zenon
          <6> QED  BY <4>3, <6>1, Zenon
        <5>2. g.seq \in Nat
          BY <5>1, Zenon DEF Segment
        <5>3. g.kind # "openReq" /\ nextSend[c] <= g.seq
          BY <4>3, Zenon DEF New
        <5> QED  BY <3>1, <4>2, <5>2, <5>3, Numerals, Zenon
      <4>4. CASE log'[c] = L
        BY <2>1, <4>3, <4>4, Zenon
      <4>5. CASE Write(c)
        <5>1. PICK d : log'[c] = Append(L, d) /\ d \in Element
          <6> DEFINE d == Entry(Seg(c, "data", nextSend[c], nextSend[c] + 1))
          <6>1. log'[c] = Append(L, d)
            BY <1>1, <4>5, Zenon DEF Write, Enqueue, TypeOK
          <6>2. nextSend[c] + 1 \in Nat /\ "data" \in Kind
            BY <1>1, NextNat, Zenon DEF Kind, StreamKind
          <6>3. d \in Element
            BY <1>1, <3>1, <6>2, SegType, ZenonT(60)
          <6> QED  BY <6>1, <6>3, Zenon
        <5>2. Append(L, d) # <<>> /\ Append(L, d)[1] = L[1]
          BY <3>1, <4>1, <5>1, SMTT(30)
        <5> QED  BY <2>1, <3>2, <4>3, <5>1, <5>2, Zenon
      <4> QED  BY <1>3, <1>5, <2>3, <4>4, <4>5, Zenon DEF LogStep
    <3>3. CASE L = <<>>
      <4>1. s \notin openSent
        BY <1>1, <3>3, Zenon DEF Opened
      <4>2. ~Write(c)
        BY <1>1, <4>1, Zenon DEF Write
      <4>3. log'[c] = L
        BY <1>3, <1>5, <2>3, <4>2, Zenon DEF LogStep
      <4>4. ASSUME NEW g \in Sending(c)' PROVE FALSE
        <5>1. FlowOf(c)'
          BY <1>1, <1>5, SendFlow, Zenon
        <5>2. \E i \in Rest(log[c], delivered[v])' : TRUE
          BY <1>1, <4>4, <5>1, ZenonT(60) DEF FlowOf, Flow, Numbered, Sending
        <5>3. Len(log'[c]) = 0 /\ Len(delivered'[v]) \in Nat
          BY <1>1, <3>3, <4>3, SMTT(30) DEF TypeOK
        <5> QED  BY <5>2, <5>3 DEF Rest
      <4> QED  BY <4>3, <4>4, Zenon
    <3> QED  BY <3>2, <3>3, Zenon
  <2>5. Sending(v)' = Sending(v) /\ state'[v] = state[v]
    BY <1>1, <1>4, <1>5, Zenon
  <2>6. state'[c] # "Init"
    BY <1>3, <1>5, Zenon DEF StateStep
  <2> QED  BY <1>1, <1>2, <2>2, <2>4, <2>5, <2>6, OpenedKept, SMTT(30)
<1>6. CASE z = v
  <2>1. \A g \in Sending(v)' : g \in Sending(v) \/ g.kind # "openReq"
    BY <1>6, SendingStep, Zenon DEF New
  <2>2. Sending(c)' = Sending(c) /\ log'[c] = log[c] /\ state'[c] = state[c] /\ recvChan'[c] = recvChan[c]
    BY <1>1, <1>4, <1>6, Zenon
  <2>3. state[v] # "Init"
    BY <1>3, <1>6, Zenon DEF StateStep
  <2> QED  BY <1>1, <1>2, <2>1, <2>2, <2>3, OpenedKept, Zenon
<1>7. CASE z # c /\ z # v
  <2>1. /\ Sending(c)' = Sending(c) /\ log'[c] = log[c] /\ state'[c] = state[c]
        /\ recvChan'[c] = recvChan[c] /\ Sending(v)' = Sending(v) /\ state'[v] = state[v]
    BY <1>1, <1>4, <1>7, Zenon
  <2> QED  BY <1>1, <1>2, <2>1, OpenedKept, SMTT(30)
<1> QED  BY <1>5, <1>6, <1>7, Zenon

\* A step of an underlay puts no stream segment on the connection.
LEMMA NetShrinks ==
    ASSUME SInv, NEW e \in Side, UnderlayStep(e), NEW x \in End
    PROVE  Net(x)' \subseteq Net(x)
<1>1. TypeOK /\ Order(x)
  BY Zenon DEF SInv
<1>2. ASSUME ConnSame(x) PROVE Net(x)' \subseteq Net(x)
  BY <1>2, Zenon DEF ConnSame, Net
<1>3. CASE Deliver(e) \/ OnOpenSessionRequest(e) \/ OnUnknownSession(e)
  <2>1. conn[Peer(e)] # <<>> /\ Consume(e)
    BY <1>3, Zenon DEF Deliver, OnOpenSessionRequest, OnUnknownSession, Reads
  <2>2. \/ ConnSame(x)
        \/ Net(x) = Net(x)' \cup {Arriving(e)}
    BY <2>1, ConsumeFlow, Zenon DEF Leaves
  <2> QED  BY <1>2, <2>2, Zenon
<1>4. CASE Answer(e)
  <2>1. PICK s \in answer[e] : Put(e, Seg(<<e, s>>, "closeReq", 0, 0))
    BY <1>4, Zenon DEF Answer
  <2>2. <<e, s>> \in End /\ "closeReq" \in Kind /\ 0 \in Nat
    BY <1>1, <2>1, Zenon DEF TypeOK, End, Kind
  <2>3. Seg(<<e, s>>, "closeReq", 0, 0) \in Segment
    BY <2>2, SegType, Zenon
  <2>4. ~Mine(x[2], Seg(<<e, s>>, "closeReq", 0, 0))
    BY Zenon DEF Mine, Seg, StreamKind
  <2>5. ConnSame(x)
    BY <1>1, <2>1, <2>3, <2>4, PutElsewhere, Zenon
  <2> QED  BY <1>2, <2>5, Zenon
<1>5. CASE UNCHANGED conn
  BY <1>5, Zenon DEF Net
<1> QED  BY <1>3, <1>4, <1>5
        , Zenon DEF UnderlayStep, EventStep, OnUnknownOpenResponse, CleanSessions, CleanSessionsEnd,
             EventFails, EventEnds, CloseUnderlay, CloseUnderlayEnd

\* The open request creates the server's session and is not on its way again.
LEMMA OpenedUnderlay ==
    ASSUME SInv, TypeOK', NEW e \in Side, UnderlayStep(e), NEW s \in Sessions
    PROVE  Opened(s)'
<1> DEFINE c == <<"client", s>>
           v == <<"server", s>>
           g == Arriving(e)
           t == Target(e)
           w == Other(t)
<1>1. /\ TypeOK /\ Opened(s) /\ c \in End /\ v \in End /\ c # v /\ c[2] = s /\ v[2] = s
      /\ Other(c) = v /\ Other(v) = c
  BY Zenon DEF SInv, End, Side, Other, Peer
<1>2. UNCHANGED <<sendVars, openSent>>
  BY Zenon DEF UnderlayStep, EventStep, Deliver, OnOpenSessionRequest, OnUnknownOpenResponse,
     OnUnknownSession, Answer, CleanSessions, CleanSessionsEnd, EventFails, EventEnds,
     CloseUnderlay, CloseUnderlayEnd
<1>3. ASSUME NEW x \in End PROVE Sending(x)' \subseteq Sending(x)
  BY <1>2, NetShrinks, Zenon DEF Sending, Net, sendVars
<1>4. Sending(c)' \subseteq Sending(c) /\ Sending(v)' \subseteq Sending(v)
  BY <1>1, <1>3, Zenon
<1>5. \A f \in Fl(s, recvChan'[c]) : f \in Sending(v) \cup Fl(s, recvChan[c])
  <2>1. CASE recvChan'[c] = recvChan[c]
    BY <2>1, Zenon
  <2>2. ASSUME NEW f \in Segment, f.session = s, f.kind \in StreamKind => f \in Net(v),
               recvChan'[c] = Append(recvChan[c], f)
        PROVE  \A h \in Fl(s, recvChan'[c]) : h \in Sending(v) \cup Fl(s, recvChan[c])
    <3> DEFINE q == recvChan[c]
    <3>1. q \in Seq(Segment)
      BY <1>1, EndTypes, Zenon
    <3> HIDE DEF q
    <3>2. Mine(s, f) => Fl(s, Append(q, f)) = Fl(s, q) \cup {f}
      BY <3>1, FlGrows
    <3>3. ~Mine(s, f) => Fl(s, Append(q, f)) = Fl(s, q)
      BY <3>1, FlAppend, Zenon
    <3>4. Mine(s, f) => f \in Sending(v)
      BY <2>2, Zenon DEF Mine, Sending, Net
    <3> QED  BY <2>2, <3>2, <3>3, <3>4, Zenon DEF q
  <2> QED  BY <1>1, <2>1, <2>2, InChanArrives, Zenon
<1>6. CASE state'[c] = state[c] /\ state'[v] = state[v]
  <2>1. log'[c] = log[c] /\ openSent' = openSent
    BY <1>2, Zenon DEF sendVars
  <2> QED  BY <1>1, <1>4, <1>5, <1>6, <2>1, OpenedKept, Zenon
<1>7. CASE OnOpenSessionRequest(e)
  <2>1. Reads(e) /\ Consume(e) /\ conn[Peer(e)] # <<>> /\ g.kind = "openReq"
    BY <1>7, Zenon DEF OnOpenSessionRequest, Reads
  <2>2. t \in End /\ w \in End /\ Other(w) = t
    BY <1>1, <2>1, ArrivingFacts, Zenon
  <2>3. g.kind \in StreamKind
    BY <2>1, Zenon DEF StreamKind
  <2>4. g \in Net(w) /\ \A h \in Net(w) : h # g => g.seq < h.seq
    BY <2>1, <2>3, ArrivesFirst, Zenon
  <2>5. t[1] = "server" /\ state[t] = "Init" /\ t[2] \in openSent
    BY <2>1, <2>2, <2>3, <2>4, OpenReqIsFirst, Zenon
  <2>6. t # c /\ state'[c] = state[c] /\ (t # v => state'[v] = state[v])
    <3>0. c[1] = "client"
      BY Zenon
    <3> HIDE DEF c
    <3>1. t # c
      BY <2>5, <3>0, Zenon
    <3>2. state' = [state EXCEPT ![t] = "Attached"]
      BY <1>7, Zenon DEF OnOpenSessionRequest
    <3> QED  BY <1>1, <3>1, <3>2, Zenon DEF TypeOK
  <2>7. CASE t = v
    <3>1. w = c /\ s \in openSent
      BY <1>1, <2>5, <2>7, Zenon
    <3>a. Below({g}, Net(c)')
      BY <1>1, <2>1, <2>3, <3>1, ConsumeFlow, Zenon DEF Leaves
    <3>2. ASSUME NEW h \in Sending(c)' PROVE h.kind # "openReq"
      <4>1. h \in Sending(c) /\ g \in Sending(c)
        BY <1>4, <2>4, <3>1, <3>2, Zenon DEF Sending, Net
      <4>2. g.seq = log[c][1].seq /\ (h.kind = "openReq" => h.seq = log[c][1].seq)
        BY <1>1, <2>1, <4>1, Zenon DEF Opened
      <4>3. g.seq < h.seq
        <5>1. h \in Net(c)' \/ h \in Str(hand[c]) \/ h \in Str(sendQueue[c])
          BY <1>2, <3>2, Zenon DEF Sending, Net, sendVars
        <5>2. CASE h \in Net(c)'
          BY <3>a, <5>2, Zenon DEF Below
        <5>3. CASE h \in Str(hand[c]) \cup Str(sendQueue[c])
          <6>1. FlowOf(c)
            BY <1>1, Zenon DEF SInv
          <6> QED  BY <2>4, <3>1, <5>3, <6>1, Zenon DEF FlowOf, Flow, Stages, Below, Net
        <5> QED  BY <5>1, <5>2, <5>3, Zenon
      <4>4. g.seq \in Nat
        BY <1>1, <4>1, FlowTypes, Zenon DEF Sending, Segment
      <4> QED  BY <4>2, <4>3, <4>4
    <3>3. \A h \in Sending(c)' : h.kind = "openReq" <=> h.seq = log'[c][1].seq
      BY <1>1, <1>2, <1>4, Zenon DEF Opened, sendVars
    <3>4. \A h \in Sending(v)' \cup Fl(s, recvChan'[c]) : h.kind # "openReq"
      BY <1>1, <1>4, <1>5, Zenon DEF Opened
    <3>5. /\ s \in openSent' <=> log'[c] # <<>>
          /\ s \in openSent' => state'[c] # "Init"
          /\ state'[v] # "Init" => s \in openSent'
      BY <1>1, <1>2, <2>6, <3>1, Zenon DEF Opened, sendVars
    <3> QED  BY <3>2, <3>3, <3>4, <3>5, Zenon DEF Opened
  <2> QED  BY <1>6, <2>6, <2>7, Zenon
<1> QED  BY <1>6, <1>7
        , Zenon DEF UnderlayStep, EventStep, Deliver, OnUnknownOpenResponse, OnUnknownSession, Answer,
             CleanSessions, CleanSessionsEnd, EventFails, EventEnds, CloseUnderlay, CloseUnderlayEnd

\* Every step keeps the open request the first segment.
LEMMA OpenedStep ==
    ASSUME SInv, TypeOK', [Next]_vars, NEW s \in Sessions
    PROVE  Opened(s)'
<1> DEFINE c == <<"client", s>>
           v == <<"server", s>>
<1>1. TypeOK /\ Opened(s) /\ c \in End /\ v \in End /\ c # v /\ Other(c) = v
      /\ c[1] = "client" /\ v[1] = "server" /\ c[2] = s
  BY Zenon DEF SInv, End, Side, Other, Peer
<1>2. ASSUME UNCHANGED <<openSent, log, recvVars, conn, hand>>,
             \A x \in End : sendQueue'[x] \subseteq sendQueue[x],
             state[c] # "Init" => state'[c] # "Init", state'[v] # "Init" => state[v] # "Init"
      PROVE  Opened(s)'
  <2>1. Sending(c)' \subseteq Sending(c) /\ Sending(v)' \subseteq Sending(v)
    BY <1>1, <1>2, Zenon DEF Sending, Str
  <2>2. recvChan' = recvChan /\ log' = log /\ openSent' = openSent
    BY <1>2, Zenon DEF recvVars
  <2> QED  BY <1>1, <1>2, <2>1, <2>2, OpenedKept, Zenon
<1>3. ASSUME NEW r \in Sessions, DialSession(r) PROVE Opened(s)'
  <2>1. (state[c] # "Init" => state'[c] # "Init") /\ state'[v] = state[v]
    BY <1>1, <1>3, Zenon DEF DialSession, TypeOK
  <2> QED  BY <1>2, <1>3, <2>1, Zenon DEF DialSession, sendVars
<1>4. ASSUME NEW r \in Sessions, NEW data \in {0, 1}, OpenSession(r, data) PROVE Opened(s)'
  <2> DEFINE d == <<"client", r>>
             g == Seg(d, "openReq", nextSend[d], data)
  <2>1. d \in End /\ Enqueue(d, "openReq", data) /\ r \notin openSent /\ state[d] = "Attached"
        /\ openSent' = openSent \cup {r} /\ UNCHANGED <<state, recvVars, conn, hand>>
    BY <1>4, Zenon DEF OpenSession, End, Side
  <2>2. \A x \in End : x # d => sendQueue'[x] = sendQueue[x] /\ log'[x] = log[x]
    BY <1>1, <2>1, Zenon DEF Enqueue, TypeOK
  <2>3. Sending(v)' = Sending(v) /\ recvChan' = recvChan
    BY <1>1, <2>1, <2>2, Zenon DEF Sending, recvVars
  <2>4. CASE r # s
    <3>1. c # d
      BY <2>4, Zenon
    <3>2. Sending(c)' = Sending(c) /\ log'[c] = log[c] /\ (s \in openSent' <=> s \in openSent)
      BY <1>1, <2>1, <2>2, <2>4, <3>1, Zenon DEF Sending
    <3>3. state' = state
      BY <2>1, Zenon
    <3> QED  BY <1>1, <2>3, <3>2, <3>3, OpenedKept, SMTT(30)
  <2>5. CASE r = s
    <3>1. log[c] = <<>> /\ state[v] = "Init"
      BY <1>1, <2>1, <2>5, Zenon DEF Opened
    <3>2. Sending(c) = {}
      <4> SUFFICES ASSUME NEW h \in Sending(c) PROVE FALSE
        BY Zenon
      <4>1. FlowOf(c)
        BY <1>1, Zenon DEF SInv
      <4>2. \E i \in Rest(log[c], delivered[v]) : TRUE
        BY <1>1, <4>1, ZenonT(60) DEF FlowOf, Flow, Numbered, Sending
      <4>3. Len(log[c]) = 0 /\ Len(delivered[v]) \in Nat
        BY <1>1, <3>1, SMTT(30) DEF TypeOK
      <4> QED  BY <4>2, <4>3 DEF Rest
    <3>3. /\ log'[c] = Append(log[c], Entry(g)) /\ sendQueue'[c] = Insert(sendQueue[c], g)
      BY <1>1, <2>1, <2>5, ZenonT(60) DEF Enqueue, TypeOK
    <3>4. log'[c] = <<Entry(g)>>
      BY <3>1, <3>3
    <3>5. g.kind = "openReq" /\ Entry(g).seq = g.seq
      BY Zenon DEF Seg, Entry
    <3> HIDE DEF g
    <3>6. \A h \in Sending(c)' : h = g
      BY <2>1, <3>2, <3>3, Zenon DEF Sending, Str, Insert
    <3>7. log'[c] # <<>> /\ log'[c][1] = Entry(g)
      BY <3>4
    <3>8. \A h \in Sending(c)' : h.kind = "openReq" <=> h.seq = log'[c][1].seq
      BY <3>5, <3>6, <3>7, Zenon
    <3>9. \A h \in Sending(v)' \cup Fl(s, recvChan'[c]) : h.kind # "openReq"
      BY <1>1, <2>3, Zenon DEF Opened
    <3>10. /\ s \in openSent' /\ state'[c] # "Init" /\ state'[v] = "Init"
      BY <2>1, <2>5, <3>1, Zenon
    <3> QED  BY <3>7, <3>8, <3>9, <3>10, Zenon DEF Opened
  <2> QED  BY <2>4, <2>5, Zenon
<1>5. CASE CloseIfIdle
  <2>1. \A x \in End : state'[x] # state[x] => x \in registered
    BY <1>5, Zenon DEF CloseIfIdle
  <2>2. \A x \in End : x \in registered => state[x] # "Init"
    BY Zenon DEF SInv, Life
  <2>3. (state[c] # "Init" => state'[c] # "Init") /\ (state'[v] # "Init" => state[v] # "Init")
    BY <1>1, <1>5, <2>1, <2>2, Zenon DEF CloseIfIdle
  <2>4. \A x \in End : sendQueue'[x] \subseteq sendQueue[x]
    BY <1>5, Zenon DEF CloseIfIdle
  <2> QED  BY <1>2, <1>5, <2>3, <2>4, Zenon DEF CloseIfIdle
<1>6. CASE Break \/ UNCHANGED vars
  BY <1>2, <1>6, Zenon DEF Break, vars, sendVars
<1> QED  BY <1>3, <1>4, <1>5, <1>6, OpenedSession, OpenedUnderlay, Zenon DEF Next

-----------------------------------------------------------------------------
(* The inductive invariant.                                                *)

\* Nothing is open at the start.
LEMMA StreamInit == Init => SInv
<1> SUFFICES ASSUME Init PROVE SInv
  BY Zenon
<1>1. TypeOK
  BY StreamAssumption DEF Init, TypeOK, Side, Live, Fault
<1>2. ASSUME NEW x \in End
      PROVE  /\ log[x] = <<>> /\ nextSend[x] = 0 /\ delivered[x] = <<>> /\ recvQueue[x] = {}
             /\ recvChan[x] = <<>> /\ hand[x] = {} /\ sendQueue[x] = {} /\ state[x] = "Init"
             /\ conn[x[1]] = <<>>
  BY <1>2, Ends, Zenon DEF Init
<1>3. ASSUME NEW s PROVE Fl(s, <<>>) = {} /\ Sorted(s, <<>>)
  BY DEF Fl, Sorted
<1>4. Str({}) = {}
  BY Zenon DEF Str
<1>5. ASSUME NEW x \in End PROVE FlowOf(x) /\ Order(x) /\ Own(x) /\ Life(x)
  <2>1. /\ log[x] = <<>> /\ nextSend[x] = 0 /\ delivered[Other(x)] = <<>>
        /\ recvQueue[Other(x)] = {} /\ recvChan[Other(x)] = <<>> /\ conn[x[1]] = <<>>
        /\ hand[x] = {} /\ sendQueue[x] = {}
    BY <1>2, <1>5, Ends, ZenonT(60)
  <2>2. Flow(<<>>, 0, <<>>, {}, {}, {}, {}, {}, state[x], state[Other(x)], Way(x))
    BY DEF Flow, Numbers, Numbered, Stages, Below, Distinct, NoGap, Rest
  <2>3. FlowOf(x)
    BY <1>3, <1>4, <2>1, <2>2, ZenonT(60) DEF FlowOf
  <2>4. Order(x)
    BY <1>3, <2>1, SMTT(30) DEF Order
  <2>5. Own(x) /\ Life(x)
    BY <1>2, <1>5 DEF Own, Life, Init, Live
  <2> QED  BY <2>3, <2>4, <2>5, Zenon
<1>6. ASSUME NEW s \in Sessions PROVE Opened(s)
  <2> DEFINE c == <<"client", s>>
             v == <<"server", s>>
  <2>1. c \in End /\ v \in End
    BY Zenon DEF End, Side
  <2>2. Sending(c) = {} /\ Sending(v) = {} /\ Fl(s, recvChan[c]) = {}
    BY <1>2, <1>3, <1>4, <2>1, Zenon DEF Sending
  <2>3. log[c] = <<>> /\ state[v] = "Init" /\ openSent = {}
    BY <1>2, <2>1, Zenon DEF Init
  <2> QED  BY <2>2, <2>3, Zenon DEF Opened
<1> QED  BY <1>1, <1>5, <1>6, Zenon DEF SInv

\* Every step keeps the inductive invariant.
LEMMA StreamStep == SInv /\ [Next]_vars => SInv'
<1> SUFFICES ASSUME SInv, [Next]_vars PROVE SInv'
  BY Zenon
<1>1. TypeOK'
  BY TypeStep, Zenon DEF SInv
<1>2. ASSUME NEW x \in End PROVE (FlowOf(x) /\ Order(x) /\ Own(x) /\ Life(x))'
  BY <1>1, <1>2, FlowStep, OwnStep, LifeStep, ZenonT(60)
<1>3. ASSUME NEW s \in Sessions PROVE Opened(s)'
  BY <1>1, <1>3, OpenedStep, Zenon
<1> QED  BY <1>1, <1>2, <1>3, Zenon DEF SInv

-----------------------------------------------------------------------------
(* The refinement.                                                         *)

\* An end is closed.
Shut(x) == state[x] = "Closed"
\* What the applications see of an end does not change.
Still(x) == log'[x] = log[x] /\ delivered'[x] = delivered[x] /\ (Shut(x)' <=> Shut(x))
\* An end that is open numbers at most one segment, and may be closed.
Wrote(x) == /\ delivered'[x] = delivered[x] /\ ~Shut(x)
            /\ log'[x] = log[x] \/ \E d \in Element : log'[x] = Append(log[x], d)
\* An end reads the next segment that its peer has numbered.
ReadNext(x) ==
    /\ log'[x] = log[x] /\ (Shut(x)' <=> Shut(x))
    /\ Len(delivered[x]) < Len(log[Other(x)])
    /\ delivered'[x] = Append(delivered[x], log[Other(x)][Len(delivered[x]) + 1])

\* The smallest number in the receive queue is the next one of the stream.
LEMMA ShutStays ==
    ASSUME SInv, TypeOK', NEW z \in End, SessionStep(z), Shut(z)
    PROVE  Shut(z)'
<1>1. StateStep(z)
  BY LocalStep, Zenon
<1>2. state'[z] \in {"Init", "Closed"} \cup Live
  BY Zenon DEF TypeOK
<1> QED  BY <1>1, <1>2, Zenon DEF StateStep, Shut, Live

\* What the application reads is the next element of its peer's log.
LEMMA ReadIsNext ==
    ASSUME SInv, NEW z \in End, Read(z)
    PROVE  ReadNext(z)
<1> DEFINE x == Other(z)
           L == log[x]
           n == nextSend[x]
           D == delivered[z]
           R == recvQueue[z]
           C == Fl(x[2], recvChan[z])
           N == Fl(x[2], conn[x[1]])
           H == Str(hand[x])
           Q == Str(sendQueue[x])
           xs == state[x]
           ys == state[z]
           ws == Way(x)
<1>1. TypeOK /\ x \in End /\ Other(x) = z /\ FlowOf(x)
  BY Ends, Zenon DEF SInv
<1>2. /\ L \in Seq(Element) /\ n \in Nat /\ D \in Seq(Element) /\ R \in SUBSET Segment
      /\ C \in SUBSET Segment /\ N \in SUBSET Segment /\ H \in SUBSET Segment
      /\ Q \in SUBSET Segment
  BY <1>1, FlowTypes, Zenon
<1>3. Flow(L, n, D, R, C, N, H, Q, xs, ys, ws)
  BY <1>1, Zenon DEF FlowOf
<1>4. PICK g \in First(recvQueue[z]) :
          /\ delivered' = [delivered EXCEPT ![z] = Append(@, Entry(g))]
          /\ state' = IF g.kind = "openResp" /\ state[z] = "Attached"
                      THEN [state EXCEPT ![z] = "Established"] ELSE state
  BY Zenon DEF Read
<1>5. g \in R /\ \A h \in R : g.seq <= h.seq
  BY <1>4, Zenon DEF First
<1>a. Len(D) < Len(L) /\ L[Len(D) + 1] = Entry(g)
  <2> HIDE DEF L, n, D, R, C, N, H, Q, xs, ys, ws, x
  <2>1. \A i, j \in 1..Len(L) : i < j => L[i].seq < L[j].seq
    BY <1>3, Zenon DEF Flow, Numbers
  <2>2. Numbered(L, D, R) /\ NoGap(L, D, R, R)
    BY <1>3, Zenon DEF Flow, Numbered
  <2> QED  BY <1>2, <1>5, <2>1, <2>2, ReadsNext, ZenonT(60)
<1>6. delivered'[z] = Append(D, Entry(g)) /\ (Shut(z)' <=> Shut(z)) /\ log' = log
  BY <1>1, <1>4, ZenonT(60) DEF Read, Shut, sendVars, TypeOK
<1> HIDE DEF L, n, D, R, C, N, H, Q, xs, ys, ws
<1>7. Len(D) < Len(L) /\ Entry(g) = L[Len(D) + 1]
  BY <1>a, Zenon
<1>8. Len(delivered[z]) < Len(log[x]) /\ Entry(g) = log[x][Len(delivered[z]) + 1]
  BY <1>7, Zenon DEF D, L
<1>9. delivered'[z] = Append(delivered[z], log[x][Len(delivered[z]) + 1])
  BY <1>6, <1>8, Zenon DEF D
<1> QED  BY <1>6, <1>8, <1>9, Zenon DEF ReadNext

\* In every step at most one end of a session does something its applications
\* can see.
LEMMA OneEnd ==
    ASSUME SInv, TypeOK', [Next]_vars, NEW s \in Sessions
    PROVE  \E z \in End : z[2] = s /\ Still(Other(z)) /\ (Still(z) \/ Wrote(z) \/ ReadNext(z))
<1> DEFINE c == <<"client", s>>
           v == <<"server", s>>
<1>1. /\ TypeOK /\ c \in End /\ v \in End /\ c[2] = s /\ v[2] = s /\ c # v
      /\ Other(c) = v /\ Other(v) = c
  BY Zenon DEF SInv, End, Side, Other, Peer
<1>2. ASSUME NEW z \in End, SessionStep(z)
      PROVE  \E y \in End : y[2] = s /\ Still(Other(y)) /\ (Still(y) \/ Wrote(y) \/ ReadNext(y))
  <2>1. ASSUME NEW x \in End, x # z PROVE Still(x)
    BY <1>1, <1>2, <2>1, OnlyHere, ZenonT(60) DEF SameEnd, Still, Shut
  <2>2. Still(z) \/ Wrote(z) \/ ReadNext(z)
    <3>1. CASE Read(z)
      BY <3>1, ReadIsNext, Zenon
    <3>2. CASE Write(z)
      <4> DEFINE d == Entry(Seg(z, "data", nextSend[z], nextSend[z] + 1))
      <4>1. log'[z] = Append(log[z], d) /\ delivered' = delivered /\ state[z] \in Live
        BY <1>1, <3>2, Zenon DEF Write, MayWrite, Enqueue, TypeOK, recvVars
      <4>2. nextSend[z] + 1 \in Nat /\ "data" \in Kind /\ nextSend[z] \in Nat
        BY <1>1, NextNat, EndTypes, Zenon DEF Kind, StreamKind
      <4>3. d \in Element
        BY <4>2, SegType, Zenon
      <4> QED  BY <4>1, <4>3, Zenon DEF Wrote, Shut, Live
    <3>3. CASE InputOpen(z)
      <4> DEFINE d == Entry(Seg(z, "openResp", nextSend[z], 0))
      <4>1. log'[z] = Append(log[z], d) /\ delivered' = delivered /\ state[z] \in Live
        BY <1>1, <3>3, ZenonT(60) DEF InputOpen, InputRuns, Enqueue, TypeOK
      <4>2. 0 \in Nat /\ "openResp" \in Kind /\ nextSend[z] \in Nat
        BY <1>1, EndTypes, Zenon DEF Kind, StreamKind
      <4>3. d \in Element
        BY <4>2, SegType, Zenon
      <4> QED  BY <4>1, <4>3, Zenon DEF Wrote, Shut, Live
    <3>4. CASE ~Read(z) /\ ~Write(z) /\ ~InputOpen(z)
      <4>1. log' = log /\ delivered' = delivered
        BY <1>2, <3>4, ZenonT(60) DEF SessionStep, InputStep, Close, CloseSucceeds, CloseTimesOut,
           OutputTake,
           OutputPut, OutputFails, InputData, InputRefused, InputClose, InputCloseFails,
           sendVars, recvVars
      <4>2. Shut(z) => Shut(z)'
        BY <1>1, <1>2, ShutStays, Zenon
      <4> QED  BY <4>1, <4>2, Zenon DEF Still, Wrote
    <3> QED  BY <3>1, <3>2, <3>3, <3>4, Zenon
  <2>3. CASE z = c
    <3>1. Still(v)
      BY <1>1, <2>1, <2>3, Zenon
    <3> QED  BY <1>1, <2>2, <2>3, <3>1, ZenonT(60)
  <2>4. CASE z = v
    <3>1. Still(c)
      BY <1>1, <2>1, <2>4, Zenon
    <3> QED  BY <1>1, <2>2, <2>4, <3>1, Zenon
  <2>5. CASE z # c /\ z # v
    <3>1. Still(c) /\ Still(v)
      BY <1>1, <2>1, <2>5, Zenon
    <3> QED  BY <1>1, <3>1, Zenon
  <2> QED  BY <2>3, <2>4, <2>5, Zenon
<1>3. ASSUME log' = log, delivered' = delivered, Shut(c)' <=> Shut(c), Shut(v) => Shut(v)'
      PROVE  \E y \in End : y[2] = s /\ Still(Other(y)) /\ (Still(y) \/ Wrote(y) \/ ReadNext(y))
  <2>1. Still(c) /\ (Still(v) \/ Wrote(v))
    BY <1>3, Zenon DEF Still, Wrote
  <2> QED  BY <1>1, <2>1, Zenon
<1>4. ASSUME NEW e \in Side, UnderlayStep(e)
      PROVE  log' = log /\ delivered' = delivered /\ \A x \in End : Shut(x)' <=> Shut(x)
  <2>1. log' = log /\ delivered' = delivered
    BY <1>4, Zenon DEF UnderlayStep, EventStep, Deliver, OnOpenSessionRequest,
       OnUnknownOpenResponse,
       OnUnknownSession, Answer, CleanSessions, CleanSessionsEnd, EventFails, EventEnds,
       CloseUnderlay, CloseUnderlayEnd, sendVars, recvVars
  <2>2. CASE state' = state
    BY <2>1, <2>2, Zenon DEF Shut
  <2>3. CASE OnOpenSessionRequest(e)
    <3> DEFINE g == Arriving(e)
               t == Target(e)
               w == Other(t)
    <3>1. Consume(e) /\ conn[Peer(e)] # <<>> /\ g.kind = "openReq"
          /\ state' = [state EXCEPT ![t] = "Attached"]
      BY <2>3, Zenon DEF OnOpenSessionRequest, Reads
    <3>2. t \in End /\ w \in End /\ Other(w) = t
      BY <1>1, <3>1, ArrivingFacts, Zenon
    <3>3. g.kind \in StreamKind
      BY <3>1, Zenon DEF StreamKind
    <3>4. g \in Net(w) /\ \A h \in Net(w) : h # g => g.seq < h.seq
      BY <3>1, <3>3, ArrivesFirst, Zenon
    <3>5. state[t] = "Init"
      BY <3>1, <3>2, <3>3, <3>4, OpenReqIsFirst, Zenon
    <3> QED  BY <1>1, <2>1, <3>1, <3>2, <3>5, ZenonT(60) DEF Shut, TypeOK
  <2> QED  BY <1>4, <2>2, <2>3
          , Zenon DEF UnderlayStep, EventStep, Deliver, OnUnknownOpenResponse, OnUnknownSession, Answer,
               CleanSessions, CleanSessionsEnd, EventFails, EventEnds, CloseUnderlay,
               CloseUnderlayEnd
<1>5. ASSUME NEW r \in Sessions, DialSession(r)
      PROVE  log' = log /\ delivered' = delivered /\ \A x \in End : Shut(x)' <=> Shut(x)
  BY <1>1, <1>5, Zenon DEF DialSession, sendVars, recvVars, Shut, TypeOK
<1>6. ASSUME NEW r \in Sessions, NEW data \in {0, 1}, OpenSession(r, data)
      PROVE  Still(v) /\ (Still(c) \/ Wrote(c))
  <2> DEFINE d == <<"client", r>>
             g == Seg(d, "openReq", nextSend[d], data)
  <2>1. d \in End /\ Enqueue(d, "openReq", data) /\ state[d] = "Attached"
        /\ state' = state /\ delivered' = delivered
    BY <1>6, Zenon DEF OpenSession, End, Side, recvVars
  <2>2. \A x \in End : x # d => Still(x)
    BY <1>1, <2>1, ZenonT(60) DEF Enqueue, TypeOK, Still, Shut
  <2>3. log'[d] = Append(log[d], Entry(g))
    BY <1>1, <2>1, Zenon DEF Enqueue, TypeOK
  <2>4. data \in Nat /\ "openReq" \in Kind /\ nextSend[d] \in Nat
    BY <1>1, <1>6, <2>1, NextNat, Numerals, Zenon DEF Kind, StreamKind
  <2>5. Entry(g) \in Element
    BY <2>1, <2>4, SegType, Zenon
  <2> HIDE DEF g
  <2>6. Wrote(d)
    BY <2>1, <2>3, <2>5, Zenon DEF Wrote, Shut
  <2> QED  BY <1>1, <2>2, <2>6, Zenon
<1>7. CASE CloseIfIdle
  <2>1. log' = log /\ delivered' = delivered /\ state'[c] = state[c]
        /\ (state'[v] = state[v] \/ state'[v] = "Closed")
    BY <1>1, <1>7, Zenon DEF CloseIfIdle, recvVars
  <2> QED  BY <1>3, <2>1, Zenon DEF Shut
<1>8. CASE Break \/ UNCHANGED vars
  BY <1>3, <1>8, Zenon DEF Break, vars, sendVars, recvVars, Shut
<1>9. ASSUME log' = log, delivered' = delivered, \A x \in End : Shut(x)' <=> Shut(x)
      PROVE  \E y \in End : y[2] = s /\ Still(Other(y)) /\ (Still(y) \/ Wrote(y) \/ ReadNext(y))
  BY <1>1, <1>3, <1>9, Zenon
<1> QED  BY <1>1, <1>2, <1>4, <1>5, <1>6, <1>7, <1>8, <1>9, ZenonT(60) DEF Next

\* A sequence that stays as it is or grows by one element keeps its elements.
LEMMA GrowsAtTheEnd ==
    ASSUME NEW q \in Seq(Element)
    PROVE  /\ Len(q) <= Len(q) /\ \A i \in 1..Len(q) : q[i] = q[i]
           /\ \A d \in Element :
                  Len(q) <= Len(Append(q, d)) /\ \A i \in 1..Len(q) : Append(q, d)[i] = q[i]
OBVIOUS

\* Each session of a TCP connection implements two FIFO streams: every step
\* numbers the next element of one, reads the next element of one, closes one
\* side, or is invisible to the applications.
THEOREM StreamRefinement == Spec => ImplementsStreams
<1>1. Init => \A s \in Sessions : Stream(s)!Init
  BY DEF Init, Stream!Init, End, Side
<1>2. SInv /\ SInv' /\ [Next]_vars => [StreamsStep]_vars
  <2> SUFFICES ASSUME SInv, SInv', [Next]_vars, NEW s \in Sessions
               PROVE  Stream(s)!Next \/ UNCHANGED Stream(s)!streamVars
    BY Zenon DEF StreamsStep
  <2> DEFINE sent == [e \in Side |-> log[<<e, s>>]]
             received == [e \in Side |-> delivered[<<e, s>>]]
             closed == {e \in Side : state[<<e, s>>] = "Closed"}
  <2>1. TypeOK /\ TypeOK'
    BY Zenon DEF SInv
  <2>2. PICK z \in End : z[2] = s /\ Still(Other(z)) /\ (Still(z) \/ Wrote(z) \/ ReadNext(z))
    BY <2>1, OneEnd, Zenon
  <2> DEFINE e == z[1]
  <2>3. /\ e \in Side /\ Peer(e) \in Side /\ Peer(e) # e /\ z = <<e, s>>
        /\ Other(z) = <<Peer(e), s>> /\ \A f \in Side : f = e \/ f = Peer(e)
    BY <2>2, Ends DEF Side, Peer, Other
  <2> HIDE DEF e
  <2>4. /\ sent[e] = log[z] /\ sent'[e] = log'[z] /\ sent'[Peer(e)] = sent[Peer(e)]
        /\ received[e] = delivered[z] /\ received'[e] = delivered'[z]
        /\ received'[Peer(e)] = received[Peer(e)]
        /\ (e \in closed <=> Shut(z)) /\ (e \in closed' <=> Shut(z)')
        /\ (Peer(e) \in closed' <=> Peer(e) \in closed)
        /\ sent[Peer(e)] = log[Other(z)]
    BY <2>2, <2>3, Zenon DEF Still, Shut
  <2>5. CASE Still(z)
    <3>1. sent' = sent /\ received' = received /\ closed' = closed
      BY <2>3, <2>4, <2>5, Zenon DEF Still
    <3> QED  BY <3>1, Zenon DEF Stream!streamVars
  <2>6. CASE Wrote(z)
    <3>1. e \notin closed /\ received' = received
      BY <2>3, <2>4, <2>6, Zenon DEF Wrote
    <3>2. sent' = [sent EXCEPT ![e] = sent'[e]]
      BY <2>3, <2>4, Zenon
    <3>3. Stream(s)!Extends(sent[e], sent'[e])
      <4>1. log[z] \in Seq(Element)
        BY <2>1, EndTypes, Zenon
      <4>2. log'[z] = log[z] \/ \E d \in Element : log'[z] = Append(log[z], d)
        BY <2>6, Zenon DEF Wrote
      <4>3. /\ Len(log[z]) <= Len(log'[z])
            /\ \A i \in 1..Len(log[z]) : log'[z][i] = log[z][i]
        BY <4>1, <4>2, GrowsAtTheEnd, Zenon
      <4> QED  BY <2>4, <4>3, Zenon DEF Stream!Extends
    <3>4. Stream(s)!OnlyGrows(e)
      BY <3>2, <3>3, Zenon DEF Stream!OnlyGrows
    <3>5. CASE Shut(z)'
      <4>1. closed' = closed \cup {e}
        BY <2>3, <2>4, <3>5, Zenon
      <4>2. Stream(s)!Finish(e)
        BY <3>1, <3>4, <4>1, Zenon DEF Stream!Finish
      <4> QED  BY <2>3, <4>2, Zenon DEF Stream!Next
    <3>6. CASE ~Shut(z)'
      <4>1. closed' = closed
        BY <2>3, <2>4, <3>1, <3>6, Zenon
      <4>2. Stream(s)!Extend(e)
        BY <3>1, <3>4, <4>1, Zenon DEF Stream!Extend
      <4> QED  BY <2>3, <4>2, Zenon DEF Stream!Next
    <3> QED  BY <3>5, <3>6, Zenon
  <2>7. CASE ReadNext(z)
    <3>1. sent' = sent /\ closed' = closed
      BY <2>3, <2>4, <2>7, Zenon DEF ReadNext
    <3>2. Len(received[e]) < Len(sent[Peer(e)])
      BY <2>4, <2>7, Zenon DEF ReadNext
    <3> DEFINE now == Append(received[e], sent[Peer(e)][Len(received[e]) + 1])
    <3>3. received'[e] = now
      BY <2>4, <2>7, Zenon DEF ReadNext
    <3> HIDE DEF now
    <3>4. received' = [received EXCEPT ![e] = now]
      BY <2>3, <2>4, <3>3, Zenon
    <3>5. Stream(s)!Deliver(e)
      BY <2>3, <3>1, <3>2, <3>4, Zenon DEF Stream!Deliver, now
    <3> QED  BY <2>3, <3>5, Zenon DEF Stream!Next
  <2> QED  BY <2>2, <2>5, <2>6, <2>7, Zenon
<1> QED  BY <1>1, <1>2, StreamInit, StreamStep, PTL DEF Spec, ImplementsStreams

=============================================================================
