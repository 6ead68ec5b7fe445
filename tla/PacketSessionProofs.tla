------------------------ MODULE PacketSessionProofs ------------------------
(***************************************************************************)
(* PacketSession, for every value of its constants.  Type correctness, and *)
(* what a pass of the output loop does to the trees and the network.  Then *)
(* the sending half: every action is a step of at most one sender, which   *)
(* keeps its trees and the network in agreement with the log of what it    *)
(* numbered (SentInv) and never lets a segment go that the peer has not    *)
(* received (Sends).  The receiving half: every action is a step of at     *)
(* most one receiver, whose trees agree with the log of its peer           *)
(* (Receives).  Together: what Read returns is a prefix of what the peer   *)
(* numbered, an acknowledgement discards nothing the peer has not          *)
(* accepted, and the session implements ReliableStream.  Last the opening  *)
(* of the session (HandshakeInv: nothing shows it open to the client       *)
(* before the server opened it) and the room in the trees (RoomInv: what   *)
(* is sent and not received is in the sender's tree and fits).             *)
(***************************************************************************)
EXTENDS PacketSession, FiniteSetTheorems, TLAPS

-----------------------------------------------------------------------------
(* Facts about the helpers.                                                *)

\* The two sides are each other's peers.
LEMMA PeerFacts ==
    ASSUME NEW e \in Side
    PROVE  Peer(e) \in Side /\ Peer(e) # e /\ Peer(Peer(e)) = e
BY Zenon DEF Side, Peer

\* Segments made by Seg are well typed.
LEMMA SegType ==
    ASSUME NEW k \in Kind, NEW q \in Nat, NEW d \in Nat, NEW w \in Nat
    PROVE  Seg(k, q, d, w) \in Segment
BY Zenon DEF Seg, Segment

\* Datagrams made from segments are well typed.
LEMMA DatagramType ==
    ASSUME NEW e \in Side, NEW s \in Segment, nextRecv \in [Side -> Nat]
    PROVE  Datagram(e, s) \in Message
BY PeerFacts, Zenon DEF Datagram, Message, Segment

\* The network holds nothing that was not there or written now.
LEMMA TransmitFacts ==
    ASSUME NEW r, NEW ms, Transmit(r, ms)
    PROVE  net' \subseteq r \cup ms
BY Zenon DEF Transmit

\* What is used of finite sets: the lemmas assume it, and it is proved, from the
\* library, where the theorems are.
FiniteSetFacts ==
    /\ IsFiniteSet({})
    /\ \A S : IsFiniteSet(S) => Cardinality(S) \in Nat
    /\ \A S, T : IsFiniteSet(S) /\ T \subseteq S => IsFiniteSet(T)
    /\ \A S, T : IsFiniteSet(S) /\ IsFiniteSet(T) => IsFiniteSet(S \cup T)
    /\ \A S, x : IsFiniteSet(S) => IsFiniteSet(S \cup {x})

\* Inserting in a tree keeps its type and its finiteness.
LEMMA InsertFacts ==
    ASSUME FiniteSetFacts, NEW t \in SUBSET Segment, NEW s \in Segment
    PROVE  /\ Insert(t, s) \subseteq Segment
           /\ IsFiniteSet(t) => IsFiniteSet(Insert(t, s))
<1>1. Insert(t, s) \subseteq Segment
  BY Zenon DEF Insert
<1>2. ASSUME IsFiniteSet(t) PROVE IsFiniteSet(Insert(t, s))
  <2>1. IsFiniteSet({x \in t : x.seq # s.seq})
    <3>1. {x \in t : x.seq # s.seq} \subseteq t
      BY Zenon
    <3> QED
      BY <1>2, <3>1, Zenon DEF FiniteSetFacts
  <2> QED
    BY <2>1, Zenon DEF Insert, FiniteSetFacts
<1> QED
  BY <1>1, <1>2, Zenon

-----------------------------------------------------------------------------
(* Type correctness.                                                       *)

\* The window arithmetic needs finite receive trees.
TypeInv ==
    /\ TypeOK
    /\ \A e \in Side : IsFiniteSet(recvBuf[e]) /\ IsFiniteSet(recvQueue[e])

\* The advertised window is a natural number.
LEMMA WindowType ==
    ASSUME FiniteSetFacts, TypeInv, NEW e \in Side
    PROVE  ReceiveWindow(e) \in Nat
<1>1. Cardinality(recvBuf[e]) \in Nat /\ Cardinality(recvQueue[e]) \in Nat
  BY Zenon DEF FiniteSetFacts, TypeInv
<1> QED
  BY <1>1, TreeAssumption DEF ReceiveWindow, Largest

\* StartClose keeps the types of what it changes.
LEMMA StartCloseType ==
    ASSUME FiniteSetFacts, TypeInv, NEW e \in Side, NEW who \in {"user", "input"}, NEW reply \in BOOLEAN,
           NEW rest \in SUBSET net, StartClose(e, who, reply, rest)
    PROVE  /\ state' \in [Side -> SessionState]
           /\ closing' \in [Side -> {"none", "user", "input", "output"}]
           /\ closeSeq' \in [Side -> Nat]
           /\ outputErr' \in [Side -> BOOLEAN]
           /\ sendQueue' \in [Side -> SUBSET Segment]
           /\ sendBuf' \in [Side -> SUBSET Segment]
           /\ nextSend' \in [Side -> Nat]
           /\ lastSend' \in [Side -> Nat]
           /\ log' \in [Side -> Seq(Nat)]
           /\ net' \subseteq Message
<1> DEFINE seq == IF reply THEN nextSend[e] + 1 ELSE nextSend[e]
           history == IF reply THEN Append(log[e], 0) ELSE log[e]
           last == IF reply THEN nextSend[e] ELSE lastSend[e]
           req == Seg("closeReq", seq, 0, 0)
           sent == IF reply THEN {Datagram(e, Seg("closeResp", nextSend[e], 0, 0))} ELSE {}
<1>1. seq \in Nat /\ last \in Nat
  BY DEF TypeInv, TypeOK
<1>2. history \in Seq(Nat) /\ Append(history, 0) \in Seq(Nat)
  BY DEF TypeInv, TypeOK
<1>3. req \in Segment /\ Insert(sendQueue[e], req) \subseteq Segment
  BY <1>1, SegType, InsertFacts, Zenon DEF Kind, TypeInv, TypeOK
<1>4. sent \subseteq Message /\ Datagram(e, req) \in Message
  <2>1. Seg("closeResp", nextSend[e], 0, 0) \in Segment
    BY SegType, Zenon DEF Kind, TypeInv, TypeOK
  <2> QED
    BY <2>1, <1>3, DatagramType, Zenon DEF TypeInv, TypeOK
<1>5. net' \subseteq Message
  <2>1. net' \subseteq rest \cup sent \cup {Datagram(e, req)}
    BY TransmitFacts DEF StartClose
  <2> QED
    BY <2>1, <1>4, Zenon DEF TypeInv, TypeOK
<1> HIDE DEF seq, history, last, req, sent
<1>6. CASE closing[e] # "none"
  <2>1. /\ nextSend' = [nextSend EXCEPT ![e] = seq]
        /\ log' = [log EXCEPT ![e] = history]
        /\ lastSend' = [lastSend EXCEPT ![e] = last]
        /\ UNCHANGED <<state, closeVars, sendQueue, sendBuf>>
    BY <1>6, Zenon DEF StartClose, seq, history, last
  <2> QED
    BY <2>1, <1>1, <1>2, <1>5, Zenon DEF TypeInv, TypeOK, closeVars
<1>7. CASE closing[e] = "none"
  <2>1. /\ closing' = [closing EXCEPT ![e] = who]
        /\ closeSeq' = [closeSeq EXCEPT ![e] = seq]
        /\ nextSend' = [nextSend EXCEPT ![e] = seq + 1]
        /\ log' = [log EXCEPT ![e] = Append(history, 0)]
        /\ UNCHANGED outputErr
    BY <1>7, Zenon DEF StartClose, seq, history, last, req, sent
  <2>2. /\ closing' \in [Side -> {"none", "user", "input", "output"}]
        /\ closeSeq' \in [Side -> Nat]
        /\ nextSend' \in [Side -> Nat]
        /\ outputErr' \in [Side -> BOOLEAN]
    BY <2>1, <1>1 DEF TypeInv, TypeOK
  <2>3. log' \in [Side -> Seq(Nat)]
    BY <2>1, <1>2, Zenon DEF TypeInv, TypeOK
  <2>4. CASE /\ sendQueue' = [sendQueue EXCEPT ![e] = Insert(sendQueue[e], req)]
             /\ lastSend' = [lastSend EXCEPT ![e] = last]
             /\ UNCHANGED <<state, sendBuf>>
    BY <2>2, <2>3, <2>4, <1>1, <1>3, <1>5, Zenon DEF TypeInv, TypeOK
  <2>5. CASE /\ lastSend' = [lastSend EXCEPT ![e] = IF CipherReady(e) THEN seq ELSE last]
             /\ sendQueue' = [sendQueue EXCEPT ![e] = {}]
             /\ sendBuf' = [sendBuf EXCEPT ![e] = {}]
             /\ state' = [state EXCEPT ![e] = "Closed"]
    BY <2>2, <2>3, <2>5, <1>1, <1>5, Zenon DEF TypeInv, TypeOK, SessionState
  <2> QED
    BY <1>7, <2>4, <2>5, SMTT(30) DEF StartClose, seq, history, last, req, sent
<1> QED
  BY <1>6, <1>7, Zenon

\* ReceiveSegment keeps the types and the finiteness of the receive trees.
LEMMA ReceiveType ==
    ASSUME FiniteSetFacts, TypeInv, NEW e \in Side, NEW seg \in Segment, NEW wnd \in Nat,
           ReceiveSegment(e, seg, wnd)
    PROVE  /\ recvBuf' \in [Side -> SUBSET Segment]
           /\ recvQueue' \in [Side -> SUBSET Segment]
           /\ nextRecv' \in [Side -> Nat]
           /\ remoteWindow' \in [Side -> Nat]
           /\ \A x \in Side : IsFiniteSet(recvBuf'[x]) /\ IsFiniteSet(recvQueue'[x])
<1>1. CASE ReceiveWindow(e) = 0
  BY <1>1, Zenon DEF ReceiveSegment, TypeInv, TypeOK, recvVars
<1>2. CASE ReceiveWindow(e) # 0
  <2> DEFINE buf == Insert(recvBuf[e], seg)
             first == nextRecv[e]
             room == Remaining(recvQueue[e], TreeCapacity)
             run(n) == {s \in buf : s.seq \in first..(first + n - 1)}
             data(n) == {s \in run(n) : s.kind = "data"}
  <2>1. PICK n \in 0..room :
           /\ recvBuf' = [recvBuf EXCEPT ![e] = DeleteBelow(buf, first + n)]
           /\ recvQueue' = [recvQueue EXCEPT ![e] = recvQueue[e] \cup run(n)]
           /\ nextRecv' = [nextRecv EXCEPT ![e] = first + n]
           /\ \E newest \in IF data(n) = {} THEN {wnd} ELSE {s.wnd : s \in Last(data(n))} :
                 remoteWindow' = [remoteWindow EXCEPT ![e] = newest]
    BY <1>2, Zenon DEF ReceiveSegment, RunLength
  <2>2. buf \subseteq Segment /\ IsFiniteSet(buf)
    BY InsertFacts, Zenon DEF TypeInv, TypeOK
  <2> HIDE DEF buf
  <2>3. run(n) \subseteq buf /\ DeleteBelow(buf, first + n) \subseteq buf
    BY Zenon DEF DeleteBelow
  <2>4. IsFiniteSet(run(n)) /\ IsFiniteSet(DeleteBelow(buf, first + n))
    BY <2>2, <2>3, Zenon DEF FiniteSetFacts
  <2>5. IsFiniteSet(recvQueue[e] \cup run(n))
    BY <2>4, Zenon DEF FiniteSetFacts, TypeInv
  <2>6. n \in Nat
    OBVIOUS
  <2>7. remoteWindow' \in [Side -> Nat]
    <3>1. data(n) \subseteq Segment /\ Last(data(n)) \subseteq Segment
      BY <2>2, <2>3, Zenon DEF Last
    <3>2. \A s \in Segment : s.wnd \in Nat
      BY Zenon DEF Segment
    <3>3. PICK newest \in IF data(n) = {} THEN {wnd} ELSE {s.wnd : s \in Last(data(n))} :
             remoteWindow' = [remoteWindow EXCEPT ![e] = newest]
      BY <2>1, Zenon
    <3>4. newest \in Nat
      BY <3>1, <3>2, Zenon
    <3> QED
      BY <3>3, <3>4, Zenon DEF TypeInv, TypeOK
  <2> HIDE DEF run
  <2>8. /\ recvBuf' \in [Side -> SUBSET Segment]
        /\ recvQueue' \in [Side -> SUBSET Segment]
        /\ nextRecv' \in [Side -> Nat]
    BY <2>1, <2>2, <2>3, <2>6 DEF TypeInv, TypeOK
  <2>9. \A x \in Side : IsFiniteSet(recvBuf'[x]) /\ IsFiniteSet(recvQueue'[x])
    BY <2>1, <2>4, <2>5, Zenon DEF TypeInv, TypeOK
  <2> QED
    BY <2>7, <2>8, <2>9, Zenon
<1> QED
  BY <1>1, <1>2, Zenon

-----------------------------------------------------------------------------
(* What a pass of the output loop does to the trees and to the network.    *)

\* Two copies of one segment, which differ in their transmission count only.
SameSegment(s, t) == s.kind = t.kind /\ s.seq = t.seq /\ s.data = t.data

\* A datagram a pass on side e may write: it carries the side's cumulative
\* acknowledgement or none, and stream content only from the side's trees.
Written(e, m) ==
    /\ m.to = Peer(e)
    /\ m.unAck <= nextRecv[e]
    /\ m.kind \in StreamKind =>
          \E t \in sendBuf[e] \cup sendQueue[e] :
              /\ m.kind = t.kind /\ m.seq = t.seq /\ m.data = t.data
              /\ t \notin sendBuf[e] => ~(IsClientOpening(e) /\ t.kind = "data")

\* The pass closes the session.
Aborts(e) ==
    /\ state' = [state EXCEPT ![e] = "Closed"]
    /\ closing' = [closing EXCEPT ![e] = "output"]
    /\ sendQueue' = [sendQueue EXCEPT ![e] = {}]
    /\ sendBuf' = [sendBuf EXCEPT ![e] = {}]
    /\ nextSend' = [nextSend EXCEPT ![e] = nextSend[e] + 1]
    /\ log' = [log EXCEPT ![e] = Append(log[e], 0)]

\* The pass moves the segments fresh from sendQueue to sendBuf.
Moves(e, fresh, buf) ==
    /\ UNCHANGED <<state, closing, nextSend, log>>
    /\ sendQueue' = [sendQueue EXCEPT ![e] = sendQueue[e] \ fresh]
    /\ sendBuf' = [sendBuf EXCEPT ![e] = buf]
    /\ \A s \in buf : \E t \in sendBuf[e] \cup fresh : SameSegment(s, t)
    /\ \A t \in sendBuf[e] \cup fresh : \E s \in buf : SameSegment(s, t)
    /\ IsClientOpening(e) => \A t \in fresh : t.kind # "data"

OutputEffect(e) ==
    /\ Aborts(e) \/ \E fresh \in SUBSET sendQueue[e], buf \in SUBSET Segment : Moves(e, fresh, buf)
    /\ net' \subseteq Message
    /\ \A m \in net' : m \in net \/ Written(e, m)
    /\ lastSend' \in [Side -> Nat]
    /\ outputErr' \in [Side -> BOOLEAN]

\* Copies of segments with another transmission count are segments.
LEMMA CopyFacts ==
    ASSUME NEW t \in Segment, NEW n \in Nat
    PROVE  [t EXCEPT !.tx = n] \in Segment /\ SameSegment([t EXCEPT !.tx = n], t)
BY Zenon DEF Segment, SameSegment

\* runOutputOncePacket has the effect just described.
LEMMA OutputFacts ==
    ASSUME FiniteSetFacts, TypeInv, NEW e \in Side, OutputPacket(e)
    PROVE  OutputEffect(e)
<1>1. PICK due \in SUBSET sendBuf[e], exhausted \in BOOLEAN, ack \in BOOLEAN :
         OutputPass(e, due, exhausted, ack)
  BY Zenon DEF OutputPacket
<1> DEFINE abort == exhausted /\ closing[e] = "none"
           opening == IsClientOpening(e) /\ ~abort
           resent == {[s EXCEPT !.tx = s.tx + 1] : s \in due}
           buf == IF abort THEN {} ELSE (sendBuf[e] \ due) \cup resent
           queue == IF abort THEN {} ELSE sendQueue[e]
           closeReq == IF abort THEN {Seg("closeReq", nextSend[e], 0, 0)} ELSE {}
           after == IF abort THEN nextSend[e] + 1 ELSE nextSend[e]
           acks == IF ack THEN {Seg("ack", Largest(0, after - 1), 0, ReceiveWindow(e))} ELSE {}
           sent(fresh) == {[s EXCEPT !.tx = 1] : s \in fresh}
           out(fresh) == IF CipherReady(e) THEN resent \cup closeReq \cup sent(fresh) \cup acks ELSE {}
<1>2. PICK fresh \in NewBatches(e, queue, Cardinality(buf), Cardinality(due), opening) :
         /\ sendQueue' = [sendQueue EXCEPT ![e] = queue \ fresh]
         /\ sendBuf' = [sendBuf EXCEPT ![e] = buf \cup sent(fresh)]
         /\ Transmit(net, {Datagram(e, s) : s \in out(fresh)})
         /\ \E last \in IF out(fresh) = {} THEN {lastSend[e]}
                       ELSE Seqs(IF ack THEN acks
                                 ELSE IF fresh # {} THEN Last(fresh) ELSE Last(out(fresh))) :
               lastSend' = [lastSend EXCEPT ![e] = last]
  BY <1>1, Zenon DEF OutputPass
<1>3. /\ outputErr' = [outputErr EXCEPT ![e] = exhausted]
      /\ closing' = [closing EXCEPT ![e] = IF abort THEN "output" ELSE closing[e]]
      /\ state' = [state EXCEPT ![e] = IF abort THEN "Closed" ELSE state[e]]
      /\ nextSend' = [nextSend EXCEPT ![e] = after]
      /\ log' = [log EXCEPT ![e] = IF abort THEN Append(log[e], 0) ELSE log[e]]
  BY <1>1, Zenon DEF OutputPass
<1>4. /\ fresh \subseteq queue /\ queue \subseteq sendQueue[e]
      /\ opening => \A s \in fresh : s.kind # "data"
  BY Zenon DEF NewBatches
<1>5. /\ sendBuf[e] \subseteq Segment /\ sendQueue[e] \subseteq Segment
      /\ due \subseteq Segment /\ fresh \subseteq Segment
      /\ abort => fresh = {}
      /\ ~abort => fresh \subseteq sendQueue[e]
  BY <1>4, Zenon DEF TypeInv, TypeOK
<1>6. /\ \A s \in resent : s \in Segment /\ \E t \in due : SameSegment(s, t)
      /\ \A t \in due : \E s \in resent : SameSegment(s, t)
  <2>1. \A t \in due : t.tx + 1 \in Nat
    BY <1>5 DEF Segment
  <2>2. \A t \in due : /\ [t EXCEPT !.tx = t.tx + 1] \in Segment
                       /\ SameSegment([t EXCEPT !.tx = t.tx + 1], t)
    BY <2>1, <1>5, CopyFacts, Zenon
  <2> QED
    BY <2>2, Zenon
<1>7. /\ \A s \in sent(fresh) : s \in Segment /\ \E t \in fresh : SameSegment(s, t)
      /\ \A t \in fresh : \E s \in sent(fresh) : SameSegment(s, t)
  <2>1. \A t \in fresh : [t EXCEPT !.tx = 1] \in Segment /\ SameSegment([t EXCEPT !.tx = 1], t)
    BY <1>5, CopyFacts, Zenon
  <2> QED
    BY <2>1, Zenon
<1>8. /\ closeReq \subseteq Segment /\ \A s \in closeReq : s.kind = "closeReq"
      /\ acks \subseteq Segment /\ \A s \in acks : s.kind = "ack"
  <2>1. nextSend[e] \in Nat /\ after \in Nat /\ Largest(0, after - 1) \in Nat
    BY DEF TypeInv, TypeOK, Largest
  <2>2. ReceiveWindow(e) \in Nat
    BY WindowType, Zenon
  <2>3. Seg("closeReq", nextSend[e], 0, 0) \in Segment
    BY <2>1, SegType, Zenon DEF Kind
  <2>4. Seg("ack", Largest(0, after - 1), 0, ReceiveWindow(e)) \in Segment
    BY <2>1, <2>2, SegType, Zenon DEF Kind
  <2> QED
    BY <2>3, <2>4 DEF Seg
<1> HIDE DEF resent, closeReq, acks, sent
<1>9. \A s \in out(fresh) :
         /\ s \in Segment
         /\ s.kind \in {"ack", "closeReq"} \/ \E t \in sendBuf[e] \cup sendQueue[e] :
               SameSegment(s, t) /\ (t \notin sendBuf[e] => ~(IsClientOpening(e) /\ t.kind = "data"))
  <2> SUFFICES ASSUME NEW s \in resent \cup closeReq \cup sent(fresh) \cup acks
               PROVE  /\ s \in Segment
                      /\ s.kind \in {"ack", "closeReq"} \/ \E t \in sendBuf[e] \cup sendQueue[e] :
                            SameSegment(s, t) /\ (t \notin sendBuf[e] => ~(IsClientOpening(e) /\ t.kind = "data"))
    BY Zenon
  <2>1. CASE s \in resent
    BY <2>1, <1>6, Zenon
  <2>2. CASE s \in closeReq \cup acks
    BY <2>2, <1>8, Zenon
  <2>3. CASE s \in sent(fresh)
    <3>1. PICK t \in fresh : SameSegment(s, t)
      BY <2>3, <1>7, Zenon
    <3>2. t \in sendQueue[e] /\ ~(IsClientOpening(e) /\ t.kind = "data")
      BY <1>4, <1>5, Zenon
    <3> QED
      BY <2>3, <3>1, <3>2, <1>7, Zenon
  <2> QED
    BY <2>1, <2>2, <2>3, Zenon
<1>10. net' \subseteq Message /\ \A m \in net' : m \in net \/ Written(e, m)
  <2>1. \A m \in net' : m \in net \/ \E s \in out(fresh) : m = Datagram(e, s)
    BY <1>2, TransmitFacts
  <2>2. ASSUME NEW s \in out(fresh) PROVE Datagram(e, s) \in Message /\ Written(e, Datagram(e, s))
    <3>1. Datagram(e, s) \in Message
      BY <1>9, DatagramType, Zenon DEF TypeInv, TypeOK
    <3>2. nextRecv[e] \in Nat
      BY Zenon DEF TypeInv, TypeOK
    <3>3. /\ Datagram(e, s).to = Peer(e) /\ Datagram(e, s).unAck <= nextRecv[e]
          /\ Datagram(e, s).kind = s.kind /\ Datagram(e, s).seq = s.seq
          /\ Datagram(e, s).data = s.data
      BY <3>2 DEF Datagram
    <3>4. "ack" \notin StreamKind /\ "closeReq" \notin StreamKind
      BY Zenon DEF StreamKind
    <3> QED
      BY <3>1, <3>3, <3>4, <1>9 DEF Written, SameSegment
  <2> QED
    BY <2>1, <2>2, Zenon DEF TypeInv, TypeOK
<1>11. lastSend' \in [Side -> Nat] /\ outputErr' \in [Side -> BOOLEAN]
  <2>1. \A s \in Segment : s.seq \in Nat
    BY Zenon DEF Segment
  <2>2. PICK last \in IF out(fresh) = {} THEN {lastSend[e]}
                      ELSE Seqs(IF ack THEN acks
                                ELSE IF fresh # {} THEN Last(fresh) ELSE Last(out(fresh))) :
           lastSend' = [lastSend EXCEPT ![e] = last]
    BY <1>2, Zenon
  <2>3. Last(fresh) \subseteq Segment /\ Last(out(fresh)) \subseteq Segment
    BY <1>5, <1>9, Zenon DEF Last
  <2>4. last \in Nat
    <3>1. CASE out(fresh) = {}
      BY <3>1, Zenon DEF TypeInv, TypeOK
    <3>2. CASE out(fresh) # {}
      BY <3>2, <2>1, <2>3, <1>8, Zenon DEF Seqs
    <3> QED
      BY <3>1, <3>2, Zenon
  <2> QED
    BY <2>2, <2>4, <1>3, Zenon DEF TypeInv, TypeOK
<1>12. Aborts(e) \/ \E f \in SUBSET sendQueue[e], b \in SUBSET Segment : Moves(e, f, b)
  <2>1. CASE abort
    <3>1. sent(fresh) = {}
      BY <2>1, <1>5, Zenon DEF sent
    <3> QED
      BY <2>1, <3>1, <1>2, <1>3, <1>5, Zenon DEF Aborts
  <2>2. CASE ~abort
    <3>1. /\ closing' = [closing EXCEPT ![e] = closing[e]]
          /\ state' = [state EXCEPT ![e] = state[e]]
          /\ nextSend' = [nextSend EXCEPT ![e] = nextSend[e]]
          /\ log' = [log EXCEPT ![e] = log[e]]
      BY <2>2, <1>3, Zenon
    <3>2. UNCHANGED <<state, closing, nextSend, log>>
      BY <3>1, Zenon DEF TypeInv, TypeOK
    <3>3. /\ sendQueue' = [sendQueue EXCEPT ![e] = sendQueue[e] \ fresh]
          /\ sendBuf' = [sendBuf EXCEPT ![e] = buf \cup sent(fresh)]
          /\ buf = (sendBuf[e] \ due) \cup resent
      BY <2>2, <1>2, Zenon
    <3>4. buf \cup sent(fresh) \subseteq Segment
      BY <3>3, <1>5, <1>6, <1>7, Zenon
    <3>5. \A x \in buf \cup sent(fresh) : \E t \in sendBuf[e] \cup fresh : SameSegment(x, t)
      BY <3>3, <1>6, <1>7, ZenonT(60) DEF SameSegment
    <3>6. \A t \in sendBuf[e] \cup fresh : \E x \in buf \cup sent(fresh) : SameSegment(x, t)
      BY <3>3, <1>6, <1>7, Zenon DEF SameSegment
    <3>7. Moves(e, fresh, buf \cup sent(fresh))
      BY <2>2, <3>2, <3>3, <3>5, <3>6, <1>4, Zenon DEF Moves
    <3> QED
      BY <2>2, <3>4, <3>7, <1>5, Zenon
  <2> QED
    BY <2>1, <2>2, Zenon
<1> QED
  BY <1>10, <1>11, <1>12, Zenon DEF OutputEffect

\* A segment rebuilt from a datagram is well typed.
LEMMA SegOfMessage ==
    ASSUME TypeInv, NEW m \in net
    PROVE  /\ m.to \in Side /\ m.wnd \in Nat /\ m.unAck \in Nat /\ m.seq \in Nat
           /\ Seg(m.kind, m.seq, m.data, m.wnd) \in Segment
<1>1. m \in Message
  BY Zenon DEF TypeInv, TypeOK
<1> QED
  BY <1>1, SegType, Zenon DEF Message

\* What is left of the network when a datagram arrives.
LEMMA RestFacts ==
    ASSUME NEW m, NEW rest \in AfterArrival(m)
    PROVE  rest \subseteq net
BY Zenon DEF AfterArrival

\* Dropping a prefix keeps the type.
LEMMA DeleteType ==
    ASSUME TypeInv, NEW e \in Side, NEW n
    PROVE  [sendBuf EXCEPT ![e] = DeleteBelow(sendBuf[e], n)] \in [Side -> SUBSET Segment]
BY Zenon DEF TypeInv, TypeOK, DeleteBelow

\* Every step of the session preserves the types.
LEMMA TypeStep ==
    ASSUME FiniteSetFacts, TypeInv, [Next]_vars
    PROVE  TypeInv'
<1>1. CASE OpenSession
  <2>1. PICK piggyback \in {0, 1} :
          LET payload == IF piggyback = 1 THEN written["client"] + 1 ELSE 0
              req == Seg("openReq", nextSend["client"], payload, 0)
          IN  /\ written' = [written EXCEPT !["client"] = @ + piggyback]
              /\ sendQueue' = [sendQueue EXCEPT !["client"] = Insert(@, req)]
              /\ log' = [log EXCEPT !["client"] = Append(@, payload)]
    BY <1>1, Zenon DEF OpenSession
  <2> DEFINE payload == IF piggyback = 1 THEN written["client"] + 1 ELSE 0
             req == Seg("openReq", nextSend["client"], payload, 0)
  <2>2. "client" \in Side
    BY Zenon DEF Side
  <2>3. payload \in Nat
    BY <2>2 DEF TypeInv, TypeOK
  <2>4. req \in Segment
    BY <2>2, <2>3, SegType, Zenon DEF Kind, StreamKind, TypeInv, TypeOK
  <2> HIDE DEF payload, req
  <2>5. sendQueue' \in [Side -> SUBSET Segment]
    BY <2>1, <2>2, <2>4, InsertFacts, Zenon DEF TypeInv, TypeOK, payload, req
  <2>6. log' \in [Side -> Seq(Nat)]
    <3>1. log \in [Side -> Seq(Nat)] /\ log["client"] \in Seq(Nat)
      BY <2>2, Zenon DEF TypeInv, TypeOK
    <3>2. Append(log["client"], payload) \in Seq(Nat)
      BY <3>1, <2>3
    <3>3. log' = [log EXCEPT !["client"] = Append(log["client"], payload)]
      BY <2>1, Zenon DEF payload
    <3> QED
      BY <3>1, <3>2, <3>3, Zenon
  <2>7. written' \in [Side -> Nat] /\ nextSend' \in [Side -> Nat] /\ openSent' \in BOOLEAN
    BY <1>1, <2>1, <2>2, SMTT(30) DEF OpenSession, TypeInv, TypeOK
  <2> QED
    BY <1>1, <2>5, <2>6, <2>7, Zenon DEF OpenSession, TypeInv, TypeOK, closeVars, recvVars
<1>2. ASSUME NEW e \in Side, NEW n \in 1..MaxFragments, Write(e, n) PROVE TypeInv'
  <2> DEFINE new == {Seg("data", nextSend[e] + i - 1, written[e] + i, ReceiveWindow(e)) : i \in 1..n}
             tail == [i \in 1..n |-> written[e] + i]
  <2>1. n \in Nat /\ nextSend[e] \in Nat /\ written[e] \in Nat /\ ReceiveWindow(e) \in Nat
    <3>1. n \in Nat
      BY BoundAssumption
    <3> QED
      BY <3>1, WindowType, Zenon DEF TypeInv, TypeOK
  <2>2. new \subseteq Segment
    <3>1. ASSUME NEW i \in 1..n
          PROVE  Seg("data", nextSend[e] + i - 1, written[e] + i, ReceiveWindow(e)) \in Segment
      BY <2>1, SegType DEF Kind, StreamKind
    <3> QED
      BY <3>1, Zenon
  <2>3. tail \in Seq(Nat)
    BY <2>1
  <2>4. sendQueue' = [sendQueue EXCEPT ![e] = sendQueue[e] \cup new]
    BY <1>2, Zenon DEF Write
  <2>5. log' = [log EXCEPT ![e] = log[e] \o tail]
    BY <1>2, Zenon DEF Write
  <2> HIDE DEF new, tail
  <2>6. sendQueue' \in [Side -> SUBSET Segment]
    BY <2>2, <2>4, Zenon DEF TypeInv, TypeOK
  <2>7. log[e] \o tail \in Seq(Nat)
    BY <2>3 DEF TypeInv, TypeOK
  <2>8. log' \in [Side -> Seq(Nat)]
    BY <2>5, <2>7, Zenon DEF TypeInv, TypeOK
  <2>9. nextSend' \in [Side -> Nat] /\ written' \in [Side -> Nat]
    BY <1>2, <2>1, SMTT(30) DEF Write, TypeInv, TypeOK
  <2> QED
    BY <1>2, <2>6, <2>8, <2>9, Zenon DEF Write, TypeInv, TypeOK, closeVars, recvVars
<1>3. ASSUME NEW e \in Side, Read(e) PROVE TypeInv'
  <2>1. PICK s \in First(recvQueue[e]) :
          /\ recvQueue' = [recvQueue EXCEPT ![e] = recvQueue[e] \ {s}]
          /\ delivered' = [delivered EXCEPT ![e] = Append(delivered[e], s.data)]
    BY <1>3, Zenon DEF Read
  <2>2. s \in recvQueue[e] /\ s.data \in Nat
    BY DEF First, TypeInv, TypeOK, Segment
  <2>3. recvQueue' \in [Side -> SUBSET Segment] /\ delivered' \in [Side -> Seq(Nat)]
    BY <2>1, <2>2 DEF TypeInv, TypeOK
  <2>4. \A x \in Side : IsFiniteSet(recvQueue'[x])
    <3>1. \A x \in Side : recvQueue'[x] \subseteq recvQueue[x]
      BY <2>1, Zenon DEF TypeInv, TypeOK
    <3> QED
      BY <3>1, Zenon DEF FiniteSetFacts, TypeInv
  <2> QED
    BY <1>3, <2>3, <2>4, Zenon DEF Read, TypeInv, TypeOK, closeVars, sendVars
<1>4. ASSUME NEW e \in Side, OutputPacket(e) PROVE TypeInv'
  <2>1. OutputEffect(e)
    BY <1>4, OutputFacts, Zenon
  <2>2. UNCHANGED <<openSent, recvChan, closeSeq, remoteWindow, recvVars, written, delivered>>
    BY <1>4, Zenon DEF OutputPacket
  <2>3. CASE Aborts(e)
    <3>1. log[e] \in Seq(Nat) /\ Append(log[e], 0) \in Seq(Nat)
      BY DEF TypeInv, TypeOK
    <3>2. log' \in [Side -> Seq(Nat)]
      BY <3>1, <2>3, Zenon DEF Aborts, TypeInv, TypeOK
    <3>3. /\ state' \in [Side -> SessionState] /\ nextSend' \in [Side -> Nat]
          /\ closing' \in [Side -> {"none", "user", "input", "output"}]
          /\ sendQueue' \in [Side -> SUBSET Segment] /\ sendBuf' \in [Side -> SUBSET Segment]
      BY <2>3 DEF Aborts, TypeInv, TypeOK, SessionState
    <3> QED
      BY <2>1, <2>2, <3>2, <3>3, SMTT(30) DEF OutputEffect, TypeInv, TypeOK, recvVars
  <2>4. ASSUME NEW fresh \in SUBSET sendQueue[e], NEW buf \in SUBSET Segment, Moves(e, fresh, buf)
        PROVE  TypeInv'
    BY <2>1, <2>2, <2>4, Zenon DEF OutputEffect, Moves, TypeInv, TypeOK, recvVars
  <2> QED
    BY <2>1, <2>3, <2>4, Zenon DEF OutputEffect
<1>5. ASSUME NEW e \in Side, OutputFails(e) PROVE TypeInv'
  <2>1. log[e] \in Seq(Nat) /\ Append(log[e], 0) \in Seq(Nat)
    BY DEF TypeInv, TypeOK
  <2>2. log' \in [Side -> Seq(Nat)]
    BY <1>5, <2>1, ZenonT(60) DEF OutputFails, TypeInv, TypeOK
  <2>3. CASE closing[e] = "none"
    <3>1. /\ state' \in [Side -> SessionState] /\ nextSend' \in [Side -> Nat]
          /\ closing' \in [Side -> {"none", "user", "input", "output"}]
          /\ sendQueue' \in [Side -> SUBSET Segment] /\ sendBuf' \in [Side -> SUBSET Segment]
      <4>1. /\ closing' = [closing EXCEPT ![e] = "output"]
            /\ nextSend' = [nextSend EXCEPT ![e] = nextSend[e] + 1]
            /\ sendQueue' = [sendQueue EXCEPT ![e] = {}]
            /\ sendBuf' = [sendBuf EXCEPT ![e] = {}]
            /\ state' = [state EXCEPT ![e] = "Closed"]
        BY <1>5, <2>3, Zenon DEF OutputFails
      <4> QED
        BY <4>1 DEF TypeInv, TypeOK, SessionState
    <3>2. outputErr' \in [Side -> BOOLEAN]
      BY <1>5, Zenon DEF OutputFails, TypeInv, TypeOK
    <3>3. UNCHANGED <<openSent, recvChan, closeSeq, lastSend, remoteWindow, recvVars,
                      net, written, delivered>>
      BY <1>5, Zenon DEF OutputFails
    <3> QED
      BY <2>2, <3>1, <3>2, <3>3, SMTT(30) DEF TypeInv, TypeOK, recvVars
  <2>4. CASE closing[e] # "none"
    BY <1>5, <2>2, <2>4, Zenon DEF OutputFails, TypeInv, TypeOK, recvVars
  <2> QED
    BY <2>3, <2>4, Zenon
<1>6. ASSUME NEW e \in Side, Close(e) PROVE TypeInv'
  <2>1. StartClose(e, "user", FALSE, net)
    BY <1>6, Zenon DEF Close
  <2> QED
    BY <1>6, <2>1, StartCloseType, Zenon DEF Close, TypeInv, TypeOK, recvVars
<1>7. ASSUME NEW e \in Side, CloseSucceeds(e) PROVE TypeInv'
  BY <1>7, Zenon DEF CloseSucceeds, TypeInv, TypeOK, closeVars, recvVars, SessionState
<1>8. ASSUME NEW e \in Side, CloseTimesOut(e) PROVE TypeInv'
  <2> DEFINE req == Seg("closeReq", closeSeq[e], 0, 0)
  <2>1. req \in Segment
    BY SegType, Zenon DEF Kind, TypeInv, TypeOK
  <2>2. Datagram(e, req) \in Message
    BY <2>1, DatagramType, Zenon DEF TypeInv, TypeOK
  <2>3. net' \subseteq Message
    <3>1. net' = net \/ Transmit(net, {Datagram(e, req)})
      BY <1>8, Zenon DEF CloseTimesOut
    <3> QED
      BY <3>1, <2>2, TransmitFacts DEF TypeInv, TypeOK
  <2>4. lastSend' \in [Side -> Nat]
    BY <1>8, ZenonT(60) DEF CloseTimesOut, TypeInv, TypeOK
  <2> QED
    BY <1>8, <2>3, <2>4, Zenon DEF CloseTimesOut, TypeInv, TypeOK, closeVars, recvVars, SessionState
<1>9. CASE InputOpenRequest
  <2>1. PICK seg \in recvChan :
          /\ ReceiveSegment("server", seg, remoteWindow["server"])
          /\ recvChan' = {}
          /\ AcceptOpen \/ RefuseOpen
          /\ UNCHANGED <<openSent, written, delivered>>
    BY <1>9, Zenon DEF InputOpenRequest
  <2>2. "server" \in Side /\ seg \in Segment /\ remoteWindow["server"] \in Nat
    BY Zenon DEF Side, TypeInv, TypeOK
  <2>3. /\ recvBuf' \in [Side -> SUBSET Segment]
        /\ recvQueue' \in [Side -> SUBSET Segment]
        /\ nextRecv' \in [Side -> Nat]
        /\ remoteWindow' \in [Side -> Nat]
        /\ \A x \in Side : IsFiniteSet(recvBuf'[x]) /\ IsFiniteSet(recvQueue'[x])
    BY <2>1, <2>2, ReceiveType, Zenon
  <2>4. CASE RefuseOpen
    BY <2>1, <2>2, <2>3, <2>4, StartCloseType, Zenon DEF RefuseOpen, TypeInv, TypeOK
  <2> DEFINE resp == Seg("openResp", nextSend["server"], 0, 0)
  <2>5. resp \in Segment /\ Insert(sendQueue["server"], resp) \subseteq Segment
    <3>1. resp \in Segment
      BY <2>2, SegType, Zenon DEF Kind, StreamKind, TypeInv, TypeOK
    <3> QED
      BY <3>1, <2>2, InsertFacts, Zenon DEF TypeInv, TypeOK
  <2> HIDE DEF resp
  <2>6. CASE AcceptOpen
    <3>1. Append(log["server"], 0) \in Seq(Nat)
      BY <2>2 DEF TypeInv, TypeOK
    <3>2. log' \in [Side -> Seq(Nat)] /\ nextSend' \in [Side -> Nat]
      BY <2>2, <2>6, <3>1, SMTT(30) DEF AcceptOpen, TypeInv, TypeOK
    <3>3. CASE /\ sendQueue' = [sendQueue EXCEPT !["server"] = Insert(@, resp)]
               /\ state' = [state EXCEPT !["server"] = "Established"]
               /\ UNCHANGED closeVars
      BY <2>1, <2>2, <2>3, <2>5, <2>6, <3>2, <3>3, Zenon
      DEF AcceptOpen, TypeInv, TypeOK, closeVars, SessionState, Live
    <3>4. CASE /\ closing' = [closing EXCEPT !["server"] = "input"]
               /\ UNCHANGED <<sendQueue, state, closeSeq, outputErr>>
      BY <2>1, <2>2, <2>3, <2>6, <3>2, <3>4, Zenon DEF AcceptOpen, TypeInv, TypeOK
    <3> QED
      BY <2>6, <3>3, <3>4, Zenon DEF AcceptOpen, resp
  <2> QED
    BY <2>1, <2>4, <2>6, Zenon
<1>10. ASSUME NEW m \in net, OnOpenSessionRequest(m) PROVE TypeInv'
  <2>1. PICK rest \in AfterArrival(m) : net' = rest
    BY <1>10, Zenon DEF OnOpenSessionRequest
  <2>2. net' \subseteq Message
    BY <2>1, RestFacts, Zenon DEF TypeInv, TypeOK
  <2>3. recvChan' \subseteq Segment
    BY <1>10, SegOfMessage, Zenon DEF OnOpenSessionRequest
  <2> QED
    BY <1>10, <2>2, <2>3, Zenon
    DEF OnOpenSessionRequest, TypeInv, TypeOK, closeVars, sendVars, recvVars, SessionState, Live
<1>11. ASSUME NEW m \in net, InputOpenResponse(m) PROVE TypeInv'
  <2>1. PICK rest \in AfterArrival(m) :
          /\ ReceiveSegment("client", Seg(m.kind, m.seq, m.data, m.wnd), remoteWindow["client"])
          /\ state' = [state EXCEPT !["client"] = "Established"]
          /\ net' = rest
          /\ UNCHANGED <<openSent, recvChan, closeVars, sendVars, written, delivered>>
    BY <1>11, Zenon DEF InputOpenResponse
  <2>2. "client" \in Side /\ remoteWindow["client"] \in Nat /\ net' \subseteq Message
    BY <2>1, RestFacts, Zenon DEF Side, TypeInv, TypeOK
  <2>3. /\ recvBuf' \in [Side -> SUBSET Segment]
        /\ recvQueue' \in [Side -> SUBSET Segment]
        /\ nextRecv' \in [Side -> Nat]
        /\ remoteWindow' \in [Side -> Nat]
        /\ \A x \in Side : IsFiniteSet(recvBuf'[x]) /\ IsFiniteSet(recvQueue'[x])
    BY <2>1, <2>2, SegOfMessage, ReceiveType, Zenon
  <2> QED
    BY <2>1, <2>2, <2>3, Zenon DEF TypeInv, TypeOK, closeVars, sendVars, SessionState, Live
<1>12. ASSUME NEW m \in net, InputData(m) PROVE TypeInv'
  <2>1. PICK rest \in AfterArrival(m) :
          /\ sendBuf' = [sendBuf EXCEPT ![m.to] = DeleteBelow(sendBuf[m.to], m.unAck)]
          /\ ReceiveSegment(m.to, Seg(m.kind, m.seq, m.data, m.wnd), m.wnd)
          /\ net' = rest
          /\ UNCHANGED <<state, openSent, recvChan, closeVars, sendQueue, nextSend,
                         lastSend, log, written, delivered>>
    BY <1>12, Zenon DEF InputData
  <2>2. m.to \in Side /\ m.wnd \in Nat /\ net' \subseteq Message
    BY <2>1, RestFacts, SegOfMessage, Zenon DEF TypeInv, TypeOK
  <2>3. /\ recvBuf' \in [Side -> SUBSET Segment]
        /\ recvQueue' \in [Side -> SUBSET Segment]
        /\ nextRecv' \in [Side -> Nat]
        /\ remoteWindow' \in [Side -> Nat]
        /\ \A x \in Side : IsFiniteSet(recvBuf'[x]) /\ IsFiniteSet(recvQueue'[x])
    BY <2>1, <2>2, SegOfMessage, ReceiveType, Zenon
  <2>4. sendBuf' \in [Side -> SUBSET Segment]
    BY <2>1, <2>2, DeleteType, Zenon
  <2> QED
    BY <2>1, <2>2, <2>3, <2>4, Zenon DEF TypeInv, TypeOK, closeVars
<1>13. ASSUME NEW m \in net, InputAck(m) PROVE TypeInv'
  <2>1. PICK rest \in AfterArrival(m) :
          /\ sendBuf' = [sendBuf EXCEPT ![m.to] = DeleteBelow(sendBuf[m.to], m.unAck)]
          /\ remoteWindow' = [remoteWindow EXCEPT ![m.to] = m.wnd]
          /\ net' = rest
          /\ UNCHANGED <<state, openSent, recvChan, closeVars, sendQueue, nextSend,
                         lastSend, log, recvVars, written, delivered>>
    BY <1>13, Zenon DEF InputAck
  <2>2. m.to \in Side /\ m.wnd \in Nat /\ net' \subseteq Message
    BY <2>1, RestFacts, SegOfMessage, Zenon DEF TypeInv, TypeOK
  <2>3. sendBuf' \in [Side -> SUBSET Segment]
    BY <2>1, <2>2, DeleteType, Zenon
  <2> QED
    BY <2>1, <2>2, <2>3, SMTT(30) DEF TypeInv, TypeOK, closeVars, recvVars
<1>14. ASSUME NEW m \in net, InputClose(m) PROVE TypeInv'
  <2>1. PICK rest \in AfterArrival(m) : StartClose(m.to, "input", m.kind = "closeReq", rest)
    BY <1>14, Zenon DEF InputClose
  <2>2. m.to \in Side /\ rest \in SUBSET net /\ (m.kind = "closeReq") \in BOOLEAN
    BY RestFacts, SegOfMessage, Zenon
  <2> QED
    BY <1>14, <2>1, <2>2, StartCloseType, ZenonT(60) DEF InputClose, TypeInv, TypeOK, recvVars
<1>15. ASSUME NEW m \in net, AnswerUnknownSession(m) PROVE TypeInv'
  <2> DEFINE answer == [to |-> Peer(m.to), kind |-> "closeReq", seq |-> m.unAck,
                        data |-> 0, unAck |-> 0, wnd |-> 0]
  <2>1. PICK rest \in AfterArrival(m) : Transmit(rest, {answer})
    BY <1>15, Zenon DEF AnswerUnknownSession
  <2>2. answer \in Message
    BY SegOfMessage, PeerFacts, Zenon DEF Message, Kind
  <2>3. net' \subseteq Message
    BY <2>1, <2>2, RestFacts, TransmitFacts DEF TypeInv, TypeOK
  <2> QED
    BY <1>15, <2>3, Zenon DEF AnswerUnknownSession, TypeInv, TypeOK, closeVars, sendVars, recvVars
<1>16. CASE UNCHANGED vars
  BY <1>16, Zenon DEF TypeInv, TypeOK, vars, closeVars, sendVars, recvVars
<1> QED
  BY <1>1, <1>2, <1>3, <1>4, <1>5, <1>6, <1>7, <1>8, <1>9, <1>10, <1>11, <1>12, <1>13,
     <1>14, <1>15, <1>16, Zenon DEF Next

\* The initial state is well typed.
LEMMA TypeInit ==
    ASSUME FiniteSetFacts, Init
    PROVE  TypeInv
<1>1. MinWindow \in Nat
  BY WindowAssumption, TreeAssumption
<1>2. state \in [Side -> SessionState]
  BY Zenon DEF Init, SessionState, Live
<1>3. \A e \in Side : IsFiniteSet(recvBuf[e]) /\ IsFiniteSet(recvQueue[e])
  BY Zenon DEF FiniteSetFacts, Init
<1>4. <<>> \in Seq(Nat)
  OBVIOUS
<1>5. log \in [Side -> Seq(Nat)] /\ delivered \in [Side -> Seq(Nat)]
  BY <1>4, Zenon DEF Init
<1> QED
  BY <1>1, <1>2, <1>3, <1>5, Zenon DEF Init, TypeInv, TypeOK

-----------------------------------------------------------------------------
(* Logs.                                                                   *)

\* The segment number q was given the payload d.
InLog(l, q, d) == q \in 0..(Len(l) - 1) /\ l[q + 1] = d

\* The log only gets longer.
Grows(l, l2) == Len(l) <= Len(l2) /\ \A i \in 1..Len(l) : l2[i] = l[i]

\* What is in a log stays in it.
LEMMA InLogGrows ==
    ASSUME NEW l \in Seq(Nat), NEW l2 \in Seq(Nat), Grows(l, l2), NEW q, NEW d, InLog(l, q, d)
    PROVE  InLog(l2, q, d)
<1>1. Len(l) \in Nat /\ Len(l2) \in Nat /\ Len(l) <= Len(l2)
  BY DEF Grows
<1>2. q \in 0..(Len(l) - 1) /\ l[q + 1] = d
  BY Zenon DEF InLog
<1>3. q \in 0..(Len(l2) - 1) /\ q + 1 \in 1..Len(l)
  BY <1>1, <1>2
<1>4. l2[q + 1] = l[q + 1]
  BY <1>3, Zenon DEF Grows
<1> QED
  BY <1>2, <1>3, <1>4, Zenon DEF InLog

\* Growing is reflexive and transitive.
LEMMA GrowsFacts ==
    ASSUME NEW l \in Seq(Nat)
    PROVE  /\ Grows(l, l)
           /\ \A l2, l3 \in Seq(Nat) : Grows(l, l2) /\ Grows(l2, l3) => Grows(l, l3)
<1>1. Grows(l, l)
  BY DEF Grows
<1>2. ASSUME NEW l2 \in Seq(Nat), NEW l3 \in Seq(Nat), Grows(l, l2), Grows(l2, l3)
      PROVE  Grows(l, l3)
  <2>1. Len(l) \in Nat /\ Len(l2) \in Nat /\ Len(l3) \in Nat
    OBVIOUS
  <2> QED
    BY <1>2, <2>1 DEF Grows
<1> QED
  BY <1>1, <1>2, Zenon

\* One number is given out.
LEMMA AppendFacts ==
    ASSUME NEW l \in Seq(Nat), NEW d \in Nat
    PROVE  /\ Append(l, d) \in Seq(Nat) /\ Len(Append(l, d)) = Len(l) + 1
           /\ Grows(l, Append(l, d)) /\ InLog(Append(l, d), Len(l), d)
<1>1. Append(l, d) \in Seq(Nat) /\ Len(Append(l, d)) = Len(l) + 1 /\ Len(l) \in Nat
  OBVIOUS
<1>2. \A i \in 1..Len(l) : Append(l, d)[i] = l[i]
  OBVIOUS
<1>3. Append(l, d)[Len(l) + 1] = d
  OBVIOUS
<1> QED
  BY <1>1, <1>2, <1>3 DEF Grows, InLog

\* The two facts of arithmetic behind giving out one number.
LEMMA NextNumber ==
    ASSUME NEW a \in Nat, NEW b \in Nat
    PROVE  /\ a <= b => a <= b + 1
           /\ a <= b /\ b < a + 1 => b = a
OBVIOUS

\* The fragments of one Write are given consecutive numbers.
LEMMA ConcatFacts ==
    ASSUME NEW l \in Seq(Nat), NEW n \in Nat, NEW w \in Nat,
           NEW tail, tail = [i \in 1..n |-> w + i]
    PROVE  /\ l \o tail \in Seq(Nat) /\ Len(l \o tail) = Len(l) + n
           /\ Grows(l, l \o tail)
           /\ \A i \in 1..n : InLog(l \o tail, Len(l) + i - 1, w + i)
<1>1. tail \in Seq(Nat) /\ Len(tail) = n
  OBVIOUS
<1>2. l \o tail \in Seq(Nat) /\ Len(l \o tail) = Len(l) + n /\ Len(l) \in Nat
  BY <1>1
<1>3. \A i \in 1..Len(l) : (l \o tail)[i] = l[i]
  BY <1>1
<1>4. ASSUME NEW i \in 1..n PROVE (l \o tail)[Len(l) + i] = w + i
  <2>1. Len(l) + i \in 1..(Len(l) + Len(tail)) /\ Len(l) + i > Len(l) /\ Len(l) + i - Len(l) = i
    BY <1>1, <1>2
  <2>2. (l \o tail)[Len(l) + i] = tail[Len(l) + i - Len(l)]
    BY <1>1, <2>1
  <2>3. tail[i] = w + i
    BY Zenon
  <2> QED
    BY <2>1, <2>2, <2>3, Zenon
<1>5. ASSUME NEW i \in 1..n PROVE InLog(l \o tail, Len(l) + i - 1, w + i)
  <2>1. Len(l) + i - 1 \in 0..(Len(l) + n - 1) /\ Len(l) + i - 1 + 1 = Len(l) + i
    BY <1>2
  <2> QED
    BY <2>1, <1>2, <1>4 DEF InLog
<1>6. Len(l) <= Len(l \o tail)
  BY <1>2
<1>7. Grows(l, l \o tail)
  BY <1>3, <1>6, Zenon DEF Grows
<1> QED
  BY <1>2, <1>5, <1>7, Zenon

-----------------------------------------------------------------------------
(* The sender half.                                                        *)

\* The trees of a sender agree with its log; what is on the wire comes from
\* the trees, and acknowledges no more than its sender has received in order.
SentInv ==
    /\ \A e \in Side : Len(log[e]) = nextSend[e]
    /\ \A e \in Side : \A s \in sendQueue[e] \cup sendBuf[e] : InLog(log[e], s.seq, s.data)
    /\ \A m \in net : m.kind \in StreamKind => InLog(log[Peer(m.to)], m.seq, m.data)
    /\ \A m \in net : m.unAck <= nextRecv[Peer(m.to)]
    /\ \A s \in recvChan : InLog(log["client"], s.seq, s.data)

\* The sending half of side x does not change.
Quiet(x) ==
    /\ state'[x] = state[x] /\ closing'[x] = closing[x]
    /\ sendQueue'[x] = sendQueue[x] /\ sendBuf'[x] = sendBuf[x]
    /\ nextSend'[x] = nextSend[x] /\ log'[x] = log[x]

\* The numbers a sender may still have to transmit.
Outstanding(e) == Seqs(sendQueue[e]) \cup Seqs(sendBuf[e])

\* A step of the sender e: numbers are only given out while it is open, the
\* trees agree with the log, and as long as it is not closing a number leaves
\* the trees only when the peer has received it.
Sends(e) ==
    /\ \A x \in Side : x # e => Quiet(x)
    /\ nextSend[e] <= nextSend'[e]
    /\ Len(log'[e]) = nextSend'[e]
    /\ Grows(log[e], log'[e])
    /\ \A s \in sendQueue'[e] \cup sendBuf'[e] : InLog(log'[e], s.seq, s.data)
    /\ closing'[e] = "none" =>
          /\ closing[e] = "none"
          /\ \A q \in Nat :
                q \in Outstanding(e) \/ (nextSend[e] <= q /\ q < nextSend'[e])
                    => q \in Outstanding(e)' \/ q < nextRecv[Peer(e)]
    /\ state[e] = "Closed" => state'[e] = "Closed" /\ log'[e] = log[e]
    /\ \A m \in net' : m \in net \/ Written(e, m)

\* A step that leaves the sending half alone.
LEMMA IdleSends ==
    ASSUME TypeInv, SentInv, NEW e \in Side, net' \subseteq net,
           UNCHANGED <<closing, sendQueue, sendBuf, nextSend, log>>,
           \A x \in Side : x # e => state'[x] = state[x],
           state[e] = "Closed" => state'[e] = "Closed"
    PROVE  Sends(e)
<1>1. nextSend[e] \in Nat /\ Grows(log[e], log[e])
  BY GrowsFacts, Zenon DEF TypeInv, TypeOK
<1>2. nextSend[e] <= nextSend'[e] /\ \A q \in Nat : ~(nextSend[e] <= q /\ q < nextSend'[e])
  BY <1>1
<1> QED
  BY <1>1, <1>2, Zenon DEF Sends, Quiet, SentInv, Outstanding

\* An acknowledgement that the peer's position covers.
LEMMA AckSends ==
    ASSUME TypeInv, SentInv, NEW e \in Side, net' \subseteq net,
           NEW n \in Nat, n <= nextRecv[Peer(e)],
           sendBuf' = [sendBuf EXCEPT ![e] = DeleteBelow(sendBuf[e], n)],
           UNCHANGED <<state, closing, sendQueue, nextSend, log>>
    PROVE  Sends(e)
<1>1. nextSend[e] \in Nat /\ nextRecv[Peer(e)] \in Nat /\ Grows(log[e], log[e])
  BY GrowsFacts, PeerFacts, Zenon DEF TypeInv, TypeOK
<1>2. /\ \A x \in Side : x # e => sendBuf'[x] = sendBuf[x]
      /\ sendBuf'[e] = DeleteBelow(sendBuf[e], n)
      /\ \A s \in sendBuf[e] : s.seq \in Nat
  BY DEF TypeInv, TypeOK, Segment
<1>3. \A q \in Nat : q \in Outstanding(e) => q \in Outstanding(e)' \/ q < nextRecv[Peer(e)]
  <2> SUFFICES ASSUME NEW q \in Nat, q \in Seqs(sendBuf[e])
               PROVE  q \in Seqs(sendBuf'[e]) \/ q < nextRecv[Peer(e)]
    BY Zenon DEF Outstanding
  <2>1. PICK s \in sendBuf[e] : s.seq = q
    BY Zenon DEF Seqs
  <2>2. CASE q >= n
    BY <2>1, <2>2, <1>2, Zenon DEF DeleteBelow, Seqs
  <2>3. CASE ~(q >= n)
    BY <2>3, <1>1
  <2> QED
    BY <2>2, <2>3, Zenon
<1>4. \A s \in sendQueue'[e] \cup sendBuf'[e] : InLog(log'[e], s.seq, s.data)
  BY <1>2, Zenon DEF SentInv, DeleteBelow
<1>5. Len(log'[e]) = nextSend'[e] /\ \A x \in Side : x # e => Quiet(x)
  BY <1>2, Zenon DEF SentInv, Quiet
<1>6. nextSend[e] <= nextSend'[e] /\ \A q \in Nat : ~(nextSend[e] <= q /\ q < nextSend'[e])
  BY <1>1
<1> QED
  BY <1>1, <1>3, <1>4, <1>5, <1>6, Zenon DEF Sends

\* A step that closes the session and forgets the trees, having given out the
\* numbers of at most two control segments.
LEMMA ClosedSends ==
    ASSUME TypeInv, SentInv, NEW e \in Side, state[e] \in Live,
           \A m \in net' : m \in net \/ Written(e, m),
           NEW l \in Seq(Nat), Grows(log[e], l),
           NEW who \in {"user", "input", "output"},
           closing' = [closing EXCEPT ![e] = who],
           sendQueue' = [sendQueue EXCEPT ![e] = {}],
           sendBuf' = [sendBuf EXCEPT ![e] = {}],
           nextSend' = [nextSend EXCEPT ![e] = Len(l)],
           log' = [log EXCEPT ![e] = l],
           state' = [state EXCEPT ![e] = "Closed"]
    PROVE  Sends(e)
<1>1. \A x \in Side : x # e => Quiet(x)
  BY Zenon DEF TypeInv, TypeOK, Quiet
<1>2. /\ log'[e] = l /\ nextSend'[e] = Len(l) /\ closing'[e] = who
      /\ sendQueue'[e] = {} /\ sendBuf'[e] = {}
  BY Zenon DEF TypeInv, TypeOK
<1>3. nextSend[e] <= nextSend'[e]
  BY <1>2, Zenon DEF Grows, SentInv
<1>4. who # "none" /\ state[e] # "Closed"
  BY Zenon DEF Live
<1> QED
  BY <1>1, <1>2, <1>3, <1>4, Zenon DEF Sends

\* A step that numbers and queues one segment.
LEMMA QueueSends ==
    ASSUME TypeInv, SentInv, NEW e \in Side, state[e] \in Live,
           \A m \in net' : m \in net \/ Written(e, m),
           NEW l \in Seq(Nat), Grows(log[e], l), NEW d \in Nat,
           NEW seg \in Segment, seg.seq = Len(l), seg.data = d,
           closing'[e] = "none" => closing[e] = "none" /\ l = log[e],
           \A x \in Side : x # e => closing'[x] = closing[x] /\ state'[x] = state[x],
           sendQueue' = [sendQueue EXCEPT ![e] = Insert(sendQueue[e], seg)],
           UNCHANGED sendBuf,
           nextSend' = [nextSend EXCEPT ![e] = Len(l) + 1],
           log' = [log EXCEPT ![e] = Append(l, d)]
    PROVE  Sends(e)
<1>1. /\ log'[e] = Append(l, d) /\ nextSend'[e] = Len(l) + 1
      /\ sendQueue'[e] = Insert(sendQueue[e], seg)
      /\ \A x \in Side : x # e => Quiet(x)
  BY Zenon DEF TypeInv, TypeOK, Quiet
<1>2. /\ Append(l, d) \in Seq(Nat) /\ Len(Append(l, d)) = Len(l) + 1
      /\ Grows(l, Append(l, d)) /\ InLog(Append(l, d), Len(l), d) /\ Len(l) \in Nat
  BY AppendFacts
<1>3. log[e] \in Seq(Nat) /\ Len(log[e]) = nextSend[e] /\ nextSend[e] \in Nat
  BY Zenon DEF TypeInv, TypeOK, SentInv
<1>4. Grows(log[e], log'[e])
  <2>1. Grows(log[e], Append(l, d))
    BY <1>2, <1>3, GrowsFacts, Zenon
  <2> QED
    BY <2>1, <1>1, Zenon
<1>5. nextSend[e] <= nextSend'[e] /\ Len(log'[e]) = nextSend'[e]
  <2>1. Len(log[e]) <= Len(l)
    BY Zenon DEF Grows
  <2> QED
    BY <2>1, <1>1, <1>2, <1>3, nextSend[e] <= Len(l) + 1, NextNumber, Zenon
<1>6. \A s \in sendQueue'[e] \cup sendBuf'[e] : InLog(log'[e], s.seq, s.data)
  <2>1. log'[e] \in Seq(Nat)
    BY <1>1, <1>2, Zenon
  <2>2. \A s \in sendQueue[e] \cup sendBuf[e] : InLog(log'[e], s.seq, s.data)
    BY <2>1, <1>3, <1>4, InLogGrows, Zenon DEF SentInv
  <2> QED
    BY <2>2, <1>1, <1>2, Zenon DEF Insert
<1>7. \A q \in Seqs(sendQueue[e]) : q \in Seqs(sendQueue'[e])
  <2> SUFFICES ASSUME NEW s \in sendQueue[e] PROVE s.seq \in Seqs(sendQueue'[e])
    BY Zenon DEF Seqs
  <2>1. CASE s.seq = seg.seq
    BY <2>1, <1>1, Zenon DEF Insert, Seqs
  <2>2. CASE s.seq # seg.seq
    BY <2>2, <1>1, Zenon DEF Insert, Seqs
  <2> QED
    BY <2>1, <2>2, Zenon
<1>8. Len(l) \in Seqs(sendQueue'[e])
  BY <1>1, Zenon DEF Insert, Seqs
<1>9. closing'[e] = "none" =>
          /\ closing[e] = "none"
          /\ \A q \in Nat :
                q \in Outstanding(e) \/ (nextSend[e] <= q /\ q < nextSend'[e])
                    => q \in Outstanding(e)'
  <2> SUFFICES ASSUME closing'[e] = "none", NEW q \in Nat,
                      q \in Outstanding(e) \/ (nextSend[e] <= q /\ q < nextSend'[e])
               PROVE  q \in Outstanding(e)'
    BY Zenon
  <2>1. CASE q \in Outstanding(e)
    BY <2>1, <1>7, Zenon DEF Outstanding
  <2>2. CASE nextSend[e] <= q /\ q < nextSend'[e]
    <3>1. q = Len(l)
      <4>1. nextSend[e] = Len(l)
        BY <1>3, Zenon
      <4>2. Len(l) <= q /\ q < Len(l) + 1
        BY <4>1, <2>2, <1>1, Zenon
      <4> QED
        BY <4>2, <1>2, NextNumber, Zenon
    <3> QED
      BY <3>1, <1>8, Zenon DEF Outstanding
  <2> QED
    BY <2>1, <2>2, Zenon
<1>10. state[e] # "Closed"
  BY Zenon DEF Live
<1> QED
  BY <1>1, <1>4, <1>5, <1>6, <1>9, <1>10, Zenon DEF Sends

\* Control segments may always be written.
LEMMA ControlWritten ==
    ASSUME TypeInv, NEW e \in Side, NEW s, s.kind \in {"closeReq", "closeResp"}
    PROVE  Written(e, Datagram(e, s))
<1>1. nextRecv[e] \in Nat
  BY Zenon DEF TypeInv, TypeOK
<1> DEFINE m == Datagram(e, s)
<1>2. m.to = Peer(e) /\ m.kind = s.kind /\ m.unAck = 0
  BY Zenon DEF Datagram
<1>3. m.kind \notin StreamKind
  BY <1>2, Zenon DEF StreamKind
<1> HIDE DEF m
<1>4. m.unAck <= nextRecv[e]
  BY <1>1, <1>2
<1> QED
  BY <1>2, <1>3, <1>4, Zenon DEF Written, m

\* closeWithError, with or without the answer to a close request before it.
LEMMA StartCloseSends ==
    ASSUME TypeInv, SentInv, NEW e \in Side, NEW who \in {"user", "input"}, NEW reply \in BOOLEAN,
           NEW rest \in SUBSET net, state[e] \in Live, StartClose(e, who, reply, rest)
    PROVE  Sends(e)
<1> DEFINE seq == IF reply THEN nextSend[e] + 1 ELSE nextSend[e]
           history == IF reply THEN Append(log[e], 0) ELSE log[e]
           req == Seg("closeReq", seq, 0, 0)
           resp == Seg("closeResp", nextSend[e], 0, 0)
           sent == IF reply THEN {Datagram(e, resp)} ELSE {}
<1>1. /\ log[e] \in Seq(Nat) /\ nextSend[e] = Len(log[e]) /\ nextSend[e] \in Nat
      /\ closing[e] \in {"none", "user", "input", "output"}
      /\ state[e] # "Closed"
  BY Zenon DEF TypeInv, TypeOK, SentInv, Live
<1>2. history \in Seq(Nat) /\ Len(history) = seq /\ seq \in Nat /\ Grows(log[e], history)
  <2>1. nextSend[e] + 1 \in Nat /\ 0 \in Nat
    BY <1>1
  <2>2. CASE reply
    BY <2>1, <2>2, <1>1, AppendFacts, Zenon
  <2>3. CASE ~reply
    BY <2>3, <1>1, GrowsFacts, Zenon
  <2> QED
    BY <2>2, <2>3, Zenon
<1>3. req \in Segment /\ req.seq = seq /\ req.data = 0 /\ req.kind = "closeReq" /\ resp.kind = "closeResp"
  BY <1>2, SegType, Zenon DEF Seg, Kind
<1>4. \A m \in net' : m \in net \/ Written(e, m)
  <2>1. net' \subseteq rest \cup {Datagram(e, resp), Datagram(e, req)}
    BY TransmitFacts DEF StartClose
  <2>2. Written(e, Datagram(e, resp)) /\ Written(e, Datagram(e, req))
    <3>1. req.kind \in {"closeReq", "closeResp"} /\ resp.kind \in {"closeReq", "closeResp"}
      BY <1>3, Zenon
    <3> HIDE DEF seq, req, resp
    <3> QED
      BY <3>1, ControlWritten
  <2> HIDE DEF seq, req, resp
  <2> QED
    BY <2>1, <2>2, Zenon
<1> HIDE DEF seq, history, req, sent
<1>5. CASE closing[e] # "none"
  <2>1. /\ nextSend' = [nextSend EXCEPT ![e] = seq]
        /\ log' = [log EXCEPT ![e] = history]
        /\ UNCHANGED <<state, closing, sendQueue, sendBuf>>
    BY <1>5, Zenon DEF StartClose, seq, history, closeVars
  <2>2. /\ log'[e] = history /\ nextSend'[e] = seq /\ closing'[e] # "none"
        /\ \A x \in Side : x # e => Quiet(x)
    BY <1>5, <2>1, Zenon DEF TypeInv, TypeOK, Quiet
  <2>3. \A s \in sendQueue[e] \cup sendBuf[e] : InLog(history, s.seq, s.data)
    BY <1>1, <1>2, InLogGrows, Zenon DEF SentInv
  <2>4. nextSend[e] <= seq
    BY <1>1 DEF seq
  <2> QED
    BY <1>1, <1>2, <1>4, <2>1, <2>2, <2>3, <2>4, Zenon DEF Sends
<1>6. CASE /\ closing[e] = "none"
           /\ sendQueue' = [sendQueue EXCEPT ![e] = Insert(sendQueue[e], req)]
           /\ closing' = [closing EXCEPT ![e] = who]
           /\ nextSend' = [nextSend EXCEPT ![e] = seq + 1]
           /\ log' = [log EXCEPT ![e] = Append(history, 0)]
           /\ UNCHANGED <<state, sendBuf>>
  <2>1. /\ closing'[e] # "none"
        /\ \A x \in Side : x # e => closing'[x] = closing[x] /\ state'[x] = state[x]
    BY <1>6, Zenon DEF TypeInv, TypeOK
  <2>2. 0 \in Nat /\ nextSend' = [nextSend EXCEPT ![e] = Len(history) + 1] /\ req.seq = Len(history)
    BY <1>2, <1>3, <1>6, Zenon
  <2> QED
    BY <1>2, <1>3, <1>4, <1>6, <2>1, <2>2, QueueSends, Zenon
<1>7. CASE /\ closing[e] = "none"
           /\ closing' = [closing EXCEPT ![e] = who]
           /\ nextSend' = [nextSend EXCEPT ![e] = seq + 1]
           /\ log' = [log EXCEPT ![e] = Append(history, 0)]
           /\ sendQueue' = [sendQueue EXCEPT ![e] = {}]
           /\ sendBuf' = [sendBuf EXCEPT ![e] = {}]
           /\ state' = [state EXCEPT ![e] = "Closed"]
  <2> DEFINE l == Append(history, 0)
  <2>1. l \in Seq(Nat) /\ Len(l) = seq + 1 /\ Grows(log[e], l)
    BY <1>1, <1>2, AppendFacts, GrowsFacts, Zenon
  <2> HIDE DEF l
  <2>2. nextSend' = [nextSend EXCEPT ![e] = Len(l)] /\ log' = [log EXCEPT ![e] = l]
    BY <1>7, <2>1, Zenon DEF l
  <2> QED
    BY <1>4, <1>7, <2>1, <2>2, ClosedSends, Zenon
<1> QED
  BY <1>5, <1>6, <1>7, Zenon DEF StartClose, seq, history, req, sent

\* writeChunk.
LEMMA WriteSends ==
    ASSUME TypeInv, SentInv, NEW e \in Side, NEW n \in 1..MaxFragments, Write(e, n)
    PROVE  Sends(e)
<1> DEFINE new == {Seg("data", nextSend[e] + i - 1, written[e] + i, ReceiveWindow(e)) : i \in 1..n}
           tail == [i \in 1..n |-> written[e] + i]
           l == log[e] \o tail
<1>1. n \in Nat /\ nextSend[e] \in Nat /\ written[e] \in Nat
  BY BoundAssumption DEF TypeInv, TypeOK
<1>2. log[e] \in Seq(Nat) /\ Len(log[e]) = nextSend[e]
  BY Zenon DEF TypeInv, TypeOK, SentInv
<1>3. /\ l \in Seq(Nat) /\ Len(l) = nextSend[e] + n /\ Grows(log[e], l)
      /\ \A i \in 1..n : InLog(l, nextSend[e] + i - 1, written[e] + i)
  BY <1>1, <1>2, ConcatFacts, ZenonT(60)
<1>4. /\ sendQueue' = [sendQueue EXCEPT ![e] = sendQueue[e] \cup new]
      /\ log' = [log EXCEPT ![e] = l]
      /\ nextSend' = [nextSend EXCEPT ![e] = nextSend[e] + n]
      /\ UNCHANGED <<state, closing, sendBuf, net>> /\ state[e] \in Live
  BY Zenon DEF Write, closeVars
<1>5. \A s \in new : InLog(l, s.seq, s.data)
  <2> SUFFICES ASSUME NEW i \in 1..n
               PROVE  LET s == Seg("data", nextSend[e] + i - 1, written[e] + i, ReceiveWindow(e))
                      IN  InLog(l, s.seq, s.data)
    BY Zenon
  <2> QED
    BY <1>3, Zenon DEF Seg
<1>6. \A q \in Nat : nextSend[e] <= q /\ q < nextSend[e] + n => q \in Seqs(new)
  <2> SUFFICES ASSUME NEW q \in Nat, nextSend[e] <= q, q < nextSend[e] + n PROVE q \in Seqs(new)
    BY Zenon
  <2> DEFINE i == q - nextSend[e] + 1
             s == Seg("data", nextSend[e] + i - 1, written[e] + i, ReceiveWindow(e))
  <2>1. i \in 1..n /\ nextSend[e] + i - 1 = q
    BY <1>1
  <2>2. s \in new
    BY <2>1, Zenon
  <2>3. s.seq = q
    BY <2>1, Zenon DEF Seg
  <2> QED
    BY <2>2, <2>3, Zenon DEF Seqs
<1> HIDE DEF new, l
<1>7. /\ sendQueue'[e] = sendQueue[e] \cup new /\ log'[e] = l /\ nextSend'[e] = nextSend[e] + n
      /\ \A x \in Side : x # e => Quiet(x)
  BY <1>4, Zenon DEF TypeInv, TypeOK, Quiet
<1>8. \A s \in sendQueue'[e] \cup sendBuf'[e] : InLog(l, s.seq, s.data)
  <2>1. \A s \in sendQueue[e] \cup sendBuf[e] : InLog(l, s.seq, s.data)
    BY <1>2, <1>3, InLogGrows, Zenon DEF SentInv
  <2> QED
    BY <2>1, <1>4, <1>5, <1>7, Zenon
<1>9. \A q \in Nat : q \in Outstanding(e) \/ (nextSend[e] <= q /\ q < nextSend'[e])
                       => q \in Outstanding(e)'
  <2>1. Outstanding(e)' = Outstanding(e) \cup Seqs(new)
    BY <1>4, <1>7, Zenon DEF Outstanding, Seqs
  <2> QED
    BY <2>1, <1>6, <1>7, Zenon
<1>10. nextSend[e] <= nextSend'[e] /\ Len(log'[e]) = nextSend'[e] /\ state[e] # "Closed"
  BY <1>1, <1>3, <1>4, <1>7, SMTT(30) DEF Live
<1> QED
  BY <1>3, <1>4, <1>7, <1>8, <1>9, <1>10, Zenon DEF Sends

\* The first Write of the client.
LEMMA OpenSends ==
    ASSUME TypeInv, SentInv, OpenSession
    PROVE  Sends("client")
<1>1. PICK d \in {0, written["client"] + 1} :
        /\ sendQueue' = [sendQueue EXCEPT !["client"] =
              Insert(sendQueue["client"], Seg("openReq", nextSend["client"], d, 0))]
        /\ log' = [log EXCEPT !["client"] = Append(log["client"], d)]
  BY Zenon DEF OpenSession
<1>2. /\ nextSend' = [nextSend EXCEPT !["client"] = nextSend["client"] + 1]
      /\ UNCHANGED <<state, closing, sendBuf, net>> /\ state["client"] \in Live
  BY Zenon DEF OpenSession, closeVars, Live
<1> DEFINE seg == Seg("openReq", nextSend["client"], d, 0)
<1>3. "client" \in Side /\ d \in Nat /\ log["client"] \in Seq(Nat)
      /\ Len(log["client"]) = nextSend["client"] /\ nextSend["client"] \in Nat
  <2>1. "client" \in Side
    BY Zenon DEF Side
  <2>2. written["client"] \in Nat /\ nextSend["client"] \in Nat /\ log["client"] \in Seq(Nat)
    BY <2>1, Zenon DEF TypeInv, TypeOK
  <2>3. Len(log["client"]) = nextSend["client"]
    BY <2>1, Zenon DEF SentInv
  <2>4. d \in Nat
    BY <2>2
  <2> QED
    BY <2>1, <2>2, <2>3, <2>4, Zenon
<1>4. seg \in Segment /\ seg.seq = Len(log["client"]) /\ seg.data = d
  BY <1>3, SegType, Zenon DEF Seg, Kind, StreamKind
<1>5. Grows(log["client"], log["client"])
  BY <1>3, GrowsFacts, Zenon
<1> HIDE DEF seg
<1>6. /\ sendQueue' = [sendQueue EXCEPT !["client"] = Insert(sendQueue["client"], seg)]
      /\ nextSend' = [nextSend EXCEPT !["client"] = Len(log["client"]) + 1]
  BY <1>1, <1>2, <1>3, Zenon DEF seg
<1> QED
  BY <1>1, <1>2, <1>3, <1>4, <1>5, <1>6, QueueSends, Zenon

\* The answer to the open request.
LEMMA AcceptSends ==
    ASSUME TypeInv, SentInv, AcceptOpen, state["server"] = "Attached"
    PROVE  Sends("server")
<1> DEFINE seg == Seg("openResp", nextSend["server"], 0, 0)
           l == Append(log["server"], 0)
<1>1. /\ "server" \in Side /\ state["server"] \in Live /\ log["server"] \in Seq(Nat)
      /\ Len(log["server"]) = nextSend["server"] /\ nextSend["server"] \in Nat
  BY Zenon DEF Side, TypeInv, TypeOK, SentInv, Live
<1>2. seg \in Segment /\ seg.seq = Len(log["server"]) /\ seg.data = 0
  BY <1>1, SegType, Zenon DEF Seg, Kind, StreamKind
<1>3. Grows(log["server"], log["server"])
  BY <1>1, GrowsFacts, Zenon
<1>4. /\ nextSend' = [nextSend EXCEPT !["server"] = Len(log["server"]) + 1]
      /\ log' = [log EXCEPT !["server"] = l] /\ UNCHANGED <<net, sendBuf>>
  BY <1>1, Zenon DEF AcceptOpen
<1> HIDE DEF seg
<1>5. CASE /\ sendQueue' = [sendQueue EXCEPT !["server"] = Insert(sendQueue["server"], seg)]
           /\ state' = [state EXCEPT !["server"] = "Established"]
           /\ UNCHANGED closing
  <2>1. \A x \in Side : x # "server" => closing'[x] = closing[x] /\ state'[x] = state[x]
    BY <1>5, Zenon DEF TypeInv, TypeOK
  <2>2. /\ 0 \in Nat /\ \A m \in net' : m \in net \/ Written("server", m)
        /\ log' = [log EXCEPT !["server"] = Append(log["server"], 0)]
        /\ closing'["server"] = "none" => closing["server"] = "none"
    BY <1>4, <1>5, Zenon
  <2> QED
    BY <1>1, <1>2, <1>3, <1>4, <1>5, <2>1, <2>2, QueueSends, Zenon
<1>6. CASE /\ closing' = [closing EXCEPT !["server"] = "input"]
           /\ UNCHANGED <<sendQueue, state>>
  <2>1. /\ l \in Seq(Nat) /\ Len(l) = nextSend["server"] + 1 /\ Grows(log["server"], l)
    BY <1>1, AppendFacts, Zenon
  <2> HIDE DEF l
  <2>2. /\ log'["server"] = l /\ nextSend'["server"] = nextSend["server"] + 1
        /\ closing'["server"] = "input"
        /\ \A x \in Side : x # "server" => Quiet(x)
    BY <1>1, <1>4, <1>6, Zenon DEF TypeInv, TypeOK, Quiet
  <2>3. \A s \in sendQueue["server"] \cup sendBuf["server"] : InLog(l, s.seq, s.data)
    BY <1>1, <2>1, InLogGrows, Zenon DEF SentInv
  <2>4. nextSend["server"] <= nextSend'["server"] /\ state["server"] # "Closed"
    BY <1>1, <2>2 DEF Live
  <2> QED
    BY <1>1, <1>4, <1>6, <2>1, <2>2, <2>3, <2>4, Zenon DEF Sends
<1> QED
  BY <1>5, <1>6, Zenon DEF AcceptOpen, closeVars, seg

\* runOutputOncePacket.
LEMMA OutputSends ==
    ASSUME FiniteSetFacts, TypeInv, SentInv, NEW e \in Side, OutputPacket(e)
    PROVE  Sends(e)
<1>1. /\ OutputEffect(e) /\ state[e] \in Live /\ log[e] \in Seq(Nat)
      /\ Len(log[e]) = nextSend[e] /\ nextSend[e] \in Nat /\ state[e] # "Closed"
  BY OutputFacts, Zenon DEF OutputPacket, TypeInv, TypeOK, SentInv, Live
<1>2. \A m \in net' : m \in net \/ Written(e, m)
  BY <1>1, Zenon DEF OutputEffect
<1>3. CASE Aborts(e)
  <2> DEFINE l == Append(log[e], 0)
  <2>1. l \in Seq(Nat) /\ Len(l) = nextSend[e] + 1 /\ Grows(log[e], l)
    BY <1>1, AppendFacts, Zenon
  <2> HIDE DEF l
  <2>2. /\ closing' = [closing EXCEPT ![e] = "output"]
        /\ sendQueue' = [sendQueue EXCEPT ![e] = {}]
        /\ sendBuf' = [sendBuf EXCEPT ![e] = {}]
        /\ nextSend' = [nextSend EXCEPT ![e] = Len(l)]
        /\ log' = [log EXCEPT ![e] = l]
        /\ state' = [state EXCEPT ![e] = "Closed"]
    BY <1>3, <2>1, Zenon DEF Aborts, l
  <2> QED
    BY <1>1, <1>2, <2>1, <2>2, ClosedSends, Zenon
<1>4. ASSUME NEW fresh \in SUBSET sendQueue[e], NEW buf \in SUBSET Segment, Moves(e, fresh, buf)
      PROVE  Sends(e)
  <2>1. /\ sendQueue'[e] = sendQueue[e] \ fresh /\ sendBuf'[e] = buf
        /\ UNCHANGED <<state, closing, nextSend, log>>
        /\ \A x \in Side : x # e => Quiet(x)
    BY <1>4, Zenon DEF Moves, TypeInv, TypeOK, Quiet
  <2>2. \A s \in sendQueue'[e] \cup sendBuf'[e] : InLog(log[e], s.seq, s.data)
    <3>1. ASSUME NEW s \in buf PROVE InLog(log[e], s.seq, s.data)
      <4>1. PICK t \in sendBuf[e] \cup sendQueue[e] : SameSegment(s, t)
        BY <1>4, Zenon DEF Moves
      <4>2. InLog(log[e], t.seq, t.data)
        BY Zenon DEF SentInv
      <4> QED
        BY <4>1, <4>2, Zenon DEF SameSegment
    <3> QED
      BY <3>1, <2>1, Zenon DEF SentInv
  <2>3. ASSUME NEW q \in Outstanding(e) PROVE q \in Outstanding(e)'
    <3>1. PICK t \in sendQueue[e] \cup sendBuf[e] : t.seq = q
      BY Zenon DEF Outstanding, Seqs
    <3>2. CASE t \in sendQueue[e] \ fresh
      BY <3>1, <3>2, <2>1, Zenon DEF Outstanding, Seqs
    <3>3. CASE t \in sendBuf[e] \cup fresh
      <4>1. PICK s \in buf : SameSegment(s, t)
        BY <3>3, <1>4, Zenon DEF Moves
      <4> QED
        BY <3>1, <4>1, <2>1, Zenon DEF Outstanding, Seqs, SameSegment
    <3> QED
      BY <3>1, <3>2, <3>3, Zenon
  <2>4. Grows(log[e], log[e])
    BY <1>1, GrowsFacts, Zenon
  <2>5. nextSend[e] <= nextSend[e] /\ \A q \in Nat : ~(nextSend[e] <= q /\ q < nextSend[e])
    BY <1>1
  <2> QED
    BY <1>1, <1>2, <2>1, <2>2, <2>3, <2>4, <2>5, Zenon DEF Sends
<1> QED
  BY <1>1, <1>3, <1>4, Zenon DEF OutputEffect

\* output() fails.
LEMMA FailSends ==
    ASSUME TypeInv, SentInv, NEW e \in Side, OutputFails(e)
    PROVE  Sends(e)
<1>1. /\ log[e] \in Seq(Nat) /\ Len(log[e]) = nextSend[e] /\ state[e] \in Live
  BY Zenon DEF OutputFails, TypeInv, TypeOK, SentInv
<1>2. CASE closing[e] = "none"
  <2> DEFINE l == Append(log[e], 0)
  <2>1. l \in Seq(Nat) /\ Len(l) = nextSend[e] + 1 /\ Grows(log[e], l)
    BY <1>1, AppendFacts, Zenon
  <2> HIDE DEF l
  <2>2. /\ closing' = [closing EXCEPT ![e] = "output"]
        /\ sendQueue' = [sendQueue EXCEPT ![e] = {}]
        /\ sendBuf' = [sendBuf EXCEPT ![e] = {}]
        /\ nextSend' = [nextSend EXCEPT ![e] = Len(l)]
        /\ log' = [log EXCEPT ![e] = l]
        /\ state' = [state EXCEPT ![e] = "Closed"]
        /\ UNCHANGED net
    BY <1>2, <2>1, Zenon DEF OutputFails, l
  <2> QED
    BY <1>1, <2>1, <2>2, ClosedSends, Zenon
<1>3. CASE closing[e] # "none"
  BY <1>3, IdleSends, Zenon DEF OutputFails
<1> QED
  BY <1>2, <1>3, Zenon

\* The two ends of the poll of closeWithError.
LEMMA PollSends ==
    ASSUME TypeInv, SentInv, NEW e \in Side, CloseSucceeds(e) \/ CloseTimesOut(e)
    PROVE  Sends(e)
<1>1. /\ log[e] \in Seq(Nat) /\ Len(log[e]) = nextSend[e] /\ state[e] \in Live
      /\ closing[e] \in {"user", "input", "output"} /\ Grows(log[e], log[e])
  BY GrowsFacts, Zenon DEF CloseSucceeds, CloseTimesOut, TypeInv, TypeOK, SentInv
<1>2. \A m \in net' : m \in net \/ Written(e, m)
  <2> DEFINE req == Seg("closeReq", closeSeq[e], 0, 0)
  <2>1. net' = net \/ Transmit(net, {Datagram(e, req)})
    BY Zenon DEF CloseSucceeds, CloseTimesOut
  <2>2. Written(e, Datagram(e, req))
    BY ControlWritten DEF Seg
  <2> QED
    BY <2>1, <2>2, TransmitFacts
<1>3. /\ sendQueue' = [sendQueue EXCEPT ![e] = {}]
      /\ sendBuf' = [sendBuf EXCEPT ![e] = {}]
      /\ state' = [state EXCEPT ![e] = "Closed"]
      /\ UNCHANGED <<closing, nextSend, log>>
  BY Zenon DEF CloseSucceeds, CloseTimesOut, closeVars
<1>4. /\ closing' = [closing EXCEPT ![e] = closing[e]]
      /\ nextSend' = [nextSend EXCEPT ![e] = Len(log[e])]
      /\ log' = [log EXCEPT ![e] = log[e]]
  BY <1>1, <1>3, Zenon DEF TypeInv, TypeOK
<1> QED
  BY <1>1, <1>2, <1>3, <1>4, ClosedSends, Zenon

-----------------------------------------------------------------------------
(* What a receiver holds, relative to the log of its peer.                 *)

\* got is what the application has read, queue the segments from there up to
\* next, and buf holds at most one segment per number; all agree with the log l.
Received(l, buf, queue, next, got) ==
    /\ \A s \in buf \cup queue : InLog(l, s.seq, s.data)
    /\ \A s, t \in buf : s.seq = t.seq => s = t
    /\ \A s, t \in queue : s.seq = t.seq => s = t
    /\ next <= Len(l)
    /\ Len(got) <= next
    /\ \A q \in Nat : q \in Seqs(queue) <=> Len(got) <= q /\ q < next
    /\ \A i \in 1..Len(got) : got[i] = l[i]

\* A longer log changes nothing for the receiver.
LEMMA ReceivedGrows ==
    ASSUME NEW l \in Seq(Nat), NEW l2 \in Seq(Nat), Grows(l, l2),
           NEW buf \in SUBSET Segment, NEW queue \in SUBSET Segment,
           NEW next \in Nat, NEW got \in Seq(Nat),
           Received(l, buf, queue, next, got)
    PROVE  Received(l2, buf, queue, next, got)
<1>1. Len(l) \in Nat /\ Len(l2) \in Nat /\ Len(l) <= Len(l2) /\ Len(got) \in Nat
  BY DEF Grows
<1>2. \A s \in buf \cup queue : InLog(l2, s.seq, s.data)
  BY InLogGrows, Zenon DEF Received
<1>3. \A i \in 1..Len(got) : got[i] = l2[i]
  BY <1>1 DEF Received, Grows
<1> QED
  BY <1>1, <1>2, <1>3 DEF Received

\* Inserting a segment of the log and moving a run of n numbers keeps the
\* receiver right (inputData, moveRecvBufToRecvQueue).
LEMMA ReceivedMore ==
    ASSUME NEW l \in Seq(Nat), NEW buf \in SUBSET Segment, NEW queue \in SUBSET Segment,
           NEW next \in Nat, NEW got \in Seq(Nat), Received(l, buf, queue, next, got),
           NEW seg \in Segment, InLog(l, seg.seq, seg.data), NEW n \in Nat,
           next..(next + n - 1) \subseteq Seqs(Insert(buf, seg))
    PROVE  Received(l, DeleteBelow(Insert(buf, seg), next + n),
                    queue \cup {s \in Insert(buf, seg) : s.seq \in next..(next + n - 1)},
                    next + n, got)
<1> DEFINE b == Insert(buf, seg)
           run == {s \in b : s.seq \in next..(next + n - 1)}
<1>1. /\ Len(l) \in Nat /\ Len(got) \in Nat /\ Len(got) <= next /\ next <= Len(l)
      /\ \A s \in Segment : s.seq \in Nat
  BY DEF Received, Segment
<1>2. /\ b \subseteq Segment
      /\ \A s \in b : InLog(l, s.seq, s.data)
      /\ \A s, t \in b : s.seq = t.seq => s = t
  BY Zenon DEF Insert, Received
<1> HIDE DEF b
<1>3. run \subseteq b /\ DeleteBelow(b, next + n) \subseteq b
  BY Zenon DEF DeleteBelow
<1>4. \A s \in DeleteBelow(b, next + n) \cup (queue \cup run) : InLog(l, s.seq, s.data)
  BY <1>2, <1>3, Zenon DEF Received
<1>5. \A s, t \in DeleteBelow(b, next + n) : s.seq = t.seq => s = t
  BY <1>2, <1>3, Zenon
<1>6. \A s \in queue : s.seq < next
  BY <1>1, Zenon DEF Received, Seqs
<1>7. \A s \in run : s.seq \in next..(next + n - 1)
  BY Zenon
<1>8. \A s, t \in queue \cup run : s.seq = t.seq => s = t
  <2> SUFFICES ASSUME NEW s \in queue \cup run, NEW t \in queue \cup run, s.seq = t.seq
               PROVE  s = t
    BY Zenon
  <2>1. s.seq \in Nat /\ t.seq \in Nat
    BY <1>1, <1>2, <1>3, Zenon
  <2>2. CASE s \in queue /\ t \in queue
    BY <2>2, Zenon DEF Received
  <2>3. CASE s \in run /\ t \in run
    BY <2>3, <1>2, <1>3, Zenon
  <2> QED
    BY <2>1, <2>2, <2>3, <1>6, <1>7
<1>9. next + n <= Len(l)
  <2>1. CASE n = 0
    BY <2>1, <1>1, SMTT(30)
  <2>2. CASE n > 0
    <3>1. next + n - 1 \in Seqs(b)
      BY <2>2 DEF b
    <3>2. PICK s \in b : s.seq = next + n - 1
      BY <3>1, Zenon DEF Seqs
    <3> QED
      BY <3>2, <1>1, <1>2 DEF InLog
  <2> QED
    BY <2>1, <2>2
<1>10. \A q \in Nat : q \in Seqs(queue \cup run) <=> Len(got) <= q /\ q < next + n
  <2> SUFFICES ASSUME NEW q \in Nat
               PROVE  q \in Seqs(queue \cup run) <=> Len(got) <= q /\ q < next + n
    BY Zenon
  <2>1. q \in Seqs(queue) <=> Len(got) <= q /\ q < next
    BY Zenon DEF Received
  <2>2. q \in Seqs(run) <=> q \in next..(next + n - 1)
    BY <1>7, Zenon DEF Seqs, b
  <2>3. q \in Seqs(queue \cup run) <=> q \in Seqs(queue) \/ q \in Seqs(run)
    BY Zenon DEF Seqs
  <2> QED
    BY <2>1, <2>2, <2>3, <1>1, SMTT(30)
<1>11. next + n \in Nat /\ Len(got) <= next + n
  BY <1>1
<1>12. \A i \in 1..Len(got) : got[i] = l[i]
  BY Zenon DEF Received
<1> HIDE DEF run
<1>13. Received(l, DeleteBelow(b, next + n), queue \cup run, next + n, got)
  BY <1>4, <1>5, <1>8, <1>9, <1>10, <1>11, <1>12, Zenon DEF Received
<1> QED
  BY <1>13, Zenon DEF b, run

\* Reading the first segment of the queue delivers the next element (Read).
LEMMA ReceivedRead ==
    ASSUME NEW l \in Seq(Nat), NEW buf \in SUBSET Segment, NEW queue \in SUBSET Segment,
           NEW next \in Nat, NEW got \in Seq(Nat), Received(l, buf, queue, next, got),
           NEW s \in First(queue)
    PROVE  /\ Received(l, buf, queue \ {s}, next, Append(got, s.data))
           /\ Len(got) < Len(l) /\ InLog(l, Len(got), s.data)
<1>1. /\ s \in queue /\ \A t \in queue : s.seq <= t.seq
      /\ \A t \in queue : t.seq \in Nat /\ t.data \in Nat
  BY Zenon DEF First, Segment
<1>2. Len(l) \in Nat /\ Len(got) \in Nat /\ Len(got) <= next /\ next <= Len(l)
  BY DEF Received
<1>3. s.seq = Len(got) /\ Len(got) < next
  <2>1. s.seq \in Seqs(queue)
    BY <1>1, Zenon DEF Seqs
  <2>2. Len(got) <= s.seq /\ s.seq < next
    BY <2>1, <1>1, Zenon DEF Received
  <2>3. Len(got) \in Seqs(queue)
    BY <2>2, <1>1, <1>2 DEF Received
  <2>4. PICK t \in queue : t.seq = Len(got)
    BY <2>3, Zenon DEF Seqs
  <2> QED
    BY <2>2, <2>4, <1>1, <1>2, SMTT(30)
<1>4. s.data = l[Len(got) + 1]
  BY <1>1, <1>3, Zenon DEF Received, InLog
<1>5. /\ Append(got, s.data) \in Seq(Nat) /\ Len(Append(got, s.data)) = Len(got) + 1
      /\ \A i \in 1..(Len(got) + 1) : Append(got, s.data)[i] = l[i]
  BY <1>1, <1>2, <1>4 DEF Received
<1>6. \A q \in Nat : q \in Seqs(queue \ {s}) <=> Len(got) + 1 <= q /\ q < next
  <2> SUFFICES ASSUME NEW q \in Nat
               PROVE  q \in Seqs(queue \ {s}) <=> Len(got) + 1 <= q /\ q < next
    BY Zenon
  <2>1. q \in Seqs(queue) <=> Len(got) <= q /\ q < next
    BY Zenon DEF Received
  <2>2. q \in Seqs(queue \ {s}) <=> q \in Seqs(queue) /\ q # s.seq
    BY <1>1, Zenon DEF Seqs, Received
  <2> QED
    BY <2>1, <2>2, <1>2, <1>3, SMTT(30)
<1> DEFINE now == Append(got, s.data)
<1>7. /\ Len(now) = Len(got) + 1
      /\ \A i \in 1..Len(now) : now[i] = l[i]
  BY <1>5, Zenon
<1>8. Len(now) <= next /\ Len(got) < Len(l)
  BY <1>2, <1>3, <1>7
<1>9. \A q \in Nat : q \in Seqs(queue \ {s}) <=> Len(now) <= q /\ q < next
  BY <1>6, <1>7, Zenon
<1>10. /\ \A x \in buf \cup (queue \ {s}) : InLog(l, x.seq, x.data)
       /\ \A x, y \in buf : x.seq = y.seq => x = y
       /\ \A x, y \in queue \ {s} : x.seq = y.seq => x = y
  BY Zenon DEF Received
<1> HIDE DEF now
<1>11. Received(l, buf, queue \ {s}, next, now)
  BY <1>2, <1>7, <1>8, <1>9, <1>10, Zenon DEF Received
<1>12. InLog(l, Len(got), s.data)
  BY <1>1, <1>3, Zenon DEF Received
<1> QED
  BY <1>8, <1>11, <1>12, Zenon DEF now

-----------------------------------------------------------------------------
(* The receiver half.                                                      *)

ReceivedInv ==
    \A e \in Side : Received(log[Peer(e)], recvBuf[e], recvQueue[e], nextRecv[e], delivered[e])

\* The receiving half of side x does not change.
Deaf(x) ==
    /\ recvBuf'[x] = recvBuf[x] /\ recvQueue'[x] = recvQueue[x]
    /\ nextRecv'[x] = nextRecv[x] /\ delivered'[x] = delivered[x]

\* A step of the receiver e, which delivers at most the next element.
Receives(e) ==
    /\ \A x \in Side : x # e => Deaf(x)
    /\ nextRecv[e] <= nextRecv'[e]
    /\ Received(log[Peer(e)], recvBuf'[e], recvQueue'[e], nextRecv'[e], delivered'[e])
    /\ \/ delivered'[e] = delivered[e]
       \/ /\ Len(delivered[e]) < Len(log[Peer(e)])
          /\ delivered'[e] = Append(delivered[e], log[Peer(e)][Len(delivered[e]) + 1])

\* A step that leaves the receiving half alone.
LEMMA IdleReceives ==
    ASSUME TypeInv, ReceivedInv, NEW e \in Side, UNCHANGED <<recvVars, delivered>>
    PROVE  Receives(e)
<1>1. nextRecv[e] \in Nat
  BY Zenon DEF TypeInv, TypeOK
<1> QED
  BY <1>1 DEF Receives, Deaf, ReceivedInv, recvVars

\* inputData: the segment is dropped, or inserted and the run moved.
LEMMA SegmentReceives ==
    ASSUME TypeInv, ReceivedInv, NEW e \in Side, NEW seg \in Segment, NEW wnd,
           InLog(log[Peer(e)], seg.seq, seg.data),
           ReceiveSegment(e, seg, wnd), UNCHANGED delivered
    PROVE  Receives(e)
<1>1. CASE ReceiveWindow(e) = 0
  BY <1>1, IdleReceives, Zenon DEF ReceiveSegment
<1>2. CASE ReceiveWindow(e) # 0
  <2> DEFINE buf == Insert(recvBuf[e], seg)
             first == nextRecv[e]
             room == Remaining(recvQueue[e], TreeCapacity)
             run(n) == {s \in buf : s.seq \in first..(first + n - 1)}
  <2>1. PICK n \in RunLength(buf, first, room) :
           /\ recvBuf' = [recvBuf EXCEPT ![e] = DeleteBelow(buf, first + n)]
           /\ recvQueue' = [recvQueue EXCEPT ![e] = recvQueue[e] \cup run(n)]
           /\ nextRecv' = [nextRecv EXCEPT ![e] = first + n]
    BY <1>2, Zenon DEF ReceiveSegment
  <2>2. n \in Nat /\ first..(first + n - 1) \subseteq Seqs(buf)
    BY DEF RunLength
  <2>3. /\ log[Peer(e)] \in Seq(Nat) /\ recvBuf[e] \in SUBSET Segment
        /\ recvQueue[e] \in SUBSET Segment /\ nextRecv[e] \in Nat /\ delivered[e] \in Seq(Nat)
    BY PeerFacts, Zenon DEF TypeInv, TypeOK
  <2>4. Received(log[Peer(e)], recvBuf[e], recvQueue[e], nextRecv[e], delivered[e])
    BY Zenon DEF ReceivedInv
  <2>5. Received(log[Peer(e)], DeleteBelow(buf, first + n), recvQueue[e] \cup run(n),
                 first + n, delivered[e])
    BY <2>2, <2>3, <2>4, ReceivedMore, ZenonT(60)
  <2> HIDE DEF buf, run
  <2>6. /\ recvBuf'[e] = DeleteBelow(buf, first + n) /\ recvQueue'[e] = recvQueue[e] \cup run(n)
        /\ nextRecv'[e] = first + n /\ delivered'[e] = delivered[e]
        /\ \A x \in Side : x # e => Deaf(x)
    BY <2>1, Zenon DEF TypeInv, TypeOK, Deaf
  <2>7. nextRecv[e] <= nextRecv'[e]
    BY <2>2, <2>3, <2>6
  <2> QED
    BY <2>5, <2>6, <2>7, Zenon DEF Receives
<1> QED
  BY <1>1, <1>2, Zenon

\* Read.
LEMMA ReadReceives ==
    ASSUME TypeInv, ReceivedInv, NEW e \in Side, Read(e)
    PROVE  Receives(e)
<1>1. PICK s \in First(recvQueue[e]) :
        /\ recvQueue' = [recvQueue EXCEPT ![e] = recvQueue[e] \ {s}]
        /\ delivered' = [delivered EXCEPT ![e] = Append(delivered[e], s.data)]
  BY Zenon DEF Read
<1>2. /\ log[Peer(e)] \in Seq(Nat) /\ recvBuf[e] \in SUBSET Segment
      /\ recvQueue[e] \in SUBSET Segment /\ nextRecv[e] \in Nat /\ delivered[e] \in Seq(Nat)
  BY PeerFacts, Zenon DEF TypeInv, TypeOK
<1>3. Received(log[Peer(e)], recvBuf[e], recvQueue[e], nextRecv[e], delivered[e])
  BY Zenon DEF ReceivedInv
<1>4. /\ Received(log[Peer(e)], recvBuf[e], recvQueue[e] \ {s}, nextRecv[e],
                  Append(delivered[e], s.data))
      /\ Len(delivered[e]) < Len(log[Peer(e)]) /\ s.data = log[Peer(e)][Len(delivered[e]) + 1]
  <2> DEFINE l == log[Peer(e)]
             buf == recvBuf[e]
             queue == recvQueue[e]
             next == nextRecv[e]
             got == delivered[e]
  <2>1. /\ l \in Seq(Nat) /\ buf \in SUBSET Segment /\ queue \in SUBSET Segment
        /\ next \in Nat /\ got \in Seq(Nat) /\ s \in First(queue)
        /\ Received(l, buf, queue, next, got)
    BY <1>2, <1>3, Zenon
  <2> HIDE DEF l, buf, queue, next, got
  <2>2. /\ Received(l, buf, queue \ {s}, next, Append(got, s.data))
        /\ Len(got) < Len(l) /\ InLog(l, Len(got), s.data)
    BY <2>1, ReceivedRead, Zenon
  <2>3. s.data = l[Len(got) + 1]
    BY <2>2, Zenon DEF InLog
  <2> QED
    BY <2>2, <2>3, Zenon DEF l, buf, queue, next, got
<1>5. UNCHANGED <<recvBuf, nextRecv>>
  BY Zenon DEF Read
<1> DEFINE now == Append(delivered[e], s.data)
<1> HIDE DEF now
<1>6. /\ recvQueue'[e] = recvQueue[e] \ {s} /\ delivered'[e] = Append(delivered[e], s.data)
      /\ \A x \in Side : x # e => Deaf(x)
  <2>1. delivered' = [delivered EXCEPT ![e] = now]
    BY <1>1, Zenon DEF now
  <2>2. delivered'[e] = now /\ \A x \in Side : x # e => delivered'[x] = delivered[x]
    BY <2>1, Zenon DEF TypeInv, TypeOK
  <2>3. recvQueue'[e] = recvQueue[e] \ {s} /\ \A x \in Side : x # e => recvQueue'[x] = recvQueue[x]
    BY <1>1, Zenon DEF TypeInv, TypeOK
  <2> QED
    BY <1>5, <2>2, <2>3, Zenon DEF Deaf, now
<1>7. nextRecv[e] <= nextRecv'[e]
  BY <1>2, <1>5
<1>8. Received(log[Peer(e)], recvBuf'[e], recvQueue'[e], nextRecv'[e], delivered'[e])
  BY <1>4, <1>5, <1>6, Zenon
<1>9. delivered'[e] = Append(delivered[e], log[Peer(e)][Len(delivered[e]) + 1])
  BY <1>4, <1>6, Zenon
<1> QED
  BY <1>4, <1>6, <1>7, <1>8, <1>9, Zenon DEF Receives

-----------------------------------------------------------------------------
(* Every step is one of a sender and one of a receiver.                    *)

DeliveryInv == TypeInv /\ SentInv /\ ReceivedInv

\* What the server's recvChan holds came from the network.
ChanStep ==
    \A s \in recvChan' : \/ s \in recvChan
                         \/ \E m \in net : /\ m.kind = "openReq" /\ m.to = "server"
                                          /\ s.seq = m.seq /\ s.data = m.data

SessionStep(e, r) ==
    /\ Sends(e)
    /\ Receives(r)
    /\ ChanStep
    /\ UNCHANGED delivered \/ UNCHANGED <<log, state>>

\* The payload of a datagram is the one its sender numbered.
LEMMA MessageInLog ==
    ASSUME TypeInv, SentInv, NEW m \in net, m.kind \in StreamKind
    PROVE  LET seg == Seg(m.kind, m.seq, m.data, m.wnd)
           IN  InLog(log[Peer(m.to)], seg.seq, seg.data) /\ seg.seq = m.seq /\ seg.data = m.data
BY Zenon DEF SentInv, Seg

\* Every action is a step of one sender and of one receiver, or stutters on
\* that half of the session.
LEMMA EachStep ==
    ASSUME FiniteSetFacts, DeliveryInv, [Next]_vars
    PROVE  \E e, r \in Side : SessionStep(e, r)
<1> USE DEF DeliveryInv
<1>a. "client" \in Side /\ "server" \in Side /\ Peer("server") = "client" /\ Peer("client") = "server"
  BY Zenon DEF Side, Peer
<1>1. CASE OpenSession
  BY <1>1, <1>a, OpenSends, IdleReceives, Zenon DEF OpenSession, SessionStep, ChanStep
<1>2. ASSUME NEW e \in Side, NEW n \in 1..MaxFragments, Write(e, n)
      PROVE  \E x, r \in Side : SessionStep(x, r)
  BY <1>2, WriteSends, IdleReceives, Zenon DEF Write, SessionStep, ChanStep
<1>3. ASSUME NEW e \in Side, Read(e) PROVE \E x, r \in Side : SessionStep(x, r)
  <2>1. Receives(e)
    BY <1>3, ReadReceives, Zenon
  <2>2. UNCHANGED <<closing, sendQueue, sendBuf, nextSend, log, state, net, recvChan>>
    BY <1>3, Zenon DEF Read, sendVars, closeVars
  <2>3. Sends(e)
    BY <2>2, IdleSends, Zenon
  <2> QED
    BY <2>1, <2>2, <2>3, Zenon DEF SessionStep, ChanStep
<1>4. ASSUME NEW e \in Side, OutputPacket(e) PROVE \E x, r \in Side : SessionStep(x, r)
  BY <1>4, OutputSends, IdleReceives, Zenon DEF OutputPacket, SessionStep, ChanStep
<1>5. ASSUME NEW e \in Side, OutputFails(e) PROVE \E x, r \in Side : SessionStep(x, r)
  BY <1>5, FailSends, IdleReceives, Zenon DEF OutputFails, SessionStep, ChanStep
<1>6. ASSUME NEW e \in Side, Close(e) PROVE \E x, r \in Side : SessionStep(x, r)
  <2>1. Sends(e)
    BY <1>6, StartCloseSends, Zenon DEF Close
  <2>2. UNCHANGED <<recvVars, delivered, recvChan>>
    BY <1>6, Zenon DEF Close
  <2> QED
    BY <2>1, <2>2, IdleReceives, Zenon DEF SessionStep, ChanStep
<1>7. ASSUME NEW e \in Side, CloseSucceeds(e) \/ CloseTimesOut(e)
      PROVE  \E x, r \in Side : SessionStep(x, r)
  <2>1. UNCHANGED <<recvVars, delivered, recvChan>>
    BY <1>7, Zenon DEF CloseSucceeds, CloseTimesOut
  <2> QED
    BY <1>7, <2>1, PollSends, IdleReceives, Zenon DEF SessionStep, ChanStep
<1>9. CASE InputOpenRequest
  <2>1. PICK seg \in recvChan :
          /\ state["server"] = "Attached"
          /\ ReceiveSegment("server", seg, remoteWindow["server"])
          /\ recvChan' = {}
          /\ AcceptOpen \/ RefuseOpen
          /\ UNCHANGED delivered
    BY <1>9, Zenon DEF InputOpenRequest
  <2>2. Receives("server")
    <3>1. seg \in Segment /\ InLog(log[Peer("server")], seg.seq, seg.data)
      BY <1>a, Zenon DEF TypeInv, TypeOK, SentInv
    <3> QED
      BY <2>1, <3>1, <1>a, SegmentReceives, Zenon
  <2>3. Sends("server")
    <3>1. CASE AcceptOpen
      BY <2>1, <3>1, AcceptSends, Zenon
    <3>2. CASE RefuseOpen
      <4>1. state["server"] \in Live
        BY <2>1, Zenon DEF Live
      <4> QED
        BY <3>2, <4>1, <1>a, StartCloseSends, Zenon DEF RefuseOpen
    <3> QED
      BY <2>1, <3>1, <3>2, Zenon
  <2> QED
    BY <2>1, <2>2, <2>3, <1>a, Zenon DEF SessionStep, ChanStep
<1>10. ASSUME NEW m \in net, OnOpenSessionRequest(m) PROVE \E x, r \in Side : SessionStep(x, r)
  <2>1. PICK rest \in AfterArrival(m) :
          /\ m.kind = "openReq" /\ m.to = "server" /\ state["server"] = "Init"
          /\ state' = [state EXCEPT !["server"] = "Attached"]
          /\ recvChan' = {Seg(m.kind, m.seq, m.data, m.wnd)}
          /\ net' = rest
          /\ UNCHANGED <<closeVars, sendVars, recvVars, delivered>>
    BY <1>10, Zenon DEF OnOpenSessionRequest
  <2>2. ChanStep
    BY <2>1 DEF ChanStep, Seg
  <2>3. /\ net' \subseteq net
        /\ UNCHANGED <<closing, sendQueue, sendBuf, nextSend, log>>
        /\ \A x \in Side : x # "server" => state'[x] = state[x]
        /\ state["server"] # "Closed"
    BY <2>1, RestFacts, Zenon DEF closeVars, sendVars, TypeInv, TypeOK
  <2>4. Sends("server")
    BY <2>3, <1>a, IdleSends, Zenon
  <2> QED
    BY <2>1, <2>2, <2>4, <1>a, IdleReceives, Zenon DEF SessionStep
<1>11. ASSUME NEW m \in net, InputOpenResponse(m) PROVE \E x, r \in Side : SessionStep(x, r)
  <2> DEFINE seg == Seg(m.kind, m.seq, m.data, m.wnd)
  <2>1. PICK rest \in AfterArrival(m) :
          /\ m.kind = "openResp" /\ m.to = "client" /\ state["client"] \in Live
          /\ ReceiveSegment("client", seg, remoteWindow["client"])
          /\ state' = [state EXCEPT !["client"] = "Established"]
          /\ net' = rest
          /\ UNCHANGED <<recvChan, closeVars, sendVars, delivered>>
    BY <1>11, Zenon DEF InputOpenResponse, InputRuns
  <2>2. seg \in Segment /\ InLog(log[Peer("client")], seg.seq, seg.data)
    BY <2>1, SegOfMessage, MessageInLog, Zenon DEF StreamKind
  <2> HIDE DEF seg
  <2>3. Receives("client")
    BY <2>1, <2>2, <1>a, SegmentReceives, Zenon
  <2>4. /\ net' \subseteq net
        /\ UNCHANGED <<closing, sendQueue, sendBuf, nextSend, log>>
        /\ \A x \in Side : x # "client" => state'[x] = state[x]
        /\ state["client"] # "Closed"
    BY <2>1, RestFacts, Zenon DEF closeVars, sendVars, TypeInv, TypeOK, Live
  <2>5. Sends("client")
    BY <2>4, <1>a, IdleSends, Zenon
  <2> QED
    BY <2>1, <2>3, <2>5, <1>a, Zenon DEF SessionStep, ChanStep
<1>12. ASSUME NEW m \in net, InputData(m) PROVE \E x, r \in Side : SessionStep(x, r)
  <2> DEFINE seg == Seg(m.kind, m.seq, m.data, m.wnd)
  <2>1. PICK rest \in AfterArrival(m) :
          /\ m.kind = "data"
          /\ sendBuf' = [sendBuf EXCEPT ![m.to] = DeleteBelow(sendBuf[m.to], m.unAck)]
          /\ ReceiveSegment(m.to, seg, m.wnd)
          /\ net' = rest
          /\ UNCHANGED <<state, recvChan, closing, sendQueue, nextSend, log, delivered>>
    BY <1>12, Zenon DEF InputData, closeVars
  <2>2. /\ seg \in Segment /\ InLog(log[Peer(m.to)], seg.seq, seg.data) /\ m.to \in Side
        /\ m.unAck \in Nat /\ m.unAck <= nextRecv[Peer(m.to)] /\ net' \subseteq net
    BY <2>1, SegOfMessage, MessageInLog, RestFacts, Zenon DEF StreamKind, SentInv
  <2> HIDE DEF seg
  <2>3. Receives(m.to)
    BY <2>1, <2>2, SegmentReceives, Zenon
  <2>4. Sends(m.to)
    BY <2>1, <2>2, AckSends, Zenon
  <2> QED
    BY <2>1, <2>2, <2>3, <2>4, Zenon DEF SessionStep, ChanStep
<1>13. ASSUME NEW m \in net, InputAck(m) PROVE \E x, r \in Side : SessionStep(x, r)
  <2>1. PICK rest \in AfterArrival(m) :
          /\ sendBuf' = [sendBuf EXCEPT ![m.to] = DeleteBelow(sendBuf[m.to], m.unAck)]
          /\ net' = rest
          /\ UNCHANGED <<state, recvChan, closing, sendQueue, nextSend, log, recvVars, delivered>>
    BY <1>13, Zenon DEF InputAck, closeVars
  <2>2. /\ m.to \in Side /\ m.unAck \in Nat /\ m.unAck <= nextRecv[Peer(m.to)]
        /\ net' \subseteq net
    BY <2>1, SegOfMessage, RestFacts, Zenon DEF SentInv
  <2>3. Sends(m.to)
    BY <2>1, <2>2, AckSends, Zenon
  <2> QED
    BY <2>1, <2>2, <2>3, IdleReceives, Zenon DEF SessionStep, ChanStep
<1>14. ASSUME NEW m \in net, InputClose(m) PROVE \E x, r \in Side : SessionStep(x, r)
  <2>1. PICK rest \in AfterArrival(m) : StartClose(m.to, "input", m.kind = "closeReq", rest)
    BY <1>14, Zenon DEF InputClose
  <2>2. m.to \in Side /\ rest \in SUBSET net /\ (m.kind = "closeReq") \in BOOLEAN
    BY RestFacts, SegOfMessage, Zenon
  <2>3. state[m.to] \in Live /\ UNCHANGED <<recvVars, delivered, recvChan>>
    BY <1>14, Zenon DEF InputClose, InputRuns
  <2>4. Sends(m.to)
    BY <2>1, <2>2, <2>3, StartCloseSends, Zenon
  <2> QED
    BY <2>2, <2>3, <2>4, IdleReceives, Zenon DEF SessionStep, ChanStep
<1>15. ASSUME NEW m \in net, AnswerUnknownSession(m) PROVE \E x, r \in Side : SessionStep(x, r)
  <2> DEFINE answer == [to |-> Peer(m.to), kind |-> "closeReq", seq |-> m.unAck,
                        data |-> 0, unAck |-> 0, wnd |-> 0]
  <2>1. PICK rest \in AfterArrival(m) : Transmit(rest, {answer})
    BY <1>15, Zenon DEF AnswerUnknownSession
  <2>2. m.to \in Side /\ nextRecv[m.to] \in Nat /\ rest \subseteq net
    BY RestFacts, SegOfMessage, Zenon DEF TypeInv, TypeOK
  <2>3. Written(m.to, answer)
    BY <2>2 DEF Written, StreamKind
  <2>4. \A x \in net' : x \in net \/ Written(m.to, x)
    BY <2>1, <2>2, <2>3, TransmitFacts, Zenon
  <2>5. UNCHANGED <<state, closing, sendQueue, sendBuf, nextSend, log, recvVars, delivered, recvChan>>
    BY <1>15, Zenon DEF AnswerUnknownSession, closeVars, sendVars
  <2>6. Sends(m.to)
    <3>1. nextSend[m.to] \in Nat /\ Grows(log[m.to], log[m.to])
      BY <2>2, GrowsFacts, Zenon DEF TypeInv, TypeOK
    <3>2. nextSend[m.to] <= nextSend[m.to] /\ \A q \in Nat : ~(nextSend[m.to] <= q /\ q < nextSend[m.to])
      BY <3>1
    <3> QED
      BY <2>2, <2>4, <2>5, <3>1, <3>2, Zenon DEF Sends, Quiet, SentInv, Outstanding
  <2> QED
    BY <2>2, <2>5, <2>6, IdleReceives, Zenon DEF SessionStep, ChanStep
<1>16. CASE UNCHANGED vars
  <2>1. UNCHANGED <<state, closing, sendQueue, sendBuf, nextSend, log, recvVars, delivered, recvChan, net>>
    BY <1>16, Zenon DEF vars, closeVars, sendVars
  <2>2. Sends("client")
    BY <2>1, <1>a, IdleSends, Zenon
  <2> QED
    BY <2>1, <2>2, <1>a, IdleReceives, Zenon DEF SessionStep, ChanStep
<1> QED
  BY <1>1, <1>2, <1>3, <1>4, <1>5, <1>6, <1>7, <1>9, <1>10, <1>11, <1>12, <1>13,
     <1>14, <1>15, <1>16, ZenonT(60) DEF Next

-----------------------------------------------------------------------------
(* The theorems.                                                           *)

\* A session that has sent and received nothing is consistent.
LEMMA DeliveryInit ==
    ASSUME FiniteSetFacts, Init
    PROVE  DeliveryInv
<1>1. TypeInv
  BY TypeInit, Zenon
<1>2. \A e \in Side : log[e] = <<>> /\ delivered[e] = <<>> /\ Peer(e) \in Side
  BY PeerFacts, Zenon DEF Init
<1>3. Len(<<>>) = 0
  BY Zenon
<1>4. SentInv
  BY <1>2, <1>3 DEF Init, SentInv
<1>5. \A e \in Side : Received(<<>>, {}, {}, 0, <<>>)
  BY <1>3 DEF Received, Seqs
<1>6. ReceivedInv
  BY <1>2, <1>5, Zenon DEF Init, ReceivedInv
<1> QED
  BY <1>1, <1>4, <1>6, Zenon DEF DeliveryInv

\* The invariant of the two halves is inductive.
LEMMA DeliveryStep ==
    ASSUME FiniteSetFacts, DeliveryInv, [Next]_vars
    PROVE  DeliveryInv'
<1>1. TypeInv /\ TypeInv'
  BY TypeStep, Zenon DEF DeliveryInv
<1>2. PICK e \in Side, r \in Side : SessionStep(e, r)
  BY EachStep, Zenon
<1>3. SentInv /\ ReceivedInv /\ Sends(e) /\ Receives(r) /\ ChanStep
  BY <1>2, Zenon DEF DeliveryInv, SessionStep
<1>4. \A x \in Side : log[x] \in Seq(Nat) /\ log'[x] \in Seq(Nat) /\ nextRecv[x] \in Nat /\ nextRecv'[x] \in Nat
  BY <1>1, Zenon DEF TypeInv, TypeOK
<1>5. \A x \in Side : Grows(log[x], log'[x])
  BY <1>3, <1>4, GrowsFacts, Zenon DEF Sends, Quiet
<1>6. \A x \in Side : nextRecv[x] <= nextRecv'[x]
  BY <1>3, <1>4 DEF Receives, Deaf
<1>7. SentInv'
  <2>1. \A x \in Side : Len(log'[x]) = nextSend'[x]
    BY <1>3, Zenon DEF Sends, Quiet, SentInv
  <2>2. \A x \in Side : \A s \in sendQueue'[x] \cup sendBuf'[x] : InLog(log'[x], s.seq, s.data)
    BY <1>3, Zenon DEF Sends, Quiet, SentInv
  <2>3. ASSUME NEW m \in net', m.kind \in StreamKind PROVE InLog(log'[Peer(m.to)], m.seq, m.data)
    <3>1. m.to \in Side /\ Peer(m.to) \in Side
      BY <1>1, PeerFacts, Zenon DEF TypeInv, TypeOK, Message
    <3>2. InLog(log[Peer(m.to)], m.seq, m.data)
      <4>1. CASE m \in net
        BY <4>1, <2>3, <1>3, Zenon DEF SentInv
      <4>2. CASE Written(e, m)
        <5>1. Peer(m.to) = e
          BY <4>2, PeerFacts, Zenon DEF Written
        <5>2. PICK t \in sendBuf[e] \cup sendQueue[e] : m.seq = t.seq /\ m.data = t.data
          BY <4>2, <2>3, Zenon DEF Written
        <5>3. InLog(log[e], t.seq, t.data)
          BY <5>2, <1>3, Zenon DEF SentInv
        <5> QED
          BY <5>1, <5>2, <5>3, Zenon
      <4> QED
        BY <4>1, <4>2, <1>3, Zenon DEF Sends
    <3> QED
      BY <3>1, <3>2, <1>4, <1>5, InLogGrows, Zenon
  <2>4. ASSUME NEW m \in net' PROVE m.unAck <= nextRecv'[Peer(m.to)]
    <3>1. m.to \in Side /\ Peer(m.to) \in Side /\ m.unAck \in Nat
      BY <1>1, PeerFacts, Zenon DEF TypeInv, TypeOK, Message
    <3>2. m.unAck <= nextRecv[Peer(m.to)]
      <4>1. CASE m \in net
        BY <4>1, <1>3, Zenon DEF SentInv
      <4>2. CASE Written(e, m)
        BY <4>2, PeerFacts, Zenon DEF Written
      <4> QED
        BY <4>1, <4>2, <1>3, Zenon DEF Sends
    <3> QED
      BY <3>1, <3>2, <1>4, <1>6
  <2>5. ASSUME NEW s \in recvChan' PROVE InLog(log'["client"], s.seq, s.data)
    <3>1. "client" \in Side /\ Peer("server") = "client" /\ "openReq" \in StreamKind
      BY Zenon DEF Side, Peer, StreamKind
    <3>2. InLog(log["client"], s.seq, s.data)
      BY <1>3, <3>1, ZenonT(60) DEF ChanStep, SentInv
    <3> QED
      BY <3>1, <3>2, <1>4, <1>5, InLogGrows, Zenon
  <2> QED
    BY <2>1, <2>2, <2>3, <2>4, <2>5, Zenon DEF SentInv
<1>8. ReceivedInv'
  <2> SUFFICES ASSUME NEW x \in Side
               PROVE  Received(log'[Peer(x)], recvBuf'[x], recvQueue'[x], nextRecv'[x], delivered'[x])
    BY Zenon DEF ReceivedInv
  <2>1. Received(log[Peer(x)], recvBuf'[x], recvQueue'[x], nextRecv'[x], delivered'[x])
    BY <1>3, Zenon DEF Receives, Deaf, ReceivedInv
  <2>2. /\ Peer(x) \in Side /\ recvBuf'[x] \in SUBSET Segment /\ recvQueue'[x] \in SUBSET Segment
        /\ nextRecv'[x] \in Nat /\ delivered'[x] \in Seq(Nat)
    BY <1>1, PeerFacts, Zenon DEF TypeInv, TypeOK
  <2> QED
    BY <2>1, <2>2, <1>4, <1>5, ReceivedGrows, Zenon
<1> QED
  BY <1>1, <1>7, <1>8, Zenon DEF DeliveryInv

\* What Read returns follows from DeliveryInv.
LEMMA ReadIsPrefix ==
    ASSUME DeliveryInv, NEW e \in Side
    PROVE  /\ Len(delivered[e]) <= Len(log[Peer(e)])
           /\ \A i \in 1..Len(delivered[e]) : delivered[e][i] = log[Peer(e)][i]
<1>1. Received(log[Peer(e)], recvBuf[e], recvQueue[e], nextRecv[e], delivered[e])
  BY Zenon DEF DeliveryInv, ReceivedInv
<1>2. Len(delivered[e]) \in Nat /\ nextRecv[e] \in Nat /\ Len(log[Peer(e)]) \in Nat
  BY PeerFacts DEF DeliveryInv, TypeInv, TypeOK
<1> QED
  BY <1>1, <1>2, SMTT(30) DEF Received

\* No step loses a number: what is acknowledged was accepted in order.
LEMMA NoLossStep ==
    ASSUME FiniteSetFacts, DeliveryInv, DeliveryInv', NothingLost, [Next]_vars,
           NEW x \in Side, closing'[x] = "none", NEW q \in 0..(nextSend'[x] - 1)
    PROVE  q \in Outstanding(x)' \/ q < nextRecv'[Peer(x)]
<1>1. PICK e \in Side, r \in Side : SessionStep(e, r)
  BY EachStep, Zenon
<1>2. /\ nextSend[x] \in Nat /\ nextSend'[x] \in Nat /\ Peer(x) \in Side
      /\ nextRecv[Peer(x)] \in Nat /\ nextRecv'[Peer(x)] \in Nat
  BY PeerFacts, Zenon DEF DeliveryInv, TypeInv, TypeOK
<1>3. q \in Nat /\ q < nextSend'[x]
  <2> HIDE DEF DeliveryInv
  <2> QED
    BY <1>2, SMTT(30)
<1>4. nextRecv[Peer(x)] <= nextRecv'[Peer(x)]
  BY <1>1, <1>2, SMTT(30) DEF SessionStep, Receives, Deaf
<1>5. q \in Outstanding(x)' \/ q < nextRecv[Peer(x)]
  <2>1. CASE x # e
    <3>1. Quiet(x)
      BY <1>1, <2>1, Zenon DEF SessionStep, Sends
    <3>2. closing[x] = "none" /\ q \in 0..(nextSend[x] - 1) /\ Outstanding(x)' = Outstanding(x)
      BY <3>1, Zenon DEF Quiet, Outstanding
    <3> QED
      BY <3>2, Zenon DEF NothingLost, Outstanding
  <2>2. CASE x = e
    <3>1. /\ closing[x] = "none"
          /\ q \in Outstanding(x) \/ (nextSend[x] <= q /\ q < nextSend'[x])
                  => q \in Outstanding(x)' \/ q < nextRecv[Peer(x)]
      BY <1>1, <1>3, <2>2, Zenon DEF SessionStep, Sends
    <3>2. CASE q < nextSend[x]
      <4>1. q \in Outstanding(x) \/ q < nextRecv[Peer(x)]
        BY <3>1, <3>2, <1>2, <1>3 DEF NothingLost, Outstanding
      <4> QED
        BY <3>1, <4>1, Zenon
    <3> QED
      BY <3>1, <3>2, <1>2, <1>3
  <2> QED
    BY <2>1, <2>2, Zenon
<1> QED
  BY <1>2, <1>3, <1>4, <1>5

\* The sides whose stream is finished.
ClosedSides == {e \in Side : state[e] = "Closed"}

\* Every step extends one stream, delivers the next element of one, finishes
\* one, or leaves the streams alone.
LEMMA RefinementStep ==
    ASSUME FiniteSetFacts, DeliveryInv, DeliveryInv', [Next]_vars
    PROVE  Stream!Next \/ (UNCHANGED <<log, delivered>> /\ ClosedSides' = ClosedSides)
<1> USE DEF ClosedSides
<1>1. PICK e \in Side, r \in Side : SessionStep(e, r)
  BY EachStep, Zenon
<1>2. /\ log \in [Side -> Seq(Nat)] /\ log' \in [Side -> Seq(Nat)]
      /\ delivered \in [Side -> Seq(Nat)] /\ delivered' \in [Side -> Seq(Nat)]
  BY Zenon DEF DeliveryInv, TypeInv, TypeOK
<1>3. Sends(e) /\ Receives(r) /\ (UNCHANGED delivered \/ UNCHANGED <<log, state>>)
  BY <1>1, Zenon DEF SessionStep
<1>4. CASE UNCHANGED delivered
  <2>1. \A x \in Side : x # e => log'[x] = log[x] /\ state'[x] = state[x]
    BY <1>3, Zenon DEF Sends, Quiet
  <2>2. log' = [log EXCEPT ![e] = log'[e]]
    BY <1>2, <2>1, Zenon
  <2>3. Stream!Extends(log[e], log'[e])
    BY <1>3, Zenon DEF Sends, Grows, Stream!Extends
  <2>4. Stream!OnlyGrows(e)
    BY <2>2, <2>3, Zenon DEF Stream!OnlyGrows
  <2>5. CASE state[e] = "Closed"
    <3>1. log'[e] = log[e] /\ state'[e] = "Closed"
      BY <1>3, <2>5, Zenon DEF Sends
    <3>2. log' = log
      BY <1>2, <2>1, <3>1
    <3>3. ClosedSides' = ClosedSides
      BY <2>1, <2>5, <3>1, Zenon
    <3> QED
      BY <1>4, <3>2, <3>3, SMTT(20)
  <2>6. CASE state[e] # "Closed" /\ state'[e] = "Closed"
    <3>1. ClosedSides' = ClosedSides \cup {e} /\ e \notin ClosedSides
      BY <2>1, <2>6, SMTT(30)
    <3>2. Stream!Finish(e)
      BY <1>4, <2>4, <3>1, Zenon DEF Stream!Finish
    <3> QED
      BY <3>2, Zenon DEF Stream!Next
  <2>7. CASE state[e] # "Closed" /\ state'[e] # "Closed"
    <3>1. ClosedSides' = ClosedSides /\ e \notin ClosedSides
      BY <2>1, <2>7, Zenon
    <3>2. Stream!Extend(e)
      BY <1>4, <2>4, <3>1, Zenon DEF Stream!Extend
    <3> QED
      BY <3>2, Zenon DEF Stream!Next
  <2> QED
    BY <2>5, <2>6, <2>7, Zenon
<1>5. CASE UNCHANGED <<log, state>>
  <2>1. \A x \in Side : x # r => delivered'[x] = delivered[x]
    BY <1>3, Zenon DEF Receives, Deaf
  <2>2. CASE delivered'[r] = delivered[r]
    <3>1. delivered' = delivered
      BY <1>2, <2>1, <2>2
    <3> QED
      BY <3>1, <1>5, Zenon
  <2>3. CASE /\ Len(delivered[r]) < Len(log[Peer(r)])
             /\ delivered'[r] = Append(delivered[r], log[Peer(r)][Len(delivered[r]) + 1])
    <3> DEFINE now == Append(delivered[r], log[Peer(r)][Len(delivered[r]) + 1])
    <3> HIDE DEF now
    <3>1. delivered' = [delivered EXCEPT ![r] = now]
      BY <1>2, <2>1, <2>3, Zenon DEF now
    <3>2. Stream!Deliver(r)
      BY <1>5, <2>3, <3>1, Zenon DEF Stream!Deliver, now
    <3> QED
      BY <3>2, Zenon DEF Stream!Next
  <2> QED
    BY <1>3, <2>2, <2>3, Zenon DEF Receives
<1> QED
  BY <1>3, <1>4, <1>5, Zenon

-----------------------------------------------------------------------------
(* The handshake and the room in the trees.                                *)

\* The server has accepted the session, or is done with it.
Opened == state["server"] \in {"Established", "Closed"}

\* Nothing that tells the client that the session is open, and no data of the
\* client, exists before the server has accepted.
HandshakeInv ==
    /\ state["client"] = "Established" => Opened
    /\ \A s \in sendQueue["server"] \cup sendBuf["server"] : s.kind = "openResp" => Opened
    /\ \A s \in sendBuf["client"] : s.kind = "data" => Opened
    /\ \A m \in net : m.to = "client" /\ m.kind = "openResp" => Opened
    /\ \A m \in net : m.to = "server" /\ m.kind = "data" => Opened

\* The trees hold one segment per number.
Unique(tree) == \A s, t \in tree : s.seq = t.seq => s = t

\* The numbers on their way to side r.
Arriving(r) ==
    {m.seq : m \in {x \in net : x.to = r /\ x.kind \in StreamKind}}
        \cup (IF r = "server" THEN Seqs(recvChan) ELSE {})

\* The numbers of e that may still take a place in the trees of its peer.
Transit(e) == {q \in Seqs(recvBuf[Peer(e)]) \cup Arriving(Peer(e)) : nextRecv[Peer(e)] <= q}

\* A sender keeps what it has in transit in its sendBuf, which is never full;
\* after it has closed, nothing is added to what is in transit.  The receive
\* trees together fit in one tree, and recvBuf is ahead of nextRecv.
RoomInv ==
    \A e \in Side :
        /\ Unique(sendQueue[e])
        /\ IsFiniteSet(sendBuf[e]) /\ Cardinality(sendBuf[e]) < TreeCapacity
        /\ state[e] # "Closed" => Transit(e) \subseteq Seqs(sendBuf[e])
        /\ IsFiniteSet(Transit(e)) /\ Cardinality(Transit(e)) < TreeCapacity
        /\ Cardinality(recvBuf[e]) + Cardinality(recvQueue[e]) <= TreeCapacity
        /\ \A s \in recvBuf[e] : nextRecv[e] < s.seq

\* The states only advance: the client is established after the server is, and
\* the server never returns.
Advances ==
    \A x \in Side :
        \/ state'[x] = state[x]
        \/ state'[x] = "Closed"
        \/ x = "client" /\ state[x] # "Closed" /\ Opened
        \/ x = "server" /\ state[x] \in {"Init", "Attached"}

\* A step other than a pass of the output loop: no stream content is written,
\* sendBuf only loses what the peer has received, or all of it at the close,
\* and the open response is queued by the server that accepts.
Plain ==
    /\ Advances
    /\ \A m \in net' : m \in net \/ m.kind \notin StreamKind
    /\ \A x \in Side : \/ sendBuf'[x] = sendBuf[x]
                       \/ sendBuf'[x] = {} /\ state'[x] = "Closed"
                       \/ \E n \in Nat : /\ n <= nextRecv[Peer(x)]
                                         /\ sendBuf'[x] = DeleteBelow(sendBuf[x], n)
    /\ \A s \in sendQueue'["server"] : s \in sendQueue["server"] \/ s.kind # "openResp" \/ Opened'
    /\ \A x \in Side : Unique(sendQueue'[x])

\* Once the server has accepted the session it stays accepted.
LEMMA StaysOpened ==
    ASSUME Advances, Opened
    PROVE  Opened'
BY DEF Advances, Opened, Side

\* The client becomes established after the server.
LEMMA ClientFollows ==
    ASSUME Advances, HandshakeInv, state'["client"] = "Established"
    PROVE  Opened'
<1>1. "client" \in Side
  BY Zenon DEF Side
<1>2. Opened
  BY <1>1 DEF Advances, HandshakeInv
<1> QED
  BY <1>2, StaysOpened, Zenon

\* A step other than a pass of the output loop preserves HandshakeInv.
LEMMA PlainHandshake ==
    ASSUME HandshakeInv, Plain
    PROVE  HandshakeInv'
<1>1. "client" \in Side /\ "server" \in Side
  BY Zenon DEF Side
<1>2. Advances /\ (Opened => Opened')
  BY StaysOpened, Zenon DEF Plain
<1>3. \A x \in Side : sendBuf'[x] \subseteq sendBuf[x]
  BY Zenon DEF Plain, DeleteBelow
<1>4. \A s \in sendQueue'["server"] \cup sendBuf'["server"] : s.kind = "openResp" => Opened'
  BY <1>1, <1>2, <1>3, Zenon DEF Plain, HandshakeInv
<1>5. \A s \in sendBuf'["client"] : s.kind = "data" => Opened'
  BY <1>1, <1>2, <1>3, Zenon DEF HandshakeInv
<1>6. \A m \in net' : m.kind \in {"openResp", "data"} => m \in net
  BY Zenon DEF Plain, StreamKind
<1>7. /\ \A m \in net' : m.to = "client" /\ m.kind = "openResp" => Opened'
      /\ \A m \in net' : m.to = "server" /\ m.kind = "data" => Opened'
  BY <1>2, <1>6, Zenon DEF HandshakeInv
<1>8. state'["client"] = "Established" => Opened'
  BY <1>2, ClientFollows, Zenon
<1> QED
  BY <1>4, <1>5, <1>7, <1>8, Zenon DEF HandshakeInv

\* A pass of the output loop preserves HandshakeInv: a client that is still
\* opening transmits no data (isClientPacketSessionOpening).
LEMMA OutputHandshake ==
    ASSUME FiniteSetFacts, TypeInv, HandshakeInv, NEW e \in Side, OutputPacket(e)
    PROVE  Advances /\ HandshakeInv'
<1>1. "client" \in Side /\ "server" \in Side /\ Peer("server") = "client" /\ Peer("client") = "server"
  BY Zenon DEF Side, Peer
<1>2. OutputEffect(e) /\ state[e] \in Live
  BY OutputFacts, Zenon DEF OutputPacket
<1>3. e = "client" /\ ~IsClientOpening(e) => Opened
  <2>1. Live = {"Attached", "Established"}
    BY Zenon DEF Live
  <2> QED
    BY <1>2, <2>1, Zenon DEF IsClientOpening, HandshakeInv
<1>4. \A x \in Side : state'[x] = state[x] \/ state'[x] = "Closed"
  BY <1>2, Zenon DEF OutputEffect, Aborts, Moves, TypeInv, TypeOK
<1>5. Advances /\ (Opened => Opened')
  BY <1>4, StaysOpened, Zenon DEF Advances
<1>6. \A m \in net' : m \in net \/ Written(e, m)
  BY <1>2, Zenon DEF OutputEffect
<1>7. ASSUME NEW m \in net', m.to = "client", m.kind = "openResp" PROVE Opened'
  <2>1. CASE m \in net
    BY <2>1, <1>5, <1>7, Zenon DEF HandshakeInv
  <2>2. CASE Written(e, m)
    <3>1. e = "server"
      BY <2>2, <1>1, <1>7, Zenon DEF Written, Side
    <3>2. PICK t \in sendBuf[e] \cup sendQueue[e] : m.kind = t.kind
      BY <2>2, <1>7, ZenonT(60) DEF Written, StreamKind
    <3> QED
      BY <3>1, <3>2, <1>5, <1>7, Zenon DEF HandshakeInv
  <2> QED
    BY <2>1, <2>2, <1>6, Zenon
<1>8. ASSUME NEW m \in net', m.to = "server", m.kind = "data" PROVE Opened'
  <2>1. CASE m \in net
    BY <2>1, <1>5, <1>8, Zenon DEF HandshakeInv
  <2>2. CASE Written(e, m)
    <3>1. e = "client"
      BY <2>2, <1>1, <1>8, Zenon DEF Written, Side
    <3>2. PICK t \in sendBuf[e] \cup sendQueue[e] :
             m.kind = t.kind /\ (t \notin sendBuf[e] => ~(IsClientOpening(e) /\ t.kind = "data"))
      BY <2>2, <1>8, Zenon DEF Written, StreamKind
    <3> QED
      BY <3>1, <3>2, <1>3, <1>5, <1>8, Zenon DEF HandshakeInv
  <2> QED
    BY <2>1, <2>2, <1>6, Zenon
<1>9. /\ \A s \in sendQueue'["server"] \cup sendBuf'["server"] : s.kind = "openResp" => Opened'
      /\ \A s \in sendBuf'["client"] : s.kind = "data" => Opened'
  <2>1. CASE Aborts(e)
    BY <2>1, <1>1, <1>5, ZenonT(30) DEF Aborts, HandshakeInv, TypeInv, TypeOK
  <2>2. ASSUME NEW fresh \in SUBSET sendQueue[e], NEW buf \in SUBSET Segment, Moves(e, fresh, buf)
        PROVE  /\ \A s \in sendQueue'["server"] \cup sendBuf'["server"] : s.kind = "openResp" => Opened'
               /\ \A s \in sendBuf'["client"] : s.kind = "data" => Opened'
    <3>1. /\ \A x \in Side : x # e => sendQueue'[x] = sendQueue[x] /\ sendBuf'[x] = sendBuf[x]
          /\ sendQueue'[e] \subseteq sendQueue[e] /\ sendBuf'[e] = buf
      BY <2>2, Zenon DEF Moves, TypeInv, TypeOK
    <3>2. \A s \in buf : \E t \in sendBuf[e] \cup fresh : s.kind = t.kind
      BY <2>2, Zenon DEF Moves, SameSegment
    <3>3. IsClientOpening(e) => \A t \in fresh : t.kind # "data"
      BY <2>2, Zenon DEF Moves
    <3>4. CASE e = "server"
      <4>1. /\ sendQueue'["server"] \subseteq sendQueue["server"] /\ sendBuf'["client"] = sendBuf["client"]
            /\ sendBuf'["server"] = buf
            /\ \A s \in buf : \E t \in sendBuf["server"] \cup sendQueue["server"] : s.kind = t.kind
        BY <3>1, <3>2, <3>4, <1>1
      <4> QED
        BY <4>1, <1>5, Zenon DEF HandshakeInv
    <3>5. CASE e = "client"
      <4>1. /\ sendQueue'["server"] = sendQueue["server"] /\ sendBuf'["server"] = sendBuf["server"]
            /\ sendBuf'["client"] = buf
            /\ \A s \in buf : \E t \in sendBuf["client"] \cup fresh : s.kind = t.kind
        BY <3>1, <3>2, <3>5, <1>1, SMTT(30)
      <4>2. \A t \in sendBuf["client"] \cup fresh : t.kind = "data" => Opened
        BY <3>3, <3>5, <1>3, Zenon DEF HandshakeInv
      <4>3. \A s \in sendBuf'["client"] : s.kind = "data" => Opened
        BY <4>1, <4>2, Zenon
      <4> QED
        BY <4>1, <4>3, <1>5, ZenonT(60) DEF HandshakeInv
    <3> QED
      BY <3>4, <3>5, Zenon DEF Side
  <2> QED
    BY <2>1, <2>2, <1>2, Zenon DEF OutputEffect
<1>10. state'["client"] = "Established" => Opened'
  BY <1>5, ClientFollows, Zenon
<1> QED
  BY <1>5, <1>7, <1>8, <1>9, <1>10, Zenon DEF HandshakeInv

\* Inserting keeps one segment per number.
LEMMA InsertUnique ==
    ASSUME NEW t, NEW s, Unique(t)
    PROVE  Unique(Insert(t, s))
BY Zenon DEF Unique, Insert

\* A step that changes neither the states nor sendBuf, and queues nothing or
\* one segment on one side.
LEMMA QueuePlain ==
    ASSUME TypeInv, RoomInv, NEW e \in Side, NEW seg,
           \A m \in net' : m \in net \/ m.kind \notin StreamKind,
           e = "server" => seg.kind # "openResp" \/ Opened',
           sendQueue' = sendQueue \/ sendQueue' = [sendQueue EXCEPT ![e] = Insert(sendQueue[e], seg)],
           UNCHANGED sendBuf, Advances
    PROVE  Plain
<1>1. "server" \in Side /\ \A x \in Side : Unique(sendQueue[x])
  BY Zenon DEF Side, RoomInv
<1>2. CASE sendQueue' = sendQueue
  BY <1>1, <1>2, Zenon DEF Plain
<1>3. CASE sendQueue' = [sendQueue EXCEPT ![e] = Insert(sendQueue[e], seg)]
  <2>1. sendQueue'[e] = Insert(sendQueue[e], seg) /\ \A x \in Side : x # e => sendQueue'[x] = sendQueue[x]
    BY <1>3, Zenon DEF TypeInv, TypeOK
  <2>2. \A x \in Side : Unique(sendQueue'[x])
    <3>1. Unique(sendQueue'[e])
      <4>1. Unique(Insert(sendQueue[e], seg))
        BY <1>1, InsertUnique
      <4> QED
        BY <4>1, <2>1, Zenon
    <3>2. ASSUME NEW x \in Side, x # e PROVE Unique(sendQueue'[x])
      BY <3>2, <2>1, <1>1, Zenon
    <3> QED
      BY <3>1, <3>2
  <2>3. \A s \in sendQueue'["server"] : s \in sendQueue["server"] \/ s.kind # "openResp" \/ Opened'
    BY <2>1, <1>1, Zenon DEF Insert
  <2> QED
    BY <2>2, <2>3, Zenon DEF Plain
<1> QED
  BY <1>2, <1>3, Zenon

\* A step that closes one side and forgets its trees.
LEMMA ClosedPlain ==
    ASSUME TypeInv, RoomInv, NEW e \in Side,
           \A m \in net' : m \in net \/ m.kind \notin StreamKind,
           sendQueue' = [sendQueue EXCEPT ![e] = {}],
           sendBuf' = [sendBuf EXCEPT ![e] = {}],
           state' = [state EXCEPT ![e] = "Closed"]
    PROVE  Plain
<1>1. /\ state'[e] = "Closed" /\ sendQueue'[e] = {} /\ sendBuf'[e] = {}
      /\ \A x \in Side : x # e => /\ state'[x] = state[x] /\ sendQueue'[x] = sendQueue[x]
                                  /\ sendBuf'[x] = sendBuf[x]
  BY Zenon DEF TypeInv, TypeOK
<1>2. "server" \in Side /\ \A x \in Side : Unique(sendQueue[x])
  BY Zenon DEF Side, RoomInv
<1>3. \A x \in Side : Unique(sendQueue'[x])
  BY <1>1, <1>2, Zenon DEF Unique
<1>4. Advances
  BY <1>1, Zenon DEF Advances
<1>5. \A s \in sendQueue'["server"] : s \in sendQueue["server"]
  BY <1>1, <1>2, Zenon
<1>6. \A x \in Side : sendBuf'[x] = sendBuf[x] \/ (sendBuf'[x] = {} /\ state'[x] = "Closed")
  BY <1>1, Zenon
<1> QED
  BY <1>3, <1>4, <1>5, <1>6, ZenonT(60) DEF Plain

\* An acknowledgement that the peer's position covers.
LEMMA AckPlain ==
    ASSUME TypeInv, RoomInv, NEW e \in Side, net' \subseteq net,
           NEW n \in Nat, n <= nextRecv[Peer(e)],
           sendBuf' = [sendBuf EXCEPT ![e] = DeleteBelow(sendBuf[e], n)],
           UNCHANGED <<state, sendQueue>>
    PROVE  Plain
<1>1. sendBuf'[e] = DeleteBelow(sendBuf[e], n) /\ \A x \in Side : x # e => sendBuf'[x] = sendBuf[x]
  BY Zenon DEF TypeInv, TypeOK
<1>2. \A x \in Side : \/ sendBuf'[x] = sendBuf[x]
                      \/ \E k \in Nat : k <= nextRecv[Peer(x)] /\ sendBuf'[x] = DeleteBelow(sendBuf[x], k)
  BY <1>1, Zenon
<1>3. Advances /\ \A x \in Side : Unique(sendQueue'[x])
  BY Zenon DEF Advances, RoomInv
<1> QED
  BY <1>2, <1>3, Zenon DEF Plain

\* closeWithError writes and queues control segments only.
LEMMA StartClosePlain ==
    ASSUME TypeInv, RoomInv, NEW e \in Side, NEW who, NEW reply \in BOOLEAN,
           NEW rest \in SUBSET net, StartClose(e, who, reply, rest)
    PROVE  Plain
<1> DEFINE seq == IF reply THEN nextSend[e] + 1 ELSE nextSend[e]
           req == Seg("closeReq", seq, 0, 0)
           sent == IF reply THEN {Datagram(e, Seg("closeResp", nextSend[e], 0, 0))} ELSE {}
           direct == IF CipherReady(e) THEN {Datagram(e, req)} ELSE {}
<1>1. \A m \in sent \cup direct : m.kind \notin StreamKind
  BY DEF Datagram, Seg, StreamKind
<1>2. req.kind # "openResp"
  BY DEF Seg
<1> HIDE DEF req, sent, direct
<1>3. ASSUME NEW ms, Transmit(rest, ms), ms \subseteq sent \cup direct
      PROVE  \A m \in net' : m \in net \/ m.kind \notin StreamKind
  BY <1>1, <1>3, TransmitFacts, Zenon
<1>4. CASE UNCHANGED <<state, sendBuf, sendQueue>> /\ Transmit(rest, sent)
  <2>1. Advances
    BY <1>4, Zenon DEF Advances
  <2> QED
    BY <1>2, <1>3, <1>4, <2>1, QueuePlain, Zenon
<1>5. CASE /\ sendQueue' = [sendQueue EXCEPT ![e] = Insert(sendQueue[e], req)]
           /\ UNCHANGED <<state, sendBuf>> /\ Transmit(rest, sent)
  <2>1. Advances
    BY <1>5, Zenon DEF Advances
  <2> QED
    BY <1>2, <1>3, <1>5, <2>1, QueuePlain, ZenonT(60)
<1>6. CASE /\ sendQueue' = [sendQueue EXCEPT ![e] = {}]
           /\ sendBuf' = [sendBuf EXCEPT ![e] = {}]
           /\ state' = [state EXCEPT ![e] = "Closed"]
           /\ Transmit(rest, sent \cup direct)
  BY <1>3, <1>6, ClosedPlain, Zenon
<1> QED
  BY <1>4, <1>5, <1>6, ZenonT(60) DEF StartClose, req, seq, sent, direct

\* writeChunk gives new numbers to the fragments.
LEMMA WritePlain ==
    ASSUME TypeInv, SentInv, RoomInv, NEW e \in Side, NEW n \in 1..MaxFragments, Write(e, n)
    PROVE  Plain
<1> DEFINE frag(i) == Seg("data", nextSend[e] + i - 1, written[e] + i, ReceiveWindow(e))
           new == {frag(i) : i \in 1..n}
<1>1. n \in Nat /\ nextSend[e] \in Nat /\ "server" \in Side
  <2>1. n \in Nat
    BY BoundAssumption
  <2> QED
    BY <2>1, Zenon DEF TypeInv, TypeOK, Side
<1>2. sendQueue' = [sendQueue EXCEPT ![e] = sendQueue[e] \cup new] /\ UNCHANGED <<state, sendBuf, net>>
  BY ZenonT(60) DEF Write
<1>3. \A i \in 1..n : frag(i).kind = "data" /\ frag(i).seq = nextSend[e] + i - 1
  BY DEF Seg
<1>4. \A s \in new : \E i \in 1..n : s = frag(i)
  BY Zenon
<1> HIDE DEF new, frag
<1>5. \A s \in new : s.kind = "data" /\ s.seq \in Int /\ s.seq >= nextSend[e]
  <2>1. \A i \in 1..n : frag(i).seq \in Int /\ frag(i).seq >= nextSend[e]
    BY <1>1, <1>3, SMTT(30)
  <2> QED
    BY <2>1, <1>3, <1>4, Zenon
<1>6. \A s \in sendQueue[e] : s.seq < nextSend[e]
  <2>1. \A s \in sendQueue[e] : s.seq \in 0..(Len(log[e]) - 1)
    BY Zenon DEF SentInv, InLog
  <2>2. Len(log[e]) = nextSend[e]
    BY Zenon DEF SentInv
  <2>3. \A q \in 0..(nextSend[e] - 1) : q < nextSend[e]
    BY <1>1
  <2> QED
    BY <2>1, <2>2, <2>3, Zenon
<1>7. Unique(new)
  <2> SUFFICES ASSUME NEW i \in 1..n, NEW j \in 1..n, frag(i).seq = frag(j).seq PROVE i = j
    BY <1>4, Zenon DEF Unique
  <2>1. nextSend[e] + i - 1 = nextSend[e] + j - 1
    BY <1>3, Zenon
  <2> QED
    BY <2>1, <1>1
<1>8. Unique(sendQueue[e] \cup new)
  <2>1. \A s \in sendQueue[e] : s.seq \in Nat
    BY DEF TypeInv, TypeOK, Segment
  <2>3. \A s \in sendQueue[e], t \in new : s.seq # t.seq
    BY <2>1, <1>1, <1>5, <1>6, SMTT(30)
  <2> QED
    BY <2>3, <1>7, Zenon DEF Unique, RoomInv
<1>9. sendQueue'[e] = sendQueue[e] \cup new /\ \A x \in Side : x # e => sendQueue'[x] = sendQueue[x]
  BY <1>2, Zenon DEF TypeInv, TypeOK
<1>10. \A x \in Side : Unique(sendQueue'[x])
  BY <1>8, <1>9, Zenon DEF RoomInv
<1>11. \A s \in sendQueue'["server"] : s \in sendQueue["server"] \/ s.kind # "openResp"
  BY <1>1, <1>5, <1>9, Zenon
<1> QED
  BY <1>2, <1>10, <1>11, Zenon DEF Plain, Advances

\* Every action but the pass of the output loop is Plain.
LEMMA EachPlain ==
    ASSUME FiniteSetFacts, DeliveryInv, HandshakeInv, RoomInv, [Next]_vars
    PROVE  Plain \/ \E e \in Side : OutputPacket(e)
<1> USE DEF DeliveryInv
<1>a. "client" \in Side /\ "server" \in Side
  BY Zenon DEF Side
<1>b. ASSUME UNCHANGED <<state, sendQueue, sendBuf>>, net' \subseteq net PROVE Plain
  <2>1. Advances
    BY <1>b, Zenon DEF Advances
  <2>2. \A x \in Side : Unique(sendQueue'[x])
    BY <1>b, Zenon DEF RoomInv
  <2> QED
    BY <1>b, <2>1, <2>2, Zenon DEF Plain
<1>1. CASE OpenSession
  <2>1. PICK piggyback \in {0, 1} :
          LET payload == IF piggyback = 1 THEN written["client"] + 1 ELSE 0
              req == Seg("openReq", nextSend["client"], payload, 0)
          IN  sendQueue' = [sendQueue EXCEPT !["client"] = Insert(@, req)]
    BY <1>1, Zenon DEF OpenSession
  <2>2. PICK req : sendQueue' = [sendQueue EXCEPT !["client"] = Insert(sendQueue["client"], req)]
    BY <2>1, Zenon
  <2>3. UNCHANGED <<state, sendBuf, net>>
    BY <1>1, Zenon DEF OpenSession
  <2>4. Advances
    BY <2>3, Zenon DEF Advances
  <2> QED
    BY <2>2, <2>3, <2>4, <1>a, QueuePlain, Zenon
<1>2. ASSUME NEW e \in Side, NEW n \in 1..MaxFragments, Write(e, n) PROVE Plain
  BY <1>2, WritePlain, Zenon
<1>3. ASSUME NEW e \in Side, Read(e) PROVE Plain
  BY <1>3, <1>b, Zenon DEF Read, sendVars
<1>5. ASSUME NEW e \in Side, OutputFails(e) PROVE Plain
  <2>1. CASE closing[e] = "none"
    BY <1>5, <2>1, ClosedPlain, Zenon DEF OutputFails
  <2>2. CASE closing[e] # "none"
    BY <1>5, <2>2, <1>b, Zenon DEF OutputFails
  <2> QED
    BY <2>1, <2>2, Zenon
<1>6. ASSUME NEW e \in Side, Close(e) PROVE Plain
  BY <1>6, StartClosePlain, Zenon DEF Close
<1>7. ASSUME NEW e \in Side, CloseSucceeds(e) PROVE Plain
  BY <1>7, ClosedPlain, Zenon DEF CloseSucceeds
<1>8. ASSUME NEW e \in Side, CloseTimesOut(e) PROVE Plain
  <2> DEFINE req == Seg("closeReq", closeSeq[e], 0, 0)
  <2>1. Datagram(e, req).kind \notin StreamKind
    BY DEF Datagram, Seg, StreamKind
  <2>2. net' = net \/ Transmit(net, {Datagram(e, req)})
    BY <1>8, Zenon DEF CloseTimesOut
  <2> HIDE DEF req
  <2>3. \A m \in net' : m \in net \/ m.kind \notin StreamKind
    <3>1. net' \subseteq net \cup {Datagram(e, req)}
      BY <2>2, TransmitFacts
    <3> QED
      BY <2>1, <3>1, Zenon
  <2> QED
    BY <1>8, <2>3, ClosedPlain, ZenonT(60) DEF CloseTimesOut
<1>9. CASE InputOpenRequest
  <2>1. state["server"] = "Attached" /\ (AcceptOpen \/ RefuseOpen)
    BY <1>9, Zenon DEF InputOpenRequest
  <2>2. CASE RefuseOpen
    BY <2>2, <1>a, StartClosePlain, Zenon DEF RefuseOpen
  <2> DEFINE resp == Seg("openResp", nextSend["server"], 0, 0)
  <2> HIDE DEF resp
  <2>3. CASE /\ sendQueue' = [sendQueue EXCEPT !["server"] = Insert(sendQueue["server"], resp)]
             /\ state' = [state EXCEPT !["server"] = "Established"]
             /\ UNCHANGED <<net, sendBuf>>
    <3>1. state'["server"] = "Established" /\ \A x \in Side : x # "server" => state'[x] = state[x]
      BY <2>3, <1>a, Zenon DEF TypeInv, TypeOK
    <3>2. Advances /\ Opened'
      BY <3>1, <2>1, Zenon DEF Advances, Opened
    <3> QED
      BY <2>3, <3>2, <1>a, QueuePlain, Zenon
  <2>4. CASE UNCHANGED <<sendQueue, state, net, sendBuf>>
    BY <2>4, <1>b, Zenon
  <2> QED
    BY <2>1, <2>2, <2>3, <2>4, Zenon DEF AcceptOpen, resp
<1>10. ASSUME NEW m \in net, OnOpenSessionRequest(m) PROVE Plain
  <2>1. PICK rest \in AfterArrival(m) :
          /\ state["server"] = "Init"
          /\ state' = [state EXCEPT !["server"] = "Attached"]
          /\ net' = rest
          /\ UNCHANGED sendVars
    BY <1>10, Zenon DEF OnOpenSessionRequest
  <2>2. net' \subseteq net /\ UNCHANGED <<sendQueue, sendBuf>>
    BY <2>1, RestFacts, Zenon DEF sendVars
  <2>3. Advances
    BY <2>1, <1>a, Zenon DEF Advances, TypeInv, TypeOK
  <2>4. \A x \in Side : Unique(sendQueue'[x])
    BY <2>2, ZenonT(60) DEF RoomInv
  <2> QED
    BY <2>2, <2>3, <2>4, Zenon DEF Plain
<1>11. ASSUME NEW m \in net, InputOpenResponse(m) PROVE Plain
  <2>1. PICK rest \in AfterArrival(m) :
          /\ m.kind = "openResp" /\ m.to = "client" /\ state["client"] \in Live
          /\ state' = [state EXCEPT !["client"] = "Established"]
          /\ net' = rest
          /\ UNCHANGED sendVars
    BY <1>11, Zenon DEF InputOpenResponse, InputRuns
  <2>2. net' \subseteq net /\ UNCHANGED <<sendQueue, sendBuf>>
    BY <2>1, RestFacts, Zenon DEF sendVars
  <2>3. Opened /\ state["client"] # "Closed"
    BY <2>1, Zenon DEF HandshakeInv, Live
  <2>4. Advances
    BY <2>1, <2>3, <1>a, ZenonT(60) DEF Advances, TypeInv, TypeOK
  <2>5. \A x \in Side : Unique(sendQueue'[x])
    BY <2>2, Zenon DEF RoomInv
  <2> QED
    BY <2>2, <2>4, <2>5, Zenon DEF Plain
<1>12. ASSUME NEW m \in net, InputData(m) \/ InputAck(m) PROVE Plain
  <2>1. PICK rest \in AfterArrival(m) :
          /\ sendBuf' = [sendBuf EXCEPT ![m.to] = DeleteBelow(sendBuf[m.to], m.unAck)]
          /\ net' = rest
          /\ UNCHANGED <<state, sendQueue>>
    BY <1>12, Zenon DEF InputData, InputAck
  <2>2. m.to \in Side /\ m.unAck \in Nat /\ m.unAck <= nextRecv[Peer(m.to)] /\ net' \subseteq net
    BY <2>1, SegOfMessage, RestFacts, Zenon DEF SentInv
  <2> QED
    BY <2>1, <2>2, AckPlain, Zenon
<1>14. ASSUME NEW m \in net, InputClose(m) PROVE Plain
  <2>1. PICK rest \in AfterArrival(m) : StartClose(m.to, "input", m.kind = "closeReq", rest)
    BY <1>14, Zenon DEF InputClose
  <2>2. m.to \in Side /\ rest \in SUBSET net /\ (m.kind = "closeReq") \in BOOLEAN
    BY RestFacts, SegOfMessage, Zenon
  <2> QED
    BY <2>1, <2>2, StartClosePlain, Zenon
<1>15. ASSUME NEW m \in net, AnswerUnknownSession(m) PROVE Plain
  <2> DEFINE answer == [to |-> Peer(m.to), kind |-> "closeReq", seq |-> m.unAck,
                        data |-> 0, unAck |-> 0, wnd |-> 0]
  <2>1. PICK rest \in AfterArrival(m) : Transmit(rest, {answer})
    BY <1>15, Zenon DEF AnswerUnknownSession
  <2>2. answer.kind \notin StreamKind /\ rest \subseteq net
    BY RestFacts, Zenon DEF StreamKind
  <2> HIDE DEF answer
  <2>3. \A x \in net' : x \in net \/ x.kind \notin StreamKind
    <3>1. net' \subseteq rest \cup {answer}
      BY <2>1, TransmitFacts, SMTT(30)
    <3> QED
      BY <2>2, <3>1, Zenon
  <2>4. UNCHANGED <<state, sendQueue, sendBuf>>
    BY <1>15, Zenon DEF AnswerUnknownSession, sendVars
  <2>5. Advances /\ \A x \in Side : Unique(sendQueue'[x])
    BY <2>4, Zenon DEF Advances, RoomInv
  <2> QED
    BY <2>3, <2>4, <2>5, Zenon DEF Plain
<1>16. CASE UNCHANGED vars
  BY <1>16, <1>b, ZenonT(60) DEF vars, sendVars
<1> QED
  BY <1>1, <1>2, <1>3, <1>5, <1>6, <1>7, <1>8, <1>9, <1>10, <1>11, <1>12,
     <1>14, <1>15, <1>16, ZenonT(60) DEF Next

-----------------------------------------------------------------------------
(* Cardinalities of trees.                                                 *)

\* A function onto a set bounds its size.
LEMMA OntoFacts ==
    ASSUME NEW S, IsFiniteSet(S), NEW T, NEW f \in [S -> T], \A y \in T : \E x \in S : f[x] = y
    PROVE  IsFiniteSet(T) /\ Cardinality(T) <= Cardinality(S)
<1>1. f \in Surjection(S, T)
  BY DEF Surjection
<1> QED
  BY <1>1, FS_Surjection, SMTT(30)

\* An injective function into a finite set bounds the size of its domain.
LEMMA IntoFacts ==
    ASSUME NEW S, NEW T, IsFiniteSet(T), NEW f \in [S -> T],
           \A x, y \in S : f[x] = f[y] => x = y
    PROVE  IsFiniteSet(S) /\ Cardinality(S) <= Cardinality(T)
<1>1. f \in Injection(S, T)
  BY DEF Injection, IsInjective
<1> QED
  BY <1>1, FS_Injection

\* A tree has no more numbers than segments.
LEMMA SeqsFacts ==
    ASSUME NEW t, IsFiniteSet(t)
    PROVE  IsFiniteSet(Seqs(t)) /\ Cardinality(Seqs(t)) <= Cardinality(t)
<1> DEFINE f == [s \in t |-> s.seq]
<1>1. f \in [t -> Seqs(t)] /\ \A q \in Seqs(t) : \E s \in t : f[s] = q
  BY Zenon DEF Seqs
<1> HIDE DEF f
<1> QED
  BY <1>1, OntoFacts, Zenon

\* A tree with one segment per number has no more segments than numbers.
LEMMA UniqueFacts ==
    ASSUME NEW t, Unique(t), NEW S, IsFiniteSet(S), Seqs(t) \subseteq S
    PROVE  IsFiniteSet(t) /\ Cardinality(t) <= Cardinality(S)
<1> DEFINE f == [s \in t |-> s.seq]
<1>1. f \in [t -> S] /\ \A x, y \in t : f[x] = f[y] => x = y
  BY Zenon DEF Seqs, Unique
<1> HIDE DEF f
<1> QED
  BY <1>1, IntoFacts, Zenon

\* The sizes of a union and of a subset.
LEMMA UnionFacts ==
    ASSUME NEW S, IsFiniteSet(S), NEW T, IsFiniteSet(T)
    PROVE  /\ Cardinality(S) \in Nat /\ Cardinality(T) \in Nat /\ Cardinality(S \cup T) \in Nat
           /\ IsFiniteSet(S \cup T) /\ Cardinality(S \cup T) <= Cardinality(S) + Cardinality(T)
           /\ S \cap T = {} => Cardinality(S \cup T) = Cardinality(S) + Cardinality(T)
<1>1. /\ IsFiniteSet(S \cup T)
      /\ Cardinality(S \cup T) = Cardinality(S) + Cardinality(T) - Cardinality(S \cap T)
  BY FS_Union, Zenon
<1>2. IsFiniteSet(S \cap T)
  BY FS_Intersection, Zenon
<1>3. /\ Cardinality(S) \in Nat /\ Cardinality(T) \in Nat
      /\ Cardinality(S \cup T) \in Nat /\ Cardinality(S \cap T) \in Nat
  BY <1>1, <1>2, FS_CardinalityType, Zenon
<1>4. S \cap T = {} => Cardinality(S \cap T) = 0
  BY FS_EmptySet
<1> QED
  BY <1>1, <1>3, <1>4, SMTT(30)

\* Inserting adds at most one segment.
LEMMA InsertCard ==
    ASSUME NEW t, IsFiniteSet(t), NEW s
    PROVE  /\ IsFiniteSet(Insert(t, s)) /\ Cardinality(t) \in Nat /\ Cardinality(Insert(t, s)) \in Nat
           /\ Cardinality(Insert(t, s)) <= Cardinality(t) + 1
<1> DEFINE rest == {x \in t : x.seq # s.seq}
<1>1. IsFiniteSet(rest) /\ Cardinality(rest) <= Cardinality(t)
  <2>1. rest \in SUBSET t
    BY Zenon
  <2> HIDE DEF rest
  <2> QED
    BY <2>1, FS_Subset, Zenon
<1>2. Insert(t, s) = rest \cup {s}
  BY Zenon DEF Insert
<1> HIDE DEF rest
<1>3. IsFiniteSet({s}) /\ Cardinality({s}) = 1
  BY FS_Singleton, Zenon
<1>4. /\ Cardinality(rest) \in Nat /\ Cardinality(rest \cup {s}) \in Nat /\ IsFiniteSet(rest \cup {s})
      /\ Cardinality(rest \cup {s}) <= Cardinality(rest) + Cardinality({s})
  BY <1>1, <1>3, UnionFacts, Zenon
<1>5. Cardinality(t) \in Nat
  BY FS_CardinalityType, Zenon
<1> QED
  BY <1>1, <1>2, <1>3, <1>4, <1>5, SMTT(30)

\* When both receive trees fit in one, moving the run that starts at first
\* takes all of it, and both still fit (moveRecvBufToRecvQueue).
LEMMA RunFits ==
    ASSUME NEW buf \in SUBSET Segment, IsFiniteSet(buf),
           NEW queue \in SUBSET Segment, IsFiniteSet(queue),
           NEW first \in Nat, NEW cap \in Nat, Cardinality(buf) + Cardinality(queue) <= cap,
           NEW n \in RunLength(buf, first, Remaining(queue, cap))
    PROVE  /\ Cardinality(DeleteBelow(buf, first + n))
                + Cardinality(queue \cup {s \in buf : s.seq \in first..(first + n - 1)}) <= cap
           /\ first + n \notin Seqs(buf)
<1> DEFINE run == {s \in buf : s.seq \in first..(first + n - 1)}
           rest == DeleteBelow(buf, first + n)
<1>1. Cardinality(buf) \in Nat /\ Cardinality(queue) \in Nat
  BY FS_CardinalityType, Zenon
<1>2. /\ n \in Nat /\ n <= cap - Cardinality(queue)
      /\ first..(first + n - 1) \subseteq Seqs(buf)
      /\ n = cap - Cardinality(queue) \/ first + n \notin Seqs(buf)
  BY <1>1 DEF RunLength, Remaining
<1>3. rest \cup run \in SUBSET buf /\ rest \in SUBSET buf /\ run \in SUBSET buf
  BY Zenon DEF DeleteBelow
<1>4. rest \cap run = {}
  BY <1>2 DEF DeleteBelow, Segment
<1> HIDE DEF run, rest
<1>5. /\ IsFiniteSet(rest) /\ IsFiniteSet(run) /\ IsFiniteSet(rest \cup run)
      /\ Cardinality(rest \cup run) <= Cardinality(buf)
  BY <1>3, FS_Subset, Zenon
<1>6. /\ Cardinality(rest \cup run) = Cardinality(rest) + Cardinality(run)
      /\ Cardinality(rest) \in Nat /\ Cardinality(run) \in Nat
  BY <1>4, <1>5, UnionFacts, Zenon
<1>7. /\ Cardinality(queue \cup run) <= Cardinality(queue) + Cardinality(run)
      /\ Cardinality(queue \cup run) \in Nat
  BY <1>5, UnionFacts, Zenon
<1>8. Cardinality(rest) + Cardinality(queue \cup run) <= cap
  BY <1>1, <1>5, <1>6, <1>7, SMTT(30)
<1>9. ASSUME n = cap - Cardinality(queue), first + n \in Seqs(buf) PROVE FALSE
  <2>1. first..(first + n) \in SUBSET Seqs(buf)
    BY <1>2, <1>9
  <2>2. IsFiniteSet(Seqs(buf)) /\ Cardinality(Seqs(buf)) <= Cardinality(buf)
    BY SeqsFacts, Zenon
  <2>3. Cardinality(first..(first + n)) = n + 1
    <3>1. Cardinality(first..(first + n)) = IF first > first + n THEN 0 ELSE first + n - first + 1
      BY <1>2, FS_Interval, SMTT(30)
    <3> QED
      BY <3>1, <1>2, SMTT(30)
  <2>4. Cardinality(first..(first + n)) <= Cardinality(Seqs(buf))
    BY <2>1, <2>2, FS_Subset, ZenonT(60)
  <2>5. Cardinality(Seqs(buf)) \in Nat
    BY <2>2, FS_CardinalityType, Zenon
  <2> QED
    BY <2>2, <2>3, <2>4, <2>5, <1>1, <1>2, <1>9, SMTT(30)
<1> QED
  BY <1>2, <1>8, <1>9, SMTT(30) DEF run, rest

\* A pass moves no more segments to sendBuf than leave one place free: the
\* segments have different ranks, all below the places left.
LEMMA BatchFits ==
    ASSUME NEW e \in Side, NEW queue \in SUBSET Segment, IsFiniteSet(queue), Unique(queue),
           NEW inBuf \in Nat, NEW resent, NEW opening,
           NEW fresh \in NewBatches(e, queue, inBuf, resent, opening), fresh # {}
    PROVE  IsFiniteSet(fresh) /\ inBuf + Cardinality(fresh) < TreeCapacity
<1>1. /\ fresh \in SUBSET queue
      /\ \A s \in fresh : TreeCapacity - (inBuf + Rank(fresh, s)) > 1
  BY Zenon DEF NewBatches
<1>2. IsFiniteSet(fresh)
  BY <1>1, FS_Subset, Zenon
<1>3. \A s \in fresh : s.seq \in Nat
  BY <1>1 DEF Segment
<1> DEFINE below(s) == {t \in fresh : t.seq < s.seq}
           places == 0..(TreeCapacity - inBuf - 2)
           f == [s \in fresh |-> Rank(fresh, s)]
<1>4. \A s \in fresh : IsFiniteSet(below(s)) /\ Cardinality(below(s)) \in Nat
  <2> SUFFICES ASSUME NEW s \in fresh PROVE IsFiniteSet(below(s)) /\ Cardinality(below(s)) \in Nat
    BY Zenon
  <2>1. below(s) \in SUBSET fresh
    BY Zenon
  <2> HIDE DEF below
  <2> QED
    BY <2>1, <1>2, FS_Subset, FS_CardinalityType, Zenon
<1>5. \A s \in fresh : Rank(fresh, s) = Cardinality(below(s))
  BY Zenon DEF Rank
<1>6. ASSUME NEW s \in fresh, NEW t \in fresh, s.seq < t.seq
      PROVE  Cardinality(below(s)) < Cardinality(below(t))
  <2>1. below(s) \cup {s} \in SUBSET below(t) /\ s \notin below(s)
    BY <1>3, <1>6, SMTT(30)
  <2> HIDE DEF below
  <2>2. Cardinality(below(s) \cup {s}) = Cardinality(below(s)) + 1
    BY <1>4, <2>1, FS_AddElement, Zenon
  <2>3. Cardinality(below(s) \cup {s}) <= Cardinality(below(t))
    BY <1>4, <2>1, FS_Subset, Zenon
  <2> QED
    BY <1>4, <2>2, <2>3, SMTT(30)
<1> HIDE DEF below
<1>7. \A s \in fresh : Rank(fresh, s) \in places
  BY <1>1, <1>4, <1>5, TreeAssumption
<1>8. \A s, t \in fresh : Rank(fresh, s) = Rank(fresh, t) => s = t
  <2> SUFFICES ASSUME NEW s \in fresh, NEW t \in fresh, Rank(fresh, s) = Rank(fresh, t)
               PROVE  s = t
    BY Zenon
  <2>1. Cardinality(below(s)) = Cardinality(below(t)) /\ Cardinality(below(s)) \in Nat
    BY <1>4, <1>5, Zenon
  <2>2. ~(s.seq < t.seq) /\ ~(t.seq < s.seq)
    BY <2>1, <1>4, <1>6, SMTT(30)
  <2>3. s.seq = t.seq
    BY <2>2, <1>3
  <2> QED
    BY <2>3, <1>1, Zenon DEF Unique
<1>9. f \in [fresh -> places] /\ \A s, t \in fresh : f[s] = f[t] => s = t
  BY <1>7, <1>8, Zenon
<1>10. /\ TreeCapacity - inBuf - 2 \in Int
       /\ IsFiniteSet(places)
       /\ Cardinality(places) = IF 0 > TreeCapacity - inBuf - 2 THEN 0 ELSE TreeCapacity - inBuf - 2 - 0 + 1
  BY TreeAssumption, FS_Interval
<1> HIDE DEF f
<1>11. Cardinality(fresh) <= Cardinality(places)
  BY <1>9, <1>10, IntoFacts, Zenon
<1>12. TreeCapacity - inBuf - 2 >= 0
  <2>1. PICK s \in fresh : TRUE
    BY Zenon
  <2> QED
    BY <2>1, <1>7, <1>10
<1>13. Cardinality(fresh) \in Nat
  BY <1>2, FS_CardinalityType, Zenon
<1> QED
  BY <1>2, <1>10, <1>11, <1>12, <1>13, TreeAssumption, SMTT(30)

-----------------------------------------------------------------------------
(* The room in the trees.                                                  *)

\* What a step does to the sender e: sendBuf stays below its capacity, loses
\* only what the peer has received, and has what is written.
Holds(e) ==
    /\ Unique(sendQueue'[e])
    /\ IsFiniteSet(sendBuf'[e]) /\ Cardinality(sendBuf'[e]) < TreeCapacity
    /\ state[e] = "Closed" => state'[e] = "Closed"
    /\ state'[e] # "Closed" =>
          \A q \in Seqs(sendBuf[e]) : q \in Seqs(sendBuf'[e]) \/ q < nextRecv[Peer(e)]
    /\ \A m \in net' : m.to = Peer(e) /\ m.kind \in StreamKind =>
          \/ m \in net
          \/ /\ state[e] # "Closed"
             /\ m.seq \in Seqs(IF state'[e] = "Closed" THEN sendBuf[e] ELSE sendBuf'[e])

\* What a step does to the receiver r: the trees fit, and recvBuf gets what
\* was on its way and stays ahead of nextRecv.
Fits(r) ==
    /\ Cardinality(recvBuf'[r]) + Cardinality(recvQueue'[r]) <= TreeCapacity
    /\ \A s \in recvBuf'[r] : nextRecv'[r] < s.seq /\ s.seq \in Seqs(recvBuf[r]) \cup Arriving(r)

\* A step other than a pass of the output loop.
LEMMA PlainHolds ==
    ASSUME TypeInv, RoomInv, Plain, NEW e \in Side
    PROVE  Holds(e)
<1>1. /\ IsFiniteSet(sendBuf[e]) /\ Cardinality(sendBuf[e]) < TreeCapacity
      /\ sendBuf[e] \subseteq Segment /\ nextRecv[Peer(e)] \in Nat
  BY PeerFacts, Zenon DEF RoomInv, TypeInv, TypeOK
<1>2. sendBuf'[e] \in SUBSET sendBuf[e]
  BY Zenon DEF Plain, DeleteBelow
<1>3. IsFiniteSet(sendBuf'[e]) /\ Cardinality(sendBuf'[e]) <= Cardinality(sendBuf[e])
  BY <1>1, <1>2, FS_Subset, Zenon
<1>4. Cardinality(sendBuf'[e]) < TreeCapacity
  <2>1. Cardinality(sendBuf'[e]) \in Nat /\ Cardinality(sendBuf[e]) \in Nat
    BY <1>1, <1>3, FS_CardinalityType, Zenon
  <2> QED
    BY <2>1, <1>1, <1>3, TreeAssumption, SMTT(30)
<1>5. ASSUME state'[e] # "Closed", NEW q \in Seqs(sendBuf[e])
      PROVE  q \in Seqs(sendBuf'[e]) \/ q < nextRecv[Peer(e)]
  <2>1. PICK s \in sendBuf[e] : s.seq = q
    BY Zenon DEF Seqs
  <2>2. s.seq \in Nat
    BY <1>1 DEF Segment
  <2>3. CASE sendBuf'[e] = sendBuf[e]
    BY <2>3, Zenon
  <2>4. ASSUME NEW n \in Nat, n <= nextRecv[Peer(e)], sendBuf'[e] = DeleteBelow(sendBuf[e], n)
        PROVE  q \in Seqs(sendBuf'[e]) \/ q < nextRecv[Peer(e)]
    <3>1. CASE s.seq >= n
      BY <3>1, <2>1, <2>4, ZenonT(60) DEF DeleteBelow, Seqs
    <3>2. CASE ~(s.seq >= n)
      BY <3>2, <2>1, <2>2, <2>4, <1>1, SMTT(30)
    <3> QED
      BY <3>1, <3>2, Zenon
  <2> QED
    BY <2>3, <2>4, <1>5, Zenon DEF Plain
<1>6. state[e] = "Closed" => state'[e] = "Closed"
  BY DEF Plain, Advances
<1>7. \A m \in net' : m.kind \in StreamKind => m \in net
  BY Zenon DEF Plain
<1>8. Unique(sendQueue'[e])
  BY Zenon DEF Plain
<1> QED
  BY <1>3, <1>4, <1>5, <1>6, <1>7, <1>8, Zenon DEF Holds

\* A pass of the output loop, on the side whose pass it is.
LEMMA PassHolds ==
    ASSUME FiniteSetFacts, TypeInv, SentInv, RoomInv, NEW e \in Side, OutputPacket(e)
    PROVE  /\ IsFiniteSet(sendBuf'[e]) /\ Cardinality(sendBuf'[e]) < TreeCapacity
           /\ \A m \in net' : m.kind \in StreamKind =>
                 m \in net \/ m.seq \in Seqs(IF state'[e] = "Closed" THEN sendBuf[e] ELSE sendBuf'[e])
<1>1. PICK due \in SUBSET sendBuf[e], exhausted \in BOOLEAN, ack \in BOOLEAN :
         OutputPass(e, due, exhausted, ack)
  BY Zenon DEF OutputPacket
<1> DEFINE abort == exhausted /\ closing[e] = "none"
           opening == IsClientOpening(e) /\ ~abort
           resent == {[s EXCEPT !.tx = s.tx + 1] : s \in due}
           buf == IF abort THEN {} ELSE (sendBuf[e] \ due) \cup resent
           queue == IF abort THEN {} ELSE sendQueue[e]
           closeReq == IF abort THEN {Seg("closeReq", nextSend[e], 0, 0)} ELSE {}
           after == IF abort THEN nextSend[e] + 1 ELSE nextSend[e]
           acks == IF ack THEN {Seg("ack", Largest(0, after - 1), 0, ReceiveWindow(e))} ELSE {}
           sent(fresh) == {[s EXCEPT !.tx = 1] : s \in fresh}
           out(fresh) == IF CipherReady(e) THEN resent \cup closeReq \cup sent(fresh) \cup acks ELSE {}
<1>2. PICK fresh \in NewBatches(e, queue, Cardinality(buf), Cardinality(due), opening) :
         /\ sendBuf' = [sendBuf EXCEPT ![e] = buf \cup sent(fresh)]
         /\ Transmit(net, {Datagram(e, s) : s \in out(fresh)})
  BY <1>1, Zenon DEF OutputPass
<1>3. state' = [state EXCEPT ![e] = IF abort THEN "Closed" ELSE state[e]]
  BY <1>1, Zenon DEF OutputPass
<1>4. /\ sendBuf[e] \subseteq Segment /\ sendQueue[e] \subseteq Segment
      /\ due \subseteq Segment /\ fresh \subseteq queue /\ fresh \subseteq Segment
      /\ abort => fresh = {}
  BY Zenon DEF TypeInv, TypeOK, NewBatches
<1>5. /\ sendBuf'[e] = buf \cup sent(fresh)
      /\ abort <=> state'[e] = "Closed"
  <2>1. state[e] # "Closed"
    BY Zenon DEF OutputPacket, Live
  <2> QED
    BY <2>1, <1>2, <1>3, ZenonT(60) DEF TypeInv, TypeOK
<1>6. Seqs(resent) = Seqs(due)
  <2>1. \A t \in due : [t EXCEPT !.tx = t.tx + 1].seq = t.seq
    BY <1>4, Zenon DEF Segment
  <2> QED
    BY <2>1, ZenonT(60) DEF Seqs
<1>7. \A s \in closeReq \cup acks : s.kind \notin StreamKind
  BY DEF Seg, StreamKind
<1>8. IsFiniteSet(resent) /\ Cardinality(resent) <= Cardinality(due) /\ IsFiniteSet(due)
  <2>1. IsFiniteSet(due)
    BY FS_Subset, Zenon DEF RoomInv
  <2> DEFINE f == [s \in due |-> [s EXCEPT !.tx = s.tx + 1]]
  <2>2. f \in [due -> resent] /\ \A y \in resent : \E x \in due : f[x] = y
    BY Zenon
  <2> HIDE DEF f, resent
  <2> QED
    BY <2>1, <2>2, OntoFacts, ZenonT(60)
<1>9. IsFiniteSet(fresh) => IsFiniteSet(sent(fresh)) /\ Cardinality(sent(fresh)) <= Cardinality(fresh)
  <2> DEFINE f == [s \in fresh |-> [s EXCEPT !.tx = 1]]
  <2>1. f \in [fresh -> sent(fresh)] /\ \A y \in sent(fresh) : \E x \in fresh : f[x] = y
    BY Zenon
  <2> HIDE DEF f, sent
  <2> QED
    BY <2>1, OntoFacts, Zenon
<1>10. abort => buf \cup sent(fresh) = {}
  BY <1>4, Zenon
<1> HIDE DEF resent, closeReq, acks, sent, opening
<1>11. ASSUME NEW m \in net', m.kind \in StreamKind
       PROVE  m \in net \/ m.seq \in Seqs(IF state'[e] = "Closed" THEN sendBuf[e] ELSE sendBuf'[e])
  <2>1. SUFFICES ASSUME NEW s \in out(fresh), m = Datagram(e, s)
                 PROVE  m.seq \in Seqs(IF state'[e] = "Closed" THEN sendBuf[e] ELSE sendBuf'[e])
    <3>1. m \in net \/ \E s \in out(fresh) : m = Datagram(e, s)
      BY <1>2, TransmitFacts, SMTT(30)
    <3> QED
      BY <3>1, ZenonT(60)
  <2>2. m.kind = s.kind /\ m.seq = s.seq
    BY <2>1 DEF Datagram
  <2>3. s \in resent \cup sent(fresh)
    BY <2>1, <2>2, <1>7, <1>11, ZenonT(60)
  <2>4. CASE abort
    <3>1. s \in resent
      BY <2>3, <2>4, <1>10, ZenonT(60)
    <3>2. s.seq \in Seqs(due)
      BY <3>1, <1>6, Zenon DEF Seqs
    <3>3. s.seq \in Seqs(sendBuf[e])
      BY <3>2, Zenon DEF Seqs
    <3> QED
      BY <2>2, <2>4, <3>3, <1>5, ZenonT(60)
  <2>5. CASE ~abort
    <3>1. s \in sendBuf'[e]
      BY <2>3, <2>5, <1>5, ZenonT(60)
    <3> QED
      BY <2>2, <2>5, <3>1, <1>5, ZenonT(60) DEF Seqs
  <2> QED
    BY <2>4, <2>5, Zenon
<1>12. IsFiniteSet(sendBuf'[e]) /\ Cardinality(sendBuf'[e]) < TreeCapacity
  <2>1. CASE abort
    BY <2>1, <1>5, <1>10, FS_EmptySet, TreeAssumption, SMTT(30)
  <2>2. CASE ~abort
    <3>1. buf = (sendBuf[e] \ due) \cup resent /\ queue = sendQueue[e]
      BY <2>2, Zenon
    <3>2. IsFiniteSet(sendBuf[e]) /\ Cardinality(sendBuf[e]) < TreeCapacity /\ Unique(sendQueue[e])
      BY ZenonT(60) DEF RoomInv
    <3>3. /\ IsFiniteSet(sendBuf[e] \ due)
          /\ Cardinality(sendBuf[e] \ due) = Cardinality(sendBuf[e]) - Cardinality(due)
      <4>1. sendBuf[e] \cap due = due
        BY Zenon
      <4> QED
        BY <4>1, <3>2, FS_Difference, ZenonT(60)
    <3>4. /\ IsFiniteSet(buf) /\ Cardinality(buf) \in Nat
          /\ Cardinality(buf) <= Cardinality(sendBuf[e] \ due) + Cardinality(resent)
      BY <3>1, <3>3, <1>8, UnionFacts, Zenon
    <3>5. /\ Cardinality(sendBuf[e]) \in Nat /\ Cardinality(due) \in Nat /\ Cardinality(resent) \in Nat
      BY <3>2, <1>8, FS_CardinalityType, ZenonT(60)
    <3>6. Cardinality(buf) < TreeCapacity
      BY <3>2, <3>3, <3>4, <3>5, <1>8, TreeAssumption, SMTT(30)
    <3>7. IsFiniteSet(sendQueue[e])
      <4>1. nextSend[e] \in Nat
        BY Zenon DEF TypeInv, TypeOK
      <4>2. Seqs(sendQueue[e]) \subseteq 0..nextSend[e]
        <5>1. \A s \in sendQueue[e] : s.seq \in Nat /\ InLog(log[e], s.seq, s.data)
          BY DEF TypeInv, TypeOK, Segment, SentInv
        <5>2. Len(log[e]) = nextSend[e]
          BY ZenonT(60) DEF SentInv
        <5> QED
          BY <4>1, <5>1, <5>2, SMTT(30) DEF InLog, Seqs
      <4>3. IsFiniteSet(0..nextSend[e])
        BY <4>1, FS_Interval, SMTT(30)
      <4> QED
        BY <3>2, <4>2, <4>3, UniqueFacts, ZenonT(60)
    <3> HIDE DEF buf
    <3>8. CASE fresh = {}
      <4>1. sent(fresh) = {}
        BY <3>8, Zenon DEF sent
      <4>2. sendBuf'[e] = buf
        BY <4>1, <1>5, Zenon
      <4> QED
        BY <4>2, <3>4, <3>6, Zenon
    <3>9. CASE fresh # {}
      <4>1. IsFiniteSet(fresh) /\ Cardinality(buf) + Cardinality(fresh) < TreeCapacity
        BY <3>1, <3>2, <3>4, <3>7, <3>9, <1>4, BatchFits, ZenonT(60)
      <4>2. IsFiniteSet(sent(fresh)) /\ Cardinality(sent(fresh)) <= Cardinality(fresh)
        BY <4>1, <1>9, Zenon
      <4>3. /\ IsFiniteSet(buf \cup sent(fresh)) /\ Cardinality(buf \cup sent(fresh)) \in Nat
            /\ Cardinality(sent(fresh)) \in Nat
            /\ Cardinality(buf \cup sent(fresh)) <= Cardinality(buf) + Cardinality(sent(fresh))
        BY <4>2, <3>4, UnionFacts, Zenon
      <4>4. Cardinality(fresh) \in Nat
        BY <4>1, FS_CardinalityType, ZenonT(60)
      <4>5. Cardinality(buf \cup sent(fresh)) < TreeCapacity
        BY <4>1, <4>2, <4>3, <4>4, <3>4, TreeAssumption, SMTT(30)
      <4> QED
        BY <4>3, <4>5, <1>5, Zenon
    <3> QED
      BY <3>8, <3>9, Zenon
  <2> QED
    BY <2>1, <2>2, ZenonT(60)
<1> QED
  BY <1>11, <1>12, Zenon

\* A pass of the output loop.
LEMMA OutputHolds ==
    ASSUME FiniteSetFacts, DeliveryInv, RoomInv, NEW e \in Side, OutputPacket(e), NEW x \in Side
    PROVE  Holds(x)
<1> USE DEF DeliveryInv
<1>1. OutputEffect(e) /\ state[e] \in Live
  BY OutputFacts, Zenon DEF OutputPacket
<1>2. /\ IsFiniteSet(sendBuf[x]) /\ Cardinality(sendBuf[x]) < TreeCapacity /\ Unique(sendQueue[x])
  BY Zenon DEF RoomInv
<1>3. \A m \in net' : m \in net \/ m.to = Peer(e)
  BY <1>1, Zenon DEF OutputEffect, Written
<1>4. CASE x # e
  <2>1. /\ state'[x] = state[x] /\ sendQueue'[x] = sendQueue[x] /\ sendBuf'[x] = sendBuf[x]
    BY <1>1, <1>4, Zenon DEF OutputEffect, Aborts, Moves, TypeInv, TypeOK
  <2>2. Peer(x) # Peer(e)
    BY <1>4, PeerFacts, Zenon
  <2> QED
    BY <2>1, <2>2, <1>2, <1>3, ZenonT(60) DEF Holds
<1>5. CASE x = e
  <2>1. /\ IsFiniteSet(sendBuf'[e]) /\ Cardinality(sendBuf'[e]) < TreeCapacity
        /\ \A m \in net' : m.kind \in StreamKind =>
              m \in net \/ m.seq \in Seqs(IF state'[e] = "Closed" THEN sendBuf[e] ELSE sendBuf'[e])
    BY PassHolds, Zenon
  <2>2. state[e] # "Closed"
    BY <1>1, Zenon DEF Live
  <2>3. CASE Aborts(e)
    <3>1. state'[e] = "Closed" /\ sendQueue'[e] = {}
      BY <2>3, Zenon DEF Aborts, TypeInv, TypeOK
    <3>2. Unique(sendQueue'[e])
      BY <3>1, Zenon DEF Unique
    <3> QED
      BY <2>1, <2>2, <3>1, <3>2, <1>5, ZenonT(60) DEF Holds
  <2>4. ASSUME NEW fresh \in SUBSET sendQueue[e], NEW buf \in SUBSET Segment, Moves(e, fresh, buf)
        PROVE  Holds(e)
    <3>1. sendQueue'[e] \subseteq sendQueue[e] /\ sendBuf'[e] = buf
      BY <2>4, Zenon DEF Moves, TypeInv, TypeOK
    <3>2. Unique(sendQueue'[e])
      BY <3>1, <1>2, <1>5, Zenon DEF Unique
    <3>3. \A t \in sendBuf[e] : \E s \in buf : s.seq = t.seq
      BY <2>4, Zenon DEF Moves, SameSegment
    <3>4. \A q \in Seqs(sendBuf[e]) : q \in Seqs(sendBuf'[e])
      BY <3>1, <3>3, ZenonT(60) DEF Seqs
    <3> QED
      BY <2>1, <2>2, <3>2, <3>4, Zenon DEF Holds
  <2> QED
    BY <2>3, <2>4, <1>1, <1>5, ZenonT(60) DEF OutputEffect
<1> QED
  BY <1>4, <1>5, Zenon

\* A step that leaves the receive trees of r alone.
LEMMA IdleFits ==
    ASSUME RoomInv, NEW r \in Side,
           recvBuf'[r] = recvBuf[r], recvQueue'[r] = recvQueue[r], nextRecv'[r] = nextRecv[r]
    PROVE  Fits(r)
BY Zenon DEF RoomInv, Fits, Seqs

\* inputData: the segment is dropped when the trees are full, and else there is
\* room for it and for all of the run.
LEMMA SegmentFits ==
    ASSUME TypeInv, RoomInv, NEW e \in Side, NEW seg \in Segment, NEW wnd,
           seg.seq \in Arriving(e), ReceiveSegment(e, seg, wnd), NEW x \in Side
    PROVE  Fits(x)
<1>1. CASE ReceiveWindow(e) = 0
  BY <1>1, IdleFits, Zenon DEF ReceiveSegment, recvVars
<1>2. CASE ReceiveWindow(e) # 0
  <2> DEFINE buf == Insert(recvBuf[e], seg)
             first == nextRecv[e]
             run(n) == {s \in buf : s.seq \in first..(first + n - 1)}
  <2>1. PICK n \in RunLength(buf, first, Remaining(recvQueue[e], TreeCapacity)) :
           /\ recvBuf' = [recvBuf EXCEPT ![e] = DeleteBelow(buf, first + n)]
           /\ recvQueue' = [recvQueue EXCEPT ![e] = recvQueue[e] \cup run(n)]
           /\ nextRecv' = [nextRecv EXCEPT ![e] = first + n]
    BY <1>2, Zenon DEF ReceiveSegment
  <2>2. /\ recvBuf[e] \in SUBSET Segment /\ IsFiniteSet(recvBuf[e])
        /\ recvQueue[e] \in SUBSET Segment /\ IsFiniteSet(recvQueue[e])
        /\ first \in Nat /\ TreeCapacity \in Nat
    BY TreeAssumption, Zenon DEF TypeInv, TypeOK
  <2>3. /\ IsFiniteSet(buf) /\ Cardinality(recvBuf[e]) \in Nat /\ Cardinality(buf) \in Nat
        /\ Cardinality(buf) <= Cardinality(recvBuf[e]) + 1
    BY <2>2, InsertCard, Zenon
  <2>4. buf \in SUBSET Segment /\ \A s \in buf : s \in recvBuf[e] \/ s = seg
    BY <2>2, Zenon DEF Insert
  <2> HIDE DEF buf
  <2>5. Cardinality(recvQueue[e]) \in Nat
    BY <2>2, FS_CardinalityType, ZenonT(60)
  <2>6. Cardinality(buf) + Cardinality(recvQueue[e]) <= TreeCapacity
    <3>1. TreeCapacity - Cardinality(recvBuf[e]) - Cardinality(recvQueue[e]) > 0
      BY <1>2, <2>2, <2>3, <2>5, SMTT(30) DEF ReceiveWindow, Largest
    <3> QED
      BY <3>1, <2>2, <2>3, <2>5, SMTT(30)
  <2>7. /\ Cardinality(DeleteBelow(buf, first + n)) + Cardinality(recvQueue[e] \cup run(n)) <= TreeCapacity
        /\ first + n \notin Seqs(buf)
    BY <2>2, <2>3, <2>4, <2>6, RunFits, ZenonT(60)
  <2> HIDE DEF run
  <2>8. n \in Nat
    BY <2>2, <2>5, SMTT(30) DEF RunLength, Remaining
  <2>9. \A s \in DeleteBelow(buf, first + n) : first + n < s.seq /\ s \in buf
    <3> SUFFICES ASSUME NEW s \in buf, s.seq >= first + n PROVE first + n < s.seq
      BY Zenon DEF DeleteBelow
    <3>1. s.seq \in Nat /\ s.seq # first + n
      <4>1. s.seq \in Nat
        BY <2>4 DEF Segment
      <4>2. s.seq \in Seqs(buf)
        BY Zenon DEF Seqs
      <4> QED
        BY <4>1, <4>2, <2>7, ZenonT(60)
    <3> QED
      BY <3>1, <2>2, <2>8, SMTT(30)
  <2>10. CASE x = e
    <3>1. /\ recvBuf'[x] = DeleteBelow(buf, first + n) /\ recvQueue'[x] = recvQueue[e] \cup run(n)
          /\ nextRecv'[x] = first + n
      BY <2>1, <2>10, Zenon DEF TypeInv, TypeOK
    <3>2. \A s \in buf : s.seq \in Seqs(recvBuf[x]) \cup Arriving(x)
      BY <2>4, <2>10, Zenon DEF Seqs
    <3> QED
      BY <2>7, <2>9, <3>1, <3>2, ZenonT(60) DEF Fits
  <2>11. CASE x # e
    <3>1. recvBuf'[x] = recvBuf[x] /\ recvQueue'[x] = recvQueue[x] /\ nextRecv'[x] = nextRecv[x]
      BY <2>1, <2>11, Zenon DEF TypeInv, TypeOK
    <3> QED
      BY <3>1, IdleFits, Zenon
  <2> QED
    BY <2>10, <2>11, Zenon
<1> QED
  BY <1>1, <1>2, Zenon

\* Every action keeps the receive trees within their capacity.
LEMMA EachFits ==
    ASSUME FiniteSetFacts, TypeInv, RoomInv, [Next]_vars, NEW x \in Side
    PROVE  Fits(x)
<1>1. CASE UNCHANGED recvVars
  BY <1>1, IdleFits, Zenon DEF recvVars
<1>2. ASSUME NEW e \in Side, Read(e) PROVE Fits(x)
  <2>1. PICK s \in First(recvQueue[e]) : recvQueue' = [recvQueue EXCEPT ![e] = recvQueue[e] \ {s}]
    BY <1>2, Zenon DEF Read
  <2>2. recvBuf'[x] = recvBuf[x] /\ nextRecv'[x] = nextRecv[x] /\ recvQueue'[x] \in SUBSET recvQueue[x]
    BY <1>2, <2>1, Zenon DEF Read, TypeInv, TypeOK
  <2>3. /\ IsFiniteSet(recvBuf[x]) /\ IsFiniteSet(recvQueue[x]) /\ IsFiniteSet(recvQueue'[x])
        /\ Cardinality(recvQueue'[x]) <= Cardinality(recvQueue[x])
    BY <2>2, FS_Subset, Zenon DEF TypeInv
  <2>4. /\ Cardinality(recvBuf[x]) \in Nat /\ Cardinality(recvQueue[x]) \in Nat
        /\ Cardinality(recvQueue'[x]) \in Nat
    BY <2>3, FS_CardinalityType, Zenon
  <2>5. Cardinality(recvBuf[x]) + Cardinality(recvQueue[x]) <= TreeCapacity
    BY Zenon DEF RoomInv
  <2>6. Cardinality(recvBuf'[x]) + Cardinality(recvQueue'[x]) <= TreeCapacity
    BY <2>2, <2>3, <2>4, <2>5, TreeAssumption, SMTT(30)
  <2> QED
    BY <2>2, <2>6, Zenon DEF RoomInv, Fits, Seqs
<1>3. CASE InputOpenRequest
  <2>1. PICK seg \in recvChan : ReceiveSegment("server", seg, remoteWindow["server"])
    BY <1>3, Zenon DEF InputOpenRequest
  <2>2. "server" \in Side /\ seg \in Segment /\ seg.seq \in Arriving("server")
    BY Zenon DEF Side, TypeInv, TypeOK, Arriving, Seqs
  <2> QED
    BY <2>1, <2>2, SegmentFits, Zenon
<1>4. ASSUME NEW m \in net, m.kind \in StreamKind, NEW wnd,
             ReceiveSegment(m.to, Seg(m.kind, m.seq, m.data, m.wnd), wnd)
      PROVE  Fits(x)
  <2>1. m.to \in Side /\ Seg(m.kind, m.seq, m.data, m.wnd) \in Segment
    BY SegOfMessage, Zenon
  <2>2. Seg(m.kind, m.seq, m.data, m.wnd).seq \in Arriving(m.to)
    BY <1>4, Zenon DEF Seg, Arriving
  <2> QED
    BY <1>4, <2>1, <2>2, SegmentFits, Zenon
<1>5. ASSUME NEW m \in net, InputOpenResponse(m) PROVE Fits(x)
  <2>1. /\ m.kind = "openResp" /\ m.to = "client"
        /\ ReceiveSegment(m.to, Seg(m.kind, m.seq, m.data, m.wnd), remoteWindow["client"])
    BY <1>5, Zenon DEF InputOpenResponse
  <2> QED
    BY <2>1, <1>4, Zenon DEF StreamKind
<1>6. ASSUME NEW m \in net, InputData(m) PROVE Fits(x)
  <2>1. m.kind = "data" /\ ReceiveSegment(m.to, Seg(m.kind, m.seq, m.data, m.wnd), m.wnd)
    BY <1>6, Zenon DEF InputData
  <2> QED
    BY <2>1, <1>4, Zenon DEF StreamKind
<1>7. CASE OpenSession \/ (\E e \in Side, n \in 1..MaxFragments : Write(e, n))
  BY <1>1, <1>7, Zenon DEF OpenSession, Write
<1>8. CASE \E e \in Side : OutputPacket(e) \/ OutputFails(e) \/ Close(e) \/ CloseSucceeds(e) \/ CloseTimesOut(e)
  BY <1>1, <1>8, Zenon DEF OutputPacket, OutputFails, Close, CloseSucceeds, CloseTimesOut
<1>9. CASE \E m \in net : OnOpenSessionRequest(m) \/ InputAck(m) \/ InputClose(m) \/ AnswerUnknownSession(m)
  BY <1>1, <1>9, Zenon DEF OnOpenSessionRequest, InputAck, InputClose, AnswerUnknownSession
<1>10. CASE UNCHANGED vars
  BY <1>1, <1>10, Zenon DEF vars
<1> QED
  BY <1>2, <1>3, <1>5, <1>6, <1>7, <1>8, <1>9, <1>10, ZenonT(60) DEF Next

\* What is in transit to a receiver was so before, or has been written by a
\* sender that keeps it.
LEMMA TransitStep ==
    ASSUME TypeInv, TypeInv', RoomInv, NEW e \in Side, Holds(e), Fits(Peer(e)), ChanStep,
           nextRecv[Peer(e)] <= nextRecv'[Peer(e)], NEW q \in Transit(e)'
    PROVE  \/ q \in Transit(e)
           \/ state[e] # "Closed" /\ q \in Seqs(IF state'[e] = "Closed" THEN sendBuf[e] ELSE sendBuf'[e])
<1> DEFINE p == Peer(e)
<1>1. p \in Side /\ nextRecv[p] \in Nat /\ nextRecv'[p] \in Nat
  BY PeerFacts, Zenon DEF TypeInv, TypeOK
<1>2. nextRecv'[p] <= q /\ q \in Nat
  <2>1. \A s \in recvBuf'[p] : s.seq \in Nat
    BY <1>1, SMTT(30) DEF TypeInv, TypeOK, Segment
  <2>2. \A m \in net' : m.seq \in Nat
    BY SMTT(30) DEF TypeInv, TypeOK, Message
  <2>3. \A s \in recvChan' : s.seq \in Nat
    BY SMTT(30) DEF TypeInv, TypeOK, Segment
  <2> QED
    BY <2>1, <2>2, <2>3, ZenonT(60) DEF Transit, Arriving, Seqs
<1>3. nextRecv[p] <= q
  BY <1>1, <1>2, SMTT(30)
<1>4. SUFFICES ASSUME q \notin Seqs(recvBuf[p]) \cup Arriving(p)
               PROVE  state[e] # "Closed" /\ q \in Seqs(IF state'[e] = "Closed" THEN sendBuf[e] ELSE sendBuf'[e])
  BY <1>3, Zenon DEF Transit
<1>5. q \notin Seqs(recvBuf'[p])
  BY <1>4, Zenon DEF Fits, Seqs
<1>6. ASSUME p = "server" PROVE q \notin Seqs(recvChan')
  <2>1. ASSUME NEW s \in recvChan', s.seq = q PROVE FALSE
    <3>1. CASE s \in recvChan
      BY <3>1, <2>1, <1>4, <1>6, ZenonT(60) DEF Arriving, Seqs
    <3>2. CASE \E m \in net : m.kind = "openReq" /\ m.to = "server" /\ s.seq = m.seq
      BY <3>2, <2>1, <1>4, <1>6, ZenonT(60) DEF Arriving, StreamKind
    <3> QED
      BY <3>1, <3>2, Zenon DEF ChanStep
  <2> QED
    BY <2>1, Zenon DEF Seqs
<1>7. q \in Arriving(p)'
  BY <1>5, Zenon DEF Transit
<1>8. PICK m \in net' : m.to = p /\ m.kind \in StreamKind /\ m.seq = q
  BY <1>6, <1>7, Zenon DEF Arriving
<1>9. m \notin net
  BY <1>4, <1>8, ZenonT(60) DEF Arriving
<1> QED
  BY <1>8, <1>9, Zenon DEF Holds

\* A set that is part of a small one is small.
LEMMA SmallPart ==
    ASSUME NEW S, IsFiniteSet(S), Cardinality(S) < TreeCapacity, NEW T, T \subseteq S
    PROVE  IsFiniteSet(T) /\ Cardinality(T) < TreeCapacity
<1>1. IsFiniteSet(T) /\ Cardinality(T) <= Cardinality(S)
  BY FS_Subset, Zenon
<1>2. Cardinality(S) \in Nat /\ Cardinality(T) \in Nat
  BY <1>1, FS_CardinalityType, ZenonT(60)
<1> QED
  BY <1>1, <1>2, TreeAssumption, SMTT(30)

\* So are the numbers of a small tree.
LEMMA SmallSeqs ==
    ASSUME NEW t, IsFiniteSet(t), Cardinality(t) < TreeCapacity
    PROVE  IsFiniteSet(Seqs(t)) /\ Cardinality(Seqs(t)) < TreeCapacity
<1>1. IsFiniteSet(Seqs(t)) /\ Cardinality(Seqs(t)) <= Cardinality(t)
  BY SeqsFacts, Zenon
<1>2. Cardinality(Seqs(t)) \in Nat /\ Cardinality(t) \in Nat
  BY <1>1, FS_CardinalityType, Zenon
<1> QED
  BY <1>1, <1>2, TreeAssumption, SMTT(30)

\* RoomInv is inductive.
LEMMA RoomStep ==
    ASSUME TypeInv, TypeInv', RoomInv, ChanStep, NEW e \in Side,
           Holds(e), Fits(e), Fits(Peer(e)), nextRecv[Peer(e)] <= nextRecv'[Peer(e)]
    PROVE  /\ Unique(sendQueue'[e])
           /\ IsFiniteSet(sendBuf'[e]) /\ Cardinality(sendBuf'[e]) < TreeCapacity
           /\ state'[e] # "Closed" => Transit(e)' \subseteq Seqs(sendBuf'[e])
           /\ IsFiniteSet(Transit(e)') /\ Cardinality(Transit(e)') < TreeCapacity
           /\ Cardinality(recvBuf'[e]) + Cardinality(recvQueue'[e]) <= TreeCapacity
           /\ \A s \in recvBuf'[e] : nextRecv'[e] < s.seq
<1>1. /\ Unique(sendQueue'[e])
      /\ IsFiniteSet(sendBuf'[e]) /\ Cardinality(sendBuf'[e]) < TreeCapacity
      /\ Cardinality(recvBuf'[e]) + Cardinality(recvQueue'[e]) <= TreeCapacity
      /\ \A s \in recvBuf'[e] : nextRecv'[e] < s.seq
  BY Zenon DEF Holds, Fits
<1>2. /\ IsFiniteSet(sendBuf[e]) /\ Cardinality(sendBuf[e]) < TreeCapacity
      /\ state[e] # "Closed" => Transit(e) \subseteq Seqs(sendBuf[e])
      /\ IsFiniteSet(Transit(e)) /\ Cardinality(Transit(e)) < TreeCapacity
  BY Zenon DEF RoomInv
<1>3. \A q \in Transit(e)' :
         \/ q \in Transit(e)
         \/ state[e] # "Closed" /\ q \in Seqs(IF state'[e] = "Closed" THEN sendBuf[e] ELSE sendBuf'[e])
  BY TransitStep, Zenon
<1>4. ASSUME state'[e] # "Closed" PROVE Transit(e)' \subseteq Seqs(sendBuf'[e])
  <2>1. state[e] # "Closed"
    BY <1>4, Zenon DEF Holds
  <2>2. ASSUME NEW q \in Transit(e) PROVE q \in Seqs(sendBuf'[e])
    <3>1. q \in Seqs(sendBuf[e]) /\ nextRecv[Peer(e)] <= q
      BY <2>1, <2>2, <1>2, Zenon DEF Transit
    <3>2. q \in Nat /\ nextRecv[Peer(e)] \in Nat
      <4>1. \A s \in sendBuf[e] : s.seq \in Nat
        BY DEF TypeInv, TypeOK, Segment
      <4>2. nextRecv[Peer(e)] \in Nat
        BY PeerFacts, ZenonT(60) DEF TypeInv, TypeOK
      <4> QED
        BY <3>1, <4>1, <4>2, ZenonT(60) DEF Seqs
    <3>3. ~(q < nextRecv[Peer(e)])
      BY <3>1, <3>2, SMTT(30)
    <3> QED
      BY <3>1, <3>3, <1>4, Zenon DEF Holds
  <2> QED
    BY <2>2, <1>3, <1>4, Zenon
<1>5. IsFiniteSet(Transit(e)') /\ Cardinality(Transit(e)') < TreeCapacity
  <2>1. CASE state'[e] # "Closed"
    BY <2>1, <1>1, <1>4, SmallSeqs, SmallPart, ZenonT(60)
  <2>2. CASE state'[e] = "Closed" /\ state[e] # "Closed"
    <3>1. Transit(e)' \subseteq Seqs(sendBuf[e])
      BY <2>2, <1>2, <1>3, ZenonT(60)
    <3> QED
      BY <3>1, <1>2, SmallSeqs, SmallPart, ZenonT(60)
  <2>3. CASE state[e] = "Closed"
    <3>1. Transit(e)' \subseteq Transit(e)
      BY <2>3, <1>3, Zenon
    <3> QED
      BY <3>1, <1>2, SmallPart, ZenonT(60)
  <2> QED
    BY <2>1, <2>2, <2>3, Zenon
<1> QED
  BY <1>1, <1>4, <1>5, Zenon

\* At the start nothing is queued or in transit.
LEMMA SpaceInit ==
    ASSUME Init
    PROVE  HandshakeInv /\ RoomInv
<1>1. HandshakeInv
  BY DEF Init, HandshakeInv, Side
<1>2. ASSUME NEW e \in Side
      PROVE  /\ sendQueue[e] = {} /\ sendBuf[e] = {} /\ recvBuf[e] = {} /\ recvQueue[e] = {}
             /\ recvBuf[Peer(e)] = {} /\ net = {} /\ recvChan = {}
  BY PeerFacts, ZenonT(60) DEF Init
<1>3. ASSUME NEW e \in Side PROVE Transit(e) = {}
  BY <1>2 DEF Transit, Arriving, Seqs
<1>4. IsFiniteSet({}) /\ Cardinality({}) = 0 /\ 0 < TreeCapacity /\ 0 + 0 <= TreeCapacity
  BY FS_EmptySet, TreeAssumption, SMTT(30)
<1>5. RoomInv
  BY <1>2, <1>3, <1>4, ZenonT(60) DEF RoomInv, Unique
<1> QED
  BY <1>1, <1>5, ZenonT(60)

\* The handshake and the room are preserved by every step.
LEMMA SpaceStep ==
    ASSUME FiniteSetFacts, DeliveryInv, DeliveryInv', HandshakeInv, RoomInv, [Next]_vars
    PROVE  HandshakeInv' /\ RoomInv'
<1>1. TypeInv /\ TypeInv' /\ SentInv
  BY Zenon DEF DeliveryInv
<1>2. HandshakeInv' /\ \A x \in Side : Holds(x)
  <2>1. CASE Plain
    BY <2>1, <1>1, PlainHandshake, PlainHolds, ZenonT(60)
  <2>2. ASSUME NEW e \in Side, OutputPacket(e) PROVE HandshakeInv' /\ \A x \in Side : Holds(x)
    BY <2>2, <1>1, OutputHandshake, OutputHolds, ZenonT(60)
  <2> QED
    BY <2>1, <2>2, EachPlain, Zenon
<1>3. \A x \in Side : Fits(x)
  BY <1>1, EachFits, ZenonT(60)
<1>4. PICK e \in Side, r \in Side : SessionStep(e, r)
  BY EachStep, ZenonT(60)
<1>5. ChanStep /\ \A x \in Side : nextRecv[x] <= nextRecv'[x]
  <2>1. Receives(r) /\ ChanStep
    BY <1>4, Zenon DEF SessionStep
  <2>2. \A x \in Side : nextRecv[x] \in Nat
    BY <1>1, Zenon DEF TypeInv, TypeOK
  <2> QED
    BY <2>1, <2>2 DEF Receives, Deaf
<1>6. RoomInv'
  <2> SUFFICES ASSUME NEW x \in Side
               PROVE  /\ Unique(sendQueue'[x])
                      /\ IsFiniteSet(sendBuf'[x]) /\ Cardinality(sendBuf'[x]) < TreeCapacity
                      /\ state'[x] # "Closed" => Transit(x)' \subseteq Seqs(sendBuf'[x])
                      /\ IsFiniteSet(Transit(x)') /\ Cardinality(Transit(x)') < TreeCapacity
                      /\ Cardinality(recvBuf'[x]) + Cardinality(recvQueue'[x]) <= TreeCapacity
                      /\ \A s \in recvBuf'[x] : nextRecv'[x] < s.seq
    BY Zenon DEF RoomInv
  <2>1. Peer(x) \in Side
    BY PeerFacts, Zenon
  <2> QED
    BY <2>1, <1>1, <1>2, <1>3, <1>5, RoomStep, ZenonT(60)
<1> QED
  BY <1>2, <1>6, Zenon

\* What the invariants say of the receiver.
LEMMA RoomForMissing ==
    ASSUME DeliveryInv, RoomInv, NEW e \in Side
    PROVE  /\ nextRecv[e] \notin Seqs(recvBuf[e])
           /\ Cardinality(recvBuf[e]) + Cardinality(recvQueue[e]) <= TreeCapacity
           /\ recvQueue[e] = {} => ReceiveWindow(e) > 0
<1>1. /\ Cardinality(recvBuf[e]) + Cardinality(recvQueue[e]) <= TreeCapacity
      /\ \A s \in recvBuf[e] : nextRecv[e] < s.seq
  BY Zenon DEF RoomInv
<1>2. nextRecv[e] \in Nat /\ \A s \in recvBuf[e] : s.seq \in Nat
  BY SMTT(30) DEF DeliveryInv, TypeInv, TypeOK, Segment
<1>3. \A s \in recvBuf[e] : nextRecv[e] <= s.seq /\ nextRecv[e] # s.seq
  BY <1>1, <1>2, SMTT(30)
<1>4. nextRecv[e] \notin Seqs(recvBuf[e])
  BY <1>3, Zenon DEF Seqs
<1>5. Cardinality(recvBuf[e]) < TreeCapacity /\ Cardinality(recvBuf[e]) \in Nat
  <2>1. Peer(e) \in Side /\ Peer(Peer(e)) = e
    BY PeerFacts, Zenon
  <2>2. IsFiniteSet(Transit(Peer(e))) /\ Cardinality(Transit(Peer(e))) < TreeCapacity
    BY <2>1, Zenon DEF RoomInv
  <2>3. Seqs(recvBuf[e]) \subseteq Transit(Peer(e))
    BY <2>1, <1>3, Zenon DEF Transit, Seqs
  <2>4. Unique(recvBuf[e])
    BY Zenon DEF DeliveryInv, ReceivedInv, Received, Unique
  <2>5. IsFiniteSet(recvBuf[e]) /\ Cardinality(recvBuf[e]) <= Cardinality(Transit(Peer(e)))
    BY <2>2, <2>3, <2>4, UniqueFacts, ZenonT(60)
  <2>6. Cardinality(recvBuf[e]) \in Nat /\ Cardinality(Transit(Peer(e))) \in Nat
    BY <2>2, <2>5, FS_CardinalityType, ZenonT(60)
  <2> QED
    BY <2>2, <2>5, <2>6, TreeAssumption, SMTT(30)
<1>6. ASSUME recvQueue[e] = {} PROVE ReceiveWindow(e) > 0
  <2>1. Cardinality(recvQueue[e]) = 0
    BY <1>6, FS_EmptySet, Zenon
  <2> QED
    BY <2>1, <1>5, TreeAssumption, SMTT(30) DEF ReceiveWindow, Largest
<1> QED
  BY <1>1, <1>4, <1>6, Zenon

-----------------------------------------------------------------------------
(* The theorems, with what the library says of finite sets.                *)


\* What the lemmas assume of finite sets.
LEMMA FiniteSetsHold == FiniteSetFacts
<1>1. IsFiniteSet({})
  BY FS_EmptySet, Zenon
<1>2. \A S : IsFiniteSet(S) => Cardinality(S) \in Nat
  BY FS_CardinalityType, Zenon
<1>3. \A S, T : IsFiniteSet(S) /\ T \subseteq S => IsFiniteSet(T)
  BY FS_Subset, Zenon
<1>4. \A S, T : IsFiniteSet(S) /\ IsFiniteSet(T) => IsFiniteSet(S \cup T)
  BY FS_Union, Zenon
<1>5. \A S, x : IsFiniteSet(S) => IsFiniteSet(S \cup {x})
  BY FS_AddElement, Zenon
<1> QED
  BY <1>1, <1>2, <1>3, <1>4, <1>5, ZenonT(60) DEF FiniteSetFacts

\* Type correctness of the session for all constants (TypeOK, with the
\* finiteness of the receive trees that the window arithmetic needs).
THEOREM TypeCorrect == Spec => []TypeOK
<1>1. Init => TypeInv
  BY FiniteSetsHold, TypeInit, Zenon
<1>2. TypeInv /\ [Next]_vars => TypeInv'
  BY FiniteSetsHold, TypeStep, Zenon
<1>3. TypeInv => TypeOK
  BY Zenon DEF TypeInv
<1> QED
  BY <1>1, <1>2, <1>3, PTL DEF Spec

\* The invariant of the delivery proofs.
LEMMA DeliveryInvariant == Spec => []DeliveryInv
<1>1. Init => DeliveryInv
  BY FiniteSetsHold, DeliveryInit, Zenon
<1>2. DeliveryInv /\ [Next]_vars => DeliveryInv'
  BY FiniteSetsHold, DeliveryStep, Zenon
<1> QED
  BY <1>1, <1>2, PTL DEF Spec

\* What Read returns is a prefix of what the peer numbered, for every capacity,
\* window and number of fragments (Read, inputData, moveRecvBufToRecvQueue).
THEOREM Delivery == Spec => []InOrderDelivery
<1>1. DeliveryInv => InOrderDelivery
  BY ReadIsPrefix, Zenon DEF InOrderDelivery
<1> QED
  BY <1>1, DeliveryInvariant, PTL

\* Before it starts closing, a side keeps every segment it numbered until the
\* peer has moved it to recvQueue: a cumulative acknowledgement, however old,
\* duplicated or reordered, discards nothing else (inputData, inputAck).
THEOREM NoLoss == Spec => []NothingLost
<1>1. Init => NothingLost
  BY DEF Init, NothingLost
<1>2. DeliveryInv /\ DeliveryInv' /\ NothingLost /\ [Next]_vars => NothingLost'
  BY FiniteSetsHold, NoLossStep, Zenon DEF NothingLost, Outstanding
<1> QED
  BY <1>1, <1>2, DeliveryInvariant, PTL DEF Spec

\* The refinement: every step extends one stream, delivers the next element of
\* one, finishes one, or leaves the streams alone.
THEOREM Refinement == Spec => ImplementsStream
<1>1. Init => Stream!Init
  BY Zenon DEF Init, Stream!Init
<1>2. DeliveryInv /\ DeliveryInv' /\ [Next]_vars => [Stream!Next]_Stream!streamVars
  <2> SUFFICES ASSUME DeliveryInv, DeliveryInv', [Next]_vars
               PROVE  Stream!Next \/ (UNCHANGED <<log, delivered>> /\ ClosedSides' = ClosedSides)
    BY Zenon DEF Stream!streamVars, ClosedSides
  <2> QED
    BY FiniteSetsHold, RefinementStep, Zenon
<1> QED
  BY <1>1, <1>2, DeliveryInvariant, PTL DEF Spec, ImplementsStream, Stream!Spec

\* The invariant of the handshake and of the room in the trees.
LEMMA SpaceInvariant == Spec => [](DeliveryInv /\ HandshakeInv /\ RoomInv)
<1>1. Init => HandshakeInv /\ RoomInv
  BY SpaceInit, Zenon
<1>2. DeliveryInv /\ DeliveryInv' /\ HandshakeInv /\ RoomInv /\ [Next]_vars => HandshakeInv' /\ RoomInv'
  BY FiniteSetsHold, SpaceStep, Zenon
<1> QED
  BY <1>1, <1>2, DeliveryInvariant, PTL DEF Spec

\* The client is established only after the server has accepted the session
\* (inputData, isClientPacketSessionOpenResponse).
THEOREM Handshake == Spec => []EstablishedByBoth
<1>1. HandshakeInv => EstablishedByBoth
  BY Zenon DEF HandshakeInv, Opened, EstablishedByBoth
<1> QED
  BY <1>1, SpaceInvariant, PTL

\* No client data is on the wire before the server session exists, however
\* datagrams are reordered or repeated (shouldDeferNextPacketData).
THEOREM DataWaits == Spec => []NoEarlyData
<1>1. HandshakeInv => NoEarlyData
  <2>1. Opened => state["server"] # "Init"
    BY Zenon DEF Opened
  <2> QED
    BY <2>1, Zenon DEF HandshakeInv, NoEarlyData
<1> QED
  BY <1>1, SpaceInvariant, PTL

\* Every segment the application could read is in recvQueue: the run that
\* moveRecvBufToRecvQueue moves is never cut short by a full queue.
THEOREM NoneStranded == Spec => []NothingStranded
<1>1. DeliveryInv /\ RoomInv => NothingStranded
  BY RoomForMissing, ZenonT(60) DEF NothingStranded
<1> QED
  BY <1>1, SpaceInvariant, PTL

\* The receive trees fit in one, and out-of-order segments leave room for the
\* missing one, also after the sender has closed (inputData, receiveWindowSize,
\* and the place that runOutputOncePacket leaves in sendBuf).
THEOREM RoomToReceive == Spec => []ReceiveSpace
<1>1. DeliveryInv /\ RoomInv => ReceiveSpace
  BY RoomForMissing, Zenon DEF ReceiveSpace
<1> QED
  BY <1>1, SpaceInvariant, PTL
=============================================================================
