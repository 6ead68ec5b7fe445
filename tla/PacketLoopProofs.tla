-------------------------- MODULE PacketLoopProofs --------------------------
(***************************************************************************)
(* The loops of the packet transport, for every value of the constants.    *)
(*                                                                         *)
(* The output loop of a session: no request for an ACK is lost between the *)
(* input loop, which sets ackOnDataRecv, and the output loop, which clears *)
(* it before it reads nextRecv; requested ACKs keep their distance; and no *)
(* wake-up is lost, so that an ACK or a segment waits no longer than the   *)
(* constants allow.                                                        *)
(*                                                                         *)
(* The event loop of the underlay of a server: of the incarnations of one  *)
(* session ID, one at most has running loops.                              *)
(***************************************************************************)
EXTENDS PacketOutputLoop, PacketUnderlay, TLAPS

\* The input loop has still to ask for the ACK of the segment it handles.
WillRequest ==
    \/ in \in {"window", "queue", "request", "deadline", "flag"} /\ inKind # "ack"
    \/ in \in {"request2", "deadline2", "flag2"}

\* Whatever the input loop does: an owed ACK is requested, is being written, or
\* will be requested; and an ACK is handled without asking for one.
AckInv ==
    /\ owed # None => flag \/ out = "ackSend" \/ WillRequest
    /\ inKind = "ack" => in \in {"idle", "window", "queue"}

\* Steps that touch neither side of the request.
LEMMA Elsewhere ==
    ASSUME AckInv, UNCHANGED <<flag, inputVars, owed>>, out # "ackSend"
    PROVE  AckInv'
BY Zenon DEF AckInv, WillRequest, inputVars

\* Every step of the three goroutines and of the clock keeps the request.
LEMMA AckStep == AckInv /\ [OutputNext]_outputVars => AckInv'
<1> SUFFICES ASSUME AckInv, [OutputNext]_outputVars PROVE AckInv'
  BY Zenon
<1> USE DEF AckInv, WillRequest, inputVars
<1>1. CASE QueueSegment
  BY <1>1, Zenon DEF QueueSegment, ackVars
<1>2. CASE OutputStep
  <2>1. CASE Wake
    BY <2>1, Elsewhere, Zenon DEF Wake, ackVars
  <2>2. CASE Resend
    BY <2>2, Elsewhere, Zenon DEF Resend, ackVars
  <2>3. CASE CheckWindow
    BY <2>3, Elsewhere, Zenon DEF CheckWindow, ackVars
  <2>4. CASE SendNew
    BY <2>4, Elsewhere, Zenon DEF SendNew, ackVars
  <2>5. CASE ReadClock
    BY <2>5, Elsewhere, Zenon DEF ReadClock, ackVars
  <2>6. CASE CheckAck
    BY <2>6, Elsewhere, Zenon DEF CheckAck, ackVars
  <2>7. CASE ClearAck
    BY <2>7, Zenon DEF ClearAck
  <2>8. CASE SendAck
    BY <2>8, Zenon DEF SendAck, None
  <2>9. CASE ArmTimer
    BY <2>9, Elsewhere, Zenon DEF ArmTimer, ackVars
  <2> QED
    BY <1>2, <2>1, <2>2, <2>3, <2>4, <2>5, <2>6, <2>7, <2>8, <2>9, Zenon DEF OutputStep
<1>3. CASE InputLoopStep
  <2>1. CASE Receive
    BY <2>1, Zenon DEF Receive, ackVars
  <2>2. CASE StoreWindow
    BY <2>2, Zenon DEF StoreWindow, Goto, ackVars
  <2>3. CASE CheckQueue
    BY <2>3, Zenon DEF CheckQueue, Goto, ackVars
  <2>4. CASE TestFlag
    BY <2>4, Zenon DEF TestFlag, Goto, AfterRequest, Second, ackVars
  <2>5. CASE StoreDeadline
    BY <2>5, Zenon DEF StoreDeadline, Goto, Second
  <2>6. CASE SetFlag
    BY <2>6, Zenon DEF SetFlag, Goto, Second
  <2>7. CASE WakeOutput
    BY <2>7, Zenon DEF WakeOutput, Goto, AfterRequest, ackVars
  <2>8. CASE MoveSegments
    BY <2>8, Zenon DEF MoveSegments, Goto, ackVars
  <2>9. CASE Establish
    BY <2>9, Zenon DEF Establish, Goto, ackVars
  <2>10. CASE WakeEstablished
    BY <2>10, Zenon DEF WakeEstablished, Goto, ackVars
  <2> QED
    BY <1>3, <2>1, <2>2, <2>3, <2>4, <2>5, <2>6, <2>7, <2>8, <2>9, <2>10, Zenon DEF InputLoopStep
<1>4. CASE Tick
  BY <1>4, Zenon DEF Tick, ackVars
<1>5. CASE UNCHANGED outputVars
  BY <1>5, Zenon DEF outputVars, ackVars
<1> QED
  BY <1>1, <1>2, <1>3, <1>4, <1>5, Zenon DEF OutputNext

\* "a segment received concurrently either is covered by this ACK or requests a
\* new one" (runOutputOncePacket), for every delay, window and bound.
THEOREM AckNeverLost == OutputSpec => []AckKept
<1>1. OutputInit => AckInv
  BY Zenon DEF OutputInit, AckInv, None
<1>2. AckInv => AckKept
  BY Zenon DEF AckInv, AckKept, WillRequest
<1> QED
  BY <1>1, <1>2, AckStep, PTL DEF OutputSpec

-----------------------------------------------------------------------------
(* The range of the variables.                                             *)

TypeInv ==
    /\ now \in Nat /\ t \in Nat /\ t <= now /\ lastTX \in Nat /\ lastTX <= now
    /\ timer \in Nat /\ nextTX \in Nat
    /\ ackDeadline \in Nat /\ ackDeadline <= now + AckDelay
    /\ queue \in Nat /\ buf \in Nat /\ sent \in Nat
    /\ flag \in BOOLEAN /\ due \in BOOLEAN /\ opening \in BOOLEAN
    /\ notEmpty \in BOOLEAN /\ wakeup \in BOOLEAN
    /\ lag \in [{"input", "output"} -> 0 .. Latency]
    /\ owed \in Nat \cup {None} /\ owed <= now
    /\ lastAck \in Nat \cup {None} /\ lastAck <= now
    /\ in = "idle" => lag["input"] = 0

\* The earliest of at most three deadlines.
LEMMA Earliest ==
    ASSUME NEW a \in Int, NEW b \in Int, NEW c \in Int, NEW S \in SUBSET {a, b, c}, S # {}
    PROVE  \E d \in S : \A x \in S : d <= x
<1>1. CASE a \in S /\ (b \in S => a <= b) /\ (c \in S => a <= c)
  <2>1. \A x \in S : a <= x
    BY <1>1
  <2> QED
    BY <1>1, <2>1, Zenon
<1>2. CASE b \in S /\ (a \in S => b <= a) /\ (c \in S => b <= c)
  <2>1. \A x \in S : b <= x
    BY <1>2
  <2> QED
    BY <1>2, <2>1, Zenon
<1>3. CASE c \in S /\ (a \in S => c <= a) /\ (b \in S => c <= b)
  <2>1. \A x \in S : c <= x
    BY <1>3
  <2> QED
    BY <1>3, <2>1, Zenon
<1>4. a \in S \/ b \in S \/ c \in S
  BY Zenon
<1> QED
  BY <1>1, <1>2, <1>3, <1>4

\* The delay of nextPacketOutputDelay is positive, and reaches no further than
\* the heartbeat and the deadline of a requested ACK, or the minimal interval.
LEMMA DelayBounds ==
    ASSUME TypeInv
    PROVE  /\ NextDelay \in Nat \ {0}
           /\ ~opening => NextDelay <= MinInterval \/ NextDelay <= (lastTX + Heartbeat) - t
           /\ ~opening /\ flag => NextDelay <= MinInterval \/ NextDelay <= ackDeadline - t
<1> DEFINE deadlines == (IF buf > 0 THEN {nextTX} ELSE {})
                        \cup (IF opening THEN {} ELSE {lastTX + Heartbeat})
                        \cup (IF flag /\ ~opening THEN {ackDeadline} ELSE {})
           delays == {x - t : x \in deadlines}
           delay == CHOOSE d \in delays : \A x \in deadlines : d <= x - t
<1> USE OutputLoopAssumption DEF OutputLoopAssumption
<1>1. NextDelay = IF deadlines = {} THEN Heartbeat ELSE IF delay <= 0 THEN MinInterval ELSE delay
  BY Zenon DEF NextDelay
<1>2. nextTX - t \in Int /\ (lastTX + Heartbeat) - t \in Int /\ ackDeadline - t \in Int
  BY DEF TypeInv
<1>3. /\ deadlines \subseteq {nextTX, lastTX + Heartbeat, ackDeadline}
      /\ nextTX \in Int /\ lastTX + Heartbeat \in Int /\ ackDeadline \in Int /\ t \in Int
  <2>1. ASSUME NEW x \in deadlines
        PROVE  x = nextTX \/ x = lastTX + Heartbeat \/ x = ackDeadline
    <3>1. CASE x \in (IF buf > 0 THEN {nextTX} ELSE {})
      BY <3>1, Zenon
    <3>2. CASE x \in (IF opening THEN {} ELSE {lastTX + Heartbeat})
      BY <3>2, Zenon
    <3>3. CASE x \in (IF flag /\ ~opening THEN {ackDeadline} ELSE {})
      BY <3>3, Zenon
    <3> QED
      BY <2>1, <3>1, <3>2, <3>3, Zenon
  <2>2. nextTX \in Int /\ lastTX + Heartbeat \in Int /\ ackDeadline \in Int /\ t \in Int
    BY DEF TypeInv
  <2> HIDE DEF deadlines
  <2> QED
    BY <2>1, <2>2, Zenon
<1>4. ASSUME deadlines # {}
      PROVE  delay \in Int /\ \A x \in deadlines : delay <= x - t
  <2> HIDE DEF deadlines
  <2>1. delays # {} /\ delays \subseteq {nextTX - t, (lastTX + Heartbeat) - t, ackDeadline - t}
    BY <1>3, <1>4, Zenon
  <2>2. PICK d \in delays : \A y \in delays : d <= y
    <3> HIDE DEF delays
    <3> QED
      BY <1>2, <2>1, Earliest, Zenon
  <2>3. \A x \in deadlines : d <= x - t
    BY <2>2, Zenon
  <2>4. delay \in delays /\ \A x \in deadlines : delay <= x - t
    <3> HIDE DEF delays
    <3> QED
      BY <2>3, Zenon
  <2> QED
    BY <1>2, <2>1, <2>4, Zenon
<1>5. ~opening => lastTX + Heartbeat \in deadlines
  BY Zenon
<1>6. ~opening /\ flag => ackDeadline \in deadlines
  BY Zenon
<1> HIDE DEF deadlines, delay
<1>7. CASE deadlines = {}
  BY <1>1, <1>5, <1>6, <1>7, Zenon
<1>8. CASE deadlines # {}
  <2>6. \A x \in deadlines : delay <= x - t
    BY <1>4, <1>8, Zenon
  <2>1. /\ ~opening => delay <= (lastTX + Heartbeat) - t
        /\ ~opening /\ flag => delay <= ackDeadline - t
    BY <1>3, <1>5, <1>6, <2>6, Zenon
  <2>2. delay \in Int
    BY <1>4, <1>8, Zenon
  <2>3. NextDelay = IF delay <= 0 THEN MinInterval ELSE delay
    BY <1>1, <1>8, Zenon
  <2>4. CASE delay <= 0
    BY <2>3, <2>4
  <2>5. CASE ~(delay <= 0)
    BY <2>1, <2>2, <2>3, <2>5
  <2> QED
    BY <2>4, <2>5, Zenon
<1> QED
  BY <1>7, <1>8, Zenon
\* A client session starts when its open request has just been sent, any other
\* with nothing to do.
LEMMA TypeInit == OutputInit => TypeInv
<1> SUFFICES ASSUME OutputInit PROVE TypeInv
  BY Zenon
<1> USE OutputLoopAssumption DEF OutputLoopAssumption
<1>1. /\ opening \in BOOLEAN /\ flag \in BOOLEAN /\ due \in BOOLEAN /\ notEmpty \in BOOLEAN
      /\ wakeup \in BOOLEAN
  BY Zenon DEF OutputInit
<1>2. buf \in Nat /\ nextTX \in Nat /\ timer \in Nat
  BY Zenon DEF OutputInit
<1>3. lag \in [{"input", "output"} -> 0 .. Latency] /\ lag["input"] = 0
  BY DEF OutputInit
<1> QED
  BY <1>1, <1>2, <1>3 DEF OutputInit, TypeInv, None

\* Every step of the three goroutines and of the clock keeps the ranges.
LEMMA TypeStep ==
    ASSUME TypeInv, OutputNext
    PROVE  TypeInv'
<1> USE OutputLoopAssumption DEF OutputLoopAssumption
<1>1. CASE QueueSegment
  BY <1>1 DEF QueueSegment, TypeInv, None, ackVars, locals, inputVars
<1>2. CASE OutputStep
  <2>1. CASE Wake
    BY <2>1, Zenon DEF Wake, TypeInv, None, outVars, ackVars, locals, inputVars
  <2>2. CASE Resend
    BY <2>2 DEF Resend, TypeInv, None, outVars, ackVars, inputVars
  <2>3. CASE CheckWindow
    BY <2>3, Zenon DEF CheckWindow, TypeInv, None, outVars, ackVars, locals, inputVars
  <2>4. CASE SendNew
    <3>1. notEmpty' \in BOOLEAN
      BY <2>4, Zenon DEF SendNew, TypeInv
    <3>2. queue' \in Nat /\ buf' \in Nat /\ sent' \in Nat
      BY <2>4 DEF SendNew, TypeInv
    <3>3. nextTX' \in Nat /\ lastTX' \in Nat /\ lastTX' <= now
      BY <2>4 DEF SendNew, TypeInv
    <3> QED
      BY <2>4, <3>1, <3>2, <3>3, Zenon DEF SendNew, TypeInv, None, ackVars, inputVars
  <2>5. CASE ReadClock
    BY <2>5 DEF ReadClock, TypeInv, None, outVars, ackVars, inputVars
  <2>6. CASE CheckAck
    BY <2>6, Zenon DEF CheckAck, TypeInv, None, outVars, ackVars, inputVars
  <2>7. CASE ClearAck
    <3>1. flag' \in BOOLEAN
      BY <2>7, Zenon DEF ClearAck, TypeInv
    <3>2. lastAck' \in Nat \cup {None} /\ lastAck' <= now
      BY <2>7 DEF ClearAck, TypeInv
    <3> QED
      BY <2>7, <3>1, <3>2, Zenon DEF ClearAck, TypeInv, None, outVars, locals, inputVars
  <2>8. CASE SendAck
    BY <2>8 DEF SendAck, TypeInv, None, outVars, ackVars, locals, inputVars
  <2>9. CASE ArmTimer
    <3>1. timer' \in Nat
      BY <2>9, DelayBounds DEF ArmTimer, TypeInv
    <3>2. lag' \in [{"input", "output"} -> 0 .. Latency] /\ lag'["input"] = lag["input"]
      BY <2>9 DEF ArmTimer, TypeInv
    <3>3. /\ t' = 0 /\ due' \in BOOLEAN /\ sent' = 0
          /\ UNCHANGED <<now, outVars, ackVars, notEmpty, wakeup, nextTX, lastTX, inputVars, owed, lastAck>>
      BY <2>9, Zenon DEF ArmTimer
    <3> QED
      BY <3>1, <3>2, <3>3 DEF TypeInv, None, outVars, ackVars, inputVars
  <2> QED
    BY <1>2, <2>1, <2>2, <2>3, <2>4, <2>5, <2>6, <2>7, <2>8, <2>9, Zenon DEF OutputStep
<1>3. CASE InputLoopStep
  <2>1. CASE Receive
    <3>1. buf' \in Nat /\ in' # "idle"
      BY <2>1 DEF Receive, Acked, TypeInv
    <3>2. owed' \in Nat \cup {None} /\ owed' <= now
      BY <2>1 DEF Receive, TypeInv
    <3> QED
      BY <2>1, <3>1, <3>2, Zenon DEF Receive, TypeInv, None, ackVars, locals
  <2>2. CASE StoreWindow
    BY <2>2, Zenon DEF StoreWindow, Goto, TypeInv, None, outVars, ackVars, locals, inputVars
  <2>3. CASE CheckQueue
    BY <2>3 DEF CheckQueue, Goto, TypeInv, None, outVars, ackVars, locals, inputVars
  <2>4. CASE TestFlag
    BY <2>4 DEF TestFlag, Goto, AfterRequest, Second, TypeInv, None, outVars, ackVars,
       locals, inputVars
  <2>5. CASE StoreDeadline
    BY <2>5 DEF StoreDeadline, Goto, Second, TypeInv, None, outVars, ackVars, locals,
       inputVars
  <2>6. CASE SetFlag
    BY <2>6, Zenon DEF SetFlag, Goto, Second, TypeInv, None, outVars, ackVars, locals, inputVars
  <2>7. CASE WakeOutput
    BY <2>7 DEF WakeOutput, Goto, AfterRequest, TypeInv, None, outVars, ackVars, locals,
       inputVars
  <2>8. CASE MoveSegments
    BY <2>8 DEF MoveSegments, Goto, TypeInv, None, outVars, ackVars, locals, inputVars
  <2>9. CASE Establish
    <3>1. owed' \in Nat \cup {None} /\ owed' <= now
      BY <2>9 DEF Establish, TypeInv
    <3> QED
      BY <2>9, <3>1, Zenon DEF Establish, Goto, TypeInv, None, ackVars, locals
  <2>10. CASE WakeEstablished
    BY <2>10 DEF WakeEstablished, Goto, TypeInv, None, outVars, ackVars, locals, inputVars
  <2> QED
    BY <1>3, <2>1, <2>2, <2>3, <2>4, <2>5, <2>6, <2>7, <2>8, <2>9, <2>10, Zenon DEF InputLoopStep
<1>4. CASE Tick
  BY <1>4 DEF Tick, Runnable, TypeInv, None, outVars, ackVars, locals, inputVars
<1> QED
  BY <1>1, <1>2, <1>3, <1>4, Zenon DEF OutputNext

-----------------------------------------------------------------------------
(* The distance between requested ACKs.                                    *)

\* The deadline is stored only while no ACK is requested, so that the one that
\* the output loop goes by is at least packetAckDelay after the last ACK.
SpacingInv ==
    /\ in \in {"deadline", "deadline2", "flag", "flag2"} => ~flag
    /\ out = "ackDecide" /\ due => flag /\ ackDeadline <= t
    /\ (flag \/ in \in {"flag", "flag2"}) /\ lastAck # None => lastAck + AckDelay <= ackDeadline

\* Every step keeps the distance.
LEMMA SpacingStep ==
    ASSUME TypeInv, SpacingInv, OutputNext
    PROVE  SpacingInv'
<1> USE OutputLoopAssumption DEF OutputLoopAssumption
<1>1. CASE QueueSegment
  BY <1>1, Zenon DEF QueueSegment, TypeInv, SpacingInv, None, ackVars, inputVars, locals
<1>2. CASE OutputStep
  <2>1. CASE Wake
    BY <2>1, Zenon DEF Wake, TypeInv, SpacingInv, None, ackVars, inputVars, locals
  <2>2. CASE Resend
    BY <2>2, Zenon DEF Resend, TypeInv, SpacingInv, None, ackVars, inputVars
  <2>3. CASE CheckWindow
    BY <2>3, Zenon DEF CheckWindow, TypeInv, SpacingInv, None, ackVars, inputVars, locals
  <2>4. CASE SendNew
    BY <2>4, Zenon DEF SendNew, TypeInv, SpacingInv, None, ackVars, inputVars
  <2>5. CASE ReadClock
    BY <2>5, Zenon DEF ReadClock, TypeInv, SpacingInv, None, ackVars, inputVars
  <2>6. CASE CheckAck
    BY <2>6, Zenon DEF CheckAck, TypeInv, SpacingInv, None, ackVars, inputVars
  <2>7. CASE ClearAck
    BY <2>7, Zenon DEF ClearAck, TypeInv, SpacingInv, None, inputVars, locals
  <2>8. CASE SendAck
    BY <2>8, Zenon DEF SendAck, TypeInv, SpacingInv, None, ackVars, inputVars, locals
  <2>9. CASE ArmTimer
    BY <2>9, Zenon DEF ArmTimer, TypeInv, SpacingInv, None, ackVars, inputVars
  <2> QED
    BY <1>2, <2>1, <2>2, <2>3, <2>4, <2>5, <2>6, <2>7, <2>8, <2>9, Zenon DEF OutputStep
<1>3. CASE InputLoopStep
  <2>1. CASE Receive
    BY <2>1, Zenon DEF Receive, TypeInv, SpacingInv, None, ackVars, locals
  <2>2. CASE StoreWindow
    BY <2>2, Zenon DEF StoreWindow, Goto, TypeInv, SpacingInv, None, ackVars, locals
  <2>3. CASE CheckQueue
    BY <2>3, Zenon DEF CheckQueue, Goto, TypeInv, SpacingInv, None, ackVars, locals
  <2>4. CASE TestFlag
    BY <2>4, Zenon DEF TestFlag, Goto, AfterRequest, Second, TypeInv, SpacingInv, None, ackVars,
       locals
  <2>5. CASE StoreDeadline
    BY <2>5 DEF StoreDeadline, Goto, Second, TypeInv, SpacingInv, None, locals
  <2>6. CASE SetFlag
    BY <2>6, Zenon DEF SetFlag, Goto, Second, TypeInv, SpacingInv, None, locals
  <2>7. CASE WakeOutput
    BY <2>7, Zenon DEF WakeOutput, Goto, AfterRequest, TypeInv, SpacingInv, None, ackVars, locals
  <2>8. CASE MoveSegments
    BY <2>8, Zenon DEF MoveSegments, Goto, TypeInv, SpacingInv, None, ackVars, locals
  <2>9. CASE Establish
    BY <2>9, Zenon DEF Establish, Goto, TypeInv, SpacingInv, None, ackVars, locals
  <2>10. CASE WakeEstablished
    BY <2>10, Zenon DEF WakeEstablished, Goto, TypeInv, SpacingInv, None, ackVars, locals
  <2> QED
    BY <1>3, <2>1, <2>2, <2>3, <2>4, <2>5, <2>6, <2>7, <2>8, <2>9, <2>10, Zenon DEF InputLoopStep
<1>4. CASE Tick
  BY <1>4, Zenon DEF Tick, TypeInv, SpacingInv, None, ackVars, inputVars, locals
<1> QED
  BY <1>1, <1>2, <1>3, <1>4, Zenon DEF OutputNext

\* "Segments received within this window share a single ACK, which bounds the
\* ACK rate" (requestPacketAck): requested ACKs are at least packetAckDelay
\* apart.
THEOREM AcksAreSpaced == OutputSpec => AckSpacing
<1>1. OutputInit => TypeInv /\ SpacingInv
  <2>1. OutputInit => TypeInv
    BY TypeInit, Zenon
  <2>2. OutputInit => SpacingInv
    BY Zenon DEF OutputInit, SpacingInv
  <2> QED
    BY <2>1, <2>2, Zenon
<1>2. TypeInv /\ SpacingInv /\ [OutputNext]_outputVars => TypeInv' /\ SpacingInv'
  <2>1. ASSUME TypeInv, SpacingInv, UNCHANGED outputVars
        PROVE  TypeInv' /\ SpacingInv'
    BY <2>1, Zenon DEF TypeInv, SpacingInv, outputVars, outVars, ackVars, locals, inputVars
  <2> QED
    BY <2>1, TypeStep, SpacingStep, Zenon
<1>3. TypeInv /\ SpacingInv /\ [OutputNext]_outputVars =>
        [lastAck' # lastAck /\ lastAck # None => now - lastAck >= AckDelay]_outputVars
  <2> SUFFICES ASSUME TypeInv, SpacingInv, OutputNext, lastAck' # lastAck, lastAck # None
               PROVE  now - lastAck >= AckDelay
    BY Zenon DEF outputVars
  <2>1. ClearAck
    BY Zenon DEF OutputNext, QueueSegment, OutputStep, Wake, Resend, CheckWindow, SendNew,
       ReadClock, CheckAck, SendAck, ArmTimer, InputLoopStep, Receive, StoreWindow,
       CheckQueue, TestFlag, StoreDeadline, SetFlag, WakeOutput, MoveSegments, Establish,
       WakeEstablished, Tick
  <2>2. out = "ackDecide" /\ due
    BY <2>1, Zenon DEF ClearAck
  <2> QED
    BY <2>2, OutputLoopAssumption DEF OutputLoopAssumption, TypeInv, SpacingInv, None
<1> QED
  BY <1>1, <1>2, <1>3, PTL DEF OutputSpec, AckSpacing

-----------------------------------------------------------------------------
(* How late an ACK can be.  A pass of the output loop begins when the loop *)
(* becomes runnable.                                                       *)

PassStart == now - lag["output"]

\* A pass does not begin after the timer has fired, nor after the clock
\* readings that are made in it.
PassInv ==
    /\ out = "wait" => PassStart <= timer
    /\ out \in {"ackFlag", "ackDecide", "delay"} => PassStart <= t
    /\ out = "delay" => lastTX <= t

\* The input loop is about to ask for the ACK, or about to wake the output loop
\* for it.
Asking == (WillRequest /\ ~flag) \/ in \in {"wake", "wake2"}

\* An ACK that is not being written is owed at most since the input loop began
\* to ask for it, and its deadline follows from that.
RequestInv ==
    /\ owed # None /\ out # "ackSend" /\ Asking => now - owed <= lag["input"]
    /\ owed # None /\ out # "ackSend" /\ flag => ackDeadline <= owed + Latency + AckDelay

\* The output loop is woken, or will be before the input loop rests.
Woken ==
    \/ wakeup \/ in \in {"wake", "wake2"}
    \/ in = "wakeEstablished" /\ (owed # None => now - owed <= lag["input"])

\* The pass has found that no ACK is due, or has taken up one.
Checked == out \in {"delayNow", "delay", "ackSend"} \/ (out = "ackDecide" /\ ~due)

\* A requested ACK has its timer, or the output loop is woken; and the pass that
\* sends it begins in time.
TimerInv ==
    flag /\ ~opening /\ out = "wait" => Woken \/ timer < ackDeadline + Latency + MinInterval
CheckedInv ==
    flag /\ ~opening /\ Checked =>
        /\ Woken \/ PassStart < ackDeadline
        /\ owed # None /\ out # "ackSend" => PassStart < ackDeadline \/ PassStart <= owed + Latency
InTimeInv ==
    owed # None /\ ~opening => PassStart < owed + AckDelay + 2 * Latency + MinInterval

\* Every step keeps the beginning of a pass.
LEMMA PassStep ==
    ASSUME TypeInv, PassInv, OutputNext
    PROVE  PassInv'
<1> USE OutputLoopAssumption DEF OutputLoopAssumption
<1>1. CASE QueueSegment
  BY <1>1, Zenon DEF QueueSegment, TypeInv, PassInv, PassStart, locals
<1>2. CASE OutputStep
  <2>1. CASE Wake
    BY <2>1, Zenon DEF Wake, TypeInv, PassInv, PassStart, locals
  <2>2. CASE Resend
    BY <2>2, Zenon DEF Resend, TypeInv, PassInv, PassStart
  <2>3. CASE CheckWindow
    BY <2>3, Zenon DEF CheckWindow, TypeInv, PassInv, PassStart, locals
  <2>4. CASE SendNew
    BY <2>4, Zenon DEF SendNew, TypeInv, PassInv, PassStart
  <2>5. CASE ReadClock
    BY <2>5 DEF ReadClock, TypeInv, PassInv, PassStart
  <2>6. CASE CheckAck
    BY <2>6, Zenon DEF CheckAck, TypeInv, PassInv, PassStart
  <2>7. CASE ClearAck
    BY <2>7, Zenon DEF ClearAck, TypeInv, PassInv, PassStart, locals
  <2>8. CASE SendAck
    BY <2>8, Zenon DEF SendAck, TypeInv, PassInv, PassStart, locals
  <2>9. CASE ArmTimer
    BY <2>9, DelayBounds DEF ArmTimer, TypeInv, PassInv, PassStart
  <2> QED
    BY <1>2, <2>1, <2>2, <2>3, <2>4, <2>5, <2>6, <2>7, <2>8, <2>9, Zenon DEF OutputStep
<1>3. CASE InputLoopStep
  <2>1. CASE Receive
    BY <2>1, Zenon DEF Receive, TypeInv, PassInv, PassStart, locals
  <2>2. CASE StoreWindow
    BY <2>2, Zenon DEF StoreWindow, Goto, TypeInv, PassInv, PassStart, locals
  <2>3. CASE CheckQueue
    BY <2>3, Zenon DEF CheckQueue, Goto, TypeInv, PassInv, PassStart, locals
  <2>4. CASE TestFlag
    BY <2>4, Zenon DEF TestFlag, Goto, AfterRequest, Second, TypeInv, PassInv, PassStart, locals
  <2>5. CASE StoreDeadline
    BY <2>5, Zenon DEF StoreDeadline, Goto, Second, TypeInv, PassInv, PassStart, locals
  <2>6. CASE SetFlag
    BY <2>6, Zenon DEF SetFlag, Goto, Second, TypeInv, PassInv, PassStart, locals
  <2>7. CASE WakeOutput
    BY <2>7, Zenon DEF WakeOutput, Goto, AfterRequest, TypeInv, PassInv, PassStart, locals
  <2>8. CASE MoveSegments
    BY <2>8, Zenon DEF MoveSegments, Goto, TypeInv, PassInv, PassStart, locals
  <2>9. CASE Establish
    BY <2>9, Zenon DEF Establish, Goto, TypeInv, PassInv, PassStart, locals
  <2>10. CASE WakeEstablished
    BY <2>10, Zenon DEF WakeEstablished, Goto, TypeInv, PassInv, PassStart, locals
  <2> QED
    BY <1>3, <2>1, <2>2, <2>3, <2>4, <2>5, <2>6, <2>7, <2>8, <2>9, <2>10, Zenon DEF InputLoopStep
<1>4. CASE Tick
  BY <1>4 DEF Tick, Runnable, WakeReady, TypeInv, PassInv, PassStart, locals
<1> QED
  BY <1>1, <1>2, <1>3, <1>4, Zenon DEF OutputNext

\* Every step keeps what is known of an owed ACK.
LEMMA RequestStep ==
    ASSUME TypeInv, AckInv, SpacingInv, RequestInv, OutputNext
    PROVE  RequestInv'
<1> USE OutputLoopAssumption DEF OutputLoopAssumption
<1>1. CASE QueueSegment
  BY <1>1, Zenon DEF QueueSegment, TypeInv, AckInv, SpacingInv, RequestInv, Asking, WillRequest,
     None, ackVars, inputVars
<1>2. CASE OutputStep
  <2>1. CASE Wake
    BY <2>1, Zenon DEF Wake, TypeInv, AckInv, SpacingInv, RequestInv, Asking, WillRequest, None,
       ackVars, inputVars
  <2>2. CASE Resend
    BY <2>2, Zenon DEF Resend, TypeInv, AckInv, SpacingInv, RequestInv, Asking, WillRequest, None,
       ackVars, inputVars
  <2>3. CASE CheckWindow
    BY <2>3, Zenon DEF CheckWindow, TypeInv, AckInv, SpacingInv, RequestInv, Asking, WillRequest,
       None, ackVars, inputVars
  <2>4. CASE SendNew
    BY <2>4, Zenon DEF SendNew, TypeInv, AckInv, SpacingInv, RequestInv, Asking, WillRequest, None,
       ackVars, inputVars
  <2>5. CASE ReadClock
    BY <2>5, Zenon DEF ReadClock, TypeInv, AckInv, SpacingInv, RequestInv, Asking, WillRequest,
       None, ackVars, inputVars
  <2>6. CASE CheckAck
    BY <2>6, Zenon DEF CheckAck, TypeInv, AckInv, SpacingInv, RequestInv, Asking, WillRequest,
       None, ackVars, inputVars
  <2>7. CASE ClearAck
    BY <2>7, Zenon DEF ClearAck, TypeInv, AckInv, SpacingInv, RequestInv, Asking, WillRequest,
       None, inputVars
  <2>8. CASE SendAck
    BY <2>8, Zenon DEF SendAck, TypeInv, AckInv, SpacingInv, RequestInv, Asking, WillRequest, None,
       ackVars, inputVars
  <2>9. CASE ArmTimer
    BY <2>9, Zenon DEF ArmTimer, TypeInv, AckInv, SpacingInv, RequestInv, Asking, WillRequest,
       None, ackVars, inputVars
  <2> QED
    BY <1>2, <2>1, <2>2, <2>3, <2>4, <2>5, <2>6, <2>7, <2>8, <2>9, Zenon DEF OutputStep
<1>3. CASE InputLoopStep
  <2>1. CASE Receive
    BY <2>1 DEF Receive, TypeInv, AckInv, SpacingInv, RequestInv, Asking, WillRequest, None,
       ackVars
  <2>2. CASE StoreWindow
    BY <2>2, Zenon DEF StoreWindow, Goto, TypeInv, AckInv, SpacingInv, RequestInv, Asking,
       WillRequest, None, ackVars
  <2>3. CASE CheckQueue
    BY <2>3, Zenon DEF CheckQueue, Goto, TypeInv, AckInv, SpacingInv, RequestInv, Asking,
       WillRequest, None, ackVars
  <2>4. CASE TestFlag
    BY <2>4, Zenon DEF TestFlag, Goto, AfterRequest, Second, TypeInv, AckInv, SpacingInv,
       RequestInv, Asking, WillRequest, None, ackVars
  <2>5. CASE StoreDeadline
    BY <2>5, Zenon DEF StoreDeadline, Goto, Second, TypeInv, AckInv, SpacingInv, RequestInv,
       Asking, WillRequest, None
  <2>6. CASE SetFlag
    BY <2>6 DEF SetFlag, Goto, Second, TypeInv, AckInv, SpacingInv, RequestInv, Asking,
       WillRequest, None
  <2>7. CASE WakeOutput
    BY <2>7, Zenon DEF WakeOutput, Goto, AfterRequest, TypeInv, AckInv, SpacingInv, RequestInv,
       Asking, WillRequest, None, ackVars
  <2>8. CASE MoveSegments
    BY <2>8 DEF MoveSegments, Goto, TypeInv, AckInv, SpacingInv, RequestInv, Asking,
       WillRequest, None, ackVars
  <2>9. CASE Establish
    BY <2>9 DEF Establish, Goto, TypeInv, AckInv, SpacingInv, RequestInv, Asking,
       WillRequest, None, ackVars
  <2>10. CASE WakeEstablished
    BY <2>10, Zenon DEF WakeEstablished, Goto, TypeInv, AckInv, SpacingInv, RequestInv, Asking,
       WillRequest, None, ackVars
  <2> QED
    BY <1>3, <2>1, <2>2, <2>3, <2>4, <2>5, <2>6, <2>7, <2>8, <2>9, <2>10, Zenon DEF InputLoopStep
<1>4. CASE Tick
  <2>1. now' = now + 1 /\ now < MaxTime /\ (in # "idle" => lag'["input"] = lag["input"] + 1)
    BY <1>4, Zenon DEF Tick, Runnable, TypeInv
  <2>2. UNCHANGED <<flag, ackDeadline, in, inKind, owed, out, wakeup, opening, due, timer>>
    BY <1>4, Zenon DEF Tick, outVars, ackVars, inputVars, locals
  <2> QED
    BY <2>1, <2>2 DEF TypeInv, RequestInv, Asking, WillRequest, None
<1> QED
  BY <1>1, <1>2, <1>3, <1>4, Zenon DEF OutputNext

\* Every step keeps the timer of a requested ACK.
LEMMA TimerStep ==
    ASSUME TypeInv, SpacingInv, RequestInv, PassInv, TimerInv, CheckedInv, OutputNext
    PROVE  TimerInv'
<1> USE OutputLoopAssumption DEF OutputLoopAssumption
<1>1. CASE QueueSegment
  BY <1>1, Zenon DEF QueueSegment, TypeInv, SpacingInv, TimerInv, Woken, None, ackVars, inputVars
<1>2. CASE OutputStep
  <2>1. CASE Wake
    BY <2>1, Zenon DEF Wake, TypeInv, SpacingInv, TimerInv, Woken, None, outVars, ackVars,
       inputVars
  <2>2. CASE Resend
    BY <2>2, Zenon DEF Resend, TypeInv, SpacingInv, TimerInv, Woken, None, outVars, ackVars,
       inputVars
  <2>3. CASE CheckWindow
    BY <2>3, Zenon DEF CheckWindow, TypeInv, SpacingInv, TimerInv, Woken, None, outVars, ackVars,
       inputVars
  <2>4. CASE SendNew
    BY <2>4, Zenon DEF SendNew, TypeInv, SpacingInv, TimerInv, Woken, None, ackVars, inputVars
  <2>5. CASE ReadClock
    BY <2>5, Zenon DEF ReadClock, TypeInv, SpacingInv, TimerInv, Woken, None, outVars, ackVars,
       inputVars
  <2>6. CASE CheckAck
    BY <2>6, Zenon DEF CheckAck, TypeInv, SpacingInv, TimerInv, Woken, None, outVars, ackVars,
       inputVars
  <2>7. CASE ClearAck
    BY <2>7, Zenon DEF ClearAck, TypeInv, SpacingInv, TimerInv, Woken, None, outVars, inputVars
  <2>8. CASE SendAck
    BY <2>8, Zenon DEF SendAck, TypeInv, SpacingInv, TimerInv, Woken, None, outVars, ackVars,
       inputVars
  <2>9. CASE ArmTimer
    BY <2>9, DelayBounds DEF ArmTimer, TypeInv, CheckedInv, Checked, PassInv, PassStart,
       TimerInv, Woken, outVars, ackVars, inputVars
  <2> QED
    BY <1>2, <2>1, <2>2, <2>3, <2>4, <2>5, <2>6, <2>7, <2>8, <2>9, Zenon DEF OutputStep
<1>3. CASE InputLoopStep
  <2>1. CASE Receive
    BY <2>1, Zenon DEF Receive, TypeInv, SpacingInv, TimerInv, Woken, None, ackVars
  <2>2. CASE StoreWindow
    BY <2>2, Zenon DEF StoreWindow, Goto, TypeInv, SpacingInv, TimerInv, Woken, None, ackVars
  <2>3. CASE CheckQueue
    BY <2>3, Zenon DEF CheckQueue, Goto, TypeInv, SpacingInv, TimerInv, Woken, None, outVars,
       ackVars
  <2>4. CASE TestFlag
    BY <2>4, Zenon DEF TestFlag, Goto, AfterRequest, Second, TypeInv, SpacingInv, TimerInv, Woken,
       None, outVars, ackVars
  <2>5. CASE StoreDeadline
    BY <2>5, Zenon DEF StoreDeadline, Goto, Second, TypeInv, SpacingInv, TimerInv, Woken, None,
       outVars
  <2>6. CASE SetFlag
    BY <2>6, Zenon DEF SetFlag, Goto, Second, TypeInv, SpacingInv, TimerInv, Woken, None, outVars
  <2>7. CASE WakeOutput
    BY <2>7, Zenon DEF WakeOutput, Goto, AfterRequest, TypeInv, SpacingInv, TimerInv, Woken, None,
       outVars, ackVars
  <2>8. CASE MoveSegments
    BY <2>8, Zenon DEF MoveSegments, Goto, TypeInv, SpacingInv, TimerInv, Woken, None, ackVars
  <2>9. CASE Establish
    BY <2>9 DEF Establish, Goto, TypeInv, SpacingInv, TimerInv, Woken, None, ackVars
  <2>10. CASE WakeEstablished
    BY <2>10, Zenon DEF WakeEstablished, Goto, TypeInv, SpacingInv, TimerInv, Woken, None, outVars,
       ackVars
  <2> QED
    BY <1>3, <2>1, <2>2, <2>3, <2>4, <2>5, <2>6, <2>7, <2>8, <2>9, <2>10, Zenon DEF InputLoopStep
<1>4. CASE Tick
  <2>1. now' = now + 1 /\ now < MaxTime /\ (in # "idle" => lag'["input"] = lag["input"] + 1)
    BY <1>4, Zenon DEF Tick, Runnable, TypeInv
  <2>2. UNCHANGED <<flag, ackDeadline, in, inKind, owed, out, wakeup, opening, due, timer>>
    BY <1>4, Zenon DEF Tick, outVars, ackVars, inputVars, locals
  <2> QED
    BY <2>1, <2>2 DEF TypeInv, TimerInv, Woken, None
<1> QED
  BY <1>1, <1>2, <1>3, <1>4, Zenon DEF OutputNext

\* Every step keeps what a pass knows of an ACK that it does not send.
LEMMA CheckedStep ==
    ASSUME TypeInv, AckInv, SpacingInv, RequestInv, PassInv, CheckedInv, OutputNext
    PROVE  CheckedInv'
<1> USE OutputLoopAssumption DEF OutputLoopAssumption
<1>1. CASE QueueSegment
  BY <1>1, Zenon DEF QueueSegment, TypeInv, SpacingInv, RequestInv, Asking, WillRequest,
     CheckedInv, Checked, PassStart, Woken, None, ackVars, inputVars, locals
<1>2. CASE OutputStep
  <2>1. CASE Wake
    BY <2>1, Zenon DEF Wake, TypeInv, SpacingInv, RequestInv, Asking, WillRequest, CheckedInv,
       Checked, PassStart, Woken, None, outVars, ackVars, inputVars, locals
  <2>2. CASE Resend
    BY <2>2, Zenon DEF Resend, TypeInv, SpacingInv, RequestInv, Asking, WillRequest, CheckedInv,
       Checked, PassStart, Woken, None, outVars, ackVars, inputVars
  <2>3. CASE CheckWindow
    BY <2>3, Zenon DEF CheckWindow, TypeInv, SpacingInv, RequestInv, Asking, WillRequest,
       CheckedInv, Checked, PassStart, Woken, None, outVars, ackVars, inputVars, locals
  <2>4. CASE SendNew
    BY <2>4, Zenon DEF SendNew, TypeInv, SpacingInv, RequestInv, Asking, WillRequest, CheckedInv,
       Checked, PassStart, Woken, None, ackVars, inputVars
  <2>5. CASE ReadClock
    BY <2>5, Zenon DEF ReadClock, TypeInv, SpacingInv, RequestInv, Asking, WillRequest, CheckedInv,
       Checked, PassStart, Woken, None, outVars, ackVars, inputVars
  <2>6. CASE CheckAck
    <3>1. /\ out = "ackFlag" /\ (~due' /\ flag => ~(t >= ackDeadline))
          /\ UNCHANGED <<flag, ackDeadline, opening, owed, wakeup, in, lag, now>>
      BY <2>6, Zenon DEF CheckAck, outVars, ackVars, inputVars
    <3>2. ~due' /\ flag => PassStart < ackDeadline
      BY <3>1 DEF TypeInv, PassInv, PassStart
    <3>3. PassStart' = PassStart /\ out' = "ackDecide"
      BY <2>6, <3>1, Zenon DEF PassStart, CheckAck
    <3> QED
      BY <3>1, <3>2, <3>3, Zenon DEF CheckedInv, Checked
  <2>7. CASE ClearAck
    BY <2>7, Zenon DEF ClearAck, TypeInv, SpacingInv, RequestInv, Asking, WillRequest, CheckedInv,
       Checked, PassStart, Woken, None, outVars, inputVars, locals
  <2>8. CASE SendAck
    BY <2>8, Zenon DEF SendAck, TypeInv, SpacingInv, RequestInv, Asking, WillRequest, CheckedInv,
       Checked, PassStart, Woken, None, outVars, ackVars, inputVars, locals
  <2>9. CASE ArmTimer
    BY <2>9, Zenon DEF ArmTimer, TypeInv, SpacingInv, RequestInv, Asking, WillRequest, CheckedInv,
       Checked, PassStart, Woken, None, outVars, ackVars, inputVars
  <2> QED
    BY <1>2, <2>1, <2>2, <2>3, <2>4, <2>5, <2>6, <2>7, <2>8, <2>9, Zenon DEF OutputStep
<1>3. CASE InputLoopStep
  <2>1. CASE Receive
    BY <2>1 DEF Receive, TypeInv, SpacingInv, RequestInv, Asking, WillRequest, CheckedInv,
       Checked, PassStart, Woken, None, ackVars, locals
  <2>2. CASE StoreWindow
    BY <2>2, Zenon DEF StoreWindow, Goto, TypeInv, SpacingInv, RequestInv, Asking, WillRequest,
       CheckedInv, Checked, PassStart, Woken, None, ackVars, locals
  <2>3. CASE CheckQueue
    BY <2>3, Zenon DEF CheckQueue, Goto, TypeInv, SpacingInv, RequestInv, Asking, WillRequest,
       CheckedInv, Checked, PassStart, Woken, None, outVars, ackVars, locals
  <2>4. CASE TestFlag
    BY <2>4, Zenon DEF TestFlag, Goto, AfterRequest, Second, TypeInv, SpacingInv, RequestInv,
       Asking, WillRequest, CheckedInv, Checked, PassStart, Woken, None, outVars, ackVars,
       locals
  <2>5. CASE StoreDeadline
    BY <2>5, Zenon DEF StoreDeadline, Goto, Second, TypeInv, SpacingInv, RequestInv, Asking,
       WillRequest, CheckedInv, Checked, PassStart, Woken, None, outVars, locals
  <2>6. CASE SetFlag
    <3>1. Asking
      BY <2>6, Zenon DEF SetFlag, AckInv, SpacingInv, Asking, WillRequest
    <3>2. owed # None /\ out # "ackSend" => PassStart <= owed + Latency
      BY <3>1 DEF RequestInv, TypeInv, PassStart, None
    <3>3. in' \in {"wake", "wake2"} /\ UNCHANGED <<owed, out, lag, now>>
      BY <2>6, Zenon DEF SetFlag, Goto, Second
    <3> QED
      BY <3>2, <3>3, Zenon DEF CheckedInv, Woken, PassStart
  <2>7. CASE WakeOutput
    BY <2>7, Zenon DEF WakeOutput, Goto, AfterRequest, TypeInv, SpacingInv, RequestInv, Asking,
       WillRequest, CheckedInv, Checked, PassStart, Woken, None, outVars, ackVars, locals
  <2>8. CASE MoveSegments
    BY <2>8 DEF MoveSegments, Goto, TypeInv, SpacingInv, RequestInv, Asking, WillRequest,
       CheckedInv, Checked, PassStart, Woken, None, ackVars, locals
  <2>9. CASE Establish
    BY <2>9 DEF Establish, Goto, TypeInv, SpacingInv, RequestInv, Asking, WillRequest,
       CheckedInv, Checked, PassStart, Woken, None, ackVars, locals
  <2>10. CASE WakeEstablished
    BY <2>10, Zenon DEF WakeEstablished, Goto, TypeInv, SpacingInv, RequestInv, Asking,
       WillRequest, CheckedInv, Checked, PassStart, Woken, None, outVars, ackVars, locals
  <2> QED
    BY <1>3, <2>1, <2>2, <2>3, <2>4, <2>5, <2>6, <2>7, <2>8, <2>9, <2>10, Zenon DEF InputLoopStep
<1>4. CASE Tick
  <2>1. now' = now + 1 /\ now < MaxTime /\ (in # "idle" => lag'["input"] = lag["input"] + 1)
        /\ (out # "wait" => PassStart' = PassStart)
    BY <1>4 DEF Tick, Runnable, TypeInv, PassStart
  <2>2. UNCHANGED <<flag, ackDeadline, in, inKind, owed, out, wakeup, opening, due, timer>>
    BY <1>4, Zenon DEF Tick, outVars, ackVars, inputVars, locals
  <2> QED
    BY <2>1, <2>2 DEF TypeInv, CheckedInv, Checked, Woken, None
<1> QED
  BY <1>1, <1>2, <1>3, <1>4, Zenon DEF OutputNext

\* Every step keeps the beginning of the pass that sends an ACK in time.
LEMMA InTimeStep ==
    ASSUME TypeInv, AckInv, SpacingInv, RequestInv, PassInv, TimerInv, CheckedInv,
           InTimeInv, OutputNext
    PROVE  InTimeInv'
<1> USE OutputLoopAssumption DEF OutputLoopAssumption
<1>1. CASE QueueSegment
  BY <1>1, Zenon DEF QueueSegment, TypeInv, InTimeInv, PassStart, None
<1>2. CASE OutputStep
  <2>1. CASE Wake
    BY <2>1, Zenon DEF Wake, TypeInv, InTimeInv, PassStart, None, outVars
  <2>2. CASE Resend
    BY <2>2, Zenon DEF Resend, TypeInv, InTimeInv, PassStart, None, outVars
  <2>3. CASE CheckWindow
    BY <2>3, Zenon DEF CheckWindow, TypeInv, InTimeInv, PassStart, None, outVars
  <2>4. CASE SendNew
    BY <2>4, Zenon DEF SendNew, TypeInv, InTimeInv, PassStart, None
  <2>5. CASE ReadClock
    BY <2>5, Zenon DEF ReadClock, TypeInv, InTimeInv, PassStart, None, outVars
  <2>6. CASE CheckAck
    BY <2>6, Zenon DEF CheckAck, TypeInv, InTimeInv, PassStart, None, outVars
  <2>7. CASE ClearAck
    BY <2>7, Zenon DEF ClearAck, TypeInv, InTimeInv, PassStart, None, outVars
  <2>8. CASE SendAck
    BY <2>8, Zenon DEF SendAck, TypeInv, InTimeInv, PassStart, None, outVars
  <2>9. CASE ArmTimer
    BY <2>9 DEF ArmTimer, TypeInv, AckInv, RequestInv, Asking, WillRequest, CheckedInv,
       Checked, InTimeInv, PassStart, None, outVars
  <2> QED
    BY <1>2, <2>1, <2>2, <2>3, <2>4, <2>5, <2>6, <2>7, <2>8, <2>9, Zenon DEF OutputStep
<1>3. CASE InputLoopStep
  <2>1. CASE Receive
    BY <2>1 DEF Receive, TypeInv, InTimeInv, PassStart, None
  <2>2. CASE StoreWindow
    BY <2>2, Zenon DEF StoreWindow, Goto, TypeInv, InTimeInv, PassStart, None
  <2>3. CASE CheckQueue
    BY <2>3, Zenon DEF CheckQueue, Goto, TypeInv, InTimeInv, PassStart, None, outVars
  <2>4. CASE TestFlag
    BY <2>4, Zenon DEF TestFlag, Goto, AfterRequest, Second, TypeInv, InTimeInv, PassStart, None,
       outVars
  <2>5. CASE StoreDeadline
    BY <2>5, Zenon DEF StoreDeadline, Goto, Second, TypeInv, InTimeInv, PassStart, None, outVars
  <2>6. CASE SetFlag
    BY <2>6, Zenon DEF SetFlag, Goto, Second, TypeInv, InTimeInv, PassStart, None, outVars
  <2>7. CASE WakeOutput
    BY <2>7, Zenon DEF WakeOutput, Goto, AfterRequest, TypeInv, InTimeInv, PassStart, None, outVars
  <2>8. CASE MoveSegments
    BY <2>8 DEF MoveSegments, Goto, TypeInv, InTimeInv, PassStart, None
  <2>9. CASE Establish
    BY <2>9 DEF Establish, Goto, TypeInv, InTimeInv, PassStart, None
  <2>10. CASE WakeEstablished
    BY <2>10, Zenon DEF WakeEstablished, Goto, TypeInv, InTimeInv, PassStart, None, outVars
  <2> QED
    BY <1>3, <2>1, <2>2, <2>3, <2>4, <2>5, <2>6, <2>7, <2>8, <2>9, <2>10, Zenon DEF InputLoopStep
<1>4. CASE Tick
  BY <1>4 DEF Tick, Runnable, WakeReady, TypeInv, AckInv, RequestInv, Asking, TimerInv,
     Woken, InTimeInv, PassStart, None, outVars
<1> QED
  BY <1>1, <1>2, <1>3, <1>4, Zenon DEF OutputNext

-----------------------------------------------------------------------------
(* How late a segment can be.                                              *)

ReadyInv ==
    /\ ready \in Nat \cup {None} /\ ready <= now
    /\ ready # None <=> Sendable /\ out # "send"

\* The timer of a session that is open fires within a heartbeat.
HeartbeatInv ==
    out = "wait" /\ ~opening => wakeup \/ in = "wakeEstablished" \/ timer <= now + Heartbeat

\* A wake-up for the segment that is ready: a token, or the input loop that is
\* about to leave one.
Pending ==
    \/ notEmpty \/ wakeup
    \/ in \in {"window", "queue", "wakeEstablished"} /\ now - ready <= lag["input"]

\* The pass has compared the queue with the window.
Compared == out \in {"ackNow", "ackFlag", "ackDecide", "ackSend", "delayNow", "delay"}

\* What a reordered window may cost.
Reopening == IF Reordering THEN Heartbeat ELSE 0

\* A segment that is ready has a wake-up, or a timer if its window was moved
\* later; and the pass that looks at it begins in time.
PendingInv ==
    ready # None =>
        /\ Compared => PassStart <= ready /\ (Pending \/ Reordering)
        /\ out = "wait" => Pending \/ (Reordering /\ timer <= ready + Latency + Heartbeat)
        /\ PassStart <= ready + Latency + Reopening

\* A step keeps the history of the segment that is ready.
LEMMA ReadyStep ==
    ASSUME TypeInv, ReadyInv, TrackReady, now' \in Nat, now' >= now
    PROVE  /\ ReadyInv'
           /\ ready' # None => ready' = IF ready = None THEN now ELSE ready
<1>1. now # None /\ None \notin Nat
  BY DEF TypeInv, None
<1>2. CASE ~Sendable' \/ out' = "send"
  BY <1>1, <1>2 DEF TypeInv, ReadyInv, TrackReady, None
<1>3. CASE Sendable' /\ out' # "send"
  <2>1. ready' = IF ready = None THEN now ELSE ready
    BY <1>3, Zenon DEF TrackReady
  <2>2. ready' \in Nat /\ ready' <= now'
    BY <2>1 DEF TypeInv, ReadyInv
  <2> QED
    BY <1>1, <1>3, <2>1, <2>2, Zenon DEF ReadyInv
<1> QED
  BY <1>2, <1>3, Zenon

\* A step that touches neither the queues nor the windows, and neither begins
\* nor ends the loop that sends, leaves the history as it is.
LEMMA ReadyFrame ==
    ASSUME ReadyInv, TrackReady, UNCHANGED <<queue, buf, window, opening>>,
           out = "send" <=> out' = "send"
    PROVE  ready' = ready
BY Zenon DEF ReadyInv, TrackReady, Sendable

\* A step that does not move the pass, and gives a wake-up to a segment that
\* becomes ready.
LEMMA PendingAgain ==
    ASSUME TypeInv, PendingInv, UNCHANGED <<now, timer, PassStart>>,
           ready' # None => \/ ready' = now /\ Pending'
                            \/ ready' = ready /\ out' = out /\ (Pending => Pending')
    PROVE  PendingInv'
<1>1. Reopening \in Nat /\ Latency \in Nat /\ Reopening' = Reopening
  BY OutputLoopAssumption, Zenon DEF OutputLoopAssumption, Reopening
<1>2. PassStart \in Int /\ PassStart <= now
  BY DEF PassStart, TypeInv
<1> SUFFICES ASSUME ready' # None PROVE PendingInv'
  BY Zenon DEF PendingInv
<1>3. CASE ready' = now /\ Pending'
  <2>1. PassStart' <= ready' /\ PassStart' <= ready' + Latency + Reopening
    BY <1>1, <1>2, <1>3 DEF TypeInv
  <2> QED
    BY <1>1, <1>3, <2>1, Zenon DEF PendingInv
<1>4. CASE ready' = ready /\ out' = out /\ (Pending => Pending')
  <2>1. Compared' <=> Compared
    BY <1>4, Zenon DEF Compared
  <2> HIDE DEF Compared, Pending
  <2> QED
    BY <1>1, <1>4, <2>1, Zenon DEF PendingInv
<1> QED
  BY <1>3, <1>4, Zenon

\* Every step keeps the heartbeat.
LEMMA HeartbeatStep ==
    ASSUME TypeInv, PassInv, HeartbeatInv, OutputNext
    PROVE  HeartbeatInv'
<1> USE OutputLoopAssumption DEF OutputLoopAssumption
<1>1. CASE QueueSegment
  BY <1>1, Zenon DEF QueueSegment, TypeInv, HeartbeatInv, inputVars
<1>2. CASE OutputStep
  <2>1. CASE Wake
    BY <2>1, Zenon DEF Wake, TypeInv, HeartbeatInv, outVars, inputVars
  <2>2. CASE Resend
    BY <2>2, Zenon DEF Resend, TypeInv, HeartbeatInv, outVars, inputVars
  <2>3. CASE CheckWindow
    BY <2>3, Zenon DEF CheckWindow, TypeInv, HeartbeatInv, outVars, inputVars
  <2>4. CASE SendNew
    BY <2>4, Zenon DEF SendNew, TypeInv, HeartbeatInv, inputVars
  <2>5. CASE ReadClock
    BY <2>5, Zenon DEF ReadClock, TypeInv, HeartbeatInv, outVars, inputVars
  <2>6. CASE CheckAck
    BY <2>6, Zenon DEF CheckAck, TypeInv, HeartbeatInv, outVars, inputVars
  <2>7. CASE ClearAck
    BY <2>7, Zenon DEF ClearAck, TypeInv, HeartbeatInv, outVars, inputVars
  <2>8. CASE SendAck
    BY <2>8, Zenon DEF SendAck, TypeInv, HeartbeatInv, outVars, inputVars
  <2>9. CASE ArmTimer
    BY <2>9, DelayBounds DEF ArmTimer, TypeInv, PassInv, HeartbeatInv, outVars, inputVars
  <2> QED
    BY <1>2, <2>1, <2>2, <2>3, <2>4, <2>5, <2>6, <2>7, <2>8, <2>9, Zenon DEF OutputStep
<1>3. CASE InputLoopStep
  <2>1. CASE Receive
    BY <2>1, Zenon DEF Receive, TypeInv, HeartbeatInv
  <2>2. CASE StoreWindow
    BY <2>2, Zenon DEF StoreWindow, Goto, TypeInv, HeartbeatInv
  <2>3. CASE CheckQueue
    BY <2>3, Zenon DEF CheckQueue, Goto, TypeInv, HeartbeatInv, outVars
  <2>4. CASE TestFlag
    BY <2>4, Zenon DEF TestFlag, Goto, AfterRequest, Second, TypeInv, HeartbeatInv, outVars
  <2>5. CASE StoreDeadline
    BY <2>5, Zenon DEF StoreDeadline, Goto, Second, TypeInv, HeartbeatInv, outVars
  <2>6. CASE SetFlag
    BY <2>6, Zenon DEF SetFlag, Goto, Second, TypeInv, HeartbeatInv, outVars
  <2>7. CASE WakeOutput
    BY <2>7, Zenon DEF WakeOutput, Goto, AfterRequest, TypeInv, HeartbeatInv, outVars
  <2>8. CASE MoveSegments
    BY <2>8, Zenon DEF MoveSegments, Goto, TypeInv, HeartbeatInv
  <2>9. CASE Establish
    BY <2>9, Zenon DEF Establish, Goto, TypeInv, HeartbeatInv
  <2>10. CASE WakeEstablished
    BY <2>10, Zenon DEF WakeEstablished, Goto, TypeInv, HeartbeatInv, outVars
  <2> QED
    BY <1>3, <2>1, <2>2, <2>3, <2>4, <2>5, <2>6, <2>7, <2>8, <2>9, <2>10, Zenon DEF InputLoopStep
<1>4. CASE Tick
  BY <1>4 DEF Tick, TypeInv, HeartbeatInv, outVars, inputVars
<1> QED
  BY <1>1, <1>2, <1>3, <1>4, Zenon DEF OutputNext

\* Every step keeps the wake-up for a segment that is ready.
LEMMA PendingStep ==
    ASSUME TypeInv, PassInv, ReadyInv, HeartbeatInv, PendingInv, OutputNext
    PROVE  PendingInv'
<1> USE OutputLoopAssumption DEF OutputLoopAssumption
<1>0. TrackReady
  BY Zenon DEF OutputNext
<1>1. CASE QueueSegment
  <2>1. UNCHANGED <<now, timer, PassStart, out>>
    BY <1>1, Zenon DEF QueueSegment, PassStart, TypeInv
  <2>2. ready' # None => ready' = IF ready = None THEN now ELSE ready
    BY <1>0, <2>1, ReadyStep DEF TypeInv
  <2>3. ready' = now => Pending'
    BY <1>1, Zenon DEF QueueSegment, Pending
  <2>4. ready' = ready /\ Pending => Pending'
    BY <1>1, Zenon DEF QueueSegment, Pending
  <2> QED
    BY <2>1, <2>2, <2>3, <2>4, PendingAgain, Zenon
<1>2. CASE OutputStep
  <2>1. CASE Wake
    <3>1. ready' = ready
      BY <2>1, <1>0, ReadyFrame, Zenon DEF Wake, outVars
    <3> QED
      BY <2>1, <3>1, Zenon DEF Wake, TypeInv, PendingInv, Pending, Compared, PassStart, None,
         outVars, inputVars
  <2>2. CASE Resend
    <3>1. ready' = ready
      BY <2>2, <1>0, ReadyFrame, Zenon DEF Resend, outVars
    <3> QED
      BY <2>2, <3>1, Zenon DEF Resend, TypeInv, PendingInv, Pending, Compared, PassStart, None,
         outVars, inputVars
  <2>3. CASE CheckWindow
    <3>1. ready' = None
      BY <2>3, <1>0, Zenon DEF CheckWindow, TrackReady, Sendable, outVars
    <3> QED
      BY <3>1, Zenon DEF PendingInv
  <2>4. CASE SendNew
    <3>1. ready = None /\ UNCHANGED <<now, timer, lag>>
      BY <2>4, Zenon DEF SendNew, ReadyInv
    <3>2. ready' # None => ready' = now
      BY <1>0, <3>1, ReadyStep DEF TypeInv
    <3>3. ready' # None => Sendable' /\ out' # "send"
      BY <1>0, <3>1, ReadyStep DEF TypeInv, ReadyInv
    <3>4. ready' # None => notEmpty'
      <4>1. CASE BufCapacity - buf <= 1 \/ opening \/ queue = 0
        BY <2>4, <3>3, <4>1 DEF SendNew, Sendable, TypeInv
      <4>2. CASE ~(BufCapacity - buf <= 1 \/ opening \/ queue = 0)
        <5>1. queue > 0
          BY <4>2 DEF TypeInv
        <5>2. CASE sent < SendWindow(buf, window)
          BY <2>4, <3>3, <4>2, <5>2, Zenon DEF SendNew
        <5>3. CASE ~(sent < SendWindow(buf, window))
          BY <2>4, <4>2, <5>1, <5>3, Zenon DEF SendNew, LeavesToken
        <5> QED
          BY <5>2, <5>3, Zenon
      <4> QED
        BY <4>1, <4>2, Zenon
    <3> QED
      BY <3>1, <3>2, <3>4, PendingAgain, Zenon DEF Pending, PassStart
  <2>5. CASE ReadClock
    <3>1. ready' = ready
      BY <2>5, <1>0, ReadyFrame, Zenon DEF ReadClock, outVars
    <3> QED
      BY <2>5, <3>1, Zenon DEF ReadClock, TypeInv, PendingInv, Pending, Compared, PassStart, None,
         outVars, inputVars
  <2>6. CASE CheckAck
    <3>1. ready' = ready
      BY <2>6, <1>0, ReadyFrame, Zenon DEF CheckAck, outVars
    <3> QED
      BY <2>6, <3>1, Zenon DEF CheckAck, TypeInv, PendingInv, Pending, Compared, PassStart, None,
         outVars, inputVars
  <2>7. CASE ClearAck
    <3>1. ready' = ready
      BY <2>7, <1>0, ReadyFrame, Zenon DEF ClearAck, outVars
    <3> QED
      BY <2>7, <3>1, Zenon DEF ClearAck, TypeInv, PendingInv, Pending, Compared, PassStart, None,
         outVars, inputVars
  <2>8. CASE SendAck
    <3>1. ready' = ready
      BY <2>8, <1>0, ReadyFrame, Zenon DEF SendAck, outVars
    <3> QED
      BY <2>8, <3>1, Zenon DEF SendAck, TypeInv, PendingInv, Pending, Compared, PassStart, None,
         outVars, inputVars
  <2>9. CASE ArmTimer
    <3>1. ready' = ready /\ UNCHANGED <<now, notEmpty, wakeup, in>> /\ lag'["input"] = lag["input"]
      BY <2>9, <1>0, ReadyFrame, Zenon DEF ArmTimer, outVars, inputVars, TypeInv
    <3>2. SUFFICES ASSUME ready # None PROVE PendingInv'
      BY <3>1, Zenon DEF PendingInv
    <3>3. PassStart' = now /\ out' = "wait" /\ out = "delay" /\ timer' = now + NextDelay
      BY <2>9 DEF ArmTimer, PassStart, TypeInv
    <3>4. PassStart <= ready /\ (Pending \/ Reordering)
      BY <3>2, <3>3, Zenon DEF PendingInv, Compared
    <3>5. now <= ready + Latency /\ ready \in Nat
      BY <3>2, <3>4 DEF PassStart, TypeInv, ReadyInv
    <3>6. timer' <= ready + Latency + Heartbeat
      BY <3>2, <3>3, <3>5, DelayBounds DEF ReadyInv, Sendable, PassInv, TypeInv
    <3>7. Pending => Pending'
      BY <3>1, Zenon DEF Pending
    <3>8. now <= ready + Latency + Reopening
      BY <3>5 DEF Reopening, TypeInv
    <3> QED
      BY <3>1, <3>3, <3>4, <3>6, <3>7, <3>8, Zenon DEF PendingInv, Compared
  <2> QED
    BY <1>2, <2>1, <2>2, <2>3, <2>4, <2>5, <2>6, <2>7, <2>8, <2>9, Zenon DEF OutputStep
<1>3. CASE InputLoopStep
  <2>1. CASE Receive
    <3>1. UNCHANGED <<now, timer, PassStart, out>>
      BY <2>1, Zenon DEF Receive, PassStart, TypeInv
    <3>2. ready' # None => ready' = IF ready = None THEN now ELSE ready
      BY <1>0, <3>1, ReadyStep DEF TypeInv
    <3>3. ready' = now => Pending'
      <4>1. in' \in {"window", "queue"} /\ lag'["input"] = 0 /\ now' = now
        BY <2>1, Zenon DEF Receive, TypeInv
      <4> QED
        BY <4>1 DEF Pending, TypeInv
    <3>4. ready' = ready /\ Pending => Pending'
      BY <2>1, Zenon DEF Receive, Pending
    <3> QED
      BY <3>1, <3>2, <3>3, <3>4, PendingAgain, Zenon
  <2>2. CASE StoreWindow
    <3>1. UNCHANGED <<now, timer, PassStart, out>>
      BY <2>2, Zenon DEF StoreWindow, Goto, PassStart, TypeInv
    <3>2. ready' # None => ready' = IF ready = None THEN now ELSE ready
      BY <1>0, <3>1, ReadyStep DEF TypeInv
    <3>3. ready' = now => Pending'
      BY <2>2 DEF StoreWindow, Goto, Pending, TypeInv
    <3>4. ready' = ready /\ Pending => Pending'
      BY <2>2, Zenon DEF StoreWindow, Goto, Pending
    <3> QED
      BY <3>1, <3>2, <3>3, <3>4, PendingAgain, Zenon
  <2>3. CASE CheckQueue
    <3>1. ready' = ready /\ UNCHANGED <<now, timer, PassStart, out>>
      BY <2>3, <1>0, ReadyFrame, Zenon DEF CheckQueue, Goto, outVars, PassStart, TypeInv
    <3>2. ready # None => wakeup'
      BY <2>3, Zenon DEF CheckQueue, ReadyInv, Sendable
    <3> QED
      BY <3>1, <3>2, PendingAgain, Zenon DEF Pending
  <2>4. CASE TestFlag
    <3>1. ready' = ready
      BY <2>4, <1>0, ReadyFrame, Zenon DEF TestFlag, outVars
    <3> QED
      BY <2>4, <3>1, Zenon DEF TestFlag, Goto, AfterRequest, Second, TypeInv, PendingInv, Pending,
         Compared, PassStart, None, outVars
  <2>5. CASE StoreDeadline
    <3>1. ready' = ready
      BY <2>5, <1>0, ReadyFrame, Zenon DEF StoreDeadline, outVars
    <3> QED
      BY <2>5, <3>1, Zenon DEF StoreDeadline, Goto, Second, TypeInv, PendingInv, Pending, Compared,
         PassStart, None, outVars
  <2>6. CASE SetFlag
    <3>1. ready' = ready
      BY <2>6, <1>0, ReadyFrame, Zenon DEF SetFlag, outVars
    <3> QED
      BY <2>6, <3>1, Zenon DEF SetFlag, Goto, Second, TypeInv, PendingInv, Pending, Compared,
         PassStart, None, outVars
  <2>7. CASE WakeOutput
    <3>1. ready' = ready
      BY <2>7, <1>0, ReadyFrame, Zenon DEF WakeOutput, outVars
    <3> QED
      BY <2>7, <3>1, Zenon DEF WakeOutput, Goto, AfterRequest, TypeInv, PendingInv, Pending,
         Compared, PassStart, None, outVars
  <2>8. CASE MoveSegments
    <3>1. UNCHANGED <<now, timer, PassStart, out, notEmpty, wakeup, opening, queue, buf>> /\ in = "move"
      BY <2>8, Zenon DEF MoveSegments, Goto, PassStart, TypeInv
    <3>2. CASE ~Reordering
      <4>1. window' = window
        BY <2>8, <3>2, Zenon DEF MoveSegments
      <4>2. ready' = ready
        BY <1>0, <3>1, <4>1, ReadyFrame, Zenon
      <4> QED
        BY <3>1, <4>2, PendingAgain, Zenon DEF Pending
    <3>3. CASE Reordering
      <4>1. ready' # None => ready' = IF ready = None THEN now ELSE ready
        BY <1>0, <3>1, ReadyStep DEF TypeInv
      <4>2. CASE ready' = ready
        BY <3>1, <4>2, PendingAgain, Zenon DEF Pending
      <4>3. CASE ready' # None /\ ready' = now
        <5>1. ~opening
          BY <1>0, <3>1, <4>3, ReadyStep DEF TypeInv, ReadyInv, Sendable
        <5>2. out = "wait" => Pending' \/ timer <= now + Heartbeat
          BY <3>1, <5>1, Zenon DEF HeartbeatInv, Pending
        <5>3. PassStart <= now /\ PassStart \in Int /\ Reopening = Heartbeat
          BY <3>3 DEF PassStart, TypeInv, Reopening
        <5> QED
          BY <3>1, <3>3, <4>3, <5>2, <5>3, SMTT(30) DEF PendingInv, TypeInv, Reopening
      <4>4. CASE ready' = None
        BY <4>4, Zenon DEF PendingInv
      <4> QED
        BY <4>1, <4>2, <4>3, <4>4, Zenon
    <3> QED
      BY <3>2, <3>3, Zenon
  <2>9. CASE Establish
    <3>1. UNCHANGED <<now, timer, PassStart, out>>
      BY <2>9, Zenon DEF Establish, Goto, PassStart, TypeInv
    <3>2. ready' # None => ready' = IF ready = None THEN now ELSE ready
      BY <1>0, <3>1, ReadyStep DEF TypeInv
    <3>3. ready' = now => Pending'
      BY <2>9 DEF Establish, Goto, Pending, TypeInv
    <3>4. ready' = ready /\ Pending => Pending'
      BY <2>9, Zenon DEF Establish, Goto, Pending
    <3> QED
      BY <3>1, <3>2, <3>3, <3>4, PendingAgain, Zenon
  <2>10. CASE WakeEstablished
    <3>1. ready' = ready
      BY <2>10, <1>0, ReadyFrame, Zenon DEF WakeEstablished, outVars
    <3> QED
      BY <2>10, <3>1, Zenon DEF WakeEstablished, Goto, TypeInv, PendingInv, Pending, Compared,
         PassStart, None, outVars
  <2> QED
    BY <1>3, <2>1, <2>2, <2>3, <2>4, <2>5, <2>6, <2>7, <2>8, <2>9, <2>10, Zenon DEF InputLoopStep
<1>4. CASE Tick
  <2>1. ready' = ready /\ UNCHANGED <<timer, out, notEmpty, wakeup, in>> /\ now' = now + 1
    BY <1>4, <1>0, ReadyFrame, Zenon DEF Tick, outVars, inputVars
  <2>2. SUFFICES ASSUME ready # None PROVE PendingInv'
    BY <2>1, Zenon DEF PendingInv
  <2>3. in # "idle" => lag["input"] < Latency /\ lag'["input"] = lag["input"] + 1
    BY <1>4, Zenon DEF Tick, Runnable, TypeInv
  <2>4. Pending => Pending'
    BY <2>1, <2>3 DEF Pending, TypeInv, ReadyInv, None
  <2>5. CASE out # "wait" \/ WakeReady
    <3>1. PassStart' = PassStart
      BY <1>4, <2>5 DEF Tick, Runnable, PassStart, TypeInv
    <3> QED
      BY <2>1, <2>4, <3>1, Zenon DEF PendingInv, Compared, Reopening
  <2>6. CASE out = "wait" /\ ~WakeReady
    <3>1. PassStart' = now + 1 /\ now < timer /\ ~notEmpty /\ ~wakeup
      BY <1>4, <2>6 DEF Tick, Runnable, WakeReady, PassStart, TypeInv
    <3>2. CASE Pending
      <4>1. now + 1 <= ready + Latency + Reopening
        BY <2>2, <2>3, <3>1, <3>2 DEF Pending, TypeInv, ReadyInv, Reopening, None
      <4> QED
        BY <2>1, <2>4, <2>6, <3>1, <3>2, <4>1, Zenon DEF PendingInv, Compared, Reopening
    <3>3. CASE Reordering /\ timer <= ready + Latency + Heartbeat
      <4>1. now + 1 <= ready + Latency + Reopening
        BY <2>2, <3>1, <3>3 DEF TypeInv, ReadyInv, Reopening, None
      <4> QED
        BY <2>1, <2>6, <3>1, <3>3, <4>1, Zenon DEF PendingInv, Compared, Reopening
    <3> QED
      BY <2>2, <2>6, <3>2, <3>3, Zenon DEF PendingInv
  <2> QED
    BY <2>5, <2>6, Zenon
<1> QED
  BY <1>1, <1>2, <1>3, <1>4, Zenon DEF OutputNext

\* All of it holds for every interleaving of the three goroutines and the clock.
PromptInv ==
    /\ TypeInv /\ AckInv /\ SpacingInv /\ PassInv /\ RequestInv /\ TimerInv /\ CheckedInv /\ InTimeInv
    /\ ReadyInv /\ HeartbeatInv /\ PendingInv

\* A session starts with nothing owed, nothing ready and the timer running.
LEMMA PromptInit == OutputInit => PromptInv
<1> SUFFICES ASSUME OutputInit PROVE PromptInv
  BY Zenon
<1> USE OutputLoopAssumption DEF OutputLoopAssumption
<1>1. AckInv /\ SpacingInv /\ RequestInv /\ TimerInv /\ CheckedInv /\ InTimeInv /\ PendingInv
  BY Zenon DEF OutputInit, AckInv, SpacingInv, RequestInv, TimerInv, CheckedInv, InTimeInv,
     PendingInv
<1>2. PassInv /\ HeartbeatInv
  BY DEF OutputInit, PassInv, PassStart, HeartbeatInv
<1>3. ReadyInv
  BY DEF OutputInit, ReadyInv, Sendable, None
<1> QED
  BY <1>1, <1>2, <1>3, TypeInit, Zenon DEF PromptInv

\* Every step of the goroutines and of the clock keeps the whole invariant.
LEMMA PromptStep == PromptInv /\ [OutputNext]_outputVars => PromptInv'
<1> SUFFICES ASSUME PromptInv, [OutputNext]_outputVars PROVE PromptInv'
  BY Zenon
<1>1. CASE OutputNext
  <2>1. now' \in Nat /\ now' >= now
    <3>1. CASE Tick
      BY <3>1 DEF PromptInv, TypeInv, Tick
    <3>2. CASE ~Tick
      <4>1. now' = now
        BY <1>1, <3>2, Zenon DEF OutputNext, QueueSegment, OutputStep, Wake, Resend,
           CheckWindow, SendNew, ReadClock, CheckAck, ClearAck, SendAck, ArmTimer,
           InputLoopStep, Receive, StoreWindow, CheckQueue, TestFlag, StoreDeadline,
           SetFlag, WakeOutput, MoveSegments, Establish, WakeEstablished
      <4> QED
        BY <4>1 DEF PromptInv, TypeInv
    <3> QED
      BY <3>1, <3>2, Zenon
  <2>2. TypeInv' /\ AckInv' /\ SpacingInv' /\ PassInv' /\ RequestInv'
    BY <1>1, TypeStep, AckStep, SpacingStep, PassStep, RequestStep, Zenon DEF PromptInv
  <2>3. TimerInv' /\ CheckedInv' /\ InTimeInv'
    BY <1>1, TimerStep, CheckedStep, InTimeStep, Zenon DEF PromptInv
  <2>4. ReadyInv' /\ HeartbeatInv' /\ PendingInv'
    BY <1>1, <2>1, ReadyStep, HeartbeatStep, PendingStep, Zenon DEF PromptInv, OutputNext
  <2> QED
    BY <2>2, <2>3, <2>4, Zenon DEF PromptInv
<1>2. CASE UNCHANGED outputVars
  <2> USE <1>2 DEF outputVars, outVars, ackVars, locals, inputVars
  <2>1. TypeInv' /\ AckInv' /\ SpacingInv'
    BY DEF PromptInv, TypeInv, AckInv, WillRequest, SpacingInv
  <2>2. PassInv' /\ RequestInv' /\ TimerInv' /\ CheckedInv' /\ InTimeInv'
    BY ZenonT(60) DEF PromptInv, PassInv, PassStart, RequestInv, Asking, WillRequest, TimerInv, Woken,
       CheckedInv, Checked, InTimeInv
  <2>3. ReadyInv' /\ HeartbeatInv' /\ PendingInv'
    BY Zenon DEF PromptInv, ReadyInv, Sendable, HeartbeatInv, PendingInv, Compared, PassStart,
       Pending, Reopening
  <2> QED
    BY <2>1, <2>2, <2>3, Zenon DEF PromptInv
<1> QED
  BY <1>1, <1>2, Zenon

\* No wake-up is lost between writer, input loop and output loop: an ACK is sent
\* within packetAckDelay, and a segment that the windows allow is looked at at
\* once, but for the delays of the goroutines, whatever the constants are.
THEOREM WakeUpsAreKept == OutputSpec => []NoWakeUpLost
<1>1. PromptInv => NoWakeUpLost
  <2> SUFFICES ASSUME PromptInv PROVE PromptAck /\ PromptSend
    BY Zenon DEF NoWakeUpLost
  <2> USE OutputLoopAssumption DEF OutputLoopAssumption
  <2>1. PromptAck
    BY DEF PromptInv, TypeInv, InTimeInv, PassStart, PromptAck, None
  <2>2. PromptSend
    BY DEF PromptInv, TypeInv, ReadyInv, PendingInv, PassStart, Reopening, PromptSend, None
  <2> QED
    BY <2>1, <2>2, Zenon
<1> QED
  BY <1>1, PromptInit, PromptStep, PTL DEF OutputSpec

-----------------------------------------------------------------------------
(* The event loop and the sessions of a server.                            *)

PacketSessions ==
    [id : Ids, state : {"live", "closing", "closed"}, loops : BOOLEAN, chan : Seq({"open", "data", "close"}),
     block : BOOLEAN, idle : BOOLEAN]

Places == {"select", "clean", "lastClean", "read", "answer", "deliver", "ready", "ended"}

\* A session that runs is in the map, or the one that the event loop removes:
\* its ID then is not in the map, and nothing is added until it has ended.
MapInv ==
    /\ sessions \in Seq(PacketSessions) /\ map \in [Ids -> Nat]
    /\ loop \in [pc : Places, s : Nat, kind : {"none", "open", "data", "close"}]
    /\ loop.pc = "deliver" => loop.kind \in {"open", "data", "close"}
    /\ \A id \in Ids : map[id] # 0 => map[id] \in Incarnation /\ sessions[map[id]].id = id
    /\ toClean \subseteq InMap
    /\ toClean # {} => Cleaning
    /\ Cleaning /\ loop.s # 0 => loop.s \in Incarnation /\ map[sessions[loop.s].id] = 0
    /\ \A s \in Incarnation : sessions[s].loops => s \in InMap \/ (Cleaning /\ loop.s = s)

\* A segment in a session's channel changes nothing else of the session.
LEMMA SessionChan ==
  ASSUME NEW s \in PacketSessions, NEW kind, Append(s.chan, kind) \in Seq({"open", "data", "close"})
  PROVE  LET u == [s EXCEPT !.chan = Append(@, kind)]
         IN  u \in PacketSessions /\ u.id = s.id /\ u.loops = s.loops
BY Zenon DEF PacketSessions

\* Initially there is no session.
LEMMA MapInit == PacketInit => MapInv
BY DEF PacketInit, MapInv, Incarnation, InMap, Cleaning, Loop, Places

\* What happens to the sessions that exist does not disturb the map.
LEMMA SessionsMove ==
  ASSUME MapInv, sessions' \in Seq(PacketSessions), Len(sessions') = Len(sessions),
         \A s \in Incarnation : sessions'[s].id = sessions[s].id /\ (sessions'[s].loops => sessions[s].loops),
         UNCHANGED <<map, toClean, loop>>
  PROVE  MapInv'
<1>1. Incarnation' = Incarnation
  BY DEF MapInv, Incarnation
<1>2. \A id \in Ids : map[id] # 0 => map[id] \in Incarnation' /\ sessions'[map[id]].id = id
  BY <1>1, Zenon DEF MapInv
<1>3. InMap' = InMap
  BY <1>1, Zenon DEF InMap
<1> QED BY <1>1, <1>2, <1>3, Zenon DEF MapInv, Cleaning

\* The event loop goes from one place to another.
LEMMA LoopMoves ==
  ASSUME MapInv, UNCHANGED <<sessions, map>>, ~Cleaning \/ (toClean = {} /\ loop.s = 0),
         toClean' = {} \/ (toClean' = InMap /\ Cleaning'), Cleaning' => loop'.s = 0,
         loop' \in [pc : Places, s : Nat, kind : {"none", "open", "data", "close"}],
         loop'.pc = "deliver" => loop'.kind \in {"open", "data", "close"}
  PROVE  MapInv'
<1>1. InMap' = InMap /\ Incarnation' = Incarnation
  BY Zenon DEF InMap, Incarnation
<1>2. 0 \notin Incarnation
  BY DEF MapInv, Incarnation
<1> QED BY <1>1, <1>2 DEF MapInv

\* MapInv is inductive.
LEMMA MapStep == MapInv /\ [PacketNext]_packetVars => MapInv'
<1> SUFFICES ASSUME MapInv, [PacketNext]_packetVars PROVE MapInv'
  BY Zenon
<1>0. /\ sessions \in Seq(PacketSessions) /\ Incarnation = 1..Len(sessions)
      /\ \A s \in Incarnation : sessions[s] \in PacketSessions
  BY DEF MapInv, Incarnation
<1> USE DEF Places
<1>1. ASSUME NEW s \in Incarnation, PacketSessionStep(s) \/ ApplicationCloses(s) \/ Silence(s)
      PROVE  MapInv'
  <2>1. PICK u \in PacketSessions : sessions' = [sessions EXCEPT ![s] = u]
                                    /\ u.id = sessions[s].id /\ (u.loops => sessions[s].loops)
    <3>1. CASE FinishClose(s)
      <4> DEFINE u == [sessions[s] EXCEPT !.state = "closed"]
      <4>1. u \in PacketSessions /\ u.id = sessions[s].id /\ u.loops = sessions[s].loops
        BY <1>0, Zenon DEF PacketSessions
      <4> QED BY <3>1, <4>1, Zenon DEF FinishClose
    <3>2. CASE EndLoops(s)
      <4> DEFINE u == [sessions[s] EXCEPT !.loops = FALSE]
      <4>1. u \in PacketSessions /\ u.id = sessions[s].id /\ ~u.loops
        BY <1>0, Zenon DEF PacketSessions
      <4> QED BY <3>2, <4>1, Zenon DEF EndLoops
    <3>3. CASE Silence(s)
      <4> DEFINE u == [sessions[s] EXCEPT !.idle = TRUE]
      <4>1. u \in PacketSessions /\ u.id = sessions[s].id /\ u.loops = sessions[s].loops
        BY <1>0, Zenon DEF PacketSessions
      <4> QED BY <3>3, <4>1, Zenon DEF Silence
    <3>4. CASE WriteFails(s) \/ ApplicationCloses(s)
      <4> DEFINE u == [sessions[s] EXCEPT !.state = IF @ = "live" THEN "closing" ELSE @]
      <4>1. u \in PacketSessions /\ u.id = sessions[s].id /\ u.loops = sessions[s].loops
        BY <1>0, Zenon DEF PacketSessions
      <4> QED BY <3>4, <4>1, Zenon DEF WriteFails, ApplicationCloses, CloseSession
    <3>5. CASE Input(s)
      <4> DEFINE u == [sessions[s] EXCEPT !.chan = Tail(@), !.block = TRUE, !.idle = FALSE]
                 v == [u EXCEPT !.state = IF @ = "live" THEN "closing" ELSE @]
      <4>1. u \in PacketSessions /\ u.id = sessions[s].id /\ u.loops = sessions[s].loops
        <5>1. sessions[s].chan \in Seq({"open", "data", "close"}) /\ sessions[s].chan # << >>
          BY <1>0, <3>5, Zenon DEF PacketSessions, Input
        <5>2. Tail(sessions[s].chan) \in Seq({"open", "data", "close"})
          BY <5>1
        <5> QED BY <1>0, <5>2, Zenon DEF PacketSessions
      <4>2. v \in PacketSessions /\ v.id = sessions[s].id /\ v.loops = sessions[s].loops
        BY <4>1, Zenon DEF PacketSessions
      <4>3. sessions' = [sessions EXCEPT ![s] = u] \/ sessions' = [sessions EXCEPT ![s] = v]
        <5>1. [sessions EXCEPT ![s].chan = Tail(@), ![s].block = TRUE, ![s].idle = FALSE] = [sessions EXCEPT ![s] = u]
          BY <1>0, Zenon DEF PacketSessions
        <5>2. CloseSession([sessions EXCEPT ![s] = u], s) = [sessions EXCEPT ![s] = v]
          BY <1>0, Zenon DEF CloseSession
        <5> QED BY <3>5, <5>1, <5>2, Zenon DEF Input
      <4> HIDE DEF u, v
      <4> QED BY <4>1, <4>2, <4>3, Zenon
    <3> QED BY <1>1, <3>1, <3>2, <3>3, <3>4, <3>5, Zenon DEF PacketSessionStep
  <2>2. UNCHANGED <<map, toClean, loop>>
    BY <1>1, Zenon DEF PacketSessionStep, FinishClose, EndLoops, Silence, WriteFails, ApplicationCloses,
       Input
  <2>3. /\ sessions' \in Seq(PacketSessions) /\ Len(sessions') = Len(sessions)
        /\ \A r \in Incarnation : sessions'[r].id = sessions[r].id /\ (sessions'[r].loops => sessions[r].loops)
    BY <1>0, <2>1
  <2> QED BY <2>2, <2>3, SessionsMove, Zenon
<1>2. ASSUME NEW s \in Incarnation, CleanOne(s) PROVE MapInv'
  <2>1. s \in InMap /\ sessions[s].id \in Ids
    BY <1>0, <1>2, Zenon DEF CleanOne, MapInv, PacketSessions
  <2>2. CASE ToRemove(s)
    <3>1. PICK u \in PacketSessions : sessions' = [sessions EXCEPT ![s] = u]
                                      /\ u.id = sessions[s].id /\ u.loops = sessions[s].loops
      <4> DEFINE u == [sessions[s] EXCEPT !.state = IF @ = "live" THEN "closing" ELSE @]
      <4>1. u \in PacketSessions /\ u.id = sessions[s].id /\ u.loops = sessions[s].loops
        BY <1>0, Zenon DEF PacketSessions
      <4> QED BY <1>2, <2>2, <4>1, Zenon DEF CleanOne, CloseSession
    <3>2. /\ sessions' \in Seq(PacketSessions) /\ Len(sessions') = Len(sessions) /\ Incarnation' = Incarnation
          /\ \A r \in Incarnation : sessions'[r].id = sessions[r].id /\ sessions'[r].loops = sessions[r].loops
      BY <1>0, <3>1 DEF Incarnation
    <3>3. /\ Cleaning /\ Cleaning' /\ loop.s = 0 /\ loop'.s = s /\ loop'.pc # "deliver"
          /\ map' = [map EXCEPT ![sessions[s].id] = 0] /\ toClean' = toClean \ {s}
      BY <1>2, <2>2, Zenon DEF CleanOne, Cleaning, MapInv
    <3>7. loop' \in [pc : Places, s : Nat, kind : {"none", "open", "data", "close"}]
      BY <1>0, <1>2, <2>2 DEF CleanOne, MapInv
    <3>4. \A r \in Incarnation : sessions[r].id \in Ids /\ (r \in InMap' <=> r \in InMap /\ r # s)
      <4>1. \A r \in Incarnation : sessions[r].id \in Ids /\ r # 0
        BY <1>0 DEF PacketSessions
      <4>2. \A id \in Ids : map'[id] = IF id = sessions[s].id THEN 0 ELSE map[id]
        BY <3>3, Zenon DEF MapInv
      <4>3. \A r \in Incarnation : /\ r \in InMap' <=> map'[sessions[r].id] = r
                                   /\ r \in InMap <=> map[sessions[r].id] = r
        BY <3>2, Zenon DEF InMap
      <4> QED BY <2>1, <4>1, <4>2, <4>3
    <3>5. /\ map' \in [Ids -> Nat] /\ map'[sessions'[s].id] = 0
          /\ \A id \in Ids : map'[id] # 0 => map'[id] = map[id]
      BY <2>1, <3>2, <3>3, Zenon DEF MapInv
    <3>6. toClean' \subseteq InMap'
      BY <3>3, <3>4, Zenon DEF MapInv, InMap
    <3>8. \A id \in Ids : map'[id] # 0 => map'[id] \in Incarnation' /\ sessions'[map'[id]].id = id
      BY <3>2, <3>5 DEF MapInv
    <3>9. \A r \in Incarnation' : sessions'[r].loops => r \in InMap' \/ (Cleaning' /\ loop'.s = r)
      <4>1. \A r \in Incarnation : sessions[r].loops => r \in InMap
        BY <1>0, <3>3 DEF MapInv
      <4> QED BY <3>2, <3>3, <3>4, <4>1, Zenon
    <3> QED BY <3>2, <3>3, <3>5, <3>6, <3>7, <3>8, <3>9, Zenon DEF MapInv
  <2>3. CASE ~ToRemove(s)
    <3>1. UNCHANGED <<sessions, map, loop>> /\ toClean' = toClean \ {s}
      BY <1>2, <2>3, Zenon DEF CleanOne
    <3>2. InMap' = InMap /\ Incarnation' = Incarnation
      BY <3>1, Zenon DEF InMap, Incarnation
    <3> QED BY <3>1, <3>2, Zenon DEF MapInv, Cleaning
  <2> QED BY <2>2, <2>3, Zenon
<1>3. ASSUME NEW s \in Incarnation, CloseOne(s) PROVE MapInv'
  <2>1. UNCHANGED <<map, toClean, loop>> /\ (UNCHANGED sessions \/ sessions' = CloseSession(sessions, s))
    BY <1>3, Zenon DEF CloseOne
  <2> DEFINE u == [sessions[s] EXCEPT !.state = IF @ = "live" THEN "closing" ELSE @]
  <2>2. u \in PacketSessions /\ u.id = sessions[s].id /\ u.loops = sessions[s].loops
    BY <1>0, Zenon DEF PacketSessions
  <2>3. UNCHANGED sessions \/ sessions' = [sessions EXCEPT ![s] = u]
    BY <2>1, Zenon DEF CloseSession
  <2> HIDE DEF u
  <2>4. /\ sessions' \in Seq(PacketSessions) /\ Len(sessions') = Len(sessions)
        /\ \A r \in Incarnation : sessions'[r].id = sessions[r].id /\ (sessions'[r].loops => sessions[r].loops)
    BY <1>0, <2>2, <2>3
  <2> QED BY <2>1, <2>4, SessionsMove, Zenon
<1>4. CASE PacketDeliverSegment
  <2>1. /\ loop.pc = "deliver" /\ UNCHANGED <<map, toClean>> /\ ~Cleaning /\ ~Cleaning' /\ loop'.pc # "deliver"
        /\ loop.kind \in {"open", "data", "close"} /\ toClean = {}
    BY <1>4 DEF PacketDeliverSegment, MapInv, Cleaning, Go, Loop
  <2>0. loop' \in [pc : Places, s : Nat, kind : {"none", "open", "data", "close"}]
    BY <1>4, SMTT(30) DEF PacketDeliverSegment, MapInv, Go, Loop
  <2>2. ASSUME UNCHANGED sessions PROVE MapInv'
    <3>1. UNCHANGED <<sessions, map>> /\ toClean' = {}
      BY <2>1, <2>2, Zenon
    <3>2. loop'.pc = "deliver" => loop'.kind \in {"open", "data", "close"}
      BY <2>1, Zenon
    <3> QED BY <2>0, <2>1, <3>1, <3>2, LoopMoves, Zenon
  <2>3. CASE sessions' = [sessions EXCEPT ![loop.s].chan = Append(@, loop.kind)]
    <3>1. CASE loop.s \in Incarnation
      <4> DEFINE u == [sessions[loop.s] EXCEPT !.chan = Append(@, loop.kind)]
      <4>1. sessions[loop.s].chan \in Seq({"open", "data", "close"})
        BY <1>0, <3>1, Zenon DEF PacketSessions
      <4>2. Append(sessions[loop.s].chan, loop.kind) \in Seq({"open", "data", "close"})
        BY <2>1, <4>1
      <4>3. u \in PacketSessions /\ u.id = sessions[loop.s].id /\ u.loops = sessions[loop.s].loops
        BY <1>0, <3>1, <4>2, SessionChan, Zenon
      <4>4. sessions' = [sessions EXCEPT ![loop.s] = u]
        BY <2>3, Zenon
      <4> HIDE DEF u
      <4>5. /\ sessions' \in Seq(PacketSessions) /\ Len(sessions') = Len(sessions)
            /\ \A r \in Incarnation : sessions'[r].id = sessions[r].id /\ (sessions'[r].loops => sessions[r].loops)
        BY <1>0, <3>1, <4>3, <4>4
      <4>6. Incarnation' = Incarnation
        BY <1>0, <4>5 DEF Incarnation
      <4>7. \A r \in Incarnation : sessions'[r].loops => r \in InMap'
        BY <2>1, <4>5, <4>6, Zenon DEF MapInv, InMap
      <4> QED BY <2>0, <2>1, <4>5, <4>6, <4>7, Zenon DEF MapInv
    <3>2. CASE loop.s \notin Incarnation
      <4>1. UNCHANGED sessions
        BY <1>0, <2>3, <3>2 DEF Incarnation
      <4> QED BY <2>2, <4>1, Zenon
    <3> QED BY <3>1, <3>2, Zenon
  <2> QED BY <1>4, <2>2, <2>3, Zenon DEF PacketDeliverSegment
<1>5. ASSUME NEW id \in Ids, PacketOnOpenSessionRequest(id) PROVE MapInv'
  <2> DEFINE n == Len(sessions) + 1
  <2>1. /\ ~Cleaning /\ toClean = {} /\ toClean' = {} /\ map[id] = 0
        /\ loop' = Loop("deliver", n, "open") /\ ~Cleaning'
        /\ sessions' = Append(sessions, NewSession(id)) /\ map' = [map EXCEPT ![id] = n]
    BY <1>5, Zenon DEF PacketOnOpenSessionRequest, MapInv, Cleaning, Loop
  <2>2. NewSession(id) \in PacketSessions /\ NewSession(id).id = id
    BY SMTT(30) DEF NewSession, PacketSessions
  <2>3. /\ n \in Nat /\ n # 0 /\ Incarnation' = Incarnation \cup {n} /\ n \notin Incarnation
        /\ sessions' \in Seq(PacketSessions) /\ sessions'[n] = NewSession(id)
        /\ \A s \in Incarnation : sessions'[s] = sessions[s]
    BY <1>0, <2>1, <2>2 DEF Incarnation
  <2>4. map' \in [Ids -> Nat] /\ map'[id] = n /\ \A other \in Ids \ {id} : map'[other] = map[other]
    BY <2>1, <2>3, Zenon DEF MapInv
  <2>5. \A other \in Ids : map'[other] # 0 => map'[other] \in Incarnation' /\ sessions'[map'[other]].id = other
    <3>1. map'[id] \in Incarnation' /\ sessions'[map'[id]].id = id
      BY <2>2, <2>3, <2>4, Zenon
    <3>2. ASSUME NEW other \in Ids \ {id}, map'[other] # 0
          PROVE  map'[other] \in Incarnation' /\ sessions'[map'[other]].id = other
      <4>1. map'[other] = map[other]
        BY <2>4, Zenon
      <4>2. map[other] \in Incarnation /\ sessions[map[other]].id = other
        BY <3>2, <4>1, Zenon DEF MapInv
      <4> QED
        BY <2>3, <4>1, <4>2, Zenon
    <3> QED
      BY <3>1, <3>2, Zenon
  <2>6. ASSUME NEW s \in Incarnation', sessions'[s].loops PROVE s \in InMap'
    <3>1. CASE s = n
      BY <2>2, <2>3, <2>4, <2>6, <3>1, Zenon DEF InMap
    <3>2. CASE s \in Incarnation
      <4>1. map[sessions[s].id] = s /\ sessions[s].id \in Ids /\ s # 0
        BY <1>0, <2>1, <2>3, <2>6, <3>2 DEF MapInv, InMap, PacketSessions
      <4> QED BY <2>1, <2>3, <2>4, <2>6, <3>2, <4>1, ZenonT(60) DEF InMap
    <3> QED BY <2>3, <2>6, <3>1, <3>2, Zenon
  <2> HIDE DEF n
  <2>7. loop'.kind = "open" /\ loop' \in [pc : Places, s : Nat, kind : {"none", "open", "data", "close"}]
    BY <2>1, <2>3, Zenon DEF Loop
  <2> QED BY <2>1, <2>3, <2>4, <2>5, <2>6, <2>7, Zenon DEF MapInv
<1>6. CASE \/ Select \/ PacketAnswer \/ OfferSession \/ CleanEnds \/ ReadNothing \/ LoopFails
           \/ \E id \in Ids, kind \in {"open", "data", "close"} : ReadKnown(id, kind) \/ ReadUnknown(id, kind)
  <2>1. UNCHANGED <<sessions, map>> /\ (~Cleaning \/ (toClean = {} /\ loop.s = 0))
    BY <1>6, Zenon DEF Select, PacketAnswer, OfferSession, CleanEnds, ReadNothing, LoopFails, ReadKnown,
       ReadUnknown, Cleaning
  <2>2. toClean = {}
    BY <2>1, Zenon DEF MapInv
  <2>3. toClean' = {} \/ (toClean' = InMap /\ Cleaning')
    <3>1. CASE UNCHANGED toClean
      BY <2>2, <3>1, Zenon
    <3>2. CASE toClean' = InMap /\ (Go("clean") \/ Go("lastClean"))
      BY <3>2, SMTT(30) DEF Cleaning, Go, Loop
    <3> QED BY <1>6, <3>1, <3>2, Zenon DEF Select, PacketAnswer, OfferSession, CleanEnds, ReadNothing,
               LoopFails, ReadKnown, ReadUnknown
  <2>4. (Cleaning' => loop'.s = 0) /\ (loop'.pc = "deliver" => loop'.kind \in {"open", "data", "close"})
    BY <1>6, SMTT(30) DEF Select, PacketAnswer, OfferSession, CleanEnds, ReadNothing, LoopFails, ReadKnown,
       ReadUnknown,
                Cleaning, Go, Loop
  <2>5. loop' \in [pc : Places, s : Nat, kind : {"none", "open", "data", "close"}]
    BY <1>6 DEF Select, PacketAnswer, OfferSession, CleanEnds, ReadNothing, LoopFails, ReadKnown,
       ReadUnknown,
                Go, Loop, MapInv
  <2> QED BY <2>1, <2>3, <2>4, <2>5, LoopMoves, Zenon
<1>7. CASE RemoveSessionEnds
  <2>1. /\ UNCHANGED <<sessions, map, toClean>> /\ Cleaning /\ Cleaning' /\ loop'.pc = loop.pc
        /\ loop.s # 0 /\ ~sessions[loop.s].loops /\ loop'.s = 0
    BY <1>7, Zenon DEF RemoveSessionEnds, RemovedLoopsEnded, Cleaning, MapInv
  <2>3. loop' \in [pc : Places, s : Nat, kind : {"none", "open", "data", "close"}] /\ loop'.kind = loop.kind
    BY <1>7, Zenon DEF RemoveSessionEnds, MapInv
  <2>2. InMap' = InMap /\ Incarnation' = Incarnation
    BY <2>1, Zenon DEF InMap, Incarnation
  <2>4. 0 \notin Incarnation
    BY <1>0
  <2> QED BY <2>1, <2>2, <2>3, <2>4, Zenon DEF MapInv
<1>8. CASE TickerFires \/ PacketAccept \/ MuxCloses \/ CloseBegins \/ CloseEnds \/ UNCHANGED packetVars
  <2>1. UNCHANGED <<sessions, map, loop, toClean>>
    BY <1>8, Zenon DEF TickerFires, PacketAccept, MuxCloses, CloseBegins, CloseEnds, packetVars
  <2>2. InMap' = InMap /\ Incarnation' = Incarnation /\ (Cleaning' <=> Cleaning)
    BY <2>1, Zenon DEF InMap, Incarnation, Cleaning
  <2> QED BY <2>1, <2>2, Zenon DEF MapInv
<1> QED BY <1>1, <1>2, <1>3, <1>4, <1>5, <1>6, <1>7, <1>8, Zenon DEF PacketNext, Dispatch

\* At most one incarnation of a session ID has running loops, for any IDs,
\* capacities and numbers of datagrams: RemoveSession takes a session out of
\* the map before its loops have ended, and the event loop waits for them
\* before it looks at the next datagram.
THEOREM IncarnationsDoNotOverlap == PacketInit /\ [][PacketNext]_packetVars => []OneIncarnation
<1>1. MapInv => OneIncarnation
  <2> SUFFICES ASSUME MapInv, NEW s \in Incarnation, NEW u \in Incarnation, s # u,
                      sessions[s].id = sessions[u].id, sessions[s].loops, sessions[u].loops
               PROVE  FALSE
    BY Zenon DEF OneIncarnation
  <2>1. s # 0 /\ u # 0
    BY DEF MapInv, Incarnation
  <2> QED BY <2>1 DEF MapInv, InMap
<1> QED BY MapInit, MapStep, <1>1, PTL

=============================================================================
