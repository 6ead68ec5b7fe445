-------------------------- MODULE PacketOutputLoop --------------------------
(***************************************************************************)
(* When the output loop of a packet session runs (runOutputLoop for the    *)
(* packet transport, session.go).  Three goroutines meet: the application  *)
(* queues segments, the input loop applies what arrives and asks for an    *)
(* ACK, and the output loop sleeps until a timer or one of two one-token   *)
(* channels wakes it.  They share atomics and no lock, so each step below  *)
(* is one access to the shared state.                                      *)
(*                                                                         *)
(* Trees are counted, not listed: PacketSession models their contents.     *)
(* Time is counted in ticks; a goroutine that can run is delayed by at     *)
(* most Latency ticks between two moments at which it rests.               *)
(***************************************************************************)
EXTENDS Integers

CONSTANTS
    AckDelay,       \* packetAckDelay
    MinInterval,    \* minOutputInterval
    Heartbeat,      \* sessionHeartbeatInterval
    Rto,            \* the longest retransmission timeout
    Cwnd,           \* congestion window
    BufCapacity,    \* segmentTreeCapacity of sendBuf
    Windows,        \* the windows a peer may advertise
    StartsOpening,  \* whether a client waits for the open response
    Reordering,     \* a segment may find others buffered, with other windows
    Latency,        \* bound: scheduling delay of a goroutine
    MaxTime,        \* bound: ticks
    MaxInputs,      \* bound: segments received
    MaxQueued       \* bound: segments the application queues

ASSUME OutputLoopAssumption ==
    /\ AckDelay \in Nat \ {0} /\ MinInterval \in Nat \ {0}
    /\ Heartbeat \in Nat \ {0} /\ Rto \in Nat \ {0}
    /\ MinInterval <= Heartbeat
    /\ Cwnd \in Nat /\ BufCapacity \in Nat /\ Windows \subseteq Nat
    /\ StartsOpening \subseteq BOOLEAN /\ Reordering \in BOOLEAN
    /\ Latency \in Nat /\ MaxTime \in Nat /\ MaxInputs \in Nat /\ MaxQueued \in Nat

VARIABLES
    now,
    queue, buf,     \* the sizes of sendQueue and sendBuf
    window,         \* remoteWindowSize
    opening,        \* isClientPacketSessionOpening
    flag, ackDeadline, \* ackOnDataRecv and ackDeadline
    notEmpty,       \* a token in sendQueue.chanNotEmptyEvent
    wakeup,         \* a token in packetOutputWakeup
    timer,          \* when the timer fires
    nextTX, lastTX, \* nextRetransmissionTime and lastTXTime
    out,            \* where the output loop is
    t, due, sent,   \* its locals: a clock reading, ackDue, totalTransmissionCount
    in, inKind,     \* where the input loop is, and what it handles
    inputs, writes, \* how many segments were received and written
    lag,            \* how long a goroutine has been delayed
    owed,           \* history: when the oldest unanswered data arrived
    lastAck,        \* history: when the last requested ACK was taken up
    ready           \* history: since when a segment could have been sent

outVars == <<queue, buf, window, opening>>
ackVars == <<flag, ackDeadline>>
locals == <<t, due, sent>>
inputVars == <<in, inKind, inputs>>
outputVars == <<now, outVars, ackVars, notEmpty, wakeup, timer, nextTX, lastTX, out,
          locals, inputVars, writes, lag, owed, lastAck, ready>>

None == -1

\* sendWindowSize with b segments in sendBuf and the remote window w.
SendWindow(b, w) == IF Cwnd <= b THEN 0 ELSE IF Cwnd - b < w THEN Cwnd - b ELSE w

\* A client starts when its open request has just been sent.
OutputInit ==
    /\ now = 0
    /\ opening \in StartsOpening
    /\ queue = 0
    /\ buf = IF opening THEN 1 ELSE 0
    /\ window \in Windows
    /\ flag = FALSE /\ ackDeadline = 0
    /\ notEmpty = FALSE /\ wakeup = FALSE
    /\ nextTX = IF opening THEN Rto ELSE 0
    /\ lastTX = 0
    /\ timer = IF opening THEN Rto ELSE Heartbeat
    /\ out = "wait" /\ t = 0 /\ due = FALSE /\ sent = 0
    /\ in = "idle" /\ inKind = "ack" /\ inputs = 0
    /\ writes = 0
    /\ lag = [g \in {"input", "output"} |-> 0]
    /\ owed = None /\ lastAck = None /\ ready = None

-----------------------------------------------------------------------------
(* The application: writeChunk puts a segment in sendQueue.  The mutant    *)
(* does not signal that the queue is not empty.                            *)

QueueSilently ==
    /\ writes < MaxQueued
    /\ writes' = writes + 1
    /\ queue' = queue + 1
    /\ UNCHANGED <<now, buf, window, opening, ackVars, notEmpty, wakeup, timer, nextTX,
                   lastTX, out, locals, inputVars, lag, owed, lastAck>>
QueueSegment ==
    /\ writes < MaxQueued
    /\ writes' = writes + 1
    /\ queue' = queue + 1
    /\ notEmpty' = TRUE
    /\ UNCHANGED <<now, buf, window, opening, ackVars, wakeup, timer, nextTX, lastTX,
                   out, locals, inputVars, lag, owed, lastAck>>

-----------------------------------------------------------------------------
(* The output loop.                                                        *)

WakeReady == timer <= now \/ notEmpty \/ wakeup

\* select: one of the ready channels is received from.
Wake ==
    /\ out = "wait"
    /\ \/ timer <= now /\ UNCHANGED <<notEmpty, wakeup>>
       \/ notEmpty /\ notEmpty' = FALSE /\ UNCHANGED wakeup
       \/ wakeup /\ wakeup' = FALSE /\ UNCHANGED notEmpty
    /\ out' = "resend"
    /\ UNCHANGED <<now, outVars, ackVars, timer, nextTX, lastTX, locals, inputVars,
                   writes, lag, owed, lastAck>>

\* The retransmission pass: some of the segments in sendBuf are sent again and
\* the next deadline is the earliest of theirs.
Resend ==
    /\ out = "resend"
    /\ out' = "window"
    /\ IF buf > 0 /\ now >= nextTX
       THEN \E n \in 0..buf, rto \in 1..Rto :
               /\ sent' = n
               /\ lastTX' = IF n > 0 THEN now ELSE lastTX
               /\ nextTX' = now + rto
       ELSE UNCHANGED <<sent, lastTX, nextTX>>
    /\ UNCHANGED <<now, outVars, ackVars, notEmpty, wakeup, timer, t, due, inputVars,
                   writes, lag, owed, lastAck>>

\* skipSendNewSegment is read once, before the loop that sends.
CheckWindow ==
    /\ out = "window"
    /\ out' = IF SendWindow(buf, window) > 0 /\ queue > 0 THEN "send" ELSE "ackNow"
    /\ UNCHANGED <<now, outVars, ackVars, notEmpty, wakeup, timer, nextTX, lastTX,
                   locals, inputVars, writes, lag, owed, lastAck>>

\* DeleteMinIf puts a token in chanNotEmptyEvent whenever it leaves a segment
\* behind, deleted or not.
LeavesToken(left) == left > 0

\* One iteration of the loop that sends new segments.  A full sendBuf, a data
\* segment that must wait for the open response, or an empty queue ends it.
SendNew ==
    /\ out = "send"
    /\ IF BufCapacity - buf <= 1 \/ opening \/ queue = 0
       THEN /\ out' = "ackNow"
            /\ UNCHANGED <<queue, buf, notEmpty, nextTX, lastTX, sent>>
       ELSE LET deleted == sent < SendWindow(buf, window)
                left == IF deleted THEN queue - 1 ELSE queue
            IN  /\ notEmpty' = (notEmpty \/ LeavesToken(left))
                /\ queue' = left
                /\ IF deleted
                   THEN /\ buf' = buf + 1
                        /\ sent' = sent + 1
                        /\ lastTX' = now
                        /\ \E rto \in 1..Rto :
                              nextTX' = IF buf > 0 /\ nextTX < now + rto THEN nextTX ELSE now + rto
                        /\ UNCHANGED out
                   ELSE out' = "ackNow" /\ UNCHANGED <<buf, sent, lastTX, nextTX>>
    /\ UNCHANGED <<now, window, opening, ackVars, wakeup, timer, t, due, inputVars,
                   writes, lag, owed, lastAck>>

\* now := clock.Now(), for the ACK and, after it, for the delay.
ReadClock ==
    /\ \/ out = "ackNow" /\ out' = "ackFlag"
       \/ out = "delayNow" /\ out' = "delay"
    /\ t' = now
    /\ UNCHANGED <<now, outVars, ackVars, notEmpty, wakeup, timer, nextTX, lastTX,
                   due, sent, inputVars, writes, lag, owed, lastAck>>

\* ackDue.  While the flag is set the input loop does not store the deadline,
\* so the two loads are one step.
CheckAck ==
    /\ out = "ackFlag"
    /\ due' = (flag /\ t >= ackDeadline)
    /\ out' = "ackDecide"
    /\ UNCHANGED <<now, outVars, ackVars, notEmpty, wakeup, timer, nextTX, lastTX,
                   t, sent, inputVars, writes, lag, owed, lastAck>>

\* An ACK or a heartbeat is due, unless the session is opening: the request is
\* cleared, then nextRecv and the window are read and the ACK is written.
ClearAck ==
    /\ out = "ackDecide"
    /\ IF ~opening /\ (due \/ t - lastTX > Heartbeat)
       THEN /\ flag' = FALSE
            /\ lastAck' = IF due THEN now ELSE lastAck
            /\ out' = "ackSend"
       ELSE out' = "delayNow" /\ UNCHANGED <<flag, lastAck>>
    /\ UNCHANGED <<now, outVars, ackDeadline, notEmpty, wakeup, timer, nextTX, lastTX,
                   locals, inputVars, writes, lag, owed>>
SendAck ==
    /\ out = "ackSend"
    /\ out' = "delayNow"
    /\ owed' = None
    /\ lastTX' = now
    /\ UNCHANGED <<now, outVars, ackVars, notEmpty, wakeup, timer, nextTX, locals,
                   inputVars, writes, lag, lastAck>>

\* nextPacketOutputDelay: until the earliest of the retransmission, heartbeat
\* and ACK deadlines, from the clock reading before.
NextDelay ==
    LET deadlines == (IF buf > 0 THEN {nextTX} ELSE {})
                     \cup (IF opening THEN {} ELSE {lastTX + Heartbeat})
                     \cup (IF flag /\ ~opening THEN {ackDeadline} ELSE {})
        delay == CHOOSE d \in {x - t : x \in deadlines} : \A x \in deadlines : d <= x - t
    IN  IF deadlines = {} THEN Heartbeat
        ELSE IF delay <= 0 THEN MinInterval ELSE delay

\* resetTimer, and the loop starts again; the locals are out of scope.
ArmTimer ==
    /\ out = "delay"
    /\ out' = "wait"
    /\ timer' = now + NextDelay
    /\ t' = 0 /\ due' = FALSE /\ sent' = 0
    /\ lag' = [lag EXCEPT !["output"] = 0]
    /\ UNCHANGED <<now, outVars, ackVars, notEmpty, wakeup, nextTX, lastTX,
                   inputVars, writes, owed, lastAck>>

-----------------------------------------------------------------------------
(* The input loop.                                                         *)

\* What follows when the input loop is done with a place in its program.
Goto(place) ==
    /\ in' = place
    /\ lag' = IF place = "idle" THEN [lag EXCEPT !["input"] = 0] ELSE lag
    /\ UNCHANGED inKind

\* How many of b segments an acknowledgement may remove from sendBuf.
Acked(b) == 0..b

\* A segment arrives: an ACK, data, or the open response (no acknowledgement
\* and no window).  Acknowledged segments leave sendBuf.
Receive ==
    /\ in = "idle"
    /\ inputs < MaxInputs
    /\ inputs' = inputs + 1
    /\ \E kind \in {"ack", "data", "openResp"}, acked \in Acked(buf) :
        /\ kind = "openResp" => TRUE \in StartsOpening /\ acked = 0
        /\ inKind' = kind
        /\ buf' = buf - acked
        /\ in' = IF kind = "openResp" THEN "queue" ELSE "window"
        /\ owed' = IF kind = "ack" \/ owed # None THEN owed ELSE now
    /\ UNCHANGED <<now, queue, window, opening, ackVars, notEmpty, wakeup, timer,
                   nextTX, lastTX, out, locals, writes, lag, lastAck>>

\* remoteWindowSize.Store.
StoreWindow ==
    /\ in = "window"
    /\ window' \in Windows
    /\ Goto("queue")
    /\ UNCHANGED <<now, queue, buf, opening, ackVars, notEmpty, wakeup, timer, nextTX,
                   lastTX, out, locals, inputs, writes, owed, lastAck>>

\* The output loop is woken if there is something to send.
CheckQueue ==
    /\ in = "queue"
    /\ wakeup' = (wakeup \/ queue > 0)
    /\ Goto(IF inKind = "ack" THEN "idle" ELSE "request")
    /\ UNCHANGED <<now, outVars, ackVars, notEmpty, timer, nextTX, lastTX, out,
                   locals, inputs, writes, owed, lastAck>>

\* requestPacketAck is called before and after the segment is put in the
\* receive buffer.
AfterRequest(place) == IF place \in {"request", "deadline", "flag", "wake"} THEN "move"
                       ELSE IF inKind = "openResp" THEN "establish" ELSE "idle"
Second(place) == place \in {"request2", "deadline2", "flag2", "wake2"}

TestFlag ==
    /\ in \in {"request", "request2"}
    /\ Goto(IF flag THEN AfterRequest(in) ELSE IF Second(in) THEN "deadline2" ELSE "deadline")
    /\ UNCHANGED <<now, outVars, ackVars, notEmpty, wakeup, timer, nextTX, lastTX,
                   out, locals, inputs, writes, owed, lastAck>>
StoreDeadline ==
    /\ in \in {"deadline", "deadline2"}
    /\ ackDeadline' = now + AckDelay
    /\ Goto(IF Second(in) THEN "flag2" ELSE "flag")
    /\ UNCHANGED <<now, outVars, flag, notEmpty, wakeup, timer, nextTX, lastTX,
                   out, locals, inputs, writes, owed, lastAck>>
SetFlag ==
    /\ in \in {"flag", "flag2"}
    /\ flag' = TRUE
    /\ Goto(IF Second(in) THEN "wake2" ELSE "wake")
    /\ UNCHANGED <<now, outVars, ackDeadline, notEmpty, wakeup, timer, nextTX, lastTX,
                   out, locals, inputs, writes, owed, lastAck>>
WakeOutput ==
    /\ in \in {"wake", "wake2"}
    /\ wakeup' = TRUE
    /\ Goto(AfterRequest(in))
    /\ UNCHANGED <<now, outVars, ackVars, notEmpty, timer, nextTX, lastTX, out,
                   locals, inputs, writes, owed, lastAck>>

\* The segment is dropped (full receive window), or it is inserted and what is
\* in order moves to recvQueue; each data segment moved stores its window, the
\* one that arrived stores its own again.  The mutant requests no second ACK.
MoveWithoutRequest ==
    /\ in = "move"
    /\ owed' = IF owed # None THEN owed ELSE now
    /\ Goto(IF inKind = "openResp" THEN "establish" ELSE "idle")
    /\ UNCHANGED <<now, outVars, ackVars, notEmpty, wakeup, timer, nextTX, lastTX,
                   out, locals, inputs, writes, lastAck>>
MoveSegments ==
    /\ in = "move"
    /\ \/ /\ Goto(IF inKind = "openResp" THEN "establish" ELSE "idle")
          /\ UNCHANGED <<window, owed>>
       \/ /\ window' \in IF Reordering THEN Windows ELSE {window}
          /\ owed' = IF owed # None THEN owed ELSE now
          /\ Goto("request2")
    /\ UNCHANGED <<now, queue, buf, opening, ackVars, notEmpty, wakeup, timer, nextTX,
                   lastTX, out, locals, inputs, writes, lastAck>>

\* An open response establishes the client session and wakes the output loop.
\* From now on an ACK may be sent.  The mutant leaves the output loop asleep.
Establish ==
    /\ in = "establish"
    /\ opening' = FALSE
    /\ owed' = IF opening /\ owed # None THEN now ELSE owed
    /\ Goto("wakeEstablished")
    /\ UNCHANGED <<now, queue, buf, window, ackVars, notEmpty, wakeup, timer, nextTX,
                   lastTX, out, locals, inputs, writes, lastAck>>
WakeEstablished ==
    /\ in = "wakeEstablished"
    /\ wakeup' = TRUE
    /\ Goto("idle")
    /\ UNCHANGED <<now, outVars, ackVars, notEmpty, timer, nextTX, lastTX, out,
                   locals, inputs, writes, owed, lastAck>>

-----------------------------------------------------------------------------
(* Time passes unless a goroutine has been delayed for too long.           *)

Runnable(g) == IF g = "input" THEN in # "idle" ELSE out # "wait" \/ WakeReady
Tick ==
    /\ now < MaxTime
    /\ \A g \in {"input", "output"} : Runnable(g) => lag[g] < Latency
    /\ now' = now + 1
    /\ lag' = [g \in {"input", "output"} |-> IF Runnable(g) THEN lag[g] + 1 ELSE 0]
    /\ UNCHANGED <<outVars, ackVars, notEmpty, wakeup, timer, nextTX, lastTX, out,
                   locals, inputVars, writes, owed, lastAck>>

\* History: since when a segment could be sent and no pass has looked at it.
Sendable == queue > 0 /\ ~opening /\ buf + 1 < BufCapacity /\ SendWindow(buf, window) > 0
TrackReady ==
    ready' = IF ~Sendable' \/ out' = "send" THEN None
             ELSE IF ready = None THEN now ELSE ready

OutputStep == \/ Wake \/ Resend \/ CheckWindow \/ SendNew \/ ReadClock
              \/ CheckAck \/ ClearAck \/ SendAck \/ ArmTimer
InputLoopStep == \/ Receive \/ StoreWindow \/ CheckQueue \/ TestFlag \/ StoreDeadline
             \/ SetFlag \/ WakeOutput \/ MoveSegments \/ Establish \/ WakeEstablished

OutputNext == (QueueSegment \/ OutputStep \/ InputLoopStep \/ Tick) /\ TrackReady

OutputSpec == OutputInit /\ [][OutputNext]_outputVars

-----------------------------------------------------------------------------
(* Properties.                                                             *)

\* "a segment received concurrently either is covered by this ACK or requests a
\* new one": when the input loop is done with a segment, the ACK it is owed is
\* requested, or is about to read nextRecv.
AckKept ==
    owed # None /\ in = "idle" => flag \/ out = "ackSend"

\* "The ACK is delayed by up to packetAckDelay": whatever the interleaving, no
\* wake-up is lost, so an ACK is sent that long after the segment, plus the
\* delays of the two goroutines.  A pass that runs into the deadline of the ACK
\* arms the timer with minOutputInterval.
PromptAck ==
    owed # None /\ ~opening => now - owed < AckDelay + MinInterval + 3 * Latency

\* Writer, input loop and output loop lose no wake-up: a segment that the
\* windows allow is looked at without waiting for a timer, only for the delays
\* of the two goroutines.  When segments are reordered, the window of a segment
\* moved later may open after the last wake-up, and only the heartbeat is left.
PromptSend ==
    ready # None => now - ready <= 2 * Latency + (IF Reordering THEN Heartbeat ELSE 0)

\* No wake-up is lost, neither the one for an ACK nor the one for a segment.
NoWakeUpLost == PromptAck /\ PromptSend

\* "Segments received within this window share a single ACK, which bounds the
\* ACK rate": requested ACKs are at least packetAckDelay apart.
AckSpacing ==
    [][lastAck' # lastAck /\ lastAck # None => now - lastAck >= AckDelay]_outputVars
=============================================================================
