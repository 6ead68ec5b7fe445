--------------------------- MODULE MuxServerProofs ---------------------------
(***************************************************************************)
(* The shutdown of the server multiplexer, for any number of endpoints,    *)
(* underlays and callers: when Close has returned, no event loop is left,  *)
(* nothing is unpublished and no registered underlay is open.              *)
(***************************************************************************)
EXTENDS MuxServer, TLAPS

\* The call of Close that found the multiplexer open, before it has finished.
Closing(c) == pc[c] \in {"closing", "maintenance", "loops", "flush", "signal"}

\* How far the shutdown is: the underlay list is empty, the maintenance
\* goroutine has ended, the event loops have ended, the counters are published.
Emptied == closeDone \/ \E c \in Callers : pc[c] \in {"maintenance", "loops", "flush", "signal"}
Unmaintained == closeDone \/ \E c \in Callers : pc[c] \in {"loops", "flush", "signal"}
LoopsEnded == closeDone \/ \E c \in Callers : pc[c] \in {"flush", "signal"}
Published == closeDone \/ \E c \in Callers : pc[c] = "signal"

CallInv ==
    /\ pc \in [Callers -> {"idle", "listening", "lock", "closing", "maintenance",
                           "loops", "flush", "signal", "wait", "returned"}]
    /\ closeDone => done
    /\ \A c \in Callers : Closing(c) => done /\ ~closeDone
    /\ \A c, d \in Callers : Closing(c) /\ Closing(d) => c = d
    /\ \A c \in Callers : pc[c] = "closing" => mu = c
    /\ pc[Starter] = "listening" => mu = Starter
    /\ \A c \in Callers \ {Starter} : pc[c] = "returned" => closeDone

ProgressInv ==
    /\ event \in [Underlays -> {"none", "run", "close", "ended"}]
    /\ Unmaintained => maintenance = "ended"
    /\ LoopsEnded => \A u \in Underlays : event[u] \notin {"run", "close"}
    /\ Published => ~unpublished

OpenInv ==
    /\ underlay \in [Underlays -> {"none", "open", "closed"}]
    /\ hand \in [Endpoints -> Underlays \cup {None}]
    /\ Emptied => list = {}
    /\ \A u \in Underlays : underlay[u] = "open" =>
        \/ u \in list
        \/ event[u] \in {"run", "close"}
        \/ \E e \in Endpoints : hand[e] = u /\ loop[e] \in {"register", "discard"}

\* Only endpoints of the multiplexer, or of the call that holds mu, have a loop.
LoopInv ==
    /\ loop \in [Endpoints -> {"off", "listen", "accept", "register", "discard", "ended"}]
    /\ pc[Starter] = "idle" => ~used
    /\ ~used => \A e \in Endpoints : loop[e] = "off"
    /\ \A e \in Endpoints : loop[e] # "off" => e \in endpoints \cup batch
    /\ pc[Starter] = "listening" => batch \subseteq endpoints
    /\ batch # {} => mu = "update" \/ (mu = Starter /\ pc[Starter] = "listening")

ShutdownInv == CallInv /\ ProgressInv /\ LoopInv /\ OpenInv

\* The multiplexer starts with the invariant.
LEMMA ShutdownInit == Init => ShutdownInv
<1> SUFFICES ASSUME Init PROVE ShutdownInv
  OBVIOUS
<1>1. CallInv
  BY MuxAssumption DEF Init, CallInv, Closing, MuxAssumption
<1>2. ProgressInv
  BY DEF Init, ProgressInv, Unmaintained, LoopsEnded, Published
<1>3. OpenInv
  BY DEF Init, OpenInv, Emptied
<1>4. LoopInv
  BY DEF Init, LoopInv
<1> QED
  BY <1>1, <1>2, <1>3, <1>4 DEF ShutdownInv

\* Steps that are not of Start, UpdateEndpoints or Close leave the calls alone.
LEMMA CallFrame ==
  ASSUME CallInv, UNCHANGED <<mu, done, closeDone, pc>>
  PROVE  CallInv'
  BY DEF CallInv, Closing

\* Every step keeps the order of the calls: one closer, which holds mu while it
\* closes underlays.
LEMMA CallStep ==
  ASSUME CallInv, Next
  PROVE  CallInv'
<1> USE MuxAssumption DEF MuxAssumption
<1>1. CASE Start
  BY <1>1 DEF Start, CallInv, Closing
<1>2. CASE StartReturn
  BY <1>2 DEF StartReturn, CallInv, Closing
<1>3. CASE UpdateReturn
  BY <1>3 DEF UpdateReturn, CallInv, Closing
<1>4. ASSUME NEW new \in SUBSET Endpoints, UpdateEndpoints(new)
      PROVE  CallInv'
  BY <1>4 DEF UpdateEndpoints, CallInv, Closing
<1>5. ASSUME NEW e \in Endpoints, LoopStep(e)
      PROVE  CallInv'
  BY <1>5, CallFrame DEF LoopStep, ListenFails, ListenStream, CloseListener,
     AcceptUnderlayFails, Register, Discard, ListenPacket, AcceptUnderlay
<1>6. ASSUME NEW u \in Underlays, UnderlayStep(u)
      PROVE  CallInv'
  BY <1>6, CallFrame DEF UnderlayStep, EventPass, EventReturn, EventClose, ForwardTake, ForwardSend
<1>7. CASE Accept \/ Maintain \/ MaintainFlush \/ MaintainStop
  BY <1>7, CallFrame DEF Accept, Maintain, MaintainFlush, MaintainStop
<1>8. ASSUME NEW c \in Callers, CloseBegin(c)
      PROVE  CallInv'
  BY <1>8 DEF CloseBegin, CloseCalled, CallInv, Closing
<1>9. ASSUME NEW c \in Callers, CloseStep(c)
      PROVE  CallInv'
  <2>1. CASE AwaitMaintenance(c)
    BY <2>1 DEF AwaitMaintenance, CallInv, Closing
  <2>2. CASE AwaitLoops(c)
    BY <2>2 DEF AwaitLoops, CallInv, Closing
  <2>3. CASE FinalFlush(c)
    BY <2>3 DEF FinalFlush, CallInv, Closing
  <2>4. CASE SignalClosed(c)
    BY <2>4 DEF SignalClosed, CallInv, Closing
  <2>5. CASE AwaitClosed(c)
    BY <2>5 DEF AwaitClosed, CallInv, Closing
  <2>6. CASE CloseUnlock(c)
    BY <2>6 DEF CloseUnlock, CallInv, Closing
  <2>7. ASSUME NEW u \in Underlays, CloseUnderlay(c, u)
        PROVE  CallInv'
    BY <2>7, CallFrame DEF CloseUnderlay
  <2> QED
    BY <1>9, <2>1, <2>2, <2>3, <2>4, <2>5, <2>6, <2>7 DEF CloseStep
<1> QED
  BY <1>1, <1>2, <1>3, <1>4, <1>5, <1>6, <1>7, <1>8, <1>9 DEF Next

\* The stages of the shutdown are reached only by a closer, so an accept loop
\* that finds the multiplexer open finds it before all of them.
LEMMA StagesAfterDone ==
  ASSUME CallInv, ~done
  PROVE  ~Emptied /\ ~Unmaintained /\ ~LoopsEnded /\ ~Published
  BY DEF CallInv, Closing, Emptied, Unmaintained, LoopsEnded, Published

\* Nothing but the calls moves the stages.
LEMMA StagesFrame ==
  ASSUME UNCHANGED <<closeDone, pc>>
  PROVE  UNCHANGED <<Emptied, Unmaintained, LoopsEnded, Published>>
  BY DEF Emptied, Unmaintained, LoopsEnded, Published

\* Steps of the calls before the first wait leave the stages alone.
LEMMA StagesBefore ==
  ASSUME CallInv, NEW c \in Callers, NEW to \in {"listening", "lock", "returned", "wait", "closing"},
         pc[c] \in {"idle", "listening", "lock", "wait"},
         pc' = [pc EXCEPT ![c] = to], UNCHANGED closeDone
  PROVE  UNCHANGED <<Emptied, Unmaintained, LoopsEnded, Published>>
  BY DEF CallInv, Emptied, Unmaintained, LoopsEnded, Published

\* Every step keeps what the stages promise: the maintenance goroutine has
\* ended, then the event loops, then the counters are published.
LEMMA ProgressStep ==
  ASSUME CallInv, ProgressInv, Next
  PROVE  ProgressInv'
<1> USE MuxAssumption DEF MuxAssumption
<1> DEFINE Kept == UNCHANGED <<Emptied, Unmaintained, LoopsEnded, Published>>
<1>1. ASSUME Kept, UNCHANGED <<event, maintenance, unpublished>>
      PROVE  ProgressInv'
  BY <1>1 DEF ProgressInv
<1>2. CASE Start
  BY <1>1, <1>2, StagesBefore, Zenon DEF Start, underlayVars
<1>3. CASE StartReturn
  BY <1>1, <1>3, StagesBefore, Zenon DEF StartReturn, underlayVars
<1>4. CASE UpdateReturn \/ Accept \/ \E new \in SUBSET Endpoints : UpdateEndpoints(new)
  BY <1>1, <1>4, StagesFrame DEF UpdateReturn, UpdateEndpoints, Accept, underlayVars
<1>5. ASSUME NEW e \in Endpoints, LoopStep(e)
      PROVE  ProgressInv'
  <2>1. CASE Register(e)
    <3>1. CASE done
      BY <1>1, <2>1, <3>1, StagesFrame DEF Register, underlayVars
    <3>2. CASE ~done
      BY <2>1, <3>2, StagesFrame, StagesAfterDone DEF Register, RegisterOpen, ProgressInv
    <3> QED
      BY <3>1, <3>2
  <2>2. CASE ~Register(e)
    BY <1>1, <1>5, <2>2, StagesFrame DEF LoopStep, ListenFails, ListenStream, CloseListener,
       AcceptUnderlayFails, Discard, ListenPacket, AcceptUnderlay, Create, underlayVars
  <2> QED
    BY <2>1, <2>2
<1>6. ASSUME NEW u \in Underlays, UnderlayStep(u)
      PROVE  ProgressInv'
  <2>1. Kept
    BY <1>6, StagesFrame DEF UnderlayStep, EventPass, EventReturn, EventClose, ForwardTake, ForwardSend
  <2>2. CASE EventPass(u)
    BY <2>1, <2>2 DEF EventPass, underlayVars, ProgressInv, LoopsEnded, Published
  <2>3. CASE EventReturn(u)
    BY <2>1, <2>3 DEF EventReturn, ProgressInv
  <2>4. CASE EventClose(u)
    BY <2>1, <2>4 DEF EventClose, ProgressInv
  <2>5. CASE ForwardTake(u) \/ ForwardSend(u)
    BY <1>1, <2>1, <2>5 DEF ForwardTake, ForwardSend, underlayVars
  <2> QED
    BY <1>6, <2>2, <2>3, <2>4, <2>5 DEF UnderlayStep
<1>7. CASE Maintain \/ MaintainFlush \/ MaintainStop
  BY <1>7, StagesFrame DEF Maintain, MaintainFlush, MaintainStop, ProgressInv, underlayVars
<1>8. ASSUME NEW c \in Callers, CloseBegin(c)
      PROVE  ProgressInv'
  BY <1>1, <1>8, StagesBefore DEF CloseBegin, CloseCalled, underlayVars
<1>9. ASSUME NEW c \in Callers, CloseStep(c)
      PROVE  ProgressInv'
  <2>1. CASE AwaitMaintenance(c)
    BY <2>1 DEF AwaitMaintenance, CallInv, ProgressInv, underlayVars, Unmaintained, LoopsEnded, Published
  <2>2. CASE AwaitLoops(c)
    BY <2>2 DEF AwaitLoops, CallInv, ProgressInv, underlayVars, Unmaintained, LoopsEnded, Published
  <2>3. CASE FinalFlush(c)
    BY <2>3 DEF FinalFlush, CallInv, ProgressInv, underlayVars, Unmaintained, LoopsEnded, Published
  <2>4. CASE SignalClosed(c)
    BY <2>4 DEF SignalClosed, CallInv, ProgressInv, underlayVars, Unmaintained, LoopsEnded, Published
  <2>5. CASE AwaitClosed(c)
    BY <1>1, <2>5, StagesBefore, Zenon DEF AwaitClosed, underlayVars
  <2>6. CASE CloseUnlock(c)
    BY <2>6 DEF CloseUnlock, CallInv, ProgressInv, Unmaintained, LoopsEnded, Published
  <2>7. ASSUME NEW u \in Underlays, CloseUnderlay(c, u)
        PROVE  ProgressInv'
    BY <1>1, <2>7, StagesFrame DEF CloseUnderlay
  <2> QED
    BY <1>9, <2>1, <2>2, <2>3, <2>4, <2>5, <2>6, <2>7 DEF CloseStep
<1> QED
  BY <1>2, <1>3, <1>4, <1>5, <1>6, <1>7, <1>8, <1>9 DEF Next

\* Every step keeps the loops where they belong, so that no call starts a loop
\* a second time.
LEMMA LoopInvStep ==
  ASSUME CallInv, LoopInv, Next
  PROVE  LoopInv'
<1> USE MuxAssumption DEF MuxAssumption
<1>1. CASE Start
  BY <1>1 DEF Start, LoopInv, CallInv
<1>2. CASE StartReturn
  BY <1>2 DEF StartReturn, LoopInv, CallInv, loopVars
<1>3. CASE UpdateReturn
  BY <1>3 DEF UpdateReturn, LoopInv, CallInv, loopVars
<1>4. ASSUME NEW new \in SUBSET Endpoints, UpdateEndpoints(new)
      PROVE  LoopInv'
  BY <1>4 DEF UpdateEndpoints, LoopInv, CallInv
<1>5. ASSUME NEW e \in Endpoints, LoopStep(e)
      PROVE  LoopInv'
  <2>1. UNCHANGED <<mu, used, endpoints, batch, pc>>
    BY <1>5 DEF LoopStep, ListenFails, ListenStream, CloseListener, AcceptUnderlayFails, Register,
       Discard, ListenPacket, AcceptUnderlay, callVars
  <2>2. loop' = loop \/ (loop[e] # "off" /\ \E to \in {"off", "accept", "register", "discard", "ended"} :
                                               loop' = [loop EXCEPT ![e] = to])
    BY <1>5 DEF LoopStep, ListenFails, ListenStream, CloseListener, AcceptUnderlayFails, Register,
       RegisterOpen, Discard, ListenPacket, AcceptUnderlay, Create
  <2> QED
    BY <2>1, <2>2, SMTT(30) DEF LoopInv
<1>6. ASSUME NEW u \in Underlays, UnderlayStep(u)
      PROVE  LoopInv'
  BY <1>6 DEF UnderlayStep, EventPass, EventReturn, EventClose, ForwardTake, ForwardSend, LoopInv,
     loopVars, callVars
<1>7. CASE Accept \/ Maintain \/ MaintainFlush \/ MaintainStop
  BY <1>7 DEF Accept, Maintain, MaintainFlush, MaintainStop, LoopInv, loopVars, callVars
<1>8. ASSUME NEW c \in Callers, CloseBegin(c)
      PROVE  LoopInv'
  BY <1>8 DEF CloseBegin, CloseCalled, CallInv, LoopInv, loopVars, callVars
<1>9. ASSUME NEW c \in Callers, CloseStep(c)
      PROVE  LoopInv'
  BY <1>9 DEF CloseStep, AwaitMaintenance, AwaitLoops, FinalFlush, SignalClosed, AwaitClosed,
     CloseUnlock, CloseUnderlay, CallInv, LoopInv, loopVars, callVars
<1> QED
  BY <1>1, <1>2, <1>3, <1>4, <1>5, <1>6, <1>7, <1>8, <1>9 DEF Next

\* Every step keeps each open underlay in the list, with its event loop, or in
\* the hand of the accept loop that made it.
LEMMA OpenStep ==
  ASSUME CallInv, ProgressInv, LoopInv, OpenInv, Next
  PROVE  OpenInv'
<1> USE MuxAssumption DEF MuxAssumption
<1> DEFINE Kept == UNCHANGED <<Emptied, Unmaintained, LoopsEnded, Published>>
<1>1. ASSUME Kept, UNCHANGED <<list, underlay, event, hand>>,
             \A e \in Endpoints : loop[e] \in {"register", "discard"} => loop'[e] \in {"register", "discard"}
      PROVE  OpenInv'
  BY <1>1 DEF OpenInv
<1>2. CASE Start
  BY <1>1, <1>2, StagesBefore, Zenon DEF Start, LoopInv, underlayVars
<1>3. CASE StartReturn
  BY <1>1, <1>3, StagesBefore, Zenon DEF StartReturn, underlayVars, loopVars
<1>4. CASE UpdateReturn \/ Accept \/ MaintainFlush \/ MaintainStop
  BY <1>1, <1>4, StagesFrame DEF UpdateReturn, Accept, MaintainFlush, MaintainStop, underlayVars, loopVars
<1>5. ASSUME NEW new \in SUBSET Endpoints, UpdateEndpoints(new)
      PROVE  OpenInv'
  <2>1. \A e \in Endpoints : loop[e] \in {"register", "discard"} => loop'[e] \in {"register", "discard"}
    BY <1>5 DEF UpdateEndpoints, LoopInv
  <2> QED
    BY <1>1, <1>5, <2>1, StagesFrame DEF UpdateEndpoints, underlayVars
<1>6. ASSUME NEW e \in Endpoints, LoopStep(e)
      PROVE  OpenInv'
  <2>1. Kept
    BY <1>6, StagesFrame DEF LoopStep, ListenFails, ListenStream, CloseListener, AcceptUnderlayFails,
       Register, Discard, ListenPacket, AcceptUnderlay
  <2>2. CASE ListenFails(e) \/ ListenStream(e) \/ CloseListener(e) \/ AcceptUnderlayFails(e)
    BY <1>1, <2>1, <2>2 DEF ListenFails, ListenStream, CloseListener, AcceptUnderlayFails, LoopInv,
       underlayVars
  <2>3. ASSUME NEW u \in Underlays, Create(e, u), loop[e] \notin {"register", "discard"}
        PROVE  OpenInv'
    BY <2>1, <2>3 DEF Create, LoopInv, OpenInv
  <2>4. CASE Register(e)
    <3>1. CASE done
      BY <1>1, <2>1, <2>4, <3>1 DEF Register, underlayVars, LoopInv
    <3>2. CASE ~done
      <4>1. ~Emptied'
        BY <2>1, <3>2, StagesAfterDone
      <4>2. PICK idle \in IdleSets(list) : CleanUnderlay(list \cup {hand[e]}, idle)
        BY <2>4, <3>2, Zenon DEF Register, RegisterOpen
      <4> QED
        BY <2>4, <3>2, <4>1, <4>2 DEF Register, RegisterOpen, CleanUnderlay, IdleSets, OpenInv, LoopInv,
           ProgressInv
    <3> QED
      BY <3>1, <3>2
  <2>5. CASE Discard(e)
    <3>1. ASSUME NEW u \in Underlays, underlay'[u] = "open"
          PROVE  underlay[u] = "open" /\ hand[e] # u
      BY <2>5, <3>1, SMTT(30) DEF Discard, OpenInv
    <3>2. \A f \in Endpoints : f # e => hand'[f] = hand[f] /\ loop'[f] = loop[f]
      BY <2>5 DEF Discard, OpenInv, LoopInv
    <3>3. underlay' \in [Underlays -> {"none", "open", "closed"}] /\ hand' \in [Endpoints -> Underlays \cup {None}]
      BY <2>5, Zenon DEF Discard, OpenInv
    <3> QED
      BY <2>1, <2>5, <3>1, <3>2, <3>3 DEF Discard, OpenInv
  <2> QED
    BY <1>6, <2>2, <2>3, <2>4, <2>5 DEF LoopStep, ListenPacket, AcceptUnderlay, Underlays
<1>7. ASSUME NEW u \in Underlays, UnderlayStep(u)
      PROVE  OpenInv'
  BY <1>7, StagesFrame, SMTT(30) DEF UnderlayStep, EventPass, EventReturn, EventClose, ForwardTake, ForwardSend,
     OpenInv, ProgressInv, underlayVars, loopVars
<1>8. CASE Maintain
  <2>1. Kept /\ UNCHANGED <<event, hand, loop>>
    BY <1>8, StagesFrame DEF Maintain, loopVars
  <2>2. PICK idle \in IdleSets(list) : CleanUnderlay(list, idle)
    BY <1>8 DEF Maintain
  <2> QED
    BY <2>1, <2>2 DEF CleanUnderlay, IdleSets, OpenInv
<1>9. ASSUME NEW c \in Callers, CloseBegin(c)
      PROVE  OpenInv'
  BY <1>1, <1>9, StagesBefore DEF CloseBegin, CloseCalled, underlayVars, loopVars
<1>10. ASSUME NEW c \in Callers, CloseStep(c)
       PROVE  OpenInv'
  <2>1. CASE AwaitMaintenance(c) \/ AwaitLoops(c) \/ FinalFlush(c) \/ SignalClosed(c)
    <3>1. UNCHANGED <<list, underlay, event, hand, loop>>
      BY <2>1 DEF AwaitMaintenance, AwaitLoops, FinalFlush, SignalClosed, underlayVars, loopVars
    <3>2. Emptied
      BY <2>1 DEF AwaitMaintenance, AwaitLoops, FinalFlush, SignalClosed, Emptied
    <3> QED
      BY <3>1, <3>2 DEF OpenInv
  <2>2. CASE AwaitClosed(c)
    BY <1>1, <2>2, StagesBefore, ZenonT(30) DEF AwaitClosed, underlayVars, loopVars
  <2>3. CASE CloseUnlock(c)
    BY <2>3, ZenonT(30) DEF CloseUnlock, OpenInv, loopVars
  <2>4. ASSUME NEW u \in Underlays, CloseUnderlay(c, u)
        PROVE  OpenInv'
    <3>1. Kept /\ UNCHANGED <<list, event, hand, loop>>
      BY <2>4, StagesFrame DEF CloseUnderlay, loopVars
    <3>2. underlay' = [underlay EXCEPT ![u] = "closed"]
      BY <2>4 DEF CloseUnderlay
    <3> QED
      BY <3>1, <3>2, Zenon DEF OpenInv
  <2> QED
    BY <1>10, <2>1, <2>2, <2>3, <2>4, ZenonT(60) DEF CloseStep
<1> QED
  BY <1>2, <1>3, <1>4, <1>5, <1>6, <1>7, <1>8, <1>9, <1>10 DEF Next

\* Steps that change nothing keep the invariant.
LEMMA ShutdownStutter ==
  ASSUME ShutdownInv, UNCHANGED vars
  PROVE  ShutdownInv'
<1>1. CallInv' /\ LoopInv'
  BY DEF ShutdownInv, CallInv, LoopInv, Closing, vars, callVars, loopVars
<1>2. ProgressInv' /\ OpenInv'
  BY StagesFrame DEF ShutdownInv, ProgressInv, OpenInv, vars, loopVars, underlayVars
<1> QED
  BY <1>1, <1>2 DEF ShutdownInv

\* The invariant of the shutdown holds for any number of endpoints, underlays
\* and concurrent calls of Close.
LEMMA Shutdown == Spec => []ShutdownInv
<1>1. ShutdownInv /\ [Next]_vars => ShutdownInv'
  BY CallStep, ProgressStep, LoopInvStep, OpenStep, ShutdownStutter DEF ShutdownInv
<1> QED
  BY <1>1, ShutdownInit, PTL DEF Spec

\* The flush at the end of Close is the last publication: a call of Close that
\* has returned leaves no event loop that could count and nothing unpublished.
THEOREM LastPublication == Spec => []FinalPublication
<1>1. ShutdownInv => FinalPublication
  BY DEF ShutdownInv, CallInv, ProgressInv, LoopsEnded, Published, FinalPublication
<1> QED
  BY <1>1, Shutdown, PTL

\* Close leaves no registered underlay open, whatever the accept loops and the
\* maintenance goroutine did before it took the lock.
THEOREM NoUnderlayLeftOpen == Spec => []NoneLeftOpen
<1>1. ShutdownInv => NoneLeftOpen
  BY DEF ShutdownInv, ProgressInv, OpenInv, LoopsEnded, Emptied, NoneLeftOpen
<1> QED
  BY <1>1, Shutdown, PTL
\* What a failing listener leaves: only Start listens under its own mu, and
\* without an error every endpoint of the multiplexer has its loop.
UpdateInv ==
    /\ acceptErr \in BOOLEAN /\ endpoints \subseteq Endpoints /\ batch \subseteq Endpoints
    /\ mu = Starter => pc[Starter] \in {"listening", "closing"}
    /\ pc[Starter] # "idle" => used
    /\ pc[Starter] = "listening" =>
        batch = endpoints /\ (acceptErr \/ \A e \in endpoints : loop[e] # "off")
    /\ pc[Starter] = "returned" =>
        done \/ (~acceptErr /\ \A e \in endpoints : loop[e] \notin {"off", "listen"})

\* Every step keeps a failing listener of UpdateEndpoints away from Accept and
\* from m.endpoints.
LEMMA UpdateStep ==
  ASSUME CallInv, LoopInv, UpdateInv, Next
  PROVE  UpdateInv'
<1> USE MuxAssumption DEF MuxAssumption
<1>1. CASE Start
  BY <1>1 DEF Start, UpdateInv, CallInv, LoopInv
<1>2. CASE StartReturn
  <2>1. /\ acceptErr' = acceptErr /\ endpoints' = endpoints /\ loop' = loop /\ used' = used /\ done' = done /\ batch' = {}
        /\ mu' = "free" /\ pc[Starter] = "listening" /\ \A e \in batch : loop[e] # "listen"
        /\ pc' = [pc EXCEPT ![Starter] = IF acceptErr THEN "lock" ELSE "returned"]
    BY <1>2, Zenon DEF StartReturn, loopVars
  <2>2. Starter \in DOMAIN pc /\ mu' # Starter
    BY <2>1, Zenon DEF CallInv
  <2>3. CASE acceptErr
    BY <2>1, <2>2, <2>3 DEF UpdateInv
  <2>4. CASE ~acceptErr
    BY <2>1, <2>2, <2>4 DEF UpdateInv
  <2> QED
    BY <2>3, <2>4
<1>3. CASE UpdateReturn
  BY <1>3 DEF UpdateReturn, UpdateInv, CallInv, loopVars
<1>4. ASSUME NEW new \in SUBSET Endpoints, UpdateEndpoints(new)
      PROVE  UpdateInv'
  <2>1. UNCHANGED <<pc, done, acceptErr, used>> /\ pc[Starter] # "listening" /\ mu' # Starter
    BY <1>4 DEF UpdateEndpoints, CallInv
  <2>2. used => endpoints' = endpoints /\ \A e \in endpoints : loop'[e] = loop[e]
    BY <1>4 DEF UpdateEndpoints, LoopInv, UpdateInv
  <2>3. endpoints' \subseteq Endpoints /\ batch' \subseteq Endpoints
    BY <1>4 DEF UpdateEndpoints, UpdateInv
  <2> QED
    BY <2>1, <2>2, <2>3, Zenon DEF UpdateInv
<1>5. ASSUME NEW e \in Endpoints, LoopStep(e)
      PROVE  UpdateInv'
  <2>1. UNCHANGED <<mu, used, done, endpoints, batch, pc>>
    BY <1>5 DEF LoopStep, ListenFails, ListenStream, CloseListener, AcceptUnderlayFails, Register,
       Discard, ListenPacket, AcceptUnderlay, callVars
  <2>2. CASE ListenFails(e)
    <3>1. loop[e] = "listen" /\ loop' = [loop EXCEPT ![e] = "off"] /\ acceptErr' = (acceptErr \/ mu = Starter)
      BY <2>2, Zenon DEF ListenFails
    <3>2. pc[Starter] = "listening" => acceptErr'
      BY <3>1, Zenon DEF CallInv
    <3>3. pc[Starter] = "returned" => mu # Starter
      BY DEF UpdateInv
    <3>4. pc[Starter] = "returned" /\ ~done =>
            acceptErr' = acceptErr /\ \A f \in endpoints : loop'[f] = loop[f]
      BY <3>1, <3>3 DEF UpdateInv, LoopInv
    <3>5. acceptErr' \in BOOLEAN
      BY <3>1, Zenon
    <3> QED
      BY <2>1, <3>2, <3>4, <3>5, Zenon DEF UpdateInv
  <2>3. CASE ~ListenFails(e)
    <3>1. acceptErr' = acceptErr
      BY <1>5, <2>3, Zenon DEF LoopStep, ListenStream, CloseListener, AcceptUnderlayFails, Register,
         Discard, ListenPacket, AcceptUnderlay, callVars
    <3>2. loop' = loop \/ \E to \in {"accept", "register", "discard", "ended"} : loop' = [loop EXCEPT ![e] = to]
      BY <1>5, <2>3, SMTT(30) DEF LoopStep, ListenStream, CloseListener, AcceptUnderlayFails, Register,
         RegisterOpen, Discard, ListenPacket, AcceptUnderlay, Create
    <3> QED
      BY <2>1, <3>1, <3>2 DEF UpdateInv, LoopInv
  <2> QED
    BY <2>2, <2>3, SMTT(30)
<1>6. ASSUME NEW u \in Underlays, UnderlayStep(u)
      PROVE  UpdateInv'
  BY <1>6, SMTT(30) DEF UnderlayStep, EventPass, EventReturn, EventClose, ForwardTake, ForwardSend, UpdateInv,
     loopVars, callVars
<1>7. CASE Accept \/ Maintain \/ MaintainFlush \/ MaintainStop
  BY <1>7 DEF Accept, Maintain, MaintainFlush, MaintainStop, UpdateInv, loopVars, callVars
<1>8. ASSUME NEW c \in Callers, CloseBegin(c)
      PROVE  UpdateInv'
  BY <1>8 DEF CloseBegin, CloseCalled, CallInv, UpdateInv, loopVars, callVars
<1>9. ASSUME NEW c \in Callers, CloseStep(c)
      PROVE  UpdateInv'
  <2>1. UNCHANGED <<done, callVars, loopVars>>
    BY <1>9, SMTT(30) DEF CloseStep, AwaitMaintenance, AwaitLoops, FinalFlush, SignalClosed, AwaitClosed,
       CloseUnlock, CloseUnderlay
  <2>2. pc'[c] = "returned" => done
    BY <1>9, SMTT(30) DEF CloseStep, AwaitMaintenance, AwaitLoops, FinalFlush, SignalClosed, AwaitClosed,
       CloseUnlock, CloseUnderlay, CallInv, Closing
  <2>3. /\ pc[c] \in {"closing", "maintenance", "loops", "flush", "signal", "wait"}
        /\ \E to \in {"closing", "maintenance", "loops", "flush", "signal", "returned"} :
              pc' = [pc EXCEPT ![c] = to]
        /\ mu' = "free" \/ (mu' = mu /\ (pc[c] = "closing" => pc' = pc))
    BY <1>9 DEF CloseStep, AwaitMaintenance, AwaitLoops, FinalFlush, SignalClosed, AwaitClosed,
       CloseUnlock, CloseUnderlay, CallInv
  <2> QED
    BY <2>1, <2>2, <2>3 DEF UpdateInv, CallInv, callVars, loopVars
<1> QED
  BY <1>1, <1>2, <1>3, <1>4, <1>5, <1>6, <1>7, <1>8, <1>9 DEF Next

\* UpdateEndpoints returns the errors of its listeners without stopping the
\* multiplexer, and every endpoint it keeps has an accept loop.
THEOREM UpdateIsHarmless == Spec => []UpdateHarmless
<1>1. Init => UpdateInv
  BY MuxAssumption, Zenon DEF Init, UpdateInv, MuxAssumption
<1>2. ShutdownInv /\ UpdateInv /\ [Next]_vars => UpdateInv'
  <2>1. ASSUME UpdateInv, UNCHANGED vars
        PROVE  UpdateInv'
    BY <2>1 DEF UpdateInv, vars, callVars, loopVars
  <2> QED
    BY <2>1, UpdateStep DEF ShutdownInv
<1>3. UpdateInv => UpdateHarmless
  BY DEF UpdateInv, UpdateHarmless
<1> QED
  BY <1>1, <1>2, <1>3, Shutdown, PTL DEF Spec
=============================================================================
