------------------------------ MODULE MuxClient ------------------------------
(***************************************************************************)
(* The client multiplexer (pkg/protocol/mux.go), the ScheduleController of *)
(* its underlays (pkg/protocol/scheduler.go), and the start and stop of    *)
(* the client that owns it (apis/client/client.go).  Concurrent calls of   *)
(* DialContext pick an underlay, or dial a new one, while maintenance      *)
(* disables and closes idle underlays.  Ages are in ticks; what a dial     *)
(* does without blocking takes less than two ticks.                        *)
(***************************************************************************)
EXTENDS Integers, FiniteSets

CONSTANTS
    Dialers,     \* calls of DialContext; each makes at most one session
    Underlays,   \* the underlays that can be dialled
    IdleTime     \* scheduleIdleTime

None == "none"
Enabled == -1    \* the age of a zero disableTime

ASSUME ClientAssumption == IdleTime \in Nat \ {0} /\ None \notin Underlays

VARIABLES
    running,     \* mieruClient.running
    done,        \* m.done is closed
    list,        \* m.underlays
    underlay,    \* Underlays -> "none", "open" or "closed"
    loop,        \* Underlays -> whether the event loop runs
    pending,     \* Underlays -> ScheduleController.pending
    scheduled,   \* Underlays -> age of lastScheduleTime; zero is long ago
    disabled,    \* Underlays -> age of disableTime, Enabled if zero
    pc,          \* Dialers -> position in DialContext
    target,      \* Dialers -> the variable `underlay` of DialContext
    late,        \* Dialers -> a tick has passed since the last blocking step
    session,     \* Dialers -> "none", "open" or "closed"
    sessionMap,  \* Underlays -> the sessions in its map
    cleaned      \* history: the underlays that cleanUnderlay closed

schedVars == <<pending, scheduled, disabled>>
dialVars == <<pc, target, late>>
vars == <<running, done, list, underlay, loop, schedVars, dialVars, session, sessionMap, cleaned>>

Age == 0 .. IdleTime + 1

TypeOK ==
    /\ running \in BOOLEAN /\ done \in BOOLEAN
    /\ list \subseteq Underlays
    /\ underlay \in [Underlays -> {"none", "open", "closed"}]
    /\ loop \in [Underlays -> BOOLEAN]
    /\ pending \in [Underlays -> -Cardinality(Dialers) .. Cardinality(Dialers)]
    /\ scheduled \in [Underlays -> Age]
    /\ disabled \in [Underlays -> Age \cup {Enabled}]
    /\ pc \in [Dialers -> {"idle", "begin", "dial", "inc", "again", "incAgain", "add", "dec", "returned"}]
    /\ target \in [Dialers -> Underlays \cup {None}]
    /\ late \in [Dialers -> BOOLEAN]
    /\ session \in [Dialers -> {"none", "open", "closed"}]
    /\ sessionMap \in [Underlays -> SUBSET Dialers]
    /\ cleaned \subseteq Underlays

Init ==
    /\ running = TRUE /\ done = FALSE
    /\ list = {}
    /\ underlay = [u \in Underlays |-> "none"]
    /\ loop = [u \in Underlays |-> FALSE]
    /\ pending = [u \in Underlays |-> 0]
    /\ scheduled = [u \in Underlays |-> IdleTime + 1]
    /\ disabled = [u \in Underlays |-> Enabled]
    /\ pc = [d \in Dialers |-> "idle"]
    /\ target = [d \in Dialers |-> None]
    /\ late = [d \in Dialers |-> FALSE]
    /\ session = [d \in Dialers |-> "none"]
    /\ sessionMap = [u \in Underlays |-> {}]
    /\ cleaned = {}

-----------------------------------------------------------------------------
(* ScheduleController.                                                     *)

\* time.Since(disableTime) > 0: in the tick of disableTime either may be read.
MayBeDisabled(u) == disabled[u] # Enabled
MayBeEnabled(u) == disabled[u] \in {Enabled, 0}

\* Mutant: an underlay counts as idle as soon as it is disabled.
IdleOnceDisabled(u) == disabled[u] # Enabled /\ scheduled[u] > 0

Idle(u) ==
    /\ disabled[u] # Enabled
    /\ disabled[u] > IdleTime
    /\ scheduled[u] > IdleTime

\* time.Since(lastScheduleTime) < scheduleIdleTime keeps the underlay.
CanDisableIdle(u) ==
    /\ disabled[u] = Enabled
    /\ pending[u] <= 0
    /\ scheduled[u] >= IdleTime

\* IncPending on an underlay that is not disabled, and DecPending.
IncPending(u) ==
    /\ pending' = [pending EXCEPT ![u] = @ + 1]
    /\ scheduled' = [scheduled EXCEPT ![u] = 0]
    /\ UNCHANGED disabled

DecPending(u) ==
    /\ pending' = [pending EXCEPT ![u] = @ - 1]
    /\ scheduled' = [scheduled EXCEPT ![u] = 0]
    /\ UNCHANGED disabled

-----------------------------------------------------------------------------
(* Closing underlays, and maintenance.                                     *)

\* Close of the underlays in us: their sessions are closed first.
CloseUnderlays(us) ==
    /\ underlay' = [u \in Underlays |-> IF u \in us THEN "closed" ELSE underlay[u]]
    /\ session' = [d \in Dialers |->
                      IF \E u \in us : d \in sessionMap[u] THEN "closed" ELSE session[d]]

OpenOnes == {u \in list : underlay[u] = "open"}
ToClose == {u \in OpenOnes : sessionMap[u] = {} /\ Idle(u)}

\* cleanUnderlay(true): forget closed underlays, close idle ones, disable those
\* without sessions and those with too much traffic.
CleanUnderlay(overloaded) ==
    /\ overloaded \subseteq OpenOnes
    /\ CloseUnderlays(ToClose)
    /\ list' = OpenOnes \ ToClose
    /\ cleaned' = cleaned \cup ToClose
    /\ disabled' = [u \in Underlays |->
           IF \/ u \in OpenOnes /\ sessionMap[u] = {} /\ CanDisableIdle(u)
              \/ u \in overloaded /\ disabled[u] = Enabled
           THEN 0 ELSE disabled[u]]

\* A tick of the cleaner; the maintenance goroutine ends when m.done is closed.
Maintain(overloaded) ==
    /\ ~done
    /\ CleanUnderlay(overloaded)
    /\ UNCHANGED <<running, done, loop, pending, scheduled, dialVars, sessionMap>>

\* cleanSessions of the event loop takes closed sessions out of the map.
CleanSessions(u) ==
    /\ loop[u]
    /\ \E d \in sessionMap[u] : session[d] = "closed"
    /\ sessionMap' = [sessionMap EXCEPT ![u] = {d \in @ : session[d] # "closed"}]
    /\ UNCHANGED <<running, done, list, underlay, loop, schedVars, dialVars, session, cleaned>>

\* RunEventLoop returns, because of an error or because the underlay is closed,
\* and the goroutine closes the underlay.
EndEventLoop(u) ==
    /\ loop[u]
    /\ loop' = [loop EXCEPT ![u] = FALSE]
    /\ CloseUnderlays({u})
    /\ UNCHANGED <<running, done, list, schedVars, dialVars, sessionMap, cleaned>>

-----------------------------------------------------------------------------
(* DialContext.                                                            *)

Goto(d, position, u) ==
    /\ pc' = [pc EXCEPT ![d] = position]
    /\ target' = [target EXCEPT ![d] = u]
    /\ late' = [late EXCEPT ![d] = FALSE]

\* The client API looks at `running` before it calls the multiplexer.
CallDial(d) ==
    /\ pc[d] = "idle"
    /\ running
    /\ Goto(d, "begin", None)
    /\ UNCHANGED <<running, done, list, underlay, loop, schedVars, session, sessionMap, cleaned>>

\* The first critical section: clean, then pick an active underlay or none.
DialBegin(d) ==
    /\ pc[d] = "begin"
    /\ \E overloaded \in SUBSET list : CleanUnderlay(overloaded)
    /\ \/ Goto(d, "dial", None)
       \/ \E u \in list' :
             /\ underlay[u] = "open"
             /\ disabled'[u] \in {Enabled, 0}
             /\ Goto(d, "inc", u)
    /\ UNCHANGED <<running, done, loop, pending, scheduled, session, sessionMap>>

\* newUnderlay dials without the lock, appends and starts the event loop.
NewUnderlay(d, u) ==
    /\ pc[d] \in {"dial", "again"}
    /\ underlay[u] = "none"
    /\ underlay' = [underlay EXCEPT ![u] = "open"]
    /\ list' = list \cup {u}
    /\ loop' = [loop EXCEPT ![u] = TRUE]
    /\ Goto(d, IF pc[d] = "dial" THEN "inc" ELSE "incAgain", u)
    /\ UNCHANGED <<running, done, schedVars, session, sessionMap, cleaned>>

NewUnderlayFails(d) ==
    /\ pc[d] \in {"dial", "again"}
    /\ Goto(d, "returned", None)
    /\ UNCHANGED <<running, done, list, underlay, loop, schedVars, session, sessionMap, cleaned>>

\* IncPending; when it refuses, a second underlay is dialled, and there the
\* answer of IncPending is ignored.
DialInc(d) ==
    /\ pc[d] \in {"inc", "incAgain"}
    /\ \/ /\ MayBeEnabled(target[d])
          /\ IncPending(target[d])
          /\ pc' = [pc EXCEPT ![d] = "add"]
       \/ /\ MayBeDisabled(target[d])
          /\ pc' = [pc EXCEPT ![d] = IF pc[d] = "inc" THEN "again" ELSE "add"]
          /\ UNCHANGED schedVars
    /\ UNCHANGED <<running, done, list, underlay, loop, target, late, session, sessionMap, cleaned>>

\* AddSession does not look whether the underlay is closed.
DialAdd(d) ==
    /\ pc[d] = "add"
    /\ session' = [session EXCEPT ![d] = "open"]
    /\ sessionMap' = [sessionMap EXCEPT ![target[d]] = @ \cup {d}]
    /\ pc' = [pc EXCEPT ![d] = "dec"]
    /\ UNCHANGED <<running, done, list, underlay, loop, schedVars, target, late, cleaned>>

\* The deferred DecPending, and return.
DialReturn(d) ==
    /\ pc[d] = "dec"
    /\ DecPending(target[d])
    /\ pc' = [pc EXCEPT ![d] = "returned"]
    /\ UNCHANGED <<running, done, list, underlay, loop, target, late, session, sessionMap, cleaned>>

-----------------------------------------------------------------------------
(* The application closes a session, the client is stopped, time passes.   *)

CloseSession(d) ==
    /\ session[d] = "open"
    /\ session' = [session EXCEPT ![d] = "closed"]
    /\ UNCHANGED <<running, done, list, underlay, loop, schedVars, dialVars, sessionMap, cleaned>>

\* mieruClient.Stop: the flag, then Mux.Close.
Stop ==
    /\ running
    /\ running' = FALSE
    /\ UNCHANGED <<done, list, underlay, loop, schedVars, dialVars, session, sessionMap, cleaned>>

CloseMux ==
    /\ ~running
    /\ ~done
    /\ done' = TRUE
    /\ CloseUnderlays(OpenOnes)
    /\ list' = {}
    /\ UNCHANGED <<running, loop, schedVars, dialVars, sessionMap, cleaned>>

Older(age) == IF age \in {Enabled, IdleTime + 1} THEN age ELSE age + 1

Quick(d) == pc[d] \in {"inc", "incAgain", "add", "dec"}

Tick ==
    /\ \A d \in Dialers : Quick(d) => ~late[d]
    /\ late' = [d \in Dialers |-> Quick(d)]
    /\ scheduled' = [u \in Underlays |-> Older(scheduled[u])]
    /\ disabled' = [u \in Underlays |-> Older(disabled[u])]
    /\ UNCHANGED <<running, done, list, underlay, loop, pending, pc, target, session, sessionMap,
                   cleaned>>

DialStep(d) == DialInc(d) \/ DialAdd(d) \/ DialReturn(d)

Next ==
    \/ \E d \in Dialers : CallDial(d) \/ DialBegin(d) \/ DialStep(d)
    \/ \E d \in Dialers : NewUnderlayFails(d) \/ CloseSession(d)
    \/ \E d \in Dialers, u \in Underlays : NewUnderlay(d, u)
    \/ \E u \in Underlays : CleanSessions(u) \/ EndEventLoop(u)
    \/ \E overloaded \in SUBSET list : Maintain(overloaded)
    \/ Stop \/ CloseMux \/ Tick

Spec == Init /\ [][Next]_vars

\* Time passes, the cleaner ticks, event loops run, and a goroutine that can run
\* does.  No application has to close its session or to send too much.
Fairness ==
    /\ WF_vars(Tick) /\ WF_vars(Maintain({}))
    /\ \A u \in Underlays : WF_vars(CleanSessions(u))
    /\ \A u \in Underlays : WF_vars(underlay[u] = "closed" /\ EndEventLoop(u))
    /\ \A d \in Dialers : WF_vars(DialStep(d)) /\ WF_vars(NewUnderlayFails(d))

FairSpec == Spec /\ Fairness

-----------------------------------------------------------------------------
(* Properties.                                                             *)

\* Cleaning and dialling race: an underlay is picked, or made, under the lock and
\* used without it.  An underlay that cleaning closed never gets a session, nor
\* is a dial about to add one, because the idle time starts again with IncPending
\* and with the disabling.
NoSessionOnCleaned ==
    \A u \in cleaned :
        /\ sessionMap[u] = {}
        /\ \A d \in Dialers : pc[d] = "add" => target[d] # u

\* The client does not keep a connection nobody uses: while the multiplexer
\* runs, an underlay has a session again and again, or is closed.
UnusedIsClosed ==
    \A u \in Underlays : []<>(underlay[u] # "open" \/ sessionMap[u] # {} \/ done)
=============================================================================
