----------------------------- MODULE SidecarLink -----------------------------
(***************************************************************************)
(* The link between the Pi adapter and its Sidecar process: the lifecycle  *)
(* of MentisSidecarClient (sidecar-client.ts), the part of the adapter     *)
(* that moves its branch (index.ts), and of the Sidecar what the link can  *)
(* observe (sidecar.ts, session.open and session.branch of                 *)
(* sidecar-runtime.ts).                                                    *)
(*                                                                         *)
(* One Pi session is followed. Its branch is known by its generation, a    *)
(* number session_tree increments; a session key is thus a generation.     *)
(*                                                                         *)
(* The client runs one handler at a time, and the continuations of its     *)
(* promises run before the next handler: while `run` is in Microtask only  *)
(* the continuation may act. The Sidecar runs concurrently and is reached  *)
(* over two FIFO pipes.                                                    *)
(***************************************************************************)
EXTENDS Integers, Sequences, FiniteSets

CONSTANTS
    MaxGen,        \* bound: branch generations
    MaxChildren,   \* bound: processes forked; the last one does not crash
    MaxNotes,      \* bound: notifications other than session.branch
    MaxFailures,   \* bound: requests that time out or are answered by an error
    BacklogLimit   \* notifications kept while the Sidecar is not ready (512)

ASSUME BoundsAssumption ==
    /\ MaxGen \in Nat /\ MaxNotes \in Nat /\ MaxFailures \in Nat
    /\ MaxChildren \in Nat \ {0} /\ BacklogLimit \in Nat \ {0}

NoKey == -1
Note == -2          \* a notification other than session.branch, in the backlog
NoChild == 0

VARIABLES
    \* the adapter
    gen,          \* branchGeneration
    notes,        \* notifications sent, for the bound
    shed,         \* history: a branch change was shifted out of the backlog
    \* the client
    phase,        \* "open", or close() is "stopping", or it is "closed"
    lifecycle,    \* #state
    desired,      \* #desiredRunning
    want,         \* key of #sessionOpen
    activeKey,    \* #activeSessionKey
    child,        \* #child
    connected,    \* child.connected
    ready,        \* #ready
    initialized,  \* #initialized
    run,          \* where the promise #running stands
    req,          \* #sequence, the id of the latest request
    runKey,       \* the key the latest session.open request carried
    timer,        \* #restartTimer is set
    timerWaits,   \* the callback of the restart timer awaits #running
    retrying,     \* #restartAttempt > 0
    backlog,      \* #notificationBacklog
    failures,     \* requests that failed, for the bound
    \* the Sidecar process and the pipes
    spawned,      \* processes forked so far
    alive,        \* the processes that run
    toChild,      \* messages on their way to the child
    toClient,     \* responses on their way to the client
    working,      \* requests the child is working on
    sess,         \* branchGeneration of the child's session, or NoKey
    missed        \* history: a notification reached a child without a session

adapterVars == <<gen, notes, shed>>
linkVars == <<phase, lifecycle, desired, want, activeKey>>
childVars == <<child, connected, ready, initialized>>
runVars == <<run, req, runKey, timer, timerWaits, retrying, backlog, failures>>
processVars == <<spawned, alive, toChild, toClient, working, sess, missed>>
vars == <<adapterVars, linkVars, childVars, runVars, processVars>>

Started == want # NoKey
Microtask == {"begin", "step", "finish", "failed"}
Idle == run \notin Microtask

Init ==
    /\ gen = 0 /\ notes = 0 /\ shed = FALSE
    /\ phase = "open" /\ lifecycle = "stopped" /\ desired = FALSE
    /\ want = NoKey /\ activeKey = NoKey
    /\ child = NoChild /\ connected = FALSE /\ ready = FALSE /\ initialized = FALSE
    /\ run = "none" /\ req = 0 /\ runKey = NoKey
    /\ timer = FALSE /\ timerWaits = FALSE /\ retrying = FALSE
    /\ backlog = <<>> /\ failures = 0
    /\ spawned = 0 /\ alive = {} /\ toChild = <<>> /\ toClient = <<>>
    /\ working = {} /\ sess = NoKey /\ missed = FALSE

-----------------------------------------------------------------------------
(* The client: start(), call() and the single-flight #ensureRunning()      *)

\* Mutant: a caller starts a run of its own whatever is under way.
RunAfterEnsureForked ==
    IF ready /\ initialized /\ connected /\ activeKey = gen THEN run ELSE "begin"

\* #ensureRunning: nothing to do, join the run under way, or begin one. A
\* caller sets #sessionOpen to the adapter's branch before it gets here.
RunAfterEnsure ==
    IF ready /\ initialized /\ connected /\ activeKey = gen THEN run
    ELSE IF run # "none" THEN run
    ELSE "begin"

\* openConfiguredSession -> start(): at session_start, and again whenever a
\* tool finds the session not ready. It cancels a scheduled restart.
Start ==
    /\ Idle /\ phase = "open"
    /\ want' = gen
    /\ desired' = TRUE
    /\ timer' = FALSE
    /\ run' = RunAfterEnsure
    /\ UNCHANGED <<adapterVars, phase, lifecycle, activeKey, childVars, req, runKey,
                   timerWaits, retrying, backlog, failures, processVars>>

\* call(): any other request, which first ensures that the Sidecar runs.
Call ==
    /\ Idle /\ phase = "open" /\ Started
    /\ desired' = TRUE
    /\ run' = RunAfterEnsure
    /\ UNCHANGED <<adapterVars, phase, lifecycle, want, activeKey, childVars, req, runKey,
                   timer, timerWaits, retrying, backlog, failures, processVars>>

\* #spawn()
Spawn ==
    /\ spawned' = spawned + 1
    /\ child' = spawned + 1
    /\ alive' = alive \cup {spawned + 1}
    /\ connected' = TRUE
    /\ ready' = FALSE
    /\ initialized' = FALSE
    /\ toChild' = <<>> /\ toClient' = <<>> /\ working' = {} /\ sess' = NoKey
    /\ UNCHANGED missed

SpawnIfNeeded ==
    IF child # NoChild THEN UNCHANGED <<childVars, processVars>> ELSE Spawn

RunBegin ==
    /\ run = "begin"
    /\ lifecycle' = IF retrying THEN "restarting" ELSE "starting"
    /\ SpawnIfNeeded
    /\ run' = "step"
    /\ UNCHANGED <<adapterVars, phase, desired, want, activeKey, req, runKey, timer,
                   timerWaits, retrying, backlog, failures>>

\* #request(): a request to a child that is gone fails at once, and the number
\* it took, which nobody ever sees, is not counted.
Request(kind, next) ==
    IF connected
    THEN /\ req' = req + 1
         /\ toChild' = Append(toChild, [kind |-> kind, id |-> req + 1, key |-> want])
         /\ run' = next
    ELSE /\ run' = "failed"
         /\ UNCHANGED <<req, toChild>>

\* The next await of the run: initialize, then session.open unless the session
\* is open already (#ensureSessionOpen).
RunStep ==
    /\ run = "step"
    /\ \/ /\ ~initialized
          /\ Request("initialize", "init")
          /\ UNCHANGED runKey
       \/ /\ initialized /\ activeKey # want
          /\ Request("open", "open")
          /\ runKey' = want
       \/ /\ initialized /\ activeKey = want
          /\ run' = "finish"
          /\ UNCHANGED <<req, runKey, toChild>>
    /\ UNCHANGED <<adapterVars, linkVars, childVars, timer, timerWaits, retrying, backlog,
                   failures, spawned, alive, toClient, working, sess, missed>>

\* A session.open result counts only if #sessionOpen has not moved meanwhile.
OpenedKey == IF want = runKey THEN runKey ELSE activeKey

\* #handle(): a response settles its request, if that is still pending.
HandleResponse ==
    /\ Idle /\ toClient # <<>>
    /\ LET response == Head(toClient)
           expected == run \in {"init", "open"} /\ response.id = req
       IN  /\ toClient' = Tail(toClient)
           /\ run' = IF ~expected THEN run
                     ELSE IF ~response.ok THEN "failed"
                     ELSE IF run = "init" THEN "step" ELSE "finish"
           /\ initialized' = (initialized \/ (expected /\ response.ok /\ run = "init"))
           /\ activeKey' = IF expected /\ response.ok /\ run = "open" THEN OpenedKey
                                                                      ELSE activeKey
    /\ UNCHANGED <<adapterVars, phase, lifecycle, desired, want, child, connected, ready,
                   req, runKey, timer, timerWaits, retrying, backlog, failures,
                   spawned, alive, toChild, working, sess, missed>>

\* The request timer: the answer, if it still comes, finds nobody waiting.
RequestTimeout ==
    /\ Idle /\ run \in {"init", "open"} /\ failures < MaxFailures
    /\ failures' = failures + 1
    /\ run' = "failed"
    /\ UNCHANGED <<adapterVars, linkVars, childVars, req, runKey, timer, timerWaits,
                   retrying, backlog, processVars>>

-----------------------------------------------------------------------------
(* The client: notifications *)

IsBranch(n) == n # Note
BranchesIn(s) == {i \in DOMAIN s : IsBranch(s[i])}
LastIn(s) == {i \in BranchesIn(s) : \A j \in BranchesIn(s) : j =< i}

\* Notifications as messages to the child.
AsMessages(s) == [i \in DOMAIN s |-> [kind |-> "notify", id |-> 0, key |-> s[i]]]

\* A full backlog drops its oldest notification.
Kept(s) == IF Len(s) > BacklogLimit THEN Tail(s) ELSE s

\* Whether notify() sends or keeps; what is sent to a lost child is lost.
Deliverable == child # NoChild /\ ready

Notify(n) ==
    IF Deliverable
    THEN /\ toChild' = IF connected THEN toChild \o AsMessages(<<n>>) ELSE toChild
         /\ UNCHANGED <<backlog, shed>>
    ELSE /\ backlog' = Kept(Append(backlog, n))
         /\ shed' = (shed \/ (Len(backlog) = BacklogLimit /\ IsBranch(Head(backlog))))
         /\ UNCHANGED toChild

\* session_tree: the adapter moves to a new branch and notifies the Sidecar.
\* The client records the branch, and takes it for open if it is ready.
SessionTree ==
    /\ Idle /\ gen < MaxGen /\ Started
    /\ gen' = gen + 1
    /\ IF phase = "open"
       THEN /\ want' = gen + 1
            /\ activeKey' = IF ready THEN gen + 1 ELSE activeKey
            /\ Notify(gen + 1)
       ELSE UNCHANGED <<want, activeKey, backlog, shed, toChild>>
    /\ UNCHANGED <<notes, phase, lifecycle, desired, childVars, run, req, runKey, timer,
                   timerWaits, retrying, failures, spawned, alive, toClient, working,
                   sess, missed>>

\* Every other notification: input.activity, capture.*, agent.settled, ...
OtherNotification ==
    /\ Idle /\ notes < MaxNotes /\ Started /\ phase = "open"
    /\ notes' = notes + 1
    /\ Notify(Note)
    /\ UNCHANGED <<gen, linkVars, childVars, run, req, runKey, timer, timerWaits, retrying,
                   failures, spawned, alive, toClient, working, sess, missed>>

\* The owner of a run compares keys and runs again if they differ.
RunAfterFinish(key, wanted) == IF key = wanted THEN "none" ELSE "begin"

\* The end of a run: ready, then #flushNotifications, which passes the backlog
\* through notify() and so walks #sessionOpen along its branches.
RunFinish ==
    /\ run = "finish"
    /\ ready' = TRUE
    /\ retrying' = FALSE
    /\ lifecycle' = "ready"
    /\ toChild' = IF connected THEN toChild \o AsMessages(backlog) ELSE toChild
    /\ backlog' = <<>>
    /\ \/ BranchesIn(backlog) = {} /\ UNCHANGED <<want, activeKey>>
       \/ \E i \in LastIn(backlog) : want' = backlog[i] /\ activeKey' = backlog[i]
    /\ run' = RunAfterFinish(activeKey', want')
    /\ timerWaits' = (timerWaits /\ run' = "begin")
    /\ UNCHANGED <<adapterVars, phase, desired, child, connected, initialized, req, runKey,
                   timer, failures, spawned, alive, toClient, working, sess, missed>>

-----------------------------------------------------------------------------
(* The client: restart and close() *)

RestartWanted == phase = "open" /\ desired

\* #scheduleRestart(): one timer at a time.
ScheduleRestartIf(cond) ==
    IF cond /\ RestartWanted /\ ~timer
    THEN timer' = TRUE /\ retrying' = TRUE /\ lifecycle' = "restarting"
    ELSE UNCHANGED <<timer, retrying, lifecycle>>

\* A run failed: its owner marks the client not ready and reports the error to
\* its caller; only the callback of the restart timer schedules another restart.
RunFailed ==
    /\ run = "failed"
    /\ run' = "none"
    /\ ready' = FALSE
    /\ timerWaits' = FALSE
    /\ ScheduleRestartIf(timerWaits)
    /\ UNCHANGED <<adapterVars, phase, desired, want, activeKey, child, connected,
                   initialized, req, runKey, backlog, failures, processVars>>

TimerFires ==
    /\ Idle /\ timer
    /\ timer' = FALSE
    /\ run' = RunAfterEnsure
    /\ timerWaits' = (RunAfterEnsure # "none")
    /\ UNCHANGED <<adapterVars, linkVars, childVars, req, runKey, retrying, backlog,
                   failures, processVars>>

\* Mutant: an exit leaves the session key of the old child in place.
KeyAfterExitKept == activeKey

KeyAfterExit == NoKey

\* Mutant: the exit of the child leaves its requests pending.
RunAfterExitPending == run

\* #rejectPending(): the run that awaits an answer fails.
RunAfterExit == IF run \in {"init", "open"} THEN "failed" ELSE run

\* child.on("exit"): pending requests are rejected, and a restart is scheduled
\* unless the client is closing.
ChildExit ==
    /\ Idle /\ child # NoChild /\ ~connected /\ child \notin alive
    /\ child' = NoChild
    /\ ready' = FALSE
    /\ initialized' = FALSE
    /\ activeKey' = KeyAfterExit
    /\ run' = RunAfterExit
    /\ ScheduleRestartIf(TRUE)
    /\ UNCHANGED <<adapterVars, phase, desired, want, connected, req, runKey, timerWaits,
                   backlog, failures, processVars>>

\* close() up to its wait for the exit of the child.
CloseBegin ==
    /\ Idle /\ phase = "open" /\ Started
    /\ phase' = "stopping"
    /\ desired' = FALSE
    /\ lifecycle' = "stopping"
    /\ timer' = FALSE
    /\ toChild' = IF connected
                  THEN Append(toChild, [kind |-> "shutdown", id |-> 0, key |-> NoKey])
                  ELSE toChild
    /\ UNCHANGED <<adapterVars, want, activeKey, childVars, run, req, runKey, timerWaits,
                   retrying, backlog, failures, spawned, alive, toClient, working, sess,
                   missed>>

\* close() after the child exited or the wait of a second ran out: kill and forget.
CloseEnd ==
    /\ Idle /\ phase = "stopping"
    /\ phase' = "closed"
    /\ lifecycle' = "closed"
    /\ child' = NoChild /\ connected' = FALSE /\ ready' = FALSE /\ initialized' = FALSE
    /\ activeKey' = NoKey
    /\ backlog' = <<>>
    /\ run' = IF run \in {"init", "open"} THEN "failed" ELSE run
    /\ UNCHANGED <<adapterVars, desired, want, req, runKey, timer, timerWaits, retrying,
                   failures, processVars>>

-----------------------------------------------------------------------------
(* The Sidecar process *)

clientVars == <<adapterVars, linkVars, child, ready, initialized, run, req, runKey, timer,
                timerWaits, retrying, backlog>>

Gone ==
    /\ connected' = FALSE
    /\ alive' = {}
    /\ toChild' = <<>> /\ working' = {} /\ sess' = NoKey
    /\ UNCHANGED <<clientVars, failures, spawned, toClient, missed>>

\* session.branch: only a newer generation moves the session.
BranchApplied(key) == IF key > sess THEN key ELSE sess

\* The child takes a message. Requests are answered later and in any order.
ChildReceives ==
    /\ alive # {} /\ toChild # <<>>
    /\ LET m == Head(toChild) IN
        /\ toChild' = Tail(toChild)
        /\ \/ /\ m.kind \in {"initialize", "open"}
              /\ working' = working \cup {m}
              /\ UNCHANGED <<sess, missed>>
           \/ /\ m.kind = "notify"
              /\ missed' = (missed \/ sess = NoKey)
              /\ sess' = IF sess # NoKey /\ IsBranch(m.key) THEN BranchApplied(m.key) ELSE sess
              /\ UNCHANGED working
        /\ UNCHANGED <<clientVars, connected, failures, spawned, alive, toClient>>

\* The child answers a request. #openSession installs a fresh session, in place
\* of whatever session the map holds.
ChildAnswers(m) ==
    /\ alive # {} /\ m \in working
    /\ working' = working \ {m}
    /\ sess' = IF m.kind = "open" THEN m.key ELSE sess
    /\ toClient' = IF connected THEN Append(toClient, [id |-> m.id, ok |-> TRUE]) ELSE toClient
    /\ UNCHANGED <<clientVars, connected, failures, spawned, alive, toChild, missed>>

\* The child answers a request by an error.
ChildRefuses(m) ==
    /\ alive # {} /\ m \in working /\ failures < MaxFailures
    /\ failures' = failures + 1
    /\ working' = working \ {m}
    /\ toClient' = IF connected THEN Append(toClient, [id |-> m.id, ok |-> FALSE]) ELSE toClient
    /\ UNCHANGED <<clientVars, connected, spawned, alive, toChild, sess, missed>>

\* shutdown, or the SIGTERM and the disconnect that follow close(): the runtime
\* closes and the process exits.
ChildShutsDown ==
    /\ alive # {}
    /\ \/ toChild # <<>> /\ Head(toChild).kind = "shutdown"
       \/ ~connected
    /\ Gone

ChildCrashes ==
    /\ alive # {} /\ spawned < MaxChildren
    /\ Gone

-----------------------------------------------------------------------------
ClientStep == RunBegin \/ RunStep \/ RunFinish \/ RunFailed

Sidecar ==
    \/ ChildReceives \/ ChildShutsDown
    \/ \E m \in working : ChildAnswers(m)

Next ==
    \/ Start \/ Call \/ SessionTree \/ OtherNotification
    \/ ClientStep \/ HandleResponse \/ RequestTimeout \/ TimerFires \/ ChildExit
    \/ CloseBegin \/ CloseEnd
    \/ Sidecar \/ (\E m \in working : ChildRefuses(m)) \/ ChildCrashes

Spec == Init /\ [][Next]_vars

\* Continuations and timers run; the Sidecar takes and answers what it receives. The
\* exit of a child waits in the event loop while other handlers run, and is handled
\* in its turn, hence strong fairness. Nothing makes the adapter act.
Fairness ==
    /\ WF_vars(ClientStep) /\ WF_vars(Sidecar)
    /\ WF_vars(HandleResponse) /\ WF_vars(TimerFires) /\ SF_vars(ChildExit)
    /\ WF_vars(CloseEnd)

FairSpec == Spec /\ Fairness

-----------------------------------------------------------------------------
(* Properties *)

SessionKey == {NoKey} \cup 0..MaxGen
Requests == [kind : {"initialize", "open"}, id : Nat \ {0}, key : SessionKey]
Notifications == [kind : {"notify"}, id : {0}, key : {Note} \cup 0..MaxGen]
Message == Requests \cup Notifications \cup [kind : {"shutdown"}, id : {0}, key : {NoKey}]

\* Every variable has its type.
TypeOK ==
    /\ gen \in 0..MaxGen /\ notes \in 0..MaxNotes /\ failures \in 0..MaxFailures
    /\ phase \in {"open", "stopping", "closed"}
    /\ lifecycle \in {"stopped", "starting", "ready", "restarting", "stopping", "closed"}
    /\ shed \in BOOLEAN /\ desired \in BOOLEAN /\ missed \in BOOLEAN
    /\ connected \in BOOLEAN /\ ready \in BOOLEAN /\ initialized \in BOOLEAN
    /\ timer \in BOOLEAN /\ timerWaits \in BOOLEAN /\ retrying \in BOOLEAN
    /\ want \in SessionKey /\ activeKey \in SessionKey /\ runKey \in SessionKey /\ sess \in SessionKey
    /\ run \in {"none", "init", "open"} \cup Microtask
    /\ child \in 0..spawned /\ spawned \in Nat /\ req \in Nat
    /\ backlog \in Seq({Note} \cup 0..MaxGen)
    /\ alive \subseteq 1..spawned
    /\ toChild \in Seq(Message) /\ working \subseteq Requests
    /\ toClient \in Seq([id : Nat, ok : BOOLEAN])

\* "Only one child may be active" (docs/architecture.md:22): at most one
\* process runs, and unless it is being killed it is the one the client holds.
OneChild ==
    /\ Cardinality(alive) =< 1
    /\ phase = "open" => alive \subseteq {child}

\* "Concurrent callers share the same start/restart promise, so they cannot
\* fork duplicates" (sidecar-client.ts:119): at most one request of a run is
\* unanswered, unless one of them was given up by a timeout.
SingleFlight ==
    failures = 0 =>
        Cardinality(working) + Cardinality({i \in DOMAIN toChild : toChild[i].id # 0}) =< 1

\* No notification reaches a Sidecar before the session it is for is open:
\* those of a restart wait in the backlog ("then flushes notifications").
OpenBeforeNotifications == ~missed

\* When nothing is under way the session of a ready Sidecar is the adapter's
\* ("restores the latest branch", test/sidecar-client.test.ts:143).
InSyncWhenQuiet ==
    (/\ phase = "open" /\ ready /\ run = "none" /\ connected
     /\ toChild = <<>> /\ working = {}) => sess = gen

\* ... as long as no request timed out or was refused and no branch change was
\* shifted out of a full backlog while an older one was being opened.
InSyncUnlessFailed == failures = 0 /\ ~shed => InSyncWhenQuiet

\* The four together, for one child and its session.
LinkIsSound == /\ TypeOK /\ OneChild /\ SingleFlight
               /\ OpenBeforeNotifications /\ InSyncUnlessFailed

\* "automatic restart is scheduled" (sidecar-client.ts:352): after the last exit the
\* client becomes ready again, and the Sidecar follows the branch the adapter is on,
\* unless the client is closed, a request failed or a branch change was shifted out.
BranchConverges ==
    <>[](phase # "open" \/ ~desired \/ failures > 0 \/ (ready /\ (shed \/ sess = gen)))

=============================================================================
