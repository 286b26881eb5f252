------------------------- MODULE BackgroundScheduler -------------------------
(***************************************************************************)
(* The in-process scheduler of packages/core/src/scheduler.ts: a bounded   *)
(* priority queue in front of a fixed number of worker lanes.              *)
(*                                                                         *)
(* JavaScript runs one handler at a time, so every handler is one action.  *)
(* The loop of #drain is the exception: each of its iterations is an       *)
(* action, and while `draining` holds no other handler may run, which      *)
(* keeps the loop atomic without folding it into one step.                 *)
(*                                                                         *)
(* A call of schedule() is an element of Calls and is made at most once.   *)
(* Time is abstract: a background entry popped by the loop may have        *)
(* outlived maxQueuedTaskAgeMs or not, and the waits of close() may end    *)
(* early or late.                                                          *)
(***************************************************************************)
EXTENDS Integers, FiniteSets, FiniteSetsExt

CONSTANTS
    Calls,          \* calls of schedule(), each made at most once
    Keys,           \* deduplication keys
    NoKey,          \* the key of a call that gives none
    NoCall,         \* no call
    IdOf,           \* IdOf[c]: the task id
    KeyOf,          \* KeyOf[c]: the deduplication key, or NoKey
    PriorityOf,     \* PriorityOf[c]: the TaskPriority number
    BytesOf,        \* BytesOf[c]: estimatedBytes
    Signalled,      \* the calls that pass an AbortSignal
    AgeLimited,     \* whether maxQueuedTaskAgeMs is configured
    MaxQueuedTasks, MaxQueuedBytes, MaxActiveTasks

UserRequested == 80

ASSUME CallsAssumption ==
    /\ IsFiniteSet(Calls)
    /\ NoCall \notin Calls
    /\ NoKey \notin Keys
    /\ KeyOf \in [Calls -> Keys \cup {NoKey}]
    /\ PriorityOf \in [Calls -> Nat]
    /\ BytesOf \in [Calls -> Nat]
    /\ Signalled \subseteq Calls
    /\ AgeLimited \in BOOLEAN

ASSUME LimitsAssumption ==
    /\ MaxQueuedTasks \in Nat
    /\ MaxQueuedBytes \in Nat
    /\ MaxActiveTasks \in Nat \ {0}

VARIABLES
    status,       \* status[c]: where the promise of call c stands
    heap,         \* the entries of #heap
    seq,          \* seq[c]: the sequence number of its entry, 0 without one
    nextSeq,      \* #sequence
    dedup,        \* #deduplicated: key -> call that owns the shared promise
    controllers,  \* #controllers: task id -> call whose controller it holds
    aborted,      \* calls whose controller is aborted
    queuedBytes,  \* #queuedBytes
    active,       \* #active
    held,         \* calls counted in #active: running, or settled and not yet released
    drainQueued,  \* a microtask that runs #drain is queued
    draining,     \* the loop of #drain is running
    closing       \* progress of close(): "open", "grace", "aborting", "closed"

vars == <<status, heap, seq, nextSeq, dedup, controllers, aborted, queuedBytes,
          active, held, drainQueued, draining, closing>>

Settled == {"finished", "cancelled", "expired", "full", "refused", "joined"}

Init ==
    /\ status = [c \in Calls |-> "new"]
    /\ heap = {}
    /\ seq = [c \in Calls |-> 0]
    /\ nextSeq = 0
    /\ dedup = [k \in Keys |-> NoCall]
    /\ controllers = [i \in {IdOf[c] : c \in Calls} |-> NoCall]
    /\ aborted = {}
    /\ queuedBytes = 0
    /\ active = 0
    /\ held = {}
    /\ drainQueued = FALSE
    /\ draining = FALSE
    /\ closing = "open"

-----------------------------------------------------------------------------
(* The policy of the queue. *)

Background(c) == PriorityOf[c] < UserRequested

BackgroundTaskLimit == Max({1, (4 * MaxQueuedTasks) \div 5})
BackgroundByteLimit == Max({1, (4 * MaxQueuedBytes) \div 5})

\* Admission: the hard limits, and for background work 80% of each.
RoomFor(c) ==
    /\ Cardinality(heap) < MaxQueuedTasks
    /\ queuedBytes + BytesOf[c] =< MaxQueuedBytes
    /\ Background(c) =>
          /\ Cardinality(heap) < BackgroundTaskLimit
          /\ queuedBytes + BytesOf[c] =< BackgroundByteLimit

\* The comparator of #heap: higher priority first, then first come.
Before(c, d) ==
    \/ PriorityOf[c] > PriorityOf[d]
    \/ PriorityOf[c] = PriorityOf[d] /\ seq[c] < seq[d]

IsNext(c) == c \in heap /\ \A d \in heap \ {c} : Before(c, d)

\* Mutant: an interactive entry waits behind the reserved lane as well.
LaneReservedForAll(c) ==
    /\ MaxActiveTasks > 1
    /\ active >= MaxActiveTasks - 1

\* The last lane is kept for interactive work.
LaneReserved(c) ==
    /\ MaxActiveTasks > 1
    /\ Background(c)
    /\ active >= MaxActiveTasks - 1

\* A handler may run: the loop of #drain is not on the stack.
Idle == ~draining

-----------------------------------------------------------------------------
(* schedule() *)

ScheduleClosed(c) ==
    /\ Idle /\ status[c] = "new" /\ closing # "open"
    /\ status' = [status EXCEPT ![c] = "refused"]
    /\ UNCHANGED <<heap, seq, nextSeq, dedup, controllers, aborted, queuedBytes,
                   active, held, drainQueued, draining, closing>>

\* Mutant: the key of a running task no longer attracts new calls.
InFlightUnlessStarted(c) ==
    KeyOf[c] # NoKey /\ dedup[KeyOf[c]] # NoCall /\ dedup[KeyOf[c]] \notin held

\* A promise is registered under the key of c.
InFlight(c) == KeyOf[c] # NoKey /\ dedup[KeyOf[c]] # NoCall

ScheduleJoin(c) ==
    /\ Idle /\ status[c] = "new" /\ closing = "open"
    /\ InFlight(c)
    /\ status' = [status EXCEPT ![c] = "joined"]
    /\ UNCHANGED <<heap, seq, nextSeq, dedup, controllers, aborted, queuedBytes,
                   active, held, drainQueued, draining, closing>>

ScheduleFull(c) ==
    /\ Idle /\ status[c] = "new" /\ closing = "open"
    /\ ~InFlight(c) /\ ~RoomFor(c)
    /\ status' = [status EXCEPT ![c] = "full"]
    /\ UNCHANGED <<heap, seq, nextSeq, dedup, controllers, aborted, queuedBytes,
                   active, held, drainQueued, draining, closing>>

\* Mutant: the microtask that runs #drain is queued only for an empty queue.
WakeOnFirst == drainQueued \/ heap = {}

\* queueMicrotask(() => this.#drain()); two queued microtasks do what one does.
WakeDrain == TRUE

ScheduleAccept(c) ==
    /\ Idle /\ status[c] = "new" /\ closing = "open"
    /\ ~InFlight(c) /\ RoomFor(c)
    /\ status' = [status EXCEPT ![c] = "queued"]
    /\ heap' = heap \cup {c}
    /\ seq' = [seq EXCEPT ![c] = nextSeq]
    /\ nextSeq' = nextSeq + 1
    /\ dedup' = IF KeyOf[c] = NoKey THEN dedup ELSE [dedup EXCEPT ![KeyOf[c]] = c]
    /\ controllers' = [controllers EXCEPT ![IdOf[c]] = c]
    /\ queuedBytes' = queuedBytes + BytesOf[c]
    /\ drainQueued' = WakeDrain
    /\ UNCHANGED <<aborted, active, held, draining, closing>>

Schedule(c) ==
    ScheduleClosed(c) \/ ScheduleJoin(c) \/ ScheduleFull(c) \/ ScheduleAccept(c)

\* The signal a caller passed is aborted, before its call or after it.
SignalAbort(c) ==
    /\ Idle /\ c \in Signalled \ aborted
    /\ status[c] \in {"new", "queued", "executing"}
    /\ aborted' = aborted \cup {c}
    /\ UNCHANGED <<status, heap, seq, nextSeq, dedup, controllers, queuedBytes,
                   active, held, drainQueued, draining, closing>>

\* cancel(taskId): aborts the controller registered under the id, if any. The
\* entry keeps its place and its bytes until the loop pops it.
Cancel(c) ==
    /\ Idle
    /\ controllers[IdOf[c]] = c
    /\ aborted' = aborted \cup {c}
    /\ UNCHANGED <<status, heap, seq, nextSeq, dedup, controllers, queuedBytes,
                   active, held, drainQueued, draining, closing>>

-----------------------------------------------------------------------------
(* #drain() *)

DrainBegin ==
    /\ Idle /\ drainQueued
    /\ drainQueued' = FALSE
    /\ draining' = TRUE
    /\ UNCHANGED <<status, heap, seq, nextSeq, dedup, controllers, aborted,
                   queuedBytes, active, held, closing>>

\* The loop's two early returns and its condition.
DrainBlocked ==
    \/ heap = {}
    \/ active >= MaxActiveTasks
    \/ \E c \in heap : IsNext(c) /\ LaneReserved(c)

DrainEnd ==
    /\ draining /\ DrainBlocked
    /\ draining' = FALSE
    /\ UNCHANGED <<status, heap, seq, nextSeq, dedup, controllers, aborted,
                   queuedBytes, active, held, drainQueued, closing>>

\* this.#queuedBytes -= entry.task.estimatedBytes
BytesAfterPop(c) == queuedBytes - BytesOf[c]

\* Mutant: an entry dropped by the loop keeps its bytes.
BytesKept(c) == queuedBytes

BytesAfterDrop(c) == BytesAfterPop(c)

\* A popped entry that is too old or aborted is rejected and the loop goes on.
DrainDrop(c) ==
    /\ draining /\ ~DrainBlocked /\ IsNext(c)
    /\ \/ /\ Background(c) /\ AgeLimited
          /\ status' = [status EXCEPT ![c] = "expired"]
       \/ /\ c \in aborted
          /\ status' = [status EXCEPT ![c] = "cancelled"]
    /\ heap' = heap \ {c}
    /\ queuedBytes' = BytesAfterDrop(c)
    /\ controllers' = [controllers EXCEPT ![IdOf[c]] = NoCall]
    /\ seq' = [seq EXCEPT ![c] = 0]
    /\ UNCHANGED <<nextSeq, dedup, aborted, active, held, drainQueued,
                   draining, closing>>

\* Mutant: the controller is forgotten as soon as the task starts.
ControllersDroppedOnStart(c) == [controllers EXCEPT ![IdOf[c]] = NoCall]

\* A started task keeps its controller.
ControllersOnStart(c) == controllers

ActiveOnStart == active + 1

DrainStart(c) ==
    /\ draining /\ ~DrainBlocked /\ IsNext(c)
    /\ c \notin aborted
    /\ heap' = heap \ {c}
    /\ queuedBytes' = BytesAfterPop(c)
    /\ status' = [status EXCEPT ![c] = "executing"]
    /\ active' = ActiveOnStart
    /\ held' = held \cup {c}
    /\ controllers' = ControllersOnStart(c)
    /\ seq' = [seq EXCEPT ![c] = 0]
    /\ UNCHANGED <<nextSeq, dedup, aborted, drainQueued, draining, closing>>

\* task.run() settles, and with it the promise of the call.
Settle(c) ==
    /\ Idle /\ status[c] = "executing"
    /\ status' = [status EXCEPT ![c] = "finished"]
    /\ UNCHANGED <<heap, seq, nextSeq, dedup, controllers, aborted, queuedBytes,
                   active, held, drainQueued, draining, closing>>

\* Mutant: a finished task frees its lane without looking for more work.
DrainNever == draining

DrainAfterRelease == TRUE

\* The finally() of a task, a microtask after its promise settled. The
\* controller is removed by task id, whoever's controller it is by then.
Release(c) ==
    /\ Idle /\ c \in held /\ status[c] = "finished"
    /\ controllers' = [controllers EXCEPT ![IdOf[c]] = NoCall]
    /\ active' = active - 1
    /\ held' = held \ {c}
    /\ draining' = DrainAfterRelease
    /\ UNCHANGED <<status, heap, seq, nextSeq, dedup, aborted, queuedBytes,
                   drainQueued, closing>>

\* promise.then(delete, delete): the key is freed after the promise settled.
DedupDelete(k) ==
    /\ Idle
    /\ dedup[k] # NoCall /\ status[dedup[k]] \in Settled
    /\ dedup' = [dedup EXCEPT ![k] = NoCall]
    /\ UNCHANGED <<status, heap, seq, nextSeq, controllers, aborted, queuedBytes,
                   active, held, drainQueued, draining, closing>>

-----------------------------------------------------------------------------
(* close() *)

HeapAfterClose == {}

\* Everything queued is rejected; the byte counter is not brought back to zero.
CloseBegin ==
    /\ Idle /\ closing = "open"
    /\ closing' = "grace"
    /\ heap' = HeapAfterClose
    /\ status' = [c \in Calls |-> IF c \in heap THEN "cancelled" ELSE status[c]]
    /\ aborted' = aborted \cup heap
    /\ controllers' = [i \in DOMAIN controllers |->
                         IF \E c \in heap : IdOf[c] = i THEN NoCall ELSE controllers[i]]
    /\ seq' = [c \in Calls |-> 0]
    /\ UNCHANGED <<nextSeq, dedup, queuedBytes, active, held, drainQueued,
                   draining>>

\* The grace period is over and tasks still run: abort every known controller.
CloseAbort ==
    /\ Idle /\ closing = "grace" /\ active > 0
    /\ closing' = "aborting"
    /\ aborted' = aborted \cup ({controllers[i] : i \in DOMAIN controllers} \ {NoCall})
    /\ UNCHANGED <<status, heap, seq, nextSeq, dedup, controllers, queuedBytes,
                   active, held, drainQueued, draining>>

\* close() returns: nothing runs any more, or the timeout has passed.
CloseReturn ==
    /\ Idle
    /\ \/ closing = "grace" /\ active = 0
       \/ closing = "aborting"
    /\ closing' = "closed"
    /\ UNCHANGED <<status, heap, seq, nextSeq, dedup, controllers, aborted,
                   queuedBytes, active, held, drainQueued, draining>>

-----------------------------------------------------------------------------
DrainStep == DrainEnd \/ \E c \in Calls : DrainDrop(c) \/ DrainStart(c)

Next ==
    \/ \E c \in Calls : Schedule(c) \/ SignalAbort(c) \/ Cancel(c) \/ Settle(c) \/ Release(c)
    \/ \E k \in Keys : DedupDelete(k)
    \/ DrainBegin \/ DrainStep
    \/ CloseBegin \/ CloseAbort \/ CloseReturn

Spec == Init /\ [][Next]_vars

\* Microtasks and the loop always run on; a task that was started settles.
Fairness ==
    /\ WF_vars(DrainBegin) /\ WF_vars(DrainStep)
    /\ \A c \in Calls : WF_vars(Settle(c)) /\ WF_vars(Release(c))

FairSpec == Spec /\ Fairness

-----------------------------------------------------------------------------
(* Properties *)

\* Every variable has its type.
TypeOK ==
    /\ status \in [Calls -> {"new", "queued", "executing"} \cup Settled]
    /\ heap \subseteq Calls
    /\ seq \in [Calls -> Nat]
    /\ nextSeq \in Nat
    /\ dedup \in [Keys -> Calls \cup {NoCall}]
    /\ controllers \in [{IdOf[c] : c \in Calls} -> Calls \cup {NoCall}]
    /\ aborted \subseteq Calls
    /\ queuedBytes \in Int
    /\ active \in Nat
    /\ held \subseteq Calls
    /\ drainQueued \in BOOLEAN
    /\ draining \in BOOLEAN
    /\ closing \in {"open", "grace", "aborting", "closed"}

\* The counter #active is the number of lanes in use and never exceeds
\* maxActiveTasks; while more than one lane exists, background tasks never
\* occupy the last one, however starts, releases and cancellations interleave.
LanesRespected ==
    /\ active = Cardinality(held)
    /\ active =< MaxActiveTasks
    /\ MaxActiveTasks > 1 => Cardinality({c \in held : Background(c)}) =< MaxActiveTasks - 1

\* No lost wakeup: when no drain runs or is queued, whatever waits in the queue
\* waits for a lane that some held call will release (and so drain again).
NoLostWakeup ==
    (Idle /\ ~drainQueued /\ heap # {}) =>
        \/ active >= MaxActiveTasks
        \/ \E c \in heap : IsNext(c) /\ LaneReserved(c)

\* The promise of the reserved lane (docs/configuration.md:148): with several
\* lanes, interactive work that still waits once the drain is over waits for
\* interactive work, never for background work alone.
InteractiveWaitsForInteractive ==
    (/\ MaxActiveTasks > 1
     /\ Idle /\ ~drainQueued
     /\ \E c \in heap : ~Background(c)) => \E c \in held : ~Background(c)

\* The bytes of the calls of cs, one by one: their number is the sum of estimatedBytes.
BytesIn(cs) == UNION {{c} \X (1 .. BytesOf[c]) : c \in cs}

\* The queue stays within its limits, background entries within their share,
\* and #queuedBytes is the sum of the queued entries as long as it is used.
QueueWithinLimits ==
    /\ Cardinality(heap) =< MaxQueuedTasks
    /\ Cardinality({c \in heap : Background(c)}) =< BackgroundTaskLimit
    /\ closing = "open" => /\ queuedBytes =< MaxQueuedBytes
                           /\ queuedBytes = Cardinality(BytesIn(heap))

\* At most one call per deduplication key is queued or executing.
SingleFlight ==
    \A c, d \in Calls :
        /\ c # d /\ KeyOf[c] = KeyOf[d] /\ KeyOf[c] # NoKey
        /\ status[c] \in {"queued", "executing"}
        => status[d] \notin {"queued", "executing"}

\* Whoever waits, waits for something that is going to happen, and happens once per key.
CallsAreServed == NoLostWakeup /\ InteractiveWaitsForInteractive /\ SingleFlight

\* After the grace period every task that still runs has been told to stop;
\* after close() nothing waits in the queue. (For calls with distinct ids.)
CloseReachesEveryTask ==
    /\ closing # "open" => heap = {}
    /\ closing = "aborting" => \A c \in held : status[c] = "executing" => c \in aborted

\* The limits of the lanes and of the queue hold, whichever way a task leaves them,
\* and close reaches every task that runs.
LimitsHold == TypeOK /\ LanesRespected /\ QueueWithinLimits /\ CloseReachesEveryTask

\* An accepted call is answered: it runs to an end, expires, or is cancelled.
EveryAcceptedCallSettles == <>[](\A c \in Calls : status[c] \in Settled \cup {"new"})

=============================================================================
