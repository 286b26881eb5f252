--------------------------- MODULE BackgroundQueue ---------------------------
(***************************************************************************)
(* MentisBackgroundQueue of packages/memory/src/background-queue.ts: the   *)
(* queue behind relationship learning. Two FIFO queues, one for work a     *)
(* user just caused ("fresh") and one for recovered backlog ("normal"),    *)
(* share maxConcurrency runners.                                           *)
(*                                                                         *)
(* A job is an element of Jobs and is enqueued at most once. The loop of   *)
(* #drain starts one job per action; no other handler runs meanwhile.      *)
(***************************************************************************)
EXTENDS Integers, Sequences, FiniteSets, SequencesExt

CONSTANTS
    Jobs,             \* calls of enqueue()
    Fresh,            \* the jobs of priority "fresh"
    CoalesceKey,      \* CoalesceKey[j]: its coalesceKey
    NoCoalesceKey,    \* of a job without one
    MaxConcurrency, MaxQueueLength, FreshBurstLimit

\* The options of the two queues that are made; freshBurstLimit is raised to one.
ASSUME QueueAssumption == {MaxConcurrency, MaxQueueLength, FreshBurstLimit} \subseteq Nat \ {0}

VARIABLES
    jobStatus,        \* jobStatus[j]: "new", "queued", "running", or how the job ended
    freshQueue,       \* #freshQueue
    normalQueue,      \* #normalQueue
    freshSelections,  \* #freshSelections
    pumping,          \* the loop of #drain is running
    drain,            \* "none", "waiting" (#draining set), "done" (#drainPromise resolved)
    passedOver        \* history: fresh jobs selected in a row past a waiting normal job

queueVars == <<jobStatus, freshQueue, normalQueue, freshSelections, pumping, drain, passedOver>>

Ended == {"done", "replaced", "dropped", "ignored", "cancelled"}

Running == {j \in Jobs : jobStatus[j] = "running"}
Pending == {j \in Jobs : jobStatus[j] = "queued"}
PendingCount == Len(freshQueue) + Len(normalQueue)

QueueInit ==
    /\ jobStatus = [j \in Jobs |-> "new"]
    /\ freshQueue = <<>>
    /\ normalQueue = <<>>
    /\ freshSelections = 0
    /\ pumping = FALSE
    /\ drain = "none"
    /\ passedOver = 0

-----------------------------------------------------------------------------
(* enqueue() *)

EnqueueIgnored(j) ==
    /\ ~pumping /\ jobStatus[j] = "new" /\ drain # "none"
    /\ jobStatus' = [jobStatus EXCEPT ![j] = "ignored"]
    /\ UNCHANGED <<freshQueue, normalQueue, freshSelections, pumping, drain, passedOver>>

Coalesces(i, j) == CoalesceKey[j] # NoCoalesceKey /\ CoalesceKey[i] = CoalesceKey[j]

\* #findCoalesced: the pending job a new one replaces, in whichever queue.
FindCoalesced(i, j) == i \in Pending /\ Coalesces(i, j)

\* #queueFor: the queue of the job's priority.
GoesToFresh(j) == j \in Fresh

Without(q, i) == IF i \in ToSet(q) THEN RemoveAt(q, CHOOSE n \in DOMAIN q : q[n] = i) ELSE q

\* The replaced job leaves its queue and the new one takes the last place of
\* the queue of its own priority; nothing is started.
EnqueueCoalesced(j) ==
    /\ ~pumping /\ jobStatus[j] = "new" /\ drain = "none"
    /\ \E i \in Jobs :
        /\ FindCoalesced(i, j)
        /\ jobStatus' = [jobStatus EXCEPT ![i] = "replaced", ![j] = "queued"]
        /\ freshQueue' = IF GoesToFresh(j) THEN Append(Without(freshQueue, i), j)
                                        ELSE Without(freshQueue, i)
        /\ normalQueue' = IF GoesToFresh(j) THEN Without(normalQueue, i)
                                         ELSE Append(Without(normalQueue, i), j)
    /\ UNCHANGED <<freshSelections, pumping, drain, passedOver>>

\* What a full queue drops: its oldest normal job, else its oldest fresh one.
Victim == IF normalQueue # <<>> THEN Head(normalQueue) ELSE Head(freshQueue)

Full == PendingCount >= MaxQueueLength

EnqueueNew(j) ==
    /\ ~pumping /\ jobStatus[j] = "new" /\ drain = "none"
    /\ ~\E i \in Jobs : FindCoalesced(i, j)
    /\ LET dropped == IF Full THEN {Victim} ELSE {}
           fresh   == IF Full /\ Victim \in Fresh THEN Tail(freshQueue) ELSE freshQueue
           normal  == IF Full /\ Victim \notin Fresh THEN Tail(normalQueue) ELSE normalQueue
       IN  /\ jobStatus' = [i \in Jobs |-> IF i = j THEN "queued"
                                        ELSE IF i \in dropped THEN "dropped" ELSE jobStatus[i]]
           /\ freshQueue' = IF GoesToFresh(j) THEN Append(fresh, j) ELSE fresh
           /\ normalQueue' = IF GoesToFresh(j) THEN normal ELSE Append(normal, j)
    /\ pumping' = TRUE
    /\ UNCHANGED <<freshSelections, drain, passedOver>>

Enqueue(j) == EnqueueIgnored(j) \/ EnqueueCoalesced(j) \/ EnqueueNew(j)

-----------------------------------------------------------------------------
(* #drain() and #dequeue() *)

RoomToRun == Cardinality(Running) < MaxConcurrency

\* The loop ends when the runners are busy, nothing is pending, or a drain began.
PumpEnd ==
    /\ pumping
    /\ ~RoomToRun \/ PendingCount = 0 \/ drain # "none"
    /\ pumping' = FALSE
    /\ UNCHANGED <<jobStatus, freshQueue, normalQueue, freshSelections, drain, passedOver>>

\* Mutant: a fresh job is preferred whenever there is one.
TakesFreshAlways == freshQueue # <<>>

\* #dequeue prefers fresh work until a burst has passed waiting backlog.
TakesFresh ==
    /\ freshQueue # <<>>
    /\ normalQueue = <<>> \/ freshSelections < FreshBurstLimit

CanStart == pumping /\ RoomToRun /\ PendingCount > 0 /\ drain = "none"

StartFresh ==
    /\ CanStart /\ TakesFresh
    /\ jobStatus' = [jobStatus EXCEPT ![Head(freshQueue)] = "running"]
    /\ freshQueue' = Tail(freshQueue)
    /\ freshSelections' = freshSelections + 1
    /\ passedOver' = IF normalQueue = <<>> THEN 0 ELSE passedOver + 1
    /\ UNCHANGED <<normalQueue, pumping, drain>>

StartNormal ==
    /\ CanStart /\ ~TakesFresh
    /\ jobStatus' = [jobStatus EXCEPT ![Head(normalQueue)] = "running"]
    /\ normalQueue' = Tail(normalQueue)
    /\ freshSelections' = 0
    /\ passedOver' = 0
    /\ UNCHANGED <<freshQueue, pumping, drain>>

\* Mutant: the end of a job frees its runner without pumping.
PumpNever == pumping

PumpAfterFinish == drain = "none"

\* A job ends, well or badly: its error goes to logError and nowhere else.
Finish(j) ==
    /\ ~pumping /\ jobStatus[j] = "running"
    /\ jobStatus' = [jobStatus EXCEPT ![j] = "done"]
    /\ pumping' = PumpAfterFinish
    /\ UNCHANGED <<freshQueue, normalQueue, freshSelections, drain, passedOver>>

-----------------------------------------------------------------------------
(* drain() *)

\* Everything pending is started at once, whatever maxConcurrency says, or
\* dropped. A later call of drain() finds the first one's promise.
Drain(cancelPending) ==
    /\ ~pumping /\ drain = "none"
    /\ drain' = "waiting"
    /\ jobStatus' = [j \in Jobs |-> IF j \notin Pending THEN jobStatus[j]
                                 ELSE IF cancelPending THEN "cancelled" ELSE "running"]
    /\ freshQueue' = <<>>
    /\ normalQueue' = <<>>
    /\ UNCHANGED <<freshSelections, pumping, passedOver>>

\* Promise.allSettled over what ran and what was started.
Drained == Running = {}

DrainResolve ==
    /\ ~pumping /\ drain = "waiting" /\ Drained
    /\ drain' = "done"
    /\ UNCHANGED <<jobStatus, freshQueue, normalQueue, freshSelections, pumping, passedOver>>

-----------------------------------------------------------------------------
Pump == PumpEnd \/ StartFresh \/ StartNormal

QueueNext ==
    \/ \E j \in Jobs : Enqueue(j) \/ Finish(j)
    \/ Pump
    \/ \E cancelPending \in BOOLEAN : Drain(cancelPending)
    \/ DrainResolve

QueueSpec == QueueInit /\ [][QueueNext]_queueVars

\* The loop runs on by itself, and a job that was started ends.
QueueFairness == WF_queueVars(Pump) /\ WF_queueVars(DrainResolve) /\ \A j \in Jobs : WF_queueVars(Finish(j))

-----------------------------------------------------------------------------
(* Properties *)

\* Every variable has its type.
QueueTypeOK ==
    /\ jobStatus \in [Jobs -> {"new", "queued", "running"} \cup Ended]
    /\ freshQueue \in Seq(Jobs \cap Fresh)
    /\ normalQueue \in Seq(Jobs \ Fresh)
    /\ freshSelections \in Nat
    /\ pumping \in BOOLEAN
    /\ drain \in {"none", "waiting", "done"}
    /\ passedOver \in Nat

\* At most one pending job per coalesce key, across both queues.
OnePendingPerKey ==
    \A i, j \in Pending : i # j => CoalesceKey[i] = NoCoalesceKey \/ CoalesceKey[i] # CoalesceKey[j]

\* "Maximum fresh jobs selected before one normal/backlog job must run"
\* (background-queue.ts:18): recovered backlog is passed over a bounded number
\* of times in a row.
BoundedFairness == passedOver =< FreshBurstLimit

\* Exactly the pending jobs are in the queues, each once, and they are not too many.
PendingAreQueued ==
    /\ ToSet(freshQueue) \cup ToSet(normalQueue) = Pending
    /\ IsInjective(freshQueue) /\ IsInjective(normalQueue)
    /\ PendingCount <= MaxQueueLength

\* Until it drains, a queue runs no more jobs than it has runners.
RunnersHold == drain = "none" => Cardinality(Running) <= MaxConcurrency

\* BackgroundQueue: no pending job is lost or runs twice, the limits of the queue hold,
\* there is one pending job per key, and backlog is passed over a bounded number of times.
QueueIsFair == QueueTypeOK /\ PendingAreQueued /\ RunnersHold /\ OnePendingPerKey /\ BoundedFairness

\* A pending job is started, replaced, dropped or cancelled in the end.
EveryPendingJobLeaves == <>[](\A j \in Jobs : jobStatus[j] # "queued")

=============================================================================
