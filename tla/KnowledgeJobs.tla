--------------------------- MODULE KnowledgeJobs ---------------------------
(***************************************************************************)
(* The durable ingest jobs of knowledge/src/service.ts: enqueueIngest,     *)
(* recoverJobs, #scheduleJob with its retries, and the records they keep   *)
(* in jobs_v1.                                                             *)
(*                                                                         *)
(* Every call of the store is a step.  A run works on the copy of the      *)
(* record it was started with and overwrites the record with it; the       *)
(* recovery works on the copies it read at the start.  Leases are written  *)
(* but nothing reads their owner or their expiry, so they are left out.    *)
(*                                                                         *)
(* The scheduler is modelled by what it promises (BackgroundScheduler): at *)
(* most one task of a key in flight, later ones join it; it may refuse.    *)
(***************************************************************************)
EXTENDS Naturals, FiniteSets

CONSTANTS
  Key,          \* deduplication keys: the distinct commands
  Job,          \* job ids, each used once
  Caller,       \* concurrent calls of enqueueIngest
  MaxAttempts,  \* JOB_MAX_ATTEMPTS
  MaxCrashes,   \* bound on restarts
  MaxFailures   \* bound on calls of the store that throw and tasks that are refused

CONSTANTS NoKey, NoJob

ASSUME JobsAssumption ==
  /\ MaxAttempts \in Nat \ {0} /\ MaxCrashes \in Nat /\ MaxFailures \in Nat
  /\ NoKey \notin Key /\ NoJob \notin Job

VARIABLES
  record,     \* the durable job records
  run,        \* the task in flight of each key
  call,       \* the calls of enqueueIngest in progress
  recovered,  \* #recoveryPerformed
  recovering, \* the records the recovery has read and not yet treated
  crashes, failures,
  pending     \* history: keys accepted and not recorded as succeeded or dead since

vars == <<record, run, call, recovered, recovering, crashes, failures, pending>>

Unresolved == {"queued", "leased", "running", "failed"}
NoRecord == [key |-> NoKey, state |-> "none", attempts |-> 0]
NoRun == [pc |-> "none", job |-> NoJob, attempts |-> 0, result |-> "none", aborted |-> FALSE]
NoCall == [pc |-> "none", key |-> NoKey, job |-> NoJob]

Init ==
  /\ record = [j \in Job |-> NoRecord]
  /\ run = [k \in Key |-> NoRun]
  /\ call = [c \in Caller |-> NoCall]
  /\ recovered = FALSE
  /\ recovering = [j \in Job |-> NoRecord]
  /\ crashes = 0 /\ failures = 0
  /\ pending = {}

InFlight(k) == run[k].pc # "none"
Copy(j, k, state, attempts) ==
  record' = [record EXCEPT ![j] = [key |-> k, state |-> state, attempts |-> attempts]]
Fails == failures < MaxFailures /\ failures' = failures + 1
Works == UNCHANGED failures

(***************************************************************************)
(* The scheduler: a task joins, starts or is refused.  Every caller        *)
(* swallows the rejection of the task's promise.                           *)
(***************************************************************************)
Schedule(k, j, attempts) ==
  \/ InFlight(k) /\ UNCHANGED run /\ Works
  \/ ~InFlight(k) /\ UNCHANGED run /\ Fails
  \/ /\ ~InFlight(k) /\ Works
     /\ run' = [run EXCEPT ![k] = [NoRun EXCEPT !.pc = "turn", !.job = j, !.attempts = attempts]]

(***************************************************************************)
(* enqueueIngest.                                                          *)
(***************************************************************************)
\* Mutant: a finished job is taken for an active one.
DuplicatesFinished(k) == {j \in Job : record[j].key = k}
Duplicates(k) == {j \in Job : record[j].key = k /\ record[j].state \in Unresolved}

\* The record found is scheduled again as it is, whatever its attempts.
EnqueueExisting(k) ==
  /\ \E j \in Duplicates(k) : Schedule(k, j, record[j].attempts)
  /\ pending' = pending \cup {k}
  /\ UNCHANGED <<record, call, recovered, recovering, crashes>>

Fresh == {j \in Job : record[j] = NoRecord /\ \A c \in Caller : call[c].job # j}

\* Nothing found: the record will be written by a second call of the store.
EnqueueNew(c, k) ==
  /\ Duplicates(k) = {}
  /\ call[c] = NoCall
  /\ \E j \in Fresh : call' = [call EXCEPT ![c] = [pc |-> "persist", key |-> k, job |-> j]]
  /\ UNCHANGED <<record, run, recovered, recovering, crashes, failures, pending>>

Accept(k) == pending' = pending \cup {k}

EnqueuePersist(c) ==
  /\ call[c].pc = "persist"
  /\ call' = [call EXCEPT ![c] = NoCall]
  /\ \/ /\ Copy(call[c].job, call[c].key, "queued", 0)
        /\ Schedule(call[c].key, call[c].job, 0)
        /\ Accept(call[c].key)
     \/ Fails /\ UNCHANGED <<record, run, pending>>
  /\ UNCHANGED <<recovered, recovering, crashes>>

(***************************************************************************)
(* The task of a job.                                                      *)
(***************************************************************************)
Goto(k, pc) == run' = [run EXCEPT ![k].pc = pc]
End(k) == run' = [run EXCEPT ![k] = NoRun]
Write(k, state) == Copy(run[k].job, k, state, run[k].attempts)
RunFrame == UNCHANGED <<call, recovered, recovering, crashes>>

Spent(k) == run[k].attempts >= MaxAttempts

\* The head of the loop: a task that may not try again, or is aborted, throws.
TurnEnds(k) ==
  /\ run[k].pc = "turn"
  /\ Spent(k) \/ run[k].aborted
  /\ End(k) /\ Works
  /\ UNCHANGED <<record, pending>> /\ RunFrame

\* Two writes: the attempt is counted with the lease, before the work begins.
Lease(k) ==
  /\ run[k].pc = "turn" /\ ~Spent(k) /\ ~run[k].aborted
  /\ \/ /\ Works
        /\ run' = [run EXCEPT ![k] = [@ EXCEPT !.pc = "leased", !.attempts = run[k].attempts + 1]]
        /\ Copy(run[k].job, k, "leased", run[k].attempts + 1)
     \/ Fails /\ End(k) /\ UNCHANGED record
  /\ UNCHANGED pending /\ RunFrame

WriteRunning(k) ==
  /\ run[k].pc = "leased"
  /\ \/ Works /\ Goto(k, "ingest") /\ Write(k, "running")
     \/ Fails /\ End(k) /\ UNCHANGED record
  /\ UNCHANGED pending /\ RunFrame

\* ingest() returns although it was aborted when the abort came after the files
\* were listed: each file then fails, and each failure becomes a diagnostic.
IngestReturns(k) ==
  /\ run[k].pc = "ingest"
  /\ run' = [run EXCEPT ![k] = [@ EXCEPT !.pc = "succeed",
                                   !.result = IF run[k].aborted THEN "partial" ELSE "complete"]]
  /\ Works /\ UNCHANGED <<record, pending>> /\ RunFrame

IngestThrows(k) ==
  /\ run[k].pc = "ingest"
  /\ \E error \in {"transient", "permanent"} :
       run' = [run EXCEPT ![k] = [@ EXCEPT !.pc = "fail", !.result = error]]
  /\ Works /\ UNCHANGED <<record, pending>> /\ RunFrame

\* The record of the success is written inside the try: when that write throws
\* the attempt counts as failed.
WriteSucceeded(k) ==
  /\ run[k].pc = "succeed"
  /\ \/ Works /\ End(k) /\ Write(k, "succeeded") /\ pending' = pending \ {k}
     \/ /\ Fails
        /\ run' = [run EXCEPT ![k] = [@ EXCEPT !.pc = "fail", !.result = "transient"]]
        /\ UNCHANGED <<record, pending>>
  /\ RunFrame

\* Mutant: an attempt that fails is not tried again.
GivesUpAtOnce(k) == TRUE
GivesUp(k) == run[k].result = "permanent" \/ Spent(k)

AfterFailure(k) ==
  IF run[k].aborted THEN NoRun
  ELSE [run[k] EXCEPT !.pc = IF GivesUp(k) THEN "dead" ELSE "requeue"]

WriteFailed(k) ==
  /\ run[k].pc = "fail"
  /\ \/ Works /\ Write(k, "failed") /\ run' = [run EXCEPT ![k] = AfterFailure(k)]
     \/ Fails /\ End(k) /\ UNCHANGED record
  /\ UNCHANGED pending /\ RunFrame

WriteDead(k) ==
  /\ run[k].pc = "dead"
  /\ End(k)
  /\ \/ Works /\ Write(k, "dead") /\ pending' = pending \ {k}
     \/ Fails /\ UNCHANGED <<record, pending>>
  /\ RunFrame

WriteQueued(k) ==
  /\ run[k].pc = "requeue"
  /\ \/ Works /\ Write(k, "queued") /\ Goto(k, "delay")
     \/ Fails /\ End(k) /\ UNCHANGED record
  /\ UNCHANGED pending /\ RunFrame

\* #retryDelay ends, or is rejected by an abort.
DelayEnds(k) ==
  /\ run[k].pc = "delay"
  /\ IF run[k].aborted THEN End(k) ELSE Goto(k, "turn")
  /\ Works /\ UNCHANGED <<record, pending>> /\ RunFrame

RunStep(k) ==
  \/ TurnEnds(k) \/ Lease(k) \/ WriteRunning(k) \/ IngestReturns(k) \/ IngestThrows(k)
  \/ WriteSucceeded(k) \/ WriteFailed(k) \/ WriteDead(k) \/ WriteQueued(k) \/ DelayEnds(k)

\* The caller's signal, or close() of the scheduler after its grace period.
Abort(k) ==
  /\ InFlight(k) /\ ~run[k].aborted
  /\ run' = [run EXCEPT ![k].aborted = TRUE]
  /\ UNCHANGED <<record, call, recovered, recovering, crashes, failures, pending>>

(***************************************************************************)
(* recoverJobs.                                                            *)
(***************************************************************************)
TakenOverQueued == {"queued"}   \* Mutant: a lease is never taken over
TakenOver == Unresolved

RecoverRead ==
  /\ ~recovered
  /\ recovered' = TRUE
  /\ \/ /\ Works
        /\ recovering' = [j \in Job |-> IF record[j].state \in TakenOver THEN record[j]
                                        ELSE NoRecord]
     \/ Fails /\ UNCHANGED recovering
  /\ UNCHANGED <<record, run, call, crashes, pending>>

\* One record of the list, as it was read; a write that throws ends the recovery.
RecoverOne(j) ==
  /\ recovering[j] # NoRecord
  /\ \/ /\ recovering' = [recovering EXCEPT ![j] = NoRecord]
        /\ LET r == recovering[j]
           IN \/ /\ r.attempts >= MaxAttempts
                 /\ Copy(j, r.key, "dead", r.attempts)
                 /\ pending' = pending \ {r.key}
                 /\ Works /\ UNCHANGED run
              \/ /\ r.attempts < MaxAttempts
                 /\ Copy(j, r.key, "queued", r.attempts)
                 /\ Schedule(r.key, j, r.attempts)
                 /\ UNCHANGED pending
     \/ /\ Fails
        /\ recovering' = [i \in Job |-> NoRecord]
        /\ UNCHANGED <<record, run, pending>>
  /\ UNCHANGED <<call, recovered, crashes>>

\* The process ends and starts again: only the records survive.
Crash ==
  /\ crashes < MaxCrashes
  /\ crashes' = crashes + 1
  /\ run' = [k \in Key |-> NoRun]
  /\ call' = [c \in Caller |-> NoCall]
  /\ recovered' = FALSE
  /\ recovering' = [j \in Job |-> NoRecord]
  /\ UNCHANGED <<record, failures, pending>>

Enqueue == \E k \in Key : EnqueueExisting(k) \/ \E c \in Caller : EnqueueNew(c, k)
Recover == RecoverRead \/ \E j \in Job : RecoverOne(j)

Next ==
  \/ Enqueue \/ Recover \/ Crash
  \/ \E c \in Caller : EnqueuePersist(c)
  \/ \E k \in Key : RunStep(k) \/ Abort(k)

Spec == Init /\ [][Next]_vars

\* The event loop runs what is ready; the recovery is called at every start.
Fairness ==
  /\ WF_vars(Recover)
  /\ \A c \in Caller : WF_vars(EnqueuePersist(c))
  /\ \A k \in Key : WF_vars(RunStep(k))

FairSpec == Spec /\ Fairness

(***************************************************************************)
(* Properties.                                                             *)
(***************************************************************************)
State == {"none", "succeeded", "dead"} \cup Unresolved
RunPc == {"none", "turn", "leased", "ingest", "succeed", "fail", "dead", "requeue", "delay"}
Record == [key : Key \cup {NoKey}, state : State, attempts : 0..MaxAttempts]

\* The variables keep their types; attempts never pass the maximum.
TypeOK ==
  /\ record \in [Job -> Record]
  /\ run \in [Key -> [pc : RunPc, job : Job \cup {NoJob}, attempts : 0..MaxAttempts,
                      result : {"none", "complete", "partial", "transient", "permanent"},
                      aborted : BOOLEAN]]
  /\ call \in [Caller -> [pc : {"none", "persist"}, key : Key \cup {NoKey},
                          job : Job \cup {NoJob}]]
  /\ recovered \in BOOLEAN
  /\ recovering \in [Job -> Record]
  /\ crashes \in 0..MaxCrashes /\ failures \in 0..MaxFailures
  /\ pending \subseteq Key

\* Once the recovery has passed and no call of the store has failed, a record
\* that says leased or running is that of a task of this process: no lease of a
\* process that ended is left (recoverJobs, lines 619-711).
NoOrphanLease ==
  (recovered /\ failures = 0) =>
    \A j \in Job :
      record[j].state \in {"leased", "running"} =>
        recovering[j] # NoRecord \/ \E k \in Key : InFlight(k) /\ run[k].job = j

\* What was acknowledged is durable: a command that was accepted, and is not
\* recorded as succeeded or given up since, has a record from which the next
\* start resumes it (lines 601-608; docs/architecture.md:105: durable knowledge
\* jobs recover after restart), whichever of its records and writers race.
AcceptedIsDurable ==
  \A k \in pending : \E j \in Job : record[j].key = k /\ record[j].state \in Unresolved

\* Both: what was accepted has a record, and what says it is running has a task.
WorkIsDurable == AcceptedIsDurable /\ NoOrphanLease

\* A job is given up only when its attempts are used up or its error is
\* permanent: a transient error gets all its retries (lines 1022-1032).
DeadIsDeserved ==
  [][\A j \in Job :
       (record[j].state # "dead" /\ record'[j].state = "dead") =>
         \/ record'[j].attempts >= MaxAttempts
         \/ \E k \in Key : run[k].job = j /\ run[k].result = "permanent"]_vars

\* A command accepted before a start is ingested or given up in the end, through
\* further restarts, unless its task is aborted, a call of the store throws or the
\* scheduler refuses (docs/architecture.md:105; such a command waits for the next
\* start).
RecoveredIsServed ==
  \A k \in Key :
    (k \in pending /\ ~recovered) ~> (k \notin pending \/ run[k].aborted \/ failures > 0)

\* Only an ingest that was complete is recorded as succeeded: nothing resumes a
\* job that succeeded (docs/architecture.md:105).
SuccessIsComplete ==
  [][\A k \in Key, j \in Job :
       run[k].job = j /\ record[j].state # "succeeded" /\ record'[j].state = "succeeded"
         => run[k].result = "complete"]_vars
=============================================================================
