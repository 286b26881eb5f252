------------------------ MODULE RelationshipLearning ------------------------
(***************************************************************************)
(* Relationship learning: the background work that decides, after a memory *)
(* was remembered, whether it supersedes a related one. The durable work   *)
(* record and its compare-and-set transitions are those of                 *)
(* DefaultMemoryService (memory/src/service.ts); the worker, its timers    *)
(* and the startup recovery are those of RelationshipConsolidation- and    *)
(* DurableRelationshipLearningCoordinator (relationship-evidence.ts), run  *)
(* by the memory extension, whose queue has one runner.                    *)
(*                                                                         *)
(* Memories are numbers in the order they are remembered. Candidates are   *)
(* recalled or found before the memory is written, so they are smaller.    *)
(*                                                                         *)
(* A read of the store and the write that follows it are separate steps.   *)
(* Time is one bit per work: its lease, or its retry delay, still runs. No *)
(* bit runs out while a call of remember() is between its steps: the       *)
(* shortest delay is a second. Of the six relations, "supersede" stands    *)
(* for those that change records and "none" for those that do not.         *)
(***************************************************************************)
EXTENDS Integers, FiniteSets

CONSTANTS
    N,              \* memories
    CandidatesOf,   \* CandidatesOf[m]: the relationship candidates of m
    MaxAttempts,    \* maxAttempts (4 in the code)
    MaxCrashes,     \* bound: crashes of the process
    MaxFaults,      \* bound: calls of the store that fail
    MaxRetired,     \* bound: memories tombstoned by another component
    MaxMishaps      \* bound: all of these together

Memories == 1..N

\* The candidates of a memory are older. With a budget of one attempt the work
\* claimed while remember() prepares it could never be claimed again.
LearnAssumption ==
    /\ N \in Nat /\ MaxAttempts \in Nat /\ MaxAttempts > 1
    /\ CandidatesOf \in [Memories -> SUBSET Memories]
    /\ \A m \in Memories : \A c \in CandidatesOf[m] : c < m
    /\ MaxCrashes \in Nat /\ MaxFaults \in Nat /\ MaxRetired \in Nat /\ MaxMishaps \in Nat
ASSUME LearnAssumption

\* Memories are numbered as they are committed: the candidates of one are older.
NoMemory == 0

VARIABLES
    \* the store
    status,     \* status[m]: "absent", or the status of the memory record
    state,      \* state[m]: "none", or the state of its durable work
    attempts,   \* attempts[m]
    revision,   \* revision[m]: the revision compare-and-set compares
    waits,      \* the memories whose leaseExpiresAt or nextRetryAt lies in the future
    \* the process
    up,         \* it runs
    recovery,   \* the recovery asked for at session_start is to be flushed
    queued,     \* memories with a job in the background queue
    timers,     \* #retryTimers
    call,       \* the call of remember() under way: [pc, m, rev, seen]
    job,        \* the job the runner executes: [pc, m, rev, seen, target]
    crashes, faults, retired   \* for the bounds

storeVars == <<status, state, attempts, revision, waits>>
workVars == <<state, attempts, revision, waits>>
scheduleVars == <<up, recovery, queued, timers>>
boundVars == <<crashes, faults, retired>>
learnVars == <<storeVars, scheduleVars, call, job, boundVars>>

Mishaps == crashes + faults + retired

NoCall == [pc |-> "idle", m |-> NoMemory, rev |-> 0, seen |-> "absent"]
NoJob == [pc |-> "idle", m |-> NoMemory, rev |-> 0, seen |-> "absent", target |-> NoMemory]

LearnInit ==
    /\ status = [m \in Memories |-> "absent"]
    /\ state = [m \in Memories |-> "none"]
    /\ attempts = [m \in Memories |-> 0]
    /\ revision = [m \in Memories |-> 0]
    /\ waits = {}
    /\ up = TRUE /\ recovery = FALSE
    /\ queued = {} /\ timers = {}
    /\ call = NoCall /\ job = NoJob
    /\ crashes = 0 /\ faults = 0 /\ retired = 0

Unresolved(m) == state[m] \in {"pending", "processing", "failed_retryable"}
Final(m) == state[m] \in {"resolved", "failed_terminal"}

-----------------------------------------------------------------------------
(* Transitions of the durable work *)

\* Mutant: put compares no revision.
CurrentUnchecked(m, rev) == revision[m] >= rev

\* ZvecStateStore.put with expectedRevision: the rest of the record changes
\* only if nobody has written since the revision was read.
Current(m, rev) == revision[m] = rev

\* state, attempts and time bit of m; every put increments the revision.
Put(m, newState, newAttempts, newWaits) ==
    /\ state' = [state EXCEPT ![m] = newState]
    /\ attempts' = [attempts EXCEPT ![m] = newAttempts]
    /\ waits' = IF newWaits THEN waits \cup {m} ELSE waits \ {m}
    /\ revision' = [revision EXCEPT ![m] = @ + 1]

\* Mutant: only failed work is given up.
ExhaustedWhenFailed(m) == attempts[m] >= MaxAttempts /\ state[m] = "failed_retryable"

\* #terminalReason: the budget is spent and no live lease is left.
Exhausted(m) ==
    /\ attempts[m] >= MaxAttempts
    /\ \/ state[m] = "processing" /\ m \notin waits
       \/ state[m] = "failed_retryable"

\* #terminalizeExhaustedRelationshipLearning, for each of the memories read.
Terminalize(ms) ==
    LET given == {m \in ms : Exhausted(m)} IN
    /\ state' = [m \in Memories |-> IF m \in given THEN "failed_terminal" ELSE state[m]]
    /\ waits' = waits \ given
    /\ revision' = [m \in Memories |-> IF m \in given THEN revision[m] + 1 ELSE revision[m]]
    /\ UNCHANGED <<status, attempts>>

-----------------------------------------------------------------------------
(* remember(): commit, prepareRelationshipLearning, schedule *)

\* Commit writes the vector record, whose marker says that work is pending.
CommitRecord(m) ==
    /\ up /\ call = NoCall
    /\ status[m] = "absent" /\ \A c \in Memories : c < m => status[c] # "absent"
    /\ status' = [status EXCEPT ![m] = "active"]
    /\ call' = IF CandidatesOf[m] = {} THEN NoCall ELSE [NoCall EXCEPT !.pc = "commit", !.m = m]
    /\ UNCHANGED <<workVars, scheduleVars, job, boundVars>>

\* ... and then the durable work.
CommitWork ==
    /\ up /\ call.pc = "commit"
    /\ Put(call.m, "pending", 0, FALSE)
    /\ call' = [call EXCEPT !.pc = "prepare"]
    /\ UNCHANGED <<status, scheduleVars, job, boundVars>>

\* prepareRelationshipLearning leaves settled work alone.
PrepareRead ==
    /\ up /\ call.pc = "prepare"
    /\ call' = [call EXCEPT !.pc = IF Final(call.m) THEN "schedule" ELSE "prepareWrite",
                            !.rev = revision[call.m], !.seen = status[call.m]]
    /\ UNCHANGED <<storeVars, scheduleVars, job, boundVars>>

\* It makes the work pending again, whatever it had become, and writes the
\* record it read back with a new marker. A lost race fails the whole call.
PrepareWrite ==
    /\ up /\ call.pc = "prepareWrite"
    /\ IF Current(call.m, call.rev)
       THEN /\ Put(call.m, "pending", attempts[call.m], FALSE)
            /\ status' = [status EXCEPT ![call.m] = call.seen]
            /\ call' = [call EXCEPT !.pc = "schedule"]
       ELSE call' = NoCall /\ UNCHANGED storeVars
    /\ UNCHANGED <<scheduleVars, job, boundVars>>

ScheduleFresh ==
    /\ up /\ call.pc = "schedule"
    /\ queued' = queued \cup {call.m}
    /\ call' = NoCall
    /\ UNCHANGED <<storeVars, up, recovery, timers, job, boundVars>>

Remember ==
    \/ CommitWork \/ PrepareRead \/ PrepareWrite \/ ScheduleFresh

-----------------------------------------------------------------------------
(* The job of one memory: claim *)

\* The runner takes a job. #flush runs the recovery before it schedules.
Take(m) ==
    /\ up /\ ~recovery /\ job = NoJob /\ m \in queued
    /\ queued' = queued \ {m}
    /\ job' = [NoJob EXCEPT !.pc = "claim", !.m = m]
    /\ UNCHANGED <<storeVars, up, recovery, timers, call, boundVars>>

\* Mutant: the work of the candidates is not looked at.
BlockedNever(m) == FALSE /\ m \in Memories

\* A candidate's own work is unresolved, after the exhausted was given up.
Blocked(m) == \E c \in CandidatesOf[m] : Unresolved(c) /\ ~Exhausted(c)

\* The work is due and has an attempt left.
Claimable(m) ==
    /\ attempts[m] < MaxAttempts
    /\ \/ state[m] = "pending"
       \/ state[m] \in {"processing", "failed_retryable"} /\ m \notin waits

\* claimRelationshipLearning up to its put. The candidates are looked at
\* unless the work itself is settled.
ClaimRead ==
    /\ up /\ job.pc = "claim"
    /\ LET m == job.m
           given == Final(m) \/ Exhausted(m)
       IN  /\ Terminalize(IF given THEN {m} ELSE {m} \cup CandidatesOf[m])
           /\ job' = [job EXCEPT
                        !.pc = IF given \/ Blocked(m) \/ ~Claimable(m) THEN "settle"
                                                                       ELSE "claimWrite",
                        !.rev = revision[m], !.seen = status[m]]
    /\ UNCHANGED <<scheduleVars, call, boundVars>>

\* The compare-and-set; a conflict is an error of the job.
ClaimWrite ==
    /\ up /\ job.pc = "claimWrite"
    /\ IF Current(job.m, job.rev)
       THEN /\ Put(job.m, "processing", attempts[job.m] + 1, TRUE)
            /\ job' = [job EXCEPT !.pc = "claimMark"]
       ELSE /\ job' = [job EXCEPT !.pc = "error"]
            /\ UNCHANGED workVars
    /\ UNCHANGED <<status, scheduleVars, call, boundVars>>

\* #updateRelationshipLearningRecord writes the record as it was read.
ClaimMark ==
    /\ up /\ job.pc = "claimMark"
    /\ status' = [status EXCEPT ![job.m] = job.seen]
    /\ job' = [job EXCEPT !.pc = "judge"]
    /\ UNCHANGED <<workVars, scheduleVars, call, boundVars>>

-----------------------------------------------------------------------------
(* The job: judge, consolidate, resolve or fail *)

Targets(m) == {c \in CandidatesOf[m] : status[c] = "active"}

\* consolidate(): the model judges the pairs; unless it accepts a relation to
\* an active candidate, the work is resolved without a change.
Judge ==
    /\ up /\ job.pc = "judge"
    /\ \/ job' = [job EXCEPT !.pc = "resolve"]
       \/ /\ status[job.m] = "active"
          /\ \E t \in Targets(job.m) : job' = [job EXCEPT !.pc = "apply", !.target = t]
    /\ UNCHANGED <<storeVars, scheduleVars, call, boundVars>>

\* Every judgement failed, or the consolidation did: the attempt fails.
JudgeFails ==
    /\ up /\ job.pc \in {"judge", "apply"}
    /\ job' = [job EXCEPT !.pc = "fail"]
    /\ UNCHANGED <<storeVars, scheduleVars, call, boundVars>>

\* consolidateRelationship: incoming and target are read again, under the lock
\* of the namespace, and must still be active.
Apply ==
    /\ up /\ job.pc = "apply"
    /\ status' = IF status[job.m] = "active" /\ status[job.target] = "active"
                 THEN [status EXCEPT ![job.target] = "superseded"]
                 ELSE status
    /\ job' = [job EXCEPT !.pc = "resolve"]
    /\ UNCHANGED <<workVars, scheduleVars, call, boundVars>>

\* resolveRelationshipLearning and failRelationshipLearning read, ...
EndRead ==
    /\ up /\ job.pc \in {"resolve", "fail"}
    /\ job' = [job EXCEPT !.pc = IF @ = "resolve" THEN "resolveWrite" ELSE "failWrite",
                          !.rev = revision[job.m], !.seen = status[job.m]]
    /\ UNCHANGED <<storeVars, scheduleVars, call, boundVars>>

\* ... compare and set, whatever the state has become. Resolving reads the
\* record again before it writes the marker.
ResolveWrite ==
    /\ up /\ job.pc = "resolveWrite"
    /\ IF Current(job.m, job.rev)
       THEN /\ Put(job.m, "resolved", attempts[job.m], FALSE)
            /\ job' = [job EXCEPT !.pc = "settle"]
       ELSE /\ job' = [job EXCEPT !.pc = "error"]
            /\ UNCHANGED workVars
    /\ UNCHANGED <<status, scheduleVars, call, boundVars>>

FailedState(m) == IF attempts[m] >= MaxAttempts THEN "failed_terminal" ELSE "failed_retryable"

FailWrite ==
    /\ up /\ job.pc = "failWrite"
    /\ IF Current(job.m, job.rev)
       THEN /\ Put(job.m, FailedState(job.m), attempts[job.m],
                   FailedState(job.m) = "failed_retryable")
            /\ job' = [job EXCEPT !.pc = "failMark"]
       ELSE /\ job' = [job EXCEPT !.pc = "error"]
            /\ UNCHANGED workVars
    /\ UNCHANGED <<status, scheduleVars, call, boundVars>>

FailMark ==
    /\ up /\ job.pc = "failMark"
    /\ status' = [status EXCEPT ![job.m] = job.seen]
    /\ job' = [job EXCEPT !.pc = "error"]
    /\ UNCHANGED <<workVars, scheduleVars, call, boundVars>>

-----------------------------------------------------------------------------
(* The end of the job and its timers *)

\* Mutant: work that could not be claimed is left to the next start.
DeferredNever(m) == {} \cap {m}

\* #scheduleDeferred, for work that is blocked or leased.
Deferred(m) == {m}

\* The job looks at the work once more and sets a timer unless it is settled.
Settle ==
    /\ up /\ job.pc = "settle"
    /\ LET m == job.m IN
        /\ Terminalize({m})
        /\ timers' = IF Final(m) \/ Exhausted(m) THEN timers
                     ELSE IF state[m] = "failed_retryable" THEN timers \cup {m}
                     ELSE timers \cup Deferred(m)
    /\ job' = NoJob
    /\ UNCHANGED <<up, recovery, queued, call, boundVars>>

\* The job failed: only work that is failed_retryable gets a timer.
SettleError ==
    /\ up /\ job.pc = "error"
    /\ LET m == job.m IN
        /\ Terminalize({m})
        /\ timers' = IF state[m] = "failed_retryable" /\ ~Exhausted(m) THEN timers \cup {m}
                                                                       ELSE timers
    /\ job' = NoJob
    /\ UNCHANGED <<up, recovery, queued, call, boundVars>>

\* A timer set for the end of a lease or of a retry delay does not fire earlier.
RetryTimerFires(m) ==
    /\ up /\ m \in timers /\ m \notin waits
    /\ timers' = timers \ {m}
    /\ queued' = queued \cup {m}
    /\ UNCHANGED <<storeVars, up, recovery, call, job, boundVars>>

TimePasses(m) ==
    /\ m \in waits /\ call = NoCall
    /\ waits' = waits \ {m}
    /\ UNCHANGED <<status, state, attempts, revision, scheduleVars, call, job, boundVars>>

-----------------------------------------------------------------------------
(* Recovery, crashes, failures and the rest of the system *)

\* #repairMissingRelationshipLearningMarkers: a marked record without work.
Repaired == {m \in Memories : status[m] = "active" /\ CandidatesOf[m] # {} /\ state[m] = "none"}

\* listPendingRelationshipLearning: what is unresolved, leased work included.
Recoverable == {m \in Memories : (Unresolved(m) /\ ~Exhausted(m)) \/ m \in Repaired}

\* recover(): the scan repairs, gives up what is exhausted and schedules the rest.
Recover ==
    /\ up /\ recovery /\ call.pc # "commit"
    /\ recovery' = FALSE
    /\ state' = [m \in Memories |-> IF m \in Repaired THEN "pending"
                                    ELSE IF Exhausted(m) THEN "failed_terminal" ELSE state[m]]
    /\ revision' = [m \in Memories |-> IF m \in Repaired \/ Exhausted(m) THEN revision[m] + 1
                                                                         ELSE revision[m]]
    /\ queued' = queued \cup Recoverable
    /\ UNCHANGED <<status, attempts, waits, up, timers, call, job, boundVars>>

\* A status report lists the work, and so gives up what is exhausted.
Report ==
    /\ up /\ \E m \in Memories : Exhausted(m)
    /\ Terminalize(Memories)
    /\ UNCHANGED <<scheduleVars, call, job, boundVars>>

Crash ==
    /\ up /\ crashes < MaxCrashes /\ Mishaps < MaxMishaps
    /\ crashes' = crashes + 1
    /\ up' = FALSE /\ recovery' = FALSE
    /\ queued' = {} /\ timers' = {}
    /\ call' = NoCall /\ job' = NoJob
    /\ UNCHANGED <<storeVars, faults, retired>>

Restart ==
    /\ ~up
    /\ up' = TRUE /\ recovery' = TRUE
    /\ UNCHANGED <<storeVars, queued, timers, call, job, boundVars>>

\* A call of the store fails while the job claims, resolves or fails its work:
\* an error of the job.
Fault ==
    /\ up /\ faults < MaxFaults /\ Mishaps < MaxMishaps
    /\ faults' = faults + 1
    /\ job.pc \in {"claim", "claimWrite", "claimMark", "resolve", "resolveWrite",
                   "fail", "failWrite", "failMark"}
    /\ job' = [job EXCEPT !.pc = "error"]
    /\ UNCHANGED <<storeVars, scheduleVars, call, crashes, retired>>

\* tombstone(): another component retires the memory.
Tombstone(m) ==
    /\ up /\ status[m] = "active" /\ retired < MaxRetired /\ Mishaps < MaxMishaps
    /\ status' = [status EXCEPT ![m] = "tombstoned"]
    /\ retired' = retired + 1
    /\ UNCHANGED <<workVars, scheduleVars, call, job, crashes, faults>>

-----------------------------------------------------------------------------
JobStep ==
    \/ ClaimRead \/ ClaimWrite \/ ClaimMark \/ Judge \/ JudgeFails \/ Apply
    \/ EndRead \/ ResolveWrite \/ FailWrite \/ FailMark
    \/ Settle \/ SettleError

LearnNext ==
    \/ \E m \in Memories :
          CommitRecord(m) \/ Take(m) \/ RetryTimerFires(m) \/ TimePasses(m) \/ Tombstone(m)
    \/ Remember \/ JobStep
    \/ Recover \/ Report \/ Crash \/ Restart \/ Fault

LearnSpec == LearnInit /\ [][LearnNext]_learnVars

\* Calls proceed, time passes, timers fire and the queue, which is first in
\* first out, reaches every job; a process that crashed is started again.
LearnFairness ==
    /\ WF_learnVars(Remember) /\ WF_learnVars(JobStep) /\ WF_learnVars(Recover) /\ WF_learnVars(Restart)
    /\ \A m \in {c \in Memories : CandidatesOf[c] # {}} :
          SF_learnVars(Take(m)) /\ WF_learnVars(RetryTimerFires(m)) /\ WF_learnVars(TimePasses(m))


-----------------------------------------------------------------------------
(* Properties *)

Statuses == {"absent", "active", "superseded", "tombstoned"}
Calls == [pc : {"idle", "commit", "prepare", "prepareWrite", "schedule"},
          m : Memories \cup {NoMemory}, rev : Nat, seen : Statuses]
Jobs == [pc : {"idle", "claim", "claimWrite", "claimMark", "judge", "apply", "resolve",
               "resolveWrite", "fail", "failWrite", "failMark", "settle", "error"},
         m : Memories \cup {NoMemory}, rev : Nat, seen : Statuses,
         target : Memories \cup {NoMemory}]

\* Every variable has its type.
LearnTypeOK ==
    /\ status \in [Memories -> Statuses]
    /\ state \in [Memories -> {"none", "pending", "processing", "failed_retryable",
                               "resolved", "failed_terminal"}]
    /\ attempts \in [Memories -> 0..MaxAttempts]
    /\ revision \in [Memories -> Nat]
    /\ waits \subseteq Memories
    /\ up \in BOOLEAN /\ recovery \in BOOLEAN
    /\ queued \subseteq Memories /\ timers \subseteq Memories
    /\ call \in Calls /\ job \in Jobs
    /\ crashes \in Nat /\ faults \in Nat /\ retired \in Nat

\* Work that waits for a claim still has an attempt left, so that "it must
\* never remain an unresolved dependency after its retry budget is exhausted"
\* (service.ts:487).
UnresolvedHasBudget ==
    \A m \in Memories : state[m] \in {"pending", "failed_retryable"} => attempts[m] < MaxAttempts

\* A memory is judged only when the work of its candidates is settled, so that
\* chains of supersessions are learned oldest first.
DependenciesFirst ==
    job.pc \in {"claimMark", "judge", "apply"} =>
        \A c \in CandidatesOf[job.m] : ~Unresolved(c)

\* Settled work is never opened again, by whatever races or crashes.
SettledIsFinal == [][\A m \in Memories : Final(m) => Final(m)']_learnVars

\* Nothing is forgotten: while the process is up, unresolved work is queued,
\* has a timer, is being executed or is about to be scheduled.
NothingForgotten ==
    up /\ faults = 0 =>
        \A m \in Memories : Unresolved(m) =>
            recovery \/ m \in queued \cup timers \cup {call.m, job.m}

\* Work that is not settled has attempts left, waits for what it depends on,
\* and is known to somebody.
WorkIsKept == LearnTypeOK /\ UnresolvedHasBudget /\ DependenciesFirst /\ NothingForgotten

\* Through crashes and races, the work of every memory is settled in the end,
\* as long as no call of the store fails.
EveryWorkSettles == <>[](faults > 0 \/ \A m \in Memories : ~Unresolved(m))

=============================================================================
