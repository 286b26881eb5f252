-------------------------- MODULE EmbeddingMigration --------------------------
(***************************************************************************)
(* The generations of the knowledge index and the durable jobs that move it *)
(* to another embedding space (knowledge/src/migration.ts; the generations  *)
(* and the manifest of zvec-storage/src/store.ts and manifest.ts).          *)
(*                                                                         *)
(* A target space has one deterministic generation, which each attempt      *)
(* resumes: records of the active generation are embedded again into it in  *)
(* batches, their number is compared, and the manifest is switched.  The     *)
(* old generation stays for a rollback until it is collected.  Every action *)
(* is one guarded operation of the store, or the part of a command between  *)
(* two of them, so the process can die after each.                         *)
(***************************************************************************)
EXTENDS Naturals, FiniteSets

CONSTANTS Spaces,      \* embedding spaces; also the names of their migration generations
          FirstSpace,  \* the space of the generation the store was created with
          First,       \* that generation
          Docs,        \* records of the knowledge index
          Absent,        \* no collection, no worker, no command
          MaxAttempts, \* maxAttempts of a migration job (3 in the code)
          EditLimit, EnqueueLimit, FaultLimit, CrashLimit, UpkeepLimit \* bounds

JobStates == {"queued", "leased", "running", "succeeded", "failed", "dead"}
Jobs == [state : JobStates, attempts : 0 .. MaxAttempts]
TaskSteps == {"lease", "run", "snapshot", "create", "backfilling", "batch", "validate", "activate",
              "finish", "failGeneration", "failJob", "requeue", "bury"}
Tasks == [pc : TaskSteps, attempts : 0 .. MaxAttempts, snap : SUBSET Docs, rest : SUBSET Docs,
          retryable : BOOLEAN]
Commands == [target : Spaces, job : Jobs]

ASSUME MigrationAssumption ==
    /\ FirstSpace \in Spaces /\ First \notin Spaces
    /\ IsFiniteSet(Docs)
    /\ MaxAttempts \in Nat
    /\ \A records \in SUBSET Docs : records # Absent
    /\ \A entry \in Jobs \cup Tasks \cup Commands : entry # Absent

VARIABLES indexes, \* [active, gens]: the pointer, and each generation's state
          docs,     \* generation -> records of its collection, or Absent
          job,      \* space -> the durable job: [state, attempts], or Absent
          worker,   \* space -> the scheduled task that runs the job, or Absent
          command,  \* an enqueue between its read and its write, or Absent
          toRecover,\* jobs the startup recovery still has to look at
          mode,     \* of the process: "up", "closing", "down"
          conf,     \* the space it is configured with
          kept,     \* what each generation held when it was last active
          cut,      \* generations whose collection was lost to a crash
          joined,   \* jobs given new attempts under a task that had none left
          spent     \* uses of each bound

migrationVars == <<indexes, docs, job, worker, command, toRecover, mode, conf, kept, cut, joined,
                   spent>>

Gens == {First} \cup Spaces
SpaceOf(g) == IF g = First THEN FirstSpace ELSE g
GenStates == {"none", "preparing", "backfilling", "validating", "active", "superseded", "failed"}
Limits == [edit |-> EditLimit, enqueue |-> EnqueueLimit, fault |-> FaultLimit,
           crash |-> CrashLimit, upkeep |-> UpkeepLimit]

Spend(b) == /\ spent[b] < Limits[b]
            /\ spent' = [spent EXCEPT ![b] = @ + 1]

RecordsOf(g) == IF docs[g] = Absent THEN {} ELSE docs[g]
Working == {t \in Spaces : worker[t] # Absent}

MigrationInit == /\ indexes = [active |-> First,
                       gens |-> [g \in Gens |-> IF g = First THEN "active" ELSE "none"]]
        /\ docs = [g \in Gens |-> IF g = First THEN Docs ELSE Absent]
        /\ job = [t \in Spaces |-> Absent]
        /\ worker = [t \in Spaces |-> Absent]
        /\ command = Absent
        /\ toRecover = {}
        /\ mode = "up"
        /\ conf = FirstSpace
        /\ kept = docs
        /\ cut = {}
        /\ joined = {}
        /\ spent = [b \in DOMAIN Limits |-> 0]

-----------------------------------------------------------------------------
\* The knowledge base is edited; the documentation asks for no other writer
\* during a migration.  A record embedded in another space than that of the
\* active generation is refused by its collection.
Edit == /\ mode = "up" /\ Working = {} /\ command = Absent /\ toRecover = {}
        /\ Spend("edit")
        /\ \E d \in Docs :
             \/ d \notin RecordsOf(indexes.active) /\ conf = SpaceOf(indexes.active)
                /\ docs' = [docs EXCEPT ![indexes.active] = RecordsOf(indexes.active) \cup {d}]
             \/ d \in RecordsOf(indexes.active)
                /\ docs' = [docs EXCEPT ![indexes.active] = @ \ {d}]
        /\ kept' = [kept EXCEPT ![indexes.active] = docs'[indexes.active]]
        /\ UNCHANGED <<indexes, job, worker, command, toRecover, mode, conf, cut, joined>>

\* enqueueKnowledgeEmbeddingMigration: reads the job of the target.
EnqueueRead(t) ==
    /\ mode = "up" /\ command = Absent
    /\ Spend("enqueue")
    /\ command' = [target |-> t,
                   job |-> IF job[t] = Absent \/ job[t].state \in {"succeeded", "dead"}
                           THEN [state |-> "queued", attempts |-> 0] ELSE job[t]]
    /\ UNCHANGED <<indexes, docs, job, worker, toRecover, mode, conf, kept, cut, joined>>

\* A task on a job; the scheduler keeps the one it has for the same space.
Scheduled(t, j) ==
    IF worker[t] = Absent
    THEN [pc |-> "lease", attempts |-> j.attempts, snap |-> {}, rest |-> {}, retryable |-> TRUE]
    ELSE worker[t]

\* The task it finds has no attempt left, and will end without a look at the job.
JoinsSpent ==
    LET task == worker[command.target]
    IN  /\ task # Absent
        /\ task.pc = "lease" /\ task.attempts = MaxAttempts
        /\ command.job.attempts < MaxAttempts

\* ... writes it back and schedules it.
EnqueueWrite ==
    /\ mode = "up" /\ command # Absent
    /\ job' = [job EXCEPT ![command.target] = command.job]
    /\ worker' = [worker EXCEPT ![command.target] = Scheduled(command.target, command.job)]
    /\ joined' = IF JoinsSpent THEN joined \cup {command.target} ELSE joined
    /\ command' = Absent
    /\ UNCHANGED <<indexes, docs, toRecover, mode, conf, kept, cut, spent>>

\* recoverKnowledgeEmbeddingMigrationJobs, one listed job.
Recover(t) ==
    /\ mode = "up" /\ t \in toRecover
    /\ toRecover' = toRecover \ {t}
    /\ IF job[t].attempts >= MaxAttempts
       THEN /\ job' = [job EXCEPT ![t].state = "dead"]
            /\ UNCHANGED worker
       ELSE /\ job' = [job EXCEPT ![t].state = "queued"]
            /\ worker' = [worker EXCEPT ![t] = Scheduled(t, job[t])]
    /\ UNCHANGED <<indexes, docs, command, mode, conf, kept, cut, joined, spent>>

-----------------------------------------------------------------------------
At(t, p) == worker[t] # Absent /\ worker[t].pc = p /\ mode # "down"
Goto(t, p) == worker' = [worker EXCEPT ![t].pc = p]
Fails(t, retryable) ==
    worker' = [worker EXCEPT ![t].pc = "failGeneration", ![t].retryable = retryable]
Persist(t, state) ==
    job' = [job EXCEPT ![t] = [state |-> state, attempts |-> worker[t].attempts]]
EndTask(t) == worker' = [worker EXCEPT ![t] = Absent]
Frame == UNCHANGED <<command, toRecover, mode, conf, kept, cut, joined>>

\* Mutant: a generation kept for a rollback is filled without being marked.
SetGenerationKept(t, state) ==
    indexes' = IF indexes.gens[t] \in {"none", "superseded"} THEN indexes
                ELSE [indexes EXCEPT !.gens[t] = state]
\* setGenerationState: a generation the indexes no longer names stays unnamed.
SetGeneration(t, state) ==
    indexes' = IF indexes.gens[t] = "none" THEN indexes
                ELSE [indexes EXCEPT !.gens[t] = state]

HasAttempts(t) == worker[t].attempts < MaxAttempts

\* The head of the task's loop.  No attempt left: it ends and the job stays.
Lease(t) ==
    /\ At(t, "lease")
    /\ IF HasAttempts(t) /\ mode = "up"
       THEN /\ worker' = [worker EXCEPT ![t].pc = "run", ![t].attempts = @ + 1]
            /\ job' = [job EXCEPT ![t] = [state |-> "leased", attempts |-> worker[t].attempts + 1]]
       ELSE EndTask(t) /\ UNCHANGED job
    /\ UNCHANGED <<indexes, docs, spent>> /\ Frame

RunJob(t) ==
    /\ At(t, "run")
    /\ Persist(t, "running")
    /\ Goto(t, "snapshot")
    /\ UNCHANGED <<indexes, docs, spent>> /\ Frame

\* migrateKnowledgeEmbedding: done if the generation is the active one already.
Snapshot(t) ==
    /\ At(t, "snapshot")
    /\ IF indexes.active = t /\ indexes.gens[t] = "active"
       THEN Goto(t, "finish")
       ELSE worker' = [worker EXCEPT
                ![t].pc = IF indexes.gens[t] = "none" THEN "create" ELSE "backfilling",
                ![t].snap = RecordsOf(indexes.active),
                ![t].rest = RecordsOf(indexes.active)]
    /\ UNCHANGED <<indexes, docs, job, spent>> /\ Frame

\* createGeneration: opens its collection, an orphan of a crash included.
CreateGeneration(t) ==
    /\ At(t, "create")
    /\ indexes' = [indexes EXCEPT !.gens[t] = "preparing"]
    /\ docs' = [docs EXCEPT ![t] = RecordsOf(t)]
    /\ Goto(t, "backfilling")
    /\ UNCHANGED <<job, spent>> /\ Frame

MarkBackfilling(t) ==
    /\ At(t, "backfilling")
    /\ SetGeneration(t, "backfilling")
    /\ Goto(t, "batch")
    /\ UNCHANGED <<docs, job, spent>> /\ Frame

\* One batch is embedded and upserted, or the end of the records is marked.
Batch(t) ==
    /\ At(t, "batch")
    /\ indexes.gens[t] # "none"
    /\ IF worker[t].rest = {}
       THEN /\ SetGeneration(t, "validating")
            /\ Goto(t, "validate")
            /\ UNCHANGED docs
       ELSE \E d \in worker[t].rest :
            /\ docs' = [docs EXCEPT ![t] = RecordsOf(t) \cup {d}]
            /\ worker' = [worker EXCEPT ![t].rest = @ \ {d}]
            /\ UNCHANGED indexes
    /\ UNCHANGED <<job, spent>> /\ Frame

\* The provider fails, for now or for good, or the run is aborted.
EmbedFails(t) ==
    /\ At(t, "batch") \/ At(t, "validate")
    /\ \/ mode = "up" /\ Spend("fault") /\ \E r \in BOOLEAN : Fails(t, r)
       \/ mode = "closing" /\ Fails(t, TRUE) /\ UNCHANGED spent
    /\ UNCHANGED <<indexes, docs, job>> /\ Frame

\* The generation was collected since the attempt looked for it.
Unnamed(t) ==
    /\ At(t, "batch")
    /\ indexes.gens[t] = "none"
    /\ Fails(t, TRUE)
    /\ UNCHANGED <<indexes, docs, job, spent>> /\ Frame

\* Mutant: what an earlier attempt left behind is not counted.
CompleteAtLeast(t) == Cardinality(RecordsOf(t)) >= Cardinality(worker[t].snap)
Complete(t) == Cardinality(RecordsOf(t)) = Cardinality(worker[t].snap)

\* The count, at most one more than expected, and a sample.
Validate(t) ==
    /\ At(t, "validate")
    /\ IF Complete(t)
       THEN Goto(t, "activate") ELSE Fails(t, FALSE)
    /\ UNCHANGED <<indexes, docs, job, spent>> /\ Frame

\* replaceActiveGeneration
Switched(g) ==
    [active |-> g,
     gens |-> [h \in Gens |-> IF h = g THEN "active"
                              ELSE IF h = indexes.active THEN "superseded"
                              ELSE indexes.gens[h]]]

Activate(t) ==
    /\ At(t, "activate")
    /\ IF indexes.gens[t] = "validating"
       THEN /\ indexes' = Switched(t)
            /\ kept' = [kept EXCEPT ![t] = docs[t]]
            /\ Goto(t, "finish")
       ELSE Fails(t, FALSE) /\ UNCHANGED <<indexes, kept>>
    /\ UNCHANGED <<docs, job, command, toRecover, mode, conf, cut, joined, spent>>

Finish(t) ==
    /\ At(t, "finish")
    /\ Persist(t, "succeeded")
    /\ EndTask(t)
    /\ UNCHANGED <<indexes, docs, spent>> /\ Frame

\* The catch of migrateKnowledgeEmbedding, then that of the task.
FailGeneration(t) ==
    /\ At(t, "failGeneration")
    /\ SetGeneration(t, "failed")
    /\ Goto(t, "failJob")
    /\ UNCHANGED <<docs, job, spent>> /\ Frame

FailJob(t) ==
    /\ At(t, "failJob")
    /\ Persist(t, "failed")
    /\ IF mode = "closing" THEN EndTask(t)
       ELSE Goto(t, IF worker[t].retryable /\ HasAttempts(t)
                    THEN "requeue" ELSE "bury")
    /\ UNCHANGED <<indexes, docs, spent>> /\ Frame

Requeue(t) ==
    /\ At(t, "requeue")
    /\ Persist(t, "queued")
    /\ Goto(t, "lease")
    /\ UNCHANGED <<indexes, docs, spent>> /\ Frame

Bury(t) ==
    /\ At(t, "bury")
    /\ Persist(t, "dead")
    /\ EndTask(t)
    /\ UNCHANGED <<indexes, docs, spent>> /\ Frame

TaskStep(t) ==
    \/ Lease(t) \/ RunJob(t) \/ Snapshot(t) \/ CreateGeneration(t) \/ MarkBackfilling(t)
    \/ Batch(t) \/ EmbedFails(t) \/ Unnamed(t) \/ Validate(t) \/ Activate(t) \/ Finish(t)
    \/ FailGeneration(t) \/ FailJob(t) \/ Requeue(t) \/ Bury(t)

-----------------------------------------------------------------------------
\* /kb rollback-embedding; like an edit, with no migration under way.
Rollback(g) ==
    /\ mode = "up" /\ Working = {} /\ command = Absent /\ toRecover = {}
    /\ indexes.gens[g] = "superseded"
    /\ Spend("upkeep")
    /\ indexes' = Switched(g)
    /\ kept' = [kept EXCEPT ![g] = docs[g]]
    /\ UNCHANGED <<docs, job, worker, command, toRecover, mode, conf, cut, joined>>

\* collectSupersededGenerations: the collections of the expired generations are
\* destroyed, then the indexes is written.
Expired == {g \in Gens : indexes.gens[g] = "superseded" /\ g # indexes.active}

Collect ==
    /\ mode = "up"
    /\ Spend("upkeep")
    /\ \E old \in (SUBSET Expired) \ {{}} :
         /\ docs' = [g \in Gens |-> IF g \in old THEN Absent ELSE docs[g]]
         /\ indexes' = [indexes EXCEPT !.gens =
                            [g \in Gens |-> IF g \in old THEN "none" ELSE indexes.gens[g]]]
         /\ cut' = cut \ old
    /\ UNCHANGED <<job, worker, command, toRecover, mode, conf, kept, joined>>

Stopped == /\ mode' = "down"
           /\ worker' = [t \in Spaces |-> Absent]
           /\ command' = Absent
           /\ toRecover' = {}
           /\ joined' = {}

\* The process dies while it destroys them.
CollectCut ==
    /\ mode = "up"
    /\ Spend("crash")
    /\ \E old \in (SUBSET Expired) \ {{}} :
         /\ docs' = [g \in Gens |-> IF g \in old THEN Absent ELSE docs[g]]
         /\ cut' = cut \cup old
    /\ Stopped
    /\ UNCHANGED <<indexes, job, conf, kept>>

\* The process dies between two operations.
Die == /\ mode # "down"
         /\ Spend("crash")
         /\ Stopped
         /\ UNCHANGED <<indexes, docs, job, conf, kept, cut>>

\* The session ends: tasks are aborted, and the process leaves after them.
Close == /\ mode = "up" /\ Spend("crash")
         /\ mode' = "closing" /\ command' = Absent /\ toRecover' = {}
         /\ UNCHANGED <<indexes, docs, job, worker, conf, kept, cut, joined>>

Exit == /\ mode = "closing" /\ Working = {}
         /\ Stopped
         /\ UNCHANGED <<indexes, docs, job, conf, kept, cut, spent>>

\* Mutant: a job that has failed once is taken for a settled one.
UnsettledUnfailed(t) == job[t] # Absent /\ job[t].state \notin {"succeeded", "dead", "failed"}
Unsettled(t) == job[t] # Absent /\ job[t].state \notin {"succeeded", "dead"}

\* A start with a space the active generation was not made in is refused.
StartUp == /\ mode = "down"
         /\ mode' = "up"
         /\ conf' = SpaceOf(indexes.active)
         /\ toRecover' = {t \in Spaces : Unsettled(t)}
         /\ UNCHANGED <<indexes, docs, job, worker, command, kept, cut, joined, spent>>

MigrationNext == \/ Edit \/ EnqueueWrite \/ Collect \/ CollectCut \/ Die \/ Close \/ Exit \/ StartUp
        \/ \E t \in Spaces : EnqueueRead(t) \/ Recover(t) \/ TaskStep(t)
        \/ \E g \in Gens : Rollback(g)

\* A command that was read is written, recovery and tasks go on, a process that
\* stopped is started again.
MigrationFairness == /\ WF_migrationVars(EnqueueWrite) /\ WF_migrationVars(Exit) /\ WF_migrationVars(StartUp)
            /\ \A t \in Spaces : WF_migrationVars(Recover(t)) /\ WF_migrationVars(TaskStep(t))

MigrationSpec == MigrationInit /\ [][MigrationNext]_migrationVars /\ MigrationFairness

-----------------------------------------------------------------------------
\* Every variable holds a value of its type.
MigrationTypeOK ==
    /\ indexes \in [active : Gens, gens : [Gens -> GenStates]]
    /\ docs \in [Gens -> (SUBSET Docs) \cup {Absent}]
    /\ kept \in [Gens -> (SUBSET Docs) \cup {Absent}]
    /\ job \in [Spaces -> Jobs \cup {Absent}]
    /\ worker \in [Spaces -> Tasks \cup {Absent}]
    /\ command \in Commands \cup {Absent}
    /\ mode \in {"up", "closing", "down"}
    /\ conf \in Spaces
    /\ toRecover \subseteq {t \in Spaces : job[t] # Absent}
    /\ cut \subseteq Gens /\ joined \subseteq Spaces

\* A migration switches to a generation with exactly the records of the old
\* one, after any number of failed and resumed attempts before.
SwitchIsExact ==
    [][indexes'.active # indexes.active /\ Working # {} =>
           RecordsOf(indexes'.active) = RecordsOf(indexes.active)]_migrationVars

\* While a generation is offered for rollback it holds what it held when it
\* was active, unless the process died while it was collected.
RollbackRestores ==
    \A g \in Gens \ cut : indexes.gens[g] = "superseded" => docs[g] = kept[g]

\* The index that is searched is there, unless a rollback chose a generation
\* that a crash had cut.
ActiveIsThere == docs[indexes.active] # Absent \/ indexes.active \in cut

\* Neither of the states a job is never taken up from.
Unfinished(t) == job[t] # Absent /\ job[t].state \notin {"succeeded", "dead"}

\* A job that is read as unfinished by a process that is up has its task, is
\* about to be recovered, has used up its attempts, or was given new ones
\* under a task that had none left.
NoForgottenJob ==
    \A t \in Spaces :
        mode = "up" /\ Unfinished(t) =>
            \/ worker[t] # Absent \/ t \in toRecover
            \/ job[t].attempts = MaxAttempts \/ t \in joined

\* The generation that is searched is there and the one kept for a rollback is
\* what it was, and no accepted migration is forgotten by a process that is up.
MigrationHolds == MigrationTypeOK /\ ActiveIsThere /\ RollbackRestores /\ NoForgottenJob

\* Every accepted migration comes to an end: its task stops, with the job
\* settled, out of attempts, or left to the next start as above.
EveryMigrationSettles ==
    <>[](\A t \in Spaces :
            /\ worker[t] = Absent
            /\ Unfinished(t) => job[t].attempts = MaxAttempts \/ t \in joined)

=============================================================================
