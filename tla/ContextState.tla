------------------------------ MODULE ContextState ------------------------------
(***************************************************************************)
(* What the sessions of a Sidecar are about (context-state.ts): the topics   *)
(* and tasks they share, and the snapshot of its context that each one has.  *)
(* A refresh (#refreshContext of sidecar-runtime.ts) runs at the start of a  *)
(* turn and again when it has settled, the second one beside the next turn.  *)
(* Each step ends where storage is awaited; the code up to there is part of  *)
(* it. A prompt is the set of its words. Closing and the queue of a session  *)
(* are SidecarSession's.                                                      *)
(***************************************************************************)
EXTENDS Integers, FiniteSets, Sequences

CONSTANTS Chats,         \* the sessions of a Sidecar
          Prompts,       \* sets of words
          Turns,         \* of a session, from 1
          Explicit,      \* the prompts that name their topic
          Continuing,    \* the prompts that begin with a word like "continue"
          Plans          \* [repo: session -> the set of its repository, asks: session -> its
                         \* prompts, of which one without words is too short, persist: whether
                         \* persistSnapshots is on, and the bounds moves, faults, restarts]:
                         \* one of them holds

VARIABLES plan,      \* repositories, prompts, configuration and bounds
          topics,    \* topic-identity records
          cache,     \* #topicCache: the terms of the topics it holds, or None
          tasks,     \* task-identity records
          stored,    \* context-snapshot records
          latest,    \* session -> its context-latest record, or None
          scopes,    \* session -> its scope, branch generation and turns
          op,        \* session -> refreshes: that of the turn at 0, that of a settled turn at its number
          jobs,      \* task-state jobs
          moves, slipped, life,
          samples,   \* topic -> the refreshes that wrote it
          resolved   \* task -> what resolveTask wrote last

contextVars == <<plan, topics, cache, tasks, stored, latest, scopes, op, jobs, moves, slipped, life,
                 samples, resolved>>
repo == plan.repo
Words == UNION Prompts
TopicIds == {"named", "inferred"} \X (Prompts \ {{}})
Slots == {0} \cup Turns
None == [none |-> TRUE]
\* Slot 0 is of the turns that start; every plan asks prompts.
ASSUME ContextAssumption == /\ Turns \subseteq Nat \ {0}
                            /\ \A p \in Plans, s \in Chats : p.asks[s] \in Seq(Prompts)

NoTopic == [words |-> {}, count |-> 0, active |-> FALSE, revision |-> 0]
\* What a refresh carries from step to step, each when it is needed.
NoRefresh == [pc |-> "idle", goal |-> {}, gen |-> 0, topic |-> None, alike |-> FALSE, terms |-> None, seen |-> {},
              new |-> None, topics |-> {}, current |-> None, task |-> None, snap |-> None]
\* f with x at id
Written(f, id, x) == [d \in DOMAIN f \cup {id} |-> IF d = id THEN x ELSE f[d]]

\* taskIdentityId: a task belongs to the repository or else to the topics that it began with.
TaskId(s, goal, about) == [affinity |-> IF repo[s] # {} THEN repo[s] ELSE about, goal |-> goal]
\* topicSimilarity and lexicalTaskSimilarity, in per cent
Percent(a, b, n) == IF n = 0 THEN 0 ELSE (100 * Cardinality(a \cap b)) \div n
Similarity(a, b) == LET least == IF Cardinality(a) < Cardinality(b) THEN Cardinality(a) ELSE Cardinality(b)
                    IN Percent(a, b, least)
Likeness(a, b) == Percent(a, b, Cardinality(a \cup b))

Fresh == [task |-> None, topics |-> {}, snap |-> None, revision |-> 0, phase |-> "idle", scope |-> None,
          gen |-> 0, turn |-> 0]
ContextInit ==
    /\ plan \in Plans
    /\ topics = [t \in TopicIds |-> NoTopic] /\ cache = None
    /\ tasks = [id \in {} |-> None] /\ stored = {} /\ latest = [s \in Chats |-> None]
    /\ scopes = [s \in Chats |-> Fresh]
    /\ op = [s \in Chats |-> [k \in Slots |-> NoRefresh]]
    /\ jobs = {} /\ moves = 0 /\ slipped = 0 /\ life = 0
    /\ samples = [t \in TopicIds |-> {}] /\ resolved = [id \in {} |-> None]

store == <<tasks, stored, latest, resolved>>
bounds == <<plan, moves, slipped, life>>
Goto(s, k, o) == op' = [op EXCEPT ![s][k] = o]
At(o, pc) == [NoRefresh EXCEPT !.pc = pc, !.goal = o.goal, !.gen = o.gen]

-----------------------------------------------------------------------------
(* The topic of the prompt.                                                 *)

\* inferTopic, from the terms of the known topics: what may come next
Known(terms) == {t \in TopicIds : terms[t] # {}}
Choices(o, terms) ==
    LET score(t) == Similarity(terms[t], o.goal)
        best == {t \in Known(terms) : score(t) >= 25 /\ \A u \in Known(terms) : score(u) <= score(t)}
    IN IF best = {} THEN {At(o, "create")}
       ELSE {[At(o, "topicGet") EXCEPT !.topic = t, !.alike = score(t) >= 35] : t \in best}
Begins(o) == IF o.goal \in Explicit THEN {At(o, "named")}
             ELSE IF cache = None THEN {At(o, "list")} ELSE Choices(o, cache)

\* resolveTask begins with the task that the session has then.
Resolve(s, k, about) ==
    Goto(s, k, [At(op[s][k], "taskGet") EXCEPT !.topics = about, !.current = scopes[s].task])

\* The cache is filled after the read, over what was cached in between.
Terms == [t \in TopicIds |-> topics[t].words]
List(s, k) == /\ op[s][k].pc = "list" /\ Goto(s, k, [At(op[s][k], "fill") EXCEPT !.terms = Terms])
              /\ UNCHANGED <<topics, cache, scopes, jobs, samples, store, bounds>>
Fill(s, k) == /\ op[s][k].pc = "fill" /\ cache' = op[s][k].terms
              /\ \E o \in Choices(op[s][k], op[s][k].terms) : Goto(s, k, o)
              /\ UNCHANGED <<topics, scopes, jobs, samples, store, bounds>>

Earned(topic, count, alike) == topic.active \/ (count >= 2 /\ alike)
TopicGet(s, k) ==
    /\ op[s][k].pc = "topicGet"
    /\ LET o == op[s][k]
           old == topics[o.topic]
           count == old.count + 1
       IN Goto(s, k, [At(o, "topicPut") EXCEPT !.topic = o.topic, !.seen = {old.revision},
             !.new = [words |-> old.words \cup o.goal, count |-> count, active |-> Earned(old, count, o.alike)]])
    /\ UNCHANGED <<topics, cache, scopes, jobs, samples, store, bounds>>
\* observeTopicLabel
Named(s, k) ==
    /\ op[s][k].pc = "named"
    /\ LET o == op[s][k]
           t == <<"named", o.goal>>
           count == topics[t].count + 1
       IN Goto(s, k, [At(o, "topicPut") EXCEPT !.topic = t,
             !.new = [words |-> o.goal, count |-> count, active |-> count >= 2]])
    /\ UNCHANGED <<topics, cache, scopes, jobs, samples, store, bounds>>

\* The record, the cache when there is one, and the task that is resolved next. A revision
\* that was not read is not compared.
WriteTopic(s, k, t, new) ==
    /\ topics' = [topics EXCEPT ![t] = [words |-> new.words, count |-> new.count, active |-> new.active,
                                        revision |-> topics[t].revision + 1]]
    /\ cache' = IF cache = None THEN None ELSE [cache EXCEPT ![t] = new.words]
    /\ samples' = [samples EXCEPT ![t] = @ \cup {[of |-> s, turn |-> scopes[s].turn, slot |-> k]}]
    /\ Resolve(s, k, IF new.active THEN {t} ELSE {})
TopicPut(s, k) ==
    /\ op[s][k].pc = "topicPut"
    /\ LET o == op[s][k] IN
          IF o.seen # {} /\ o.seen # {topics[o.topic].revision}
          THEN Resolve(s, k, {}) /\ UNCHANGED <<topics, cache, samples>>
          ELSE WriteTopic(s, k, o.topic, o.new)
    /\ UNCHANGED <<scopes, jobs, store, bounds>>
\* Mutant: it is active at once.
CreateActive(s, k) == /\ op[s][k].pc = "create"
                      /\ WriteTopic(s, k, <<"inferred", op[s][k].goal>>, [words |-> op[s][k].goal, count |-> 1, active |-> TRUE])
                      /\ UNCHANGED <<scopes, jobs, store, bounds>>
Create(s, k) == /\ op[s][k].pc = "create"
                /\ WriteTopic(s, k, <<"inferred", op[s][k].goal>>, [words |-> op[s][k].goal, count |-> 1, active |-> FALSE])
                /\ UNCHANGED <<scopes, jobs, store, bounds>>

-----------------------------------------------------------------------------
(* Its task, the scope of the session and the snapshot.                     *)

TaskFor(s, k, id) == [At(op[s][k], "taskPut") EXCEPT !.topics = op[s][k].topics, !.task = id]
Further(s, k, pc) == [op[s][k] EXCEPT !.pc = pc]
TaskGet(s, k) ==
    /\ op[s][k].pc = "taskGet"
    /\ LET id == TaskId(s, op[s][k].goal, op[s][k].topics) IN
       Goto(s, k, IF id \in DOMAIN tasks THEN TaskFor(s, k, id)
                  ELSE Further(s, k, IF op[s][k].current # None THEN "currentGet" ELSE "taskList"))
    /\ UNCHANGED <<topics, cache, scopes, jobs, samples, store, bounds>>
Continues(s, k, task) == \/ op[s][k].goal \in Continuing
                         \/ op[s][k].topics \cap task.topics # {}
                         \/ Likeness(task.goal, op[s][k].goal) >= 30
CurrentGet(s, k) ==
    /\ op[s][k].pc = "currentGet"
    /\ Goto(s, k, IF Continues(s, k, tasks[op[s][k].current]) THEN TaskFor(s, k, op[s][k].current)
                  ELSE Further(s, k, "taskList"))
    /\ UNCHANGED <<topics, cache, scopes, jobs, samples, store, bounds>>
\* Mutant: the task of any repository.
OfAny(s, task) == TRUE
OfRepository(s, task) == repo[s] = {} \/ task.repo = repo[s]
TaskList(s, k) ==
    /\ op[s][k].pc = "taskList"
    /\ LET score(id) == Likeness(tasks[id].goal, op[s][k].goal)
           alike == {id \in DOMAIN tasks : OfRepository(s, tasks[id]) /\ score(id) >= 30}
           best == {id \in alike : \A other \in alike : score(other) <= score(id)}
       IN \E id \in IF best = {} THEN {TaskId(s, op[s][k].goal, op[s][k].topics)} ELSE best :
             Goto(s, k, TaskFor(s, k, id))
    /\ UNCHANGED <<topics, cache, scopes, jobs, samples, store, bounds>>

\* MentisContextResolver.resolve, with a new runId each time: always a new snapshot. A task
\* that could not be resolved stays that of the scope, and the snapshot has none.
Snapshot(s, o, task) ==
    [session |-> s, life |-> life, revision |-> scopes[s].revision + 1, task |-> task, topics |-> o.topics,
     gen |-> scopes[s].gen, asked |-> o.gen]
Assigned(s, snap) == [scopes[s] EXCEPT !.topics = snap.topics, !.task = IF snap.task = None THEN @ ELSE snap.task,
                                       !.revision = snap.revision, !.snap = snap]
\* capture.start takes the scope of the session after the refresh of its turn.
Scope(x) == [task |-> x.task, topics |-> x.topics, snap |-> x.snap]
TurnStarted(x, k, gen) == IF k # 0 THEN x
                          ELSE [x EXCEPT !.phase = "run", !.scope = IF gen = x.gen THEN Scope(x) ELSE None]
\* Mutant: a refresh ends on whatever branch the session is on.
OnAnyBranch(s, o) == TRUE
StillExpected(s, o) == o.gen = scopes[s].gen
Assign(s, k, task) ==
    LET o == op[s][k]
        snap == Snapshot(s, o, task)
    IN IF StillExpected(s, o)
       THEN IF plan.persist
            THEN scopes' = [scopes EXCEPT ![s] = Assigned(s, snap)] /\ Goto(s, k, [At(o, "snapPut") EXCEPT !.snap = snap])
            ELSE scopes' = [scopes EXCEPT ![s] = TurnStarted(Assigned(s, snap), k, o.gen)] /\ Goto(s, k, NoRefresh)
       ELSE scopes' = [scopes EXCEPT ![s] = TurnStarted(@, k, o.gen)] /\ Goto(s, k, NoRefresh)

TaskPut(s, k) ==
    /\ op[s][k].pc = "taskPut"
    /\ LET o == op[s][k]
           revision == IF o.task \in DOMAIN tasks THEN tasks[o.task].revision ELSE 0
       IN /\ tasks' = Written(tasks, o.task, [goal |-> o.goal, topics |-> o.topics, repo |-> repo[s],
                                              state |-> "active", revision |-> revision + 1])
          /\ resolved' = Written(resolved, o.task, [goal |-> o.goal, topics |-> o.topics, repo |-> repo[s]])
          /\ Assign(s, k, o.task)
    /\ UNCHANGED <<topics, cache, jobs, samples, stored, latest, bounds>>

\* persistSnapshot
End(s, k) == Goto(s, k, NoRefresh) /\ scopes' = [scopes EXCEPT ![s] = TurnStarted(@, k, op[s][k].gen)]
\* Mutant: the pointer first.
PointerFirst(s, k) == /\ op[s][k].pc = "snapPut" /\ latest' = [latest EXCEPT ![s] = op[s][k].snap]
                      /\ End(s, k)
                      /\ UNCHANGED <<topics, cache, tasks, stored, jobs, samples, resolved, bounds>>
SnapPut(s, k) == /\ op[s][k].pc = "snapPut" /\ stored' = stored \cup {op[s][k].snap}
                 /\ Goto(s, k, Further(s, k, "pointerPut"))
                 /\ UNCHANGED <<topics, cache, tasks, latest, scopes, jobs, samples, resolved, bounds>>
PointerPut(s, k) == /\ op[s][k].pc = "pointerPut" /\ latest' = [latest EXCEPT ![s] = op[s][k].snap]
                    /\ End(s, k)
                    /\ UNCHANGED <<topics, cache, tasks, stored, jobs, samples, resolved, bounds>>

\* Each part of a refresh is caught on its own; the cache is as full as it was.
Fail(s, k) ==
    /\ slipped < plan.faults /\ slipped' = slipped + 1
    /\ \/ /\ op[s][k].pc \in {"list", "topicGet", "named", "topicPut", "create"}
          /\ Resolve(s, k, {}) /\ UNCHANGED scopes
       \/ op[s][k].pc \in {"taskGet", "currentGet", "taskList", "taskPut"} /\ Assign(s, k, None)
       \/ op[s][k].pc \in {"snapPut", "pointerPut"} /\ End(s, k)
    /\ UNCHANGED <<plan, topics, cache, jobs, samples, store, moves, life>>

-----------------------------------------------------------------------------
(* Turns, branches, outcomes, restarts.                                     *)

\* capture.start. A prompt that is too short is not looked at.
Turn(s) ==
    /\ scopes[s].phase = "idle" /\ scopes[s].turn < Len(plan.asks[s])
    /\ LET goal == plan.asks[s][scopes[s].turn + 1]
           next == [scopes[s] EXCEPT !.turn = @ + 1, !.phase = "start"]
       IN IF goal = {}
          THEN scopes' = [scopes EXCEPT ![s] = TurnStarted(next, 0, next.gen)] /\ UNCHANGED op
          ELSE /\ scopes' = [scopes EXCEPT ![s] = next]
               /\ \E o \in Begins([goal |-> goal, gen |-> scopes[s].gen]) : Goto(s, 0, o)
    /\ UNCHANGED <<topics, cache, jobs, samples, store, bounds>>
\* agent.settled: the episode is finished, its outcome handed to a job, and then the context
\* of the prompt refreshed again.
Finish(s) ==
    /\ scopes[s].phase = "run"
    /\ LET n == scopes[s].turn
           task == IF scopes[s].scope = None THEN None ELSE scopes[s].scope.task
       IN /\ jobs' = IF task = None THEN jobs ELSE jobs \cup {[by |-> <<s, n>>, task |-> task, seen |-> None]}
          /\ Goto(s, n, IF plan.asks[s][n] = {} THEN NoRefresh
                        ELSE [NoRefresh EXCEPT !.pc = "settled", !.goal = plan.asks[s][n]])
    /\ scopes' = [scopes EXCEPT ![s].phase = "idle"]
    /\ UNCHANGED <<topics, cache, samples, store, bounds>>
SettledRefresh(s, k) == /\ op[s][k].pc = "settled"
                        /\ \E o \in Begins([goal |-> op[s][k].goal, gen |-> scopes[s].gen]) : Goto(s, k, o)
                        /\ UNCHANGED <<topics, cache, scopes, jobs, samples, store, bounds>>
\* session.branch
Move(s) == /\ moves < plan.moves /\ moves' = moves + 1 /\ scopes' = [scopes EXCEPT ![s].gen = @ + 1]
           /\ UNCHANGED <<plan, topics, cache, op, jobs, slipped, life, samples, store>>

\* updateTaskState; the outcome is any state but the one it has.
JobGet(j) == /\ j.seen = None /\ jobs' = (jobs \ {j}) \cup {[j EXCEPT !.seen = tasks[j.task]]}
             /\ UNCHANGED <<topics, cache, scopes, op, samples, store, bounds>>
\* Mutant: the revision is not expected.
UnchangedOrNot(j) == TRUE
Unchanged(j) == j.seen.revision = tasks[j.task].revision
JobPut(j) ==
    /\ j.seen # None /\ jobs' = jobs \ {j}
    /\ tasks' = IF Unchanged(j)
                THEN [tasks EXCEPT ![j.task] = [j.seen EXCEPT !.state = "over", !.revision = tasks[j.task].revision + 1]]
                ELSE tasks
    /\ UNCHANGED <<topics, cache, stored, latest, scopes, op, samples, resolved, bounds>>

\* Another Sidecar: only what is stored is left, and the revisions of snapshots begin anew.
SidecarRestarts == /\ life < plan.restarts /\ life' = life + 1
                   /\ scopes' = [s \in Chats |-> [Fresh EXCEPT !.gen = scopes[s].gen, !.turn = scopes[s].turn]]
                   /\ op' = [s \in Chats |-> [k \in Slots |-> NoRefresh]]
                   /\ cache' = None /\ jobs' = {}
                   /\ UNCHANGED <<plan, topics, moves, slipped, samples, store>>

Refreshes(s, k) == \/ List(s, k) \/ Fill(s, k) \/ TopicGet(s, k) \/ Named(s, k) \/ TopicPut(s, k) \/ Create(s, k)
                   \/ TaskGet(s, k) \/ CurrentGet(s, k) \/ TaskList(s, k) \/ TaskPut(s, k)
                   \/ SnapPut(s, k) \/ PointerPut(s, k) \/ Fail(s, k) \/ SettledRefresh(s, k)
ContextNext == \/ \E s \in Chats : Turn(s) \/ Finish(s) \/ Move(s)
               \/ \E s \in Chats : \E k \in Slots : Refreshes(s, k)
               \/ \E j \in jobs : JobGet(j) \/ JobPut(j)
               \/ SidecarRestarts
ContextSpec == ContextInit /\ [][ContextNext]_contextVars

-----------------------------------------------------------------------------
ContextTypeOK ==
    /\ \A t \in TopicIds : topics[t].revision > 0 => topics[t].count \in 1..Cardinality(samples[t])
    /\ \A s \in Chats : scopes[s].phase \in {"idle", "start", "run"}
    /\ \A s \in Chats : scopes[s].phase = "start" <=> op[s][0].pc # "idle"
    /\ DOMAIN tasks = DOMAIN resolved

\* "no automatic activation from a single weak turn": a topic that a session, a task or a
\* snapshot is about was observed by two refreshes.
TopicsAreEarned ==
    LET about == {scopes[s].topics : s \in Chats} \cup {tasks[id].topics : id \in DOMAIN tasks}
                 \cup {snap.topics : snap \in stored}
    IN \A t \in (UNION about) \cup {u \in TopicIds : topics[u].active} : Cardinality(samples[t]) >= 2

\* An outcome that comes late changes the state of a task, never what it was resolved to since.
ResolvedIsKept == \A id \in DOMAIN tasks :
    [goal |-> tasks[id].goal, topics |-> tasks[id].topics, repo |-> tasks[id].repo] = resolved[id]

\* Sessions of different repositories never work on one task, whatever a session without a
\* repository has taken over.
RepositoriesApart == \A s, t \in Chats :
    {} \notin {repo[s], repo[t]} /\ repo[s] # repo[t] /\ scopes[s].task # None => scopes[s].task # scopes[t].task

Agrees(x) == x.snap # None => /\ x.snap.topics = x.topics /\ x.snap.task \in {None, x.task}
                              /\ x.snap.gen = x.snap.asked
\* Scope and snapshot of a session, and those of a turn, are of one refresh, of the branch it
\* was asked on, unless its task could not be resolved.
OfOneRefresh ==
    \A s \in Chats : Agrees(scopes[s]) /\ (scopes[s].scope # None => Agrees(scopes[s].scope))

\* The latest snapshot of a session can be read.
LatestIsStored == \A s \in Chats : latest[s] # None => latest[s] \in stored

ContextHolds == ContextTypeOK /\ TopicsAreEarned /\ ResolvedIsKept /\ RepositoriesApart /\ OfOneRefresh /\ LatestIsStored
=============================================================================
