----------------------------- MODULE TurnLearning -----------------------------
(***************************************************************************)
(* What a session of the Sidecar learns from its turns (sidecar-runtime.ts). *)
(* Capture records the events of a turn; when the turn has settled it is      *)
(* reduced into the working memory of its branch and the episode of its task, *)
(* and two kinds of background jobs ask the model of Pi what to remember: of  *)
(* one turn (candidates) and of the task so far (consolidation).  Meanwhile    *)
(* the user writes, steers, changes the branch or leaves, and settlements      *)
(* overlap.  Every change of branch leads to a new one here (SidecarSession     *)
(* has the returns), so a branch is known by its generation.                     *)
(***************************************************************************)
EXTENDS Naturals, Sequences, FiniteSets, SequencesExt

CONSTANTS Tasks, NoTask,
          Goals,         \* bound: configuration -> turn -> the tasks its prompt may be about
          Batches,       \* bound: configuration -> sequences of [kind, command], verifications in a row
          Naming,        \* those whose error output names the command
          Configurations,  \* sets of what is enabled: "working memory", "formation", "consolidation"
          Stating,       \* the turns whose goal states something to remember
          MaxTurns,
          LoopLimit,     \* maxOpenLoops
          Checkpoint,    \* longTaskCheckpointTurns
          MaxCandidates, MaxAssertions,   \* maxCandidatesPerTurn, maxSemanticCandidates
          EventLimit,    \* bound: configuration -> verifications
          MishapLimit    \* bound: configuration -> steering, changes of branch, closing, mishaps

VARIABLES enabled,   \* the configuration
          sess,      \* what validity is judged by: [gen, taskGen, task, closed, present]
          log,       \* turn -> what capture recorded, with its execution context
          finished,  \* finishedTurns
          settle,    \* turn -> where its #settleSession is; 0 -> #closeSession
          wm,        \* branch -> its working memory
          episodes,  \* <<task, branch>> -> its task episode, or None
          held,      \* session.taskEpisode, or None
          jobs,      \* background jobs that have not ended
          learned,   \* what was handed to candidates and experience
          applied,   \* branch -> the turns reduced into its working memory
          order,     \* the turns in the order their append took effect
          lost,      \* turns lost with a failing write
          tied,      \* an append got the time stamp of the one before
          mishaps

vars == <<enabled, sess, log, finished, settle, wm, episodes, held, jobs, learned, applied, order, lost, tied, mishaps>>
stores == <<wm, episodes, held, applied, order, lost, tied>>

Turns == 1..MaxTurns
Branches == 0..1
Callbacks == 0..MaxTurns
None == [none |-> TRUE]
Unset == 999

Init == /\ enabled \in Configurations
        /\ sess = [gen |-> 0, taskGen |-> 0, task |-> NoTask, closed |-> FALSE, present |-> TRUE]
        /\ log = [n \in Turns |-> [at |-> "none", goal |-> NoTask, gen |-> 0, task |-> NoTask,
                                   taskGen |-> Unset, events |-> <<>>]]
        /\ finished = <<>> /\ settle = [p \in Callbacks |-> [pc |-> "idle", gen |-> 0, todo |-> <<>>]]
        /\ wm = [b \in Branches |-> [task |-> NoTask, loops |-> <<>>]]
        /\ episodes = [k \in Tasks \X Branches |-> None] /\ held = None
        /\ jobs = {} /\ learned = {}
        /\ applied = [b \in Branches |-> <<>>] /\ order = <<>> /\ lost = {} /\ tied = FALSE
        /\ mishaps = 0

Mishap == mishaps < MishapLimit[enabled] /\ mishaps' = mishaps + 1

\* #sessionStillValid, for the execution context of a turn
Valid(n) == /\ sess.present /\ ~sess.closed
            /\ log[n].gen = sess.gen /\ log[n].taskGen = sess.taskGen /\ log[n].task = sess.task

-----------------------------------------------------------------------------
(* What Pi tells the session.  Steering is an input of a running turn.        *)

Steers(n) == {k \in DOMAIN log[n].events : log[n].events[k].kind = "steer"}
Running == \E n \in Turns : log[n].at = "running"

\* #cancelReasonRequests: the jobs that wait for an answer fail.
Rejected == {j \in jobs : j.pc # "asked"}

\* capture.toolResult of commands that verify, up to the next steering or the end of the
\* turn.  They are read after that only, so they come in one step.
Recorded(n) == Cardinality(DOMAIN log[n].events \ Steers(n))
Room == EventLimit[enabled] - FoldSet(LAMBDA n, sum : sum + Recorded(n), 0, Turns)

\* input.activity, capture.start
Begin == /\ ~sess.closed /\ ~Running
         /\ \E n \in Turns, room \in {Room} :
               /\ log[n].at = "none" /\ \A m \in 1..(n - 1) : log[m].at # "none"
               /\ \E t \in Goals[enabled][n], batch \in Batches[enabled] :
                     /\ Len(batch) <= room
                     /\ log' = [log EXCEPT ![n].at = "running", ![n].goal = t, ![n].gen = sess.gen,
                                           ![n].events = batch]
         /\ jobs' = Rejected
         /\ UNCHANGED <<sess, finished, settle, stores, learned, mishaps>>

\* input.activity, capture.steer
Steer == /\ ~sess.closed /\ Mishap
         /\ \E n \in Turns, room \in {Room} :
               /\ log[n].at = "running"
               /\ \E batch \in Batches[enabled] :
                     /\ Len(batch) <= room
                     /\ log' = [log EXCEPT ![n].events = @ \o <<[kind |-> "steer"]>> \o batch]
         /\ sess' = [sess EXCEPT !.taskGen = @ + 1]
         /\ jobs' = Rejected
         /\ UNCHANGED <<finished, settle, stores, learned>>

AgentSettled == /\ ~sess.closed
                /\ \E n \in Turns : log[n].at = "running" /\ log' = [log EXCEPT ![n].at = "ended"]
                /\ UNCHANGED <<sess, finished, settle, stores, jobs, learned, mishaps>>

\* session.branch
Move == /\ ~sess.closed /\ ~Running /\ sess.gen + 1 \in Branches /\ Mishap
        /\ sess' = [sess EXCEPT !.gen = @ + 1]
        /\ jobs' = Rejected
        /\ UNCHANGED <<log, finished, settle, stores, learned>>

\* session.close cancels the jobs: the queued ones never run, the others find their signal aborted.
Close == /\ ~sess.closed /\ Mishap
         /\ sess' = [sess EXCEPT !.closed = TRUE, !.gen = @ + 1, !.taskGen = @ + 1]
         /\ jobs' = {}
         /\ settle' = [settle EXCEPT ![0].pc = "closing"]
         /\ UNCHANGED <<log, finished, stores, learned>>

-----------------------------------------------------------------------------
(* The session's queue of capture operations, in the order of the notifications. *)

\* #refreshContext: the task that the prompt is found to be about, if it is.
Refreshed(t) == [sess EXCEPT !.taskGen = IF t = sess.task THEN @ ELSE @ + 1, !.task = t]
Refresh(n) == \/ sess' = Refreshed(log[n].goal) /\ UNCHANGED mishaps
              \/ sess' = sess /\ Mishap

Queued(n) == log[n].at \in {"running", "ended"} /\ \A m \in 1..(n - 1) : log[m].at = "done"

\* capture.start refreshes the context and fixes the scope of the turn and, when the episode
\* is stored, the generation of its task.  A steering in between comes to the same as one
\* before.  On another branch the task is the one the adapter had been told.
Start(n) == /\ Queued(n) /\ log[n].taskGen = Unset
            /\ IF sess.gen = log[n].gen
               THEN /\ Refresh(n)
                    /\ log' = [log EXCEPT ![n].task = sess'.task, ![n].taskGen = sess'.taskGen]
               ELSE /\ \E t \in Tasks \cup {NoTask} :
                          log' = [log EXCEPT ![n].task = t, ![n].taskGen = sess.taskGen]
                    /\ UNCHANGED <<sess, mishaps>>
            /\ UNCHANGED <<finished, settle, stores, jobs, learned>>
\* capture.finish: of agent.settled, whose #settleSession goes on; or of the closing.
Finish(n) == /\ Queued(n) /\ log[n].taskGen # Unset
             /\ \/ /\ log[n].at = "ended"
                   /\ settle' = [settle EXCEPT ![n].pc = "refresh", ![n].gen = sess.gen]
                \/ /\ log[n].at = "running" /\ settle[0].pc = "closing"
                   /\ UNCHANGED settle
             /\ log' = [log EXCEPT ![n].at = "done"]
             /\ finished' = Append(finished, n)
             /\ UNCHANGED <<sess, stores, jobs, learned, mishaps>>

-----------------------------------------------------------------------------
(* WorkingMemoryService.applyEpisode, as far as open loops go.                *)

\* appendUniqueBounded, and #compact: resolved loops first, then the last ones.
Recent(loops, n) == IF Len(loops) <= n THEN loops ELSE SubSeq(loops, Len(loops) - n + 1, Len(loops))
Compacted(loops) == Recent(SelectSeq(loops, LAMBDA l : ~l.active) \o SelectSeq(loops, LAMBDA l : l.active),
                         LoopLimit)

\* A failing verification is open as the failure of its tool, too; of that, a later pass is
\* known by the words of the command only.
Loops(n, k) == <<[of |-> <<n, k>>, what |-> "tool", active |-> TRUE],
                 [of |-> <<n, k>>, what |-> "verification", active |-> TRUE]>>
Command(id) == log[id[1]].events[id[2]].command
Resolves(loop, command) ==
    Command(loop.of) = command /\ (loop.what = "verification" \/ command \in Naming)
Reduced(loops, n, k) ==
    LET event == log[n].events[k] IN
    CASE event.kind = "fail" ->
            Recent(loops \o Loops(n, k), LoopLimit)
      [] event.kind = "pass" ->
            [i \in DOMAIN loops |->
                [loops[i] EXCEPT !.active = @ /\ ~Resolves(loops[i], event.command)]]
      [] event.kind = "steer" -> loops
\* Mutant: the loops of the last task stay.
SameTask(memory, task) == FALSE
NewTask(memory, task) == memory.task # NoTask /\ task # NoTask /\ memory.task # task
\* The sets of one bind each intermediate value, which TLC evaluates once then.
ApplyEpisode(memory, n) ==
    LET kept == IF NewTask(memory, log[n].task) THEN <<>> ELSE memory.loops
        after == FoldLeft(LAMBDA S, k : {Reduced(loops, n, k) : loops \in S}, {kept},
                          [k \in DOMAIN log[n].events |-> k])
    IN {[task |-> IF log[n].task = NoTask THEN memory.task ELSE log[n].task,
         loops |-> Compacted(loops)] : loops \in after}

-----------------------------------------------------------------------------
(* TaskEpisodeService.                                                        *)

Verifications(n) == DOMAIN log[n].events \ Steers(n)
Latest(ks) == CHOOSE k \in ks : \A j \in ks : j <= k
\* The outcome of capture.finish; the task is completed, failed or goes on with it.
Outcome(n) == IF Verifications(n) = {} THEN "unknown"
              ELSE IF log[n].events[Latest(Verifications(n))].kind = "pass" THEN "passed" ELSE "failed"

\* The events of a turn after its last steering; 0 is its goal.
\* Mutant: all of them.
WholePath(n) == {<<n, k>> : k \in 0..Len(log[n].events)}
ValidPath(n) == {<<n, k>> : k \in IF Steers(n) = {} THEN 0..Len(log[n].events)
                                  ELSE (Latest(Steers(n)) + 1)..Len(log[n].events)}
\* Mutant: steering leaves the turns before it in the task.
AllAppended(ep, n, tie) ==
    [turns |-> (IF ep = None THEN <<>> ELSE ep.turns) \o <<n>>,
     verification |-> Outcome(n), outcome |-> Outcome(n), stamp |-> 1]
Appended(ep, n, tie) ==
    LET afresh == ep = None \/ Steers(n) # {} IN
    [turns |-> (IF afresh THEN <<>> ELSE ep.turns) \o <<n>>,
     verification |-> IF Outcome(n) # "unknown" \/ afresh THEN Outcome(n) ELSE ep.verification,
     outcome |-> Outcome(n),
     stamp |-> (IF ep = None THEN 0 ELSE ep.stamp) + (IF tie THEN 0 ELSE 1)]
\* checkpoint: the copy of the session, unless the stored one is later.
\* Mutant: the copy.
Copied(ep, copy) == copy
Newer(ep, copy) == IF ep # None /\ ep.stamp > copy.stamp THEN ep ELSE copy

Key(n) == <<log[n].task, log[n].gen>>

-----------------------------------------------------------------------------
(* The jobs.  A job carries the turn it is for, whose context it is judged by.  *)

Candidate(n) == [id |-> <<"candidate", n>>, turn |-> n, ep |-> None, pc |-> "queued", next |-> "ask", left |-> 0, late |-> 0]
Consolidated(n, ep) ==
    [id |-> <<"task", Key(n), Len(ep.turns)>>, turn |-> n, ep |-> ep, pc |-> "queued", next |-> "ask", left |-> 0, late |-> 0]
\* #scheduleEpisodeConsolidation: a task that is done, one that failed, or a long one.
Due(ep) == \/ ep.outcome = "passed" \/ ep.verification = "failed"
           \/ (ep.outcome = "unknown" /\ Len(ep.turns) % Checkpoint = 0)
\* The scheduler joins a job to one of the same id.
Scheduled(all, job) == IF \E j \in all : j.id = job.id THEN all ELSE all \cup {job}
Planned(n, ep) ==
    LET formed == IF "formation" \in enabled /\ n \in Stating THEN Scheduled(jobs, Candidate(n)) ELSE jobs IN
    IF "consolidation" \in enabled /\ ep # None /\ Due(ep) THEN Scheduled(formed, Consolidated(n, ep)) ELSE formed

\* #settleSession: refresh, unless the session has moved on, and drain.
SettleRefresh(n) ==
    /\ settle[n].pc = "refresh"
    /\ IF sess.closed \/ sess.gen # settle[n].gen THEN UNCHANGED <<sess, mishaps>> ELSE Refresh(n)
    /\ settle' = [settle EXCEPT ![n].pc = "take"]
    /\ UNCHANGED <<log, finished, stores, jobs, learned>>

Drained == \A n \in Turns : log[n].at \in {"none", "done"}
\* Mutant: a drain ends with its first turn.
GotoEnd(p, todo) ==
    [settle EXCEPT ![p].todo = IF settle[p].pc = "take" THEN todo ELSE <<>>,
                   ![p].pc = IF settle[p].pc = "take" /\ todo # <<>> THEN "apply" ELSE IF p = 0 THEN "checkpoint" ELSE "done"]
Goto(p, todo) == [settle EXCEPT ![p].todo = todo,
                                ![p].pc = IF todo # <<>> THEN "apply" ELSE IF p = 0 THEN "checkpoint" ELSE "done"]
\* #closeSession waits for the queue before it drains.
Take(p) == /\ settle[p].pc = "take" \/ (p = 0 /\ settle[p].pc = "closing" /\ Drained)
           /\ IF sess.present
              THEN settle' = Goto(p, finished) /\ finished' = <<>>
              ELSE settle' = Goto(p, <<>>) /\ UNCHANGED finished
           /\ UNCHANGED <<sess, log, stores, jobs, learned, mishaps>>

Apply(p) ==
    /\ settle[p].pc = "apply"
    /\ LET n == Head(settle[p].todo) IN
          \/ /\ "working memory" \in enabled
             /\ \E memory \in ApplyEpisode(wm[log[n].gen], n) : wm' = [wm EXCEPT ![log[n].gen] = memory]
             /\ applied' = [applied EXCEPT ![log[n].gen] = Append(@, n)]
             /\ UNCHANGED mishaps
          \/ "working memory" \in enabled /\ Mishap /\ UNCHANGED <<wm, applied>>
          \/ "working memory" \notin enabled /\ UNCHANGED <<wm, applied, mishaps>>
    /\ settle' = [settle EXCEPT ![p].pc = "append"]
    /\ UNCHANGED <<sess, log, finished, episodes, held, order, lost, tied, jobs, learned>>

\* append, and what is planned after it; a failure leaves the rest of the drain undone.
AppendTurn(p) ==
    /\ settle[p].pc = "append"
    /\ LET n == Head(settle[p].todo)
           plan(ep) == jobs' = IF p # 0 /\ Valid(n) THEN Planned(n, ep) ELSE jobs IN
          \/ /\ log[n].task # NoTask
             /\ \E tie \in BOOLEAN : LET ep == Appended(episodes[Key(n)], n, tie) IN
                   /\ IF tie THEN episodes[Key(n)] # None /\ Mishap ELSE UNCHANGED mishaps
                   /\ episodes' = [episodes EXCEPT ![Key(n)] = ep]
                   /\ held' = IF Valid(n) THEN [key |-> Key(n), ep |-> ep] ELSE held
                   /\ tied' = (tied \/ tie)
                   /\ plan(ep)
             /\ order' = Append(order, n)
             /\ settle' = Goto(p, Tail(settle[p].todo))
             /\ UNCHANGED lost
          \/ /\ log[n].task = NoTask
             /\ plan(None)
             /\ settle' = Goto(p, Tail(settle[p].todo))
             /\ UNCHANGED <<episodes, held, order, lost, tied, mishaps>>
          \/ /\ log[n].task # NoTask /\ Mishap
             /\ lost' = lost \cup ToSet(settle[p].todo)
             /\ settle' = Goto(p, <<>>)
             /\ UNCHANGED <<episodes, held, order, tied, jobs>>
    /\ UNCHANGED <<sess, log, finished, wm, applied, learned>>

\* The end of #closeSession; compaction writes the same checkpoint.
Checkpointed == IF held = None THEN episodes ELSE [episodes EXCEPT ![held.key] = Newer(@, held.ep)]
Leave == /\ settle[0].pc = "checkpoint"
         /\ episodes' = Checkpointed
         /\ sess' = [sess EXCEPT !.present = FALSE]
         /\ settle' = [settle EXCEPT ![0].pc = "done"]
         /\ UNCHANGED <<log, finished, wm, held, applied, order, lost, tied, jobs, learned, mishaps>>
Compact == /\ ~sess.closed /\ Checkpointed # episodes
           /\ episodes' = Checkpointed
           /\ UNCHANGED <<sess, log, finished, settle, wm, held, applied, order, lost, tied, jobs, learned, mishaps>>

-----------------------------------------------------------------------------
Replaced(j, new) == jobs' = (jobs \ {j}) \cup new
Frozen == UNCHANGED <<sess, log, finished, settle, stores, mishaps>>

\* A proposal: what kind of thing it would teach, and the event it cites.
Lesson(j, kind, id) == [kind |-> kind, turn |-> j.turn, cites |-> id,
                        late |-> j.late + IF Valid(j.turn) THEN 0 ELSE 1]
Taught(j, kind, id) == learned' = learned \cup {Lesson(j, kind, id)}
Passes(id) == id[2] > 0 /\ log[id[1]].events[id[2]].kind = "pass"
AllEvents == UNION {WholePath(n) : n \in Turns}

\* Candidate formation: the session is judged before the request, after it and before each
\* proposal is observed, each time without an await before what follows.
CandidateRun(j) == /\ j.id[1] = "candidate" /\ j.pc = "queued" /\ Frozen /\ UNCHANGED learned
                   /\ Replaced(j, IF Valid(j.turn) THEN {[j EXCEPT !.pc = "asked"]} ELSE {})
CandidateAnswer(j) == /\ j.id[1] = "candidate" /\ j.pc = "asked" /\ Frozen /\ UNCHANGED learned
                      /\ \E many \in 1..MaxCandidates :
                            Replaced(j, IF Valid(j.turn) THEN {[j EXCEPT !.pc = "observe", !.left = many]} ELSE {})
\* Evidence are the goal and the verifications of the turn.
\* Mutant: the proposals of an answer are judged once.
JudgedOnce(j) == TRUE
Judged(j) == Valid(j.turn)
CandidateObserve(j) ==
    /\ j.id[1] = "candidate" /\ j.pc = "observe" /\ Frozen
    /\ IF ~Judged(j) THEN Replaced(j, {}) /\ UNCHANGED learned
       ELSE /\ \E id \in WholePath(j.turn) : id[2] \notin Steers(j.turn) /\ Taught(j, "candidate", id)
            /\ Replaced(j, IF j.left = 1 THEN {} ELSE {[j EXCEPT !.left = @ - 1]})

\* #consolidationLeaseValid: the session is judged first, and then the task episode is read.
\* Mutant: only before the request.
LeasedOnce(j, next) == IF next = "ask" /\ ~Valid(j.turn) THEN {} ELSE {[j EXCEPT !.pc = "read", !.next = next]}
Leased(j, next) == IF Valid(j.turn) THEN {[j EXCEPT !.pc = "read", !.next = next]} ELSE {}
Lease(j) == /\ j.pc = "read"
            /\ LET ep == episodes[j.id[2]] IN ep # None /\ j.turn \in ToSet(ep.turns)
Lapse(j) == /\ j.pc = "read" /\ ~Lease(j) /\ Frozen /\ UNCHANGED learned /\ Replaced(j, {})

Evidence(j) == UNION {ValidPath(n) : n \in ToSet(j.ep.turns)}
\* validateConsolidationEvidence
Grounded(j, id, verified) == id \in Evidence(j) /\ (verified => Passes(id))

ConsolidationRun(j) == /\ j.id[1] = "task" /\ j.pc = "queued" /\ Frozen /\ UNCHANGED learned
                       /\ Replaced(j, Leased(j, "ask"))
Ask(j) == /\ Lease(j) /\ j.next = "ask" /\ Frozen /\ UNCHANGED learned
          /\ Replaced(j, {[j EXCEPT !.pc = "asked"]})
ConsolidationAnswer(j) == /\ j.id[1] = "task" /\ j.pc = "asked" /\ Frozen /\ UNCHANGED learned
                          /\ Replaced(j, Leased(j, "parse"))
Following(j) == IF j.left = 0 THEN "procedure" ELSE "assertion"
Parse(j) == /\ Lease(j) /\ j.next = "parse" /\ Frozen /\ UNCHANGED learned
            /\ \E many \in 0..MaxAssertions : LET parsed == [j EXCEPT !.left = many] IN
                  Replaced(j, Leased(parsed, Following(parsed)))
Teach(j) == /\ Lease(j) /\ j.next = "assertion" /\ Frozen
             /\ \E id \in AllEvents :
                   LET taught == [j EXCEPT !.left = @ - 1, !.late = Lesson(j, "assertion", id).late] IN
                   IF Grounded(j, id, TRUE)
                   THEN Taught(j, "assertion", id) /\ Replaced(j, Leased(taught, Following(taught)))
                   ELSE Replaced(j, Leased([j EXCEPT !.left = @ - 1], Following(taught))) /\ UNCHANGED learned
\* deriveTaskEpisodeExperienceObservation, observe, recordOutcome, qualify and promote
Succeeded(ep) == ep.outcome = "passed" /\ ep.verification = "passed"
Distil(j) == /\ Lease(j) /\ j.next = "procedure" /\ Frozen /\ Replaced(j, {})
             /\ \E id \in AllEvents :
                   IF j.ep.verification # "unknown" /\ Grounded(j, id, j.ep.verification = "passed")
                   THEN Taught(j, IF Succeeded(j.ep) THEN "success" ELSE "failure", id)
                   ELSE UNCHANGED learned

\* #requestCognition gives up after 20 s, and an answer that is not what was asked for fails.
Timeout(j) == j.pc = "asked" /\ Frozen /\ UNCHANGED learned /\ Replaced(j, {})

JobStep(j) == \/ CandidateRun(j) \/ CandidateAnswer(j) \/ CandidateObserve(j)
              \/ ConsolidationRun(j) \/ Lapse(j) \/ Ask(j) \/ ConsolidationAnswer(j) \/ Parse(j)
              \/ Teach(j) \/ Distil(j) \/ Timeout(j)
Internal == \/ \E n \in Turns : Start(n) \/ Finish(n) \/ SettleRefresh(n)
            \/ \E p \in Callbacks : Take(p) \/ Apply(p) \/ AppendTurn(p)
            \/ Leave
            \/ \E j \in jobs : JobStep(j)
Step == Begin \/ Steer \/ AgentSettled \/ Move \/ Close \/ Compact
Next == (Step \/ Internal) /\ UNCHANGED enabled

\* Every callback goes on, every job is run, and a request is answered or times out.
Fairness == WF_vars(Internal /\ UNCHANGED enabled)
Spec == Init /\ [][Next]_vars /\ Fairness

-----------------------------------------------------------------------------
TypeOK ==
    /\ sess.task \in Tasks \cup {NoTask} /\ sess.gen \in 0..(Cardinality(Branches))
    /\ \A n \in Turns : log[n].at \in {"none", "running", "ended", "done"}
    /\ \A j \in jobs : j.pc \in {"queued", "asked", "observe", "read"}
    /\ finished \in Seq(Turns) /\ lost \subseteq Turns

\* The open loops of a branch, by their definition: of the turns reduced since its task
\* last changed, the failures that no later verification resolved.
SinceTask(b) ==
    LET turns == applied[b]
        known == {i \in DOMAIN turns : log[turns[i]].task # NoTask}
        starts == {i \in known : \E h \in known : /\ h < i /\ log[turns[h]].task # log[turns[i]].task
                                                /\ \A g \in known : g <= h \/ g >= i}
    IN IF starts = {} THEN turns ELSE SubSeq(turns, Latest(starts), Len(turns))
Opened(b) == UNION {UNION {ToSet(Loops(n, k)) : k \in {i \in DOMAIN log[n].events : log[n].events[i].kind = "fail"}} :
                    n \in ToSet(SinceTask(b))}
ResolvedIn(b, loop) ==
    LET turns == SinceTask(b) IN
    \E i, j \in DOMAIN turns : \E k \in DOMAIN log[turns[j]].events :
        /\ turns[i] = loop.of[1] /\ (i < j \/ (i = j /\ loop.of[2] < k))
        /\ Passes(<<turns[j], k>>) /\ Resolves(loop, Command(<<turns[j], k>>))
\* What the working memory of a branch shows as open is open, and all that is open is
\* shown, unless more loops were opened than it holds.
LoopsAreOpen ==
    \A b \in Branches : applied[b] # <<>> =>
        LET opened == Opened(b)
            unresolved == {loop \in opened : ~ResolvedIn(b, loop)}
            shown == {loop \in ToSet(wm[b].loops) : loop.active} IN
        /\ shown \subseteq unresolved
        /\ Cardinality(opened) <= LoopLimit => shown = unresolved

\* Nothing is learned for a session that has moved on, except what one job of consolidation
\* had read the task episode for before.
LearnsInTime == \A l \in learned : l.late <= IF l.kind = "candidate" THEN 0 ELSE 1

\* An assertion or a success rests on a verification that passed, in the same task and
\* branch, and that no later steering had given up when it was learned; unless settlements that
\* overlapped appended their turns out of order.
Index(n) == CHOOSE i \in DOMAIN order : order[i] = n
InOrder(m, n) == Index(m) < Index(n)
GivenUp(l) ==
    \/ \E k \in Steers(l.cites[1]) : k > l.cites[2]
    \/ \E n \in ToSet(order) : /\ l.cites[1] < n /\ n <= l.turn /\ Key(n) = Key(l.turn)
                               /\ Steers(n) # {} /\ InOrder(l.cites[1], n)
LearnsWhatHolds ==
    \A l \in learned : l.kind \in {"assertion", "success"} =>
        Passes(l.cites) /\ Key(l.cites[1]) = Key(l.turn) /\ ~GivenUp(l)

\* The task episode of a branch holds the turns that were appended since the last steering,
\* unless two of them got the same time stamp.
EpisodeIsWhole ==
    \A k \in Tasks \X Branches :
        LET turns == SelectSeq(order, LAMBDA n : Key(n) = k)
            steered == {i \in DOMAIN turns : Steers(turns[i]) # {}}
            kept == IF steered = {} THEN turns ELSE SubSeq(turns, Latest(steered), Len(turns)) IN
        IF turns = <<>> THEN episodes[k] = None
        ELSE episodes[k].turns = kept \/ tied

\* Every turn that was recorded gets into the episode of its task, unless a write failed,
\* and every settlement and every job comes to its end.
LearningSettles ==
    <>[](/\ jobs = {} /\ \A p \in Callbacks : settle[p].pc \in {"idle", "done"}
         /\ \A n \in Turns : log[n].at = "done" => n \in ToSet(order) \cup lost \/ log[n].task = NoTask)
=============================================================================
