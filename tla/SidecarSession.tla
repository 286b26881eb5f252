--------------------------- MODULE SidecarSession ---------------------------
(***************************************************************************)
(* One Pi session, end to end: what the adapter tells the Sidecar about    *)
(* branches and turns (index.ts), what the session of the Sidecar runtime  *)
(* makes of it (sidecar-runtime.ts), the working memory it reduces turns   *)
(* into (working-memory.ts), and the snapshot that comes back and is put   *)
(* into the next prompt (active-context.ts).                               *)
(*                                                                         *)
(* The working memory of a branch is known by its revision and the turns   *)
(* ever reduced into it; a new task clears most of what they left, which   *)
(* is of no concern here. Adapter and Sidecar are joined by two FIFO pipes (the  *)
(* life of the process is SidecarLink's). In the Sidecar several callbacks *)
(* are under way at a time, each cut where it awaits storage: the          *)
(* operation at the head of the session's promise chain, one               *)
(* #settleSession per settled turn, a recall and the two closings of a     *)
(* shutdown.                                                               *)
(***************************************************************************)
EXTENDS Integers, Sequences, FiniteSets

CONSTANTS
    Branch, RootBranch,  \* the branches of the session tree; the first one
    NoBranch,
    ParentOf,            \* the parent Pi names for a branch, or NoBranch
    Task, NoTask,
    TaskOf,              \* the task resolveTask finds for the prompt of a turn
    MaxTurns,            \* bound: turns of the agent
    MaxGen,              \* bound: branch generations
    MaxInputs            \* bound: steering messages and memory tool calls

Turn == 1..MaxTurns

\* session.close and the shutdown that follows it each run #closeSession.
ByClose == 0
ByShutdown == -1
Closing == {ByClose, ByShutdown}
Callback == Turn \cup Closing

ASSUME TreeAssumption ==
    /\ RootBranch \in Branch /\ NoBranch \notin Branch
    /\ ParentOf \in [Branch -> Branch \cup {NoBranch}]
    /\ NoTask \notin Task /\ TaskOf \in [Turn -> Task]
    /\ {MaxTurns, MaxGen, MaxInputs} \subseteq Nat

VARIABLES
    \* the adapter
    branch, gen,   \* branchId and branchGeneration
    scope,         \* branchId of scopeContext
    shown,         \* activeContext, or None
    turn,          \* turns begun
    running,       \* the agent works on a turn
    inputs,        \* steering messages and memory tool calls, for the bound
    left,          \* session_shutdown was handled
    toSidecar, toPi,  \* the pipes
    \* the session in the Sidecar
    sBranch, sTask,   \* branchId and taskId of scopeContext
    sGen, sTaskGen,   \* branchGeneration, taskGeneration
    closed,           \* session.closed
    present,          \* the session is in #sessions
    exited,           \* the process of the Sidecar has ended
    queue,            \* operations of session.queue not yet begun
    op,               \* the operation of the queue under way
    episode,          \* the turn capture records, or 0
    contexts,         \* turnContexts
    finished,         \* finishedTurns
    settling,         \* where each #settleSession and #closeSession stands
    recall,           \* where #recordWorkingMemoryReferences stands
    \* storage
    mem,              \* the working memory of each branch, or None
    \* history
    ranOn,            \* the branch each turn was run on
    misled,           \* turns begun while scope was not on the current branch
    forked,           \* the turns a branch got from its parent when it was forked
    overrun,          \* the session was deleted, or the process ended, while
                      \* another callback was at work on a turn
    overtaken         \* contexts of turns that were no longer valid when reduced

adapterVars == <<branch, gen, scope, shown, turn, running, inputs, left>>
pipes == <<toSidecar, toPi>>
scopeVars == <<sBranch, sTask, sGen, sTaskGen, closed, present, exited>>
captureVars == <<episode, contexts, finished>>
workVars == <<queue, op, settling, recall>>
history == <<ranOn, misled, overtaken, overrun>>
vars == <<adapterVars, pipes, scopeVars, captureVars, workVars, mem, forked, history>>

None == [none |-> TRUE]
Idle == [pc |-> "idle"]
Fresh == [rev |-> 0, turns |-> {}]

Snapshot(b, g, m) == [kind |-> "active", branch |-> b, gen |-> g, rev |-> m.rev, turns |-> m.turns]

Init ==
    /\ branch = RootBranch /\ gen = 0 /\ scope = RootBranch
    /\ shown = Snapshot(RootBranch, 0, Fresh)
    /\ turn = 0 /\ running = FALSE /\ inputs = 0 /\ left = FALSE
    /\ toSidecar = <<>> /\ toPi = <<>>
    /\ sBranch = RootBranch /\ sTask = NoTask /\ sGen = 0 /\ sTaskGen = 0
    /\ closed = FALSE /\ present = TRUE /\ exited = FALSE
    /\ queue = <<>> /\ op = Idle /\ recall = Idle
    /\ settling = [p \in Callback |-> Idle]
    /\ episode = 0 /\ contexts = [t \in Turn |-> None] /\ finished = <<>>
    /\ mem = [b \in Branch |-> IF b = RootBranch THEN Fresh ELSE None]
    /\ ranOn = [t \in Turn |-> NoBranch] /\ misled = {} /\ overtaken = {} /\ overrun = FALSE
    /\ forked = [b \in Branch |-> {}]

-----------------------------------------------------------------------------
(* The adapter. Pi calls its handlers one at a time; the tree is navigated *)
(* between turns.                                                          *)

Tell(m) == toSidecar' = Append(toSidecar, m)

\* session_tree
SessionTree(b) ==
    /\ ~left /\ ~running /\ gen < MaxGen /\ b # branch
    /\ branch' = b /\ gen' = gen + 1
    /\ scope' = b
    /\ shown' = None
    /\ Tell([method |-> "branch", branch |-> b, gen |-> gen + 1])
    /\ UNCHANGED <<turn, running, inputs, left, toPi, scopeVars, captureVars, workVars, mem, forked, history>>

\* before_agent_start
BeforeAgentStart ==
    /\ ~left /\ ~running /\ turn < MaxTurns
    /\ turn' = turn + 1 /\ running' = TRUE
    /\ ranOn' = [ranOn EXCEPT ![turn + 1] = branch]
    /\ misled' = IF scope = branch THEN misled ELSE misled \cup {turn + 1}
    /\ Tell([method |-> "start", turn |-> turn + 1, scope |-> scope])
    /\ UNCHANGED <<branch, gen, scope, shown, inputs, left, toPi, scopeVars, captureVars, workVars,
                   mem, forked, overtaken, overrun>>

\* input while the agent streams
Steer ==
    /\ running /\ inputs < MaxInputs
    /\ inputs' = inputs + 1
    /\ Tell([method |-> "steer"])
    /\ UNCHANGED <<branch, gen, scope, shown, turn, running, left, toPi, scopeVars, captureVars,
                   workVars, mem, forked, history>>

\* search_memory or commit_memory, which note the memories they touch
CallTool ==
    /\ running /\ inputs < MaxInputs
    /\ inputs' = inputs + 1
    /\ Tell([method |-> "recall"])
    /\ UNCHANGED <<branch, gen, scope, shown, turn, running, left, toPi, scopeVars, captureVars,
                   workVars, mem, forked, history>>

AgentSettled ==
    /\ running
    /\ running' = FALSE
    /\ Tell([method |-> "settled", turn |-> turn])
    /\ UNCHANGED <<branch, gen, scope, shown, turn, inputs, left, toPi, scopeVars, captureVars,
                   workVars, mem, forked, history>>

\* session_shutdown. What the adapter holds is of no use any more.
SessionShutdown ==
    /\ ~left
    /\ left' = TRUE /\ running' = FALSE
    /\ toSidecar' = toSidecar \o <<[method |-> "close"], [method |-> "shutdown"]>>
    /\ toPi' = <<>>
    /\ shown' = None /\ scope' = branch
    /\ UNCHANGED <<branch, gen, turn, inputs, scopeVars, captureVars, workVars, mem, forked, history>>

\* Mutant: a snapshot is accepted whatever branch and generation it is of.
ShouldAcceptAnyBranch(s) == shown = None \/ shown.branch # s.branch \/ s.rev > shown.rev

\* shouldAcceptActiveContext
ShouldAccept(s) ==
    /\ s.branch = branch /\ s.gen = gen
    /\ shown = None \/ shown.branch # s.branch \/ s.rev > shown.rev

\* active-context.updated and context.updated
HandleEvent ==
    /\ toPi # <<>>
    /\ toPi' = Tail(toPi)
    /\ LET e == Head(toPi) IN
         \/ /\ e.kind = "active"
            /\ shown' = IF ShouldAccept(e) THEN e ELSE shown
            /\ UNCHANGED scope
         \/ /\ e.kind = "context"
            /\ scope' = e.scope
            /\ UNCHANGED shown
    /\ UNCHANGED <<branch, gen, turn, running, inputs, left, toSidecar, scopeVars, captureVars,
                   workVars, mem, forked, history>>

-----------------------------------------------------------------------------
(* The Sidecar: what its handlers do at once                               *)

Enqueue(ops) == queue' = queue \o ops

\* The parent a switch forks from: the one Pi names, or the branch before.
ForkSource(b, previous) == IF ParentOf[b] = NoBranch THEN previous ELSE ParentOf[b]

\* session.branch
ReceiveBranch(m) ==
    /\ m.method = "branch"
    /\ IF m.gen > sGen
       THEN /\ sGen' = m.gen
            /\ Enqueue(<<[do |-> "switch", branch |-> m.branch, gen |-> m.gen,
                          parent |-> ForkSource(m.branch, sBranch)]>>)
       ELSE UNCHANGED <<sGen, queue>>
    /\ UNCHANGED <<sTaskGen, closed, settling, recall>>

\* capture.start
ReceiveStart(m) ==
    /\ m.method = "start"
    /\ Enqueue(<<[do |-> "start", turn |-> m.turn, scope |-> m.scope, gen |-> sGen]>>)
    /\ UNCHANGED <<sGen, sTaskGen, closed, settling, recall>>

\* capture.steer; the event it adds to the episode is of no concern here
ReceiveSteer(m) ==
    /\ m.method = "steer"
    /\ sTaskGen' = sTaskGen + 1
    /\ UNCHANGED <<sGen, closed, queue, settling, recall>>

\* memory.recall and memory.remember
ReceiveRecall(m) ==
    /\ m.method = "recall"
    /\ recall' = [pc |-> "search"]
    /\ UNCHANGED <<sGen, sTaskGen, closed, queue, settling>>

\* agent.settled: finish is put on the queue and #settleSession waits for it.
ReceiveSettled(m) ==
    /\ m.method = "settled"
    /\ Enqueue(<<[do |-> "finish"], [do |-> "wake", for |-> m.turn]>>)
    /\ UNCHANGED <<sGen, sTaskGen, closed, settling, recall>>

\* #closeSession up to its await of the queue
BeginClose(c) ==
    /\ closed' = TRUE /\ sGen' = sGen + 1 /\ sTaskGen' = sTaskGen + 1
    /\ Enqueue(<<[do |-> "wake", for |-> c]>>)

\* session.close
ReceiveClose(m) ==
    /\ m.method = "close"
    /\ BeginClose(ByClose)
    /\ UNCHANGED <<settling, recall>>

\* close of the runtime, which closes the session again if it still is there
ReceiveShutdown(m) ==
    /\ m.method = "shutdown"
    /\ IF present THEN BeginClose(ByShutdown) /\ UNCHANGED settling
       ELSE /\ settling' = [settling EXCEPT ![ByShutdown] = [pc |-> "exit"]]
            /\ UNCHANGED <<closed, sGen, sTaskGen, queue>>
    /\ UNCHANGED recall

Receive ==
    /\ ~exited
    /\ toSidecar # <<>> /\ toSidecar' = Tail(toSidecar)
    /\ LET m == Head(toSidecar) IN
         \/ ReceiveBranch(m) \/ ReceiveStart(m) \/ ReceiveSteer(m)
         \/ ReceiveRecall(m) \/ ReceiveSettled(m) \/ ReceiveClose(m) \/ ReceiveShutdown(m)
    /\ UNCHANGED <<adapterVars, toPi, sBranch, sTask, present, exited, captureVars, op, mem, forked, history>>

-----------------------------------------------------------------------------
(* Working memory                                                          *)

\* What loadOrCreate starts a branch with: a copy of its parent's, or nothing.
Forked(parent) ==
    IF parent # NoBranch /\ mem[parent] # None THEN [rev |-> 0, turns |-> mem[parent].turns] ELSE Fresh

\* loadOrCreate(b) followed by one mutate that adds turns ts.
Reduced(b, ts) ==
    LET m == IF mem[b] = None THEN Forked(ParentOf[b]) ELSE mem[b]
    IN  [rev |-> m.rev + 1, turns |-> m.turns \cup ts]

Store(b, m, copied) ==
    /\ mem' = [mem EXCEPT ![b] = m]
    /\ forked' = IF mem[b] = None THEN [forked EXCEPT ![b] = copied] ELSE forked

Reduce(b, ts) == Store(b, Reduced(b, ts), Forked(ParentOf[b]).turns)

\* An event to the adapter; after session_shutdown nothing is prompted any more,
\* and what still arrives is of no consequence.
Emit(e) == toPi' = IF left THEN <<>> ELSE Append(toPi, e)

\* #publishActiveContext
Publish(b, m) == Emit(Snapshot(b, sGen, m))

\* context.updated
Announce == Emit([kind |-> "context", scope |-> sBranch])

-----------------------------------------------------------------------------
(* The promise chain of the session, one operation at a time               *)

\* The session still is where it was when something was asked of it.
StillOn(b, g) == ~closed /\ sGen = g /\ sBranch = b

\* The end of #refreshContext up to its last await: the task of the prompt.
ResolveTask(t) ==
    /\ sTask' = TaskOf[t]
    /\ sTaskGen' = IF TaskOf[t] = sTask THEN sTaskGen ELSE sTaskGen + 1

\* PiCaptureSession.finish and the handler it calls
FinishEpisode ==
    IF episode = 0 THEN UNCHANGED captureVars
    ELSE /\ finished' = Append(finished, [turn |-> episode, ctx |-> contexts[episode]])
         /\ contexts' = [contexts EXCEPT ![episode] = None]
         /\ episode' = 0

opUnchanged == <<adapterVars, toSidecar, sGen, closed, present, exited, queue, settling, recall, history>>

\* The end of #switchWorkingMemoryBranch: the branch is published if the
\* session is still on it.
EndSwitch(m) ==
    /\ op' = Idle
    /\ IF StillOn(op.branch, op.gen) THEN Publish(op.branch, m) ELSE UNCHANGED toPi

\* loadOrCreate finds the branch, or takes a copy of its parent ...
LoadBranch ==
    /\ op.pc = "load"
    /\ IF mem[op.branch] # None
       THEN EndSwitch(mem[op.branch])
       ELSE /\ op' = [pc |-> "create", branch |-> op.branch, gen |-> op.gen, value |-> Forked(op.parent)]
            /\ UNCHANGED toPi
    /\ UNCHANGED <<opUnchanged, sBranch, sTask, sTaskGen, captureVars, mem, forked>>

\* ... and writes it unless the branch has been created meanwhile.
CreateBranch ==
    /\ op.pc = "create"
    /\ LET m == IF mem[op.branch] = None THEN op.value ELSE mem[op.branch] IN
         /\ Store(op.branch, m, op.value.turns)
         /\ EndSwitch(m)
    /\ UNCHANGED <<opUnchanged, sBranch, sTask, sTaskGen, captureVars>>

\* The scope of the turn, and capture.start up to its first await. A turn whose
\* branch is not the session's keeps the task Pi last heard of, which its context
\* never makes use of.
Capture(o) ==
    /\ episode' = o.turn
    /\ op' = [pc |-> "bind", turn |-> o.turn, gen |-> o.gen, branch |-> o.scope,
              task |-> IF sGen = o.gen /\ sBranch = o.scope /\ sTask # NoTask THEN sTask ELSE NoTask]
    /\ UNCHANGED <<contexts, finished>>

\* #refreshContext with the goal of the turn that starts ...
RefreshForStart ==
    /\ op.pc = "refresh"
    /\ IF StillOn(op.scope, op.gen)
       THEN /\ ResolveTask(op.turn) /\ op' = [op EXCEPT !.pc = "announce"] /\ UNCHANGED captureVars
       ELSE /\ Capture(op) /\ UNCHANGED <<sTask, sTaskGen>>
    /\ UNCHANGED <<opUnchanged, toPi, sBranch, mem, forked>>

\* ... which is announced once the snapshot is stored, and the turn is captured.
AnnounceForStart ==
    /\ op.pc = "announce"
    /\ Announce
    /\ Capture(op)
    /\ UNCHANGED <<opUnchanged, sBranch, sTask, sTaskGen, mem, forked>>

\* The execution context of the turn, once the episode is stored
BindContext ==
    /\ op.pc = "bind"
    /\ contexts' = [contexts EXCEPT ![op.turn] = [branch |-> op.branch, task |-> op.task,
                                                  gen |-> op.gen, taskGen |-> sTaskGen]]
    /\ op' = Idle
    /\ UNCHANGED <<opUnchanged, toPi, sBranch, sTask, sTaskGen, episode, finished, mem, forked>>

BeginSwitch(o) ==
    /\ o.do = "switch"
    /\ IF closed \/ sGen # o.gen
       THEN UNCHANGED <<sBranch, op>>
       ELSE /\ sBranch' = o.branch
            /\ op' = [pc |-> "load", branch |-> o.branch, gen |-> o.gen, parent |-> o.parent]
    /\ UNCHANGED <<captureVars, settling>>

BeginStart(o) ==
    /\ o.do = "start"
    /\ LET begun == [pc |-> "refresh", turn |-> o.turn, scope |-> o.scope, gen |-> o.gen] IN
         IF StillOn(o.scope, o.gen) THEN op' = begun /\ UNCHANGED captureVars ELSE Capture(begun)
    /\ UNCHANGED <<sBranch, settling>>

Finish(o) ==
    /\ o.do = "finish"
    /\ FinishEpisode
    /\ UNCHANGED <<sBranch, op, settling>>

\* Mutant: closing leaves the turn under way unfinished.
EndsEpisodeNever(c) == FALSE

\* #closeSession finishes the turn under way.
EndsEpisode(c) == episode # 0

\* Where #closeSession goes on once the queue is empty
WakeClosing(c) ==
    IF EndsEpisode(c) THEN [pc |-> "append", turn |-> episode, ctx |-> contexts[episode]] ELSE [pc |-> "drain"]

\* Whoever awaited the queue goes on: #settleSession, or #closeSession.
Wake(o) ==
    /\ o.do = "wake"
    /\ settling' = [settling EXCEPT ![o.for] =
                      IF o.for \in Closing THEN WakeClosing(o.for)
                      ELSE [pc |-> "refresh", branch |-> sBranch, gen |-> sGen]]
    /\ UNCHANGED <<captureVars, sBranch, op>>

\* The promise of the operation before is settled.
ChainFree == op = Idle

\* The next operation of the chain, up to its first await
BeginOperation ==
    /\ ChainFree /\ queue # <<>>
    /\ queue' = Tail(queue)
    /\ LET o == Head(queue) IN BeginSwitch(o) \/ BeginStart(o) \/ Finish(o) \/ Wake(o)
    /\ UNCHANGED <<adapterVars, pipes, sTask, sGen, sTaskGen, closed, present, exited, recall, mem, forked,
                   history>>

Operation ==
    \/ BeginOperation \/ LoadBranch \/ CreateBranch
    \/ RefreshForStart \/ AnnounceForStart \/ BindContext

-----------------------------------------------------------------------------
(* #settleSession and the end of #closeSession                             *)

GoOn(t, where) == settling' = [settling EXCEPT ![t] = where]

\* #drainFinishedTurns returns; #closeSession removes the session.
AfterDrain(t) == IF t \in Closing THEN [pc |-> "delete"] ELSE Idle

settleUnchanged == <<adapterVars, toSidecar, sBranch, sGen, closed, queue, op, recall, ranOn, misled>>
settleKept == <<settleUnchanged, episode, contexts, present, exited, overrun>>

\* #drainFinishedTurns takes all turns that are finished by now ...
TakeTurns(t, turns) ==
    IF present /\ turns # <<>>
    THEN /\ GoOn(t, [pc |-> "reduce", todo |-> turns]) /\ finished' = <<>>
    ELSE /\ GoOn(t, AfterDrain(t)) /\ finished' = turns

TakeFinishedTurns(t) == TakeTurns(t, finished)

\* #refreshContext with the prompt of the turn that settled
RefreshForSettle(t) ==
    /\ ~exited /\ settling[t].pc = "refresh"
    /\ IF present /\ StillOn(settling[t].branch, settling[t].gen)
       THEN /\ ResolveTask(t) /\ GoOn(t, [pc |-> "announce"]) /\ UNCHANGED finished
       ELSE /\ TakeFinishedTurns(t) /\ UNCHANGED <<sTask, sTaskGen>>
    /\ UNCHANGED <<settleKept, toPi, mem, forked, overtaken>>

AnnounceForSettle(t) ==
    /\ ~exited /\ settling[t].pc = "announce"
    /\ Announce
    /\ TakeFinishedTurns(t)
    /\ UNCHANGED <<settleKept, sTask, sTaskGen, mem, forked, overtaken>>

\* PiCaptureSession.finish for #closeSession: the outcome is stored, and the
\* episode is no longer running; a second finish in the meantime does the same ...
EndEpisode(c) ==
    /\ settling[c].pc = "append"
    /\ episode' = IF episode = settling[c].turn THEN 0 ELSE episode
    /\ GoOn(c, [settling[c] EXCEPT !.pc = "handOver"])
    /\ UNCHANGED <<contexts, finished, present, exited, overrun>>

\* ... the episode is stored, the turn handed over, and what is finished taken.
HandOver(c) ==
    /\ settling[c].pc = "handOver"
    /\ contexts' = [contexts EXCEPT ![settling[c].turn] = None]
    /\ TakeTurns(c, Append(finished, [turn |-> settling[c].turn, ctx |-> settling[c].ctx]))
    /\ UNCHANGED <<episode, present, exited, overrun>>

DrainForClose(c) ==
    /\ settling[c].pc = "drain"
    /\ TakeFinishedTurns(c)
    /\ UNCHANGED <<episode, contexts, present, exited, overrun>>

\* A turn is finished and not taken, or in the hands of another callback.
TurnUnderWay(c) ==
    finished # <<>> \/ \E p \in Callback \ {c} : settling[p].pc \in {"append", "handOver", "reduce"}

\* The checkpoints of #closeSession keep what is newer, so they change nothing.
DeleteSession(c) ==
    /\ settling[c].pc = "delete"
    /\ GoOn(c, IF c = ByShutdown THEN [pc |-> "exit"] ELSE Idle)
    /\ present' = FALSE
    /\ overrun' = (overrun \/ TurnUnderWay(c))
    /\ UNCHANGED <<episode, contexts, finished, exited>>

\* The runtime is closed, and the process exits with all that is under way.
Exit(c) ==
    /\ settling[c].pc = "exit"
    /\ settling' = [p \in Callback |-> Idle]
    /\ exited' = TRUE
    /\ overrun' = (overrun \/ TurnUnderWay(c))
    /\ UNCHANGED <<episode, contexts, finished, present>>

\* The steps of #closeSession but for ReduceTurn
Close(c) ==
    /\ ~exited
    /\ EndEpisode(c) \/ HandOver(c) \/ DrainForClose(c) \/ DeleteSession(c) \/ Exit(c)
    /\ UNCHANGED <<settleUnchanged, toPi, sTask, sTaskGen, mem, forked, overtaken>>

\* #sessionStillValid
SessionStillValid(c) ==
    /\ present /\ ~closed
    /\ c.gen = sGen /\ c.taskGen = sTaskGen /\ c.branch = sBranch /\ c.task = sTask

\* ... reduces each into the working memory of its branch and publishes the
\* result if the session is still where the turn began.
ReduceTurn(t) ==
    /\ ~exited /\ settling[t].pc = "reduce"
    /\ LET u == Head(settling[t].todo)
           rest == Tail(settling[t].todo) IN
         /\ Reduce(u.ctx.branch, {u.turn})
         /\ IF SessionStillValid(u.ctx)
            THEN /\ Publish(u.ctx.branch, Reduced(u.ctx.branch, {u.turn})) /\ UNCHANGED overtaken
            ELSE /\ overtaken' = overtaken \cup {u.ctx.branch} /\ UNCHANGED toPi
         /\ GoOn(t, IF rest = <<>> THEN AfterDrain(t) ELSE [pc |-> "reduce", todo |-> rest])
    /\ UNCHANGED <<settleKept, sTask, sTaskGen, finished>>

Settle(t) == RefreshForSettle(t) \/ AnnounceForSettle(t) \/ ReduceTurn(t)

-----------------------------------------------------------------------------
(* #recordWorkingMemoryReferences, after a recall or a commit              *)

recallUnchanged == <<adapterVars, toSidecar, scopeVars, captureVars, queue, op, settling, history>>

\* The search is over, and the scope of the session is read ...
RecallFound ==
    /\ ~exited /\ recall.pc = "search"
    /\ recall' = [pc |-> "note", branch |-> sBranch]
    /\ UNCHANGED <<recallUnchanged, toPi, mem, forked>>

\* ... the memories are noted on that branch, and it is published wherever the
\* session is by then.
RecordRecalledMemory ==
    /\ ~exited /\ recall.pc = "note"
    /\ recall' = Idle
    /\ Reduce(recall.branch, {})
    /\ Publish(recall.branch, Reduced(recall.branch, {}))
    /\ UNCHANGED recallUnchanged

Recall == RecallFound \/ RecordRecalledMemory

-----------------------------------------------------------------------------
Adapter ==
    \/ \E b \in Branch : SessionTree(b)
    \/ BeforeAgentStart \/ Steer \/ CallTool \/ AgentSettled \/ SessionShutdown

Next ==
    \/ Adapter \/ HandleEvent
    \/ Receive \/ Operation \/ Recall
    \/ \E p \in Callback : Settle(p)
    \/ \E c \in Closing : Close(c)

Spec == Init /\ [][Next]_vars

\* The event loops of both processes run, the storage answers, and the Sidecar
\* is not killed before it has ended. Nothing makes the user act.
Fairness == WF_vars(\/ HandleEvent \/ Receive \/ Operation \/ Recall
                    \/ \E p \in Callback : Settle(p)
                    \/ \E c \in Closing : Close(c))

FairSpec == Spec /\ Fairness

-----------------------------------------------------------------------------
(* Properties *)

Memory == [rev : Nat, turns : SUBSET Turn]
Context == [branch : Branch, task : Task \cup {NoTask}, gen : Nat, taskGen : Nat]

\* Every variable has its type; a finished turn has the context it was begun in.
TypeOK ==
    /\ branch \in Branch /\ gen \in 0..MaxGen /\ scope \in Branch
    /\ shown = None \/ shown \in [kind : {"active"}, branch : Branch, gen : Nat, rev : Nat, turns : SUBSET Turn]
    /\ turn \in 0..MaxTurns /\ {running, left, closed, present, exited, overrun} \subseteq BOOLEAN
    /\ sBranch \in Branch /\ sTask \in Task \cup {NoTask} /\ sGen \in 0..MaxGen + 2 /\ sTaskGen \in Nat
    /\ episode \in 0..MaxTurns
    /\ contexts \in [Turn -> Context \cup {None}]
    /\ finished \in Seq([turn : Turn, ctx : Context])
    /\ mem \in [Branch -> Memory \cup {None}]
    /\ {misled} \subseteq SUBSET Turn /\ overtaken \subseteq Branch

\* What the next prompt is given is the state of the branch Pi is on, and it
\* holds turns of that branch and those it was forked with, and no others,
\* save turns that were begun under the scope of another branch.
ContextIsOfItsBranch ==
    shown # None =>
        /\ shown.branch = branch /\ shown.gen = gen
        /\ \A t \in shown.turns \ misled : ranOn[t] = branch \/ t \in forked[branch]

\* A prompt is given the working memory of the branch it runs on.
ContextIsRight == TypeOK /\ ContextIsOfItsBranch

\* "Changes of a child branch after the fork do not pollute its parent"
\* (README.md:83): a branch holds its own turns and those of its fork.
ChildNeverPollutesParent ==
    \A b \in Branch : mem[b] # None =>
        \A t \in mem[b].turns : ranOn[t] = b \/ t \in forked[b]

\* A turn that is over is in the end reduced into working memory, whatever branch
\* change, later turn or shutdown comes in between; unless one of the two closings of
\* a shutdown overruns the other, or a settlement, at work on a turn.
EveryTurnRecorded ==
    <>[](overrun \/ \A t \in 1..turn :
            t < turn \/ ~running => \E b \in Branch : mem[b] # None /\ t \in mem[b].turns)

\* In the end the adapter holds the latest state of its branch, unless a turn
\* of that branch was overtaken by a steering message or a change of task or branch.
ContextCatchesUp ==
    <>[](left \/ (shown # None /\ (branch \in overtaken \/ shown.rev = mem[branch].rev)))

=============================================================================
