------------------------------ MODULE TurnCapture ------------------------------
(***************************************************************************)
(* How a turn of Pi is recorded: the hooks of the adapter around tool calls  *)
(* (index.ts), the notifications and spool requests they send, the queue of   *)
(* capture operations in the Sidecar, and PiCaptureSession, which writes the   *)
(* events of the turn and the nodes of its task graph.  Inline results wait in *)
(* a batch of the adapter, large ones go through a file and a request; the     *)
(* user steers meanwhile, requests time out and writes fail.                    *)
(***************************************************************************)
EXTENDS Naturals, Sequences, FiniteSets, SequencesExt

CONSTANTS MaxTurns,
          Calls,         \* the tool calls
          TurnOf,        \* call -> the turn it is made in
          Large,         \* calls whose results are not inline
          Verifying,     \* calls of bash with a command that verifies
          BatchLimit,    \* turnEventLimit
          SteerLimit, FaultLimit     \* bounds; of writes that fail and requests that time out

VARIABLES turn,      \* the last turn that began
          agent,     \* whether it runs
          call,      \* call -> where it is, in Pi and in the tool_result hook
          verdict,   \* call -> how it ended
          steered,   \* call -> the steerings of its turn before it ended; turn -> all
          pending,   \* pendingInlineToolResults
          queue,     \* the messages to the Sidecar that it has not worked off
          spool,     \* calls whose spool file exists
          capture,   \* PiCaptureSession, and what it has written
          cut,       \* the writes that failed
          late       \* spool requests that timed out

vars == <<turn, agent, call, verdict, steered, pending, queue, spool, capture, cut, late>>
pi == <<turn, agent, verdict, steered>>
written == <<capture, cut>>

Turns == 1..MaxTurns
Faults == Cardinality(cut) + Cardinality(late)
CallsOf(n) == {c \in Calls : TurnOf[c] = n}
Sends(message) == queue' = Append(queue, message)

Init == /\ turn = 0 /\ agent = "idle"
        /\ call = [c \in Calls |-> "none"] /\ verdict = [c \in Calls |-> "none"]
        /\ steered = [x \in Calls \cup Turns |-> 0]
        /\ pending = <<>> /\ queue = <<>> /\ spool = {}
        /\ capture = [episode |-> 0, status |-> "none", failed |-> FALSE, verification |-> "not_run",
                      plan |-> <<>>, events |-> [n \in Turns |-> <<>>],
                      nodes |-> [x \in Calls \cup Turns |-> "none"],
                      handed |-> [n \in Turns |-> <<>>]]
        /\ cut = {} /\ late = {}

-----------------------------------------------------------------------------
(* Pi and the hooks of the adapter.                                           *)

\* before_agent_start
BeginTurn == /\ agent = "idle" /\ turn < MaxTurns
             /\ turn' = turn + 1 /\ agent' = "running"
             /\ Sends([op |-> "start", on |-> turn'])
             /\ UNCHANGED <<call, verdict, steered, pending, spool, written, late>>

\* tool_execution_start
ToolStarts(c) == /\ agent = "running" /\ TurnOf[c] = turn /\ call[c] = "none"
                 /\ call' = [call EXCEPT ![c] = "running"]
                 /\ Sends([op |-> "toolStarted", on |-> c])
                 /\ UNCHANGED <<pi, pending, spool, written, late>>

\* flushInlineToolResults
Results(batch) == [op |-> "toolResults", on |-> batch]
Flushed(batch) == IF batch = <<>> THEN queue ELSE Append(queue, Results(batch))

\* The tool ends, and the tool_result hook puts its result into the batch or, when it is
\* large, sends the batch first.  That the hook looks for the full output before is part
\* of the time the tool takes.
ToolEnds(c) == /\ call[c] = "running"
               /\ \E v \in {"pass", "fail"} : verdict' = [verdict EXCEPT ![c] = v]
               /\ steered' = [steered EXCEPT ![c] = steered[turn]]
               /\ IF c \in Large
                  THEN /\ call' = [call EXCEPT ![c] = "writing"]
                       /\ queue' = Flushed(pending) /\ pending' = <<>>
                  ELSE /\ call' = [call EXCEPT ![c] = "done"]
                       /\ LET batch == Append(pending, c) IN
                             IF Len(batch) >= BatchLimit
                             THEN queue' = Flushed(batch) /\ pending' = <<>>
                             ELSE pending' = batch /\ UNCHANGED queue
               /\ UNCHANGED <<turn, agent, spool, capture, cut, late>>
\* createToolResultSpool and the request, or nothing when the file cannot be written.
SendSpool(c) == /\ call[c] = "writing"
                /\ \/ /\ spool' = spool \cup {c} /\ Sends([op |-> "spool", on |-> c])
                      /\ call' = [call EXCEPT ![c] = "spooling"] /\ UNCHANGED cut
                   \/ /\ Faults < FaultLimit /\ cut' = cut \cup {[write |-> "spool", on |-> c]}
                      /\ call' = [call EXCEPT ![c] = "done"] /\ UNCHANGED <<spool, queue>>
                /\ UNCHANGED <<pi, pending, capture, late>>
\* After 30 s the hook removes the file and returns.
TimesOut(c) == /\ call[c] = "spooling" /\ Faults < FaultLimit
               /\ late' = late \cup {c} /\ spool' = spool \ {c}
               /\ call' = [call EXCEPT ![c] = "done"]
               /\ UNCHANGED <<pi, pending, queue, written>>

\* input
Steer == /\ agent = "running" /\ steered[turn] < SteerLimit
         /\ steered' = [steered EXCEPT ![turn] = @ + 1]
         /\ Sends([op |-> "steer", on |-> turn])
         /\ UNCHANGED <<turn, agent, call, verdict, pending, spool, written, late>>

\* agent_settled: Pi has waited for the hooks.
\* Mutant: the batch is sent after it.
SettledFirst == /\ agent = "running" /\ \A c \in CallsOf(turn) : call[c] \in {"none", "done"}
                /\ agent' = "idle"
                /\ queue' = Append(queue, [op |-> "finish", on |-> turn])
                              \o (IF pending = <<>> THEN <<>> ELSE <<Results(pending)>>)
                /\ pending' = <<>>
                /\ UNCHANGED <<turn, call, verdict, steered, spool, written, late>>
AgentSettled == /\ agent = "running" /\ \A c \in CallsOf(turn) : call[c] \in {"none", "done"}
                /\ agent' = "idle"
                /\ queue' = Append(Flushed(pending), [op |-> "finish", on |-> turn]) /\ pending' = <<>>
                /\ UNCHANGED <<turn, call, verdict, steered, spool, written, late>>

-----------------------------------------------------------------------------
(* The link and the queue of the session keep the order of what is sent, so they *)
(* are one queue; a spool request joins the queue of the session only when its    *)
(* file has been read.                                                             *)

\* A spool request is not in the way of what comes after it, until its file has been read.
Waiting == SelectSeq(queue, LAMBDA m : m.op # "spool")
Place(c) == CHOOSE i \in DOMAIN queue : queue[i] = [op |-> "spool", on |-> c]

\* consumeToolResultSpool; a request that fails is an answer, too.
\* Mutant: a result that was recorded is not answered.
AnsweredNever(cs) == call
Answered(cs) == [c \in Calls |-> IF c \in cs /\ call[c] = "spooling" THEN "done" ELSE call[c]]
ReadSpool(c) == /\ [op |-> "spool", on |-> c] \in ToSet(queue)
                /\ spool' = spool \ {c}
                /\ LET others == RemoveAt(queue, Place(c)) IN
                   IF c \in spool
                   THEN /\ \E i \in Place(c)..Len(queue) : queue' = InsertAt(others, i, Results(<<c>>))
                        /\ UNCHANGED call
                   ELSE call' = Answered({c}) /\ queue' = others
                /\ UNCHANGED <<pi, pending, capture, cut, late>>

-----------------------------------------------------------------------------
(* PiCaptureSession.  An operation is a list of steps: writes, which may fail,   *)
(* and what it notes in between.  Only this session touches what it writes, and   *)
(* its operations run one after the other, so an operation is one action that      *)
(* ends at the first write that fails.                                              *)

W(write, on) == [write |-> write, on |-> on, fails |-> TRUE]
M(note, on) == [write |-> note, on |-> on, fails |-> FALSE]

\* The events of the current episode, whatever turn that is of.
Logged(S, kind, on) == [S EXCEPT !.events[S.episode] = Append(@, [kind |-> kind, on |-> on])]
Unfinished == {"pending", "running", "blocked"}
TaskStatus(S) == IF S.verification = "passed" THEN "succeeded" ELSE IF S.failed THEN "failed" ELSE "blocked"
Noted(S, c) == [S EXCEPT !.plan = SelectSeq(@, LAMBDA x : x # c), !.failed = verdict[c] = "fail",
                         !.verification = IF c \notin Verifying THEN @
                                          ELSE IF verdict[c] = "pass" THEN "passed" ELSE "failed"]

Do(S, s) ==
    CASE s.write = "reset" -> [S EXCEPT !.episode = s.on, !.status = "running", !.plan = <<>>,
                                        !.failed = FALSE, !.verification = "not_run"]
      [] s.write = "create" -> [S EXCEPT !.nodes[s.on] = IF @ = "none" THEN "pending" ELSE @]
      [] s.write = "run" -> [S EXCEPT !.nodes[s.on] = IF @ \in {"pending", "failed", "blocked"} THEN "running" ELSE @]
      [] s.write = "planned" -> [S EXCEPT !.plan = Append(@, s.on)]
      [] s.write = "abort" -> [S EXCEPT !.nodes[s.on] = "aborted"]
      [] s.write = "node" -> [S EXCEPT !.nodes[s.on] = IF verdict[s.on] = "pass" THEN "succeeded" ELSE "failed"]
      [] s.write = "status" -> Noted(S, s.on)
      [] s.write = "clear" -> [S EXCEPT !.plan = <<>>]
      [] s.write = "close" -> [S EXCEPT !.status = "finished"]
      [] s.write = "root" -> [S EXCEPT !.nodes[s.on] = IF @ = "running" THEN TaskStatus(S) ELSE @]
      [] s.write = "hand" -> [S EXCEPT !.handed[s.on] = Append(@, S.verification)]
      [] s.write \in {"goal", "artifact", "episode"} -> S
      [] OTHER -> Logged(S, s.write, s.on)

\* Mutant: finish hands over every time it is called.
FinishAlways == IF capture.episode = 0 THEN <<>>
                ELSE LET n == capture.episode IN
                     <<W("outcome", n), M("close", n), W("episode", n), W("root", n), M("hand", n)>>
Finish == IF capture.status # "running" THEN <<>>
          ELSE LET n == capture.episode IN
               <<W("outcome", n), M("close", n), W("episode", n), W("root", n), M("hand", n)>>
Start(n) == Finish \o <<M("reset", n), W("create", n), W("run", n), W("goal", n)>>
ToolStarted(c) == IF capture.episode = 0 THEN <<>>
                  ELSE <<W("call", c), W("create", c), W("run", c), M("planned", c)>>
\* Mutant: what became of the call is noted before its event is written.
NotedFirst(c) ==
    IF capture.episode = 0 THEN <<>>
    ELSE <<M("status", c), W("result", c)>>
         \o (IF c \in ToSet(capture.plan) /\ capture.nodes[c] = "running" THEN <<W("node", c)>> ELSE <<>>)
         \o (IF c \in Verifying THEN <<W("verification", c)>> ELSE <<>>)
ToolResult(c) ==
    IF capture.episode = 0 THEN <<>>
    ELSE (IF c \in Large THEN <<W("artifact", c)>> ELSE <<>>)
         \o <<W("result", c)>>
         \o (IF c \in ToSet(capture.plan) /\ capture.nodes[c] = "running" THEN <<W("node", c)>> ELSE <<>>)
         \o <<M("status", c)>>
         \o (IF c \in Verifying THEN <<W("verification", c)>> ELSE <<>>)
Steered(n) ==
    IF capture.status # "running" THEN <<>>
    ELSE LET open == SelectSeq(capture.plan, LAMBDA c : capture.nodes[c] \in Unfinished) IN
         [i \in DOMAIN open |-> W("abort", open[i])] \o <<M("clear", n), W("steering", n)>>

Steps(op) == CASE op.op = "start" -> Start(op.on)
               [] op.op = "toolStarted" -> ToolStarted(op.on)
               [] op.op = "toolResults" -> FlattenSeq([i \in DOMAIN op.on |-> ToolResult(op.on[i])])
               [] op.op = "steer" -> Steered(op.on)
               [] op.op = "finish" -> Finish

\* The sets of one bind each intermediate value, which TLC evaluates once then.
After(steps) == FoldLeft(LAMBDA all, s : {Do(S, s) : S \in all}, {capture}, steps)

\* #enqueueSession: what fails is a warning, and the queue goes on.
Operation ==
    /\ Waiting # <<>> /\ queue' = Remove(queue, Head(Waiting))
    /\ \E steps \in {Steps(Head(Waiting))} :
          \/ capture' \in After(steps) /\ UNCHANGED cut
          \/ /\ Faults < FaultLimit
             /\ \E k \in DOMAIN steps :
                   /\ steps[k].fails
                   /\ capture' \in After(SubSeq(steps, 1, k - 1))
                   /\ cut' = cut \cup {[write |-> steps[k].write, on |-> steps[k].on]}
    /\ call' = IF Head(Waiting).op = "toolResults" THEN Answered(ToSet(Head(Waiting).on)) ELSE call
    /\ UNCHANGED <<pi, pending, spool, late>>

-----------------------------------------------------------------------------
Internal == Operation \/ \E c \in Calls : SendSpool(c) \/ ReadSpool(c)
Next == \/ BeginTurn \/ Steer \/ AgentSettled
        \/ \E c \in Calls : ToolStarts(c) \/ ToolEnds(c) \/ TimesOut(c)
        \/ Internal

\* Hooks, messages, files and operations go on.
Fairness == WF_vars(Internal)
Spec == Init /\ [][Next]_vars /\ Fairness

-----------------------------------------------------------------------------
Failed(write, on) == [write |-> write, on |-> on] \in cut
TypeOK == /\ turn \in 0..MaxTurns /\ agent \in {"idle", "running"}
          /\ pending \in Seq(Calls) /\ spool \subseteq Calls
          /\ \A x \in DOMAIN capture.nodes :
                capture.nodes[x] \in {"none", "pending", "running", "succeeded", "failed", "blocked", "aborted"}

Events(n) == capture.events[n]
At(n, kind, on) == {i \in DOMAIN Events(n) : Events(n)[i] = [kind |-> kind, on |-> on]}
RecordedIn(n) == {c \in Calls : At(n, "result", c) # {}}
Before(n, kind, c) == {i \in DOMAIN Events(n) : /\ Events(n)[i].kind = kind
                                               /\ \A j \in At(n, "result", c) : i < j}

\* The verification that a turn is handed over with is that of the last verifying
\* result recorded in it before, and it is handed over once; a node that could not be
\* written leaves the verification before it.
OutcomeIsEarned ==
    \A n \in Turns :
        /\ Len(capture.handed[n]) <= 1
        /\ capture.handed[n] # <<>> =>
              LET checks == {c \in RecordedIn(n) \cap Verifying : Before(n, "outcome", c) = {}
                                                                /\ ~Failed("node", c)}
                  last == {c \in checks : \A d \in checks \ {c} : \E i \in At(n, "result", c) :
                                             \A j \in At(n, "result", d) : j < i}
              IN Head(capture.handed[n]) = (IF checks = {} THEN "not_run"
                                            ELSE IF \E c \in last : verdict[c] = "pass" THEN "passed" ELSE "failed")

\* What is recorded in an episode is of its turn and comes before the outcome, unless its request had timed out or the
\* next turn could not finish the episode; no result is recorded before a steering it came after.
EventsAreOfTheirTurn ==
    \A n \in Turns : \A c \in RecordedIn(n) :
        /\ TurnOf[c] = n \/ c \in late \/ Failed("outcome", n)
        /\ TurnOf[c] = n => Before(n, "outcome", c) = {} \/ c \in late \/ Failed("outcome", n)
        /\ TurnOf[c] = n => \/ Cardinality(Before(n, "steering", c)) >= steered[c]
                            \/ \E d \in Calls \cup Turns : Failed("steering", d) \/ Failed("abort", d) \/ Failed("outcome", d)

\* A node tells what became of its call: succeeded or failed by its recorded result, aborted
\* by a steering recorded in its turn, and unfinished only without a result, or when a write failed.
Quiet == queue = <<>>
NodesTell ==
    /\ \A c \in Calls :
          CASE capture.nodes[c] = "succeeded" -> verdict[c] = "pass" /\ \E n \in Turns : c \in RecordedIn(n)
            [] capture.nodes[c] = "failed" -> verdict[c] = "fail" /\ \E n \in Turns : c \in RecordedIn(n)
            [] capture.nodes[c] = "aborted" -> steered[TurnOf[c]] > 0
            [] capture.nodes[c] \in Unfinished /\ Quiet ->
                  \/ \A n \in Turns : c \notin RecordedIn(n) \/ TurnOf[c] # n
                  \/ cut # {}
            [] OTHER -> TRUE
    /\ \A n \in Turns : capture.handed[n] # <<>> =>
          \/ capture.nodes[n] = (CASE Head(capture.handed[n]) = "passed" -> "succeeded"
                                  [] OTHER -> IF capture.nodes[n] = "failed" THEN "failed" ELSE "blocked")
          \/ Failed("create", n) \/ Failed("run", n)

\* docs/architecture.md:68 "flushed in order", 72-73 "Tool Results transition them to
\* succeeded/failed with Event evidence, and Steering aborts unfinished nodes": a call that had
\* ended when the user steered is not recorded as part of the path after it.
GivenUpPathIsBehind ==
    \A n \in Turns : \A c \in RecordedIn(n) \cap CallsOf(n) :
        Cardinality(Before(n, "steering", c)) <= steered[c]

\* Everything that was sent is worked off, no hook waits for ever, and a turn that ended is handed over unless one of
\* the writes of its end failed, or the turn before it could not be ended.
TurnsAreHandedOver ==
    <>[](/\ Quiet
         /\ \A c \in Calls : call[c] \in {"none", "running", "done"}
         /\ \A n \in Turns : (n < turn \/ (n = turn /\ agent = "idle")) =>
               \/ capture.handed[n] # <<>>
               \/ \E m \in Turns, w \in {"outcome", "episode", "root"} : m <= n /\ Failed(w, m))
=============================================================================
