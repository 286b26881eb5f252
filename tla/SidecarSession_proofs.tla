------------------------- MODULE SidecarSession_proofs -------------------------
(***************************************************************************)
(* A prompt is given the working memory of the branch it runs on, for every  *)
(* session tree, every number of turns, branch changes, steering messages and *)
(* memory tool calls, in whatever order the callbacks of the Sidecar go on    *)
(* and the events of both pipes are handled, and with a shutdown at any       *)
(* moment.                                                                    *)
(***************************************************************************)
EXTENDS SidecarSession, SequenceTheorems, TLAPS

\* What is in the pipes, in the promise chain and in the hands of a settlement.
Message == [method : {"branch"}, branch : Branch, gen : 0 .. MaxGen] \cup [method : {"settled"}, turn : Turn]
           \cup [method : {"start"}, turn : Turn, scope : Branch]
           \cup [method : {"steer", "recall", "close", "shutdown"}]
ActiveContext == [kind : {"active"}, branch : Branch, gen : Nat, rev : Nat, turns : SUBSET Turn]
Event == [kind : {"context"}, scope : Branch] \cup ActiveContext
Queued == [do : {"switch"}, branch : Branch, gen : Nat, parent : Branch]
          \cup [do : {"start"}, turn : Turn, scope : Branch, gen : Nat]
          \cup [do : {"finish"}] \cup [do : {"wake"}, for : Callback]
Item == [turn : Turn, ctx : Context]

\* A turn belongs to the branch it was run on, or was begun under another scope.
Fits(t, b) == t <= turn /\ (t \in misled \/ ranOn[t] = b)
Fitting(u) == Fits(u.turn, u.ctx.branch)
\* What the adapter holds, or is about to be told, a branch has.
Backed(e) == mem[e.branch] # None /\ e.turns \subseteq mem[e.branch].turns

AdapterInv ==
    /\ branch \in Branch /\ gen \in 0 .. MaxGen /\ scope \in Branch
    /\ turn \in 0 .. MaxTurns /\ running \in BOOLEAN /\ left \in BOOLEAN
    /\ running => turn >= 1 /\ ~left
    /\ ranOn \in [Turn -> Branch \cup {NoBranch}] /\ misled \subseteq Turn
ShownInv == shown # None => /\ shown \in ActiveContext /\ Backed(shown)
                            /\ shown.branch = branch /\ shown.gen = gen
EventsInv == /\ toPi \in Seq(Event)
             /\ \A i \in DOMAIN toPi : toPi[i].kind = "active" => Backed(toPi[i])

SessionInv ==
    /\ sBranch \in Branch /\ sTask \in Task \cup {NoTask} /\ sTaskGen \in Nat
    /\ present \in BOOLEAN /\ exited \in BOOLEAN /\ overrun \in BOOLEAN /\ overtaken \subseteq Branch
    /\ recall.pc \in {"idle", "search", "note"} /\ (recall.pc = "note" => recall.branch \in Branch)

\* A shutdown sends two messages, and nothing follows them.
PipeInv ==
    /\ toSidecar \in Seq(Message)
    /\ closed \in BOOLEAN /\ sGen \in 0 .. MaxGen + 2 /\ (~closed => sGen <= MaxGen) /\ (closed => left)
    /\ \A i \in DOMAIN toSidecar :
          LET m == toSidecar[i] IN
          /\ m.method = "start" => Fits(m.turn, m.scope)
          /\ m.method = "close" => /\ left /\ ~closed /\ Len(toSidecar) = i + 1
                                   /\ toSidecar[i + 1].method = "shutdown"
          /\ m.method = "shutdown" => /\ left /\ Len(toSidecar) = i
                                      /\ i = 1 => closed /\ sGen <= MaxGen + 1
                                      /\ i # 1 => toSidecar[i - 1].method = "close"
          /\ closed => m.method = "shutdown"

\* The chain ends with the closings that wait for it.
IsEnd(o) == o.do = "wake" /\ o.for \in Closing
QueueInv ==
    /\ queue \in Seq(Queued)
    /\ \A i \in DOMAIN queue :
          /\ queue[i].do = "start" => Fits(queue[i].turn, queue[i].scope)
          /\ IsEnd(queue[i]) => closed
    /\ \A i, j \in DOMAIN queue : i <= j /\ IsEnd(queue[i]) => IsEnd(queue[j])
\* A closing has got past it.
Over == ~present \/ \E c \in Closing : settling[c].pc # "idle"
OverInv == Over => closed /\ op.pc = "idle" /\ \A i \in DOMAIN queue : IsEnd(queue[i])

OpInv ==
    /\ op.pc \in {"idle", "load", "create", "refresh", "announce", "bind"}
    /\ op.pc \in {"load", "create"} => op.branch \in Branch
    /\ op.pc = "load" => op.parent \in Branch
    /\ op.pc = "create" => op.value \in Memory /\ op.value.turns \subseteq 1 .. turn
    /\ op.pc \in {"refresh", "announce"} =>
          /\ DOMAIN op = {"pc", "turn", "scope", "gen"}
          /\ op.turn \in Turn /\ op.scope \in Branch /\ op.gen \in Nat /\ Fits(op.turn, op.scope)
    /\ op.pc = "bind" => /\ op.turn \in Turn /\ op.branch \in Branch /\ op.gen \in Nat
                         /\ op.task \in Task \cup {NoTask} /\ Fits(op.turn, op.branch)

\* Between two operations the turn that is recorded has its context.
EpisodeInv ==
    /\ episode \in 0 .. MaxTurns /\ contexts \in [Turn -> Context \cup {None}]
    /\ \A t \in Turn : contexts[t] # None => Fits(t, contexts[t].branch)
    /\ episode # 0 => contexts[episode] # None \/ (op.pc = "bind" /\ op.turn = episode)
    /\ \A c \in Closing : settling[c].pc = "handOver" => episode # settling[c].turn

FinishedInv == finished \in Seq(Item) /\ \A i \in DOMAIN finished : Fitting(finished[i])

StageFine(p, s) ==
    /\ s.pc \in {"idle", "refresh", "announce", "reduce", "append", "handOver", "drain", "delete", "exit"}
    /\ s.pc \in {"refresh", "announce"} => p \in Turn
    /\ s.pc \in {"append", "handOver", "drain", "delete", "exit"} => p \in Closing
    /\ s.pc = "reduce" => /\ s.todo \in Seq(Item) /\ s.todo # <<>>
                          /\ \A i \in DOMAIN s.todo : Fitting(s.todo[i])
    /\ s.pc \in {"append", "handOver"} => /\ DOMAIN s = {"pc", "turn", "ctx"}
                                          /\ s.turn \in Turn /\ s.ctx \in Context /\ Fitting(s)
    /\ s.pc = "exit" => ~present
SettlingInv == DOMAIN settling = Callback /\ \A p \in Callback : StageFine(p, settling[p])

\* A branch has the turns run on it, and those it was forked with.
MemoryInv ==
    /\ mem \in [Branch -> Memory \cup {None}] /\ forked \in [Branch -> SUBSET Turn]
    /\ \A b \in Branch : mem[b] # None =>
          \A t \in mem[b].turns : t <= turn /\ (t \in forked[b] \/ Fits(t, b))

SessionIInv == /\ AdapterInv /\ ShownInv /\ EventsInv /\ SessionInv /\ PipeInv /\ QueueInv /\ OverInv
               /\ OpInv /\ EpisodeInv /\ FinishedInv /\ SettlingInv /\ MemoryInv

-----------------------------------------------------------------------------
(* Sequences and records                                                      *)

LEMMA Longer ==
    ASSUME NEW S, NEW s \in Seq(S), NEW x \in S
    PROVE  /\ Append(s, x) \in Seq(S) /\ Len(Append(s, x)) = Len(s) + 1 /\ Len(s) \in Nat
           /\ DOMAIN s = 1 .. Len(s) /\ DOMAIN Append(s, x) = 1 .. Len(s) + 1
           /\ \A i \in DOMAIN s : Append(s, x)[i] = s[i]
           /\ Append(s, x)[Len(s) + 1] = x
BY AppendProperties, LenProperties

LEMMA Joined ==
    ASSUME NEW S, NEW s \in Seq(S), NEW t \in Seq(S)
    PROVE  /\ s \o t \in Seq(S) /\ Len(s \o t) = Len(s) + Len(t) /\ Len(s) \in Nat /\ Len(t) \in Nat
           /\ DOMAIN s = 1 .. Len(s) /\ DOMAIN t = 1 .. Len(t) /\ DOMAIN (s \o t) = 1 .. Len(s) + Len(t)
           /\ \A i \in DOMAIN s : (s \o t)[i] = s[i]
           /\ \A i \in DOMAIN t : (s \o t)[Len(s) + i] = t[i]
BY ConcatProperties, LenProperties

LEMMA Shorter ==
    ASSUME NEW S, NEW s \in Seq(S), s # <<>>
    PROVE  /\ Tail(s) \in Seq(S) /\ Head(s) \in S /\ Head(s) = s[1] /\ Len(s) \in Nat \ {0}
           /\ DOMAIN s = 1 .. Len(s) /\ DOMAIN Tail(s) = 1 .. Len(s) - 1 /\ Len(Tail(s)) = Len(s) - 1
           /\ \A i \in DOMAIN Tail(s) : Tail(s)[i] = s[i + 1]
<1>1. Len(s) \in Nat \ {0} /\ DOMAIN s = 1 .. Len(s)  BY LenProperties, EmptySeq
<1>2. /\ Head(s) \in S /\ Tail(s) \in Seq(S) /\ Len(Tail(s)) = Len(s) - 1
      /\ \A i \in 1 .. Len(Tail(s)) : Tail(s)[i] = s[i + 1]
  BY HeadTailProperties
<1>3. DOMAIN Tail(s) = 1 .. Len(Tail(s))  BY <1>2, LenProperties
<1> QED  BY <1>1, <1>2, <1>3

\* There is something to say of every record.
LEMMA Somethings ==
    /\ None \notin Memory /\ None \notin Context /\ None \notin ActiveContext /\ Fresh \in Memory
    /\ \A m \in Memory, b \in Branch, g \in Nat : Snapshot(b, g, m) \in ActiveContext
<1>1. \A m \in Memory : DOMAIN m = {"rev", "turns"}  BY DEF Memory
<1>2. \A c \in Context : DOMAIN c = {"branch", "task", "gen", "taskGen"}  BY DEF Context
<1>3. \A e \in ActiveContext : DOMAIN e = {"kind", "branch", "gen", "rev", "turns"}  BY DEF ActiveContext
<1>4. DOMAIN None = {"none"}  BY DEF None
<1>5. Fresh \in Memory  BY DEF Fresh, Memory
<1>6. \A m \in Memory, b \in Branch, g \in Nat : Snapshot(b, g, m) \in ActiveContext
  BY DEF Memory, ActiveContext, Snapshot
<1> QED  BY <1>1, <1>2, <1>3, <1>4, <1>5, <1>6

LEMMA Callbacks == /\ Callback = Turn \cup Closing /\ Closing = {0, -1} /\ Turn = 1 .. MaxTurns
                   /\ MaxTurns \in Nat /\ MaxGen \in Nat /\ \A t \in Turn : t \notin Closing
BY TreeAssumption DEF Callback, Turn, Closing, ByClose, ByShutdown

LEMMA MessageParts ==
    ASSUME NEW m \in Message
    PROVE  /\ m.method \in {"branch", "settled", "start", "steer", "recall", "close", "shutdown"}
           /\ m.method = "branch" => m.branch \in Branch /\ m.gen \in 0 .. MaxGen
           /\ m.method = "settled" => m.turn \in Turn
           /\ m.method = "start" => m.turn \in Turn /\ m.scope \in Branch
BY DEF Message

LEMMA QueuedParts ==
    ASSUME NEW o \in Queued
    PROVE  /\ o.do \in {"switch", "start", "finish", "wake"}
           /\ o.do = "switch" => o.branch \in Branch /\ o.gen \in Nat /\ o.parent \in Branch
           /\ o.do = "start" => o.turn \in Turn /\ o.scope \in Branch /\ o.gen \in Nat
           /\ o.do = "wake" => o.for \in Callback
BY DEF Queued

-----------------------------------------------------------------------------
(* What a step leaves alone. Turns begin, and branches get more of them.      *)

Grows == /\ turn \in Nat /\ turn' \in Nat /\ turn <= turn' /\ misled \subseteq misled'
         /\ \A t \in Turn : t <= turn => ranOn'[t] = ranOn[t]
         /\ \A b \in Branch : mem[b] # None => /\ mem'[b] # None /\ mem[b].turns \subseteq mem'[b].turns
                                               /\ forked'[b] = forked[b]
turnVars == <<turn, misled, ranOn>>

LEMMA SameGrows == ASSUME AdapterInv, UNCHANGED turnVars, UNCHANGED <<mem, forked>> PROVE Grows
BY Callbacks DEF AdapterInv, Grows, turnVars

LEMMA FitsStays == ASSUME Grows, NEW t \in Turn, NEW b, Fits(t, b) PROVE Fits(t, b)'
BY Callbacks DEF Grows, Fits

LEMMA ShownStays == ASSUME ShownInv, Grows, UNCHANGED <<shown, branch, gen>> PROVE ShownInv'
BY DEF ShownInv, Grows, Backed, ActiveContext

LEMMA EventsStay == ASSUME EventsInv, Grows, UNCHANGED toPi PROVE EventsInv'
<1>1. toPi \in Seq(Event) /\ toPi' = toPi  BY DEF EventsInv
<1> SUFFICES ASSUME NEW i \in DOMAIN toPi, toPi[i].kind = "active" PROVE Backed(toPi[i])'
  BY <1>1 DEF EventsInv
<1>2. Backed(toPi[i])  BY DEF EventsInv
<1>3. toPi[i] \in Event  BY <1>1, ElementOfSeq, LenProperties
<1>4. toPi[i].branch \in Branch  BY <1>3 DEF Event, ActiveContext
<1> QED  BY <1>1, <1>2, <1>4 DEF Backed, Grows

LEMMA PipeStays == ASSUME PipeInv, Grows, UNCHANGED <<toSidecar, closed, sGen, left>> PROVE PipeInv'
<1>1. toSidecar \in Seq(Message) /\ toSidecar' = toSidecar /\ closed' = closed /\ sGen' = sGen /\ left' = left
  BY DEF PipeInv
<1> SUFFICES ASSUME NEW i \in DOMAIN toSidecar, toSidecar[i].method = "start"
             PROVE  Fits(toSidecar[i].turn, toSidecar[i].scope)'
  BY <1>1 DEF PipeInv
<1>2. toSidecar[i] \in Message  BY <1>1, ElementOfSeq, LenProperties
<1>3. PICK t \in Turn : t = toSidecar[i].turn  BY <1>2, MessageParts
<1>4. PICK b : b = toSidecar[i].scope  OBVIOUS
<1>5. Fits(t, b)  BY <1>3, <1>4 DEF PipeInv
<1>6. Fits(t, b)'  BY <1>5, FitsStays
<1> QED  BY <1>1, <1>3, <1>4, <1>6 DEF Fits

LEMMA QueueStays == ASSUME QueueInv, Grows, UNCHANGED <<queue, closed>> PROVE QueueInv'
<1>1. queue \in Seq(Queued) /\ queue' = queue /\ closed' = closed  BY DEF QueueInv
<1> SUFFICES ASSUME NEW i \in DOMAIN queue, queue[i].do = "start"
             PROVE  Fits(queue[i].turn, queue[i].scope)'
  BY <1>1 DEF QueueInv, IsEnd
<1>2. queue[i] \in Queued  BY <1>1, ElementOfSeq, LenProperties
<1>3. PICK t \in Turn : t = queue[i].turn  BY <1>2, QueuedParts
<1>4. PICK b : b = queue[i].scope  OBVIOUS
<1>5. Fits(t, b)  BY <1>3, <1>4 DEF QueueInv
<1>6. Fits(t, b)'  BY <1>5, FitsStays
<1> QED  BY <1>1, <1>3, <1>4, <1>6 DEF Fits

LEMMA OverStays == ASSUME OverInv, UNCHANGED <<queue, closed, op, present, settling>> PROVE OverInv'
BY DEF OverInv, Over, IsEnd

LEMMA OpStays == ASSUME OpInv, Grows, UNCHANGED op PROVE OpInv'
BY Callbacks DEF OpInv, Grows, Fits

LEMMA EpisodeStays == ASSUME EpisodeInv, Grows, UNCHANGED <<episode, contexts, op, settling>> PROVE EpisodeInv'
BY Callbacks DEF EpisodeInv, Grows, Fits

LEMMA FinishedStays == ASSUME FinishedInv, Grows, UNCHANGED finished PROVE FinishedInv'
<1>1. finished \in Seq(Item) /\ finished' = finished  BY DEF FinishedInv
<1> SUFFICES ASSUME NEW i \in DOMAIN finished PROVE Fitting(finished[i])'  BY <1>1 DEF FinishedInv
<1>2. finished[i] \in Item  BY <1>1, ElementOfSeq, LenProperties
<1> QED  BY <1>1, <1>2, Callbacks DEF FinishedInv, Item, Fitting, Fits, Grows

LEMMA StageStays == ASSUME Grows, NEW p, NEW s, StageFine(p, s), ~present => ~present' PROVE StageFine(p, s)'
<1>1. CASE s.pc = "reduce"
  <2> SUFFICES ASSUME NEW i \in DOMAIN s.todo PROVE Fitting(s.todo[i])'  BY <1>1 DEF StageFine
  <2>1. s.todo \in Seq(Item)  BY <1>1 DEF StageFine
  <2>2. s.todo[i] \in Item  BY <2>1, ElementOfSeq, LenProperties
  <2> QED  BY <1>1, <2>2, Callbacks DEF StageFine, Item, Fitting, Fits, Grows
<1>2. CASE s.pc \in {"append", "handOver"}  BY <1>2, Callbacks DEF StageFine, Fitting, Fits, Grows
<1>3. CASE s.pc \notin {"reduce", "append", "handOver"}  BY <1>3 DEF StageFine
<1> QED  BY <1>1, <1>2, <1>3

LEMMA SettlingStays == ASSUME SettlingInv, Grows, UNCHANGED settling, ~present => ~present' PROVE SettlingInv'
<1> SUFFICES ASSUME NEW p \in Callback PROVE StageFine(p, settling[p])'  BY DEF SettlingInv
<1>1. PICK s : s = settling[p]  OBVIOUS
<1>2. StageFine(p, s)  BY <1>1 DEF SettlingInv
<1>3. StageFine(p, s)'  BY <1>2, StageStays
<1> QED  BY <1>1, <1>3 DEF StageFine, Fitting, Fits

LEMMA MemoryStays == ASSUME MemoryInv, Grows, UNCHANGED <<mem, forked>> PROVE MemoryInv'
BY Callbacks DEF MemoryInv, Grows, Fits, Memory

-----------------------------------------------------------------------------
(* What is sent, queued and taken.                                            *)

LEMMA Told ==
    ASSUME PipeInv, Grows, ~left, NEW m \in Message, Tell(m), UNCHANGED <<closed, sGen, left>>,
           m.method \notin {"close", "shutdown"}, m.method = "start" => Fits(m.turn, m.scope)'
    PROVE  PipeInv'
<1>1. toSidecar \in Seq(Message) /\ toSidecar' = Append(toSidecar, m)  BY DEF PipeInv, Tell
<1>2. ~closed  BY DEF PipeInv
<1>3. toSidecar' \in Seq(Message) /\ Len(toSidecar) \in Nat  BY <1>1, Longer
<1>4. ASSUME NEW i \in DOMAIN toSidecar'
      PROVE  /\ toSidecar'[i].method \notin {"close", "shutdown"}
             /\ toSidecar'[i].method = "start" => Fits(toSidecar[i].turn, toSidecar[i].scope)'
  <2>1. PICK x : x = toSidecar'[i]  OBVIOUS
  <2>2. CASE i \in DOMAIN toSidecar
    <3>1. x = toSidecar[i] /\ x \in Message  BY <1>1, <2>1, <2>2, Longer, ElementOfSeq, LenProperties
    <3>2. x.method \notin {"close", "shutdown"} /\ (x.method = "start" => Fits(x.turn, x.scope))
      BY <2>2, <3>1 DEF PipeInv
    <3>3. x.method = "start" => Fits(x.turn, x.scope)'  BY <3>1, <3>2, MessageParts, FitsStays
    <3> QED  BY <2>1, <3>2, <3>3 DEF Fits
  <2>3. CASE i \notin DOMAIN toSidecar
    <3>1. x = m  BY <1>1, <2>1, <2>3, Longer
    <3> QED  BY <2>1, <3>1 DEF Fits
  <2> QED  BY <2>2, <2>3
<1> QED  BY <1>2, <1>3, <1>4 DEF PipeInv

LEMMA BackedStays == ASSUME Grows, NEW e \in ActiveContext, Backed(e) PROVE Backed(e)'
BY DEF Grows, Backed, ActiveContext

LEMMA EventParts ==
    ASSUME NEW e \in Event
    PROVE  /\ e.kind \in {"context", "active"}
           /\ e.kind = "context" => e.scope \in Branch
           /\ e.kind = "active" => e \in ActiveContext
BY DEF Event, ActiveContext

LEMMA Emitted ==
    ASSUME EventsInv, Grows, NEW e \in Event, e.kind = "active" => Backed(e)', Emit(e)
    PROVE  EventsInv'
<1>1. toPi \in Seq(Event) /\ \A i \in DOMAIN toPi : toPi[i].kind = "active" => Backed(toPi[i])  BY DEF EventsInv
<1>2. CASE left
  <2>1. toPi' = <<>>  BY <1>2 DEF Emit
  <2> QED  BY <2>1, EmptySeq DEF EventsInv
<1>3. CASE ~left
  <2>1. toPi' = Append(toPi, e)  BY <1>3 DEF Emit
  <2>2. toPi' \in Seq(Event)  BY <1>1, <2>1, Longer
  <2>3. ASSUME NEW i \in DOMAIN toPi', toPi'[i].kind = "active" PROVE Backed(toPi[i])'
    <3>1. PICK x : x = toPi'[i]  OBVIOUS
    <3>2. CASE i \in DOMAIN toPi
      <4>1. x = toPi[i] /\ x \in Event  BY <1>1, <2>1, <3>1, <3>2, Longer, ElementOfSeq, LenProperties
      <4>2. x \in ActiveContext /\ Backed(x)  BY <1>1, <2>3, <3>1, <3>2, <4>1, EventParts
      <4>3. Backed(x)'  BY <4>2, BackedStays
      <4> QED  BY <3>1, <4>3 DEF Backed
    <3>3. CASE i \notin DOMAIN toPi
      <4>1. x = e  BY <1>1, <2>1, <3>1, <3>3, Longer
      <4> QED  BY <2>3, <3>1, <4>1 DEF Backed
    <3> QED  BY <3>2, <3>3
  <2> QED  BY <2>2, <2>3 DEF EventsInv
<1> QED  BY <1>2, <1>3

LEMMA Announced == ASSUME EventsInv, SessionInv, Grows, Announce PROVE EventsInv'
<1>1. PICK e : e = [kind |-> "context", scope |-> sBranch]  OBVIOUS
<1>2. e \in Event /\ e.kind # "active" /\ Emit(e)  BY <1>1 DEF Announce, Event, SessionInv
<1> QED  BY <1>2, Emitted

\* What is published is what the branch has now.
LEMMA Published ==
    ASSUME EventsInv, Grows, sGen \in Nat, NEW b \in Branch, NEW m \in Memory, mem'[b] = m, Publish(b, m)
    PROVE  EventsInv'
<1>1. PICK e : e = Snapshot(b, sGen, m)  OBVIOUS
<1>2. e \in ActiveContext /\ e \in Event  BY <1>1, Somethings DEF Event
<1>3. e.branch = b /\ e.turns = m.turns  BY <1>1 DEF Snapshot
<1>4. m # None  BY Somethings
<1>5. Backed(e)'  BY <1>3, <1>4 DEF Backed
<1>6. Emit(e)  BY <1>1 DEF Publish
<1> QED  BY <1>2, <1>5, <1>6, Emitted

\* Work is queued while nothing is closing.
LEMMA EnqueuedWork ==
    ASSUME QueueInv, Grows, ~closed, UNCHANGED closed, NEW ops \in Seq(Queued), Enqueue(ops),
           \A i \in DOMAIN ops : ~IsEnd(ops[i]) /\ (ops[i].do = "start" => Fits(ops[i].turn, ops[i].scope)')
    PROVE  QueueInv'
<1>1. queue \in Seq(Queued) /\ queue' = queue \o ops  BY DEF QueueInv, Enqueue
<1>2. /\ queue' \in Seq(Queued) /\ Len(queue) \in Nat /\ Len(ops) \in Nat
      /\ DOMAIN queue = 1 .. Len(queue) /\ DOMAIN ops = 1 .. Len(ops)
      /\ DOMAIN queue' = 1 .. Len(queue) + Len(ops)
      /\ \A i \in DOMAIN queue : queue'[i] = queue[i]
      /\ \A i \in DOMAIN ops : queue'[Len(queue) + i] = ops[i]
  BY <1>1, Joined
<1>3. ASSUME NEW i \in DOMAIN queue'
      PROVE  /\ ~IsEnd(queue[i])'
             /\ queue'[i].do = "start" => Fits(queue[i].turn, queue[i].scope)'
  <2>1. PICK x : x = queue'[i]  OBVIOUS
  <2>2. CASE i \in DOMAIN queue
    <3>1. x = queue[i] /\ x \in Queued  BY <1>1, <1>2, <2>1, <2>2, ElementOfSeq
    <3>2. ~IsEnd(x) /\ (x.do = "start" => Fits(x.turn, x.scope))  BY <2>2, <3>1 DEF QueueInv
    <3>3. x.do = "start" => Fits(x.turn, x.scope)'  BY <3>1, <3>2, QueuedParts, FitsStays
    <3> QED  BY <2>1, <3>2, <3>3 DEF Fits, IsEnd
  <2>3. CASE i \notin DOMAIN queue
    <3>1. PICK j : j = i - Len(queue)  OBVIOUS
    <3>2. j \in DOMAIN ops /\ x = ops[j]  BY <1>2, <2>1, <2>3, <3>1
    <3> QED  BY <2>1, <3>2 DEF Fits, IsEnd
  <2> QED  BY <2>2, <2>3
<1> QED  BY <1>2, <1>3 DEF QueueInv, IsEnd

\* A closing waits behind all that is queued, and nothing comes behind it but another one.
LEMMA EnqueuedEnd ==
    ASSUME QueueInv, Grows, closed', NEW c \in Closing, Enqueue(<<[do |-> "wake", for |-> c]>>)
    PROVE  /\ QueueInv'
           /\ (\A i \in DOMAIN queue : IsEnd(queue[i])) => (\A i \in DOMAIN queue : IsEnd(queue[i]))'
<1>1. PICK o : o = [do |-> "wake", for |-> c]  OBVIOUS
<1>2. o \in Queued /\ IsEnd(o) /\ o.do # "start"  BY <1>1, Callbacks DEF Queued, IsEnd
<1>3. queue \in Seq(Queued) /\ queue' = queue \o <<o>>  BY <1>1 DEF QueueInv, Enqueue
<1>4. <<o>> \in Seq(Queued) /\ Len(<<o>>) = 1 /\ <<o>>[1] = o  BY <1>2
<1>5. /\ queue' \in Seq(Queued) /\ Len(queue) \in Nat /\ DOMAIN queue = 1 .. Len(queue)
      /\ DOMAIN queue' = 1 .. Len(queue) + 1
      /\ \A i \in DOMAIN queue : queue'[i] = queue[i]
      /\ queue'[Len(queue) + 1] = o
  BY <1>3, <1>4, Joined
<1>6. ASSUME NEW i \in DOMAIN queue', queue'[i].do = "start" PROVE Fits(queue[i].turn, queue[i].scope)'
  <2>1. PICK x : x = queue'[i]  OBVIOUS
  <2>2. i \in DOMAIN queue  BY <1>2, <1>5, <1>6
  <2>3. x = queue[i] /\ x \in Queued  BY <1>3, <1>5, <2>1, <2>2, ElementOfSeq
  <2>4. x.do = "start" /\ Fits(x.turn, x.scope)  BY <1>6, <2>1, <2>2, <2>3 DEF QueueInv
  <2>5. Fits(x.turn, x.scope)'  BY <2>3, <2>4, QueuedParts, FitsStays
  <2> QED  BY <2>1, <2>5 DEF Fits
<1>7. \A i, j \in DOMAIN queue' : i <= j /\ IsEnd(queue'[i]) => IsEnd(queue'[j])
  BY <1>2, <1>5 DEF QueueInv
<1> QED  BY <1>2, <1>5, <1>6, <1>7 DEF QueueInv, IsEnd

\* The first operation of the chain is taken.
LEMMA Taken ==
    ASSUME QueueInv, Grows, queue # <<>>, queue' = Tail(queue), UNCHANGED closed
    PROVE  /\ QueueInv'
           /\ Head(queue) \in Queued
           /\ Head(queue).do = "start" => Fits(Head(queue).turn, Head(queue).scope)
           /\ IsEnd(Head(queue)) => closed /\ (\A i \in DOMAIN queue : IsEnd(queue[i]))'
           /\ (\A i \in DOMAIN queue : IsEnd(queue[i])) => IsEnd(Head(queue))
<1>1. /\ queue \in Seq(Queued) /\ queue' \in Seq(Queued) /\ Head(queue) \in Queued /\ Head(queue) = queue[1]
      /\ Len(queue) \in Nat \ {0} /\ DOMAIN queue = 1 .. Len(queue) /\ DOMAIN queue' = 1 .. Len(queue) - 1
      /\ \A i \in DOMAIN queue' : queue'[i] = queue[i + 1]
  BY Shorter DEF QueueInv
<1>2. 1 \in DOMAIN queue /\ \A i \in DOMAIN queue' : i + 1 \in DOMAIN queue /\ 1 <= i + 1  BY <1>1
<1>3. ASSUME NEW i \in DOMAIN queue', queue'[i].do = "start" PROVE Fits(queue[i].turn, queue[i].scope)'
  <2>1. PICK x : x = queue'[i]  OBVIOUS
  <2>2. x = queue[i + 1] /\ x \in Queued  BY <1>1, <1>2, <2>1, ElementOfSeq
  <2>3. x.do = "start" /\ Fits(x.turn, x.scope)  BY <1>2, <1>3, <2>1, <2>2 DEF QueueInv
  <2>4. Fits(x.turn, x.scope)'  BY <2>2, <2>3, QueuedParts, FitsStays
  <2> QED  BY <2>1, <2>4 DEF Fits
<1>4. \A i \in DOMAIN queue' : IsEnd(queue'[i]) => closed'  BY <1>1, <1>2 DEF QueueInv
<1>5. \A i, j \in DOMAIN queue' : i <= j /\ IsEnd(queue'[i]) => IsEnd(queue'[j])
  BY <1>1, <1>2 DEF QueueInv
<1>6. IsEnd(Head(queue)) => closed /\ \A i \in DOMAIN queue' : IsEnd(queue'[i])
  BY <1>1, <1>2 DEF QueueInv
<1> QED  BY <1>1, <1>2, <1>3, <1>4, <1>5, <1>6 DEF QueueInv, IsEnd

-----------------------------------------------------------------------------
(* The adapter                                                                *)

LEMMA SessionStarts == Init => SessionIInv
<1> SUFFICES ASSUME Init PROVE SessionIInv  OBVIOUS
<1> USE DEF Init
<1>1. RootBranch \in Branch /\ NoBranch \notin Branch /\ NoTask \notin Task  BY TreeAssumption
<1>2. AdapterInv
  <2>1. gen \in 0 .. MaxGen /\ turn \in 0 .. MaxTurns  BY Callbacks
  <2>2. ranOn \in [Turn -> Branch \cup {NoBranch}]  OBVIOUS
  <2> QED  BY <1>1, <2>1, <2>2 DEF AdapterInv
<1>3. ShownInv
  <2>1. shown \in ActiveContext /\ shown.branch = RootBranch /\ shown.gen = 0 /\ shown.turns = {}
    BY <1>1, Somethings DEF Snapshot, Fresh
  <2>2. mem[RootBranch] = Fresh /\ Fresh # None  BY <1>1, Somethings
  <2> QED  BY <2>1, <2>2 DEF ShownInv, Backed
<1>4. EventsInv /\ FinishedInv  BY EmptySeq DEF EventsInv, FinishedInv
<1>5. SessionInv  BY <1>1 DEF SessionInv, Idle
<1>6. PipeInv /\ QueueInv  BY EmptySeq, Callbacks DEF PipeInv, QueueInv
<1>7. \A p \in Callback : settling[p].pc = "idle"  BY DEF Idle
<1>8. OverInv  BY <1>7, Callbacks DEF OverInv, Over
<1>9. OpInv  BY DEF OpInv, Idle
<1>10. EpisodeInv  BY <1>7, Callbacks DEF EpisodeInv
<1>11. SettlingInv  BY <1>7 DEF SettlingInv, StageFine
<1>12. MemoryInv
  <2>1. \A b \in Branch : mem[b] # None => mem[b].turns = {}  BY DEF Fresh
  <2>2. mem \in [Branch -> Memory \cup {None}]  BY Somethings
  <2> QED  BY <2>1, <2>2 DEF MemoryInv
<1> QED  BY <1>2, <1>3, <1>4, <1>5, <1>6, <1>8, <1>9, <1>10, <1>11, <1>12 DEF SessionIInv

\* What the adapter does leaves the Sidecar as it was.
LEMMA SidecarStays ==
    ASSUME SessionIInv, Grows, UNCHANGED <<scopeVars, captureVars, workVars, mem, forked, overtaken, overrun>>
    PROVE  SessionInv' /\ QueueInv' /\ OverInv' /\ OpInv' /\ EpisodeInv' /\ FinishedInv' /\ SettlingInv' /\ MemoryInv'
<1> USE DEF SessionIInv, scopeVars, captureVars, workVars
<1>1. SessionInv'  BY DEF SessionInv
<1>2. QueueInv' /\ OverInv' /\ OpInv' /\ EpisodeInv'  BY QueueStays, OverStays, OpStays, EpisodeStays
<1>3. FinishedInv' /\ SettlingInv' /\ MemoryInv'  BY FinishedStays, SettlingStays, MemoryStays
<1> QED  BY <1>1, <1>2, <1>3

LEMMA SessionTreeStep == ASSUME SessionIInv, NEW b \in Branch, SessionTree(b) PROVE SessionIInv'
<1> USE DEF SessionIInv, SessionTree, scopeVars, history, turnVars
<1>1. Grows  BY SameGrows
<1>2. SessionInv' /\ QueueInv' /\ OverInv' /\ OpInv' /\ EpisodeInv' /\ FinishedInv' /\ SettlingInv' /\ MemoryInv'
  BY <1>1, SidecarStays
<1>3. AdapterInv' /\ ShownInv'  BY Callbacks DEF AdapterInv, ShownInv
<1>4. EventsInv'  BY <1>1, EventsStay
<1>5. PICK m : m = [method |-> "branch", branch |-> b, gen |-> gen + 1]  OBVIOUS
<1>6. m \in Message /\ m.method = "branch" /\ Tell(m)  BY <1>5, Callbacks DEF Message, AdapterInv
<1>7. PipeInv'  BY <1>1, <1>6, Told
<1> QED  BY <1>2, <1>3, <1>4, <1>7

LEMMA BeforeAgentStartStep == ASSUME SessionIInv, BeforeAgentStart PROVE SessionIInv'
<1> USE DEF SessionIInv, BeforeAgentStart, scopeVars
<1>1. PICK n \in Turn : n = turn + 1  BY Callbacks DEF AdapterInv
<1>2. Grows  BY <1>1, Callbacks DEF AdapterInv, Grows
<1>3. SessionInv' /\ QueueInv' /\ OverInv' /\ OpInv' /\ EpisodeInv' /\ FinishedInv' /\ SettlingInv' /\ MemoryInv'
  BY <1>2, SidecarStays
<1>4. AdapterInv'  BY <1>1, Callbacks DEF AdapterInv
<1>5. ShownInv' /\ EventsInv'  BY <1>2, ShownStays, EventsStay
<1>6. Fits(n, scope)'  BY <1>1, Callbacks DEF Fits, AdapterInv
<1>7. PICK m : m = [method |-> "start", turn |-> n, scope |-> scope]  OBVIOUS
<1>8. m \in Message /\ m.method = "start" /\ m.turn = n /\ m.scope = scope /\ Tell(m)
  BY <1>1, <1>7 DEF Message, AdapterInv
<1>9. Fits(m.turn, m.scope)'  BY <1>6, <1>8 DEF Fits
<1>10. PipeInv'  BY <1>2, <1>8, <1>9, Told
<1> QED  BY <1>3, <1>4, <1>5, <1>10

\* Steer, CallTool and AgentSettled
LEMMA TellStep ==
    ASSUME SessionIInv, running, running' \in BOOLEAN, running' => running, NEW m \in Message, Tell(m),
           m.method \notin {"close", "shutdown", "start"},
           UNCHANGED <<branch, gen, scope, shown, turn, left, toPi, scopeVars, captureVars, workVars, mem, forked,
                       history>>
    PROVE  SessionIInv'
<1> USE DEF SessionIInv, scopeVars, history, turnVars
<1>1. Grows  BY SameGrows
<1>2. SessionInv' /\ QueueInv' /\ OverInv' /\ OpInv' /\ EpisodeInv' /\ FinishedInv' /\ SettlingInv' /\ MemoryInv'
  BY <1>1, SidecarStays
<1>3. AdapterInv'  BY DEF AdapterInv
<1>4. ShownInv' /\ EventsInv'  BY <1>1, ShownStays, EventsStay
<1>5. PipeInv'  BY <1>1, Told DEF AdapterInv
<1> QED  BY <1>2, <1>3, <1>4, <1>5

LEMMA SessionShutdownStep == ASSUME SessionIInv, SessionShutdown PROVE SessionIInv'
<1> USE DEF SessionIInv, SessionShutdown, scopeVars, history, turnVars
<1>1. Grows  BY SameGrows
<1>2. SessionInv' /\ QueueInv' /\ OverInv' /\ OpInv' /\ EpisodeInv' /\ FinishedInv' /\ SettlingInv' /\ MemoryInv'
  BY <1>1, SidecarStays
<1>3. AdapterInv' /\ ShownInv'  BY DEF AdapterInv, ShownInv
<1>4. EventsInv'  BY EmptySeq DEF EventsInv
<1>5. PICK x, y : x = [method |-> "close"] /\ y = [method |-> "shutdown"]  OBVIOUS
<1>6. /\ x \in Message /\ y \in Message /\ x.method = "close" /\ y.method = "shutdown"
      /\ toSidecar' = toSidecar \o <<x, y>> /\ toSidecar \in Seq(Message)
  BY <1>5 DEF Message, PipeInv
<1>7. <<x, y>> \in Seq(Message) /\ Len(<<x, y>>) = 2 /\ <<x, y>>[1] = x /\ <<x, y>>[2] = y  BY <1>6
<1>8. /\ toSidecar' \in Seq(Message) /\ Len(toSidecar) \in Nat /\ Len(toSidecar') = Len(toSidecar) + 2
      /\ DOMAIN toSidecar = 1 .. Len(toSidecar) /\ DOMAIN toSidecar' = 1 .. Len(toSidecar) + 2
      /\ \A i \in DOMAIN toSidecar : toSidecar'[i] = toSidecar[i]
      /\ toSidecar'[Len(toSidecar) + 1] = x /\ toSidecar'[Len(toSidecar) + 2] = y
  BY <1>6, <1>7, Joined
<1>9. ~closed /\ ~closed'  BY DEF PipeInv
<1>10. \A i \in DOMAIN toSidecar : toSidecar[i].method \notin {"close", "shutdown"}  BY DEF PipeInv
<1>11. ASSUME NEW i \in DOMAIN toSidecar'
       PROVE  /\ toSidecar'[i].method = "start" => Fits(toSidecar[i].turn, toSidecar[i].scope)'
              /\ toSidecar'[i].method = "close" => i = Len(toSidecar) + 1
              /\ toSidecar'[i].method = "shutdown" => i = Len(toSidecar) + 2
  <2>1. CASE i \in DOMAIN toSidecar
    <3>1. toSidecar'[i] = toSidecar[i]  BY <1>8, <2>1
    <3>2. toSidecar[i].method = "start" => Fits(toSidecar[i].turn, toSidecar[i].scope)  BY <2>1 DEF PipeInv
    <3> QED  BY <1>10, <2>1, <3>1, <3>2 DEF Fits
  <2>2. CASE i \notin DOMAIN toSidecar  BY <1>6, <1>8, <2>2
  <2> QED  BY <2>1, <2>2
<1>12. \A i \in DOMAIN toSidecar' : toSidecar'[i].method = "shutdown" =>
          i # 1 /\ toSidecar'[i - 1].method = "close"
  BY <1>6, <1>8, <1>11
<1>13. \A i \in DOMAIN toSidecar' : toSidecar'[i].method = "close" => toSidecar'[i + 1].method = "shutdown"
  BY <1>6, <1>8, <1>11
<1>14. PipeInv'  BY <1>8, <1>9, <1>11, <1>12, <1>13 DEF PipeInv
<1> QED  BY <1>2, <1>3, <1>4, <1>14

LEMMA HandleEventStep == ASSUME SessionIInv, HandleEvent PROVE SessionIInv'
<1> USE DEF SessionIInv, HandleEvent, scopeVars, history, turnVars
<1>1. Grows  BY SameGrows
<1>2. SessionInv' /\ QueueInv' /\ OverInv' /\ OpInv' /\ EpisodeInv' /\ FinishedInv' /\ SettlingInv' /\ MemoryInv'
  BY <1>1, SidecarStays
<1>3. PipeInv'  BY <1>1, PipeStays
<1>4. PICK e : e = Head(toPi)  OBVIOUS
<1>5. /\ toPi' \in Seq(Event) /\ e \in Event /\ e = toPi[1] /\ Len(toPi) \in Nat \ {0}
      /\ DOMAIN toPi = 1 .. Len(toPi) /\ DOMAIN toPi' = 1 .. Len(toPi) - 1
      /\ \A i \in DOMAIN toPi' : toPi'[i] = toPi[i + 1]
  BY <1>4, Shorter DEF EventsInv
<1>6. 1 \in DOMAIN toPi /\ \A i \in DOMAIN toPi' : i + 1 \in DOMAIN toPi  BY <1>5
<1>7. EventsInv'
  <2> SUFFICES ASSUME NEW i \in DOMAIN toPi', toPi'[i].kind = "active" PROVE Backed(toPi[i])'
    BY <1>5 DEF EventsInv
  <2>1. toPi'[i] = toPi[i + 1]  BY <1>5
  <2>2. Backed(toPi[i + 1])  BY <1>6, <2>1 DEF EventsInv
  <2> QED  BY <2>1, <2>2 DEF Backed
<1>8. CASE e.kind = "active"
  <2>1. e \in ActiveContext /\ Backed(e)  BY <1>5, <1>6, <1>8, EventParts DEF EventsInv
  <2>2. scope' = scope /\ shown' = IF ShouldAccept(e) THEN e ELSE shown  BY <1>4, <1>8
  <2>3. ShownInv'  BY <2>1, <2>2 DEF ShownInv, ShouldAccept, Backed
  <2> QED  BY <1>2, <1>3, <1>7, <2>2, <2>3 DEF AdapterInv
<1>9. CASE e.kind = "context"
  <2>1. scope' = e.scope /\ shown' = shown /\ e.scope \in Branch  BY <1>4, <1>5, <1>9, EventParts
  <2>2. ShownInv'  BY <1>1, <2>1, ShownStays
  <2> QED  BY <1>2, <1>3, <1>7, <2>1, <2>2 DEF AdapterInv
<1> QED  BY <1>4, <1>8, <1>9

-----------------------------------------------------------------------------
(* The Sidecar receives a message                                             *)

LEMMA Received ==
    ASSUME PipeInv, Grows, MaxGen \in Nat, toSidecar # <<>>, toSidecar' = Tail(toSidecar), UNCHANGED left,
           NEW m, m = Head(toSidecar)
    PROVE  /\ m \in Message
           /\ m.method = "start" => Fits(m.turn, m.scope)
           /\ m.method \notin {"close", "shutdown"} =>
                 ~closed /\ (closed' = closed /\ sGen' \in 0 .. MaxGen => PipeInv')
           /\ m.method = "close" => ~closed /\ (closed' = TRUE /\ sGen' = sGen + 1 => PipeInv')
           /\ m.method = "shutdown" =>
                 closed /\ (closed' = TRUE /\ sGen' \in {sGen, sGen + 1} => PipeInv')
<1>1. /\ toSidecar \in Seq(Message) /\ toSidecar' \in Seq(Message) /\ m \in Message /\ m = toSidecar[1]
      /\ Len(toSidecar) \in Nat \ {0} /\ Len(toSidecar') = Len(toSidecar) - 1
      /\ DOMAIN toSidecar = 1 .. Len(toSidecar) /\ DOMAIN toSidecar' = 1 .. Len(toSidecar) - 1
      /\ \A i \in DOMAIN toSidecar' : toSidecar'[i] = toSidecar[i + 1]
  BY Shorter DEF PipeInv
<1>2. 1 \in DOMAIN toSidecar /\ \A i \in DOMAIN toSidecar' : i + 1 \in DOMAIN toSidecar  BY <1>1
<1>3. sGen \in 0 .. MaxGen + 2 /\ (~closed => sGen <= MaxGen) /\ (closed => left) /\ left' = left  BY DEF PipeInv
<1>4. m.method = "start" => Fits(m.turn, m.scope)  BY <1>1, <1>2 DEF PipeInv
<1>5. ASSUME NEW i \in DOMAIN toSidecar', toSidecar'[i].method = "start"
      PROVE  Fits(toSidecar[i].turn, toSidecar[i].scope)'
  <2>1. PICK x : x = toSidecar'[i]  OBVIOUS
  <2>2. x = toSidecar[i + 1] /\ x \in Message  BY <1>1, <1>2, <2>1, ElementOfSeq
  <2>3. x.method = "start" /\ Fits(x.turn, x.scope)  BY <1>2, <1>5, <2>1, <2>2 DEF PipeInv
  <2>4. Fits(x.turn, x.scope)'  BY <2>2, <2>3, MessageParts, FitsStays
  <2> QED  BY <2>1, <2>4 DEF Fits
<1>6. \A i \in DOMAIN toSidecar' :
         /\ toSidecar'[i].method = "close" => /\ left /\ ~closed /\ Len(toSidecar) = i + 2
                                              /\ toSidecar[i + 2].method = "shutdown"
         /\ toSidecar'[i].method = "shutdown" => /\ left /\ Len(toSidecar) = i + 1
                                                 /\ toSidecar[i].method = "close"
         /\ closed => toSidecar'[i].method = "shutdown"
  BY <1>1, <1>2 DEF PipeInv
<1>7. ASSUME m.method \notin {"close", "shutdown"}
      PROVE  ~closed /\ (closed' = closed /\ sGen' \in 0 .. MaxGen => PipeInv')
  <2>1. ~closed  BY <1>1, <1>2, <1>7 DEF PipeInv
  <2>2. SUFFICES ASSUME closed' = closed, sGen' \in 0 .. MaxGen PROVE PipeInv'  BY <2>1
  <2>3. \A i \in DOMAIN toSidecar' : toSidecar'[i].method = "shutdown" =>
           i # 1 /\ i - 1 \in DOMAIN toSidecar' /\ toSidecar'[i - 1].method = "close"
    <3> SUFFICES ASSUME NEW i \in DOMAIN toSidecar', toSidecar'[i].method = "shutdown"
                 PROVE  i # 1 /\ i - 1 \in DOMAIN toSidecar' /\ toSidecar'[i - 1].method = "close"
      OBVIOUS
    <3>1. toSidecar[i].method = "close"  BY <1>6
    <3>2. i # 1  BY <1>1, <1>7, <3>1
    <3>3. i - 1 \in DOMAIN toSidecar'  BY <1>1, <3>2
    <3>4. toSidecar'[i - 1] = toSidecar[i]  BY <1>1, <3>3
    <3> QED  BY <3>1, <3>2, <3>3, <3>4
  <2>4. \A i \in DOMAIN toSidecar' : toSidecar'[i].method = "close" =>
           Len(toSidecar') = i + 1 /\ toSidecar'[i + 1].method = "shutdown"
    BY <1>1, <1>6
  <2> QED  BY <1>1, <1>3, <1>5, <1>6, <2>1, <2>2, <2>3, <2>4 DEF PipeInv
<1>8. ASSUME m.method = "close"
      PROVE  ~closed /\ (closed' = TRUE /\ sGen' = sGen + 1 => PipeInv')
  <2>a. 1 \in DOMAIN toSidecar /\ toSidecar[1].method = "close"  BY <1>1, <1>2, <1>8
  <2>b. ~closed /\ left /\ Len(toSidecar) = 1 + 1 /\ toSidecar[1 + 1].method = "shutdown"  BY <2>a DEF PipeInv
  <2>1. ~closed /\ left /\ Len(toSidecar) = 2  BY <2>b
  <2>2. SUFFICES ASSUME closed' = TRUE, sGen' = sGen + 1 PROVE PipeInv'  BY <2>1
  <2>3. \A i \in DOMAIN toSidecar' : i = 1 /\ toSidecar'[i] = toSidecar[2]  BY <1>1, <2>1
  <2>4. toSidecar[2].method = "shutdown"  BY <2>b
  <2> QED  BY <1>1, <1>3, <2>1, <2>2, <2>3, <2>4 DEF PipeInv
<1>9. ASSUME m.method = "shutdown"
      PROVE  closed /\ (closed' = TRUE /\ sGen' \in {sGen, sGen + 1} => PipeInv')
  <2>1. closed /\ sGen <= MaxGen + 1 /\ left /\ Len(toSidecar) = 1  BY <1>1, <1>2, <1>9 DEF PipeInv
  <2>2. SUFFICES ASSUME closed' = TRUE, sGen' \in {sGen, sGen + 1} PROVE PipeInv'  BY <2>1
  <2>3. DOMAIN toSidecar' = {}  BY <1>1, <2>1
  <2> QED  BY <1>1, <1>3, <2>1, <2>2, <2>3 DEF PipeInv
<1> QED  BY <1>1, <1>4, <1>7, <1>8, <1>9

LEMMA ReceiveStep == ASSUME SessionIInv, Receive PROVE SessionIInv'
<1> USE DEF SessionIInv, Receive, adapterVars, captureVars, history, turnVars
<1>1. Grows  BY SameGrows
<1>2. AdapterInv'  BY DEF AdapterInv
<1>3. ShownInv' /\ EventsInv' /\ FinishedInv' /\ MemoryInv' /\ OpInv'
  BY <1>1, ShownStays, EventsStay, FinishedStays, MemoryStays, OpStays
<1>4. PICK m : m = Head(toSidecar)  OBVIOUS
<1>5. /\ m \in Message
      /\ m.method = "start" => Fits(m.turn, m.scope)
      /\ m.method \notin {"close", "shutdown"} =>
            ~closed /\ (closed' = closed /\ sGen' \in 0 .. MaxGen => PipeInv')
      /\ m.method = "close" => ~closed /\ (closed' = TRUE /\ sGen' = sGen + 1 => PipeInv')
      /\ m.method = "shutdown" =>
            closed /\ (closed' = TRUE /\ sGen' \in {sGen, sGen + 1} => PipeInv')
  BY <1>1, <1>4, Received, Callbacks
<1>6. closed \in BOOLEAN /\ sGen \in 0 .. MaxGen + 2 /\ (~closed => sGen <= MaxGen) /\ MaxGen \in Nat
      /\ sTaskGen \in Nat /\ sBranch \in Branch
  BY Callbacks DEF PipeInv, SessionInv
<1>7. SessionInv' = (sTaskGen' \in Nat /\ recall'.pc \in {"idle", "search", "note"}
                        /\ (recall'.pc = "note" => recall'.branch \in Branch))
  BY DEF SessionInv
<1>8. SessionInv  OBVIOUS
\* Nothing has got past the chain while the session is open.
<1>9. ~closed => ~Over  BY DEF OverInv
<1>10. ~Over /\ UNCHANGED settling => OverInv'  BY DEF OverInv, Over
<1>11. UNCHANGED settling => EpisodeInv' /\ SettlingInv'  BY <1>1, EpisodeStays, SettlingStays
<1>12. CASE ReceiveBranch(m)
  <2>1. m.method = "branch" /\ m.branch \in Branch /\ m.gen \in 0 .. MaxGen  BY <1>5, <1>12, MessageParts DEF ReceiveBranch
  <2>2. UNCHANGED <<sTaskGen, closed, settling, recall>> /\ sGen' \in {sGen, m.gen}  BY <1>12 DEF ReceiveBranch
  <2>3. ~closed /\ PipeInv'  BY <1>5, <1>6, <2>1, <2>2
  <2>4. QueueInv'
    <3>1. CASE queue' = queue  BY <1>1, <2>2, <3>1, QueueStays
    <3>2. CASE queue' # queue
      <4>1. PICK o : o = [do |-> "switch", branch |-> m.branch, gen |-> m.gen,
                          parent |-> ForkSource(m.branch, sBranch)]
        OBVIOUS
      <4>2. ForkSource(m.branch, sBranch) \in Branch  BY <1>6, <2>1, TreeAssumption DEF ForkSource
      <4>3. o \in Queued /\ o.do = "switch"  BY <2>1, <4>1, <4>2, <1>6 DEF Queued
      <4>4. Enqueue(<<o>>)  BY <1>12, <3>2, <4>1 DEF ReceiveBranch
      <4>5. <<o>> \in Seq(Queued) /\ \A i \in DOMAIN <<o>> : <<o>>[i] = o  BY <4>3
      <4>6. \A i \in DOMAIN <<o>> : ~IsEnd(<<o>>[i]) /\ <<o>>[i].do # "start"  BY <4>3, <4>5 DEF IsEnd
      <4> QED  BY <1>1, <2>2, <2>3, <4>4, <4>5, <4>6, EnqueuedWork
    <3> QED  BY <3>1, <3>2
  <2>5. SessionInv'  BY <2>2 DEF SessionInv
  <2> QED  BY <1>2, <1>3, <1>9, <1>10, <1>11, <2>2, <2>3, <2>4, <2>5
<1>13. CASE ReceiveStart(m)
  <2>1. m.method = "start" /\ m.turn \in Turn /\ m.scope \in Branch /\ Fits(m.turn, m.scope)
    BY <1>5, <1>13, MessageParts DEF ReceiveStart
  <2>2. UNCHANGED <<sGen, sTaskGen, closed, settling, recall>>  BY <1>13 DEF ReceiveStart
  <2>3. ~closed /\ PipeInv'  BY <1>5, <1>6, <2>1, <2>2
  <2>4. PICK o : o = [do |-> "start", turn |-> m.turn, scope |-> m.scope, gen |-> sGen]  OBVIOUS
  <2>5. o \in Queued /\ o.do = "start" /\ o.turn = m.turn /\ o.scope = m.scope  BY <1>6, <2>1, <2>4 DEF Queued
  <2>6. Enqueue(<<o>>)  BY <1>13, <2>4 DEF ReceiveStart
  <2>7. <<o>> \in Seq(Queued) /\ \A i \in DOMAIN <<o>> : <<o>>[i] = o  BY <2>5
  <2>8. Fits(o.turn, o.scope)'  BY <2>1, <2>5 DEF Fits
  <2>9. \A i \in DOMAIN <<o>> : ~IsEnd(<<o>>[i]) /\ (<<o>>[i].do = "start" => Fits(<<o>>[i].turn, <<o>>[i].scope)')
    BY <2>5, <2>7, <2>8 DEF IsEnd, Fits
  <2>10. QueueInv'  BY <1>1, <2>2, <2>3, <2>6, <2>7, <2>9, EnqueuedWork
  <2>11. SessionInv'  BY <2>2 DEF SessionInv
  <2> QED  BY <1>2, <1>3, <1>9, <1>10, <1>11, <2>2, <2>3, <2>10, <2>11
<1>14. CASE ReceiveSteer(m) \/ ReceiveRecall(m)
  <2>1. m.method \in {"steer", "recall"} /\ UNCHANGED <<sGen, closed, queue, settling>>
    BY <1>14 DEF ReceiveSteer, ReceiveRecall
  <2>2. ~closed /\ PipeInv'  BY <1>5, <1>6, <2>1
  <2>3. QueueInv'  BY <1>1, <2>1, QueueStays
  <2>4. SessionInv'  BY <1>6, <1>14 DEF SessionInv, ReceiveSteer, ReceiveRecall
  <2> QED  BY <1>2, <1>3, <1>9, <1>10, <1>11, <2>1, <2>2, <2>3, <2>4
<1>15. CASE ReceiveSettled(m)
  <2>1. m.method = "settled" /\ m.turn \in Turn  BY <1>5, <1>15, MessageParts DEF ReceiveSettled
  <2>2. UNCHANGED <<sGen, sTaskGen, closed, settling, recall>>  BY <1>15 DEF ReceiveSettled
  <2>3. ~closed /\ PipeInv'  BY <1>5, <1>6, <2>1, <2>2
  <2>4. PICK o, w : o = [do |-> "finish"] /\ w = [do |-> "wake", for |-> m.turn]  OBVIOUS
  <2>5. /\ o \in Queued /\ o.do = "finish" /\ w \in Queued /\ w.do = "wake" /\ w.for \notin Closing
    BY <2>1, <2>4, Callbacks DEF Queued
  <2>6. Enqueue(<<o, w>>)  BY <1>15, <2>4 DEF ReceiveSettled
  <2>7. <<o, w>> \in Seq(Queued) /\ \A i \in DOMAIN <<o, w>> : <<o, w>>[i] \in {o, w}  BY <2>5
  <2>8. \A i \in DOMAIN <<o, w>> : ~IsEnd(<<o, w>>[i]) /\ <<o, w>>[i].do # "start"  BY <2>5, <2>7 DEF IsEnd
  <2>9. QueueInv'  BY <1>1, <2>2, <2>3, <2>6, <2>7, <2>8, EnqueuedWork
  <2>10. SessionInv'  BY <2>2 DEF SessionInv
  <2> QED  BY <1>2, <1>3, <1>9, <1>10, <1>11, <2>2, <2>3, <2>9, <2>10
<1>16. CASE ReceiveClose(m)
  <2>1. m.method = "close" /\ UNCHANGED <<settling, recall>> /\ closed' = TRUE /\ sGen' = sGen + 1
        /\ sTaskGen' = sTaskGen + 1 /\ Enqueue(<<[do |-> "wake", for |-> ByClose]>>)
    BY <1>16 DEF ReceiveClose, BeginClose
  <2>2. ~closed /\ PipeInv'  BY <1>5, <2>1
  <2>3. QueueInv'  BY <1>1, <2>1, EnqueuedEnd DEF Closing
  <2>4. SessionInv'  BY <1>6, <2>1 DEF SessionInv
  <2> QED  BY <1>2, <1>3, <1>9, <1>10, <1>11, <2>1, <2>2, <2>3, <2>4
<1>17. CASE ReceiveShutdown(m) /\ present
  <2>1. m.method = "shutdown" /\ UNCHANGED <<settling, recall>> /\ closed' = TRUE /\ sGen' = sGen + 1
        /\ sTaskGen' = sTaskGen + 1 /\ Enqueue(<<[do |-> "wake", for |-> ByShutdown]>>)
    BY <1>17 DEF ReceiveShutdown, BeginClose
  <2>2. PipeInv'  BY <1>5, <2>1
  <2>3. QueueInv' /\ ((\A i \in DOMAIN queue : IsEnd(queue[i])) => (\A i \in DOMAIN queue : IsEnd(queue[i]))')
    BY <1>1, <2>1, EnqueuedEnd DEF Closing
  <2>4. SessionInv'  BY <1>6, <2>1 DEF SessionInv
  <2>5. OverInv'  BY <2>1, <2>3 DEF OverInv, Over
  <2> QED  BY <1>2, <1>3, <1>11, <2>1, <2>2, <2>3, <2>4, <2>5
<1>18. CASE ReceiveShutdown(m) /\ ~present
  <2>1. m.method = "shutdown" /\ settling' = [settling EXCEPT ![ByShutdown] = [pc |-> "exit"]]
        /\ UNCHANGED <<closed, sGen, sTaskGen, queue, recall>>
    BY <1>18 DEF ReceiveShutdown
  <2>2. closed /\ PipeInv'  BY <1>5, <1>6, <2>1
  <2>3. QueueInv'  BY <1>1, <2>1, QueueStays
  <2>4. SessionInv'  BY <2>1 DEF SessionInv
  <2>5. OverInv'  BY <1>18, <2>1 DEF OverInv, Over, IsEnd
  <2>6. ByShutdown \in Callback /\ ByShutdown \in Closing  BY DEF Callback, Closing
  <2>7. DOMAIN settling = Callback  BY DEF SettlingInv
  <2>8. /\ settling'[ByShutdown] = [pc |-> "exit"] /\ settling'[ByShutdown].pc = "exit"
        /\ \A p \in Callback \ {ByShutdown} : settling'[p] = settling[p]
    BY <2>1, <2>6, <2>7
  <2>9. EpisodeInv'  BY <2>8, Callbacks DEF EpisodeInv, Fits
  <2>10. SettlingInv'
    <3>1. StageFine(ByShutdown, settling[ByShutdown])'  BY <1>18, <2>6, <2>8 DEF StageFine
    <3>2. ASSUME NEW p \in Callback \ {ByShutdown} PROVE StageFine(p, settling[p])'
      <4>1. PICK s : s = settling[p]  OBVIOUS
      <4>2. StageFine(p, s)  BY <4>1 DEF SettlingInv
      <4>3. StageFine(p, s)'  BY <1>1, <4>2, StageStays
      <4> QED  BY <2>8, <4>1, <4>3 DEF StageFine, Fitting, Fits
    <3> QED  BY <2>1, <2>7, <3>1, <3>2 DEF SettlingInv
  <2> QED  BY <1>2, <1>3, <2>2, <2>3, <2>4, <2>5, <2>9, <2>10
<1> QED  BY <1>4, <1>12, <1>13, <1>14, <1>15, <1>16, <1>17, <1>18

-----------------------------------------------------------------------------
(* The promise chain                                                          *)

LEMMA Frame ==
    ASSUME SessionIInv, Grows, UNCHANGED adapterVars, UNCHANGED <<ranOn, misled, toSidecar, sGen, closed>>
    PROVE  AdapterInv' /\ ShownInv' /\ PipeInv'
<1> USE DEF SessionIInv, adapterVars
<1>1. AdapterInv'  BY DEF AdapterInv
<1> QED  BY <1>1, ShownStays, PipeStays

\* The turn that is recorded is finished, with its context.
LEMMA Finishes ==
    ASSUME SessionIInv, Grows, op = Idle, FinishEpisode, UNCHANGED <<op, settling>>
    PROVE  EpisodeInv' /\ FinishedInv'
<1> USE DEF SessionIInv
<1>1. CASE episode = 0
  BY <1>1, EpisodeStays, FinishedStays DEF FinishEpisode, captureVars
<1>2. CASE episode # 0
  <2>1. episode \in Turn /\ op.pc = "idle"  BY <1>2, Callbacks DEF EpisodeInv, Idle
  <2>2. PICK u : u = [turn |-> episode, ctx |-> contexts[episode]]  OBVIOUS
  <2>3. contexts[episode] # None /\ contexts[episode] \in Context  BY <1>2, <2>1 DEF EpisodeInv
  <2>4. u \in Item /\ u.turn = episode /\ u.ctx = contexts[episode]  BY <2>1, <2>2, <2>3 DEF Item
  <2>5. Fits(episode, contexts[episode].branch)  BY <2>1, <2>3 DEF EpisodeInv
  <2>6. Fits(u.turn, u.ctx.branch)'  BY <2>1, <2>4, <2>5, FitsStays
  <2>7. /\ finished' = Append(finished, u) /\ contexts' = [contexts EXCEPT ![episode] = None] /\ episode' = 0
    BY <1>2, <2>2 DEF FinishEpisode
  <2>8. FinishedInv'
    <3>1. finished \in Seq(Item)  BY DEF FinishedInv
    <3>2. /\ finished' \in Seq(Item) /\ \A i \in DOMAIN finished : finished'[i] = finished[i]
          /\ \A i \in DOMAIN finished' \ DOMAIN finished : finished'[i] = u
      BY <2>4, <2>7, <3>1, Longer
    <3>3. ASSUME NEW i \in DOMAIN finished' PROVE Fitting(finished[i])'
      <4>1. CASE i \in DOMAIN finished
        <5>1. PICK x \in Item : x = finished[i]  BY <3>1, <4>1, ElementOfSeq, LenProperties
        <5>2. x.turn \in Turn /\ Fits(x.turn, x.ctx.branch)  BY <4>1, <5>1 DEF FinishedInv, Item, Fitting
        <5>3. Fits(x.turn, x.ctx.branch)'  BY <5>2, FitsStays
        <5> QED  BY <3>2, <4>1, <5>1, <5>3 DEF Fitting, Fits
      <4>2. CASE i \notin DOMAIN finished  BY <2>6, <3>2, <4>2 DEF Fitting, Fits
      <4> QED  BY <4>1, <4>2
    <3> QED  BY <3>2, <3>3 DEF FinishedInv
  <2>9. EpisodeInv'
    <3>1. episode' \in 0 .. MaxTurns /\ contexts' \in [Turn -> Context \cup {None}]
      BY <2>1, <2>7, Callbacks DEF EpisodeInv
    <3>2. ASSUME NEW t \in Turn, contexts'[t] # None PROVE Fits(t, contexts[t].branch)'
      <4>1. contexts'[t] = contexts[t]  BY <2>1, <2>7, <3>2 DEF EpisodeInv
      <4>2. Fits(t, contexts[t].branch)  BY <3>2, <4>1 DEF EpisodeInv
      <4> QED  BY <4>1, <4>2, Callbacks DEF Fits, Grows
    <3>3. \A c \in Closing : settling[c].pc = "handOver" => 0 # settling[c].turn
      BY Callbacks DEF SettlingInv, StageFine
    <3> QED  BY <2>7, <3>1, <3>2, <3>3 DEF EpisodeInv
  <2> QED  BY <2>8, <2>9
<1> QED  BY <1>1, <1>2

\* A turn begins to be recorded.
LEMMA Captures ==
    ASSUME SessionIInv, Grows, NEW o, Capture(o), o.turn \in Turn, o.scope \in Branch, o.gen \in Nat,
           Fits(o.turn, o.scope), ~Over, UNCHANGED settling
    PROVE  EpisodeInv' /\ FinishedInv' /\ OpInv'
<1> USE DEF SessionIInv
<1>1. /\ episode' = o.turn /\ contexts' = contexts /\ finished' = finished
      /\ op'.pc = "bind" /\ op'.turn = o.turn /\ op'.gen = o.gen /\ op'.branch = o.scope
      /\ op'.task \in Task \cup {NoTask}
  BY DEF Capture, SessionInv
<1>2. Fits(o.turn, o.scope)'
  <2>1. PICK t \in Turn, b \in Branch : t = o.turn /\ b = o.scope  OBVIOUS
  <2>2. Fits(t, b)'  BY <2>1, FitsStays
  <2> QED  BY <2>1, <2>2, <1>1 DEF Fits
<1>3. OpInv'  BY <1>1, <1>2, Callbacks DEF OpInv, Fits
<1>4. FinishedInv'  BY <1>1, FinishedStays
<1>5. \A t \in Turn : contexts'[t] # None => Fits(t, contexts[t].branch)'
  BY <1>1, Callbacks DEF EpisodeInv, Fits, Grows
<1>6. \A c \in Closing : settling'[c].pc # "handOver"  BY DEF Over
<1>7. EpisodeInv'  BY <1>1, <1>5, <1>6, Callbacks DEF EpisodeInv
<1> QED  BY <1>3, <1>4, <1>7

-----------------------------------------------------------------------------
(* Working memory                                                             *)

LEMMA Stores ==
    ASSUME AdapterInv, MemoryInv, NEW b \in Branch, NEW m \in Memory, NEW copied \in SUBSET Turn,
           Store(b, m, copied), UNCHANGED turnVars, m.turns \subseteq 1 .. turn,
           mem[b] = None => \A t \in m.turns : t \in copied \/ Fits(t, b),
           mem[b] # None => mem[b].turns \subseteq m.turns /\ \A t \in m.turns : t \in mem[b].turns \/ Fits(t, b)
    PROVE  Grows /\ MemoryInv' /\ mem'[b] = m
<1> USE DEF turnVars
<1>1. turn \in Nat /\ turn' = turn /\ misled' = misled /\ ranOn' = ranOn /\ m # None
  BY Callbacks, Somethings DEF AdapterInv
<1>2. mem' = [mem EXCEPT ![b] = m] /\ mem \in [Branch -> Memory \cup {None}]
      /\ forked \in [Branch -> SUBSET Turn]
  BY DEF Store, MemoryInv
<1>3. mem'[b] = m /\ \A d \in Branch \ {b} : mem'[d] = mem[d]  BY <1>2
<1>4. /\ \A d \in Branch : mem[d] # None => forked'[d] = forked[d]
      /\ mem[b] = None => forked'[b] = copied
      /\ \A d \in Branch \ {b} : forked'[d] = forked[d]
      /\ forked' \in [Branch -> SUBSET Turn]
  BY <1>2 DEF Store
<1>5. Grows  BY <1>1, <1>3, <1>4 DEF Grows
<1>6. \A t : Fits(t, b)' <=> Fits(t, b)  BY <1>1 DEF Fits
<1>7. \A t \in m.turns : t <= turn' /\ (t \in forked'[b] \/ Fits(t, b)')
  <2> SUFFICES ASSUME NEW t \in m.turns PROVE t <= turn' /\ (t \in forked'[b] \/ Fits(t, b)')  OBVIOUS
  <2>1. t <= turn  BY <1>1
  <2>2. CASE mem[b] = None  BY <1>1, <1>4, <1>6, <2>1, <2>2
  <2>3. CASE mem[b] # None
    <3>1. t \in mem[b].turns => t \in forked[b] \/ Fits(t, b)  BY <2>3 DEF MemoryInv
    <3> QED  BY <1>1, <1>4, <1>6, <2>1, <2>3, <3>1
  <2> QED  BY <2>2, <2>3
<1>8. ASSUME NEW d \in Branch \ {b}, mem[d] # None, NEW t \in mem[d].turns
      PROVE  t <= turn' /\ (t \in forked'[d] \/ Fits(t, d)')
  BY <1>1, <1>4, <1>8 DEF MemoryInv, Fits
<1>9. mem' \in [Branch -> Memory \cup {None}]  BY <1>2
<1>10. MemoryInv'
  <2>1. ASSUME NEW d \in Branch, mem'[d] # None, NEW t \in mem'[d].turns
        PROVE  t <= turn' /\ (t \in forked'[d] \/ Fits(t, d)')
    <3>1. CASE d = b  BY <1>3, <1>7, <2>1, <3>1 DEF Fits
    <3>2. CASE d # b  BY <1>3, <1>8, <2>1, <3>2
    <3> QED  BY <3>1, <3>2
  <2> QED  BY <1>4, <1>9, <2>1 DEF MemoryInv
<1> QED  BY <1>3, <1>5, <1>10

LEMMA ForkedFine ==
    ASSUME AdapterInv, MemoryInv, NEW parent \in Branch \cup {NoBranch}
    PROVE  Forked(parent) \in Memory /\ Forked(parent).turns \subseteq 1 .. turn
<1>1. CASE parent # NoBranch /\ mem[parent] # None
  <2>1. parent \in Branch /\ mem[parent] \in Memory  BY <1>1 DEF MemoryInv
  <2>2. mem[parent].turns \subseteq 1 .. MaxTurns /\ \A t \in mem[parent].turns : t <= turn
    BY <1>1, <2>1, Callbacks DEF MemoryInv, Memory
  <2>3. mem[parent].turns \subseteq 1 .. turn  BY <2>2, Callbacks DEF AdapterInv
  <2> QED  BY <1>1, <2>1, <2>3 DEF Forked, Memory
<1>2. CASE ~(parent # NoBranch /\ mem[parent] # None)
  BY <1>2, Somethings DEF Forked, Fresh
<1> QED  BY <1>1, <1>2

LEMMA Reduces ==
    ASSUME AdapterInv, MemoryInv, NEW b \in Branch, NEW ts, ts \subseteq 1 .. turn, \A t \in ts : Fits(t, b),
           Reduce(b, ts), UNCHANGED turnVars
    PROVE  Grows /\ MemoryInv' /\ mem'[b] = Reduced(b, ts) /\ Reduced(b, ts) \in Memory
<1>1. PICK f : f = Forked(ParentOf[b])  OBVIOUS
<1>2. f \in Memory /\ f.turns \subseteq 1 .. turn  BY <1>1, ForkedFine, TreeAssumption
<1>3. turn \in 0 .. MaxTurns /\ 1 .. turn \subseteq Turn  BY Callbacks DEF AdapterInv
<1>4. PICK m : m = (IF mem[b] = None THEN f ELSE mem[b])  OBVIOUS
<1>5. m \in Memory  BY <1>2, <1>4 DEF MemoryInv
<1>6. m.turns \subseteq 1 .. turn
  <2>1. CASE mem[b] = None  BY <1>2, <1>4, <2>1
  <2>2. CASE mem[b] # None
    <3>1. \A t \in m.turns : t <= turn /\ t \in 1 .. MaxTurns  BY <1>4, <1>5, <2>2, Callbacks DEF MemoryInv, Memory
    <3> QED  BY <1>3, <3>1, Callbacks
  <2> QED  BY <2>1, <2>2
<1>7. PICK r : r = Reduced(b, ts)  OBVIOUS
<1>8. r = [rev |-> m.rev + 1, turns |-> m.turns \cup ts]  BY <1>1, <1>4, <1>7 DEF Reduced
<1>9. m.rev \in Nat /\ m.turns \subseteq Turn  BY <1>5 DEF Memory
<1>10. r \in Memory /\ r.turns = m.turns \cup ts
  <2>1. ts \subseteq Turn  BY <1>3
  <2>2. m.turns \cup ts \in SUBSET Turn  BY <1>9, <2>1
  <2>3. m.rev + 1 \in Nat  BY <1>9
  <2> QED  BY <1>8, <2>2, <2>3 DEF Memory
<1>11. Store(b, r, f.turns) /\ f.turns \in SUBSET Turn /\ r.turns \subseteq 1 .. turn
  BY <1>1, <1>2, <1>3, <1>6, <1>7, <1>10 DEF Reduce
<1>12. mem[b] = None => \A t \in r.turns : t \in f.turns \/ Fits(t, b)  BY <1>4, <1>10
<1>13. mem[b] # None => mem[b].turns \subseteq r.turns /\ \A t \in r.turns : t \in mem[b].turns \/ Fits(t, b)
  BY <1>4, <1>10
<1>14. Grows /\ MemoryInv' /\ mem'[b] = r  BY <1>10, <1>11, <1>12, <1>13, Stores
<1> QED  BY <1>7, <1>10, <1>14

-----------------------------------------------------------------------------
(* One operation at a time                                                    *)

LEMMA BeginOperationStep == ASSUME SessionIInv, BeginOperation PROVE SessionIInv'
<1> USE DEF SessionIInv, BeginOperation, adapterVars, pipes, history, turnVars, ChainFree
<1>1. Grows  BY SameGrows
<1>2. AdapterInv' /\ ShownInv' /\ PipeInv'  BY <1>1, Frame
<1>3. EventsInv' /\ MemoryInv'  BY <1>1, EventsStay, MemoryStays
<1>4. PICK o : o = Head(queue)  OBVIOUS
<1>5. /\ QueueInv' /\ o \in Queued
      /\ o.do = "start" => Fits(o.turn, o.scope)
      /\ IsEnd(o) => closed /\ (\A i \in DOMAIN queue : IsEnd(queue[i]))'
      /\ (\A i \in DOMAIN queue : IsEnd(queue[i])) => IsEnd(o)
  BY <1>1, <1>4, Taken
<1>6. op.pc = "idle" /\ sBranch \in Branch /\ sGen \in Nat  BY Callbacks DEF Idle, SessionInv, PipeInv
<1>7. Over => closed /\ IsEnd(o)  BY <1>5 DEF OverInv
<1>8. sBranch' \in Branch => SessionInv'  BY DEF SessionInv
<1>9. ~Over /\ UNCHANGED settling => OverInv'  BY DEF OverInv, Over
<1>10. UNCHANGED settling => SettlingInv'  BY <1>1, SettlingStays
<1>11. UNCHANGED captureVars => FinishedInv'  BY <1>1, FinishedStays DEF captureVars
<1>12. UNCHANGED op => OpInv'  BY <1>1, OpStays
<1>13. CASE BeginSwitch(o)
  <2>1. /\ o.do = "switch" /\ UNCHANGED captureVars /\ UNCHANGED settling
        /\ o.branch \in Branch /\ o.gen \in Nat /\ o.parent \in Branch
    BY <1>5, <1>13, QueuedParts DEF BeginSwitch
  <2>2. ~Over  BY <1>7, <2>1 DEF IsEnd
  <2>3. sBranch' \in Branch  BY <1>6, <1>13, <2>1 DEF BeginSwitch
  <2>4. OpInv'  BY <1>12, <1>13, <2>1 DEF BeginSwitch, OpInv
  <2>5. EpisodeInv'
    <3>1. UNCHANGED <<episode, contexts>>  BY <2>1 DEF captureVars
    <3>2. episode # 0 => contexts[episode] # None  BY <1>6 DEF EpisodeInv
    <3> QED  BY <1>1, <2>1, <3>1, <3>2, Callbacks DEF EpisodeInv, Fits, Grows
  <2> QED  BY <1>2, <1>3, <1>5, <1>8, <1>9, <1>10, <1>11, <2>1, <2>2, <2>3, <2>4, <2>5
<1>14. CASE BeginStart(o)
  <2>1. /\ o.do = "start" /\ UNCHANGED <<sBranch, settling>>
        /\ o.turn \in Turn /\ o.scope \in Branch /\ o.gen \in Nat /\ Fits(o.turn, o.scope)
    BY <1>5, <1>14, QueuedParts DEF BeginStart
  <2>2. ~Over  BY <1>7, <2>1 DEF IsEnd
  <2>3. PICK b : b = [pc |-> "refresh", turn |-> o.turn, scope |-> o.scope, gen |-> o.gen]  OBVIOUS
  <2>4. b.pc = "refresh" /\ b.turn = o.turn /\ b.scope = o.scope /\ b.gen = o.gen
        /\ DOMAIN b = {"pc", "turn", "scope", "gen"}
    BY <2>3
  <2>5. CASE StillOn(o.scope, o.gen)
    <3>1. op' = b /\ UNCHANGED captureVars  BY <1>14, <2>3, <2>5 DEF BeginStart
    <3>2. OpInv'  BY <2>1, <2>4, <3>1 DEF OpInv, Fits
    <3>3. EpisodeInv'
      <4>1. UNCHANGED <<episode, contexts>>  BY <3>1 DEF captureVars
      <4>2. episode # 0 => contexts[episode] # None  BY <1>6 DEF EpisodeInv
      <4> QED  BY <1>1, <2>1, <4>1, <4>2, Callbacks DEF EpisodeInv, Fits, Grows
    <3> QED  BY <1>2, <1>3, <1>5, <1>6, <1>8, <1>9, <1>10, <1>11, <2>1, <2>2, <3>1, <3>2, <3>3
  <2>6. CASE ~StillOn(o.scope, o.gen)
    <3>1. Capture(b)  BY <1>14, <2>3, <2>6 DEF BeginStart
    <3>2. Fits(b.turn, b.scope)  BY <2>1, <2>4
    <3>3. EpisodeInv' /\ FinishedInv' /\ OpInv'  BY <1>1, <2>1, <2>2, <2>4, <3>1, <3>2, Captures
    <3> QED  BY <1>2, <1>3, <1>5, <1>6, <1>8, <1>9, <1>10, <2>1, <2>2, <3>3
  <2> QED  BY <2>5, <2>6
<1>15. CASE Finish(o)
  <2>1. o.do = "finish" /\ FinishEpisode /\ UNCHANGED <<sBranch, op, settling>>  BY <1>15 DEF Finish
  <2>2. ~Over  BY <1>7, <2>1 DEF IsEnd
  <2>3. EpisodeInv' /\ FinishedInv'  BY <1>1, <2>1, Finishes
  <2> QED  BY <1>2, <1>3, <1>5, <1>6, <1>8, <1>9, <1>10, <1>12, <2>1, <2>2, <2>3
<1>16. CASE Wake(o)
  <2>1. o.do = "wake" /\ o.for \in Callback /\ UNCHANGED captureVars /\ UNCHANGED <<sBranch, op>>
    BY <1>5, <1>16, QueuedParts DEF Wake
  <2>2. PICK p \in Callback : p = o.for  BY <2>1
  <2>3. PICK s : s = IF p \in Closing THEN WakeClosing(p) ELSE [pc |-> "refresh", branch |-> sBranch, gen |-> sGen]
    OBVIOUS
  <2>4. settling' = [settling EXCEPT ![p] = s] /\ DOMAIN settling = Callback
    BY <1>16, <2>2, <2>3 DEF Wake, SettlingInv
  <2>5. settling'[p] = s /\ \A q \in Callback \ {p} : settling'[q] = settling[q]  BY <2>4
  <2>6. StageFine(p, s)' /\ s.pc # "handOver" /\ (p \notin Closing => s.pc = "refresh") /\ s.pc # "idle"
    <3>1. CASE p \notin Closing
      <4>1. s.pc = "refresh" /\ p \in Turn  BY <2>3, <3>1, Callbacks
      <4> QED  BY <3>1, <4>1 DEF StageFine
    <3>2. CASE p \in Closing /\ episode = 0
      <4>1. s.pc = "drain"  BY <2>3, <3>2 DEF WakeClosing, EndsEpisode
      <4> QED  BY <3>2, <4>1 DEF StageFine
    <3>3. CASE p \in Closing /\ episode # 0
      <4>1. s = [pc |-> "append", turn |-> episode, ctx |-> contexts[episode]]
        BY <2>3, <3>3 DEF WakeClosing, EndsEpisode
      <4>2. episode \in Turn /\ contexts[episode] # None  BY <1>6, <3>3, Callbacks DEF EpisodeInv
      <4>3. contexts[episode] \in Context /\ Fits(episode, contexts[episode].branch)  BY <4>2 DEF EpisodeInv
      <4>4. s.pc = "append" /\ DOMAIN s = {"pc", "turn", "ctx"} /\ s.turn = episode /\ s.ctx = contexts[episode]
        BY <4>1
      <4>a. s.turn \in Turn /\ Fits(s.turn, s.ctx.branch)  BY <4>2, <4>3, <4>4
      <4>5. Fits(s.turn, s.ctx.branch)'  BY <1>1, <4>a, FitsStays
      <4> QED  BY <3>3, <4>2, <4>3, <4>4, <4>5 DEF StageFine, Fitting
    <3> QED  BY <3>1, <3>2, <3>3
  <2>7. SettlingInv'
    <3>1. ASSUME NEW q \in Callback PROVE StageFine(q, settling[q])'
      <4>1. PICK r : r = settling'[q]  OBVIOUS
      <4>2. StageFine(q, r)'
        <5>1. CASE q = p  BY <2>5, <2>6, <4>1, <5>1
        <5>2. CASE q # p
          <6>1. StageFine(q, r)  BY <2>5, <4>1, <5>2 DEF SettlingInv
          <6> QED  BY <1>1, <6>1, StageStays
        <5> QED  BY <5>1, <5>2
      <4> QED  BY <4>1, <4>2 DEF StageFine, Fitting, Fits
    <3> QED  BY <2>4, <3>1 DEF SettlingInv
  <2>8. EpisodeInv'
    <3>1. UNCHANGED <<episode, contexts, op>>  BY <2>1 DEF captureVars
    <3>2. \A c \in Closing : settling'[c].pc = "handOver" => c # p /\ settling'[c] = settling[c]
      BY <2>5, <2>6, Callbacks
    <3> QED  BY <3>1, <3>2 DEF EpisodeInv, Fits
  <2>9. OverInv'
    <3>1. CASE p \in Closing
      <4>1. IsEnd(o)  BY <2>1, <2>2, <3>1 DEF IsEnd
      <4> QED  BY <1>5, <1>6, <2>1, <4>1 DEF OverInv, IsEnd
    <3>2. CASE p \notin Closing
      <4>1. ~Over  BY <1>7, <2>2, <3>2 DEF IsEnd
      <4>2. \A c \in Closing : settling'[c] = settling[c]  BY <2>5, <3>2, Callbacks
      <4> QED  BY <4>1, <4>2 DEF OverInv, Over
    <3> QED  BY <3>1, <3>2
  <2> QED  BY <1>2, <1>3, <1>5, <1>6, <1>8, <1>11, <1>12, <2>1, <2>7, <2>8, <2>9
<1> QED  BY <1>4, <1>13, <1>14, <1>15, <1>16

\* While an operation is under way no closing has got past the chain.
LEMMA Working ==
    ASSUME SessionIInv, op.pc # "idle", UNCHANGED <<queue, closed, present, settling>>, Grows
    PROVE  ~Over /\ OverInv' /\ QueueInv' /\ SettlingInv'
<1> USE DEF SessionIInv
<1>1. ~Over /\ OverInv'  BY DEF OverInv, Over
<1>2. QueueInv' /\ SettlingInv'  BY QueueStays, SettlingStays
<1> QED  BY <1>1, <1>2

LEMMA SwitchEnds ==
    ASSUME EventsInv, Grows, sGen \in Nat, op.branch \in Branch, NEW m \in Memory, mem'[op.branch] = m, EndSwitch(m)
    PROVE  EventsInv' /\ op' = Idle
<1>1. PICK b \in Branch : b = op.branch  OBVIOUS
<1>2. CASE Publish(b, m)  BY <1>1, <1>2, Published DEF EndSwitch
<1>3. CASE toPi' = toPi  BY <1>3, EventsStay DEF EndSwitch
<1> QED  BY <1>1, <1>2, <1>3 DEF EndSwitch

LEMMA LoadBranchStep == ASSUME SessionIInv, LoadBranch PROVE SessionIInv'
<1> USE DEF SessionIInv, LoadBranch, opUnchanged, history, turnVars, adapterVars
<1>1. Grows  BY SameGrows
<1>2. AdapterInv' /\ ShownInv' /\ PipeInv'  BY <1>1, Frame
<1>3. ~Over /\ OverInv' /\ QueueInv' /\ SettlingInv'  BY <1>1, Working
<1>4. FinishedInv' /\ MemoryInv'  BY <1>1, FinishedStays, MemoryStays DEF captureVars
<1>5. SessionInv'  BY DEF SessionInv
<1>6. op.branch \in Branch /\ op.parent \in Branch /\ sGen \in Nat  BY Callbacks DEF OpInv, PipeInv
<1>7. op'.pc # "bind" => EpisodeInv'
  <2>1. UNCHANGED <<episode, contexts, settling>>  BY DEF captureVars
  <2>2. episode # 0 => contexts[episode] # None  BY DEF EpisodeInv
  <2> QED  BY <1>1, <2>1, <2>2, Callbacks DEF EpisodeInv, Fits, Grows
<1>8. CASE mem[op.branch] # None
  <2>1. PICK m : m = mem[op.branch]  OBVIOUS
  <2>2. m \in Memory /\ mem'[op.branch] = m /\ EndSwitch(m)  BY <1>6, <1>8, <2>1 DEF MemoryInv
  <2>3. EventsInv' /\ op' = Idle  BY <1>1, <1>6, <2>2, SwitchEnds
  <2>4. op'.pc = "idle"  BY <2>3 DEF Idle
  <2>5. OpInv'  BY <2>4 DEF OpInv
  <2> QED  BY <1>2, <1>3, <1>4, <1>5, <1>7, <2>3, <2>4, <2>5
<1>9. CASE mem[op.branch] = None
  <2>1. PICK f : f = Forked(op.parent)  OBVIOUS
  <2>2. f \in Memory /\ f.turns \subseteq 1 .. turn  BY <1>6, <2>1, ForkedFine
  <2>3. op' = [pc |-> "create", branch |-> op.branch, gen |-> op.gen, value |-> f] /\ toPi' = toPi
    BY <1>9, <2>1
  <2>4. op'.pc = "create" /\ op'.branch = op.branch /\ op'.value = f  BY <2>3
  <2>5. OpInv'  BY <1>6, <2>2, <2>4 DEF OpInv
  <2>6. EventsInv'  BY <1>1, <2>3, EventsStay
  <2> QED  BY <1>2, <1>3, <1>4, <1>5, <1>7, <2>4, <2>5, <2>6
<1> QED  BY <1>8, <1>9

LEMMA CreateBranchStep == ASSUME SessionIInv, CreateBranch PROVE SessionIInv'
<1> USE DEF SessionIInv, CreateBranch, opUnchanged, history, turnVars, adapterVars
<1>1. PICK b \in Branch, v \in Memory : b = op.branch /\ v = op.value /\ v.turns \subseteq 1 .. turn  BY DEF OpInv
<1>2. PICK m : m = IF mem[b] = None THEN v ELSE mem[b]  OBVIOUS
<1>3. Store(b, m, v.turns) /\ EndSwitch(m) /\ m \in Memory  BY <1>1, <1>2 DEF MemoryInv
<1>4. turn \in 0 .. MaxTurns /\ sGen \in Nat  BY Callbacks DEF AdapterInv, PipeInv
<1>5. v.turns \in SUBSET Turn  BY <1>1 DEF Memory
<1>6. m.turns \subseteq 1 .. turn
  <2>1. CASE mem[b] # None
    <3>1. \A t \in m.turns : t <= turn /\ t \in 1 .. MaxTurns  BY <1>2, <1>3, <2>1, Callbacks DEF MemoryInv, Memory
    <3> QED  BY <1>4, <3>1, Callbacks
  <2> QED  BY <1>1, <1>2, <2>1
<1>7. Grows /\ MemoryInv' /\ mem'[b] = m  BY <1>2, <1>3, <1>5, <1>6, Stores
<1>8. AdapterInv' /\ ShownInv' /\ PipeInv'  BY <1>7, Frame
<1>9. ~Over /\ OverInv' /\ QueueInv' /\ SettlingInv'  BY <1>7, Working
<1>10. FinishedInv'  BY <1>7, FinishedStays DEF captureVars
<1>11. SessionInv'  BY DEF SessionInv
<1>12. EventsInv' /\ op' = Idle  BY <1>1, <1>3, <1>4, <1>7, SwitchEnds
<1>13. op'.pc = "idle"  BY <1>12 DEF Idle
<1>14. OpInv'  BY <1>13 DEF OpInv
<1>15. EpisodeInv'
  <2>1. UNCHANGED <<episode, contexts, settling>>  BY DEF captureVars
  <2>2. episode # 0 => contexts[episode] # None  BY DEF EpisodeInv
  <2> QED  BY <1>7, <2>1, <2>2, Callbacks DEF EpisodeInv, Fits, Grows
<1> QED  BY <1>7, <1>8, <1>9, <1>10, <1>11, <1>12, <1>14, <1>15

LEMMA StartSteps == ASSUME SessionIInv, RefreshForStart \/ AnnounceForStart PROVE SessionIInv'
<1> USE DEF SessionIInv, opUnchanged, history, turnVars, adapterVars
<1>1. op.pc \in {"refresh", "announce"} /\ UNCHANGED opUnchanged /\ UNCHANGED <<sBranch, mem, forked>>
  BY DEF RefreshForStart, AnnounceForStart
<1>2. Grows  BY <1>1, SameGrows
<1>3. AdapterInv' /\ ShownInv' /\ PipeInv'  BY <1>1, <1>2, Frame
<1>4. ~Over /\ OverInv' /\ QueueInv' /\ SettlingInv'  BY <1>1, <1>2, Working
<1>5. MemoryInv'  BY <1>1, <1>2, MemoryStays
<1>6. /\ DOMAIN op = {"pc", "turn", "scope", "gen"}
      /\ op.turn \in Turn /\ op.scope \in Branch /\ op.gen \in Nat /\ Fits(op.turn, op.scope)
  BY <1>1 DEF OpInv
<1>7. PICK o : o = op  OBVIOUS
<1>8. Capture(o) => EpisodeInv' /\ FinishedInv' /\ OpInv'  BY <1>1, <1>2, <1>4, <1>6, <1>7, Captures
<1>9. CASE RefreshForStart /\ StillOn(op.scope, op.gen)
  <2>1. ResolveTask(op.turn) /\ op' = [op EXCEPT !.pc = "announce"] /\ UNCHANGED captureVars /\ toPi' = toPi
    BY <1>9 DEF RefreshForStart
  <2>2. sTask' \in Task /\ sTaskGen' \in Nat  BY <1>6, <2>1, TreeAssumption DEF ResolveTask, SessionInv
  <2>3. SessionInv'  BY <1>1, <2>2 DEF SessionInv
  <2>4. /\ op'.pc = "announce" /\ DOMAIN op' = {"pc", "turn", "scope", "gen"}
        /\ op'.turn = op.turn /\ op'.scope = op.scope /\ op'.gen = op.gen
    BY <1>6, <2>1
  <2>5. Fits(o.turn, o.scope)'  BY <1>1, <1>6, <1>7 DEF Fits
  <2>6. OpInv'  BY <1>6, <1>7, <2>4, <2>5 DEF OpInv, Fits
  <2>7. EventsInv' /\ FinishedInv'  BY <1>2, <2>1, EventsStay, FinishedStays DEF captureVars
  <2>8. EpisodeInv'
    <3>1. UNCHANGED <<episode, contexts, settling>>  BY <1>1, <2>1 DEF captureVars
    <3>2. episode # 0 => contexts[episode] # None  BY <1>1 DEF EpisodeInv
    <3> QED  BY <1>2, <3>1, <3>2, Callbacks DEF EpisodeInv, Fits, Grows
  <2> QED  BY <1>3, <1>4, <1>5, <2>3, <2>6, <2>7, <2>8
<1>10. CASE RefreshForStart /\ ~StillOn(op.scope, op.gen)
  <2>1. Capture(o) /\ UNCHANGED <<sTask, sTaskGen, toPi>>  BY <1>7, <1>10 DEF RefreshForStart
  <2>2. SessionInv'  BY <1>1, <2>1 DEF SessionInv
  <2>3. EventsInv'  BY <1>2, <2>1, EventsStay
  <2> QED  BY <1>3, <1>4, <1>5, <1>8, <2>1, <2>2, <2>3
<1>11. CASE AnnounceForStart
  <2>1. Capture(o) /\ Announce /\ UNCHANGED <<sTask, sTaskGen>>  BY <1>7, <1>11 DEF AnnounceForStart
  <2>2. SessionInv'  BY <1>1, <2>1 DEF SessionInv
  <2>3. EventsInv'  BY <1>2, <2>1, Announced
  <2> QED  BY <1>3, <1>4, <1>5, <1>8, <2>1, <2>2, <2>3
<1> QED  BY <1>9, <1>10, <1>11

LEMMA BindContextStep == ASSUME SessionIInv, BindContext PROVE SessionIInv'
<1> USE DEF SessionIInv, BindContext, opUnchanged, history, turnVars, adapterVars
<1>1. Grows  BY SameGrows
<1>2. AdapterInv' /\ ShownInv' /\ PipeInv'  BY <1>1, Frame
<1>3. ~Over /\ OverInv' /\ QueueInv' /\ SettlingInv'  BY <1>1, Working
<1>4. FinishedInv' /\ MemoryInv' /\ EventsInv'  BY <1>1, FinishedStays, MemoryStays, EventsStay
<1>5. SessionInv' /\ sTaskGen \in Nat  BY DEF SessionInv
<1>6. op'.pc = "idle"  BY DEF Idle
<1>7. OpInv'  BY <1>6 DEF OpInv
<1>8. PICK t \in Turn : t = op.turn  BY DEF OpInv
<1>9. PICK c : c = [branch |-> op.branch, task |-> op.task, gen |-> op.gen, taskGen |-> sTaskGen]  OBVIOUS
<1>10. c \in Context /\ c.branch = op.branch  BY <1>5, <1>9 DEF OpInv, Context
<1>11. c # None  BY <1>10, Somethings
<1>12. Fits(t, c.branch)  BY <1>8, <1>10 DEF OpInv
<1>13. contexts' = [contexts EXCEPT ![t] = c] /\ contexts \in [Turn -> Context \cup {None}]  BY <1>8, <1>9 DEF EpisodeInv
<1>14. contexts'[t] = c /\ \A n \in Turn \ {t} : contexts'[n] = contexts[n]  BY <1>13
<1>15. contexts' \in [Turn -> Context \cup {None}]  BY <1>10, <1>13
<1>16. ASSUME NEW n \in Turn, contexts'[n] # None PROVE Fits(n, contexts[n].branch)'
  <2>1. CASE n = t
    <3>1. Fits(t, c.branch)'  BY <1>1, <1>12, FitsStays
    <3> QED  BY <1>14, <2>1, <3>1 DEF Fits
  <2>2. CASE n # t  BY <1>14, <1>16, <2>2 DEF EpisodeInv, Fits
  <2> QED  BY <2>1, <2>2
<1>17. episode # 0 => contexts'[episode] # None
  <2>1. episode # 0 => contexts[episode] # None \/ t = episode  BY <1>8 DEF EpisodeInv
  <2>2. episode # 0 => episode \in Turn  BY Callbacks DEF EpisodeInv
  <2> QED  BY <1>11, <1>14, <2>1, <2>2
<1>18. EpisodeInv'  BY <1>15, <1>16, <1>17 DEF EpisodeInv
<1> QED  BY <1>2, <1>3, <1>4, <1>5, <1>7, <1>18

-----------------------------------------------------------------------------
(* Settlements and closings                                                   *)

\* A settlement goes on, or a closing that is past the chain.
LEMMA GoesOn ==
    ASSUME SessionIInv, Grows, NEW t \in Callback, NEW s, GoOn(t, s), StageFine(t, s)', ~present => ~present',
           UNCHANGED <<queue, closed, op>>, Over \/ (t \in Turn /\ UNCHANGED present)
    PROVE  /\ SettlingInv' /\ OverInv' /\ QueueInv'
           /\ settling'[t] = s /\ \A q \in Callback \ {t} : settling'[q] = settling[q]
           /\ s.pc # "handOver" /\ UNCHANGED <<episode, contexts>> => EpisodeInv'
<1> USE DEF SessionIInv
<1>1. settling' = [settling EXCEPT ![t] = s] /\ DOMAIN settling = Callback  BY DEF GoOn, SettlingInv
<1>2. settling'[t] = s /\ \A q \in Callback \ {t} : settling'[q] = settling[q]  BY <1>1
<1>3. SettlingInv'
  <2>1. ASSUME NEW q \in Callback PROVE StageFine(q, settling[q])'
    <3>1. PICK r : r = settling'[q]  OBVIOUS
    <3>2. StageFine(q, r)'
      <4>1. CASE q = t  BY <1>2, <3>1, <4>1
      <4>2. CASE q # t
        <5>1. StageFine(q, r)  BY <1>2, <3>1, <4>2 DEF SettlingInv
        <5> QED  BY <5>1, StageStays
      <4> QED  BY <4>1, <4>2
    <3> QED  BY <3>1, <3>2 DEF StageFine, Fitting, Fits
  <2> QED  BY <1>1, <2>1 DEF SettlingInv
<1>4. OverInv'
  <2>1. CASE Over  BY <2>1 DEF OverInv, IsEnd
  <2>2. CASE ~Over
    <3>1. \A c \in Closing : settling'[c] = settling[c]  BY <1>2, <2>2, Callbacks
    <3> QED  BY <2>2, <3>1 DEF OverInv, Over
  <2> QED  BY <2>1, <2>2
<1>5. QueueInv'  BY QueueStays
<1>6. ASSUME s.pc # "handOver", UNCHANGED <<episode, contexts>> PROVE EpisodeInv'
  <2>1. \A c \in Closing : settling'[c].pc = "handOver" => settling'[c] = settling[c]  BY <1>2, <1>6, Callbacks
  <2>2. \A n \in Turn : contexts[n] # None => Fits(n, contexts[n].branch)'
    BY <1>6, Callbacks DEF EpisodeInv, Fits, Grows
  <2> QED  BY <1>6, <2>1, <2>2 DEF EpisodeInv, Fits
<1> QED  BY <1>2, <1>3, <1>4, <1>5, <1>6

LEMMA AfterDrainFine == ASSUME NEW t \in Callback PROVE StageFine(t, AfterDrain(t))' /\ AfterDrain(t).pc # "handOver"
<1>1. PICK s : s = AfterDrain(t)  OBVIOUS
<1>2. (t \in Closing /\ s.pc = "delete") \/ s.pc = "idle"  BY <1>1 DEF AfterDrain, Idle
<1> QED  BY <1>1, <1>2 DEF StageFine

\* What is taken to be reduced, and what stays, is finished turns.
LEMMA TakesTurns ==
    ASSUME SessionIInv, Grows, NEW t \in Callback, NEW turns \in Seq(Item), TakeTurns(t, turns),
           \A i \in DOMAIN turns : Fitting(turns[i])', UNCHANGED <<present, queue, closed, op>>, Over \/ t \in Turn
    PROVE  /\ FinishedInv' /\ SettlingInv' /\ OverInv' /\ QueueInv'
           /\ settling'[t].pc # "handOver" /\ \A q \in Callback \ {t} : settling'[q] = settling[q]
           /\ UNCHANGED <<episode, contexts>> => EpisodeInv'
<1>1. CASE present /\ turns # <<>>
  <2>1. PICK s : s = [pc |-> "reduce", todo |-> turns]  OBVIOUS
  <2>2. GoOn(t, s) /\ finished' = <<>> /\ s.pc = "reduce" /\ s.todo = turns  BY <1>1, <2>1 DEF TakeTurns
  <2>3. StageFine(t, s)'  BY <1>1, <2>2 DEF StageFine, Fitting, Fits
  <2>4. FinishedInv'  BY <2>2, EmptySeq DEF FinishedInv
  <2> QED  BY <2>2, <2>3, <2>4, GoesOn
<1>2. CASE ~(present /\ turns # <<>>)
  <2>1. PICK s : s = AfterDrain(t)  OBVIOUS
  <2>2. GoOn(t, s) /\ finished' = turns  BY <1>2, <2>1 DEF TakeTurns
  <2>3. StageFine(t, s)' /\ s.pc # "handOver"  BY <2>1, AfterDrainFine
  <2>4. FinishedInv'  BY <2>2 DEF FinishedInv, Fitting, Fits
  <2> QED  BY <2>2, <2>3, <2>4, GoesOn
<1> QED  BY <1>1, <1>2

LEMMA TakesFinished ==
    ASSUME SessionIInv, Grows, NEW t \in Callback, TakeFinishedTurns(t),
           UNCHANGED <<present, queue, closed, op, episode, contexts>>, Over \/ t \in Turn
    PROVE  FinishedInv' /\ SettlingInv' /\ OverInv' /\ QueueInv' /\ EpisodeInv'
<1> USE DEF SessionIInv
<1>1. PICK turns \in Seq(Item) : turns = finished  BY DEF FinishedInv
<1>2. TakeTurns(t, turns)  BY <1>1 DEF TakeFinishedTurns
<1>3. ASSUME NEW i \in DOMAIN turns PROVE Fitting(turns[i])'
  <2>1. PICK x \in Item : x = turns[i]  BY ElementOfSeq, LenProperties
  <2>2. x.turn \in Turn /\ Fits(x.turn, x.ctx.branch)  BY <1>1, <2>1 DEF FinishedInv, Item, Fitting
  <2>3. Fits(x.turn, x.ctx.branch)'  BY <2>2, FitsStays
  <2> QED  BY <2>1, <2>3 DEF Fitting, Fits
<1> QED  BY <1>2, <1>3, TakesTurns

LEMMA RefreshForSettleStep == ASSUME SessionIInv, NEW t \in Callback, RefreshForSettle(t) PROVE SessionIInv'
<1> USE DEF SessionIInv, RefreshForSettle, settleKept, settleUnchanged, turnVars, adapterVars
<1>1. Grows  BY SameGrows
<1>2. AdapterInv' /\ ShownInv' /\ PipeInv'  BY <1>1, Frame
<1>3. EventsInv' /\ OpInv' /\ MemoryInv'  BY <1>1, EventsStay, OpStays, MemoryStays
<1>4. t \in Turn  BY DEF SettlingInv, StageFine
<1>5. CASE present /\ StillOn(settling[t].branch, settling[t].gen)
  <2>1. PICK s : s = [pc |-> "announce"]  OBVIOUS
  <2>2. ResolveTask(t) /\ GoOn(t, s) /\ UNCHANGED finished /\ s.pc = "announce"  BY <1>5, <2>1
  <2>3. StageFine(t, s)'  BY <1>4, <2>2 DEF StageFine
  <2>4. SettlingInv' /\ OverInv' /\ QueueInv' /\ EpisodeInv'  BY <1>1, <1>4, <2>2, <2>3, GoesOn
  <2>5. FinishedInv'  BY <1>1, <2>2, FinishedStays
  <2>6. SessionInv'  BY <1>4, <2>2, TreeAssumption DEF SessionInv, ResolveTask
  <2> QED  BY <1>2, <1>3, <2>4, <2>5, <2>6
<1>6. CASE ~(present /\ StillOn(settling[t].branch, settling[t].gen))
  <2>1. TakeFinishedTurns(t) /\ UNCHANGED <<sTask, sTaskGen>>  BY <1>6
  <2>2. FinishedInv' /\ SettlingInv' /\ OverInv' /\ QueueInv' /\ EpisodeInv'  BY <1>1, <1>4, <2>1, TakesFinished
  <2>3. SessionInv'  BY <2>1 DEF SessionInv
  <2> QED  BY <1>2, <1>3, <2>2, <2>3
<1> QED  BY <1>5, <1>6

LEMMA AnnounceForSettleStep == ASSUME SessionIInv, NEW t \in Callback, AnnounceForSettle(t) PROVE SessionIInv'
<1> USE DEF SessionIInv, AnnounceForSettle, settleKept, settleUnchanged, turnVars, adapterVars
<1>1. Grows  BY SameGrows
<1>2. AdapterInv' /\ ShownInv' /\ PipeInv'  BY <1>1, Frame
<1>3. EventsInv' /\ OpInv' /\ MemoryInv'  BY <1>1, Announced, OpStays, MemoryStays
<1>4. t \in Turn  BY DEF SettlingInv, StageFine
<1>5. FinishedInv' /\ SettlingInv' /\ OverInv' /\ QueueInv' /\ EpisodeInv'  BY <1>1, <1>4, TakesFinished
<1>6. SessionInv'  BY DEF SessionInv
<1> QED  BY <1>2, <1>3, <1>5, <1>6

\* The turn at the head is one of the branch it is reduced into.
LEMMA ReduceTurnStep == ASSUME SessionIInv, NEW t \in Callback, ReduceTurn(t) PROVE SessionIInv'
<1> USE DEF SessionIInv, settleKept, settleUnchanged, turnVars, adapterVars
<1>1. PICK todo \in Seq(Item) : todo = settling[t].todo /\ todo # <<>> /\ \A i \in DOMAIN todo : Fitting(todo[i])
  BY DEF ReduceTurn, SettlingInv, StageFine
<1>2. PICK u \in Item : u = Head(todo) /\ u = todo[1] /\ 1 \in DOMAIN todo  BY <1>1, Shorter
<1>3. PICK b \in Branch, n \in Turn : b = u.ctx.branch /\ n = u.turn  BY DEF Item, Context
<1>4. Fits(n, b)  BY <1>1, <1>2, <1>3 DEF Fitting
<1>5. PICK rest : rest = Tail(todo)  OBVIOUS
<1>6. /\ Reduce(b, {n}) /\ GoOn(t, IF rest = <<>> THEN AfterDrain(t) ELSE [pc |-> "reduce", todo |-> rest])
      /\ \/ Publish(b, Reduced(b, {n})) /\ UNCHANGED overtaken
         \/ overtaken' = overtaken \cup {b} /\ UNCHANGED toPi
      /\ UNCHANGED settleKept /\ UNCHANGED <<sTask, sTaskGen, finished>>
      /\ settling[t].pc = "reduce"
  BY <1>1, <1>2, <1>3, <1>5 DEF ReduceTurn
<1>7. {n} \subseteq 1 .. turn  BY <1>4, Callbacks DEF Fits, AdapterInv
<1>8. Grows /\ MemoryInv' /\ mem'[b] = Reduced(b, {n}) /\ Reduced(b, {n}) \in Memory
  BY <1>4, <1>6, <1>7, Reduces
<1>9. AdapterInv' /\ ShownInv' /\ PipeInv'  BY <1>6, <1>8, Frame
<1>10. OpInv' /\ FinishedInv'  BY <1>6, <1>8, OpStays, FinishedStays
<1>11. SessionInv'  BY <1>6 DEF SessionInv
<1>12. EventsInv'
  <2>1. PICK m \in Memory : m = Reduced(b, {n})  BY <1>8
  <2>2. sGen \in Nat  BY Callbacks DEF PipeInv
  <2>3. CASE Publish(b, Reduced(b, {n}))  BY <1>8, <2>1, <2>2, <2>3, Published
  <2>4. CASE UNCHANGED toPi  BY <1>8, <2>4, EventsStay
  <2> QED  BY <1>6, <2>3, <2>4
<1>13. PICK s : s = IF rest = <<>> THEN AfterDrain(t) ELSE [pc |-> "reduce", todo |-> rest]  OBVIOUS
<1>14. StageFine(t, s)' /\ s.pc # "handOver"
  <2>1. CASE rest = <<>>  BY <1>13, <2>1, AfterDrainFine
  <2>2. CASE rest # <<>>
    <3>1. s.pc = "reduce" /\ s.todo = rest  BY <1>13, <2>2
    <3>2. rest \in Seq(Item) /\ \A i \in DOMAIN rest : i + 1 \in DOMAIN todo /\ rest[i] = todo[i + 1]
      BY <1>1, <1>5, Shorter
    <3>3. ASSUME NEW i \in DOMAIN rest PROVE Fitting(rest[i])'
      <4>1. PICK x \in Item : x = rest[i]  BY <3>2, ElementOfSeq, LenProperties
      <4>2. x.turn \in Turn /\ Fits(x.turn, x.ctx.branch)  BY <1>1, <3>2, <4>1 DEF Item, Fitting
      <4>3. Fits(x.turn, x.ctx.branch)'  BY <1>8, <4>2, FitsStays
      <4> QED  BY <4>1, <4>3 DEF Fitting, Fits
    <3> QED  BY <2>2, <3>1, <3>2, <3>3 DEF StageFine, Fitting, Fits
  <2> QED  BY <2>1, <2>2
<1>15. Over \/ t \in Turn
  <2>1. t \in Closing => settling[t].pc # "idle"  BY <1>6
  <2> QED  BY <2>1, Callbacks DEF Over
<1>16. SettlingInv' /\ OverInv' /\ QueueInv' /\ EpisodeInv'  BY <1>6, <1>8, <1>13, <1>14, <1>15, GoesOn
<1> QED  BY <1>8, <1>9, <1>10, <1>11, <1>12, <1>16

\* What every step of a closing leaves as it is
LEMMA CloseFrame ==
    ASSUME SessionIInv, NEW c \in Closing, Close(c)
    PROVE  /\ Grows /\ AdapterInv' /\ ShownInv' /\ PipeInv' /\ EventsInv' /\ OpInv' /\ MemoryInv'
           /\ (exited' \in BOOLEAN /\ present' \in BOOLEAN /\ overrun' \in BOOLEAN => SessionInv')
           /\ (settling[c].pc # "idle" => Over)
           /\ c \in Callback /\ UNCHANGED <<queue, closed, op>>
<1> USE DEF SessionIInv, Close, settleUnchanged, turnVars, adapterVars
<1>1. Grows  BY SameGrows
<1>2. AdapterInv' /\ ShownInv' /\ PipeInv'  BY <1>1, Frame
<1>3. EventsInv' /\ OpInv' /\ MemoryInv'  BY <1>1, EventsStay, OpStays, MemoryStays
<1>4. exited' \in BOOLEAN /\ present' \in BOOLEAN /\ overrun' \in BOOLEAN => SessionInv'  BY DEF SessionInv
<1>5. c \in Callback /\ (settling[c].pc # "idle" => Over)  BY Callbacks DEF Over
<1> QED  BY <1>1, <1>2, <1>3, <1>4, <1>5

\* The turn at hand is no longer recorded once it is on its way to the others.
LEMMA EndEpisodeStep == ASSUME SessionIInv, NEW c \in Closing, Close(c), EndEpisode(c) PROVE SessionIInv'
<1> USE DEF SessionIInv, EndEpisode
<1>1. /\ Grows /\ AdapterInv' /\ ShownInv' /\ PipeInv' /\ EventsInv' /\ OpInv' /\ MemoryInv'
      /\ Over /\ c \in Callback /\ UNCHANGED <<queue, closed, op>>
  BY CloseFrame
<1>2. SessionInv'  BY CloseFrame DEF SessionInv
<1>3. FinishedInv'  BY <1>1, FinishedStays
<1>4. PICK r : r = settling[c]  OBVIOUS
<1>5. /\ r.pc = "append" /\ DOMAIN r = {"pc", "turn", "ctx"}
      /\ r.turn \in Turn /\ r.ctx \in Context /\ Fits(r.turn, r.ctx.branch)
  BY <1>1, <1>4 DEF SettlingInv, StageFine, Fitting
<1>6. PICK s : s = [r EXCEPT !.pc = "handOver"]  OBVIOUS
<1>7. /\ s.pc = "handOver" /\ DOMAIN s = {"pc", "turn", "ctx"} /\ s.turn = r.turn /\ s.ctx = r.ctx
      /\ GoOn(c, s)
  BY <1>4, <1>5, <1>6
<1>8. Fits(r.turn, r.ctx.branch)'  BY <1>1, <1>5, FitsStays
<1>9. StageFine(c, s)'  BY <1>5, <1>7, <1>8 DEF StageFine, Fitting, Fits
<1>10. /\ SettlingInv' /\ OverInv' /\ QueueInv'
       /\ settling'[c] = s /\ \A q \in Callback \ {c} : settling'[q] = settling[q]
  BY <1>1, <1>7, <1>9, GoesOn
<1>11. EpisodeInv'
  <2>1. episode' = (IF episode = r.turn THEN 0 ELSE episode) /\ contexts' = contexts /\ op' = op
    BY <1>1, <1>4
  <2>2. episode' \in 0 .. MaxTurns /\ contexts' \in [Turn -> Context \cup {None}]
    BY <2>1, Callbacks DEF EpisodeInv
  <2>3. \A n \in Turn : contexts[n] # None => Fits(n, contexts[n].branch)'
    BY <1>1, <2>1, Callbacks DEF EpisodeInv, Fits, Grows
  <2>4. episode' # 0 => episode' = episode /\ episode' # r.turn  BY <2>1
  <2>5. ASSUME NEW d \in Closing, settling'[d].pc = "handOver" PROVE episode' # settling'[d].turn
    <3>1. CASE d = c  BY <1>5, <1>7, <1>10, <2>1, <3>1, Callbacks
    <3>2. CASE d # c
      <4>1. settling'[d] = settling[d] /\ StageFine(d, settling[d])
        BY <1>10, <3>2, Callbacks DEF SettlingInv
      <4>2. settling[d].turn \in Turn  BY <2>5, <4>1 DEF StageFine
      <4>3. episode # settling[d].turn  BY <2>5, <4>1 DEF EpisodeInv
      <4> QED  BY <2>1, <4>1, <4>2, <4>3, Callbacks
    <3> QED  BY <3>1, <3>2
  <2>6. episode' # 0 => contexts'[episode'] # None \/ (op'.pc = "bind" /\ op'.turn = episode')
    BY <2>1, <2>4 DEF EpisodeInv
  <2> QED  BY <2>1, <2>2, <2>3, <2>5, <2>6 DEF EpisodeInv, Fits
<1> QED  BY <1>1, <1>2, <1>3, <1>10, <1>11

LEMMA HandOverStep == ASSUME SessionIInv, NEW c \in Closing, Close(c), HandOver(c) PROVE SessionIInv'
<1> USE DEF SessionIInv, HandOver
<1>1. /\ Grows /\ AdapterInv' /\ ShownInv' /\ PipeInv' /\ EventsInv' /\ OpInv' /\ MemoryInv'
      /\ Over /\ c \in Callback /\ UNCHANGED <<queue, closed, op>>
  BY CloseFrame
<1>2. SessionInv'  BY CloseFrame DEF SessionInv
<1>3. PICK r : r = settling[c]  OBVIOUS
<1>4. r.pc = "handOver" /\ r.turn \in Turn /\ r.ctx \in Context /\ Fits(r.turn, r.ctx.branch)
  BY <1>1, <1>3 DEF SettlingInv, StageFine, Fitting
<1>5. PICK u : u = [turn |-> r.turn, ctx |-> r.ctx]  OBVIOUS
<1>6. u \in Item /\ u.turn = r.turn /\ u.ctx = r.ctx  BY <1>4, <1>5 DEF Item
<1>7. Fits(u.turn, u.ctx.branch)'  BY <1>1, <1>4, <1>6, FitsStays
<1>8. PICK fin \in Seq(Item) : fin = finished  BY DEF FinishedInv
<1>9. PICK turns : turns = Append(fin, u)  OBVIOUS
<1>10. /\ turns \in Seq(Item) /\ \A i \in DOMAIN fin : turns[i] = fin[i]
       /\ \A i \in DOMAIN turns \ DOMAIN fin : turns[i] = u
  BY <1>6, <1>9, Longer
<1>11. TakeTurns(c, turns)  BY <1>3, <1>5, <1>8, <1>9
<1>12. ASSUME NEW i \in DOMAIN turns PROVE Fitting(turns[i])'
  <2>1. CASE i \in DOMAIN fin
    <3>1. PICK x \in Item : x = fin[i]  BY <2>1, ElementOfSeq, LenProperties
    <3>2. x.turn \in Turn /\ Fits(x.turn, x.ctx.branch)  BY <1>8, <2>1, <3>1 DEF FinishedInv, Item, Fitting
    <3>3. Fits(x.turn, x.ctx.branch)'  BY <1>1, <3>2, FitsStays
    <3> QED  BY <1>10, <2>1, <3>1, <3>3 DEF Fitting, Fits
  <2>2. CASE i \notin DOMAIN fin  BY <1>7, <1>10, <2>2 DEF Fitting, Fits
  <2> QED  BY <2>1, <2>2
<1>13. /\ FinishedInv' /\ SettlingInv' /\ OverInv' /\ QueueInv'
       /\ settling'[c].pc # "handOver" /\ \A q \in Callback \ {c} : settling'[q] = settling[q]
  BY <1>1, <1>10, <1>11, <1>12, TakesTurns
<1>14. EpisodeInv'
  <2>1. contexts' = [contexts EXCEPT ![r.turn] = None] /\ episode' = episode /\ op' = op
        /\ contexts \in [Turn -> Context \cup {None}]
    BY <1>1, <1>3 DEF EpisodeInv
  <2>2. contexts' \in [Turn -> Context \cup {None}]  BY <1>4, <2>1
  <2>3. \A n \in Turn : contexts'[n] # None => contexts'[n] = contexts[n]  BY <1>4, <2>1
  <2>4. ASSUME NEW n \in Turn, contexts'[n] # None PROVE Fits(n, contexts[n].branch)'
    <3>1. contexts'[n] = contexts[n] /\ Fits(n, contexts[n].branch)  BY <2>3, <2>4 DEF EpisodeInv
    <3> QED  BY <1>1, <3>1, Callbacks DEF Fits, Grows
  <2>5. episode # r.turn  BY <1>3, <1>4 DEF EpisodeInv
  <2>6. episode # 0 => contexts'[episode] = contexts[episode]
    BY <1>4, <2>1, <2>5, Callbacks DEF EpisodeInv
  <2>7. \A d \in Closing : settling'[d].pc = "handOver" => settling'[d] = settling[d]  BY <1>13, Callbacks
  <2> QED  BY <2>1, <2>2, <2>4, <2>6, <2>7 DEF EpisodeInv, Fits
<1> QED  BY <1>1, <1>2, <1>13, <1>14

LEMMA DrainForCloseStep == ASSUME SessionIInv, NEW c \in Closing, Close(c), DrainForClose(c) PROVE SessionIInv'
<1> USE DEF SessionIInv, DrainForClose
<1>1. /\ Grows /\ AdapterInv' /\ ShownInv' /\ PipeInv' /\ EventsInv' /\ OpInv' /\ MemoryInv'
      /\ Over /\ c \in Callback /\ UNCHANGED <<queue, closed, op>>
  BY CloseFrame
<1>2. SessionInv'  BY CloseFrame DEF SessionInv
<1>3. FinishedInv' /\ SettlingInv' /\ OverInv' /\ QueueInv' /\ EpisodeInv'  BY <1>1, TakesFinished
<1> QED  BY <1>1, <1>2, <1>3

LEMMA DeleteSessionStep == ASSUME SessionIInv, NEW c \in Closing, Close(c), DeleteSession(c) PROVE SessionIInv'
<1> USE DEF SessionIInv, DeleteSession
<1>1. /\ Grows /\ AdapterInv' /\ ShownInv' /\ PipeInv' /\ EventsInv' /\ OpInv' /\ MemoryInv'
      /\ Over /\ c \in Callback /\ UNCHANGED <<queue, closed, op>>
  BY CloseFrame
<1>2. exited' \in BOOLEAN /\ present' \in BOOLEAN /\ overrun' \in BOOLEAN  BY DEF SessionInv
<1>3. SessionInv'  BY <1>2, CloseFrame
<1>4. PICK s : s = IF c = ByShutdown THEN [pc |-> "exit"] ELSE Idle  OBVIOUS
<1>5. s.pc \in {"exit", "idle"} /\ GoOn(c, s)  BY <1>4 DEF Idle
<1>6. StageFine(c, s)'  BY <1>5 DEF StageFine
<1>7. SettlingInv' /\ OverInv' /\ QueueInv' /\ EpisodeInv'  BY <1>1, <1>5, <1>6, GoesOn
<1>8. FinishedInv'  BY <1>1, FinishedStays
<1> QED  BY <1>1, <1>3, <1>7, <1>8

LEMMA ExitStep == ASSUME SessionIInv, NEW c \in Closing, Close(c), Exit(c) PROVE SessionIInv'
<1> USE DEF SessionIInv, Exit
<1>1. /\ Grows /\ AdapterInv' /\ ShownInv' /\ PipeInv' /\ EventsInv' /\ OpInv' /\ MemoryInv'
      /\ Over /\ c \in Callback /\ UNCHANGED <<queue, closed, op>>
  BY CloseFrame
<1>2. exited' \in BOOLEAN /\ present' \in BOOLEAN /\ overrun' \in BOOLEAN  BY DEF SessionInv
<1>3. SessionInv'  BY <1>2, CloseFrame
<1>4. DOMAIN settling' = Callback /\ \A p \in Callback : settling'[p].pc = "idle"  BY DEF Idle
<1>5. SettlingInv'  BY <1>4 DEF SettlingInv, StageFine
<1>6. OverInv'  BY <1>1 DEF OverInv, IsEnd
<1>7. QueueInv' /\ FinishedInv'  BY <1>1, QueueStays, FinishedStays
<1>8. EpisodeInv'
  <2>1. \A d \in Closing : settling'[d].pc # "handOver"  BY <1>4, Callbacks
  <2> QED  BY <1>1, <2>1, Callbacks DEF EpisodeInv, Fits, Grows
<1> QED  BY <1>1, <1>3, <1>5, <1>6, <1>7, <1>8

-----------------------------------------------------------------------------
(* A recall notes memories on a branch and adds no turn to it.                *)

LEMMA RecallStep == ASSUME SessionIInv, Recall PROVE SessionIInv'
<1> USE DEF SessionIInv, recallUnchanged, turnVars, adapterVars, history, scopeVars, captureVars
<1>1. UNCHANGED recallUnchanged  BY DEF Recall, RecallFound, RecordRecalledMemory
<1>2. SessionInv'  BY <1>1 DEF Recall, RecallFound, RecordRecalledMemory, SessionInv, Idle
<1>3. Grows /\ MemoryInv' /\ EventsInv'
  <2>1. CASE RecallFound
    <3>1. Grows  BY <1>1, <2>1, SameGrows DEF RecallFound
    <3> QED  BY <2>1, <3>1, MemoryStays, EventsStay DEF RecallFound
  <2>2. CASE RecordRecalledMemory
    <3>1. PICK b \in Branch : b = recall.branch  BY <2>2 DEF RecordRecalledMemory, SessionInv
    <3>2. Reduce(b, {}) /\ Publish(b, Reduced(b, {}))  BY <2>2, <3>1 DEF RecordRecalledMemory
    <3>3. Grows /\ MemoryInv' /\ mem'[b] = Reduced(b, {}) /\ Reduced(b, {}) \in Memory
      BY <1>1, <3>2, Reduces
    <3>4. PICK m \in Memory : m = Reduced(b, {})  BY <3>3
    <3>5. EventsInv'  BY <3>2, <3>3, <3>4, Published, Callbacks DEF PipeInv
    <3> QED  BY <3>3, <3>5
  <2> QED  BY <2>1, <2>2 DEF Recall
<1>4. AdapterInv' /\ ShownInv' /\ PipeInv'  BY <1>1, <1>3, Frame
<1>5. QueueInv' /\ OverInv' /\ OpInv' /\ EpisodeInv'  BY <1>1, <1>3, QueueStays, OverStays, OpStays, EpisodeStays
<1>6. FinishedInv' /\ SettlingInv'  BY <1>1, <1>3, FinishedStays, SettlingStays
<1> QED  BY <1>2, <1>3, <1>4, <1>5, <1>6

-----------------------------------------------------------------------------
(* The session as a whole                                                     *)

LEMMA AdapterStep == ASSUME SessionIInv, Adapter PROVE SessionIInv'
<1>1. CASE \E b \in Branch : SessionTree(b)  BY <1>1, SessionTreeStep
<1>2. CASE BeforeAgentStart  BY <1>2, BeforeAgentStartStep
<1>3. CASE Steer
  <2>1. PICK m : m = [method |-> "steer"]  OBVIOUS
  <2>2. m \in Message /\ m.method = "steer" /\ Tell(m)  BY <1>3, <2>1 DEF Message, Steer
  <2>3. running /\ running' = running /\ running \in BOOLEAN  BY <1>3 DEF Steer, SessionIInv, AdapterInv
  <2> QED  BY <1>3, <2>2, <2>3, TellStep DEF Steer
<1>4. CASE CallTool
  <2>1. PICK m : m = [method |-> "recall"]  OBVIOUS
  <2>2. m \in Message /\ m.method = "recall" /\ Tell(m)  BY <1>4, <2>1 DEF Message, CallTool
  <2>3. running /\ running' = running /\ running \in BOOLEAN  BY <1>4 DEF CallTool, SessionIInv, AdapterInv
  <2> QED  BY <1>4, <2>2, <2>3, TellStep DEF CallTool
<1>5. CASE AgentSettled
  <2>1. PICK m : m = [method |-> "settled", turn |-> turn]  OBVIOUS
  <2>2. turn \in Turn  BY <1>5, Callbacks DEF AgentSettled, SessionIInv, AdapterInv
  <2>3. m \in Message /\ m.method = "settled" /\ Tell(m)  BY <1>5, <2>1, <2>2 DEF Message, AgentSettled
  <2> QED  BY <1>5, <2>3, TellStep DEF AgentSettled
<1>6. CASE SessionShutdown  BY <1>6, SessionShutdownStep
<1> QED  BY <1>1, <1>2, <1>3, <1>4, <1>5, <1>6 DEF Adapter

LEMMA OperationStep == ASSUME SessionIInv, Operation PROVE SessionIInv'
BY BeginOperationStep, LoadBranchStep, CreateBranchStep, StartSteps, BindContextStep DEF Operation

LEMMA SettleStep == ASSUME SessionIInv, NEW t \in Callback, Settle(t) PROVE SessionIInv'
BY RefreshForSettleStep, AnnounceForSettleStep, ReduceTurnStep DEF Settle

LEMMA CloseStep == ASSUME SessionIInv, NEW c \in Closing, Close(c) PROVE SessionIInv'
<1>1. EndEpisode(c) \/ HandOver(c) \/ DrainForClose(c) \/ DeleteSession(c) \/ Exit(c)  BY DEF Close
<1> QED  BY <1>1, EndEpisodeStep, HandOverStep, DrainForCloseStep, DeleteSessionStep, ExitStep

LEMMA SessionIdles == ASSUME SessionIInv, UNCHANGED vars PROVE SessionIInv'
<1> USE DEF SessionIInv, vars, adapterVars, pipes, scopeVars, captureVars, workVars, history, turnVars
<1>1. Grows  BY SameGrows
<1>2. AdapterInv' /\ ShownInv' /\ PipeInv'  BY <1>1, Frame
<1>3. SessionInv' /\ QueueInv' /\ OverInv' /\ OpInv' /\ EpisodeInv' /\ FinishedInv' /\ SettlingInv' /\ MemoryInv'
  BY <1>1, SidecarStays
<1>4. EventsInv'  BY <1>1, EventsStay
<1> QED  BY <1>2, <1>3, <1>4

LEMMA SessionNextStep == SessionIInv /\ [Next]_vars => SessionIInv'
<1> SUFFICES ASSUME SessionIInv, [Next]_vars PROVE SessionIInv'  OBVIOUS
<1>1. CASE Adapter  BY <1>1, AdapterStep
<1>2. CASE HandleEvent  BY <1>2, HandleEventStep
<1>3. CASE Receive  BY <1>3, ReceiveStep
<1>4. CASE Operation  BY <1>4, OperationStep
<1>5. CASE Recall  BY <1>5, RecallStep
<1>6. CASE \E p \in Callback : Settle(p)  BY <1>6, SettleStep
<1>7. CASE \E c \in Closing : Close(c)  BY <1>7, CloseStep
<1>8. CASE UNCHANGED vars  BY <1>8, SessionIdles
<1> QED  BY <1>1, <1>2, <1>3, <1>4, <1>5, <1>6, <1>7, <1>8 DEF Next

LEMMA SessionImplies == SessionIInv => ContextIsRight
<1> SUFFICES ASSUME SessionIInv PROVE ContextIsRight  OBVIOUS
<1> USE DEF SessionIInv
<1>1. TypeOK
  <2>1. branch \in Branch /\ gen \in 0 .. MaxGen /\ scope \in Branch /\ turn \in 0 .. MaxTurns
        /\ misled \subseteq Turn
    BY DEF AdapterInv
  <2>2. shown = None \/ shown \in [kind : {"active"}, branch : Branch, gen : Nat, rev : Nat, turns : SUBSET Turn]
    BY DEF ShownInv, ActiveContext
  <2>3. {running, left, closed, present, exited, overrun} \subseteq BOOLEAN
    BY DEF AdapterInv, PipeInv, SessionInv
  <2>4. sBranch \in Branch /\ sTask \in Task \cup {NoTask} /\ sGen \in 0 .. MaxGen + 2 /\ sTaskGen \in Nat
        /\ overtaken \subseteq Branch
    BY DEF SessionInv, PipeInv
  <2>5. episode \in 0 .. MaxTurns /\ contexts \in [Turn -> Context \cup {None}]  BY DEF EpisodeInv
  <2>6. finished \in Seq([turn : Turn, ctx : Context])  BY DEF FinishedInv, Item
  <2>7. mem \in [Branch -> Memory \cup {None}]  BY DEF MemoryInv
  <2> QED  BY <2>1, <2>2, <2>3, <2>4, <2>5, <2>6, <2>7 DEF TypeOK
<1>2. ASSUME shown # None
      PROVE  /\ shown.branch = branch /\ shown.gen = gen
             /\ \A t \in shown.turns \ misled : ranOn[t] = branch \/ t \in forked[branch]
  <2>1. /\ shown.branch = branch /\ shown.gen = gen /\ branch \in Branch
        /\ mem[branch] # None /\ shown.turns \subseteq mem[branch].turns
    BY <1>2 DEF ShownInv, Backed, AdapterInv
  <2>2. \A t \in mem[branch].turns : t \in forked[branch] \/ Fits(t, branch)  BY <2>1 DEF MemoryInv
  <2> QED  BY <2>1, <2>2 DEF Fits
<1> QED  BY <1>1, <1>2 DEF ContextIsRight, ContextIsOfItsBranch

\* A prompt is given the working memory of the branch it runs on, under the
\* generation Pi is in, and it holds turns of that branch and those it was forked
\* with, save turns begun under the scope of another branch: whatever branch
\* change, steering message, recall, settlement or shutdown comes in between
\* (before_agent_start and active-context.updated in index.ts, #drainFinishedTurns
\* and #publishActiveContext in sidecar-runtime.ts).
THEOREM ContextAlwaysRight == Spec => []ContextIsRight
<1>1. Init => SessionIInv  BY SessionStarts
<1>2. SessionIInv /\ [Next]_vars => SessionIInv'  BY SessionNextStep
<1>3. SessionIInv => ContextIsRight  BY SessionImplies
<1> QED  BY <1>1, <1>2, <1>3, PTL DEF Spec
=============================================================================
