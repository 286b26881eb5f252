-------------------------- MODULE SidecarLink_proofs --------------------------
(***************************************************************************)
(* What the link of the adapter to its Sidecar promises, for every number  *)
(* of branches, children, notifications and failures and every backlog.    *)
(*                                                                         *)
(* The argument is in layers, each inductive together with the ones above: *)
(*   LifeInv    which process runs, and what the client knows of it;       *)
(*   OpenInv    what is on its way: no notification before its session;    *)
(*   FlightInv  at most one request is unanswered, the latest one;         *)
(*   KeyInv     no key is of a branch the adapter has not reached yet;     *)
(*   SyncInv    how far the session of the child is behind the adapter.    *)
(*                                                                         *)
(* The second half is about the work of relationship learning, for every   *)
(* number of memories, candidates, attempts, crashes and failures. The     *)
(* third is about the settings, for any sessions, models and faults, the   *)
(* fourth about the context that sessions share, for any prompts.          *)
(***************************************************************************)
EXTENDS SidecarLink, RelationshipLearning, ProviderSettings, ContextState, SequenceTheorems, FiniteSetTheorems, TLAPS

IsRequest(m) == m.id # 0
\* What a pipe holds.
In(s) == {s[i] : i \in DOMAIN s}

LifeInv ==
    /\ desired \/ timer \/ run # "none" \/ child # NoChild => Started
    /\ phase # "closed" => alive = IF connected THEN {child} ELSE {}
    /\ phase = "closed" => /\ child = NoChild /\ run \in {"none", "failed"}
                           /\ \A a, b \in alive : a = b
    /\ connected => child # NoChild
    /\ child = NoChild => /\ ~ready /\ ~initialized /\ activeKey = NoKey
                          /\ run \in {"none", "begin", "failed"}
    /\ run = "begin" => child # NoChild \/ phase = "open"
    /\ timer => phase = "open"
    /\ alive = {} => toChild = <<>> /\ working = {} /\ sess = NoKey

\* A message that is on its way or being worked on.
Outstanding == working \cup In(toChild)
\* The answer to the latest request has arrived.
Arrived == {r \in In(toClient) : r.id = req}

OpenInv ==
    /\ \A m \in Outstanding : m.id =< req /\ (m.kind = "open" => m.key # NoKey)
    /\ \A m \in In(toChild) : m.kind = "notify" => sess # NoKey
    /\ \A r \in In(toClient) : r.id =< req
    /\ run = "open" => \A m \in Outstanding : IsRequest(m) /\ m.id = req => m.kind = "open"
    /\ connected /\ run = "open" /\ (\E r \in Arrived : r.ok) => sess # NoKey
    /\ connected /\ (ready \/ activeKey # NoKey \/ run = "finish") => sess # NoKey
    /\ ~missed

NoRequest(s) == \A m \in In(s) : ~IsRequest(m)
OneRequest(s) == \A i, j \in DOMAIN s : IsRequest(s[i]) /\ IsRequest(s[j]) => i = j

FlightInv ==
    failures = 0 =>
      /\ \A r \in In(toClient) : r.ok
      /\ \A m \in Outstanding : IsRequest(m) =>
            /\ m.id = req /\ Arrived = {}
            /\ run \in {"init", "open"} \/ phase = "closed"
      /\ \A m, n \in working : m = n
      /\ working # {} => NoRequest(toChild)
      /\ OneRequest(toChild)

KeyInv ==
    /\ want =< gen /\ sess =< gen
    /\ \A n \in In(backlog) : n =< gen
    /\ \A m \in Outstanding : m.key =< gen
    /\ Len(backlog) =< BacklogLimit

\* A branch change waits in the backlog; the newest branch is on its way to the child.
Pending == BranchesIn(backlog) # {}
Behind == \E m \in In(toChild) : m.kind = "notify" /\ m.key = gen

InOrder == failures = 0 /\ ~shed /\ phase = "open"

\* Nothing failed and nothing was lost: the client wants the branch of the adapter, ...
WantInv ==
    /\ Started => want = gen
    /\ \A i \in LastIn(backlog) : backlog[i] = gen
    /\ ready => /\ backlog = <<>> /\ activeKey = gen /\ initialized
                /\ run \in {"none", "begin", "step", "finish"}
                /\ run # "none" => ~connected
    /\ ~ready /\ run # "finish" => activeKey = NoKey
    /\ run = "finish" => initialized /\ (activeKey = gen \/ Pending)
    /\ run = "failed" => ~connected
    /\ run = "open" => initialized /\ (runKey = gen \/ Pending)

\* ... and the child has it, or is told of it by what is on its way or kept for it.
ChildInv ==
    connected =>
      /\ ~ready => \A m \in In(toChild) : m.kind # "notify"
      /\ ready => sess = gen \/ Behind
      /\ run = "finish" => sess = gen \/ Pending
      /\ run = "open" => /\ Arrived # {} => sess = runKey
                         /\ \A m \in Outstanding : m.kind = "open" => m.key = runKey

SyncInv == InOrder => WantInv /\ ChildInv

-----------------------------------------------------------------------------
(* Sequences *)

\* What is in a pipe after a message was put at its end.
LEMMA InAppend ==
    ASSUME NEW S, NEW s \in Seq(S), NEW x \in S
    PROVE  /\ Append(s, x) \in Seq(S) /\ Append(s, x) # <<>>
           /\ In(Append(s, x)) = In(s) \cup {x}
<1>1. /\ Append(s, x) \in Seq(S) /\ Len(Append(s, x)) = Len(s) + 1
      /\ \A i \in 1 .. Len(s) : Append(s, x)[i] = s[i]
      /\ Append(s, x)[Len(s) + 1] = x
  BY AppendProperties
<1>2. DOMAIN s = 1 .. Len(s) /\ DOMAIN Append(s, x) = 1 .. Len(s) + 1 /\ Len(s) \in Nat
  BY <1>1, LenProperties
<1> QED  BY <1>1, <1>2 DEF In

\* ... after several were.
LEMMA InConcat ==
    ASSUME NEW S, NEW s \in Seq(S), NEW t \in Seq(S)
    PROVE  /\ s \o t \in Seq(S)
           /\ In(s \o t) = In(s) \cup In(t)
<1>1. /\ s \o t \in Seq(S) /\ Len(s \o t) = Len(s) + Len(t)
      /\ \A i \in 1 .. Len(s) + Len(t) :
            (s \o t)[i] = IF i <= Len(s) THEN s[i] ELSE t[i - Len(s)]
  BY ConcatProperties
<1>2. /\ DOMAIN s = 1 .. Len(s) /\ DOMAIN t = 1 .. Len(t)
      /\ DOMAIN (s \o t) = 1 .. Len(s) + Len(t) /\ Len(s) \in Nat /\ Len(t) \in Nat
  BY <1>1, LenProperties
<1>3. In(s \o t) \subseteq In(s) \cup In(t)
  <2> SUFFICES ASSUME NEW i \in 1 .. Len(s) + Len(t) PROVE (s \o t)[i] \in In(s) \cup In(t)
    BY <1>2 DEF In
  <2>1. CASE i <= Len(s)  BY <2>1, <1>1, <1>2 DEF In
  <2>2. CASE ~(i <= Len(s))
    <3>1. i - Len(s) \in 1 .. Len(t) /\ (s \o t)[i] = t[i - Len(s)]
      BY <2>2, <1>1, <1>2
    <3> QED  BY <3>1, <1>2 DEF In
  <2> QED  BY <2>1, <2>2
<1>4. In(s) \subseteq In(s \o t)
  <2> SUFFICES ASSUME NEW i \in 1 .. Len(s) PROVE s[i] \in In(s \o t)
    BY <1>2 DEF In
  <2>1. i \in 1 .. Len(s) + Len(t) /\ (s \o t)[i] = s[i]  BY <1>1, <1>2
  <2> QED  BY <2>1, <1>2 DEF In
<1>5. In(t) \subseteq In(s \o t)
  <2> SUFFICES ASSUME NEW i \in 1 .. Len(t) PROVE t[i] \in In(s \o t)
    BY <1>2 DEF In
  <2>1. i + Len(s) \in 1 .. Len(s) + Len(t) /\ ~(i + Len(s) <= Len(s)) /\ (i + Len(s)) - Len(s) = i
    BY <1>2
  <2>2. (s \o t)[i + Len(s)] = t[i]  BY <2>1, <1>1
  <2> QED  BY <2>1, <2>2, <1>2 DEF In
<1> QED  BY <1>1, <1>3, <1>4, <1>5

\* ... and after the first one was taken.
LEMMA InTail ==
    ASSUME NEW S, NEW s \in Seq(S), s # <<>>
    PROVE  /\ Tail(s) \in Seq(S) /\ Head(s) \in S
           /\ Head(s) \in In(s) /\ In(Tail(s)) \subseteq In(s)
           /\ In(s) \subseteq {Head(s)} \cup In(Tail(s))
<1>1. /\ Head(s) \in S /\ Tail(s) \in Seq(S) /\ Len(Tail(s)) = Len(s) - 1
      /\ \A i \in 1 .. Len(Tail(s)) : Tail(s)[i] = s[i + 1]
  BY HeadTailProperties
<1>2. /\ DOMAIN s = 1 .. Len(s) /\ DOMAIN Tail(s) = 1 .. Len(s) - 1 /\ Len(s) \in Nat \ {0}
  BY <1>1, LenProperties, EmptySeq
<1>3. Head(s) = s[1]  OBVIOUS
<1>4. In(Tail(s)) \subseteq In(s)
  <2> SUFFICES ASSUME NEW i \in 1 .. Len(s) - 1 PROVE Tail(s)[i] \in In(s)
    BY <1>2 DEF In
  <2>1. i + 1 \in 1 .. Len(s) /\ Tail(s)[i] = s[i + 1]  BY <1>1, <1>2
  <2> QED  BY <2>1, <1>2 DEF In
<1>5. In(s) \subseteq {Head(s)} \cup In(Tail(s))
  <2> SUFFICES ASSUME NEW i \in 2 .. Len(s) PROVE s[i] \in In(Tail(s))
    BY <1>2, <1>3 DEF In
  <2>1. i - 1 \in 1 .. Len(s) - 1 /\ Tail(s)[i - 1] = s[i]  BY <1>1, <1>2
  <2> QED  BY <2>1, <1>2 DEF In
<1> QED  BY <1>1, <1>2, <1>3, <1>4, <1>5 DEF In

\* Notifications as messages.
LEMMA Messages ==
    ASSUME NEW s \in Seq({Note} \cup 0 .. MaxGen)
    PROVE  /\ AsMessages(s) \in Seq(Message) /\ Len(AsMessages(s)) = Len(s)
           /\ \A i \in DOMAIN s : AsMessages(s)[i] = [kind |-> "notify", id |-> 0, key |-> s[i]]
           /\ \A m \in In(AsMessages(s)) : m.kind = "notify" /\ m.id = 0 /\ m.key \in In(s)
           /\ \A i \in DOMAIN s : AsMessages(s)[i] \in In(AsMessages(s))
<1>1. Len(s) \in Nat /\ DOMAIN s = 1 .. Len(s) /\ \A i \in 1 .. Len(s) : s[i] \in {Note} \cup 0 .. MaxGen
  BY LenProperties
<1>2. AsMessages(s) \in [1 .. Len(s) -> Message]
  BY <1>1 DEF AsMessages, Message, Notifications
<1>3. AsMessages(s) \in Seq(Message)
  BY <1>1, <1>2
<1>4. Len(AsMessages(s)) = Len(s)
  BY <1>1, <1>2, <1>3
<1>5. \A i \in DOMAIN s : AsMessages(s)[i] = [kind |-> "notify", id |-> 0, key |-> s[i]]
  BY DEF AsMessages
<1>6. DOMAIN AsMessages(s) = DOMAIN s  BY DEF AsMessages
<1> QED  BY <1>3, <1>4, <1>5, <1>6 DEF In

-----------------------------------------------------------------------------
(* Types *)

\* A notification is put into the pipe, into the backlog, or lost.
LEMMA NotifyType ==
    ASSUME TypeOK, NEW n \in {Note} \cup 0 .. MaxGen, Notify(n)
    PROVE  /\ toChild' \in Seq(Message) /\ shed' \in BOOLEAN
           /\ backlog' \in Seq({Note} \cup 0 .. MaxGen)
<1> DEFINE S == {Note} \cup 0 .. MaxGen
<1>1. <<n>> \in Seq(S) /\ backlog \in Seq(S) /\ toChild \in Seq(Message)  BY DEF TypeOK
<1>2. toChild \o AsMessages(<<n>>) \in Seq(Message)
  BY <1>1, Messages, InConcat
<1>3. Append(backlog, n) \in Seq(S) /\ Append(backlog, n) # <<>>
  BY <1>1, InAppend
<1>4. Kept(Append(backlog, n)) \in Seq(S)
  BY <1>3, InTail DEF Kept
<1> QED  BY <1>1, <1>2, <1>4 DEF Notify, TypeOK

LEMMA TypeStep == TypeOK /\ [Next]_vars => TypeOK'
<1> SUFFICES ASSUME TypeOK, [Next]_vars PROVE TypeOK'
  OBVIOUS
<1> USE BoundsAssumption
<1>k. NoKey \in SessionKey /\ gen \in SessionKey  BY DEF SessionKey, TypeOK
<1>r. RunAfterEnsure \in {"none", "init", "open"} \cup Microtask
  BY DEF RunAfterEnsure, TypeOK, Microtask
<1>e. /\ <<>> \in Seq(Message) /\ <<>> \in Seq([id : Nat, ok : BOOLEAN])
      /\ <<>> \in Seq({Note} \cup 0 .. MaxGen)
  BY EmptySeq
<1>1. CASE Start
  BY <1>1, <1>k, <1>r DEF Start, TypeOK, adapterVars, childVars, processVars
<1>2. CASE Call
  BY <1>2, <1>r DEF Call, TypeOK, adapterVars, childVars, processVars
<1>3. CASE SessionTree
  <2>1. gen' \in 0 .. MaxGen /\ gen + 1 \in {Note} \cup 0 .. MaxGen /\ gen + 1 \in SessionKey
    BY <1>3 DEF SessionTree, TypeOK, SessionKey
  <2>2. toChild' \in Seq(Message) /\ shed' \in BOOLEAN /\ backlog' \in Seq({Note} \cup 0 .. MaxGen)
    BY <1>3, <2>1, NotifyType DEF SessionTree, TypeOK
  <2>3. want' \in SessionKey /\ activeKey' \in SessionKey
    BY <1>3, <2>1 DEF SessionTree, TypeOK
  <2> QED  BY <1>3, <2>1, <2>2, <2>3 DEF SessionTree, TypeOK, childVars
<1>4. CASE OtherNotification
  <2>1. notes' \in 0 .. MaxNotes  BY <1>4 DEF OtherNotification, TypeOK
  <2>2. toChild' \in Seq(Message) /\ shed' \in BOOLEAN /\ backlog' \in Seq({Note} \cup 0 .. MaxGen)
    BY <1>4, NotifyType DEF OtherNotification, TypeOK
  <2> QED  BY <1>4, <2>1, <2>2 DEF OtherNotification, TypeOK, linkVars, childVars
<1>5. CASE RunBegin
  <2>1. CASE child # NoChild
    BY <1>5, <2>1 DEF RunBegin, SpawnIfNeeded, TypeOK, adapterVars, childVars, processVars, Microtask
  <2>2. CASE child = NoChild
    <3>1. Spawn  BY <1>5, <2>2 DEF RunBegin, SpawnIfNeeded
    <3>2. /\ spawned' \in Nat /\ child' \in 0 .. spawned' /\ alive' \subseteq 1 .. spawned'
      BY <3>1 DEF Spawn, TypeOK
    <3>3. /\ connected' \in BOOLEAN /\ ready' \in BOOLEAN /\ initialized' \in BOOLEAN
          /\ toChild' \in Seq(Message) /\ toClient' \in Seq([id : Nat, ok : BOOLEAN])
          /\ working' \subseteq Requests /\ sess' \in SessionKey /\ missed' \in BOOLEAN
      BY <3>1, <1>k, <1>e DEF Spawn, TypeOK
    <3> QED  BY <1>5, <3>2, <3>3 DEF RunBegin, TypeOK, adapterVars, Microtask
  <2> QED  BY <2>1, <2>2
<1>6. CASE RunStep
  <2>1. ASSUME NEW kind \in {"initialize", "open"}, NEW next \in {"init", "open"}, Request(kind, next)
        PROVE  req' \in Nat /\ toChild' \in Seq(Message) /\ run' \in {"init", "open", "failed"}
    <3>1. [kind |-> kind, id |-> req + 1, key |-> want] \in Message
      BY DEF TypeOK, Message, Requests
    <3>2. Append(toChild, [kind |-> kind, id |-> req + 1, key |-> want]) \in Seq(Message)
      BY <3>1, InAppend DEF TypeOK
    <3>3. CASE connected
      <4>1. req' = req + 1 /\ run' = next
            /\ toChild' = Append(toChild, [kind |-> kind, id |-> req + 1, key |-> want])
        BY <2>1, <3>3 DEF Request
      <4> QED  BY <4>1, <3>2 DEF TypeOK
    <3>4. CASE ~connected  BY <2>1, <3>4 DEF Request, TypeOK
    <3> QED  BY <3>3, <3>4
  <2>2. /\ req' \in Nat /\ toChild' \in Seq(Message) /\ runKey' \in SessionKey
        /\ run' \in {"init", "open", "failed", "finish"}
    BY <1>6, <2>1 DEF RunStep, TypeOK
  <2> QED
    BY <1>6, <2>2 DEF RunStep, TypeOK, Microtask, adapterVars, linkVars, childVars
<1>7. CASE RunFinish
  <2>1. backlog \in Seq({Note} \cup 0 .. MaxGen) /\ toChild \in Seq(Message)  BY DEF TypeOK
  <2>2. toChild' \in Seq(Message)
    BY <1>7, <2>1, Messages, InConcat DEF RunFinish
  <2>3. want' \in SessionKey /\ activeKey' \in SessionKey
    <3>1. \A i \in LastIn(backlog) : backlog[i] \in SessionKey
      <4> SUFFICES ASSUME NEW i \in LastIn(backlog) PROVE backlog[i] \in SessionKey
        OBVIOUS
      <4>1. i \in DOMAIN backlog /\ backlog[i] # Note  BY DEF LastIn, BranchesIn, IsBranch
      <4>2. backlog[i] \in {Note} \cup 0 .. MaxGen  BY <2>1, <4>1, LenProperties
      <4> QED  BY <4>1, <4>2 DEF SessionKey
    <3> QED  BY <1>7, <3>1 DEF RunFinish, TypeOK
  <2>4. /\ run' \in {"none", "begin"} /\ timerWaits' \in BOOLEAN
        /\ backlog' \in Seq({Note} \cup 0 .. MaxGen)
    BY <1>7 DEF RunFinish, RunAfterFinish, TypeOK
  <2> QED  BY <1>7, <2>2, <2>3, <2>4 DEF RunFinish, TypeOK, adapterVars, Microtask
<1>8. CASE RunFailed
  BY <1>8 DEF RunFailed, ScheduleRestartIf, RestartWanted, TypeOK, adapterVars, processVars
<1>9. CASE HandleResponse
  <2>1. toClient' \in Seq([id : Nat, ok : BOOLEAN])
    BY <1>9, InTail DEF HandleResponse, TypeOK
  <2>2. /\ activeKey' \in SessionKey /\ initialized' \in BOOLEAN
        /\ run' \in {"none", "init", "open"} \cup Microtask
    BY <1>9 DEF HandleResponse, TypeOK, OpenedKey, Microtask
  <2> QED  BY <1>9, <2>1, <2>2 DEF HandleResponse, TypeOK, adapterVars
<1>10. CASE RequestTimeout
  BY <1>10 DEF RequestTimeout, TypeOK, adapterVars, linkVars, childVars, processVars, Microtask
<1>11. CASE TimerFires
  <2>1. timerWaits' \in BOOLEAN  BY <1>11 DEF TimerFires
  <2>2. run' \in {"none", "init", "open"} \cup Microtask /\ timer' \in BOOLEAN
    BY <1>11, <1>r DEF TimerFires
  <2>3. UNCHANGED <<adapterVars, linkVars, childVars, req, runKey, retrying, backlog,
                    failures, processVars>>
    BY <1>11 DEF TimerFires
  <2> QED
    BY <2>1, <2>2, <2>3 DEF TypeOK, adapterVars, linkVars, childVars, processVars
<1>12. CASE ChildExit
  <2>1. /\ run' \in {"none", "init", "open"} \cup Microtask /\ activeKey' \in SessionKey
        /\ child' \in 0 .. spawned
    BY <1>12, <1>k DEF ChildExit, KeyAfterExit, RunAfterExit, NoChild, TypeOK, Microtask
  <2>2. /\ timer' \in BOOLEAN /\ retrying' \in BOOLEAN
        /\ lifecycle' \in {"stopped", "starting", "ready", "restarting", "stopping", "closed"}
    BY <1>12 DEF ChildExit, ScheduleRestartIf, TypeOK
  <2> QED  BY <1>12, <2>1, <2>2 DEF ChildExit, TypeOK, adapterVars, processVars
<1>13. CASE CloseBegin
  <2>1. [kind |-> "shutdown", id |-> 0, key |-> NoKey] \in Message
    BY DEF Message
  <2>2. toChild' \in Seq(Message)
    BY <1>13, <2>1, InAppend DEF CloseBegin, TypeOK
  <2> QED  BY <1>13, <2>2 DEF CloseBegin, TypeOK, adapterVars, childVars
<1>14. CASE CloseEnd
  <2>1. /\ run' \in {"none", "init", "open"} \cup Microtask /\ activeKey' \in SessionKey
        /\ child' \in 0 .. spawned /\ backlog' \in Seq({Note} \cup 0 .. MaxGen)
    BY <1>14, <1>k DEF CloseEnd, NoChild, TypeOK, Microtask
  <2> QED  BY <1>14, <2>1 DEF CloseEnd, TypeOK, adapterVars, processVars
<1>15. CASE ChildReceives
  <2>1. toChild' \in Seq(Message) /\ Head(toChild) \in Message
    BY <1>15, InTail DEF ChildReceives, TypeOK
  <2>2. /\ Head(toChild).kind \in {"initialize", "open"} => Head(toChild) \in Requests
        /\ Head(toChild).kind = "notify" => Head(toChild).key \in {Note} \cup 0 .. MaxGen
    BY <2>1 DEF Message, Requests, Notifications
  <2>3. /\ working' \subseteq Requests /\ missed' \in BOOLEAN
    BY <1>15, <2>2 DEF ChildReceives, TypeOK
  <2>4. sess' \in SessionKey
    BY <1>15, <2>2 DEF ChildReceives, TypeOK, BranchApplied, IsBranch, SessionKey
  <2> QED  BY <1>15, <2>1, <2>3, <2>4 DEF ChildReceives, TypeOK, clientVars, adapterVars, linkVars
<1>16. CASE Gone
  <2>1. /\ connected' \in BOOLEAN /\ alive' \subseteq 1 .. spawned' /\ toChild' \in Seq(Message)
        /\ working' \subseteq Requests /\ sess' \in SessionKey
        /\ UNCHANGED <<clientVars, failures, spawned, toClient, missed>>
    BY <1>16, <1>k, <1>e DEF Gone
  <2> QED  BY <2>1 DEF TypeOK, clientVars, adapterVars, linkVars
<1>17. ASSUME NEW m \in working, ChildAnswers(m) \/ ChildRefuses(m) PROVE TypeOK'
  <2>1. m \in Requests  BY DEF TypeOK
  <2>2. ASSUME NEW ok \in BOOLEAN
        PROVE  Append(toClient, [id |-> m.id, ok |-> ok]) \in Seq([id : Nat, ok : BOOLEAN])
    <3>1. [id |-> m.id, ok |-> ok] \in [id : Nat, ok : BOOLEAN]  BY <2>1 DEF Requests
    <3> QED  BY <3>1, InAppend DEF TypeOK
  <2>3. toClient' \in Seq([id : Nat, ok : BOOLEAN])
    BY <1>17, <2>2 DEF ChildAnswers, ChildRefuses, TypeOK
  <2>4. CASE ChildAnswers(m)
    <3>1. sess' \in SessionKey
      BY <2>1, <2>4 DEF ChildAnswers, Requests, TypeOK
    <3> QED  BY <2>4, <2>3, <3>1 DEF ChildAnswers, TypeOK, clientVars, adapterVars, linkVars
  <2>5. CASE ChildRefuses(m)
    BY <2>5, <2>3 DEF ChildRefuses, TypeOK, clientVars, adapterVars, linkVars
  <2> QED  BY <1>17, <2>4, <2>5
<1>18. CASE UNCHANGED vars
  BY <1>18 DEF vars, adapterVars, linkVars, childVars, runVars, processVars, TypeOK
<1> QED
  BY <1>1, <1>2, <1>3, <1>4, <1>5, <1>6, <1>7, <1>8, <1>9, <1>10, <1>11, <1>12, <1>13, <1>14,
     <1>15, <1>16, <1>17, <1>18
  DEF Next, ClientStep, Sidecar, ChildShutsDown, ChildCrashes

-----------------------------------------------------------------------------
(* Which process runs *)

LEMMA LifeStep == TypeOK /\ LifeInv /\ [Next]_vars => LifeInv'
<1> SUFFICES ASSUME TypeOK, LifeInv, [Next]_vars PROVE LifeInv'
  OBVIOUS
<1> USE DEF LifeInv, Started, Idle, Microtask
<1>r. RunAfterEnsure # "none" => RunAfterEnsure = run \/ RunAfterEnsure = "begin"
  BY DEF RunAfterEnsure
<1>g. gen # NoKey /\ gen + 1 # NoKey  BY DEF TypeOK, NoKey
<1>1. CASE Start
  BY <1>1, <1>r, <1>g DEF Start, adapterVars, childVars, processVars
<1>2. CASE Call
  BY <1>2, <1>r DEF Call, adapterVars, childVars, processVars
<1>3. CASE SessionTree
  <2>1. child # NoChild /\ connected => alive # {}  BY <1>3 DEF SessionTree, TypeOK
  <2> QED  BY <1>3, <1>g, <2>1 DEF SessionTree, Notify, Deliverable, childVars
<1>4. CASE OtherNotification
  BY <1>4 DEF OtherNotification, Notify, Deliverable, linkVars, childVars
<1>5. CASE RunBegin
  <2>1. CASE child # NoChild
    BY <1>5, <2>1 DEF RunBegin, SpawnIfNeeded, adapterVars, childVars, processVars
  <2>2. CASE child = NoChild
    <3>1. Spawn  BY <1>5, <2>2 DEF RunBegin, SpawnIfNeeded
    <3>a. phase = "open" /\ ~connected  BY <1>5, <2>2 DEF RunBegin
    <3>2. phase = "open" /\ ~connected /\ alive = {}  BY <3>a
    <3>3. child' # NoChild /\ alive' = {child'}  BY <3>1, <3>2 DEF Spawn, TypeOK, NoChild
    <3> QED  BY <1>5, <3>1, <3>2, <3>3 DEF RunBegin, Spawn, adapterVars
  <2> QED  BY <2>1, <2>2
<1>6. CASE RunStep
  <2>1. child # NoChild /\ phase # "closed"  BY <1>6 DEF RunStep
  <2>2. /\ run' # "begin" /\ (~connected => toChild' = toChild)
    BY <1>6 DEF RunStep, Request
  <2> QED  BY <1>6, <2>1, <2>2 DEF RunStep, adapterVars, linkVars, childVars
<1>7. CASE RunFinish
  <2>1. child # NoChild /\ phase # "closed" /\ Started  BY <1>7 DEF RunFinish
  <2>2. want' # NoKey
    <3>1. ASSUME NEW i \in LastIn(backlog) PROVE backlog[i] # NoKey
      <4>1. i \in DOMAIN backlog /\ backlog[i] # Note  BY DEF LastIn, BranchesIn, IsBranch
      <4>2. backlog[i] \in {Note} \cup 0 .. MaxGen  BY <4>1, LenProperties DEF TypeOK
      <4> QED  BY <4>1, <4>2 DEF NoKey
    <3> QED  BY <1>7, <2>1, <3>1 DEF RunFinish
  <2> QED  BY <1>7, <2>1, <2>2 DEF RunFinish, RunAfterFinish, adapterVars
<1>8. CASE RunFailed
  BY <1>8 DEF RunFailed, ScheduleRestartIf, RestartWanted, adapterVars, processVars
<1>9. CASE HandleResponse
  <2>1. activeKey' = activeKey \/ run = "open"  BY <1>9 DEF HandleResponse
  <2>2. initialized' = initialized \/ run = "init"  BY <1>9 DEF HandleResponse, TypeOK
  <2>3. run' = run \/ (run \in {"init", "open"} /\ run' \in {"failed", "step", "finish"})
    BY <1>9 DEF HandleResponse
  <2> QED  BY <1>9, <2>1, <2>2, <2>3 DEF HandleResponse, adapterVars
<1>10. CASE RequestTimeout
  BY <1>10 DEF RequestTimeout, adapterVars, linkVars, childVars, processVars
<1>11. CASE TimerFires
  BY <1>11, <1>r DEF TimerFires, adapterVars, linkVars, childVars, processVars
<1>12. CASE ChildExit
  BY <1>12 DEF ChildExit, KeyAfterExit, RunAfterExit, ScheduleRestartIf, RestartWanted,
               adapterVars, processVars, TypeOK
<1>13. CASE CloseBegin
  BY <1>13 DEF CloseBegin, adapterVars, childVars
<1>14. CASE CloseEnd
  BY <1>14 DEF CloseEnd, adapterVars, processVars, TypeOK
<1>15. CASE ChildReceives
  BY <1>15 DEF ChildReceives, clientVars, adapterVars, linkVars
<1>16. CASE Gone
  BY <1>16 DEF Gone, clientVars, adapterVars, linkVars
<1>17. ASSUME NEW m \in working, ChildAnswers(m) \/ ChildRefuses(m) PROVE LifeInv'
  BY <1>17 DEF ChildAnswers, ChildRefuses, clientVars, adapterVars, linkVars
<1>18. CASE UNCHANGED vars
  BY <1>18 DEF vars, adapterVars, linkVars, childVars, runVars, processVars
<1> QED
  BY <1>1, <1>2, <1>3, <1>4, <1>5, <1>6, <1>7, <1>8, <1>9, <1>10, <1>11, <1>12, <1>13, <1>14,
     <1>15, <1>16, <1>17, <1>18
  DEF Next, ClientStep, Sidecar, ChildShutsDown, ChildCrashes

-----------------------------------------------------------------------------
(* What is on its way *)

\* The messages of the pipe are typed.
LEMMA Typed ==
    ASSUME TypeOK
    PROVE  /\ \A m \in In(toChild) : m \in Message
           /\ \A m \in Outstanding : m \in Message
           /\ \A m \in Message : m.id \in Nat /\ (IsRequest(m) <=> m \in Requests)
           /\ \A m \in Message : IsRequest(m) <=> m.kind \in {"initialize", "open"}
           /\ \A r \in In(toClient) : r.id \in Nat /\ r.ok \in BOOLEAN
<1>1. \A m \in In(toChild) : m \in Message  BY LenProperties DEF In, TypeOK
<1>2. \A r \in In(toClient) : r \in [id : Nat, ok : BOOLEAN]
  <2>1. toClient \in Seq([id : Nat, ok : BOOLEAN])  BY DEF TypeOK
  <2> HIDE DEF TypeOK
  <2>2. \A i \in DOMAIN toClient : toClient[i] \in [id : Nat, ok : BOOLEAN]
    BY <2>1, ElementOfSeq, LenProperties
  <2> QED  BY <2>2 DEF In
<1>3. Requests \subseteq Message  BY DEF Message
<1>4. \A m \in Message : m.id \in Nat /\ (IsRequest(m) <=> m \in Requests)
                                   /\ (IsRequest(m) <=> m.kind \in {"initialize", "open"})
  BY DEF Message, Requests, Notifications, IsRequest
<1> QED  BY <1>1, <1>2, <1>3, <1>4 DEF Outstanding, TypeOK

\* What a notification adds to the pipe.
LEMMA NotifyAdds ==
    ASSUME TypeOK, LifeInv, NEW n \in {Note} \cup 0 .. MaxGen, Notify(n)
    PROVE  \/ toChild' = toChild
           \/ /\ connected /\ ready
              /\ \A m \in In(toChild') : m \in In(toChild) \/
                   (m.kind = "notify" /\ m.id = 0 /\ m.key = n)
<1>1. <<n>> \in Seq({Note} \cup 0 .. MaxGen) /\ In(<<n>>) = {n}  BY DEF In
<1>2. In(toChild \o AsMessages(<<n>>)) = In(toChild) \cup In(AsMessages(<<n>>))
  <2>1. toChild \in Seq(Message) /\ AsMessages(<<n>>) \in Seq(Message)
    BY <1>1, Messages DEF TypeOK
  <2> QED  BY <2>1, InConcat
<1>3. \A m \in In(AsMessages(<<n>>)) : m.kind = "notify" /\ m.id = 0 /\ m.key = n
  BY <1>1, Messages
<1> QED  BY <1>2, <1>3 DEF Notify, Deliverable

LEMMA OpenStep == TypeOK /\ LifeInv /\ OpenInv /\ [Next]_vars => OpenInv'
<1> SUFFICES ASSUME TypeOK, LifeInv, OpenInv, [Next]_vars PROVE OpenInv'
  OBVIOUS
<1> USE DEF OpenInv, Outstanding, Arrived, IsRequest
<1>r. RunAfterEnsure = run \/ RunAfterEnsure = "begin"
  BY DEF RunAfterEnsure
<1>0. In(<<>>) = {}  BY DEF In
<1>1. CASE Start
  BY <1>1, <1>r DEF Start, adapterVars, childVars, processVars
<1>2. CASE Call
  BY <1>2, <1>r DEF Call, adapterVars, childVars, processVars
<1>n. ASSUME NEW n \in {Note} \cup 0 .. MaxGen, Notify(n), activeKey' = activeKey \/ ready,
             UNCHANGED <<working, toClient, run, req, sess, connected, ready, missed>>
      PROVE  OpenInv'
  <2>1. \A m \in In(toChild)' : m \in In(toChild) \/ (m.kind = "notify" /\ m.id = 0 /\ sess # NoKey)
    BY <1>n, NotifyAdds
  <2>2. \A m \in In(toChild)' : m \in In(toChild) \/ m.id =< req
    BY <2>1 DEF TypeOK
  <2> QED  BY <1>n, <2>1, <2>2
<1>3. CASE SessionTree
  <2>1. CASE phase = "open"
    <3>1. gen + 1 \in {Note} \cup 0 .. MaxGen  BY <1>3, BoundsAssumption DEF SessionTree, TypeOK
    <3> QED  BY <1>3, <2>1, <3>1, <1>n DEF SessionTree, childVars
  <2>2. CASE phase # "open"
    BY <1>3, <2>2 DEF SessionTree, childVars
  <2> QED  BY <2>1, <2>2
<1>4. CASE OtherNotification
  BY <1>4, <1>n DEF OtherNotification, linkVars, childVars
<1>5. CASE RunBegin
  <2>1. CASE child # NoChild
    BY <1>5, <2>1 DEF RunBegin, SpawnIfNeeded, adapterVars, childVars, processVars
  <2>2. CASE child = NoChild
    <3>1. Spawn  BY <1>5, <2>2 DEF RunBegin, SpawnIfNeeded
    <3>2. activeKey = NoKey  BY <2>2 DEF LifeInv
    <3> QED  BY <1>5, <1>0, <3>1, <3>2 DEF RunBegin, Spawn, adapterVars
  <2> QED  BY <2>1, <2>2
<1>6. CASE RunStep
  <2>1. ASSUME NEW kind \in {"initialize", "open"}, Request(kind, IF kind = "open" THEN "open" ELSE "init"),
               UNCHANGED <<working, toClient, sess, connected, ready, activeKey, missed>>
        PROVE  OpenInv'
    <3>1. CASE connected
      <4> DEFINE r == [kind |-> kind, id |-> req + 1, key |-> want]
      <4>1. /\ toChild' = Append(toChild, r) /\ req' = req + 1
            /\ run' = IF kind = "open" THEN "open" ELSE "init"
        BY <2>1, <3>1 DEF Request
      <4>2. r \in Message  BY DEF TypeOK, Message, Requests
      <4>3. In(toChild)' = In(toChild) \cup {r}  BY <4>1, <4>2, InAppend DEF TypeOK
      <4>4. want # NoKey  BY <1>6, <3>1 DEF LifeInv, RunStep, Started
      <4>5. /\ r.id = req' /\ r.kind = kind /\ r.key # NoKey
            /\ req' \in Nat /\ \A m \in Outstanding \cup In(toClient) : m.id =< req' /\ m.id # req'
        BY <4>1, <4>4, Typed DEF TypeOK
      <4> HIDE DEF r
      <4>6. \A m \in Outstanding' : m \in Outstanding \/ m = r  BY <2>1, <4>3
      <4>7. Arrived' = {}  BY <2>1, <4>5
      <4>8. /\ \A m \in Outstanding' : m.id =< req' /\ (m.kind = "open" => m.key # NoKey)
            /\ run' = "open" => \A m \in Outstanding' : IsRequest(m) /\ m.id = req' => m.kind = "open"
            /\ \A m \in In(toChild)' : m.kind = "notify" => sess' # NoKey
        <5>1. run' = "open" => r.kind = "open"  BY <4>1, <4>5
        <5>2. r.kind # "notify"  BY <4>5
        <5> QED  BY <2>1, <4>3, <4>5, <4>6, <5>1, <5>2
      <4> QED  BY <2>1, <4>1, <4>5, <4>7, <4>8
    <3>2. CASE ~connected
      BY <2>1, <3>2 DEF Request
    <3> QED  BY <3>1, <3>2
  <2>2. CASE run' = "finish" /\ activeKey = want
    <3>1. activeKey # NoKey  BY <2>2, <1>6 DEF LifeInv, RunStep, Started
    <3>2. UNCHANGED <<req, toChild>>  BY <2>2, <1>6 DEF RunStep, Request
    <3> QED  BY <1>6, <2>2, <3>1, <3>2 DEF RunStep, adapterVars, linkVars, childVars
  <2> QED  BY <1>6, <2>1, <2>2 DEF RunStep, adapterVars, linkVars, childVars
<1>7. CASE RunFinish
  <2>1. CASE connected
    <3>1. sess # NoKey  BY <1>7, <2>1 DEF RunFinish
    <3>2. toChild' = toChild \o AsMessages(backlog)  BY <1>7, <2>1 DEF RunFinish
    <3>3. In(toChild)' = In(toChild) \cup In(AsMessages(backlog))
      BY <3>2, Messages, InConcat DEF TypeOK
    <3>4. \A m \in In(AsMessages(backlog)) : m.kind = "notify" /\ m.id = 0 /\ m.id =< req
      BY Messages DEF TypeOK
    <3>5. run' # "open" /\ sess' = sess /\ req' = req
      BY <1>7 DEF RunFinish, RunAfterFinish
    <3> QED  BY <1>7, <3>1, <3>3, <3>4, <3>5 DEF RunFinish, adapterVars
  <2>2. CASE ~connected
    BY <1>7, <2>2 DEF RunFinish, RunAfterFinish, adapterVars
  <2> QED  BY <2>1, <2>2
<1>8. CASE RunFailed
  BY <1>8 DEF RunFailed, adapterVars, processVars
<1>9. CASE HandleResponse
  <2>1. Head(toClient) \in In(toClient) /\ In(toClient)' \subseteq In(toClient)
    BY <1>9, InTail DEF HandleResponse, TypeOK
  <2>2. \/ run' = run /\ activeKey' = activeKey
        \/ run' # "open" /\ run' # "finish" /\ activeKey' = activeKey
        \/ run = "open" /\ run' = "finish" /\ Head(toClient).id = req /\ Head(toClient).ok
    BY <1>9 DEF HandleResponse
  <2>3. connected /\ run = "open" /\ run' = "finish" /\ Head(toClient).id = req /\ Head(toClient).ok
          => sess # NoKey
    BY <2>1
  <2>4. UNCHANGED <<working, toChild, req, sess, connected, ready, missed>>
    BY <1>9 DEF HandleResponse
  <2> QED  BY <2>1, <2>2, <2>3, <2>4
<1>10. CASE RequestTimeout
  BY <1>10 DEF RequestTimeout, adapterVars, linkVars, childVars, processVars
<1>11. CASE TimerFires
  BY <1>11, <1>r DEF TimerFires, adapterVars, linkVars, childVars, processVars
<1>12. CASE ChildExit
  BY <1>12 DEF ChildExit, KeyAfterExit, RunAfterExit, adapterVars, processVars
<1>13. CASE CloseBegin
  <2> DEFINE m == [kind |-> "shutdown", id |-> 0, key |-> NoKey]
  <2>1. m \in Message  BY DEF Message
  <2>2. toChild' = toChild \/ In(toChild)' = In(toChild) \cup {m}
    BY <1>13, <2>1, InAppend DEF CloseBegin, TypeOK
  <2>3. m.kind = "shutdown" /\ m.id = 0 /\ m.id =< req  BY DEF TypeOK
  <2> HIDE DEF m
  <2> QED  BY <1>13, <2>2, <2>3 DEF CloseBegin, adapterVars, childVars
<1>14. CASE CloseEnd
  BY <1>14 DEF CloseEnd, adapterVars, processVars
<1>15. CASE ChildReceives
  <2> DEFINE m == Head(toChild)
  <2>1. m \in In(toChild) /\ In(toChild)' \subseteq In(toChild)
    BY <1>15, InTail DEF ChildReceives, TypeOK
  <2>2. working' \subseteq working \cup {m} /\ ~missed' /\ (sess # NoKey => sess' # NoKey)
    <3>1. m.kind = "notify" => sess # NoKey  BY <2>1
    <3>2. sess # NoKey => BranchApplied(m.key) # NoKey
      BY DEF BranchApplied, TypeOK, SessionKey, NoKey
    <3>3. CASE working' = working \cup {m} /\ UNCHANGED <<sess, missed>>
      BY <3>3
    <3>4. CASE /\ m.kind = "notify" /\ missed' = (missed \/ sess = NoKey) /\ working' = working
               /\ sess' = IF sess # NoKey /\ IsBranch(m.key) THEN BranchApplied(m.key) ELSE sess
      BY <3>1, <3>2, <3>4
    <3> QED  BY <1>15, <3>3, <3>4 DEF ChildReceives
  <2>3. UNCHANGED <<toClient, run, req, connected, ready, activeKey>>
    BY <1>15 DEF ChildReceives, clientVars, linkVars
  <2> QED  BY <2>1, <2>2, <2>3
<1>16. CASE Gone
  <2>1. Outstanding' = {} /\ ~connected' /\ In(toChild)' = {}  BY <1>16, <1>0 DEF Gone
  <2>2. UNCHANGED <<toClient, run, req, missed>>  BY <1>16 DEF Gone, clientVars
  <2> QED  BY <2>1, <2>2
<1>17. ASSUME NEW m \in working, ChildAnswers(m) \/ ChildRefuses(m) PROVE OpenInv'
  <2>1. m \in Requests /\ m.id \in Nat /\ m.id =< req  BY Typed DEF TypeOK
  <2>2. /\ sess # NoKey => sess' # NoKey
        /\ ChildAnswers(m) /\ m.kind = "open" => sess' # NoKey
    BY <1>17 DEF ChildAnswers, ChildRefuses
  <2>3. \A r \in In(toClient)' : r \in In(toClient) \/ (r.id = m.id /\ (r.ok => ChildAnswers(m)))
    <3>1. ASSUME NEW ok \in BOOLEAN, ok => ChildAnswers(m),
                 toClient' = Append(toClient, [id |-> m.id, ok |-> ok])
          PROVE  \A r \in In(toClient)' : r \in In(toClient) \/ (r.id = m.id /\ (r.ok => ChildAnswers(m)))
      <4> DEFINE x == [id |-> m.id, ok |-> ok]
                 S == [id : Nat, ok : BOOLEAN]
      <4>1. x \in S /\ toClient \in Seq(S)  BY <2>1 DEF TypeOK
      <4>2. toClient' = Append(toClient, x) /\ x.id = m.id /\ (x.ok => ChildAnswers(m))
        BY <3>1
      <4> HIDE DEF x, S
      <4>3. In(toClient)' = In(toClient) \cup {x}  BY <4>1, <4>2, InAppend
      <4> QED  BY <4>2, <4>3
    <3> QED  BY <1>17, <3>1 DEF ChildAnswers, ChildRefuses
  <2>4. UNCHANGED <<toChild, run, req, connected, ready, activeKey, missed>> /\ working' \subseteq working
    BY <1>17 DEF ChildAnswers, ChildRefuses, clientVars, linkVars
  <2>5. run = "open" /\ m.id = req => m.kind = "open"
    BY <2>1 DEF Requests
  <2>6. connected' /\ run' = "open" /\ (\E r \in Arrived' : r.ok) => sess' # NoKey
    <3> SUFFICES ASSUME connected, run = "open", NEW r \in In(toClient)', r.id = req, r.ok
                 PROVE  sess' # NoKey
      BY <2>4
    <3>1. CASE r \in In(toClient)  BY <3>1, <2>2
    <3>2. CASE r \notin In(toClient)  BY <3>2, <2>3, <2>5, <2>2
    <3> QED  BY <3>1, <3>2
  <2>7. \A r \in In(toClient)' : r.id =< req'  BY <2>1, <2>3, <2>4
  <2>8. \A x \in Outstanding' : x \in Outstanding  BY <2>4
  <2>9. In(toChild)' = In(toChild)  BY <2>4
  <2> QED  BY <2>2, <2>4, <2>6, <2>7, <2>8, <2>9
<1>18. CASE UNCHANGED vars
  BY <1>18 DEF vars, adapterVars, linkVars, childVars, runVars, processVars
<1> QED
  BY <1>1, <1>2, <1>3, <1>4, <1>5, <1>6, <1>7, <1>8, <1>9, <1>10, <1>11, <1>12, <1>13, <1>14,
     <1>15, <1>16, <1>17, <1>18
  DEF Next, ClientStep, Sidecar, ChildShutsDown, ChildCrashes

-----------------------------------------------------------------------------
(* One request at a time *)

\* How many requests are in a pipe after messages were put at its end ...
LEMMA RequestsConcat ==
    ASSUME NEW s \in Seq(Message), NEW t \in Seq(Message), OneRequest(s), NoRequest(t)
    PROVE  OneRequest(s \o t)
<1>1. /\ s \o t \in Seq(Message) /\ Len(s \o t) = Len(s) + Len(t)
      /\ \A i \in 1 .. Len(s) + Len(t) :
            (s \o t)[i] = IF i <= Len(s) THEN s[i] ELSE t[i - Len(s)]
  BY ConcatProperties
<1>2. /\ DOMAIN s = 1 .. Len(s) /\ DOMAIN t = 1 .. Len(t)
      /\ DOMAIN (s \o t) = 1 .. Len(s) + Len(t) /\ Len(s) \in Nat /\ Len(t) \in Nat
  BY <1>1, LenProperties
<1>3. ASSUME NEW i \in DOMAIN (s \o t), IsRequest((s \o t)[i])
      PROVE  i \in DOMAIN s /\ IsRequest(s[i])
  <2>1. CASE i <= Len(s)  BY <2>1, <1>1, <1>2, <1>3
  <2>2. CASE ~(i <= Len(s))
    <3>1. i - Len(s) \in 1 .. Len(t) /\ (s \o t)[i] = t[i - Len(s)]
      BY <2>2, <1>1, <1>2
    <3> QED  BY <3>1, <1>2, <1>3 DEF NoRequest, In
  <2> QED  BY <2>1, <2>2
<1> QED  BY <1>3 DEF OneRequest

LEMMA RequestsAppend ==
    ASSUME NEW s \in Seq(Message), NEW x \in Message, OneRequest(s),
           IsRequest(x) => NoRequest(s)
    PROVE  OneRequest(Append(s, x))
<1>1. /\ Append(s, x) \in Seq(Message) /\ Len(Append(s, x)) = Len(s) + 1
      /\ \A i \in 1 .. Len(s) : Append(s, x)[i] = s[i]
      /\ Append(s, x)[Len(s) + 1] = x
  BY AppendProperties
<1>2. DOMAIN s = 1 .. Len(s) /\ DOMAIN Append(s, x) = 1 .. Len(s) + 1 /\ Len(s) \in Nat
  BY <1>1, LenProperties
<1>3. \A i \in 1 .. Len(s) : IsRequest(s[i]) => ~IsRequest(x)
  BY <1>2 DEF NoRequest, In
<1> QED  BY <1>1, <1>2, <1>3 DEF OneRequest

\* ... and after the first one was taken.
LEMMA RequestsTail ==
    ASSUME NEW s \in Seq(Message), s # <<>>, OneRequest(s)
    PROVE  OneRequest(Tail(s)) /\ (IsRequest(Head(s)) => NoRequest(Tail(s)))
<1>1. /\ Head(s) \in Message /\ Tail(s) \in Seq(Message) /\ Len(Tail(s)) = Len(s) - 1
      /\ \A i \in 1 .. Len(Tail(s)) : Tail(s)[i] = s[i + 1]
  BY HeadTailProperties
<1>2. /\ DOMAIN s = 1 .. Len(s) /\ DOMAIN Tail(s) = 1 .. Len(s) - 1 /\ Len(s) \in Nat \ {0}
  BY <1>1, LenProperties, EmptySeq
<1>3. Head(s) = s[1]  OBVIOUS
<1>4. \A i \in DOMAIN Tail(s) : i \in Nat /\ i >= 1 /\ i + 1 \in DOMAIN s /\ Tail(s)[i] = s[i + 1]
  BY <1>1, <1>2
<1>5. OneRequest(Tail(s))
  <2> SUFFICES ASSUME NEW i \in DOMAIN Tail(s), NEW j \in DOMAIN Tail(s),
                      IsRequest(Tail(s)[i]), IsRequest(Tail(s)[j])
               PROVE  i = j
    BY DEF OneRequest
  <2>1. i + 1 = j + 1  BY <1>4 DEF OneRequest
  <2> QED  BY <2>1, <1>4
<1>6. IsRequest(Head(s)) => NoRequest(Tail(s))
  <2> SUFFICES ASSUME IsRequest(Head(s)), NEW i \in DOMAIN Tail(s), IsRequest(Tail(s)[i])
               PROVE  FALSE
    BY DEF NoRequest, In
  <2>1. 1 \in DOMAIN s  BY <1>2
  <2>2. i + 1 = 1  BY <2>1, <1>3, <1>4 DEF OneRequest
  <2> QED  BY <2>2, <1>4
<1> QED  BY <1>5, <1>6

\* A failure stays a failure.
LEMMA FailuresCount == TypeOK /\ [Next]_vars /\ failures' = 0 => failures = 0
<1> SUFFICES ASSUME TypeOK, [Next]_vars PROVE failures' = failures \/ failures' = failures + 1
  BY DEF TypeOK
<1>1. CASE Start \/ Call \/ SessionTree \/ OtherNotification
  BY <1>1 DEF Start, Call, SessionTree, OtherNotification
<1>2. CASE ClientStep
  BY <1>2 DEF ClientStep, RunBegin, RunStep, RunFinish, RunFailed
<1>3. CASE HandleResponse \/ RequestTimeout \/ TimerFires \/ ChildExit
  BY <1>3 DEF HandleResponse, RequestTimeout, TimerFires, ChildExit
<1>4. CASE CloseBegin \/ CloseEnd
  BY <1>4 DEF CloseBegin, CloseEnd
<1>5. CASE Sidecar \/ ChildCrashes \/ \E m \in working : ChildRefuses(m)
  BY <1>5 DEF Sidecar, ChildReceives, ChildShutsDown, ChildCrashes, Gone, ChildAnswers, ChildRefuses
<1>6. CASE UNCHANGED vars
  BY <1>6 DEF vars, runVars
<1> QED  BY <1>1, <1>2, <1>3, <1>4, <1>5, <1>6 DEF Next

LEMMA FlightStep == TypeOK /\ LifeInv /\ OpenInv /\ FlightInv /\ [Next]_vars => FlightInv'
<1> SUFFICES ASSUME TypeOK, LifeInv, OpenInv, FlightInv, [Next]_vars, failures' = 0
             PROVE  FlightInv'
  BY DEF FlightInv
<1>0. In(<<>>) = {} /\ OneRequest(<<>>) /\ NoRequest(<<>>)
  BY DEF In, OneRequest, NoRequest
<1>f. failures = 0
  BY FailuresCount
<1> USE <1>f DEF FlightInv, Outstanding, Arrived
<1>r. RunAfterEnsure = run \/ (run = "none" /\ RunAfterEnsure = "begin")
  BY DEF RunAfterEnsure
<1>1. CASE Start
  BY <1>1, <1>r DEF Start, adapterVars, childVars, processVars
<1>2. CASE Call
  BY <1>2, <1>r DEF Call, adapterVars, childVars, processVars
<1>n. ASSUME NEW n \in {Note} \cup 0 .. MaxGen, Notify(n),
             UNCHANGED <<working, toClient, run, req, phase>>
      PROVE  FlightInv'
  <2>1. <<n>> \in Seq({Note} \cup 0 .. MaxGen)  OBVIOUS
  <2>2. AsMessages(<<n>>) \in Seq(Message) /\ NoRequest(AsMessages(<<n>>)) /\ toChild \in Seq(Message)
    BY <2>1, Messages DEF NoRequest, IsRequest, TypeOK
  <2>3. OneRequest(toChild)'
    BY <1>n, <2>2, RequestsConcat DEF Notify
  <2>4. \A m \in In(toChild)' : m \in In(toChild) \/ ~IsRequest(m)
    BY <1>n, NotifyAdds DEF IsRequest
  <2> QED  BY <1>n, <2>3, <2>4 DEF NoRequest
<1>3. CASE SessionTree
  <2>1. CASE phase = "open"
    <3>1. gen + 1 \in {Note} \cup 0 .. MaxGen  BY <1>3, BoundsAssumption DEF SessionTree, TypeOK
    <3> QED  BY <1>3, <2>1, <3>1, <1>n DEF SessionTree
  <2>2. CASE phase # "open"
    BY <1>3, <2>2 DEF SessionTree
  <2> QED  BY <2>1, <2>2
<1>4. CASE OtherNotification
  BY <1>4, <1>n DEF OtherNotification, linkVars
<1>5. CASE RunBegin
  <2>1. CASE child # NoChild
    <3>1. \A m \in Outstanding : ~IsRequest(m)  BY <1>5 DEF RunBegin, LifeInv
    <3> QED
      BY <1>5, <2>1, <3>1 DEF RunBegin, SpawnIfNeeded, childVars, processVars
  <2>2. CASE child = NoChild
    <3>1. Spawn  BY <1>5, <2>2 DEF RunBegin, SpawnIfNeeded
    <3> QED  BY <1>5, <1>0, <3>1 DEF RunBegin, Spawn
  <2> QED  BY <2>1, <2>2
<1>6. CASE RunStep
  <2>0. \A m \in Outstanding : ~IsRequest(m)  BY <1>6 DEF RunStep, LifeInv
  <2>w. working = {}  BY <2>0, Typed DEF TypeOK
  <2>1. ASSUME NEW kind \in {"initialize", "open"}, Request(kind, IF kind = "open" THEN "open" ELSE "init"),
               UNCHANGED <<working, toClient>>
        PROVE  FlightInv'
    <3>1. CASE connected
      <4> DEFINE r == [kind |-> kind, id |-> req + 1, key |-> want]
      <4>1. /\ toChild' = Append(toChild, r) /\ req' = req + 1
            /\ run' \in {"init", "open"}
        BY <2>1, <3>1 DEF Request
      <4>2. r \in Message /\ toChild \in Seq(Message)  BY DEF TypeOK, Message, Requests
      <4>3. In(toChild)' = In(toChild) \cup {r}  BY <4>1, <4>2, InAppend
      <4>4. OneRequest(toChild)'  BY <4>1, <4>2, <2>0, RequestsAppend DEF NoRequest
      <4>5. r.id = req' /\ \A x \in In(toClient) : x.id # req'
        BY <4>1, Typed DEF TypeOK, OpenInv
      <4> HIDE DEF r
      <4> QED  BY <2>0, <2>1, <2>w, <4>1, <4>3, <4>4, <4>5
    <3>2. CASE ~connected
      BY <2>0, <2>1, <3>2 DEF Request
    <3> QED  BY <3>1, <3>2
  <2>2. CASE UNCHANGED <<req, toChild, working, toClient, phase>>
    BY <2>2, <2>0
  <2> QED  BY <1>6, <2>1, <2>2 DEF RunStep, linkVars
<1>7. CASE RunFinish
  <2>0. \A m \in Outstanding : ~IsRequest(m)  BY <1>7 DEF RunFinish, LifeInv
  <2>1. CASE connected
    <3>2. toChild' = toChild \o AsMessages(backlog)  BY <1>7, <2>1 DEF RunFinish
    <3>3. AsMessages(backlog) \in Seq(Message) /\ NoRequest(AsMessages(backlog)) /\ toChild \in Seq(Message)
      BY Messages DEF NoRequest, IsRequest, TypeOK
    <3>4. In(toChild)' = In(toChild) \cup In(AsMessages(backlog)) /\ OneRequest(toChild)'
      BY <3>2, <3>3, InConcat, RequestsConcat
    <3> QED  BY <1>7, <2>0, <3>3, <3>4 DEF RunFinish, NoRequest
  <2>2. CASE ~connected
    BY <1>7, <2>0, <2>2 DEF RunFinish
  <2> QED  BY <2>1, <2>2
<1>8. CASE RunFailed
  BY <1>8 DEF RunFailed, processVars
<1>9. CASE HandleResponse
  <2>1. Head(toClient) \in In(toClient) /\ In(toClient)' \subseteq In(toClient)
    BY <1>9, InTail DEF HandleResponse, TypeOK
  <2>2. run' = run \/ Head(toClient) \in Arrived
    BY <1>9, <2>1 DEF HandleResponse
  <2> QED  BY <1>9, <2>1, <2>2 DEF HandleResponse
<1>10. CASE RequestTimeout
  BY <1>10 DEF RequestTimeout, TypeOK
<1>11. CASE TimerFires
  BY <1>11, <1>r DEF TimerFires, linkVars, processVars
<1>12. CASE ChildExit
  <2>1. toChild = <<>> /\ working = {}
    BY <1>12 DEF ChildExit, LifeInv
  <2> QED  BY <1>12, <1>0, <2>1 DEF ChildExit, processVars
<1>13. CASE CloseBegin
  <2> DEFINE m == [kind |-> "shutdown", id |-> 0, key |-> NoKey]
  <2>1. m \in Message /\ ~IsRequest(m)  BY DEF Message, IsRequest
  <2>2. toChild' = toChild \/ (In(toChild)' = In(toChild) \cup {m} /\ OneRequest(toChild)')
    BY <1>13, <2>1, InAppend, RequestsAppend DEF CloseBegin, TypeOK
  <2> HIDE DEF m
  <2> QED  BY <1>13, <2>1, <2>2 DEF CloseBegin, NoRequest
<1>14. CASE CloseEnd
  BY <1>14 DEF CloseEnd, processVars
<1>15. CASE ChildReceives
  <2> DEFINE m == Head(toChild)
  <2>1. /\ m \in In(toChild) /\ In(toChild)' \subseteq In(toChild) /\ m \in Message
        /\ OneRequest(toChild)' /\ (IsRequest(m) => NoRequest(toChild)')
    BY <1>15, InTail, RequestsTail DEF ChildReceives, TypeOK
  <2>2. UNCHANGED <<toClient, run, req, phase>>
    BY <1>15 DEF ChildReceives, clientVars, linkVars
  <2>3. CASE working' = working
    BY <2>1, <2>2, <2>3 DEF NoRequest
  <2>4. CASE IsRequest(m) /\ working' = working \cup {m}
    <3>1. working = {}  BY <2>1, <2>4 DEF NoRequest
    <3> QED  BY <2>1, <2>2, <2>4, <3>1
  <2> QED  BY <1>15, <2>1, <2>3, <2>4, Typed DEF ChildReceives
<1>16. CASE Gone
  BY <1>16, <1>0 DEF Gone
<1>17. ASSUME NEW m \in working, ChildAnswers(m) \/ ChildRefuses(m) PROVE FlightInv'
  <2>1. CASE ChildAnswers(m)
    <3> DEFINE x == [id |-> m.id, ok |-> TRUE]
               S == [id : Nat, ok : BOOLEAN]
    <3>1. m \in Requests /\ m.id \in Nat  BY Typed DEF TypeOK, Requests
    <3>2. x \in S /\ toClient \in Seq(S) /\ x.ok  BY <3>1 DEF TypeOK
    <3>3. toClient' = toClient \/ toClient' = Append(toClient, x)  BY <2>1 DEF ChildAnswers
    <3> HIDE DEF x, S
    <3>a. In(Append(toClient, x)) = In(toClient) \cup {x}  BY <3>2, InAppend
    <3>4. \A r \in In(toClient)' : r.ok  BY <3>a, <3>2, <3>3
    <3>5. working' = {} /\ toChild' = toChild /\ NoRequest(toChild)
      BY <2>1 DEF ChildAnswers
    <3> QED  BY <3>4, <3>5 DEF NoRequest
  <2>2. CASE ChildRefuses(m)
    BY <2>2 DEF ChildRefuses, TypeOK
  <2> QED  BY <1>17, <2>1, <2>2
<1>18. CASE UNCHANGED vars
  BY <1>18 DEF vars, linkVars, runVars, processVars
<1> QED
  BY <1>1, <1>2, <1>3, <1>4, <1>5, <1>6, <1>7, <1>8, <1>9, <1>10, <1>11, <1>12, <1>13, <1>14,
     <1>15, <1>16, <1>17, <1>18
  DEF Next, ClientStep, Sidecar, ChildShutsDown, ChildCrashes

-----------------------------------------------------------------------------
(* Keys and the backlog *)

\* A backlog that a branch change was put into ends with it.
LEMMA KeptBranch ==
    ASSUME NEW s \in Seq({Note} \cup 0 .. MaxGen), NEW g \in 0 .. MaxGen,
           NEW t, t = Kept(Append(s, g))
    PROVE  /\ BranchesIn(t) # {} /\ \A i \in LastIn(t) : t[i] = g
<1> DEFINE S == {Note} \cup 0 .. MaxGen
           u == Append(s, g)
<1>1. /\ u \in Seq(S) /\ Len(u) = Len(s) + 1 /\ u[Len(s) + 1] = g /\ Len(s) \in Nat
  BY AppendProperties, LenProperties
<1>2. /\ DOMAIN t = 1 .. Len(t) /\ Len(t) \in Nat \ {0} /\ t[Len(t)] = g
  <2>1. CASE Len(u) > BacklogLimit
    <3>1. t = Tail(u) /\ u # <<>>  BY <2>1, <1>1 DEF Kept
    <3>2. /\ t \in Seq(S) /\ Len(t) = Len(s) /\ \A i \in 1 .. Len(t) : t[i] = u[i + 1]
      BY <3>1, <1>1, HeadTailProperties
    <3>3. Len(t) \in 1 .. Len(t) /\ Len(t) \in Nat \ {0}
      BY <3>2, <2>1, <1>1, BoundsAssumption
    <3> QED  BY <3>2, <3>3, <1>1, LenProperties
  <2>2. CASE ~(Len(u) > BacklogLimit)
    <3>1. t = u  BY <2>2 DEF Kept
    <3> QED  BY <3>1, <1>1, LenProperties
  <2> QED  BY <2>1, <2>2
<1>3. Len(t) \in BranchesIn(t)
  BY <1>2 DEF BranchesIn, IsBranch, Note
<1>4. ASSUME NEW i \in LastIn(t) PROVE i = Len(t)
  <2>1. i \in 1 .. Len(t) /\ Len(t) =< i  BY <1>2, <1>3 DEF LastIn, BranchesIn
  <2>2. Len(t) \in Nat  BY <1>2
  <2> HIDE DEF u
  <2> QED  BY <2>1, <2>2
<1> QED  BY <1>2, <1>3, <1>4

\* Another notification shifts no branch change out but the first of a full backlog.
LEMMA KeptNote ==
    ASSUME NEW s \in Seq({Note} \cup 0 .. MaxGen), NEW t, t = Kept(Append(s, Note)),
           Len(s) =< BacklogLimit, ~(Len(s) = BacklogLimit /\ IsBranch(Head(s))),
           NEW g, \A i \in LastIn(s) : s[i] = g
    PROVE  /\ BranchesIn(s) # {} => BranchesIn(t) # {}
           /\ \A i \in LastIn(t) : t[i] = g
<1> DEFINE S == {Note} \cup 0 .. MaxGen
           u == Append(s, Note)
<1>1. /\ u \in Seq(S) /\ Len(u) = Len(s) + 1 /\ u[Len(s) + 1] = Note /\ Len(s) \in Nat
      /\ \A i \in 1 .. Len(s) : u[i] = s[i]
      /\ DOMAIN s = 1 .. Len(s) /\ DOMAIN u = 1 .. Len(s) + 1
  BY AppendProperties, LenProperties
<1>2. BranchesIn(u) = BranchesIn(s)
  BY <1>1 DEF BranchesIn, IsBranch
<1>3. LastIn(u) = LastIn(s)
  BY <1>2 DEF LastIn
<1>4. \A i \in BranchesIn(s) : u[i] = s[i]
  BY <1>1 DEF BranchesIn
<1>5. CASE Len(u) > BacklogLimit
  <2>1. t = Tail(u) /\ u # <<>>  BY <1>5, <1>1 DEF Kept
  <2>2. /\ t \in Seq(S) /\ Len(t) = Len(s) /\ \A i \in 1 .. Len(t) : t[i] = u[i + 1]
    BY <2>1, <1>1, HeadTailProperties
  <2>3. DOMAIN t = 1 .. Len(s)  BY <2>2, LenProperties
  <2>4. Len(s) = BacklogLimit /\ Len(s) >= 1
    <3>1. Len(s) + 1 > BacklogLimit /\ Len(s) \in Nat  BY <1>5, <1>1
    <3> QED  BY <3>1, BoundsAssumption
  <2>5. 1 \notin BranchesIn(s)
    <3>1. ~IsBranch(s[1])  BY <2>4
    <3> QED  BY <3>1 DEF BranchesIn
  <2>6. ASSUME NEW i \in BranchesIn(t) PROVE i \in Nat /\ i + 1 \in BranchesIn(s) /\ t[i] = s[i + 1]
    <3>1. i \in 1 .. Len(s) /\ t[i] = u[i + 1] /\ IsBranch(t[i])
      BY <2>2, <2>3 DEF BranchesIn
    <3>2. i + 1 \in BranchesIn(u)  BY <3>1, <1>1 DEF BranchesIn
    <3> QED  BY <3>1, <3>2, <1>2, <1>4
  <2>7. ASSUME NEW j \in BranchesIn(s) PROVE j \in Nat /\ j - 1 \in BranchesIn(t)
    <3>1. j \in 1 .. Len(s) /\ j # 1 /\ IsBranch(s[j]) /\ u[j] = s[j]
      BY <2>5, <1>1 DEF BranchesIn
    <3>2. j - 1 \in 1 .. Len(s) /\ (j - 1) + 1 = j  BY <3>1, <1>1
    <3>3. t[j - 1] = u[j]  BY <2>2, <3>2
    <3> QED  BY <3>1, <3>2, <3>3, <2>3 DEF BranchesIn
  <2>8. ASSUME NEW i \in LastIn(t) PROVE t[i] = g
    <3>1. i \in BranchesIn(t) /\ \A j \in BranchesIn(t) : j =< i  BY DEF LastIn
    <3>2. \A j \in BranchesIn(s) : j =< i + 1
      <4> SUFFICES ASSUME NEW j \in BranchesIn(s) PROVE j =< i + 1
        OBVIOUS
      <4>1. j \in Nat /\ i \in Nat /\ j - 1 =< i  BY <2>6, <2>7, <3>1
      <4> QED  BY <4>1
    <3>3. i + 1 \in LastIn(s) /\ t[i] = s[i + 1]  BY <2>6, <3>1, <3>2 DEF LastIn
    <3> QED  BY <3>3
  <2> QED  BY <2>7, <2>8
<1>6. CASE ~(Len(u) > BacklogLimit)
  <2>1. t = u  BY <1>6 DEF Kept
  <2>2. \A i \in LastIn(u) : u[i] = g  BY <1>3, <1>4 DEF LastIn
  <2> QED  BY <2>1, <2>2, <1>2
<1> QED  BY <1>5, <1>6

\* A backlog never holds more than its limit, and nothing new but the notification.
LEMMA KeptLimit ==
    ASSUME NEW s \in Seq({Note} \cup 0 .. MaxGen), NEW n \in {Note} \cup 0 .. MaxGen,
           Len(s) =< BacklogLimit
    PROVE  /\ Len(Kept(Append(s, n))) =< BacklogLimit
           /\ In(Kept(Append(s, n))) \subseteq In(s) \cup {n}
<1> DEFINE S == {Note} \cup 0 .. MaxGen
           u == Append(s, n)
<1>1. u \in Seq(S) /\ Len(u) = Len(s) + 1 /\ Len(s) \in Nat
  BY AppendProperties, LenProperties
<1>2. In(u) = In(s) \cup {n} /\ u # <<>>  BY InAppend
<1>3. CASE Len(u) > BacklogLimit
  <2> HIDE DEF u
  <2>a. Len(Tail(u)) = Len(u) - 1  BY <1>1, <1>2, HeadTailProperties
  <2>1. Len(Tail(u)) = Len(s) /\ In(Tail(u)) \subseteq In(u)
    BY <1>1, <1>2, <2>a, InTail
  <2> QED  BY <1>2, <1>3, <2>1 DEF Kept, u
<1>4. CASE ~(Len(u) > BacklogLimit)
  BY <1>1, <1>2, <1>4, BoundsAssumption DEF Kept
<1> QED  BY <1>3, <1>4

LEMMA KeyStep == TypeOK /\ LifeInv /\ KeyInv /\ [Next]_vars => KeyInv'
<1> SUFFICES ASSUME TypeOK, LifeInv, KeyInv, [Next]_vars PROVE KeyInv'
  OBVIOUS
<1> USE DEF KeyInv, Outstanding
<1>0. In(<<>>) = {} /\ Len(<<>>) = 0  BY DEF In
<1>g. gen \in Nat /\ NoKey < gen /\ 0 =< BacklogLimit  BY BoundsAssumption DEF TypeOK, NoKey
<1>1. CASE Start
  BY <1>1, <1>g DEF Start, adapterVars, processVars
<1>2. CASE Call
  BY <1>2 DEF Call, adapterVars, processVars
<1>n. ASSUME NEW n \in {Note} \cup 0 .. MaxGen, n =< gen', gen =< gen', gen' \in Nat,
             Notify(n), want' =< gen', UNCHANGED <<working, sess>>
      PROVE  KeyInv'
  <2>1. \A m \in In(toChild)' : m \in In(toChild) \/ m.key =< gen'
    BY <1>n, NotifyAdds
  <2>2. Len(backlog') =< BacklogLimit /\ \A x \in In(backlog)' : x \in In(backlog) \/ x = n
    BY <1>n, KeptLimit DEF Notify, TypeOK
  <2>3. /\ \A x \in In(backlog) : x \in Int
        /\ \A m \in Outstanding : m.key \in Int /\ sess \in Int
    <3>1. \A x \in In(backlog) : x \in {Note} \cup 0 .. MaxGen
      BY ElementOfSeq, LenProperties DEF In, TypeOK
    <3>2. \A m \in Message : m.key \in Int
      BY DEF Message, Requests, Notifications, SessionKey, NoKey, Note
    <3> QED  BY <3>1, <3>2, Typed DEF Note, NoKey, TypeOK, SessionKey
  <2>4. \A x \in In(backlog)' : x =< gen'
    BY <2>2, <2>3, <1>n, <1>g
  <2>5. \A m \in Outstanding' : m.key =< gen'
    BY <2>1, <2>3, <1>n, <1>g
  <2>6. sess' =< gen'
    BY <1>n, <1>g DEF TypeOK, SessionKey, NoKey
  <2> QED  BY <1>n, <2>2, <2>4, <2>5, <2>6
<1>3. CASE SessionTree
  <2>1. CASE phase = "open"
    <3>1. gen + 1 \in {Note} \cup 0 .. MaxGen /\ gen' = gen + 1 /\ want' = gen + 1 /\ Notify(gen + 1)
      BY <1>3, <2>1, BoundsAssumption DEF SessionTree, TypeOK
    <3>2. gen + 1 =< gen' /\ gen =< gen' /\ gen' \in Nat  BY <3>1, <1>g
    <3> QED  BY <1>3, <3>1, <3>2, <1>n DEF SessionTree
  <2>2. CASE phase # "open"
    <3>1. /\ \A x \in In(backlog) : x \in {Note} \cup 0 .. MaxGen
          /\ \A m \in Message : m.key \in {Note, NoKey} \cup 0 .. MaxGen
      BY ElementOfSeq, LenProperties DEF In, TypeOK, Message, Requests, Notifications, SessionKey
    <3>2. /\ gen' = gen + 1 /\ UNCHANGED <<want, sess, backlog, toChild, working>>
      BY <1>3, <2>2 DEF SessionTree
    <3>3. \A m \in Outstanding : m.key \in Int  BY <3>1, Typed DEF Note, NoKey
    <3>4. \A x \in In(backlog) : x \in Int  BY <3>1 DEF Note
    <3>5. want \in Int /\ sess \in Int  BY DEF TypeOK, SessionKey, NoKey
    <3> QED  BY <3>2, <3>3, <3>4, <3>5, <1>g
  <2> QED  BY <2>1, <2>2
<1>4. CASE OtherNotification
  <2>1. Note =< gen' /\ gen' = gen /\ want' = want  BY <1>4, <1>g DEF OtherNotification, linkVars, Note
  <2> QED  BY <1>4, <2>1, <1>g, <1>n DEF OtherNotification
<1>5. CASE RunBegin
  <2>1. CASE child # NoChild
    BY <1>5, <2>1 DEF RunBegin, SpawnIfNeeded, adapterVars, processVars
  <2>2. CASE child = NoChild
    <3>1. Spawn  BY <1>5, <2>2 DEF RunBegin, SpawnIfNeeded
    <3> QED  BY <1>5, <1>0, <1>g, <3>1 DEF RunBegin, Spawn, adapterVars, NoKey
  <2> QED  BY <2>1, <2>2
<1>6. CASE RunStep
  <2>1. ASSUME NEW kind \in {"initialize", "open"}, NEW next, Request(kind, next)
        PROVE  \A m \in In(toChild)' : m \in In(toChild) \/ m.key = want
    <3>1. CASE connected
      <4> DEFINE r == [kind |-> kind, id |-> req + 1, key |-> want]
      <4>1. toChild' = Append(toChild, r) /\ r.key = want  BY <2>1, <3>1 DEF Request
      <4>2. r \in Message /\ toChild \in Seq(Message)  BY DEF TypeOK, Message, Requests
      <4> HIDE DEF r
      <4>3. In(toChild)' = In(toChild) \cup {r}  BY <4>1, <4>2, InAppend
      <4> QED  BY <4>1, <4>3
    <3>2. CASE ~connected
      BY <2>1, <3>2 DEF Request
    <3> QED  BY <3>1, <3>2
  <2>2. \A m \in In(toChild)' : m \in In(toChild) \/ m.key = want
    BY <1>6, <2>1 DEF RunStep
  <2> QED  BY <1>6, <2>2 DEF RunStep, adapterVars, linkVars
<1>7. CASE RunFinish
  <2>1. \A m \in In(toChild)' : m \in In(toChild) \/ m.key \in In(backlog)
    <3>1. AsMessages(backlog) \in Seq(Message) /\ toChild \in Seq(Message)
      BY Messages DEF TypeOK
    <3>2. In(toChild \o AsMessages(backlog)) = In(toChild) \cup In(AsMessages(backlog))
      BY <3>1, InConcat
    <3> QED  BY <1>7, <3>2, Messages DEF RunFinish, TypeOK
  <2>2. want' =< gen
    <3>1. \A i \in LastIn(backlog) : backlog[i] \in In(backlog)  BY DEF LastIn, BranchesIn, In
    <3> QED  BY <1>7, <3>1 DEF RunFinish
  <2> QED  BY <1>7, <1>0, <1>g, <2>1, <2>2 DEF RunFinish, adapterVars
<1>8. CASE RunFailed
  BY <1>8 DEF RunFailed, adapterVars, processVars
<1>9. CASE HandleResponse
  BY <1>9 DEF HandleResponse, adapterVars
<1>10. CASE RequestTimeout
  BY <1>10 DEF RequestTimeout, adapterVars, linkVars, processVars
<1>11. CASE TimerFires
  BY <1>11 DEF TimerFires, adapterVars, linkVars, processVars
<1>12. CASE ChildExit
  BY <1>12 DEF ChildExit, adapterVars, processVars
<1>13. CASE CloseBegin
  <2> DEFINE m == [kind |-> "shutdown", id |-> 0, key |-> NoKey]
  <2>1. m \in Message /\ m.key =< gen  BY <1>g DEF Message, NoKey
  <2>2. toChild' = toChild \/ In(toChild)' = In(toChild) \cup {m}
    BY <1>13, <2>1, InAppend DEF CloseBegin, TypeOK
  <2> HIDE DEF m
  <2> QED  BY <1>13, <2>1, <2>2 DEF CloseBegin, adapterVars
<1>14. CASE CloseEnd
  BY <1>14, <1>0, <1>g DEF CloseEnd, adapterVars, processVars
<1>15. CASE ChildReceives
  <2>1. Head(toChild) \in In(toChild) /\ In(toChild)' \subseteq In(toChild)
    BY <1>15, InTail DEF ChildReceives, TypeOK
  <2> QED
    BY <1>15, <2>1 DEF ChildReceives, BranchApplied, clientVars, adapterVars, linkVars
<1>16. CASE Gone
  BY <1>16, <1>0, <1>g DEF Gone, clientVars, adapterVars, linkVars, NoKey
<1>17. ASSUME NEW m \in working, ChildAnswers(m) \/ ChildRefuses(m) PROVE KeyInv'
  BY <1>17 DEF ChildAnswers, ChildRefuses, clientVars, adapterVars, linkVars
<1>18. CASE UNCHANGED vars
  BY <1>18 DEF vars, adapterVars, linkVars, runVars, processVars
<1> QED
  BY <1>1, <1>2, <1>3, <1>4, <1>5, <1>6, <1>7, <1>8, <1>9, <1>10, <1>11, <1>12, <1>13, <1>14,
     <1>15, <1>16, <1>17, <1>18
  DEF Next, ClientStep, Sidecar, ChildShutsDown, ChildCrashes

-----------------------------------------------------------------------------
(* The session follows the branch *)

\* A link that is in order was in order.
LEMMA OrderKept == TypeOK /\ [Next]_vars /\ InOrder' => InOrder
<1> SUFFICES ASSUME TypeOK, [Next]_vars, InOrder' PROVE ~shed /\ phase = "open"
  BY FailuresCount DEF InOrder
<1> USE DEF InOrder, TypeOK
<1>1. CASE Start \/ Call \/ SessionTree \/ OtherNotification
  BY <1>1 DEF Start, Call, SessionTree, OtherNotification, Notify, adapterVars, linkVars
<1>2. CASE ClientStep
  BY <1>2 DEF ClientStep, RunBegin, RunStep, RunFinish, RunFailed, adapterVars, linkVars
<1>3. CASE HandleResponse \/ RequestTimeout \/ TimerFires \/ ChildExit
  BY <1>3 DEF HandleResponse, RequestTimeout, TimerFires, ChildExit, adapterVars, linkVars
<1>4. CASE CloseBegin \/ CloseEnd
  BY <1>4 DEF CloseBegin, CloseEnd, adapterVars, linkVars
<1>5. CASE Sidecar \/ ChildCrashes \/ \E m \in working : ChildRefuses(m)
  BY <1>5 DEF Sidecar, ChildReceives, ChildShutsDown, ChildCrashes, Gone, ChildAnswers, ChildRefuses,
              clientVars, adapterVars, linkVars
<1>6. CASE UNCHANGED vars
  BY <1>6 DEF vars, adapterVars, linkVars
<1> QED  BY <1>1, <1>2, <1>3, <1>4, <1>5, <1>6 DEF Next

IInv == TypeOK /\ LifeInv /\ OpenInv /\ FlightInv /\ KeyInv /\ SyncInv

\* While requests are outstanding the link is being opened.
LEMMA OutstandingFacts ==
    ASSUME TypeOK, FlightInv, failures = 0, phase = "open", NEW m \in Outstanding, IsRequest(m)
    PROVE  m.id = req /\ Arrived = {} /\ run \in {"init", "open"}
  BY DEF FlightInv

\* #ensureRunning keeps the link in order.
LEMMA EnsureSync ==
    ASSUME IInv, InOrder', InOrder, phase = "open", run' = run \/ run' = RunAfterEnsure,
           want' = want \/ want' = gen, Started',
           UNCHANGED <<gen, activeKey, connected, ready, initialized, req, runKey, backlog,
                       toChild, toClient, working, sess>>
    PROVE  SyncInv'
<1>1. WantInv /\ ChildInv  BY DEF IInv, SyncInv
<1>2. run' = run \/ (run = "none" /\ run' = "begin" /\ (ready => ~connected))
  BY <1>1 DEF RunAfterEnsure, WantInv
<1>3. want' = gen'
  BY <1>1 DEF WantInv, Started
<1>4. WantInv'
  BY <1>1, <1>2, <1>3 DEF WantInv, Pending, LastIn, BranchesIn
<1>5. ChildInv'
  BY <1>1, <1>2 DEF ChildInv, Pending, Behind, Outstanding, Arrived
<1> QED  BY <1>4, <1>5 DEF SyncInv

\* A notification reaches the child or is kept until it can.
LEMMA NotifySync ==
    ASSUME IInv, InOrder, InOrder', NEW n \in {Note} \cup 0 .. MaxGen, Notify(n), Idle, Started,
           \/ n = Note /\ UNCHANGED <<gen, want, activeKey>>
           \/ /\ n = gen + 1 /\ gen' = n /\ want' = n
              /\ activeKey' = IF ready THEN n ELSE activeKey,
           UNCHANGED <<connected, ready, initialized, run, req, runKey, toClient, working, sess>>
    PROVE  SyncInv'
<1> DEFINE S == {Note} \cup 0 .. MaxGen
<1>0. WantInv /\ ChildInv /\ ~shed /\ ~shed' /\ TypeOK /\ LifeInv /\ KeyInv
  BY DEF IInv, SyncInv, InOrder
<1>a. Started' /\ want' = gen'  BY <1>0 DEF WantInv, Started, NoKey, TypeOK
<1>b. run # "finish" /\ run # "failed"  BY DEF Idle, Microtask
<1>1. CASE ready
  <2>1. child # NoChild /\ run \notin {"finish", "open", "failed"}  BY <1>0, <1>1, <1>b DEF LifeInv, WantInv
  <2>2. backlog' = backlog /\ backlog = <<>> /\ activeKey' = gen'
    BY <1>0, <1>1, <2>1 DEF Notify, Deliverable, WantInv
  <2>3. WantInv'
    BY <1>0, <1>1, <1>a, <2>1, <2>2 DEF WantInv, LastIn, BranchesIn
  <2>4. ASSUME connected PROVE sess = gen' \/ Behind'
    <3>1. toChild' = toChild \o AsMessages(<<n>>)
      BY <1>1, <2>1, <2>4 DEF Notify, Deliverable
    <3>2. <<n>> \in Seq(S) /\ 1 \in DOMAIN <<n>> /\ <<n>>[1] = n  OBVIOUS
    <3>3. AsMessages(<<n>>) \in Seq(Message) /\ toChild \in Seq(Message)
      BY <3>2, Messages, <1>0 DEF TypeOK
    <3>4. In(toChild)' = In(toChild) \cup In(AsMessages(<<n>>))  BY <3>1, <3>3, InConcat
    <3>5. \E m \in In(AsMessages(<<n>>)) : m.kind = "notify" /\ m.key = n
      <4>1. AsMessages(<<n>>)[1] = [kind |-> "notify", id |-> 0, key |-> n]
        BY <3>2, Messages
      <4>2. AsMessages(<<n>>)[1] \in In(AsMessages(<<n>>))  BY <3>2, Messages
      <4> QED  BY <4>1, <4>2
    <3>6. CASE n = gen'  BY <3>4, <3>5, <3>6 DEF Behind
    <3>7. CASE gen' = gen  BY <1>0, <1>1, <2>4, <3>4, <3>7 DEF ChildInv, Behind
    <3> QED  BY <3>6, <3>7
  <2>5. ChildInv'
    BY <1>1, <2>1, <2>4 DEF ChildInv
  <2> QED  BY <2>3, <2>5 DEF SyncInv
<1>2. CASE ~ready
  <2>1. /\ backlog' = Kept(Append(backlog, n)) /\ toChild' = toChild
        /\ ~(Len(backlog) = BacklogLimit /\ IsBranch(Head(backlog)))
    BY <1>0, <1>2 DEF Notify, Deliverable
  <2>2. backlog \in Seq(S) /\ Len(backlog) =< BacklogLimit  BY <1>0 DEF TypeOK, KeyInv
  <2>3. /\ \A i \in LastIn(backlog') : backlog'[i] = gen'
        /\ Pending => BranchesIn(backlog') # {}
        /\ n # Note => BranchesIn(backlog') # {}
    <3>1. CASE n = Note
      <4>1. gen' = gen /\ \A i \in LastIn(backlog) : backlog[i] = gen
        BY <1>0, <3>1 DEF WantInv, TypeOK, Note
      <4>2. /\ BranchesIn(backlog) # {} => BranchesIn(backlog') # {}
            /\ \A i \in LastIn(backlog') : backlog'[i] = gen
        BY <2>1, <2>2, <3>1, <4>1, KeptNote
      <4> QED  BY <3>1, <4>1, <4>2 DEF Pending
    <3>2. CASE n # Note
      <4>1. n \in 0 .. MaxGen /\ n = gen'  BY <3>2
      <4>2. BranchesIn(backlog') # {} /\ \A i \in LastIn(backlog') : backlog'[i] = n
        BY <2>1, <2>2, <4>1, KeptBranch
      <4> QED  BY <4>1, <4>2
    <3> QED  BY <3>1, <3>2
  <2>4. gen' = gen \/ n # Note
    BY <1>0 DEF TypeOK, Note
  <2>5. WantInv'
    BY <1>0, <1>2, <1>a, <1>b, <2>3, <2>4 DEF WantInv, Pending
  <2>6. ChildInv'
    BY <1>0, <1>2, <1>b, <2>1 DEF ChildInv, Outstanding, Arrived
  <2> QED  BY <2>5, <2>6 DEF SyncInv
<1> QED  BY <1>1, <1>2, <1>0 DEF TypeOK

LEMMA SyncStep == IInv /\ [Next]_vars => SyncInv'
<1> SUFFICES ASSUME IInv, [Next]_vars, InOrder' PROVE SyncInv'
  BY DEF SyncInv
<1>o. InOrder /\ WantInv /\ ChildInv /\ phase = "open" /\ failures = 0
  BY OrderKept DEF IInv, SyncInv, InOrder
<1>i. TypeOK /\ LifeInv /\ OpenInv /\ FlightInv /\ KeyInv  BY DEF IInv
<1>c. (alive # {}) = connected /\ (connected => alive = {child})  BY <1>i, <1>o DEF LifeInv, TypeOK
<1>0. In(<<>>) = {} /\ BranchesIn(<<>>) = {} /\ LastIn(<<>>) = {}
  BY DEF In, BranchesIn, LastIn
<1>1. CASE Start
  <2>1. Started'  BY <1>1, <1>i DEF Start, Started, TypeOK, NoKey
  <2>2. /\ run' = RunAfterEnsure /\ want' = gen
        /\ UNCHANGED <<gen, activeKey, connected, ready, initialized, req, runKey, backlog,
                       toChild, toClient, working, sess>>
    BY <1>1 DEF Start, adapterVars, childVars, processVars
  <2> QED  BY <1>o, <2>1, <2>2, EnsureSync
<1>2. CASE Call
  <2>1. Started'  BY <1>2 DEF Call, Started
  <2>2. /\ run' = RunAfterEnsure /\ want' = want
        /\ UNCHANGED <<gen, activeKey, connected, ready, initialized, req, runKey, backlog,
                       toChild, toClient, working, sess>>
    BY <1>2 DEF Call, adapterVars, childVars, processVars
  <2> QED  BY <1>o, <2>1, <2>2, EnsureSync
<1>3. CASE SessionTree
  <2>1. gen + 1 \in {Note} \cup 0 .. MaxGen
    BY <1>3, <1>i, BoundsAssumption DEF SessionTree, TypeOK
  <2>2. /\ Notify(gen + 1) /\ gen' = gen + 1 /\ want' = gen + 1 /\ Idle /\ Started
        /\ activeKey' = IF ready THEN gen + 1 ELSE activeKey
        /\ UNCHANGED <<connected, ready, initialized, run, req, runKey, toClient, working, sess>>
    BY <1>3, <1>o DEF SessionTree, childVars
  <2> QED  BY <1>o, <2>1, <2>2, NotifySync
<1>4. CASE OtherNotification
  <2>1. /\ Notify(Note) /\ Idle /\ Started
        /\ UNCHANGED <<gen, want, activeKey>>
        /\ UNCHANGED <<connected, ready, initialized, run, req, runKey, toClient, working, sess>>
    BY <1>4 DEF OtherNotification, linkVars, childVars
  <2> QED  BY <1>o, <2>1, NotifySync
<1>5. CASE RunBegin
  <2>1. CASE child # NoChild
    <3>1. /\ run = "begin" /\ run' = "step"
          /\ UNCHANGED <<gen, want, activeKey, runKey, backlog, connected, ready, initialized, toChild, sess>>
      BY <1>5, <2>1 DEF RunBegin, SpawnIfNeeded, adapterVars, childVars, processVars
    <3> QED  BY <1>o, <3>1 DEF SyncInv, WantInv, ChildInv, Started, Pending, Behind, LastIn, BranchesIn
  <2>2. CASE child = NoChild
    <3>1. Spawn  BY <1>5, <2>2 DEF RunBegin, SpawnIfNeeded
    <3>2. activeKey = NoKey  BY <2>2, <1>i DEF LifeInv
    <3>3. /\ run' = "step" /\ ~ready' /\ In(toChild)' = {}
          /\ UNCHANGED <<gen, want, activeKey, runKey, backlog>>
      BY <1>5, <3>1, <1>0 DEF RunBegin, Spawn, adapterVars
    <3> QED  BY <1>o, <3>2, <3>3 DEF SyncInv, WantInv, ChildInv, Started, Pending, LastIn, BranchesIn
  <2> QED  BY <2>1, <2>2
<1>6. CASE RunStep
  <2>0. run = "step" /\ Started /\ want = gen /\ want # NoKey
    BY <1>6, <1>i, <1>o DEF RunStep, LifeInv, WantInv, Started
  <2>u. UNCHANGED <<gen, shed, want, activeKey, connected, ready, initialized, backlog, toClient,
                    working, sess>>
    BY <1>6 DEF RunStep, adapterVars, linkVars, childVars
  <2>1. ASSUME NEW kind \in {"initialize", "open"}, Request(kind, IF kind = "open" THEN "open" ELSE "init"),
               ~ready, kind = "open" => initialized /\ runKey' = want
        PROVE  SyncInv'
    <3>1. CASE connected
      <4> DEFINE r == [kind |-> kind, id |-> req + 1, key |-> want]
      <4>1. /\ toChild' = Append(toChild, r) /\ req' = req + 1
            /\ run' = IF kind = "open" THEN "open" ELSE "init"
        BY <2>1, <3>1 DEF Request
      <4>2. r \in Message /\ toChild \in Seq(Message)
        BY <1>i DEF TypeOK, Message, Requests
      <4>3. In(toChild)' = In(toChild) \cup {r}  BY <4>1, <4>2, InAppend
      <4>4. r.key = want /\ r.kind = kind  OBVIOUS
      <4>5. Arrived' = {}
        <5>1. \A x \in In(toClient) : x.id # req + 1
          BY <1>i, Typed DEF OpenInv, TypeOK
        <5> QED  BY <4>1, <2>u, <5>1 DEF Arrived
      <4>6. \A m \in Outstanding : m.kind # "open"
        <5> SUFFICES ASSUME NEW m \in Outstanding, m.kind = "open" PROVE FALSE
          OBVIOUS
        <5>1. IsRequest(m)  BY <1>i, Typed
        <5> QED  BY <5>1, <1>i, <1>o, <2>0, OutstandingFacts
      <4> HIDE DEF r
      <4>7. \A m \in Outstanding' : m.kind = "open" => m.key = want
        BY <2>u, <4>3, <4>4, <4>6 DEF Outstanding
      <4>8. ChildInv'
        <5>1. \A m \in In(toChild)' : m.kind # "notify"
          BY <1>o, <2>1, <3>1, <4>3, <4>4 DEF ChildInv
        <5>2. run' # "finish" /\ (run' = "open" => runKey' = want)  BY <4>1, <2>1
        <5> QED  BY <2>1, <2>u, <4>5, <4>7, <5>1, <5>2 DEF ChildInv
      <4>9. WantInv'
        <5>1. run' \in {"init", "open"} /\ (run' = "open" => initialized /\ runKey' = want)
          BY <4>1, <2>1
        <5> QED
          BY <1>o, <2>0, <2>1, <2>u, <5>1 DEF WantInv, Started, Pending, LastIn, BranchesIn
      <4> QED  BY <4>8, <4>9 DEF SyncInv
    <3>2. CASE ~connected
      <4>1. run' = "failed"  BY <2>1, <3>2 DEF Request
      <4> QED
        BY <1>o, <2>0, <2>1, <2>u, <3>2, <4>1
        DEF SyncInv, WantInv, ChildInv, Started, Pending, LastIn, BranchesIn
    <3> QED  BY <3>1, <3>2
  <2>2. CASE initialized /\ activeKey = want /\ run' = "finish" /\ UNCHANGED <<req, runKey, toChild>>
    <3>1. ready /\ ~connected  BY <1>o, <2>0, <2>2 DEF WantInv
    <3> QED
      BY <1>o, <2>0, <2>2, <2>u, <3>1
      DEF SyncInv, WantInv, ChildInv, Started, Pending, LastIn, BranchesIn
  <2>3. ready => initialized /\ activeKey = want  BY <1>o, <2>0 DEF WantInv
  <2> QED  BY <1>6, <2>1, <2>2, <2>3 DEF RunStep
<1>7. CASE RunFinish
  <2>0. /\ run = "finish" /\ initialized /\ (activeKey = gen \/ Pending)
        /\ want = gen /\ Started
    BY <1>7, <1>i, <1>o DEF RunFinish, WantInv, LifeInv
  <2>1. activeKey' = gen /\ want' = gen
    <3>1. CASE BranchesIn(backlog) = {}
      BY <1>7, <2>0, <3>1 DEF RunFinish, Pending, LastIn
    <3>2. CASE BranchesIn(backlog) # {}
      BY <1>7, <1>o, <3>2 DEF RunFinish, WantInv
    <3> QED  BY <3>1, <3>2
  <2>2. run' = "none" /\ ready' /\ backlog' = <<>>
    BY <1>7, <2>1 DEF RunFinish, RunAfterFinish
  <2>u. UNCHANGED <<gen, connected, initialized, sess>>
    BY <1>7 DEF RunFinish, adapterVars
  <2>3. WantInv'
    BY <1>0, <2>0, <2>1, <2>2, <2>u DEF WantInv
  <2>4. ASSUME connected PROVE sess = gen \/ Behind'
    <3>1. toChild' = toChild \o AsMessages(backlog)  BY <1>7, <2>4 DEF RunFinish
    <3>2. AsMessages(backlog) \in Seq(Message) /\ toChild \in Seq(Message)
      BY Messages, <1>i DEF TypeOK
    <3>3. In(toChild)' = In(toChild) \cup In(AsMessages(backlog))  BY <3>1, <3>2, InConcat
    <3>4. CASE BranchesIn(backlog) = {}
      BY <1>o, <2>0, <2>4, <3>4 DEF ChildInv, Pending
    <3>5. CASE BranchesIn(backlog) # {}
      <4>1. PICK i \in LastIn(backlog) : want' = backlog[i]  BY <1>7, <3>5 DEF RunFinish
      <4>2. i \in DOMAIN backlog /\ backlog[i] = gen  BY <4>1, <2>1 DEF LastIn, BranchesIn
      <4>3. /\ AsMessages(backlog)[i] = [kind |-> "notify", id |-> 0, key |-> backlog[i]]
            /\ AsMessages(backlog)[i] \in In(AsMessages(backlog))
        BY <4>2, <1>i, Messages DEF TypeOK
      <4> QED  BY <2>u, <3>3, <4>2, <4>3 DEF Behind
    <3> QED  BY <3>4, <3>5
  <2>5. ChildInv'
    BY <2>2, <2>4, <2>u DEF ChildInv
  <2> QED  BY <2>3, <2>5 DEF SyncInv
<1>8. CASE RunFailed
  <2>1. /\ run = "failed" /\ ~connected /\ ~ready /\ activeKey = NoKey
    BY <1>8, <1>o DEF RunFailed, WantInv
  <2>2. /\ run' = "none" /\ ~ready'
        /\ UNCHANGED <<gen, want, activeKey, connected, initialized, backlog>>
    BY <1>8 DEF RunFailed, adapterVars
  <2> QED
    BY <1>o, <2>1, <2>2 DEF SyncInv, WantInv, ChildInv, Started, LastIn, BranchesIn, Pending
<1>9. CASE HandleResponse
  <2> DEFINE r == Head(toClient)
  <2>1. r \in In(toClient) /\ In(toClient)' \subseteq In(toClient) /\ r.ok
    BY <1>9, <1>i, <1>o, InTail DEF HandleResponse, TypeOK, FlightInv
  <2>u. UNCHANGED <<gen, want, backlog, connected, ready, req, runKey, toChild, working, sess>>
    BY <1>9 DEF HandleResponse, adapterVars
  <2>2. Arrived' \subseteq Arrived  BY <2>1, <2>u DEF Arrived
  <2>3. CASE r.id = req /\ run = "open"
    <3>1. run' = "finish" /\ activeKey' = OpenedKey /\ initialized' = initialized
      BY <1>9, <2>1, <2>3, <1>i DEF HandleResponse, TypeOK
    <3>2. /\ initialized /\ (runKey = gen \/ Pending) /\ ~ready
      BY <1>o, <2>3 DEF WantInv
    <3>3. Arrived # {}  BY <2>1, <2>3 DEF Arrived
    <3>4. connected => sess = runKey  BY <1>o, <2>3, <3>3 DEF ChildInv
    <3>5. want = gen  BY <1>o, <1>i, <2>3 DEF WantInv, LifeInv
    <3>6. activeKey' = gen \/ Pending  BY <3>1, <3>2, <3>5 DEF OpenedKey
    <3>7. WantInv'
      BY <1>o, <2>u, <3>1, <3>2, <3>6 DEF WantInv, Started, Pending, LastIn, BranchesIn
    <3>8. ChildInv'
      BY <1>o, <2>u, <3>1, <3>2, <3>4 DEF ChildInv, Pending
    <3> QED  BY <3>7, <3>8 DEF SyncInv
  <2>4. CASE r.id = req /\ run = "init"
    <3>1. run' = "step" /\ activeKey' = activeKey /\ initialized'
      BY <1>9, <2>1, <2>4, <1>i DEF HandleResponse, TypeOK
    <3>2. ~ready  BY <1>o, <2>4 DEF WantInv
    <3> QED
      BY <1>o, <2>u, <2>4, <3>1, <3>2
      DEF SyncInv, WantInv, ChildInv, Started, Pending, Behind, LastIn, BranchesIn
  <2>5. CASE ~(r.id = req /\ run \in {"init", "open"})
    <3>1. run' = run /\ activeKey' = activeKey /\ initialized' = initialized
      BY <1>9, <2>5, <1>i DEF HandleResponse, TypeOK
    <3>2. WantInv'
      BY <1>o, <2>u, <3>1 DEF WantInv, Started, Pending, LastIn, BranchesIn
    <3>3. ChildInv'
      BY <1>o, <2>2, <2>u, <3>1 DEF ChildInv, Pending, Behind, Outstanding, BranchesIn
    <3> QED  BY <3>2, <3>3 DEF SyncInv
  <2> QED  BY <2>3, <2>4, <2>5
<1>10. CASE RequestTimeout
  <2>1. failures' # 0  BY <1>10, <1>i DEF RequestTimeout, TypeOK
  <2> QED  BY <2>1 DEF InOrder
<1>11. CASE TimerFires
  <2>1. Started'  BY <1>11, <1>i DEF TimerFires, LifeInv, Started, linkVars
  <2>2. /\ run' = RunAfterEnsure /\ want' = want
        /\ UNCHANGED <<gen, activeKey, connected, ready, initialized, req, runKey, backlog,
                       toChild, toClient, working, sess>>
    BY <1>11 DEF TimerFires, adapterVars, linkVars, childVars, processVars
  <2> QED  BY <1>o, <2>1, <2>2, EnsureSync
<1>12. CASE ChildExit
  <2>1. /\ ~connected /\ ~connected' /\ ~ready' /\ activeKey' = NoKey /\ run # "finish"
        /\ run' = RunAfterExit
        /\ UNCHANGED <<gen, want, backlog, runKey>>
    BY <1>12 DEF ChildExit, KeyAfterExit, Idle, Microtask, adapterVars
  <2>2. run' # "finish" /\ run' # "open"  BY <2>1 DEF RunAfterExit
  <2> QED
    BY <1>o, <2>1, <2>2 DEF SyncInv, WantInv, ChildInv, Started, LastIn, BranchesIn
<1>13. CASE CloseBegin \/ CloseEnd
  BY <1>13 DEF CloseBegin, CloseEnd, InOrder
<1>15. CASE ChildReceives
  <2> DEFINE m == Head(toChild)
  <2>1. /\ m \in In(toChild) /\ m \in Message /\ In(toChild)' \subseteq In(toChild)
        /\ In(toChild) \subseteq {m} \cup In(toChild)'
    BY <1>15, <1>i, InTail DEF ChildReceives, TypeOK
  <2>c. connected /\ connected'  BY <1>15, <1>c DEF ChildReceives
  <2>u. UNCHANGED <<gen, want, activeKey, backlog, ready, initialized, run, req, runKey, toClient>>
    BY <1>15 DEF ChildReceives, clientVars, adapterVars, linkVars
  <2>2. WantInv'
    BY <1>o, <2>c, <2>u DEF WantInv, Started, Pending, LastIn, BranchesIn
  <2>3. CASE /\ m.kind \in {"initialize", "open"} /\ working' = working \cup {m} /\ sess' = sess
    <3>1. Behind => Behind'  BY <2>1, <2>3, <2>u DEF Behind
    <3>2. \A x \in Outstanding' : x \in Outstanding  BY <2>1, <2>3 DEF Outstanding
    <3>3. ChildInv'
      BY <1>o, <2>1, <2>3, <2>c, <2>u, <3>1, <3>2 DEF ChildInv, Pending, Arrived
    <3> QED  BY <2>2, <3>3 DEF SyncInv
  <2>4. CASE /\ m.kind = "notify" /\ working' = working
             /\ sess' = IF sess # NoKey /\ IsBranch(m.key) THEN BranchApplied(m.key) ELSE sess
    <3>1. ready /\ sess # NoKey  BY <1>o, <1>i, <2>1, <2>4, <2>c DEF ChildInv, OpenInv
    <3>2. run = "none"  BY <1>o, <2>c, <3>1 DEF WantInv
    <3>3. /\ m.key =< gen /\ m.key \in Int /\ sess =< gen /\ sess \in Int /\ gen \in Nat
      <4>1. m.key \in Int
        BY <2>1, <2>4 DEF Message, Notifications, Requests, SessionKey, Note, NoKey
      <4> QED  BY <1>i, <2>1, <4>1 DEF KeyInv, Outstanding, TypeOK, SessionKey, NoKey
    <3>4. m.key = gen => sess' = gen
      BY <2>4, <3>1, <3>3 DEF IsBranch, BranchApplied, Note
    <3>5. sess = gen => sess' = gen
      BY <2>4, <3>1, <3>3 DEF IsBranch, BranchApplied
    <3>6. sess' = gen' \/ Behind'
      <4>1. CASE sess = gen  BY <4>1, <3>5, <2>u
      <4>2. CASE Behind
        <5>1. PICK x \in In(toChild) : x.kind = "notify" /\ x.key = gen  BY <4>2 DEF Behind
        <5>2. CASE x = m  BY <5>1, <5>2, <3>4, <2>u
        <5>3. CASE x # m  BY <5>1, <5>3, <2>1, <2>u DEF Behind
        <5> QED  BY <5>2, <5>3
      <4> QED  BY <1>o, <2>c, <3>1, <4>1, <4>2 DEF ChildInv
    <3>7. ChildInv'
      BY <2>c, <2>u, <3>1, <3>2, <3>6 DEF ChildInv
    <3> QED  BY <2>2, <3>7 DEF SyncInv
  <2> QED  BY <1>15, <2>3, <2>4 DEF ChildReceives
<1>16. CASE Gone
  <2>1. /\ ~connected'
        /\ UNCHANGED <<gen, want, activeKey, backlog, ready, initialized, run, runKey>>
    BY <1>16 DEF Gone, clientVars, adapterVars, linkVars
  <2> QED
    BY <1>o, <2>1 DEF SyncInv, WantInv, ChildInv, Started, Pending, LastIn, BranchesIn
<1>17. ASSUME NEW m \in working, ChildAnswers(m) \/ ChildRefuses(m) PROVE SyncInv'
  <2>1. CASE ChildAnswers(m)
    <3>1. m \in Outstanding /\ IsRequest(m) /\ m \in Requests
      BY <1>i, Typed DEF Outstanding, TypeOK, Requests, IsRequest
    <3>2. m.id = req /\ run \in {"init", "open"}
      BY <1>i, <1>o, <3>1, OutstandingFacts
    <3>3. ~ready  BY <1>o, <3>2 DEF WantInv
    <3>u. /\ UNCHANGED <<gen, want, activeKey, backlog, connected, ready, initialized, run, req, runKey,
                         toChild>>
          /\ working' \subseteq working
          /\ sess' = IF m.kind = "open" THEN m.key ELSE sess
      BY <2>1 DEF ChildAnswers, clientVars, adapterVars, linkVars
    <3>4. run = "open" /\ connected => sess' = runKey
      <4> SUFFICES ASSUME run = "open", connected PROVE sess' = runKey
        OBVIOUS
      <4>1. m.kind = "open"  BY <1>i, <3>1, <3>2 DEF OpenInv
      <4>2. m.key = runKey  BY <1>o, <3>1, <4>1 DEF ChildInv
      <4> QED  BY <3>u, <4>1, <4>2
    <3>5. WantInv'
      BY <1>o, <3>u DEF WantInv, Started, Pending, LastIn, BranchesIn
    <3>6. \A x \in Outstanding' : x \in Outstanding  BY <3>u DEF Outstanding
    <3>7. ChildInv'
      BY <1>o, <3>2, <3>3, <3>4, <3>6, <3>u DEF ChildInv
    <3> QED  BY <3>5, <3>7 DEF SyncInv
  <2>2. CASE ChildRefuses(m)
    <3>1. failures' # 0  BY <2>2, <1>i DEF ChildRefuses, TypeOK
    <3> QED  BY <3>1 DEF InOrder
  <2> QED  BY <1>17, <2>1, <2>2
<1>18. CASE UNCHANGED vars
  BY <1>18, <1>o
  DEF vars, adapterVars, linkVars, childVars, runVars, processVars, SyncInv, WantInv, ChildInv,
      Started, Pending, Behind, LastIn, BranchesIn, Outstanding, Arrived
<1> QED
  BY <1>1, <1>2, <1>3, <1>4, <1>5, <1>6, <1>7, <1>8, <1>9, <1>10, <1>11, <1>12, <1>13,
     <1>15, <1>16, <1>17, <1>18
  DEF Next, ClientStep, Sidecar, ChildShutsDown, ChildCrashes

-----------------------------------------------------------------------------
LEMMA Starts == Init => IInv
<1> SUFFICES ASSUME Init PROVE IInv
  OBVIOUS
<1> USE BoundsAssumption DEF Init
<1>0. In(<<>>) = {} /\ Len(<<>>) = 0 /\ BranchesIn(<<>>) = {} /\ OneRequest(<<>>) /\ NoRequest(<<>>)
  BY DEF In, BranchesIn, OneRequest, NoRequest
<1>1. TypeOK
  <2>1. /\ <<>> \in Seq(Message) /\ <<>> \in Seq([id : Nat, ok : BOOLEAN])
        /\ <<>> \in Seq({Note} \cup 0 .. MaxGen)
    BY EmptySeq
  <2>2. 0 \in 0 .. MaxGen /\ 0 \in 0 .. MaxNotes /\ 0 \in 0 .. MaxFailures
    OBVIOUS
  <2>3. NoKey \in SessionKey  BY DEF SessionKey
  <2>4. 0 \in 0 .. spawned /\ spawned \in Nat /\ req \in Nat  OBVIOUS
  <2>5. /\ gen \in 0 .. MaxGen /\ notes \in 0 .. MaxNotes /\ failures \in 0 .. MaxFailures
        /\ want \in SessionKey /\ activeKey \in SessionKey
        /\ runKey \in SessionKey /\ sess \in SessionKey
        /\ child \in 0 .. spawned
    BY <2>2, <2>3, <2>4 DEF NoChild
  <2>6. run \in {"none", "init", "open"} \cup Microtask  BY DEF Microtask
  <2>7. /\ backlog \in Seq({Note} \cup 0 .. MaxGen) /\ toChild \in Seq(Message)
        /\ toClient \in Seq([id : Nat, ok : BOOLEAN])
    BY <2>1
  <2> HIDE DEF Init
  <2>8. /\ shed \in BOOLEAN /\ desired \in BOOLEAN /\ missed \in BOOLEAN
        /\ connected \in BOOLEAN /\ ready \in BOOLEAN /\ initialized \in BOOLEAN
        /\ timer \in BOOLEAN /\ timerWaits \in BOOLEAN /\ retrying \in BOOLEAN
        /\ phase = "open" /\ lifecycle = "stopped" /\ alive = {} /\ working = {}
    BY DEF Init
  <2> QED  BY <2>4, <2>5, <2>6, <2>7, <2>8 DEF TypeOK
<1>2. LifeInv  BY DEF LifeInv, Started
<1>3. OpenInv  BY <1>0 DEF OpenInv, Outstanding, Arrived
<1>4. FlightInv  BY <1>0 DEF FlightInv, Outstanding
<1>5. KeyInv  BY <1>0 DEF KeyInv, Outstanding, NoKey
<1>6. SyncInv  BY <1>0 DEF SyncInv, WantInv, ChildInv, Started, LastIn
<1> QED  BY <1>1, <1>2, <1>3, <1>4, <1>5, <1>6 DEF IInv

\* What the invariant says of processes and requests, counted.
LEMMA Sound == ASSUME IInv PROVE LinkIsSound
<1> USE DEF IInv
<1>1. OneChild
  <2>1. \A a, b \in alive : a = b  BY DEF LifeInv
  <2>2. Cardinality(alive) =< 1
    <3>1. CASE alive = {}  BY <3>1, FS_EmptySet
    <3>2. CASE alive # {}
      <4>1. PICK a \in alive : alive = {a}  BY <2>1, <3>2
      <4>2. Cardinality(alive) = 1  BY <4>1, FS_Singleton
      <4> QED  BY <4>2
    <3> QED  BY <3>1, <3>2
  <2>3. phase = "open" => alive \subseteq {child}  BY DEF LifeInv
  <2> QED  BY <2>2, <2>3 DEF OneChild
<1>2. SingleFlight
  <2> SUFFICES ASSUME failures = 0
               PROVE  Cardinality(working) + Cardinality({i \in DOMAIN toChild : toChild[i].id # 0}) =< 1
    BY DEF SingleFlight
  <2> DEFINE R == {i \in DOMAIN toChild : toChild[i].id # 0}
  <2>1. \A i, j \in R : i = j  BY DEF FlightInv, OneRequest, IsRequest
  <2>2. working # {} => R = {}
    <3> SUFFICES ASSUME working # {}, NEW i \in R PROVE FALSE
      OBVIOUS
    <3>1. IsRequest(toChild[i]) /\ toChild[i] \in In(toChild)  BY DEF IsRequest, In
    <3> QED  BY <3>1 DEF FlightInv, NoRequest
  <2>3. \A m, n \in working : m = n  BY DEF FlightInv
  <2> HIDE DEF R
  <2>4. Cardinality(R) =< 1 /\ Cardinality(R) \in Nat
    <3>1. CASE R = {}  BY <3>1, FS_EmptySet
    <3>2. CASE R # {}
      <4>1. PICK i \in R : R = {i}  BY <2>1, <3>2
      <4> QED  BY <4>1, FS_Singleton
    <3> QED  BY <3>1, <3>2
  <2>5. CASE working = {}
    <3>1. Cardinality(working) = 0  BY <2>5, FS_EmptySet
    <3>2. Cardinality(working) + Cardinality(R) =< 1  BY <3>1, <2>4
    <3> QED  BY <3>2 DEF R
  <2>6. CASE working # {}
    <3>1. PICK m \in working : working = {m}  BY <2>3, <2>6
    <3>2. Cardinality(working) = 1 /\ Cardinality(R) = 0  BY <3>1, <2>2, <2>6, FS_Singleton, FS_EmptySet
    <3>3. Cardinality(working) + Cardinality(R) =< 1  BY <3>2
    <3> QED  BY <3>3 DEF R
  <2> QED  BY <2>5, <2>6
<1>3. OpenBeforeNotifications  BY DEF OpenInv, OpenBeforeNotifications
<1>4. InSyncUnlessFailed
  <2> SUFFICES ASSUME failures = 0, ~shed, phase = "open", ready, connected, toChild = <<>>
               PROVE  sess = gen
    BY DEF InSyncUnlessFailed, InSyncWhenQuiet
  <2>1. In(toChild) = {}  BY DEF In
  <2>2. sess = gen \/ Behind  BY DEF SyncInv, InOrder, ChildInv
  <2> QED  BY <2>1, <2>2 DEF Behind
<1> QED  BY <1>1, <1>2, <1>3, <1>4 DEF LinkIsSound

\* At most one child process and one request of the client at a time, no notification
\* to a child before its session is open, and a quiet ready child has the session of the
\* adapter's branch: through crashes and restarts at any step, branch changes in any
\* state, notifications kept and flushed, start, call, timer and close in any order
\* (sidecar-client.ts).
THEOREM LinkAlwaysSound == Spec => []LinkIsSound
<1>1. IInv /\ [Next]_vars => IInv'
  <2> SUFFICES ASSUME IInv, [Next]_vars PROVE IInv'
    OBVIOUS
  <2>1. TypeOK /\ LifeInv /\ OpenInv /\ FlightInv /\ KeyInv  BY DEF IInv
  <2>2. TypeOK' /\ LifeInv'  BY <2>1, TypeStep, LifeStep
  <2>3. OpenInv' /\ FlightInv'  BY <2>1, OpenStep, FlightStep
  <2>4. KeyInv' /\ SyncInv'  BY <2>1, KeyStep, SyncStep
  <2> QED  BY <2>2, <2>3, <2>4 DEF IInv
<1>2. IInv => LinkIsSound  BY Sound
<1> QED  BY Starts, <1>1, <1>2, PTL DEF Spec
-----------------------------------------------------------------------------
(* Relationship learning. The work of a memory is kept because a record     *)
(* only changes under its revision, and because whoever loses that race     *)
(* leaves the work to the one who won it. In layers again:                  *)
(*   PlaceInv   memories are committed in their order, work exists only for *)
(*              a committed one, and a job only for a memory that has work; *)
(*   BudgetInv  what a read of the work still says when nobody has written  *)
(*              since, and that a memory is claimed at most once while      *)
(*              remember() prepares it;                                     *)
(*   HandInv    work whose revision has moved on is in other hands.         *)

\* The call has written the work of its memory.
Prepared == call.pc \in {"prepare", "prepareWrite", "schedule"}
\* The job compares the revision it read next.
Comparing == job.pc \in {"claimWrite", "resolveWrite", "failWrite"}
\* The job has claimed the work.
Claimed == job.pc \in {"claimMark", "judge", "apply", "resolve", "resolveWrite", "fail",
                       "failWrite", "failMark"}

OrderInv ==
    /\ \A m, c \in Memories : c < m /\ status[m] # "absent" => status[c] # "absent"
    /\ \A m \in Memories : status[m] = "absent" => state[m] = "none"
    /\ \A m \in Memories : state[m] = "none" => attempts[m] = 0
    /\ \A m \in queued \cup timers : state[m] # "none"

CallPlaceInv ==
    /\ call.pc = "idle" => call = NoCall
    /\ call.pc # "idle" => /\ call.m \in Memories /\ status[call.m] # "absent"
                           /\ \A m \in Memories : m > call.m => status[m] = "absent"
    /\ call.pc = "commit" => state[call.m] = "none"
    /\ Prepared => state[call.m] # "none"
    /\ call.pc = "prepareWrite" => call.seen # "absent"

JobPlaceInv ==
    /\ job.pc = "idle" => job = NoJob
    /\ job.pc # "idle" => job.m \in Memories /\ state[job.m] # "none" /\ ~recovery
    /\ job.pc = "apply" => job.target \in Memories
    /\ job.pc \in {"claimWrite", "claimMark", "failWrite", "failMark"} => job.seen # "absent"
    /\ ~up => /\ queued = {} /\ timers = {} /\ ~recovery
              /\ call.pc = "idle" /\ job.pc = "idle"

PlaceInv == OrderInv /\ CallPlaceInv /\ JobPlaceInv

\* What the memory of the call can have become before remember() schedules it.
ClaimedOnce(m) ==
    /\ attempts[m] =< 1
    /\ attempts[m] = 0 => state[m] = "pending"
    /\ attempts[m] = 1 =>
          Final(m) \/ (state[m] \in {"processing", "failed_retryable"} /\ m \in waits)

SpentInv ==
    /\ UnresolvedHasBudget
    /\ \A m \in Memories : state[m] = "failed_terminal" => attempts[m] = MaxAttempts

CallInv ==
    /\ call.pc \in {"prepare", "prepareWrite"} => ClaimedOnce(call.m)
    /\ call.pc = "prepareWrite" =>
          /\ call.rev =< revision[call.m]
          /\ Current(call.m, call.rev) => ~Final(call.m)

ClaimInv ==
    /\ Comparing => job.rev =< revision[job.m]
    /\ job.pc = "claimWrite" /\ Current(job.m, job.rev) => Claimable(job.m)
    /\ Claimed => attempts[job.m] > 0 /\ state[job.m] # "resolved"

BudgetInv == SpentInv /\ CallInv /\ ClaimInv

DependInv ==
    job.pc \in {"claimWrite", "claimMark", "judge", "apply"} =>
        \A c \in CandidatesOf[job.m] : ~Unresolved(c)

\* The work of the job's memory is left to somebody who comes after it.
Handed ==
    \/ call.pc = "schedule" /\ call.m = job.m
    \/ job.m \in queued \cup timers

HandInv ==
    up /\ faults = 0 =>
      /\ \A m \in Memories : Unresolved(m) =>
            recovery \/ m \in queued \cup timers \cup {call.m, job.m}
      /\ call.pc = "prepareWrite" /\ ~Current(call.m, call.rev) /\ Unresolved(call.m) =>
            recovery \/ call.m \in queued \cup timers \cup {job.m}
      /\ Comparing /\ ~Current(job.m, job.rev) /\ Unresolved(job.m) => Handed
      /\ job.pc \in {"failMark", "error"} /\ Unresolved(job.m) =>
            state[job.m] = "failed_retryable" \/ Handed

LearnIInv == LearnTypeOK /\ PlaceInv /\ BudgetInv /\ DependInv /\ HandInv
\* The variables of the durable work have their types.
WorkTyped ==
    /\ state \in [Memories -> {"none", "pending", "processing", "failed_retryable",
                               "resolved", "failed_terminal"}]
    /\ attempts \in [Memories -> 0..MaxAttempts]
    /\ revision \in [Memories -> Nat]
    /\ waits \subseteq Memories

\* What a put of the work of m leaves.
Wrote(m, newState, newAttempts, newWaits) ==
    /\ WorkTyped'
    /\ state'[m] = newState /\ attempts'[m] = newAttempts /\ revision'[m] = revision[m] + 1
    /\ m \in waits' <=> newWaits
    /\ \A c \in Memories \ {m} : /\ state'[c] = state[c] /\ attempts'[c] = attempts[c]
                                 /\ revision'[c] = revision[c] /\ (c \in waits' <=> c \in waits)

\* What giving up the exhausted among ms, and perhaps among others, leaves.
GaveUp(ms) ==
    /\ WorkTyped' /\ UNCHANGED <<status, attempts>>
    /\ \A c \in Memories :
         \/ /\ state'[c] = state[c] /\ revision'[c] = revision[c]
            /\ c \in waits' <=> c \in waits
            /\ c \in ms => ~Exhausted(c)
         \/ /\ state[c] = "processing" /\ attempts[c] = MaxAttempts /\ c \notin waits
            /\ state'[c] = "failed_terminal"
            /\ revision'[c] = revision[c] + 1 /\ c \notin waits'

\* What the first read of a claim leaves: the job goes on to its put only for
\* work that can be claimed, whose candidates' work is settled.
ReadClaim ==
    /\ GaveUp({job.m})
    /\ up /\ job.pc = "claim"
    /\ job' \in Jobs /\ job'.m = job.m /\ job'.target = job.target
    /\ job'.rev = revision[job.m] /\ job'.seen = status[job.m]
    /\ \/ job'.pc = "settle"
       \/ /\ job'.pc = "claimWrite" /\ ~Final(job.m) /\ Claimable(job.m)
          /\ state'[job.m] = state[job.m] /\ revision'[job.m] = revision[job.m]
          /\ job.m \in waits' <=> job.m \in waits
          /\ \A c \in CandidatesOf[job.m] : ~Unresolved(c)'
    /\ UNCHANGED <<up, recovery, queued, timers, call, crashes, faults, retired>>

\* What the end of a job leaves: unresolved work that can wait has a timer.
Settled ==
    /\ GaveUp({job.m})
    /\ up /\ job.pc \in {"settle", "error"} /\ job' = NoJob
    /\ timers \subseteq timers' /\ timers' \subseteq timers \cup {job.m}
    /\ state'[job.m] \in {"pending", "processing", "failed_retryable"} =>
          \/ job.pc = "error" /\ state[job.m] # "failed_retryable"
          \/ job.m \in timers'
    /\ UNCHANGED <<up, recovery, queued, call, crashes, faults, retired>>

\* What the judgement of the pairs leaves.
Judged ==
    /\ up /\ job.pc = "judge"
    /\ job' \in Jobs
    /\ job'.m = job.m /\ job'.rev = job.rev /\ job'.seen = job.seen
    /\ job'.pc = "resolve" \/ (job'.pc = "apply" /\ job'.target \in Memories)
    /\ UNCHANGED <<status, state, attempts, revision, waits, up, recovery, queued, timers,
                   call, crashes, faults, retired>>

\* What the recovery leaves.
Recovered ==
    /\ WorkTyped'
    /\ \A c \in Memories :
         \/ /\ state'[c] = state[c] /\ revision'[c] = revision[c]
            /\ Unresolved(c) => c \in queued'
         \/ /\ state[c] = "none" /\ status[c] # "absent" /\ state'[c] = "pending"
            /\ revision'[c] = revision[c] + 1 /\ c \in queued'
         \/ /\ state[c] = "processing" /\ attempts[c] = MaxAttempts /\ c \notin waits
            /\ state'[c] = "failed_terminal" /\ revision'[c] = revision[c] + 1
    /\ queued \subseteq queued' /\ queued' \subseteq Memories
    /\ \A c \in queued' \ queued : state'[c] # "none"
    /\ up /\ recovery /\ ~recovery' /\ recovery' \in BOOLEAN /\ call.pc # "commit"
    /\ UNCHANGED <<status, attempts, waits, up, timers, call, job, crashes, faults, retired>>

-----------------------------------------------------------------------------
\* Memories are numbers; candidates are older memories.
LEMMA Places ==
    /\ NoMemory \notin Memories /\ NoMemory \in Nat /\ Memories \subseteq Nat
    /\ \A m \in Memories : CandidatesOf[m] \subseteq Memories /\ \A c \in CandidatesOf[m] : c < m
  BY LearnAssumption DEF NoMemory, Memories, LearnAssumption

\* Nothing under way is typed.
LEMMA IdleTyped ==
    NoCall \in Calls /\ NoJob \in Jobs
  BY Places DEF NoCall, NoJob, Calls, Jobs, Statuses

\* What is given up was claimed as often as it may be, and its lease is over.
LEMMA ExhaustedClaims ==
    ASSUME LearnTypeOK, BudgetInv, NEW m \in Memories, Exhausted(m)
    PROVE  state[m] = "processing" /\ attempts[m] = MaxAttempts /\ m \notin waits
  BY LearnAssumption DEF LearnTypeOK, BudgetInv, SpentInv, UnresolvedHasBudget, Exhausted,
                         LearnAssumption

\* A put of typed values.
LEMMA PutWrites ==
    ASSUME LearnTypeOK, NEW m \in Memories, NEW a \in 0..MaxAttempts, NEW w \in BOOLEAN,
           NEW s \in {"none", "pending", "processing", "failed_retryable", "resolved",
                      "failed_terminal"}, Put(m, s, a, w)
    PROVE  Wrote(m, s, a, w)
  BY DEF LearnTypeOK, Put, Wrote, WorkTyped

\* Giving up changes exhausted work only.
LEMMA TerminalizeGivesUp ==
    ASSUME LearnTypeOK, BudgetInv, NEW ms, Terminalize(ms)
    PROVE  GaveUp(ms)
<1> DEFINE given == {m \in ms : Exhausted(m)}
<1>1. /\ state' = [m \in Memories |-> IF m \in given THEN "failed_terminal" ELSE state[m]]
      /\ waits' = waits \ given
      /\ revision' = [m \in Memories |-> IF m \in given THEN revision[m] + 1 ELSE revision[m]]
      /\ UNCHANGED <<status, attempts>>
  BY DEF Terminalize
<1>2. \A m \in Memories : m \in given <=> m \in ms /\ Exhausted(m)  OBVIOUS
<1> HIDE DEF given
<1> QED  BY <1>1, <1>2, ExhaustedClaims DEF LearnTypeOK, GaveUp, WorkTyped

\* What the five writes under a revision leave, when the revision is still the one read.
LEMMA Writes ==
    ASSUME LearnTypeOK, PlaceInv, BudgetInv
    PROVE  /\ CommitWork => Wrote(call.m, "pending", 0, FALSE)
           /\ PrepareWrite /\ Current(call.m, call.rev) =>
                 Wrote(call.m, "pending", attempts[call.m], FALSE)
           /\ ClaimWrite /\ Current(job.m, job.rev) =>
                 Wrote(job.m, "processing", attempts[job.m] + 1, TRUE)
           /\ ResolveWrite /\ Current(job.m, job.rev) =>
                 Wrote(job.m, "resolved", attempts[job.m], FALSE)
           /\ FailWrite /\ Current(job.m, job.rev) =>
                 Wrote(job.m, FailedState(job.m), attempts[job.m],
                       FailedState(job.m) = "failed_retryable")
<1>1. attempts \in [Memories -> 0..MaxAttempts]  BY DEF LearnTypeOK
<1>2. ASSUME CommitWork PROVE Wrote(call.m, "pending", 0, FALSE)
  <2>1. call.m \in Memories /\ 0 \in 0..MaxAttempts
    BY <1>2, LearnAssumption DEF CommitWork, PlaceInv, CallPlaceInv, JobPlaceInv, LearnAssumption
  <2> QED  BY <1>2, <2>1, PutWrites DEF CommitWork
<1>3. PrepareWrite /\ Current(call.m, call.rev) => Wrote(call.m, "pending", attempts[call.m], FALSE)
  BY <1>1, PutWrites DEF PrepareWrite, PlaceInv, CallPlaceInv, JobPlaceInv
<1>4. ASSUME ClaimWrite, Current(job.m, job.rev)
      PROVE  Wrote(job.m, "processing", attempts[job.m] + 1, TRUE)
  <2>1. job.m \in Memories /\ attempts[job.m] + 1 \in 0..MaxAttempts
    BY <1>1, <1>4, LearnAssumption
    DEF ClaimWrite, PlaceInv, CallPlaceInv, JobPlaceInv, BudgetInv, ClaimInv, Claimable, LearnAssumption
  <2> QED  BY <1>4, <2>1, PutWrites DEF ClaimWrite
<1>5. ResolveWrite /\ Current(job.m, job.rev) => Wrote(job.m, "resolved", attempts[job.m], FALSE)
  BY <1>1, PutWrites DEF ResolveWrite, PlaceInv, CallPlaceInv, JobPlaceInv
<1>6. ASSUME FailWrite, Current(job.m, job.rev)
      PROVE  Wrote(job.m, FailedState(job.m), attempts[job.m],
                   FailedState(job.m) = "failed_retryable")
  <2>1. /\ job.m \in Memories /\ attempts[job.m] \in 0..MaxAttempts
        /\ FailedState(job.m) \in {"failed_retryable", "failed_terminal"}
        /\ (FailedState(job.m) = "failed_retryable") \in BOOLEAN
    BY <1>1, <1>6 DEF FailWrite, PlaceInv, CallPlaceInv, JobPlaceInv, FailedState
  <2>2. Put(job.m, FailedState(job.m), attempts[job.m], FailedState(job.m) = "failed_retryable")
    BY <1>6 DEF FailWrite
  <2> QED  BY <2>1, <2>2, PutWrites
<1> QED  BY <1>2, <1>3, <1>4, <1>5, <1>6

\* What the read of a claim leaves.
LEMMA Reads ==
    ASSUME LearnTypeOK, PlaceInv, BudgetInv, ClaimRead
    PROVE  ReadClaim
<1> DEFINE given == Final(job.m) \/ Exhausted(job.m)
           ms == IF given THEN {job.m} ELSE {job.m} \cup CandidatesOf[job.m]
<1>1. /\ up /\ job.pc = "claim" /\ Terminalize(ms)
      /\ job' = [job EXCEPT
                   !.pc = IF given \/ Blocked(job.m) \/ ~Claimable(job.m) THEN "settle"
                                                                          ELSE "claimWrite",
                   !.rev = revision[job.m], !.seen = status[job.m]]
      /\ UNCHANGED <<up, recovery, queued, timers, call, crashes, faults, retired>>
  BY DEF ClaimRead, scheduleVars, boundVars
<1>2. job \in Jobs /\ job.m \in Memories  BY <1>1 DEF LearnTypeOK, PlaceInv, CallPlaceInv, JobPlaceInv
<1>3. GaveUp(ms)  BY <1>1, TerminalizeGivesUp
<1>4. job'.pc = IF given \/ Blocked(job.m) \/ ~Claimable(job.m) THEN "settle" ELSE "claimWrite"
  BY <1>1, <1>2 DEF Jobs
<1>5. /\ job' \in Jobs /\ job'.m = job.m /\ job'.target = job.target
      /\ job'.rev = revision[job.m] /\ job'.seen = status[job.m]
  BY <1>1, <1>2 DEF Jobs, LearnTypeOK
<1>6. GaveUp({job.m})  BY <1>3 DEF GaveUp
<1>7. CASE given \/ Blocked(job.m) \/ ~Claimable(job.m)
  BY <1>1, <1>4, <1>5, <1>6, <1>7 DEF ReadClaim
<1>8. CASE ~given /\ ~Blocked(job.m) /\ Claimable(job.m)
  <2>1. job'.pc = "claimWrite" /\ ~Final(job.m) /\ ~Exhausted(job.m)  BY <1>4, <1>8
  <2>2. /\ state'[job.m] = state[job.m] /\ revision'[job.m] = revision[job.m]
        /\ job.m \in waits' <=> job.m \in waits
    BY <1>2, <1>6, <1>8, LearnAssumption DEF GaveUp, Claimable, LearnAssumption, LearnTypeOK
  <2>3. ASSUME NEW c \in CandidatesOf[job.m] PROVE ~Unresolved(c)'
    <3>1. c \in Memories /\ c \in ms  BY <1>2, <1>8, Places
    <3>2. ~Unresolved(c) \/ Exhausted(c)  BY <1>8 DEF Blocked
    <3> QED  BY <3>1, <3>2, <1>3 DEF GaveUp, Unresolved
  <2> QED  BY <1>1, <1>5, <1>6, <1>8, <2>1, <2>2, <2>3 DEF ReadClaim
<1> QED  BY <1>7, <1>8

\* What the end of a job leaves.
LEMMA Settles ==
    ASSUME LearnTypeOK, PlaceInv, BudgetInv, Settle \/ SettleError
    PROVE  Settled
<1>1. GaveUp({job.m})  BY TerminalizeGivesUp DEF Settle, SettleError
<1>2. /\ up /\ job.pc \in {"settle", "error"} /\ job' = NoJob
      /\ UNCHANGED <<up, recovery, queued, call, crashes, faults, retired>>
  BY DEF Settle, SettleError, boundVars
<1>3. job.m \in Memories  BY <1>2 DEF PlaceInv, CallPlaceInv, JobPlaceInv
<1>4. timers \subseteq timers' /\ timers' \subseteq timers \cup {job.m}
  BY DEF Settle, SettleError, Deferred
<1>5. \/ Exhausted(job.m)
      \/ /\ job.pc = "settle" => Final(job.m) \/ job.m \in timers'
         /\ state[job.m] = "failed_retryable" => job.m \in timers'
  BY DEF Settle, SettleError, Deferred, Final
<1>6. \/ state'[job.m] = "failed_terminal"
      \/ state'[job.m] = state[job.m] /\ ~Exhausted(job.m)
  BY <1>1, <1>3 DEF GaveUp
<1>7. state[job.m] \in {"pending", "processing", "failed_retryable"} => ~Final(job.m)
  BY DEF Final
<1> QED  BY <1>1, <1>2, <1>4, <1>5, <1>6, <1>7 DEF Settled

\* What the judgement of the pairs leaves.
LEMMA Judges ==
    ASSUME LearnTypeOK, PlaceInv, Judge
    PROVE  Judged
<1>1. /\ up /\ job.pc = "judge" /\ job \in Jobs /\ job.m \in Memories
      /\ UNCHANGED <<status, state, attempts, revision, waits, up, recovery, queued, timers,
                     call, crashes, faults, retired>>
  BY DEF Judge, LearnTypeOK, PlaceInv, CallPlaceInv, JobPlaceInv, storeVars, scheduleVars, boundVars
<1>2. ASSUME job' = [job EXCEPT !.pc = "resolve"]
      PROVE  /\ job' \in Jobs
             /\ job'.m = job.m /\ job'.rev = job.rev /\ job'.seen = job.seen
             /\ job'.pc = "resolve"
  BY <1>1, <1>2 DEF Jobs
<1>3. ASSUME NEW t \in Memories, job' = [job EXCEPT !.pc = "apply", !.target = t]
      PROVE  /\ job' \in Jobs
             /\ job'.m = job.m /\ job'.rev = job.rev /\ job'.seen = job.seen
             /\ job'.pc = "apply" /\ job'.target \in Memories
  BY <1>1, <1>3 DEF Jobs
<1>4. \/ job' = [job EXCEPT !.pc = "resolve"]
      \/ \E t \in Memories : job' = [job EXCEPT !.pc = "apply", !.target = t]
  <2>1. Targets(job.m) \subseteq Memories  BY <1>1, Places DEF Targets
  <2> QED  BY <2>1 DEF Judge
<1> QED  BY <1>1, <1>2, <1>3, <1>4 DEF Judged

\* What the recovery leaves.
LEMMA Recovers ==
    ASSUME LearnTypeOK, BudgetInv, Recover
    PROVE  Recovered
<1>1. /\ state' = [m \in Memories |-> IF m \in Repaired THEN "pending"
                                      ELSE IF Exhausted(m) THEN "failed_terminal" ELSE state[m]]
      /\ revision' = [m \in Memories |-> IF m \in Repaired \/ Exhausted(m) THEN revision[m] + 1
                                                                           ELSE revision[m]]
      /\ queued' = queued \cup Recoverable
      /\ up /\ recovery /\ ~recovery' /\ recovery' \in BOOLEAN /\ call.pc # "commit"
      /\ UNCHANGED <<status, attempts, waits, up, timers, call, job, crashes, faults, retired>>
  BY DEF Recover, boundVars
<1>2. \A m \in Memories : m \in Repaired => state[m] = "none" /\ status[m] # "absent"
  BY DEF Repaired
<1>3. \A m \in Memories : m \in Recoverable <=> (Unresolved(m) /\ ~Exhausted(m)) \/ m \in Repaired
  BY DEF Recoverable
<1>4. Recoverable \subseteq Memories  BY DEF Recoverable
<1>5. WorkTyped'  BY <1>1 DEF WorkTyped, LearnTypeOK
<1>6. ASSUME NEW c \in queued' \ queued PROVE state'[c] # "none"
  BY <1>6, <1>1, <1>2, <1>3, <1>4 DEF Unresolved
<1>7. queued \subseteq queued' /\ queued' \subseteq Memories
  BY <1>1, <1>4 DEF LearnTypeOK
<1>8. ASSUME NEW c \in Memories
      PROVE  \/ /\ state'[c] = state[c] /\ revision'[c] = revision[c]
                /\ Unresolved(c) => c \in queued'
             \/ /\ state[c] = "none" /\ status[c] # "absent" /\ state'[c] = "pending"
                /\ revision'[c] = revision[c] + 1 /\ c \in queued'
             \/ /\ state[c] = "processing" /\ attempts[c] = MaxAttempts /\ c \notin waits
                /\ state'[c] = "failed_terminal" /\ revision'[c] = revision[c] + 1
  BY <1>1, <1>2, <1>3, ExhaustedClaims
<1> QED  BY <1>1, <1>5, <1>6, <1>7, <1>8 DEF Recovered

\* The types are kept by every step.
LEMMA TypesKept ==
    ASSUME LearnTypeOK, PlaceInv, BudgetInv, DependInv, HandInv, [LearnNext]_learnVars
    PROVE  LearnTypeOK'
<1>0. LearnTypeOK /\ PlaceInv /\ BudgetInv /\ DependInv /\ HandInv  OBVIOUS
<1>1. ASSUME NEW x \in Memories, CommitRecord(x) PROVE LearnTypeOK'
  BY <1>1, <1>0, Places, IdleTyped DEF CommitRecord, workVars, scheduleVars, boundVars,
        LearnTypeOK, Calls, Statuses
<1>2. ASSUME NEW x \in Memories, Take(x) PROVE LearnTypeOK'
  BY <1>2, <1>0, Places, IdleTyped DEF Take, storeVars, boundVars, LearnTypeOK, Jobs
<1>3. ASSUME NEW x \in Memories, RetryTimerFires(x) PROVE LearnTypeOK'
  BY <1>3, <1>0, Places, IdleTyped DEF RetryTimerFires, storeVars, boundVars, LearnTypeOK
<1>4. ASSUME NEW x \in Memories, TimePasses(x) PROVE LearnTypeOK'
  BY <1>4, <1>0, Places, IdleTyped DEF TimePasses, scheduleVars, boundVars, LearnTypeOK
<1>5. ASSUME NEW x \in Memories, Tombstone(x) PROVE LearnTypeOK'
  BY <1>5, <1>0, Places, IdleTyped DEF Tombstone, workVars, scheduleVars, LearnTypeOK, Statuses
<1>6. CASE CommitWork
  <2>1. Wrote(call.m, "pending", 0, FALSE)
    BY <1>6, <1>0, Writes
  <2>2. /\ up /\ call.pc = "commit" /\ call' = [call EXCEPT !.pc = "prepare"]
          /\ UNCHANGED <<status, up, recovery, queued, timers, job, crashes, faults, retired>>
    BY <1>6 DEF CommitWork, scheduleVars, boundVars
  <2> QED  BY <2>1, <2>2, <1>0, Places, IdleTyped DEF Wrote, LearnTypeOK, Calls, WorkTyped
<1>7. CASE PrepareRead
  BY <1>7, <1>0, Places, IdleTyped DEF PrepareRead, storeVars, scheduleVars, boundVars,
        LearnTypeOK, PlaceInv, CallPlaceInv, Calls
<1>8. CASE PrepareWrite
  <2>1. CASE Current(call.m, call.rev)
    <3>1. Wrote(call.m, "pending", attempts[call.m], FALSE)
      BY <1>8, <2>1, Writes
    <3>2. /\ up /\ call.pc = "prepareWrite" /\ call' = [call EXCEPT !.pc = "schedule"]
          /\ status' = [status EXCEPT ![call.m] = call.seen]
              /\ UNCHANGED <<up, recovery, queued, timers, job, crashes, faults, retired>>
      BY <1>8, <2>1 DEF PrepareWrite, scheduleVars, boundVars
    <3> QED  BY <3>1, <3>2, <1>0, Places, IdleTyped DEF Wrote, LearnTypeOK, Calls, WorkTyped
  <2>2. CASE ~Current(call.m, call.rev)
    <3>1. /\ up /\ call.pc = "prepareWrite" /\ call' = NoCall
              /\ UNCHANGED <<status, state, attempts, revision, waits, up, recovery, queued, timers, job, crashes, faults, retired>>
      BY <1>8, <2>2 DEF PrepareWrite, storeVars, scheduleVars, boundVars
    <3> QED  BY <3>1, <2>2, IdleTyped DEF LearnTypeOK
  <2> QED  BY <2>1, <2>2
<1>9. CASE ScheduleFresh
  BY <1>9, <1>0, Places, IdleTyped DEF ScheduleFresh, storeVars, boundVars, LearnTypeOK, PlaceInv,
        CallPlaceInv
<1>10. CASE ClaimRead
  <2>1. ReadClaim  BY <1>10, <1>0, Reads
  <2> QED  BY <2>1, <1>0, Places, IdleTyped DEF ReadClaim, GaveUp, WorkTyped, LearnTypeOK
<1>11. CASE ClaimWrite
  <2>1. CASE Current(job.m, job.rev)
    <3>1. Wrote(job.m, "processing", attempts[job.m] + 1, TRUE)
      BY <1>11, <2>1, Writes
    <3>2. /\ up /\ job.pc = "claimWrite" /\ job' = [job EXCEPT !.pc = "claimMark"]
              /\ UNCHANGED <<status, up, recovery, queued, timers, call, crashes, faults, retired>>
      BY <1>11, <2>1 DEF ClaimWrite, scheduleVars, boundVars
    <3> QED  BY <3>1, <3>2, <1>0, Places, IdleTyped DEF Wrote, LearnTypeOK, Jobs, WorkTyped
  <2>2. CASE ~Current(job.m, job.rev)
    <3>1. /\ up /\ job.pc = "claimWrite" /\ job' = [job EXCEPT !.pc = "error"]
              /\ UNCHANGED <<status, state, attempts, revision, waits, up, recovery, queued, timers, call, crashes, faults, retired>>
      BY <1>11, <2>2 DEF ClaimWrite, workVars, scheduleVars, boundVars
    <3> QED  BY <3>1, <2>2 DEF LearnTypeOK, Jobs
  <2> QED  BY <2>1, <2>2
<1>12. CASE ClaimMark
  BY <1>12, <1>0, Places, IdleTyped DEF ClaimMark, workVars, scheduleVars, boundVars, LearnTypeOK,
        Jobs
<1>13. CASE Judge
  <2>1. Judged  BY <1>13, <1>0, Judges
  <2> QED  BY <2>1, Places, IdleTyped DEF Judged, LearnTypeOK
<1>14. CASE JudgeFails
  BY <1>14, <1>0, Places, IdleTyped DEF JudgeFails, storeVars, scheduleVars, boundVars,
        LearnTypeOK, Jobs
<1>15. CASE Apply
  BY <1>15, <1>0, Places, IdleTyped DEF Apply, workVars, scheduleVars, boundVars, LearnTypeOK,
        Jobs, Statuses
<1>16. CASE EndRead
  BY <1>16, <1>0, Places, IdleTyped DEF EndRead, storeVars, scheduleVars, boundVars, LearnTypeOK,
        PlaceInv, JobPlaceInv, Jobs
<1>17. CASE ResolveWrite
  <2>1. CASE Current(job.m, job.rev)
    <3>1. Wrote(job.m, "resolved", attempts[job.m], FALSE)
      BY <1>17, <2>1, Writes
    <3>2. /\ up /\ job.pc = "resolveWrite" /\ job' = [job EXCEPT !.pc = "settle"]
              /\ UNCHANGED <<status, up, recovery, queued, timers, call, crashes, faults, retired>>
      BY <1>17, <2>1 DEF ResolveWrite, scheduleVars, boundVars
    <3> QED  BY <3>1, <3>2, <1>0, Places, IdleTyped DEF Wrote, LearnTypeOK, Jobs, WorkTyped
  <2>2. CASE ~Current(job.m, job.rev)
    <3>1. /\ up /\ job.pc = "resolveWrite" /\ job' = [job EXCEPT !.pc = "error"]
              /\ UNCHANGED <<status, state, attempts, revision, waits, up, recovery, queued, timers, call, crashes, faults, retired>>
      BY <1>17, <2>2 DEF ResolveWrite, workVars, scheduleVars, boundVars
    <3> QED  BY <3>1, <2>2 DEF LearnTypeOK, Jobs
  <2> QED  BY <2>1, <2>2
<1>18. CASE FailWrite
  <2>1. CASE Current(job.m, job.rev)
    <3>1. Wrote(job.m, FailedState(job.m), attempts[job.m], FailedState(job.m) = "failed_retryable")
      BY <1>18, <2>1, Writes
    <3>2. /\ up /\ job.pc = "failWrite" /\ job' = [job EXCEPT !.pc = "failMark"]
              /\ UNCHANGED <<status, up, recovery, queued, timers, call, crashes, faults, retired>>
      BY <1>18, <2>1 DEF FailWrite, scheduleVars, boundVars
    <3> QED  BY <3>1, <3>2, <1>0, Places, IdleTyped DEF Wrote, LearnTypeOK, Jobs, WorkTyped
  <2>2. CASE ~Current(job.m, job.rev)
    <3>1. /\ up /\ job.pc = "failWrite" /\ job' = [job EXCEPT !.pc = "error"]
              /\ UNCHANGED <<status, state, attempts, revision, waits, up, recovery, queued, timers, call, crashes, faults, retired>>
      BY <1>18, <2>2 DEF FailWrite, workVars, scheduleVars, boundVars
    <3> QED  BY <3>1, <2>2 DEF LearnTypeOK, Jobs
  <2> QED  BY <2>1, <2>2
<1>19. CASE FailMark
  BY <1>19, <1>0, Places, IdleTyped DEF FailMark, workVars, scheduleVars, boundVars, LearnTypeOK,
        Jobs
<1>20. CASE Settle
  <2>1. Settled  BY <1>20, <1>0, Settles
  <2> QED  BY <2>1, <1>0, Places, IdleTyped DEF Settled, GaveUp, WorkTyped, LearnTypeOK, PlaceInv,
        JobPlaceInv
<1>21. CASE SettleError
  <2>1. Settled  BY <1>21, <1>0, Settles
  <2> QED  BY <2>1, <1>0, Places, IdleTyped DEF Settled, GaveUp, WorkTyped, LearnTypeOK, PlaceInv,
        JobPlaceInv
<1>22. CASE Recover
  <2>1. Recovered  BY <1>22, <1>0, Recovers
  <2> QED  BY <2>1, <1>0, Places, IdleTyped DEF Recovered, WorkTyped, LearnTypeOK
<1>23. CASE Report
  <2>1. GaveUp(Memories)  BY <1>23, TerminalizeGivesUp DEF Report
  <2>2. UNCHANGED <<up, recovery, queued, timers, call, job, crashes, faults, retired>>
    BY <1>23 DEF Report, scheduleVars, boundVars
  <2> QED  BY <2>1, <2>2, <1>0, Places, IdleTyped DEF GaveUp, WorkTyped, LearnTypeOK
<1>24. CASE Crash
  <2>1. /\ queued' = {} /\ timers' = {} /\ up' \in BOOLEAN /\ recovery' \in BOOLEAN
        /\ UNCHANGED <<status, state, attempts, revision, waits, faults, retired>>
    BY <1>24 DEF Crash, storeVars
  <2>2. call' \in Calls /\ job' \in Jobs
    BY <1>24, IdleTyped DEF Crash
  <2>3. crashes' \in Nat
    BY <1>24 DEF Crash, LearnTypeOK
  <2> QED  BY <2>1, <2>2, <2>3 DEF LearnTypeOK
<1>25. CASE Restart
  BY <1>25, <1>0, Places, IdleTyped DEF Restart, storeVars, boundVars, LearnTypeOK
<1>26. CASE Fault
  BY <1>26, <1>0, Places, IdleTyped DEF Fault, storeVars, scheduleVars, LearnTypeOK, Jobs
<1>27. CASE UNCHANGED learnVars
  BY <1>27, <1>0 DEF learnVars, storeVars, scheduleVars, boundVars, LearnTypeOK
<1> QED  BY <1>1, <1>2, <1>3, <1>4, <1>5, <1>6, <1>7, <1>8, <1>9, <1>10, <1>11, <1>12, <1>13,
      <1>14, <1>15, <1>16, <1>17, <1>18, <1>19, <1>20, <1>21, <1>22, <1>23, <1>24, <1>25, <1>26,
      <1>27 DEF LearnNext, Remember, JobStep

\* Calls and jobs stay at places that fit the records and the work.
LEMMA PlacesKept ==
    ASSUME LearnTypeOK, PlaceInv, BudgetInv, DependInv, HandInv, [LearnNext]_learnVars
    PROVE  PlaceInv'
<1>0. LearnTypeOK /\ PlaceInv /\ BudgetInv /\ DependInv /\ HandInv  OBVIOUS
<1>1. ASSUME NEW x \in Memories, CommitRecord(x) PROVE PlaceInv'
  BY <1>1, <1>0 DEF CommitRecord, workVars, scheduleVars, NoCall, LearnTypeOK, PlaceInv, OrderInv,
        CallPlaceInv, JobPlaceInv, Prepared
<1>2. ASSUME NEW x \in Memories, Take(x) PROVE PlaceInv'
  BY <1>2, <1>0 DEF Take, storeVars, PlaceInv, OrderInv, CallPlaceInv, JobPlaceInv, Prepared
<1>3. ASSUME NEW x \in Memories, RetryTimerFires(x) PROVE PlaceInv'
  BY <1>3, <1>0 DEF RetryTimerFires, storeVars, PlaceInv, OrderInv, CallPlaceInv, JobPlaceInv,
        Prepared
<1>4. ASSUME NEW x \in Memories, TimePasses(x) PROVE PlaceInv'
  BY <1>4, <1>0 DEF TimePasses, scheduleVars, PlaceInv, OrderInv, CallPlaceInv, JobPlaceInv,
        Prepared
<1>5. ASSUME NEW x \in Memories, Tombstone(x) PROVE PlaceInv'
  BY <1>5, <1>0 DEF Tombstone, workVars, scheduleVars, PlaceInv, OrderInv, CallPlaceInv,
        JobPlaceInv, Prepared
<1>6. CASE CommitWork
  <2>1. Wrote(call.m, "pending", 0, FALSE)
    BY <1>6, <1>0, Writes
  <2>2. /\ up /\ call.pc = "commit" /\ call' = [call EXCEPT !.pc = "prepare"]
          /\ UNCHANGED <<status, up, recovery, queued, timers, job, crashes, faults, retired>>
    BY <1>6 DEF CommitWork, scheduleVars, boundVars
  <2>3. /\ WorkTyped'
        /\ \A m \in Memories :
              /\ status'[m] = "absent" <=> status[m] = "absent"
              /\ status[m] = "absent" => state'[m] = "none"
              /\ state[m] # "none" => state'[m] # "none"
              /\ state'[m] = "none" => attempts'[m] = 0
        /\ call'.pc = "commit" => state'[call.m] = "none"
        /\ Prepared' => state'[call.m] # "none" 
    BY <2>1, <2>2 DEF Wrote, PlaceInv, OrderInv, CallPlaceInv
  <2> QED  BY <2>2, <2>3, <1>0 DEF LearnTypeOK, PlaceInv, OrderInv, CallPlaceInv, JobPlaceInv
<1>7. CASE PrepareRead
  BY <1>7, <1>0 DEF PrepareRead, storeVars, scheduleVars, PlaceInv, OrderInv, CallPlaceInv,
        JobPlaceInv, Prepared
<1>8. CASE PrepareWrite
  <2>1. CASE Current(call.m, call.rev)
    <3>1. Wrote(call.m, "pending", attempts[call.m], FALSE)
      BY <1>8, <2>1, Writes
    <3>2. /\ up /\ call.pc = "prepareWrite" /\ call' = [call EXCEPT !.pc = "schedule"]
          /\ status' = [status EXCEPT ![call.m] = call.seen]
              /\ UNCHANGED <<up, recovery, queued, timers, job, crashes, faults, retired>>
      BY <1>8, <2>1 DEF PrepareWrite, scheduleVars, boundVars
    <3>3. /\ WorkTyped'
          /\ \A m \in Memories :
                /\ status'[m] = "absent" <=> status[m] = "absent"
                /\ status[m] = "absent" => state'[m] = "none"
                /\ state[m] # "none" => state'[m] # "none"
                /\ state'[m] = "none" => attempts'[m] = 0
          /\ call'.pc = "commit" => state'[call.m] = "none"
          /\ Prepared' => state'[call.m] # "none" 
      BY <3>1, <3>2 DEF Wrote, PlaceInv, OrderInv, CallPlaceInv
    <3> QED  BY <3>2, <3>3, <1>0 DEF LearnTypeOK, PlaceInv, OrderInv, CallPlaceInv, JobPlaceInv
  <2>2. CASE ~Current(call.m, call.rev)
    <3>1. /\ up /\ call.pc = "prepareWrite" /\ call' = NoCall
              /\ UNCHANGED <<status, state, attempts, revision, waits, up, recovery, queued, timers, job, crashes, faults, retired>>
      BY <1>8, <2>2 DEF PrepareWrite, storeVars, scheduleVars, boundVars
    <3> QED  BY <3>1, <2>2 DEF NoCall, PlaceInv, OrderInv, CallPlaceInv, JobPlaceInv, Prepared
  <2> QED  BY <2>1, <2>2
<1>9. CASE ScheduleFresh
  BY <1>9, <1>0 DEF ScheduleFresh, storeVars, NoCall, PlaceInv, OrderInv, CallPlaceInv,
        JobPlaceInv, Prepared
<1>10. CASE ClaimRead
  <2>1. ReadClaim  BY <1>10, <1>0, Reads
  <2>2. /\ WorkTyped'
        /\ \A m \in Memories :
              /\ status'[m] = "absent" <=> status[m] = "absent"
              /\ status[m] = "absent" => state'[m] = "none"
              /\ state[m] # "none" => state'[m] # "none"
              /\ state'[m] = "none" => attempts'[m] = 0
        /\ call'.pc = "commit" => state'[call.m] = "none"
        /\ Prepared' => state'[call.m] # "none" 
    BY <2>1 DEF ReadClaim, GaveUp, PlaceInv, OrderInv, CallPlaceInv, Prepared
  <2> QED  BY <2>1, <2>2, <1>0 DEF ReadClaim, LearnTypeOK, PlaceInv, OrderInv, CallPlaceInv,
        JobPlaceInv
<1>11. CASE ClaimWrite
  <2>1. CASE Current(job.m, job.rev)
    <3>1. Wrote(job.m, "processing", attempts[job.m] + 1, TRUE)
      BY <1>11, <2>1, Writes
    <3>2. /\ up /\ job.pc = "claimWrite" /\ job' = [job EXCEPT !.pc = "claimMark"]
              /\ UNCHANGED <<status, up, recovery, queued, timers, call, crashes, faults, retired>>
      BY <1>11, <2>1 DEF ClaimWrite, scheduleVars, boundVars
    <3>3. /\ WorkTyped'
          /\ \A m \in Memories :
                /\ status'[m] = "absent" <=> status[m] = "absent"
                /\ status[m] = "absent" => state'[m] = "none"
                /\ state[m] # "none" => state'[m] # "none"
                /\ state'[m] = "none" => attempts'[m] = 0
          /\ call'.pc = "commit" => state'[call.m] = "none"
          /\ Prepared' => state'[call.m] # "none" 
      BY <3>1, <3>2 DEF Wrote, PlaceInv, OrderInv, CallPlaceInv, JobPlaceInv, Prepared
    <3> QED  BY <3>2, <3>3, <1>0 DEF LearnTypeOK, PlaceInv, OrderInv, CallPlaceInv, JobPlaceInv
  <2>2. CASE ~Current(job.m, job.rev)
    <3>1. /\ up /\ job.pc = "claimWrite" /\ job' = [job EXCEPT !.pc = "error"]
              /\ UNCHANGED <<status, state, attempts, revision, waits, up, recovery, queued, timers, call, crashes, faults, retired>>
      BY <1>11, <2>2 DEF ClaimWrite, workVars, scheduleVars, boundVars
    <3> QED  BY <3>1, <2>2 DEF PlaceInv, OrderInv, CallPlaceInv, JobPlaceInv, Prepared
  <2> QED  BY <2>1, <2>2
<1>12. CASE ClaimMark
  BY <1>12, <1>0 DEF ClaimMark, workVars, scheduleVars, PlaceInv, OrderInv, CallPlaceInv,
        JobPlaceInv, Prepared
<1>13. CASE Judge
  <2>1. Judged  BY <1>13, <1>0, Judges
  <2> QED  BY <2>1 DEF Judged, PlaceInv, OrderInv, CallPlaceInv, JobPlaceInv, Prepared
<1>14. CASE JudgeFails
  BY <1>14, <1>0 DEF JudgeFails, storeVars, scheduleVars, PlaceInv, OrderInv, CallPlaceInv,
        JobPlaceInv, Prepared
<1>15. CASE Apply
  BY <1>15, <1>0 DEF Apply, workVars, scheduleVars, PlaceInv, OrderInv, CallPlaceInv, JobPlaceInv,
        Prepared
<1>16. CASE EndRead
  BY <1>16, <1>0 DEF EndRead, storeVars, scheduleVars, PlaceInv, OrderInv, CallPlaceInv,
        JobPlaceInv, Prepared
<1>17. CASE ResolveWrite
  <2>1. CASE Current(job.m, job.rev)
    <3>1. Wrote(job.m, "resolved", attempts[job.m], FALSE)
      BY <1>17, <2>1, Writes
    <3>2. /\ up /\ job.pc = "resolveWrite" /\ job' = [job EXCEPT !.pc = "settle"]
              /\ UNCHANGED <<status, up, recovery, queued, timers, call, crashes, faults, retired>>
      BY <1>17, <2>1 DEF ResolveWrite, scheduleVars, boundVars
    <3>3. /\ WorkTyped'
          /\ \A m \in Memories :
                /\ status'[m] = "absent" <=> status[m] = "absent"
                /\ status[m] = "absent" => state'[m] = "none"
                /\ state[m] # "none" => state'[m] # "none"
                /\ state'[m] = "none" => attempts'[m] = 0
          /\ call'.pc = "commit" => state'[call.m] = "none"
          /\ Prepared' => state'[call.m] # "none" 
      BY <3>1, <3>2 DEF Wrote, PlaceInv, OrderInv, CallPlaceInv, JobPlaceInv, Prepared
    <3> QED  BY <3>2, <3>3, <1>0 DEF LearnTypeOK, PlaceInv, OrderInv, CallPlaceInv, JobPlaceInv
  <2>2. CASE ~Current(job.m, job.rev)
    <3>1. /\ up /\ job.pc = "resolveWrite" /\ job' = [job EXCEPT !.pc = "error"]
              /\ UNCHANGED <<status, state, attempts, revision, waits, up, recovery, queued, timers, call, crashes, faults, retired>>
      BY <1>17, <2>2 DEF ResolveWrite, workVars, scheduleVars, boundVars
    <3> QED  BY <3>1, <2>2 DEF PlaceInv, OrderInv, CallPlaceInv, JobPlaceInv, Prepared
  <2> QED  BY <2>1, <2>2
<1>18. CASE FailWrite
  <2>1. CASE Current(job.m, job.rev)
    <3>1. Wrote(job.m, FailedState(job.m), attempts[job.m], FailedState(job.m) = "failed_retryable")
      BY <1>18, <2>1, Writes
    <3>2. /\ up /\ job.pc = "failWrite" /\ job' = [job EXCEPT !.pc = "failMark"]
              /\ UNCHANGED <<status, up, recovery, queued, timers, call, crashes, faults, retired>>
      BY <1>18, <2>1 DEF FailWrite, scheduleVars, boundVars
    <3>3. /\ WorkTyped'
          /\ \A m \in Memories :
                /\ status'[m] = "absent" <=> status[m] = "absent"
                /\ status[m] = "absent" => state'[m] = "none"
                /\ state[m] # "none" => state'[m] # "none"
                /\ state'[m] = "none" => attempts'[m] = 0
          /\ call'.pc = "commit" => state'[call.m] = "none"
          /\ Prepared' => state'[call.m] # "none" 
      BY <3>1, <3>2 DEF Wrote, PlaceInv, OrderInv, CallPlaceInv, JobPlaceInv, Prepared,
            FailedState
    <3> QED  BY <3>2, <3>3, <1>0 DEF LearnTypeOK, PlaceInv, OrderInv, CallPlaceInv, JobPlaceInv
  <2>2. CASE ~Current(job.m, job.rev)
    <3>1. /\ up /\ job.pc = "failWrite" /\ job' = [job EXCEPT !.pc = "error"]
              /\ UNCHANGED <<status, state, attempts, revision, waits, up, recovery, queued, timers, call, crashes, faults, retired>>
      BY <1>18, <2>2 DEF FailWrite, workVars, scheduleVars, boundVars
    <3> QED  BY <3>1, <2>2 DEF PlaceInv, OrderInv, CallPlaceInv, JobPlaceInv, Prepared
  <2> QED  BY <2>1, <2>2
<1>19. CASE FailMark
  BY <1>19, <1>0 DEF FailMark, workVars, scheduleVars, PlaceInv, OrderInv, CallPlaceInv,
        JobPlaceInv, Prepared
<1>20. CASE Settle
  <2>1. Settled  BY <1>20, <1>0, Settles
  <2>2. /\ WorkTyped'
        /\ \A m \in Memories :
              /\ status'[m] = "absent" <=> status[m] = "absent"
              /\ status[m] = "absent" => state'[m] = "none"
              /\ state[m] # "none" => state'[m] # "none"
              /\ state'[m] = "none" => attempts'[m] = 0
        /\ call'.pc = "commit" => state'[call.m] = "none"
        /\ Prepared' => state'[call.m] # "none" 
    BY <2>1 DEF Settled, GaveUp, PlaceInv, OrderInv, CallPlaceInv, Prepared
  <2> QED  BY <2>1, <2>2, <1>0 DEF Settled, NoJob, LearnTypeOK, PlaceInv, OrderInv, CallPlaceInv,
        JobPlaceInv
<1>21. CASE SettleError
  <2>1. Settled  BY <1>21, <1>0, Settles
  <2>2. /\ WorkTyped'
        /\ \A m \in Memories :
              /\ status'[m] = "absent" <=> status[m] = "absent"
              /\ status[m] = "absent" => state'[m] = "none"
              /\ state[m] # "none" => state'[m] # "none"
              /\ state'[m] = "none" => attempts'[m] = 0
        /\ call'.pc = "commit" => state'[call.m] = "none"
        /\ Prepared' => state'[call.m] # "none" 
    BY <2>1 DEF Settled, GaveUp, PlaceInv, OrderInv, CallPlaceInv, Prepared
  <2> QED  BY <2>1, <2>2, <1>0 DEF Settled, NoJob, LearnTypeOK, PlaceInv, OrderInv, CallPlaceInv,
        JobPlaceInv
<1>22. CASE Recover
  <2>1. Recovered  BY <1>22, <1>0, Recovers
  <2>2. /\ WorkTyped'
        /\ \A m \in Memories :
              /\ status'[m] = "absent" <=> status[m] = "absent"
              /\ status[m] = "absent" => state'[m] = "none"
              /\ state[m] # "none" => state'[m] # "none"
              /\ state'[m] = "none" => attempts'[m] = 0
        /\ call'.pc = "commit" => state'[call.m] = "none"
        /\ Prepared' => state'[call.m] # "none" 
    BY <2>1 DEF Recovered, PlaceInv, OrderInv, CallPlaceInv, Prepared
  <2> QED  BY <2>1, <2>2, <1>0 DEF Recovered, LearnTypeOK, PlaceInv, OrderInv, CallPlaceInv,
        JobPlaceInv
<1>23. CASE Report
  <2>1. GaveUp(Memories)  BY <1>23, TerminalizeGivesUp DEF Report
  <2>2. UNCHANGED <<up, recovery, queued, timers, call, job, crashes, faults, retired>>
    BY <1>23 DEF Report, scheduleVars, boundVars
  <2>3. /\ WorkTyped'
        /\ \A m \in Memories :
              /\ status'[m] = "absent" <=> status[m] = "absent"
              /\ status[m] = "absent" => state'[m] = "none"
              /\ state[m] # "none" => state'[m] # "none"
              /\ state'[m] = "none" => attempts'[m] = 0
        /\ call'.pc = "commit" => state'[call.m] = "none"
        /\ Prepared' => state'[call.m] # "none" 
    BY <2>1, <2>2 DEF GaveUp, PlaceInv, OrderInv, CallPlaceInv, Prepared
  <2> QED  BY <2>2, <2>3, <1>0 DEF LearnTypeOK, PlaceInv, OrderInv, CallPlaceInv, JobPlaceInv
<1>24. CASE Crash
  BY <1>24, <1>0 DEF Crash, storeVars, NoCall, NoJob, PlaceInv, OrderInv, CallPlaceInv,
        JobPlaceInv, Prepared
<1>25. CASE Restart
  BY <1>25, <1>0 DEF Restart, storeVars, PlaceInv, OrderInv, CallPlaceInv, JobPlaceInv, Prepared
<1>26. CASE Fault
  BY <1>26, <1>0 DEF Fault, storeVars, scheduleVars, PlaceInv, OrderInv, CallPlaceInv,
        JobPlaceInv, Prepared
<1>27. CASE UNCHANGED learnVars
  BY <1>27, <1>0 DEF learnVars, storeVars, scheduleVars, PlaceInv, OrderInv, CallPlaceInv,
        JobPlaceInv, Prepared
<1> QED  BY <1>1, <1>2, <1>3, <1>4, <1>5, <1>6, <1>7, <1>8, <1>9, <1>10, <1>11, <1>12, <1>13,
      <1>14, <1>15, <1>16, <1>17, <1>18, <1>19, <1>20, <1>21, <1>22, <1>23, <1>24, <1>25, <1>26,
      <1>27 DEF LearnNext, Remember, JobStep

\* Open work has budget left, and only spent work is terminal.
LEMMA SpentKept ==
    ASSUME LearnTypeOK, PlaceInv, BudgetInv, DependInv, HandInv, [LearnNext]_learnVars
    PROVE  SpentInv'
<1>0. LearnTypeOK /\ PlaceInv /\ BudgetInv /\ DependInv /\ HandInv  OBVIOUS
<1>1. ASSUME NEW x \in Memories, CommitRecord(x) PROVE SpentInv'
  BY <1>1 DEF CommitRecord, workVars, BudgetInv, SpentInv, UnresolvedHasBudget
<1>2. ASSUME NEW x \in Memories, Take(x) PROVE SpentInv'
  BY <1>2 DEF Take, storeVars, BudgetInv, SpentInv, UnresolvedHasBudget
<1>3. ASSUME NEW x \in Memories, RetryTimerFires(x) PROVE SpentInv'
  BY <1>3 DEF RetryTimerFires, storeVars, BudgetInv, SpentInv, UnresolvedHasBudget
<1>4. ASSUME NEW x \in Memories, TimePasses(x) PROVE SpentInv'
  BY <1>4 DEF TimePasses, BudgetInv, SpentInv, UnresolvedHasBudget
<1>5. ASSUME NEW x \in Memories, Tombstone(x) PROVE SpentInv'
  BY <1>5 DEF Tombstone, workVars, BudgetInv, SpentInv, UnresolvedHasBudget
<1>6. CASE CommitWork
  <2>1. Wrote(call.m, "pending", 0, FALSE)
    BY <1>6, <1>0, Writes
  <2>2. /\ up /\ call.pc = "commit" /\ call' = [call EXCEPT !.pc = "prepare"]
          /\ UNCHANGED <<status, up, recovery, queued, timers, job, crashes, faults, retired>>
    BY <1>6 DEF CommitWork, scheduleVars, boundVars
  <2> QED  BY <2>1, <2>2, <1>0, LearnAssumption DEF Wrote, BudgetInv, SpentInv,
        UnresolvedHasBudget, LearnAssumption
<1>7. CASE PrepareRead
  BY <1>7 DEF PrepareRead, storeVars, BudgetInv, SpentInv, UnresolvedHasBudget
<1>8. CASE PrepareWrite
  <2>1. CASE Current(call.m, call.rev)
    <3>1. Wrote(call.m, "pending", attempts[call.m], FALSE)
      BY <1>8, <2>1, Writes
    <3>2. /\ up /\ call.pc = "prepareWrite" /\ call' = [call EXCEPT !.pc = "schedule"]
          /\ status' = [status EXCEPT ![call.m] = call.seen]
              /\ UNCHANGED <<up, recovery, queued, timers, job, crashes, faults, retired>>
      BY <1>8, <2>1 DEF PrepareWrite, scheduleVars, boundVars
    <3> QED  BY <3>1, <3>2, <2>1, <1>0, LearnAssumption DEF Wrote, NoCall, NoJob, LearnTypeOK,
          BudgetInv, SpentInv, UnresolvedHasBudget, CallInv, ClaimedOnce, LearnAssumption
  <2>2. CASE ~Current(call.m, call.rev)
    <3>1. /\ up /\ call.pc = "prepareWrite" /\ call' = NoCall
              /\ UNCHANGED <<status, state, attempts, revision, waits, up, recovery, queued, timers, job, crashes, faults, retired>>
      BY <1>8, <2>2 DEF PrepareWrite, storeVars, scheduleVars, boundVars
    <3> QED  BY <3>1, <2>2, <1>0 DEF NoCall, NoJob, LearnTypeOK, BudgetInv, SpentInv,
          UnresolvedHasBudget
  <2> QED  BY <2>1, <2>2
<1>9. CASE ScheduleFresh
  BY <1>9 DEF ScheduleFresh, storeVars, BudgetInv, SpentInv, UnresolvedHasBudget
<1>10. CASE ClaimRead
  <2>1. ReadClaim  BY <1>10, <1>0, Reads
  <2> QED  BY <2>1 DEF ReadClaim, GaveUp, BudgetInv, SpentInv, UnresolvedHasBudget
<1>11. CASE ClaimWrite
  <2>1. CASE Current(job.m, job.rev)
    <3>1. Wrote(job.m, "processing", attempts[job.m] + 1, TRUE)
      BY <1>11, <2>1, Writes
    <3>2. /\ up /\ job.pc = "claimWrite" /\ job' = [job EXCEPT !.pc = "claimMark"]
              /\ UNCHANGED <<status, up, recovery, queued, timers, call, crashes, faults, retired>>
      BY <1>11, <2>1 DEF ClaimWrite, scheduleVars, boundVars
    <3> QED  BY <3>1, <3>2, <2>1, <1>0 DEF Wrote, BudgetInv, SpentInv, UnresolvedHasBudget
  <2>2. CASE ~Current(job.m, job.rev)
    <3>1. /\ up /\ job.pc = "claimWrite" /\ job' = [job EXCEPT !.pc = "error"]
              /\ UNCHANGED <<status, state, attempts, revision, waits, up, recovery, queued, timers, call, crashes, faults, retired>>
      BY <1>11, <2>2 DEF ClaimWrite, workVars, scheduleVars, boundVars
    <3> QED  BY <3>1, <2>2 DEF BudgetInv, SpentInv, UnresolvedHasBudget
  <2> QED  BY <2>1, <2>2
<1>12. CASE ClaimMark
  BY <1>12 DEF ClaimMark, workVars, BudgetInv, SpentInv, UnresolvedHasBudget
<1>13. CASE Judge
  <2>1. Judged  BY <1>13, <1>0, Judges
  <2> QED  BY <2>1 DEF Judged, BudgetInv, SpentInv, UnresolvedHasBudget
<1>14. CASE JudgeFails
  BY <1>14 DEF JudgeFails, storeVars, BudgetInv, SpentInv, UnresolvedHasBudget
<1>15. CASE Apply
  BY <1>15 DEF Apply, workVars, BudgetInv, SpentInv, UnresolvedHasBudget
<1>16. CASE EndRead
  BY <1>16 DEF EndRead, storeVars, BudgetInv, SpentInv, UnresolvedHasBudget
<1>17. CASE ResolveWrite
  <2>1. CASE Current(job.m, job.rev)
    <3>1. Wrote(job.m, "resolved", attempts[job.m], FALSE)
      BY <1>17, <2>1, Writes
    <3>2. /\ up /\ job.pc = "resolveWrite" /\ job' = [job EXCEPT !.pc = "settle"]
              /\ UNCHANGED <<status, up, recovery, queued, timers, call, crashes, faults, retired>>
      BY <1>17, <2>1 DEF ResolveWrite, scheduleVars, boundVars
    <3> QED  BY <3>1, <3>2, <2>1, <1>0 DEF Wrote, BudgetInv, SpentInv, UnresolvedHasBudget
  <2>2. CASE ~Current(job.m, job.rev)
    <3>1. /\ up /\ job.pc = "resolveWrite" /\ job' = [job EXCEPT !.pc = "error"]
              /\ UNCHANGED <<status, state, attempts, revision, waits, up, recovery, queued, timers, call, crashes, faults, retired>>
      BY <1>17, <2>2 DEF ResolveWrite, workVars, scheduleVars, boundVars
    <3> QED  BY <3>1, <2>2 DEF BudgetInv, SpentInv, UnresolvedHasBudget
  <2> QED  BY <2>1, <2>2
<1>18. CASE FailWrite
  <2>1. CASE Current(job.m, job.rev)
    <3>1. Wrote(job.m, FailedState(job.m), attempts[job.m], FailedState(job.m) = "failed_retryable")
      BY <1>18, <2>1, Writes
    <3>2. /\ up /\ job.pc = "failWrite" /\ job' = [job EXCEPT !.pc = "failMark"]
              /\ UNCHANGED <<status, up, recovery, queued, timers, call, crashes, faults, retired>>
      BY <1>18, <2>1 DEF FailWrite, scheduleVars, boundVars
    <3> QED  BY <3>1, <3>2, <2>1, <1>0, LearnAssumption DEF Wrote, NoCall, LearnTypeOK, BudgetInv,
          SpentInv, UnresolvedHasBudget, FailedState, LearnAssumption
  <2>2. CASE ~Current(job.m, job.rev)
    <3>1. /\ up /\ job.pc = "failWrite" /\ job' = [job EXCEPT !.pc = "error"]
              /\ UNCHANGED <<status, state, attempts, revision, waits, up, recovery, queued, timers, call, crashes, faults, retired>>
      BY <1>18, <2>2 DEF FailWrite, workVars, scheduleVars, boundVars
    <3> QED  BY <3>1, <2>2, <1>0 DEF BudgetInv, SpentInv, UnresolvedHasBudget
  <2> QED  BY <2>1, <2>2
<1>19. CASE FailMark
  BY <1>19 DEF FailMark, workVars, BudgetInv, SpentInv, UnresolvedHasBudget
<1>20. CASE Settle
  <2>1. Settled  BY <1>20, <1>0, Settles
  <2> QED  BY <2>1 DEF Settled, GaveUp, BudgetInv, SpentInv, UnresolvedHasBudget
<1>21. CASE SettleError
  <2>1. Settled  BY <1>21, <1>0, Settles
  <2> QED  BY <2>1 DEF Settled, GaveUp, BudgetInv, SpentInv, UnresolvedHasBudget
<1>22. CASE Recover
  <2>1. Recovered  BY <1>22, <1>0, Recovers
  <2> QED  BY <2>1, <1>0, LearnAssumption DEF Recovered, BudgetInv, SpentInv, UnresolvedHasBudget,
        LearnAssumption, PlaceInv, OrderInv
<1>23. CASE Report
  <2>1. GaveUp(Memories)  BY <1>23, TerminalizeGivesUp DEF Report
  <2>2. UNCHANGED <<up, recovery, queued, timers, call, job, crashes, faults, retired>>
    BY <1>23 DEF Report, scheduleVars, boundVars
  <2> QED  BY <2>1, <2>2 DEF GaveUp, BudgetInv, SpentInv, UnresolvedHasBudget
<1>24. CASE Crash
  BY <1>24 DEF Crash, storeVars, BudgetInv, SpentInv, UnresolvedHasBudget
<1>25. CASE Restart
  BY <1>25 DEF Restart, storeVars, BudgetInv, SpentInv, UnresolvedHasBudget
<1>26. CASE Fault
  BY <1>26 DEF Fault, storeVars, BudgetInv, SpentInv, UnresolvedHasBudget
<1>27. CASE UNCHANGED learnVars
  BY <1>27 DEF learnVars, storeVars, BudgetInv, SpentInv, UnresolvedHasBudget
<1> QED  BY <1>1, <1>2, <1>3, <1>4, <1>5, <1>6, <1>7, <1>8, <1>9, <1>10, <1>11, <1>12, <1>13,
      <1>14, <1>15, <1>16, <1>17, <1>18, <1>19, <1>20, <1>21, <1>22, <1>23, <1>24, <1>25, <1>26,
      <1>27 DEF LearnNext, Remember, JobStep

\* What the call of remember() read still says what it may write.
LEMMA CallKept ==
    ASSUME LearnTypeOK, PlaceInv, BudgetInv, DependInv, HandInv, [LearnNext]_learnVars
    PROVE  CallInv'
<1>0. LearnTypeOK /\ PlaceInv /\ BudgetInv /\ DependInv /\ HandInv  OBVIOUS
<1>1. ASSUME NEW x \in Memories, CommitRecord(x) PROVE CallInv'
  BY <1>1, <1>0 DEF CommitRecord, workVars, scheduleVars, boundVars, NoCall, NoJob, LearnTypeOK,
        CallInv
<1>2. ASSUME NEW x \in Memories, Take(x) PROVE CallInv'
  BY <1>2, <1>0 DEF Take, storeVars, boundVars, NoCall, NoJob, LearnTypeOK, BudgetInv, CallInv,
        ClaimedOnce, Final, Current
<1>3. ASSUME NEW x \in Memories, RetryTimerFires(x) PROVE CallInv'
  BY <1>3, <1>0 DEF RetryTimerFires, storeVars, boundVars, NoCall, NoJob, LearnTypeOK, BudgetInv,
        CallInv, ClaimedOnce, Final, Current
<1>4. ASSUME NEW x \in Memories, TimePasses(x) PROVE CallInv'
  BY <1>4, <1>0 DEF TimePasses, scheduleVars, boundVars, NoCall, NoJob, LearnTypeOK, CallInv
<1>5. ASSUME NEW x \in Memories, Tombstone(x) PROVE CallInv'
  BY <1>5, <1>0 DEF Tombstone, workVars, scheduleVars, NoCall, NoJob, LearnTypeOK, BudgetInv,
        CallInv, ClaimedOnce, Final, Current
<1>6. CASE CommitWork
  <2>1. Wrote(call.m, "pending", 0, FALSE)
    BY <1>6, <1>0, Writes
  <2>2. /\ up /\ call.pc = "commit" /\ call' = [call EXCEPT !.pc = "prepare"]
          /\ UNCHANGED <<status, up, recovery, queued, timers, job, crashes, faults, retired>>
    BY <1>6 DEF CommitWork, scheduleVars, boundVars
  <2> QED  BY <2>1, <2>2, <1>0 DEF Wrote, NoCall, NoJob, LearnTypeOK, CallInv, ClaimedOnce
<1>7. CASE PrepareRead
  BY <1>7, <1>0 DEF PrepareRead, storeVars, scheduleVars, boundVars, NoCall, NoJob, LearnTypeOK,
        PlaceInv, CallPlaceInv, BudgetInv, CallInv, ClaimedOnce, Final
<1>8. CASE PrepareWrite
  <2>1. CASE Current(call.m, call.rev)
    <3>1. Wrote(call.m, "pending", attempts[call.m], FALSE)
      BY <1>8, <2>1, Writes
    <3>2. /\ up /\ call.pc = "prepareWrite" /\ call' = [call EXCEPT !.pc = "schedule"]
          /\ status' = [status EXCEPT ![call.m] = call.seen]
              /\ UNCHANGED <<up, recovery, queued, timers, job, crashes, faults, retired>>
      BY <1>8, <2>1 DEF PrepareWrite, scheduleVars, boundVars
    <3> QED  BY <3>1, <3>2, <2>1, <1>0 DEF Wrote, NoCall, NoJob, LearnTypeOK, CallInv
  <2>2. CASE ~Current(call.m, call.rev)
    <3>1. /\ up /\ call.pc = "prepareWrite" /\ call' = NoCall
              /\ UNCHANGED <<status, state, attempts, revision, waits, up, recovery, queued, timers, job, crashes, faults, retired>>
      BY <1>8, <2>2 DEF PrepareWrite, storeVars, scheduleVars, boundVars
    <3> QED  BY <3>1, <2>2, <1>0 DEF NoCall, NoJob, LearnTypeOK, CallInv
  <2> QED  BY <2>1, <2>2
<1>9. CASE ScheduleFresh
  BY <1>9, <1>0 DEF ScheduleFresh, storeVars, boundVars, NoCall, NoJob, LearnTypeOK, CallInv
<1>10. CASE ClaimRead
  <2>1. ReadClaim  BY <1>10, <1>0, Reads
  <2> QED  BY <2>1, <1>0 DEF ReadClaim, GaveUp, WorkTyped, LearnTypeOK, PlaceInv, CallPlaceInv,
        BudgetInv, CallInv, ClaimedOnce, Final, Current
<1>11. CASE ClaimWrite
  <2>1. CASE Current(job.m, job.rev)
    <3>1. Wrote(job.m, "processing", attempts[job.m] + 1, TRUE)
      BY <1>11, <2>1, Writes
    <3>2. /\ up /\ job.pc = "claimWrite" /\ job' = [job EXCEPT !.pc = "claimMark"]
              /\ UNCHANGED <<status, up, recovery, queued, timers, call, crashes, faults, retired>>
      BY <1>11, <2>1 DEF ClaimWrite, scheduleVars, boundVars
    <3> QED  BY <3>1, <3>2, <2>1, <1>0 DEF Wrote, NoCall, NoJob, LearnTypeOK, PlaceInv, OrderInv,
          CallPlaceInv, Calls, BudgetInv, CallInv, ClaimedOnce, Final, Current, ClaimInv,
          Claimable
  <2>2. CASE ~Current(job.m, job.rev)
    <3>1. /\ up /\ job.pc = "claimWrite" /\ job' = [job EXCEPT !.pc = "error"]
              /\ UNCHANGED <<status, state, attempts, revision, waits, up, recovery, queued, timers, call, crashes, faults, retired>>
      BY <1>11, <2>2 DEF ClaimWrite, workVars, scheduleVars, boundVars
    <3> QED  BY <3>1, <2>2, <1>0 DEF NoCall, NoJob, LearnTypeOK, PlaceInv, OrderInv, CallPlaceInv,
          BudgetInv, CallInv, ClaimedOnce, Final, Current
  <2> QED  BY <2>1, <2>2
<1>12. CASE ClaimMark
  BY <1>12, <1>0 DEF ClaimMark, workVars, scheduleVars, boundVars, NoCall, NoJob, LearnTypeOK,
        BudgetInv, CallInv, ClaimedOnce, Final, Current
<1>13. CASE Judge
  <2>1. Judged  BY <1>13, <1>0, Judges
  <2> QED  BY <2>1, <1>0 DEF Judged, LearnTypeOK, BudgetInv, CallInv, ClaimedOnce, Final, Current
<1>14. CASE JudgeFails
  BY <1>14, <1>0 DEF JudgeFails, storeVars, scheduleVars, boundVars, NoCall, NoJob, LearnTypeOK,
        BudgetInv, CallInv, ClaimedOnce, Final, Current
<1>15. CASE Apply
  BY <1>15, <1>0 DEF Apply, workVars, scheduleVars, boundVars, NoCall, NoJob, LearnTypeOK,
        BudgetInv, CallInv, ClaimedOnce, Final, Current
<1>16. CASE EndRead
  BY <1>16, <1>0 DEF EndRead, storeVars, scheduleVars, boundVars, NoCall, NoJob, LearnTypeOK,
        BudgetInv, CallInv, ClaimedOnce, Final, Current
<1>17. CASE ResolveWrite
  <2>1. CASE Current(job.m, job.rev)
    <3>1. Wrote(job.m, "resolved", attempts[job.m], FALSE)
      BY <1>17, <2>1, Writes
    <3>2. /\ up /\ job.pc = "resolveWrite" /\ job' = [job EXCEPT !.pc = "settle"]
              /\ UNCHANGED <<status, up, recovery, queued, timers, call, crashes, faults, retired>>
      BY <1>17, <2>1 DEF ResolveWrite, scheduleVars, boundVars
    <3> QED  BY <3>1, <3>2, <2>1, <1>0 DEF Wrote, NoCall, NoJob, LearnTypeOK, PlaceInv, OrderInv,
          CallPlaceInv, Calls, BudgetInv, CallInv, ClaimedOnce, Final, Current, ClaimInv, Claimed
  <2>2. CASE ~Current(job.m, job.rev)
    <3>1. /\ up /\ job.pc = "resolveWrite" /\ job' = [job EXCEPT !.pc = "error"]
              /\ UNCHANGED <<status, state, attempts, revision, waits, up, recovery, queued, timers, call, crashes, faults, retired>>
      BY <1>17, <2>2 DEF ResolveWrite, workVars, scheduleVars, boundVars
    <3> QED  BY <3>1, <2>2, <1>0 DEF NoCall, NoJob, LearnTypeOK, PlaceInv, OrderInv, CallPlaceInv,
          BudgetInv, CallInv, ClaimedOnce, Final, Current
  <2> QED  BY <2>1, <2>2
<1>18. CASE FailWrite
  <2>1. CASE Current(job.m, job.rev)
    <3>1. Wrote(job.m, FailedState(job.m), attempts[job.m], FailedState(job.m) = "failed_retryable")
      BY <1>18, <2>1, Writes
    <3>2. /\ up /\ job.pc = "failWrite" /\ job' = [job EXCEPT !.pc = "failMark"]
              /\ UNCHANGED <<status, up, recovery, queued, timers, call, crashes, faults, retired>>
      BY <1>18, <2>1 DEF FailWrite, scheduleVars, boundVars
    <3> QED  BY <3>1, <3>2, <2>1, <1>0 DEF Wrote, NoCall, NoJob, LearnTypeOK, PlaceInv, OrderInv,
          CallPlaceInv, JobPlaceInv, Calls, BudgetInv, CallInv, ClaimedOnce, Final, Current,
          FailedState, ClaimInv, Claimed
  <2>2. CASE ~Current(job.m, job.rev)
    <3>1. /\ up /\ job.pc = "failWrite" /\ job' = [job EXCEPT !.pc = "error"]
              /\ UNCHANGED <<status, state, attempts, revision, waits, up, recovery, queued, timers, call, crashes, faults, retired>>
      BY <1>18, <2>2 DEF FailWrite, workVars, scheduleVars, boundVars
    <3> QED  BY <3>1, <2>2, <1>0 DEF NoCall, NoJob, LearnTypeOK, PlaceInv, OrderInv, CallPlaceInv,
          BudgetInv, CallInv, ClaimedOnce, Final, Current
  <2> QED  BY <2>1, <2>2
<1>19. CASE FailMark
  BY <1>19, <1>0 DEF FailMark, workVars, scheduleVars, boundVars, NoCall, NoJob, LearnTypeOK,
        BudgetInv, CallInv, ClaimedOnce, Final, Current
<1>20. CASE Settle
  <2>1. Settled  BY <1>20, <1>0, Settles
  <2> QED  BY <2>1, <1>0 DEF Settled, GaveUp, WorkTyped, NoCall, NoJob, LearnTypeOK, PlaceInv,
        CallPlaceInv, BudgetInv, CallInv, ClaimedOnce, Final, Current
<1>21. CASE SettleError
  <2>1. Settled  BY <1>21, <1>0, Settles
  <2> QED  BY <2>1, <1>0 DEF Settled, GaveUp, WorkTyped, NoCall, NoJob, LearnTypeOK, PlaceInv,
        CallPlaceInv, BudgetInv, CallInv, ClaimedOnce, Final, Current
<1>22. CASE Recover
  <2>1. Recovered  BY <1>22, <1>0, Recovers
  <2> QED  BY <2>1, <1>0 DEF Recovered, WorkTyped, LearnTypeOK, PlaceInv, CallPlaceInv, BudgetInv,
        CallInv, ClaimedOnce, Final, Current
<1>23. CASE Report
  <2>1. GaveUp(Memories)  BY <1>23, TerminalizeGivesUp DEF Report
  <2>2. UNCHANGED <<up, recovery, queued, timers, call, job, crashes, faults, retired>>
    BY <1>23 DEF Report, scheduleVars, boundVars
  <2> QED  BY <2>1, <2>2, <1>0 DEF GaveUp, WorkTyped, LearnTypeOK, PlaceInv, CallPlaceInv,
        BudgetInv, CallInv, ClaimedOnce, Final, Current
<1>24. CASE Crash
  BY <1>24, <1>0 DEF Crash, storeVars, NoCall, NoJob, LearnTypeOK, CallInv
<1>25. CASE Restart
  BY <1>25, <1>0 DEF Restart, storeVars, boundVars, NoCall, NoJob, LearnTypeOK, PlaceInv,
        JobPlaceInv, CallInv
<1>26. CASE Fault
  BY <1>26, <1>0 DEF Fault, storeVars, scheduleVars, NoCall, NoJob, LearnTypeOK, BudgetInv,
        CallInv, ClaimedOnce, Final, Current
<1>27. CASE UNCHANGED learnVars
  BY <1>27, <1>0 DEF learnVars, storeVars, scheduleVars, boundVars, NoCall, NoJob, LearnTypeOK,
        BudgetInv, CallInv, ClaimedOnce, Final, Current
<1> QED  BY <1>1, <1>2, <1>3, <1>4, <1>5, <1>6, <1>7, <1>8, <1>9, <1>10, <1>11, <1>12, <1>13,
      <1>14, <1>15, <1>16, <1>17, <1>18, <1>19, <1>20, <1>21, <1>22, <1>23, <1>24, <1>25, <1>26,
      <1>27 DEF LearnNext, Remember, JobStep

\* What the job read still says what it may write.
LEMMA ClaimKept ==
    ASSUME LearnTypeOK, PlaceInv, BudgetInv, DependInv, HandInv, [LearnNext]_learnVars
    PROVE  ClaimInv'
<1>0. LearnTypeOK /\ PlaceInv /\ BudgetInv /\ DependInv /\ HandInv  OBVIOUS
<1>1. ASSUME NEW x \in Memories, CommitRecord(x) PROVE ClaimInv'
  BY <1>1, <1>0 DEF CommitRecord, workVars, scheduleVars, boundVars, NoCall, NoJob, LearnTypeOK,
        PlaceInv, BudgetInv, ClaimInv, Comparing, Claimed, Claimable, Current
<1>2. ASSUME NEW x \in Memories, Take(x) PROVE ClaimInv'
  BY <1>2, <1>0 DEF Take, storeVars, boundVars, NoCall, NoJob, LearnTypeOK, PlaceInv, ClaimInv,
        Claimed
<1>3. ASSUME NEW x \in Memories, RetryTimerFires(x) PROVE ClaimInv'
  BY <1>3, <1>0 DEF RetryTimerFires, storeVars, boundVars, NoCall, NoJob, LearnTypeOK, PlaceInv,
        BudgetInv, ClaimInv, Comparing, Claimed, Claimable, Current
<1>4. ASSUME NEW x \in Memories, TimePasses(x) PROVE ClaimInv'
  BY <1>4, <1>0 DEF TimePasses, scheduleVars, boundVars, NoCall, NoJob, LearnTypeOK, PlaceInv,
        BudgetInv, ClaimInv, Comparing, Claimed, Claimable, Current
<1>5. ASSUME NEW x \in Memories, Tombstone(x) PROVE ClaimInv'
  BY <1>5, <1>0 DEF Tombstone, workVars, scheduleVars, NoCall, NoJob, LearnTypeOK, PlaceInv,
        BudgetInv, ClaimInv, Comparing, Claimed, Claimable, Current
<1>6. CASE CommitWork
  <2>1. Wrote(call.m, "pending", 0, FALSE)
    BY <1>6, <1>0, Writes
  <2>2. /\ up /\ call.pc = "commit" /\ call' = [call EXCEPT !.pc = "prepare"]
          /\ UNCHANGED <<status, up, recovery, queued, timers, job, crashes, faults, retired>>
    BY <1>6 DEF CommitWork, scheduleVars, boundVars
  <2> QED  BY <2>1, <2>2, <1>0 DEF Wrote, NoCall, NoJob, LearnTypeOK, PlaceInv, CallPlaceInv,
        JobPlaceInv, BudgetInv, ClaimInv, Comparing, Claimed, Claimable, Current
<1>7. CASE PrepareRead
  BY <1>7, <1>0 DEF PrepareRead, storeVars, scheduleVars, boundVars, NoCall, NoJob, LearnTypeOK,
        PlaceInv, BudgetInv, ClaimInv, Comparing, Claimed, Claimable, Current
<1>8. CASE PrepareWrite
  <2>1. CASE Current(call.m, call.rev)
    <3>1. Wrote(call.m, "pending", attempts[call.m], FALSE)
      BY <1>8, <2>1, Writes
    <3>2. /\ up /\ call.pc = "prepareWrite" /\ call' = [call EXCEPT !.pc = "schedule"]
          /\ status' = [status EXCEPT ![call.m] = call.seen]
              /\ UNCHANGED <<up, recovery, queued, timers, job, crashes, faults, retired>>
      BY <1>8, <2>1 DEF PrepareWrite, scheduleVars, boundVars
    <3> QED  BY <3>1, <3>2, <2>1, <1>0 DEF Wrote, NoCall, NoJob, LearnTypeOK, PlaceInv, OrderInv,
          JobPlaceInv, Jobs, BudgetInv, ClaimInv, Comparing, Claimed, Claimable, Current
  <2>2. CASE ~Current(call.m, call.rev)
    <3>1. /\ up /\ call.pc = "prepareWrite" /\ call' = NoCall
              /\ UNCHANGED <<status, state, attempts, revision, waits, up, recovery, queued, timers, job, crashes, faults, retired>>
      BY <1>8, <2>2 DEF PrepareWrite, storeVars, scheduleVars, boundVars
    <3> QED  BY <3>1, <2>2, <1>0 DEF NoCall, NoJob, LearnTypeOK, PlaceInv, OrderInv, BudgetInv,
          ClaimInv, Comparing, Claimed, Claimable, Current
  <2> QED  BY <2>1, <2>2
<1>9. CASE ScheduleFresh
  BY <1>9, <1>0 DEF ScheduleFresh, storeVars, boundVars, NoCall, NoJob, LearnTypeOK, PlaceInv,
        BudgetInv, ClaimInv, Comparing, Claimed, Claimable, Current
<1>10. CASE ClaimRead
  <2>1. ReadClaim  BY <1>10, <1>0, Reads
  <2> QED  BY <2>1, <1>0 DEF ReadClaim, GaveUp, WorkTyped, LearnTypeOK, PlaceInv, OrderInv,
        JobPlaceInv, ClaimInv, Claimed, Claimable
<1>11. CASE ClaimWrite
  <2>1. CASE Current(job.m, job.rev)
    <3>1. Wrote(job.m, "processing", attempts[job.m] + 1, TRUE)
      BY <1>11, <2>1, Writes
    <3>2. /\ up /\ job.pc = "claimWrite" /\ job' = [job EXCEPT !.pc = "claimMark"]
              /\ UNCHANGED <<status, up, recovery, queued, timers, call, crashes, faults, retired>>
      BY <1>11, <2>1 DEF ClaimWrite, scheduleVars, boundVars
    <3> QED  BY <3>1, <3>2, <2>1, <1>0 DEF Wrote, NoCall, NoJob, LearnTypeOK, PlaceInv,
          JobPlaceInv, ClaimInv, Comparing
  <2>2. CASE ~Current(job.m, job.rev)
    <3>1. /\ up /\ job.pc = "claimWrite" /\ job' = [job EXCEPT !.pc = "error"]
              /\ UNCHANGED <<status, state, attempts, revision, waits, up, recovery, queued, timers, call, crashes, faults, retired>>
      BY <1>11, <2>2 DEF ClaimWrite, workVars, scheduleVars, boundVars
    <3> QED  BY <3>1, <2>2, <1>0 DEF NoCall, NoJob, LearnTypeOK, PlaceInv, ClaimInv, Comparing,
          Claimed
  <2> QED  BY <2>1, <2>2
<1>12. CASE ClaimMark
  BY <1>12, <1>0 DEF ClaimMark, workVars, scheduleVars, boundVars, NoCall, NoJob, LearnTypeOK,
        PlaceInv, BudgetInv, ClaimInv, Comparing, Claimed
<1>13. CASE Judge
  <2>1. Judged  BY <1>13, <1>0, Judges
  <2> QED  BY <2>1, <1>0 DEF Judged, LearnTypeOK, PlaceInv, BudgetInv, ClaimInv, Comparing,
        Claimed
<1>14. CASE JudgeFails
  BY <1>14, <1>0 DEF JudgeFails, storeVars, scheduleVars, boundVars, NoCall, NoJob, LearnTypeOK,
        PlaceInv, BudgetInv, ClaimInv, Comparing, Claimed
<1>15. CASE Apply
  BY <1>15, <1>0 DEF Apply, workVars, scheduleVars, boundVars, NoCall, NoJob, LearnTypeOK,
        PlaceInv, BudgetInv, ClaimInv, Comparing, Claimed
<1>16. CASE EndRead
  BY <1>16, <1>0 DEF EndRead, storeVars, scheduleVars, boundVars, NoCall, NoJob, LearnTypeOK,
        PlaceInv, JobPlaceInv, BudgetInv, ClaimInv, Claimed
<1>17. CASE ResolveWrite
  <2>1. CASE Current(job.m, job.rev)
    <3>1. Wrote(job.m, "resolved", attempts[job.m], FALSE)
      BY <1>17, <2>1, Writes
    <3>2. /\ up /\ job.pc = "resolveWrite" /\ job' = [job EXCEPT !.pc = "settle"]
              /\ UNCHANGED <<status, up, recovery, queued, timers, call, crashes, faults, retired>>
      BY <1>17, <2>1 DEF ResolveWrite, scheduleVars, boundVars
    <3> QED  BY <3>1, <3>2, <2>1, <1>0 DEF Wrote, NoCall, NoJob, LearnTypeOK, PlaceInv, ClaimInv,
          Comparing, Claimed
  <2>2. CASE ~Current(job.m, job.rev)
    <3>1. /\ up /\ job.pc = "resolveWrite" /\ job' = [job EXCEPT !.pc = "error"]
              /\ UNCHANGED <<status, state, attempts, revision, waits, up, recovery, queued, timers, call, crashes, faults, retired>>
      BY <1>17, <2>2 DEF ResolveWrite, workVars, scheduleVars, boundVars
    <3> QED  BY <3>1, <2>2, <1>0 DEF NoCall, NoJob, LearnTypeOK, PlaceInv, ClaimInv, Comparing,
          Claimed
  <2> QED  BY <2>1, <2>2
<1>18. CASE FailWrite
  <2>1. CASE Current(job.m, job.rev)
    <3>1. Wrote(job.m, FailedState(job.m), attempts[job.m], FailedState(job.m) = "failed_retryable")
      BY <1>18, <2>1, Writes
    <3>2. /\ up /\ job.pc = "failWrite" /\ job' = [job EXCEPT !.pc = "failMark"]
              /\ UNCHANGED <<status, up, recovery, queued, timers, call, crashes, faults, retired>>
      BY <1>18, <2>1 DEF FailWrite, scheduleVars, boundVars
    <3> QED  BY <3>1, <3>2, <2>1, <1>0 DEF Wrote, NoCall, NoJob, LearnTypeOK, PlaceInv, OrderInv,
          BudgetInv, ClaimInv, Comparing, Claimed, FailedState
  <2>2. CASE ~Current(job.m, job.rev)
    <3>1. /\ up /\ job.pc = "failWrite" /\ job' = [job EXCEPT !.pc = "error"]
              /\ UNCHANGED <<status, state, attempts, revision, waits, up, recovery, queued, timers, call, crashes, faults, retired>>
      BY <1>18, <2>2 DEF FailWrite, workVars, scheduleVars, boundVars
    <3> QED  BY <3>1, <2>2, <1>0 DEF NoCall, NoJob, LearnTypeOK, PlaceInv, ClaimInv, Comparing,
          Claimed
  <2> QED  BY <2>1, <2>2
<1>19. CASE FailMark
  BY <1>19, <1>0 DEF FailMark, workVars, scheduleVars, boundVars, NoCall, NoJob, LearnTypeOK,
        PlaceInv, ClaimInv, Comparing, Claimed
<1>20. CASE Settle
  <2>1. Settled  BY <1>20, <1>0, Settles
  <2> QED  BY <2>1, <1>0 DEF Settled, GaveUp, WorkTyped, NoCall, NoJob, LearnTypeOK, PlaceInv,
        ClaimInv, Comparing, Claimed
<1>21. CASE SettleError
  <2>1. Settled  BY <1>21, <1>0, Settles
  <2> QED  BY <2>1, <1>0 DEF Settled, GaveUp, WorkTyped, NoCall, NoJob, LearnTypeOK, PlaceInv,
        ClaimInv, Comparing, Claimed
<1>22. CASE Recover
  <2>1. Recovered  BY <1>22, <1>0, Recovers
  <2> QED  BY <2>1, <1>0 DEF Recovered, WorkTyped, LearnTypeOK, PlaceInv, JobPlaceInv, ClaimInv,
        Comparing, Claimed
<1>23. CASE Report
  <2>1. GaveUp(Memories)  BY <1>23, TerminalizeGivesUp DEF Report
  <2>2. UNCHANGED <<up, recovery, queued, timers, call, job, crashes, faults, retired>>
    BY <1>23 DEF Report, scheduleVars, boundVars
  <2> QED  BY <2>1, <2>2, <1>0 DEF GaveUp, WorkTyped, LearnTypeOK, PlaceInv, JobPlaceInv, Jobs,
        BudgetInv, ClaimInv, Comparing, Claimed, Claimable, Current
<1>24. CASE Crash
  BY <1>24, <1>0 DEF Crash, storeVars, NoCall, NoJob, LearnTypeOK, PlaceInv, ClaimInv, Comparing,
        Claimed
<1>25. CASE Restart
  BY <1>25, <1>0 DEF Restart, storeVars, boundVars, NoCall, NoJob, LearnTypeOK, PlaceInv,
        JobPlaceInv, ClaimInv, Comparing, Claimed
<1>26. CASE Fault
  BY <1>26, <1>0 DEF Fault, storeVars, scheduleVars, NoCall, NoJob, LearnTypeOK, PlaceInv,
        ClaimInv, Comparing, Claimed
<1>27. CASE UNCHANGED learnVars
  BY <1>27, <1>0 DEF learnVars, storeVars, scheduleVars, boundVars, NoCall, NoJob, LearnTypeOK,
        PlaceInv, BudgetInv, ClaimInv, Comparing, Claimed, Claimable, Current
<1> QED  BY <1>1, <1>2, <1>3, <1>4, <1>5, <1>6, <1>7, <1>8, <1>9, <1>10, <1>11, <1>12, <1>13,
      <1>14, <1>15, <1>16, <1>17, <1>18, <1>19, <1>20, <1>21, <1>22, <1>23, <1>24, <1>25, <1>26,
      <1>27 DEF LearnNext, Remember, JobStep

\* Once the work of the candidates is settled, it is settled while the job runs.
LEMMA DependKept ==
    ASSUME LearnTypeOK, PlaceInv, BudgetInv, DependInv, HandInv, [LearnNext]_learnVars
    PROVE  DependInv'
<1>0. LearnTypeOK /\ PlaceInv /\ BudgetInv /\ DependInv /\ HandInv  OBVIOUS
<1>1. ASSUME NEW x \in Memories, CommitRecord(x) PROVE DependInv'
  BY <1>1, <1>0, Places DEF CommitRecord, workVars, scheduleVars, boundVars, NoCall, DependInv,
        Unresolved
<1>2. ASSUME NEW x \in Memories, Take(x) PROVE DependInv'
  BY <1>2, <1>0, Places DEF Take, storeVars, boundVars, NoCall, DependInv
<1>3. ASSUME NEW x \in Memories, RetryTimerFires(x) PROVE DependInv'
  BY <1>3, <1>0, Places DEF RetryTimerFires, storeVars, boundVars, NoCall, DependInv, Unresolved
<1>4. ASSUME NEW x \in Memories, TimePasses(x) PROVE DependInv'
  BY <1>4, <1>0, Places DEF TimePasses, scheduleVars, boundVars, NoCall, DependInv, Unresolved
<1>5. ASSUME NEW x \in Memories, Tombstone(x) PROVE DependInv'
  BY <1>5, <1>0, Places DEF Tombstone, workVars, scheduleVars, NoCall, DependInv, Unresolved
<1>6. CASE CommitWork
  <2>1. Wrote(call.m, "pending", 0, FALSE)
    BY <1>6, <1>0, Writes
  <2>2. /\ up /\ call.pc = "commit" /\ call' = [call EXCEPT !.pc = "prepare"]
          /\ UNCHANGED <<status, up, recovery, queued, timers, job, crashes, faults, retired>>
    BY <1>6 DEF CommitWork, scheduleVars, boundVars
  <2> QED  BY <2>1, <2>2, <1>0, Places DEF Wrote, NoCall, PlaceInv, OrderInv, CallPlaceInv,
        JobPlaceInv, DependInv, Unresolved
<1>7. CASE PrepareRead
  BY <1>7, <1>0, Places DEF PrepareRead, storeVars, scheduleVars, boundVars, NoCall, DependInv,
        Unresolved
<1>8. CASE PrepareWrite
  <2>1. CASE Current(call.m, call.rev)
    <3>1. Wrote(call.m, "pending", attempts[call.m], FALSE)
      BY <1>8, <2>1, Writes
    <3>2. /\ up /\ call.pc = "prepareWrite" /\ call' = [call EXCEPT !.pc = "schedule"]
          /\ status' = [status EXCEPT ![call.m] = call.seen]
              /\ UNCHANGED <<up, recovery, queued, timers, job, crashes, faults, retired>>
      BY <1>8, <2>1 DEF PrepareWrite, scheduleVars, boundVars
    <3> QED  BY <3>1, <3>2, <2>1, <1>0, Places DEF Wrote, NoCall, PlaceInv, OrderInv,
          CallPlaceInv, JobPlaceInv, DependInv, Unresolved
  <2>2. CASE ~Current(call.m, call.rev)
    <3>1. /\ up /\ call.pc = "prepareWrite" /\ call' = NoCall
              /\ UNCHANGED <<status, state, attempts, revision, waits, up, recovery, queued, timers, job, crashes, faults, retired>>
      BY <1>8, <2>2 DEF PrepareWrite, storeVars, scheduleVars, boundVars
    <3> QED  BY <3>1, <2>2, <1>0, Places DEF NoCall, DependInv, Unresolved
  <2> QED  BY <2>1, <2>2
<1>9. CASE ScheduleFresh
  BY <1>9, <1>0, Places DEF ScheduleFresh, storeVars, boundVars, NoCall, DependInv, Unresolved
<1>10. CASE ClaimRead
  <2>1. ReadClaim  BY <1>10, <1>0, Reads
  <2> QED  BY <2>1, <1>0, Places DEF ReadClaim, GaveUp, DependInv
<1>11. CASE ClaimWrite
  <2>1. CASE Current(job.m, job.rev)
    <3>1. Wrote(job.m, "processing", attempts[job.m] + 1, TRUE)
      BY <1>11, <2>1, Writes
    <3>2. /\ up /\ job.pc = "claimWrite" /\ job' = [job EXCEPT !.pc = "claimMark"]
              /\ UNCHANGED <<status, up, recovery, queued, timers, call, crashes, faults, retired>>
      BY <1>11, <2>1 DEF ClaimWrite, scheduleVars, boundVars
    <3> QED  BY <3>1, <3>2, <2>1, <1>0, Places DEF Wrote, NoCall, PlaceInv, JobPlaceInv,
          DependInv, Unresolved
  <2>2. CASE ~Current(job.m, job.rev)
    <3>1. /\ up /\ job.pc = "claimWrite" /\ job' = [job EXCEPT !.pc = "error"]
              /\ UNCHANGED <<status, state, attempts, revision, waits, up, recovery, queued, timers, call, crashes, faults, retired>>
      BY <1>11, <2>2 DEF ClaimWrite, workVars, scheduleVars, boundVars
    <3> QED  BY <3>1, <2>2, <1>0, Places DEF NoCall, DependInv
  <2> QED  BY <2>1, <2>2
<1>12. CASE ClaimMark
  BY <1>12, <1>0, Places DEF ClaimMark, workVars, scheduleVars, boundVars, NoCall, DependInv,
        Unresolved
<1>13. CASE Judge
  <2>1. Judged  BY <1>13, <1>0, Judges
  <2> QED  BY <2>1, <1>0, Places DEF Judged, DependInv, Unresolved
<1>14. CASE JudgeFails
  BY <1>14, <1>0, Places DEF JudgeFails, storeVars, scheduleVars, boundVars, NoCall, DependInv
<1>15. CASE Apply
  BY <1>15, <1>0, Places DEF Apply, workVars, scheduleVars, boundVars, NoCall, DependInv
<1>16. CASE EndRead
  BY <1>16, <1>0, Places DEF EndRead, storeVars, scheduleVars, boundVars, NoCall, DependInv
<1>17. CASE ResolveWrite
  <2>1. CASE Current(job.m, job.rev)
    <3>1. Wrote(job.m, "resolved", attempts[job.m], FALSE)
      BY <1>17, <2>1, Writes
    <3>2. /\ up /\ job.pc = "resolveWrite" /\ job' = [job EXCEPT !.pc = "settle"]
              /\ UNCHANGED <<status, up, recovery, queued, timers, call, crashes, faults, retired>>
      BY <1>17, <2>1 DEF ResolveWrite, scheduleVars, boundVars
    <3> QED  BY <3>1, <3>2, <2>1, <1>0, Places DEF Wrote, NoCall, DependInv
  <2>2. CASE ~Current(job.m, job.rev)
    <3>1. /\ up /\ job.pc = "resolveWrite" /\ job' = [job EXCEPT !.pc = "error"]
              /\ UNCHANGED <<status, state, attempts, revision, waits, up, recovery, queued, timers, call, crashes, faults, retired>>
      BY <1>17, <2>2 DEF ResolveWrite, workVars, scheduleVars, boundVars
    <3> QED  BY <3>1, <2>2, <1>0, Places DEF NoCall, DependInv
  <2> QED  BY <2>1, <2>2
<1>18. CASE FailWrite
  <2>1. CASE Current(job.m, job.rev)
    <3>1. Wrote(job.m, FailedState(job.m), attempts[job.m], FailedState(job.m) = "failed_retryable")
      BY <1>18, <2>1, Writes
    <3>2. /\ up /\ job.pc = "failWrite" /\ job' = [job EXCEPT !.pc = "failMark"]
              /\ UNCHANGED <<status, up, recovery, queued, timers, call, crashes, faults, retired>>
      BY <1>18, <2>1 DEF FailWrite, scheduleVars, boundVars
    <3> QED  BY <3>1, <3>2, <2>1, <1>0, Places DEF Wrote, NoCall, NoJob, DependInv
  <2>2. CASE ~Current(job.m, job.rev)
    <3>1. /\ up /\ job.pc = "failWrite" /\ job' = [job EXCEPT !.pc = "error"]
              /\ UNCHANGED <<status, state, attempts, revision, waits, up, recovery, queued, timers, call, crashes, faults, retired>>
      BY <1>18, <2>2 DEF FailWrite, workVars, scheduleVars, boundVars
    <3> QED  BY <3>1, <2>2, <1>0, Places DEF NoCall, DependInv
  <2> QED  BY <2>1, <2>2
<1>19. CASE FailMark
  BY <1>19, <1>0, Places DEF FailMark, workVars, scheduleVars, boundVars, NoCall, DependInv
<1>20. CASE Settle
  <2>1. Settled  BY <1>20, <1>0, Settles
  <2> QED  BY <2>1, <1>0, Places DEF Settled, GaveUp, WorkTyped, NoCall, NoJob, DependInv
<1>21. CASE SettleError
  <2>1. Settled  BY <1>21, <1>0, Settles
  <2> QED  BY <2>1, <1>0, Places DEF Settled, GaveUp, WorkTyped, NoCall, NoJob, DependInv
<1>22. CASE Recover
  <2>1. Recovered  BY <1>22, <1>0, Recovers
  <2> QED  BY <2>1, <1>0, Places DEF Recovered, PlaceInv, JobPlaceInv, DependInv
<1>23. CASE Report
  <2>1. GaveUp(Memories)  BY <1>23, TerminalizeGivesUp DEF Report
  <2>2. UNCHANGED <<up, recovery, queued, timers, call, job, crashes, faults, retired>>
    BY <1>23 DEF Report, scheduleVars, boundVars
  <2> QED  BY <2>1, <2>2, <1>0, Places DEF GaveUp, PlaceInv, JobPlaceInv, DependInv, Unresolved
<1>24. CASE Crash
  BY <1>24, <1>0, Places DEF Crash, storeVars, NoCall, NoJob, DependInv
<1>25. CASE Restart
  BY <1>25, <1>0, Places DEF Restart, storeVars, boundVars, NoCall, PlaceInv, JobPlaceInv,
        DependInv
<1>26. CASE Fault
  BY <1>26, <1>0, Places DEF Fault, storeVars, scheduleVars, NoCall, DependInv
<1>27. CASE UNCHANGED learnVars
  BY <1>27, <1>0 DEF learnVars, storeVars, scheduleVars, boundVars, NoCall, DependInv, Unresolved
<1> QED  BY <1>1, <1>2, <1>3, <1>4, <1>5, <1>6, <1>7, <1>8, <1>9, <1>10, <1>11, <1>12, <1>13,
      <1>14, <1>15, <1>16, <1>17, <1>18, <1>19, <1>20, <1>21, <1>22, <1>23, <1>24, <1>25, <1>26,
      <1>27 DEF LearnNext, Remember, JobStep

\* Unresolved work stays in somebody's hands.
LEMMA HandKept ==
    ASSUME LearnTypeOK, PlaceInv, BudgetInv, DependInv, HandInv, [LearnNext]_learnVars
    PROVE  HandInv'
<1>0. LearnTypeOK /\ PlaceInv /\ BudgetInv /\ DependInv /\ HandInv  OBVIOUS
<1>1. ASSUME NEW x \in Memories, CommitRecord(x) PROVE HandInv'
  BY <1>1, <1>0, Places DEF CommitRecord, workVars, scheduleVars, boundVars, NoCall, NoJob,
        LearnTypeOK, PlaceInv, HandInv, Unresolved, Comparing, Current, Handed
<1>2. ASSUME NEW x \in Memories, Take(x) PROVE HandInv'
  BY <1>2, <1>0, Places DEF Take, storeVars, boundVars, NoCall, NoJob, LearnTypeOK, PlaceInv,
        CallPlaceInv, HandInv, Unresolved, Comparing, Current
<1>3. ASSUME NEW x \in Memories, RetryTimerFires(x) PROVE HandInv'
  BY <1>3, <1>0 DEF RetryTimerFires, storeVars, boundVars, NoCall, NoJob, LearnTypeOK, PlaceInv,
        HandInv, Unresolved, Comparing, Current, Handed
<1>4. ASSUME NEW x \in Memories, TimePasses(x) PROVE HandInv'
  BY <1>4, <1>0 DEF TimePasses, scheduleVars, boundVars, NoCall, NoJob, LearnTypeOK, PlaceInv,
        HandInv, Unresolved, Comparing, Current, Handed
<1>5. ASSUME NEW x \in Memories, Tombstone(x) PROVE HandInv'
  BY <1>5, <1>0 DEF Tombstone, workVars, scheduleVars, NoCall, NoJob, LearnTypeOK, PlaceInv,
        HandInv, Unresolved, Comparing, Current, Handed
<1>6. CASE CommitWork
  <2>1. Wrote(call.m, "pending", 0, FALSE)
    BY <1>6, <1>0, Writes
  <2>2. /\ up /\ call.pc = "commit" /\ call' = [call EXCEPT !.pc = "prepare"]
          /\ UNCHANGED <<status, up, recovery, queued, timers, job, crashes, faults, retired>>
    BY <1>6 DEF CommitWork, scheduleVars, boundVars
  <2> QED  BY <2>1, <2>2, <1>0 DEF Wrote, NoCall, NoJob, LearnTypeOK, PlaceInv, CallPlaceInv,
        JobPlaceInv, HandInv, Unresolved, Comparing, Current, Handed
<1>7. CASE PrepareRead
  BY <1>7, <1>0 DEF PrepareRead, storeVars, scheduleVars, boundVars, NoCall, NoJob, LearnTypeOK,
        PlaceInv, OrderInv, HandInv, Unresolved, Comparing, Current, Handed
<1>8. CASE PrepareWrite
  <2>1. CASE Current(call.m, call.rev)
    <3>1. Wrote(call.m, "pending", attempts[call.m], FALSE)
      BY <1>8, <2>1, Writes
    <3>2. /\ up /\ call.pc = "prepareWrite" /\ call' = [call EXCEPT !.pc = "schedule"]
          /\ status' = [status EXCEPT ![call.m] = call.seen]
              /\ UNCHANGED <<up, recovery, queued, timers, job, crashes, faults, retired>>
      BY <1>8, <2>1 DEF PrepareWrite, scheduleVars, boundVars
    <3> QED  BY <3>1, <3>2, <2>1, <1>0 DEF Wrote, NoCall, NoJob, LearnTypeOK, PlaceInv,
          JobPlaceInv, HandInv, Unresolved, Comparing, Current, Handed
  <2>2. CASE ~Current(call.m, call.rev)
    <3>1. /\ up /\ call.pc = "prepareWrite" /\ call' = NoCall
              /\ UNCHANGED <<status, state, attempts, revision, waits, up, recovery, queued, timers, job, crashes, faults, retired>>
      BY <1>8, <2>2 DEF PrepareWrite, storeVars, scheduleVars, boundVars
    <3> QED  BY <3>1, <2>2, <1>0 DEF NoCall, NoJob, LearnTypeOK, PlaceInv, HandInv, Unresolved,
          Comparing, Current, Handed
  <2> QED  BY <2>1, <2>2
<1>9. CASE ScheduleFresh
  BY <1>9, <1>0 DEF ScheduleFresh, storeVars, boundVars, NoCall, NoJob, LearnTypeOK, PlaceInv,
        HandInv, Unresolved, Comparing, Current, Handed
<1>10. CASE ClaimRead
  <2>1. ReadClaim  BY <1>10, <1>0, Reads
  <2> QED  BY <2>1, <1>0 DEF ReadClaim, GaveUp, WorkTyped, LearnTypeOK, PlaceInv, OrderInv,
        CallPlaceInv, JobPlaceInv, HandInv, Unresolved, Current
<1>11. CASE ClaimWrite
  <2>1. CASE Current(job.m, job.rev)
    <3>1. Wrote(job.m, "processing", attempts[job.m] + 1, TRUE)
      BY <1>11, <2>1, Writes
    <3>2. /\ up /\ job.pc = "claimWrite" /\ job' = [job EXCEPT !.pc = "claimMark"]
              /\ UNCHANGED <<status, up, recovery, queued, timers, call, crashes, faults, retired>>
      BY <1>11, <2>1 DEF ClaimWrite, scheduleVars, boundVars
    <3> QED  BY <3>1, <3>2, <2>1, <1>0 DEF Wrote, NoCall, NoJob, LearnTypeOK, PlaceInv,
          CallPlaceInv, HandInv, Unresolved, Comparing, Current
  <2>2. CASE ~Current(job.m, job.rev)
    <3>1. /\ up /\ job.pc = "claimWrite" /\ job' = [job EXCEPT !.pc = "error"]
              /\ UNCHANGED <<status, state, attempts, revision, waits, up, recovery, queued, timers, call, crashes, faults, retired>>
      BY <1>11, <2>2 DEF ClaimWrite, workVars, scheduleVars, boundVars
    <3> QED  BY <3>1, <2>2, <1>0 DEF NoCall, NoJob, LearnTypeOK, PlaceInv, HandInv, Unresolved,
          Comparing, Current, Handed
  <2> QED  BY <2>1, <2>2
<1>12. CASE ClaimMark
  BY <1>12, <1>0 DEF ClaimMark, workVars, scheduleVars, boundVars, NoCall, NoJob, LearnTypeOK,
        PlaceInv, HandInv, Unresolved, Comparing, Current
<1>13. CASE Judge
  <2>1. Judged  BY <1>13, <1>0, Judges
  <2> QED  BY <2>1, <1>0 DEF Judged, LearnTypeOK, PlaceInv, HandInv, Unresolved, Comparing,
        Current
<1>14. CASE JudgeFails
  BY <1>14, <1>0 DEF JudgeFails, storeVars, scheduleVars, boundVars, NoCall, NoJob, LearnTypeOK,
        PlaceInv, HandInv, Unresolved, Comparing, Current
<1>15. CASE Apply
  BY <1>15, <1>0 DEF Apply, workVars, scheduleVars, boundVars, NoCall, NoJob, LearnTypeOK,
        PlaceInv, HandInv, Unresolved, Comparing, Current
<1>16. CASE EndRead
  BY <1>16, <1>0 DEF EndRead, storeVars, scheduleVars, boundVars, NoCall, NoJob, LearnTypeOK,
        PlaceInv, HandInv, Unresolved, Current
<1>17. CASE ResolveWrite
  <2>1. CASE Current(job.m, job.rev)
    <3>1. Wrote(job.m, "resolved", attempts[job.m], FALSE)
      BY <1>17, <2>1, Writes
    <3>2. /\ up /\ job.pc = "resolveWrite" /\ job' = [job EXCEPT !.pc = "settle"]
              /\ UNCHANGED <<status, up, recovery, queued, timers, call, crashes, faults, retired>>
      BY <1>17, <2>1 DEF ResolveWrite, scheduleVars, boundVars
    <3> QED  BY <3>1, <3>2, <2>1, <1>0 DEF Wrote, NoCall, NoJob, LearnTypeOK, PlaceInv,
          CallPlaceInv, HandInv, Unresolved, Current
  <2>2. CASE ~Current(job.m, job.rev)
    <3>1. /\ up /\ job.pc = "resolveWrite" /\ job' = [job EXCEPT !.pc = "error"]
              /\ UNCHANGED <<status, state, attempts, revision, waits, up, recovery, queued, timers, call, crashes, faults, retired>>
      BY <1>17, <2>2 DEF ResolveWrite, workVars, scheduleVars, boundVars
    <3> QED  BY <3>1, <2>2, <1>0 DEF NoCall, NoJob, LearnTypeOK, PlaceInv, HandInv, Unresolved,
          Comparing, Current, Handed
  <2> QED  BY <2>1, <2>2
<1>18. CASE FailWrite
  <2>1. CASE Current(job.m, job.rev)
    <3>1. Wrote(job.m, FailedState(job.m), attempts[job.m], FailedState(job.m) = "failed_retryable")
      BY <1>18, <2>1, Writes
    <3>2. /\ up /\ job.pc = "failWrite" /\ job' = [job EXCEPT !.pc = "failMark"]
              /\ UNCHANGED <<status, up, recovery, queued, timers, call, crashes, faults, retired>>
      BY <1>18, <2>1 DEF FailWrite, scheduleVars, boundVars
    <3> QED  BY <3>1, <3>2, <2>1, <1>0 DEF Wrote, NoCall, NoJob, LearnTypeOK, PlaceInv, OrderInv,
          CallPlaceInv, HandInv, Unresolved, Comparing, Current, FailedState
  <2>2. CASE ~Current(job.m, job.rev)
    <3>1. /\ up /\ job.pc = "failWrite" /\ job' = [job EXCEPT !.pc = "error"]
              /\ UNCHANGED <<status, state, attempts, revision, waits, up, recovery, queued, timers, call, crashes, faults, retired>>
      BY <1>18, <2>2 DEF FailWrite, workVars, scheduleVars, boundVars
    <3> QED  BY <3>1, <2>2, <1>0 DEF NoCall, NoJob, LearnTypeOK, PlaceInv, HandInv, Unresolved,
          Comparing, Current, Handed
  <2> QED  BY <2>1, <2>2
<1>19. CASE FailMark
  BY <1>19, <1>0 DEF FailMark, workVars, scheduleVars, boundVars, NoCall, NoJob, LearnTypeOK,
        PlaceInv, HandInv, Unresolved, Comparing, Current, Handed
<1>20. CASE Settle
  <2>1. Settled  BY <1>20, <1>0, Settles
  <2> QED  BY <2>1, <1>0 DEF Settled, GaveUp, WorkTyped, NoCall, NoJob, LearnTypeOK, PlaceInv,
        CallPlaceInv, HandInv, Unresolved, Comparing, Current, Handed
<1>21. CASE SettleError
  <2>1. Settled  BY <1>21, <1>0, Settles
  <2> QED  BY <2>1, <1>0 DEF Settled, GaveUp, WorkTyped, NoCall, NoJob, LearnTypeOK, PlaceInv,
        CallPlaceInv, HandInv, Unresolved, Comparing, Current, Handed
<1>22. CASE Recover
  <2>1. Recovered  BY <1>22, <1>0, Recovers
  <2> QED  BY <2>1, <1>0 DEF Recovered, WorkTyped, LearnTypeOK, PlaceInv, CallPlaceInv,
        JobPlaceInv, HandInv, Unresolved, Comparing
<1>23. CASE Report
  <2>1. GaveUp(Memories)  BY <1>23, TerminalizeGivesUp DEF Report
  <2>2. UNCHANGED <<up, recovery, queued, timers, call, job, crashes, faults, retired>>
    BY <1>23 DEF Report, scheduleVars, boundVars
  <2> QED  BY <2>1, <2>2, <1>0 DEF GaveUp, WorkTyped, LearnTypeOK, PlaceInv, CallPlaceInv,
        JobPlaceInv, HandInv, Unresolved, Comparing, Current, Handed
<1>24. CASE Crash
  BY <1>24, <1>0 DEF Crash, storeVars, NoCall, NoJob, LearnTypeOK, PlaceInv, HandInv
<1>25. CASE Restart
  BY <1>25, <1>0 DEF Restart, storeVars, boundVars, NoCall, NoJob, LearnTypeOK, PlaceInv,
        JobPlaceInv, HandInv, Comparing
<1>26. CASE Fault
  BY <1>26, <1>0 DEF Fault, storeVars, scheduleVars, NoCall, NoJob, LearnTypeOK, PlaceInv, HandInv
<1>27. CASE UNCHANGED learnVars
  BY <1>27, <1>0 DEF learnVars, storeVars, scheduleVars, boundVars, NoCall, NoJob, LearnTypeOK,
        PlaceInv, HandInv, Unresolved, Comparing, Current, Handed
<1> QED  BY <1>1, <1>2, <1>3, <1>4, <1>5, <1>6, <1>7, <1>8, <1>9, <1>10, <1>11, <1>12, <1>13,
      <1>14, <1>15, <1>16, <1>17, <1>18, <1>19, <1>20, <1>21, <1>22, <1>23, <1>24, <1>25, <1>26,
      <1>27 DEF LearnNext, Remember, JobStep

\* The invariant holds at the start,
LEMMA LearnStarts == LearnInit => LearnIInv
<1> SUFFICES ASSUME LearnInit PROVE LearnIInv
  OBVIOUS
<1>1. /\ status = [m \in Memories |-> "absent"] /\ state = [m \in Memories |-> "none"]
      /\ attempts = [m \in Memories |-> 0] /\ revision = [m \in Memories |-> 0]
      /\ waits = {} /\ up = TRUE /\ recovery = FALSE /\ queued = {} /\ timers = {}
      /\ call = NoCall /\ job = NoJob /\ crashes = 0 /\ faults = 0 /\ retired = 0
  BY DEF LearnInit
<1>2. call.pc = "idle" /\ job.pc = "idle"  BY <1>1 DEF NoCall, NoJob
<1>3. LearnTypeOK
  <2>1. 0 \in 0..MaxAttempts  BY LearnAssumption DEF LearnAssumption
  <2>2. status \in [Memories -> Statuses] /\ attempts \in [Memories -> 0..MaxAttempts]
    BY <1>1, <2>1 DEF Statuses
  <2>3. call \in Calls /\ job \in Jobs  BY <1>1, IdleTyped
  <2> QED  BY <1>1, <2>2, <2>3 DEF LearnTypeOK
<1>4. PlaceInv
  BY <1>1, <1>2 DEF PlaceInv, OrderInv, CallPlaceInv, JobPlaceInv, Prepared
<1>5. BudgetInv
  BY <1>1, <1>2 DEF BudgetInv, SpentInv, CallInv, ClaimInv, UnresolvedHasBudget, Comparing, Claimed
<1>6. DependInv /\ HandInv
  BY <1>1, <1>2 DEF DependInv, HandInv, Unresolved, Comparing
<1> QED  BY <1>3, <1>4, <1>5, <1>6 DEF LearnIInv

\* ... every step keeps it,
LEMMA LearnKept == LearnIInv /\ [LearnNext]_learnVars => LearnIInv'
<1> SUFFICES ASSUME LearnIInv, [LearnNext]_learnVars PROVE LearnIInv'
  OBVIOUS
<1>1. LearnTypeOK /\ PlaceInv /\ BudgetInv /\ DependInv /\ HandInv  BY DEF LearnIInv
<1>2. LearnTypeOK' /\ PlaceInv'  BY <1>1, TypesKept, PlacesKept
<1>3. BudgetInv'  BY <1>1, SpentKept, CallKept, ClaimKept DEF BudgetInv
<1>4. DependInv' /\ HandInv'  BY <1>1, DependKept, HandKept
<1> QED  BY <1>2, <1>3, <1>4 DEF LearnIInv

\* ... and it implies what is promised.
LEMMA LearnIInvKeepsWork == LearnIInv => WorkIsKept
<1> SUFFICES ASSUME LearnIInv PROVE WorkIsKept
  OBVIOUS
<1>1. LearnTypeOK /\ UnresolvedHasBudget  BY DEF LearnIInv, BudgetInv, SpentInv
<1>2. DependenciesFirst  BY DEF LearnIInv, DependInv, DependenciesFirst
<1>3. NothingForgotten  BY DEF LearnIInv, HandInv, NothingForgotten
<1> QED  BY <1>1, <1>2, <1>3 DEF WorkIsKept

\* Relationship learning keeps its work: whatever races, fails or crashes,
\* unresolved work has attempts left, a memory is judged after its candidates,
\* and, unless a call of the store failed, somebody will take the work up.
THEOREM WorkAlwaysKept == LearnSpec => []WorkIsKept
<1>1. LearnSpec => []LearnIInv  BY LearnStarts, LearnKept, PTL DEF LearnSpec
<1> QED  BY <1>1, LearnIInvKeepsWork, PTL

\* Only six steps change the state of a work; none of them opens one that is
\* settled, because each compares its revision first or looks at its state.
LEMMA FinalStays ==
    ASSUME LearnIInv, [LearnNext]_learnVars, NEW m \in Memories, Final(m)
    PROVE  Final(m)'
<1>0. LearnTypeOK /\ PlaceInv /\ BudgetInv  BY DEF LearnIInv
<1>1. CASE state' = state  BY <1>1 DEF Final
<1>2. CASE CommitWork
  <2>1. Wrote(call.m, "pending", 0, FALSE)  BY <1>2, <1>0, Writes
  <2>2. state[call.m] = "none"  BY <1>2, <1>0 DEF CommitWork, PlaceInv, CallPlaceInv
  <2> QED  BY <2>1, <2>2 DEF Wrote, Final
<1>3. CASE PrepareWrite /\ Current(call.m, call.rev)
  <2>1. Wrote(call.m, "pending", attempts[call.m], FALSE)  BY <1>3, <1>0, Writes
  <2>2. ~Final(call.m)  BY <1>3, <1>0 DEF PrepareWrite, BudgetInv, CallInv
  <2> QED  BY <2>1, <2>2 DEF Wrote, Final
<1>4. CASE ClaimWrite /\ Current(job.m, job.rev)
  <2>1. Wrote(job.m, "processing", attempts[job.m] + 1, TRUE)  BY <1>4, <1>0, Writes
  <2>2. ~Final(job.m)  BY <1>4, <1>0 DEF ClaimWrite, BudgetInv, ClaimInv, Claimable, Final
  <2> QED  BY <2>1, <2>2 DEF Wrote, Final
<1>5. CASE ResolveWrite /\ Current(job.m, job.rev)
  <2>1. Wrote(job.m, "resolved", attempts[job.m], FALSE)  BY <1>5, <1>0, Writes
  <2> QED  BY <2>1 DEF Wrote, Final
<1>6. CASE FailWrite /\ Current(job.m, job.rev)
  <2>1. Wrote(job.m, FailedState(job.m), attempts[job.m],
              FailedState(job.m) = "failed_retryable")
    BY <1>6, <1>0, Writes
  <2>2. job.m \in Memories /\ state[job.m] # "resolved"
    BY <1>6, <1>0 DEF FailWrite, BudgetInv, ClaimInv, Claimed, PlaceInv, JobPlaceInv
  <2>3. state[job.m] = "failed_terminal" => attempts[job.m] = MaxAttempts
    BY <2>2, <1>0 DEF BudgetInv, SpentInv
  <2>4. state[job.m] = "failed_terminal" => FailedState(job.m) = "failed_terminal"
    BY <2>3, LearnAssumption DEF FailedState, LearnAssumption
  <2> QED  BY <2>1, <2>2, <2>4 DEF Wrote, Final
<1>7. CASE ClaimRead \/ Settle \/ SettleError
  <2>1. GaveUp({job.m})  BY <1>7, <1>0, TerminalizeGivesUp, Reads, Settles DEF ReadClaim, Settled
  <2> QED  BY <2>1 DEF GaveUp, Final
<1>8. CASE Report
  <2>1. GaveUp(Memories)  BY <1>8, <1>0, TerminalizeGivesUp DEF Report
  <2> QED  BY <2>1 DEF GaveUp, Final
<1>9. CASE Recover
  <2>1. Recovered  BY <1>9, <1>0, Recovers
  <2> QED  BY <2>1 DEF Recovered, Final
<1>10. ASSUME NEW x \in Memories, CommitRecord(x) \/ Take(x) \/ RetryTimerFires(x)
                                  \/ TimePasses(x) \/ Tombstone(x)
       PROVE  state' = state
  BY <1>10 DEF CommitRecord, Take, RetryTimerFires, TimePasses, Tombstone, storeVars, workVars
<1>11. CASE PrepareRead \/ ScheduleFresh
  BY <1>1, <1>11 DEF PrepareRead, ScheduleFresh, storeVars
<1>12. CASE \/ PrepareWrite /\ ~Current(call.m, call.rev)
            \/ (ClaimWrite \/ ResolveWrite \/ FailWrite) /\ ~Current(job.m, job.rev)
  BY <1>1, <1>12 DEF PrepareWrite, ClaimWrite, ResolveWrite, FailWrite, storeVars, workVars
<1>13. CASE ClaimMark \/ Judge \/ JudgeFails \/ Apply \/ EndRead \/ FailMark
  BY <1>1, <1>13 DEF ClaimMark, Judge, JudgeFails, Apply, EndRead, FailMark, storeVars, workVars
<1>14. CASE Crash \/ Restart \/ Fault \/ UNCHANGED learnVars
  BY <1>1, <1>14 DEF Crash, Restart, Fault, learnVars, storeVars
<1> QED
  BY <1>1, <1>2, <1>3, <1>4, <1>5, <1>6, <1>7, <1>8, <1>9, <1>10, <1>11, <1>12, <1>13, <1>14
  DEF LearnNext, Remember, JobStep

\* Settled work is never opened again, by whatever races or crashes.
THEOREM SettledWorkStaysSettled == LearnSpec => SettledIsFinal
<1>1. LearnIInv /\ [LearnNext]_learnVars => [\A m \in Memories : Final(m) => Final(m)']_learnVars
  BY FinalStays
<1>2. LearnSpec => []LearnIInv  BY LearnStarts, LearnKept, PTL DEF LearnSpec
<1> QED  BY <1>1, <1>2, PTL DEF LearnSpec, SettledIsFinal

-----------------------------------------------------------------------------
(* ProviderSettings. A setting travels from the controller over the shared *)
(* file and the keychain into the running Sidecar, several at a time.      *)
(*   SideFine     what a Sidecar serves fits the space it was opened for;  *)
(*   ControlFine  what the controller carries can be made a setting;       *)
(*   LoadFine     a reload under way fits the space too, and is the only   *)
(*                one and the one its controller waits for, unless the     *)
(*                session is in undone;                                    *)
(*   ReportFine   what the controller reports, or is about to, is so.      *)

Loads == [id : Nat, stage : {"config", "key"}, current : Configs, next : Configs \cup {NoSetting}]
Controls == [pc : {"idle", "load", "save", "reload", "waiting"},
             goal : {"none", "select", "restore", "store", "remove", "changed", "restored", "degraded",
                     "activated", "stored", "removed", "error"},
             draft : Models \cup {NoSetting}, previous : Configs \cup {NoSetting},
             next : Configs \cup {NoSetting}, load : Nat]
Sides == [state : {"down", "opening", "making", "up"}, config : Configs \cup {NoSetting},
          delegate : Delegates \cup {NoSetting}, space : Configs \cup {NoSetting}]
SettingsTypes ==
    /\ SettingsTypeOK /\ acts \in Nat
    /\ side \in [Sessions -> Sides] /\ ctl \in [Sessions -> Controls]
    /\ loads \in [Sessions -> SUBSET Loads] /\ \A s \in Sessions : IsFiniteSet(loads[s])

SideFine(s) ==
    /\ side[s].state # "down" =>
          /\ side[s].config \in Configs /\ side[s].space \in Configs
          /\ side[s].config.dims = side[s].space.dims
          /\ side[s].delegate # NoSetting => /\ side[s].delegate.model = side[s].config.model
                                             /\ side[s].delegate.dims = side[s].config.dims
          /\ index = NoSetting => side[s].space = file
    /\ side[s].state = "up" => index # NoSetting /\ side[s].space = index
    /\ side[s].state = "making" /\ index # NoSetting => side[s].space = index
    /\ side[s].state # "up" => loads[s] = {}
    /\ index = NoSetting => side[s].state # "up" /\ ctl[s].pc = "idle"
ControlFine(s) ==
    /\ ctl[s].pc \in {"load", "save"} => ctl[s].goal \in {"select", "restore"} /\ ctl[s].draft \in Models
    /\ ctl[s].pc = "save" => ctl[s].next \in Configs /\ Valid(ctl[s].next) /\ ctl[s].next.model = ctl[s].draft
    /\ ctl[s].pc \in {"reload", "waiting"} => ctl[s].goal \in {"select", "restore", "store", "remove"}
    /\ ctl[s].goal = "select" => ctl[s].previous \in Configs
LoadFine(s) ==
    \A load \in loads[s] :
        /\ load.current.dims = index.dims
        /\ load.stage = "key" => load.next \in Configs /\ load.next.dims = index.dims
        /\ s \notin undone => /\ loads[s] = {load} /\ ctl[s].pc = "waiting" /\ ctl[s].load = load.id
                              /\ load.stage = "key" => load.next = file
ReportFine(s) ==
    s \notin undone =>
        /\ ctl[s].pc \in {"reload", "waiting"} /\ ctl[s].goal = "select" => file.model = ctl[s].draft
        /\ ctl[s].goal = "changed" => /\ file.model = ctl[s].draft
                                      /\ side[s].state # "down" => side[s].config.model = ctl[s].draft
        /\ ctl[s].goal \in {"remove", "removed"} => secret = NoSetting
        /\ ctl[s].goal = "removed" /\ side[s].state # "down" /\ file.dims = side[s].config.dims
              /\ side[s].delegate # NoSetting => side[s].delegate.key = EnvKey

SettingsIInv ==
    /\ SettingsTypes
    /\ \A s \in Sessions : SideFine(s) /\ ControlFine(s) /\ LoadFine(s) /\ ReportFine(s)

-----------------------------------------------------------------------------
\* What the invariant says of one session.
LEMMA SettingsOf ==
    ASSUME SettingsIInv, NEW s \in Sessions
    PROVE  /\ SettingsTypes /\ side[s] \in Sides /\ ctl[s] \in Controls /\ loads[s] \subseteq Loads
           /\ SideFine(s) /\ ControlFine(s) /\ LoadFine(s) /\ ReportFine(s)
  BY DEF SettingsIInv, SettingsTypes

\* The delegates of a configuration are its own.
LEMMA PreparedFits ==
    ASSUME SettingsAssumption, NEW config \in Configs, NEW works, secret \in {Key, NoSetting}
    PROVE  LET d == PreparedProvider(config, works) IN
           /\ d \in Delegates \cup {NoSetting}
           /\ d # NoSetting => /\ d.model = config.model /\ d.dims = config.dims
                               /\ secret = NoSetting => d.key = EnvKey
<1> DEFINE k == Resolved(works)
           d == [model |-> config.model, dims |-> config.dims, key |-> k]
<1>1. k \in {Key, EnvKey} /\ (secret = NoSetting => k = EnvKey)  BY DEF Resolved
<1>2. PreparedProvider(config, works) = IF k = NoSetting THEN NoSetting ELSE d  BY DEF PreparedProvider
<1> HIDE DEF k
<1>3. d \in Delegates  BY <1>1 DEF Delegates, Configs
<1> QED  BY <1>1, <1>2, <1>3

\* A Sidecar that changes, and nothing else.
LEMMA SideMoves ==
    ASSUME SettingsTypes, NEW s \in Sessions, NEW x \in Sides, side' = [side EXCEPT ![s] = x]
    PROVE  side' \in [Sessions -> Sides] /\ side'[s] = x /\ \A t \in Sessions \ {s} : side'[t] = side[t]
  BY DEF SettingsTypes

LEMMA ControlMoves ==
    ASSUME SettingsTypes, NEW s \in Sessions, NEW x \in Controls, ctl' = [ctl EXCEPT ![s] = x]
    PROVE  ctl' \in [Sessions -> Controls] /\ ctl'[s] = x /\ \A t \in Sessions \ {s} : ctl'[t] = ctl[t]
  BY DEF SettingsTypes

\* The steps of a start.
LEMMA InitializeKeeps ==
    ASSUME SettingsIInv, NEW s \in Sessions, Initialize(s)
    PROVE  SettingsIInv'
<1>1. SettingsTypes /\ \A t \in Sessions : SideFine(t) /\ ControlFine(t) /\ LoadFine(t) /\ ReportFine(t)
  BY DEF SettingsIInv
<1>2. side[s].state = "down" /\ UNCHANGED <<file, secret, index, vectors, loads, ctl, undone, acts>>
  BY DEF Initialize
<1>3. file \in Configs /\ secret \in {Key, NoSetting}  BY <1>1 DEF SettingsTypes, SettingsTypeOK
<1>4. PICK d \in Delegates \cup {NoSetting} :
        /\ side' = [side EXCEPT ![s] = [state |-> "opening", config |-> file, space |-> file, delegate |-> d]]
        /\ d # NoSetting => d.model = file.model /\ d.dims = file.dims /\ (secret = NoSetting => d.key = EnvKey)
  <2>1. PICK works \in BOOLEAN :
          side' = [side EXCEPT ![s] = [state |-> "opening", config |-> file, space |-> file,
                                       delegate |-> PreparedProvider(file, works)]]
    BY DEF Initialize
  <2> DEFINE d == PreparedProvider(file, works)
  <2>2. d \in Delegates \cup {NoSetting}
        /\ (d # NoSetting => d.model = file.model /\ d.dims = file.dims /\ (secret = NoSetting => d.key = EnvKey))
    BY <1>3, PreparedFits, SettingsAssumption
  <2> HIDE DEF d
  <2>3. side' = [side EXCEPT ![s] = [state |-> "opening", config |-> file, space |-> file, delegate |-> d]]
    BY <2>1 DEF d
  <2> QED  BY <2>2, <2>3
<1> DEFINE x == [state |-> "opening", config |-> file, space |-> file, delegate |-> d]
<1>5. x \in Sides /\ x.state = "opening" /\ x.config = file /\ x.space = file /\ x.delegate = d  BY <1>3 DEF Sides
<1> HIDE DEF x
<1>6. side' \in [Sessions -> Sides] /\ side'[s] = x /\ \A t \in Sessions \ {s} : side'[t] = side[t]
  BY <1>1, <1>4, <1>5, SideMoves DEF x
<1>7. SettingsTypes'  BY <1>1, <1>2, <1>6 DEF SettingsTypes, SettingsTypeOK, Valid
<1>8. ASSUME NEW t \in Sessions
      PROVE  SideFine(t)' /\ ControlFine(t)' /\ LoadFine(t)' /\ ReportFine(t)'
  <2>1. SideFine(t)'  BY <1>1, <1>2, <1>3, <1>4, <1>5, <1>6 DEF SideFine
  <2>2. ControlFine(t)'  BY <1>1, <1>2 DEF ControlFine, Valid
  <2>3. LoadFine(t)'  BY <1>1, <1>2 DEF LoadFine
  <2>4. ReportFine(t)'  BY <1>1, <1>2, <1>4, <1>5, <1>6 DEF ReportFine
  <2> QED  BY <2>1, <2>2, <2>3, <2>4
<1> QED  BY <1>7, <1>8 DEF SettingsIInv

LEMMA OpenStoreKeeps ==
    ASSUME SettingsIInv, NEW s \in Sessions, OpenStore(s)
    PROVE  SettingsIInv'
<1>1. SettingsTypes /\ \A t \in Sessions : SideFine(t) /\ ControlFine(t) /\ LoadFine(t) /\ ReportFine(t)
  BY DEF SettingsIInv
<1>2. side[s].state = "opening" /\ UNCHANGED <<file, secret, index, vectors, loads, ctl, undone, acts>>
  BY DEF OpenStore
<1>3. side[s] \in Sides  BY <1>1 DEF SettingsTypes
<1>4. PICK x \in Sides :
        /\ side' = [side EXCEPT ![s] = x]
        /\ x = Down \/ (x.config = side[s].config /\ x.delegate = side[s].delegate /\ x.space = side[s].space)
        /\ x.state \in {"down", "making", "up"}
        /\ x.state = "making" => index = NoSetting
        /\ x.state = "up" => index # NoSetting /\ side[s].space = index
        /\ x = Down => x.state = "down"
  <2>1. Down \in Sides /\ Down.state = "down"  BY DEF Down, Sides
  <2>2. \A st \in {"making", "up"} : LET x == [side[s] EXCEPT !.state = st] IN
           x \in Sides /\ x.state = st /\ x.config = side[s].config /\ x.delegate = side[s].delegate /\ x.space = side[s].space
    BY <1>3 DEF Sides
  <2>3. CASE index = NoSetting
    <3>1. side' = [side EXCEPT ![s] = [side[s] EXCEPT !.state = "making"]]  BY <1>1, <2>3 DEF OpenStore, SettingsTypes
    <3>2. Down # [side[s] EXCEPT !.state = "making"]  BY <2>1, <2>2
    <3> QED  BY <2>2, <2>3, <3>1, <3>2
  <2>4. CASE index # NoSetting /\ Compatible(s)
    <3>1. side' = [side EXCEPT ![s] = [side[s] EXCEPT !.state = "up"]]  BY <1>1, <2>4 DEF OpenStore, SettingsTypes
    <3>2. Down # [side[s] EXCEPT !.state = "up"]  BY <2>1, <2>2
    <3> QED  BY <2>2, <2>4, <3>1, <3>2 DEF Compatible
  <2>5. CASE index # NoSetting /\ ~Compatible(s)
    <3>1. side' = [side EXCEPT ![s] = Down]  BY <2>5 DEF OpenStore
    <3> QED  BY <2>1, <3>1
  <2> QED  BY <2>3, <2>4, <2>5
<1>6. side' \in [Sessions -> Sides] /\ side'[s] = x /\ \A t \in Sessions \ {s} : side'[t] = side[t]
  BY <1>1, <1>4, SideMoves
<1>7. SettingsTypes'  BY <1>1, <1>2, <1>6 DEF SettingsTypes, SettingsTypeOK, Valid
<1>8. ASSUME NEW t \in Sessions
      PROVE  SideFine(t)' /\ ControlFine(t)' /\ LoadFine(t)' /\ ReportFine(t)'
  <2>1. SideFine(t)'  BY <1>1, <1>2, <1>4, <1>6 DEF SideFine
  <2>2. ControlFine(t)'  BY <1>1, <1>2 DEF ControlFine, Valid
  <2>3. LoadFine(t)'  BY <1>1, <1>2 DEF LoadFine
  <2>4. ReportFine(t)'  BY <1>1, <1>2, <1>4, <1>6 DEF ReportFine
  <2> QED  BY <2>1, <2>2, <2>3, <2>4
<1> QED  BY <1>7, <1>8 DEF SettingsIInv

LEMMA MakeKeeps ==
    ASSUME SettingsIInv, NEW s \in Sessions, Make(s)
    PROVE  SettingsIInv'
<1>1. SettingsTypes /\ \A t \in Sessions : SideFine(t) /\ ControlFine(t) /\ LoadFine(t) /\ ReportFine(t)
  BY DEF SettingsIInv
<1>2. side[s].state = "making" /\ side' = [side EXCEPT ![s].state = "up"]
      /\ index' = (IF index = NoSetting THEN side[s].space ELSE index)
      /\ UNCHANGED <<file, secret, vectors, loads, ctl, undone, acts>>
  BY DEF Make
<1>3. side[s] \in Sides /\ NoSetting \notin Configs  BY <1>1, SettingsAssumption DEF SettingsTypes
<1> DEFINE x == [side[s] EXCEPT !.state = "up"]
<1>4. x \in Sides /\ x.state = "up" /\ x.config = side[s].config /\ x.delegate = side[s].delegate /\ x.space = side[s].space
  BY <1>3 DEF Sides
<1>5. side' = [side EXCEPT ![s] = x]  BY <1>1, <1>2 DEF SettingsTypes
<1> HIDE DEF x
<1>6. side' \in [Sessions -> Sides] /\ side'[s] = x /\ \A t \in Sessions \ {s} : side'[t] = side[t]
  BY <1>1, <1>4, <1>5, SideMoves
<1>7. SettingsTypes'
  <2>1. index' \in Configs  BY <1>1, <1>2, <1>3 DEF SideFine, SettingsTypes, SettingsTypeOK
  <2> QED  BY <1>1, <1>2, <1>6, <2>1 DEF SettingsTypes, SettingsTypeOK, Valid
<1>8. ASSUME NEW t \in Sessions
      PROVE  SideFine(t)' /\ ControlFine(t)' /\ LoadFine(t)' /\ ReportFine(t)'
  <2>1. SideFine(t)'  BY <1>1, <1>2, <1>3, <1>4, <1>6 DEF SideFine
  <2>2. ControlFine(t)'  BY <1>1, <1>2 DEF ControlFine, Valid
  <2>3. LoadFine(t)'  BY <1>1, <1>2 DEF LoadFine, SideFine
  <2>4. ReportFine(t)'  BY <1>1, <1>2, <1>4, <1>6 DEF ReportFine
  <2> QED  BY <2>1, <2>2, <2>3, <2>4
<1> QED  BY <1>7, <1>8 DEF SettingsIInv

LEMMA DiesKeeps ==
    ASSUME SettingsIInv, NEW s \in Sessions, SidecarDies(s)
    PROVE  SettingsIInv'
<1>1. SettingsTypes /\ \A t \in Sessions : SideFine(t) /\ ControlFine(t) /\ LoadFine(t) /\ ReportFine(t)
  BY DEF SettingsIInv
<1>2. side' = [side EXCEPT ![s] = Down] /\ loads' = [loads EXCEPT ![s] = {}]
      /\ UNCHANGED <<file, secret, index, vectors, undone, acts>>
  BY DEF SidecarDies
<1>3. PICK c \in Controls : /\ ctl' = [ctl EXCEPT ![s] = c]
                            /\ (c = ctl[s] /\ c.pc # "waiting") \/ (c.pc = "idle" /\ c.goal = "error")
  <2>1. [IdleControl EXCEPT !.goal = "error"] \in Controls /\ [IdleControl EXCEPT !.goal = "error"].pc = "idle"
        /\ [IdleControl EXCEPT !.goal = "error"].goal = "error"
    BY DEF IdleControl, Controls
  <2>2. ctl = [ctl EXCEPT ![s] = ctl[s]] /\ ctl[s] \in Controls  BY <1>1 DEF SettingsTypes
  <2> QED  BY <2>1, <2>2 DEF SidecarDies
<1>4. Down \in Sides /\ Down.state = "down"  BY DEF Down, Sides
<1>5. side' \in [Sessions -> Sides] /\ side'[s] = Down /\ \A t \in Sessions \ {s} : side'[t] = side[t]
  BY <1>1, <1>2, <1>4, SideMoves
<1>6. ctl' \in [Sessions -> Controls] /\ ctl'[s] = c /\ \A t \in Sessions \ {s} : ctl'[t] = ctl[t]
  BY <1>1, <1>3, ControlMoves
<1>7. loads' \in [Sessions -> SUBSET Loads] /\ loads'[s] = {} /\ \A t \in Sessions \ {s} : loads'[t] = loads[t]
  BY <1>1, <1>2 DEF SettingsTypes
<1>8. SettingsTypes'
  <2>1. \A t \in Sessions : IsFiniteSet(loads'[t])  BY <1>1, <1>7, FS_EmptySet DEF SettingsTypes
  <2> QED  BY <1>1, <1>2, <1>5, <1>6, <1>7, <2>1 DEF SettingsTypes, SettingsTypeOK, Valid
<1>9. ASSUME NEW t \in Sessions
      PROVE  SideFine(t)' /\ ControlFine(t)' /\ LoadFine(t)' /\ ReportFine(t)'
  <2>1. SideFine(t)'  BY <1>1, <1>2, <1>3, <1>4, <1>5, <1>6, <1>7 DEF SideFine
  <2>2. ControlFine(t)'  BY <1>1, <1>2, <1>3, <1>6 DEF ControlFine, Valid
  <2>3. LoadFine(t)'  BY <1>1, <1>2, <1>3, <1>6, <1>7 DEF LoadFine
  <2>4. ReportFine(t)'  BY <1>1, <1>2, <1>3, <1>4, <1>5, <1>6 DEF ReportFine
  <2> QED  BY <2>1, <2>2, <2>3, <2>4
<1> QED  BY <1>8, <1>9 DEF SettingsIInv

LEMMA WriteKeeps ==
    ASSUME SettingsIInv, NEW s \in Sessions, Write(s)
    PROVE  SettingsIInv'
<1>1. SettingsTypes /\ \A t \in Sessions : SideFine(t) /\ ControlFine(t) /\ LoadFine(t) /\ ReportFine(t)
  BY DEF SettingsIInv
<1>2. side[s].delegate # NoSetting /\ vectors' = vectors \cup {side[s].delegate.model}
      /\ UNCHANGED <<file, secret, index, side, loads, ctl, undone, acts>>
  BY DEF Write
<1>3. side[s].delegate.model \in Models  BY <1>1, <1>2 DEF SettingsTypes, Sides, Delegates
<1>4. SettingsTypes'  BY <1>1, <1>2, <1>3 DEF SettingsTypes, SettingsTypeOK, Valid
<1>5. ASSUME NEW t \in Sessions
      PROVE  SideFine(t)' /\ ControlFine(t)' /\ LoadFine(t)' /\ ReportFine(t)'
  BY <1>1, <1>2 DEF SideFine, ControlFine, LoadFine, ReportFine, Valid
<1> QED  BY <1>4, <1>5 DEF SettingsIInv

-----------------------------------------------------------------------------
\* What the answer of a reload makes of the controller.
LEMMA AnswerMoves ==
    ASSUME SettingsIInv, NEW s \in Sessions, NEW load, NEW activated \in BOOLEAN,
           ctl' = Answer(s, load, activated)
    PROVE  \E c \in Controls :
              /\ ctl' = [ctl EXCEPT ![s] = c]
              /\ \/ c = ctl[s] /\ (ctl[s].pc # "waiting" \/ ctl[s].load # load.id)
                 \/ /\ ctl[s].pc = "waiting" /\ ctl[s].load = load.id
                    /\ \/ /\ ctl[s].goal = "select" /\ ~activated
                          /\ c.pc = "load" /\ c.goal = "restore" /\ c.draft \in Models
                       \/ /\ c.pc = "idle" /\ c.draft = ctl[s].draft
                          /\ c.goal \in {"changed", "restored", "degraded", "activated", "stored", "removed"}
                          /\ c.goal = "changed" => ctl[s].goal = "select" /\ activated
                          /\ c.goal = "removed" => ctl[s].goal = "remove"
<1>1. SettingsTypes /\ ctl[s] \in Controls /\ ControlFine(s)  BY SettingsOf
<1>2. ctl \in [Sessions -> Controls]  BY <1>1 DEF SettingsTypes
<1>3. CASE ctl[s].pc # "waiting" \/ ctl[s].load # load.id
  <2>1. ctl' = [ctl EXCEPT ![s] = ctl[s]]  BY <1>2, <1>3 DEF Answer
  <2> QED  BY <1>1, <1>3, <2>1
<1>4. CASE ctl[s].pc = "waiting" /\ ctl[s].load = load.id /\ ctl[s].goal = "select" /\ ~activated
  <2> DEFINE c == [ctl[s] EXCEPT !.pc = "load", !.goal = "restore", !.draft = ctl[s].previous.model]
  <2>1. ctl[s].previous.model \in Models  BY <1>1, <1>4 DEF ControlFine, Configs
  <2>2. c \in Controls /\ c.pc = "load" /\ c.goal = "restore" /\ c.draft \in Models  BY <1>1, <2>1 DEF Controls
  <2>3. ctl' = [ctl EXCEPT ![s] = c]  BY <1>2, <1>4 DEF Answer
  <2> HIDE DEF c
  <2> QED  BY <1>4, <2>2, <2>3
<1>5. CASE ctl[s].pc = "waiting" /\ ctl[s].load = load.id /\ ~(ctl[s].goal = "select" /\ ~activated)
  <2> DEFINE g == Outcome(ctl[s].goal, activated)
             c == [ctl[s] EXCEPT !.pc = "idle", !.goal = g]
  <2>1. ctl[s].goal \in {"select", "restore", "store", "remove"}  BY <1>1, <1>5 DEF ControlFine
  <2>2. /\ g \in {"changed", "restored", "degraded", "activated", "stored", "removed"}
        /\ g = "changed" => ctl[s].goal = "select" /\ activated
        /\ g = "removed" => ctl[s].goal = "remove"
    BY <1>5, <2>1 DEF Outcome
  <2> HIDE DEF g
  <2>3. c \in Controls /\ c.pc = "idle" /\ c.goal = g /\ c.draft = ctl[s].draft  BY <1>1, <2>2 DEF Controls
  <2>4. ctl' = [ctl EXCEPT ![s] = c]  BY <1>2, <1>5 DEF Answer, g
  <2> HIDE DEF c
  <2> QED  BY <1>5, <2>2, <2>3, <2>4
<1> QED  BY <1>3, <1>4, <1>5

\* One reload less, or another in its place.
LEMMA LoadsMove ==
    ASSUME SettingsTypes, NEW s \in Sessions, NEW load \in loads[s], NEW more \in SUBSET Loads, IsFiniteSet(more),
           loads' = [loads EXCEPT ![s] = (@ \ {load}) \cup more]
    PROVE  /\ loads' \in [Sessions -> SUBSET Loads] /\ \A t \in Sessions : IsFiniteSet(loads'[t])
           /\ loads'[s] = (loads[s] \ {load}) \cup more /\ \A t \in Sessions \ {s} : loads'[t] = loads[t]
<1>1. loads \in [Sessions -> SUBSET Loads] /\ \A t \in Sessions : IsFiniteSet(loads[t])  BY DEF SettingsTypes
<1>2. IsFiniteSet((loads[s] \ {load}) \cup more)  BY <1>1, FS_RemoveElement, FS_Union
<1>3. (loads[s] \ {load}) \cup more \in SUBSET Loads  BY <1>1
<1>4. loads'[s] = (loads[s] \ {load}) \cup more /\ \A t \in Sessions \ {s} : loads'[t] = loads[t]
  BY <1>1
<1>5. loads' \in [Sessions -> SUBSET Loads]  BY <1>1, <1>3
<1> QED  BY <1>1, <1>2, <1>4, <1>5

LEMMA LoadConfigKeeps ==
    ASSUME SettingsIInv, NEW s \in Sessions, LoadConfig(s)
    PROVE  SettingsIInv'
<1>1. SettingsTypes /\ \A t \in Sessions : SideFine(t) /\ ControlFine(t) /\ LoadFine(t) /\ ReportFine(t)
  BY DEF SettingsIInv
<1>2. PICK load \in loads[s] :
        /\ load.stage = "config"
        /\ IF SameDims(load)
           THEN /\ loads' = [loads EXCEPT ![s] = (@ \ {load})
                                \cup {[load EXCEPT !.stage = "key", !.next = file]}]
                /\ UNCHANGED ctl
           ELSE /\ loads' = [loads EXCEPT ![s] = @ \ {load}]
                /\ ctl' = Answer(s, load, FALSE)
        /\ UNCHANGED <<file, secret, index, vectors, side, undone, acts, slips, losses>>
  BY DEF LoadConfig
<1>3. load \in Loads /\ file \in Configs  BY <1>1 DEF SettingsTypes, SettingsTypeOK
<1>4. load.current.dims = index.dims  BY <1>1 DEF LoadFine
<1>5. CASE SameDims(load)
  <2> DEFINE l == [load EXCEPT !.stage = "key", !.next = file]
  <2>1. l \in Loads /\ l.stage = "key" /\ l.next = file /\ l.id = load.id /\ l.current = load.current
    BY <1>3 DEF Loads
  <2>2. loads' = [loads EXCEPT ![s] = (@ \ {load}) \cup {l}] /\ UNCHANGED ctl  BY <1>2, <1>5
  <2> HIDE DEF l
  <2>3. /\ loads' \in [Sessions -> SUBSET Loads] /\ \A t \in Sessions : IsFiniteSet(loads'[t])
        /\ loads'[s] = (loads[s] \ {load}) \cup {l} /\ \A t \in Sessions \ {s} : loads'[t] = loads[t]
    <3>1. {l} \in SUBSET Loads /\ IsFiniteSet({l})  BY <2>1, FS_Singleton
    <3> QED  BY <1>1, <2>2, <3>1, LoadsMove
  <2>4. file.dims = index.dims  BY <1>4, <1>5 DEF SameDims
  <2>5. SettingsTypes'  BY <1>1, <1>2, <2>2, <2>3 DEF SettingsTypes, SettingsTypeOK, Valid
  <2>6. ASSUME NEW t \in Sessions
        PROVE  SideFine(t)' /\ ControlFine(t)' /\ LoadFine(t)' /\ ReportFine(t)'
    <3>1. SideFine(t)'  BY <1>1, <1>2, <2>2, <2>3 DEF SideFine
    <3>2. ControlFine(t)'  BY <1>1, <2>2 DEF ControlFine, Valid
    <3>3. LoadFine(t)'  BY <1>1, <1>2, <1>3, <1>4, <2>1, <2>2, <2>3, <2>4 DEF LoadFine
    <3>4. ReportFine(t)'  BY <1>1, <1>2, <2>2 DEF ReportFine
    <3> QED  BY <3>1, <3>2, <3>3, <3>4
  <2> QED  BY <2>5, <2>6 DEF SettingsIInv
<1>6. CASE ~SameDims(load)
  <2>1. PICK c \in Controls :
              /\ ctl' = [ctl EXCEPT ![s] = c]
              /\ \/ c = ctl[s] /\ (ctl[s].pc # "waiting" \/ ctl[s].load # load.id)
                 \/ /\ ctl[s].pc = "waiting" /\ ctl[s].load = load.id
                    /\ \/ /\ ctl[s].goal = "select"
                          /\ c.pc = "load" /\ c.goal = "restore" /\ c.draft \in Models
                       \/ /\ c.pc = "idle" /\ c.draft = ctl[s].draft
                          /\ c.goal \in {"restored", "degraded", "activated", "stored", "removed"}
                          /\ c.goal = "removed" => ctl[s].goal = "remove"
    <3>1. FALSE \in BOOLEAN /\ ctl' = Answer(s, load, FALSE)  BY <1>2, <1>6
    <3>2. PICK c \in Controls :
              /\ ctl' = [ctl EXCEPT ![s] = c]
              /\ \/ c = ctl[s] /\ (ctl[s].pc # "waiting" \/ ctl[s].load # load.id)
                 \/ /\ ctl[s].pc = "waiting" /\ ctl[s].load = load.id
                    /\ \/ /\ ctl[s].goal = "select" /\ ~FALSE
                          /\ c.pc = "load" /\ c.goal = "restore" /\ c.draft \in Models
                       \/ /\ c.pc = "idle" /\ c.draft = ctl[s].draft
                          /\ c.goal \in {"changed", "restored", "degraded", "activated", "stored", "removed"}
                          /\ c.goal = "changed" => ctl[s].goal = "select" /\ FALSE
                          /\ c.goal = "removed" => ctl[s].goal = "remove"
      BY <3>1, AnswerMoves
    <3> QED  BY <3>2
  <2>2. ctl' \in [Sessions -> Controls] /\ ctl'[s] = c /\ \A t \in Sessions \ {s} : ctl'[t] = ctl[t]
    BY <1>1, <2>1, ControlMoves
  <2>3. /\ loads' \in [Sessions -> SUBSET Loads] /\ \A t \in Sessions : IsFiniteSet(loads'[t])
        /\ loads'[s] = loads[s] \ {load} /\ \A t \in Sessions \ {s} : loads'[t] = loads[t]
    <3>1. loads' = [loads EXCEPT ![s] = (@ \ {load}) \cup {}]  BY <1>2, <1>6
    <3>2. {} \in SUBSET Loads /\ IsFiniteSet({})  BY FS_EmptySet
    <3> QED  BY <1>1, <3>1, <3>2, LoadsMove
  <2>4. SettingsTypes'  BY <1>1, <1>2, <2>2, <2>3 DEF SettingsTypes, SettingsTypeOK, Valid
  <2>5. side[s].state = "up" /\ index # NoSetting /\ side[s].config.dims = index.dims /\ file.dims # index.dims
    BY <1>1, <1>4, <1>6 DEF SideFine, SameDims
  <2>6. ASSUME NEW t \in Sessions
        PROVE  SideFine(t)' /\ ControlFine(t)' /\ LoadFine(t)' /\ ReportFine(t)'
    <3>1. SideFine(t)'  BY <1>1, <1>2, <2>2, <2>3, <2>5 DEF SideFine
    <3>2. ControlFine(t)'  BY <1>1, <2>1, <2>2 DEF ControlFine, Valid
    <3>3. LoadFine(t)'
      <4>1. t = s /\ t \notin undone => loads'[t] = {}  BY <1>1, <1>2, <2>3 DEF LoadFine
      <4> QED  BY <1>1, <1>2, <2>2, <2>3, <4>1 DEF LoadFine
    <3>4. ReportFine(t)'  BY <1>1, <1>2, <2>1, <2>2, <2>5 DEF ReportFine
    <3> QED  BY <3>1, <3>2, <3>3, <3>4
  <2> QED  BY <2>4, <2>6 DEF SettingsIInv
<1> QED  BY <1>5, <1>6

LEMMA ActivateKeeps ==
    ASSUME SettingsIInv, NEW s \in Sessions, Activate(s)
    PROVE  SettingsIInv'
<1>1. SettingsTypes /\ \A t \in Sessions : SideFine(t) /\ ControlFine(t) /\ LoadFine(t) /\ ReportFine(t)
  BY DEF SettingsIInv
<1>2. PICK load \in loads[s], works \in BOOLEAN :
        /\ load.stage = "key"
        /\ side' = [side EXCEPT ![s].config = load.next,
                                ![s].delegate = PreparedProvider(load.next, works)]
        /\ loads' = [loads EXCEPT ![s] = @ \ {load}]
        /\ ctl' = Answer(s, load, TRUE)
        /\ UNCHANGED <<file, secret, index, vectors, undone, acts, losses>>
  BY DEF Activate, Swapped
<1>3. side[s] \in Sides /\ secret \in {Key, NoSetting}  BY <1>1 DEF SettingsTypes, SettingsTypeOK
<1>4. load.next \in Configs /\ load.next.dims = index.dims
      /\ (s \notin undone => ctl[s].pc = "waiting" /\ ctl[s].load = load.id /\ load.next = file)
  BY <1>1, <1>2 DEF LoadFine
<1> DEFINE d == PreparedProvider(load.next, works)
           x == [side[s] EXCEPT !.config = load.next, !.delegate = d]
<1>5. d \in Delegates \cup {NoSetting}
      /\ (d # NoSetting => d.model = load.next.model /\ d.dims = load.next.dims /\ (secret = NoSetting => d.key = EnvKey))
  BY <1>3, <1>4, PreparedFits, SettingsAssumption
<1>6. side' = [side EXCEPT ![s] = x]  BY <1>1, <1>2 DEF SettingsTypes
<1> HIDE DEF d
<1>7. x \in Sides /\ x.state = side[s].state /\ x.space = side[s].space /\ x.config = load.next /\ x.delegate = d
  BY <1>3, <1>4, <1>5 DEF Sides
<1> HIDE DEF x
<1>8. side' \in [Sessions -> Sides] /\ side'[s] = x /\ \A t \in Sessions \ {s} : side'[t] = side[t]
  BY <1>1, <1>6, <1>7, SideMoves
<1>9. PICK c \in Controls :
              /\ ctl' = [ctl EXCEPT ![s] = c]
              /\ \/ c = ctl[s] /\ (ctl[s].pc # "waiting" \/ ctl[s].load # load.id)
                 \/ /\ ctl[s].pc = "waiting" /\ ctl[s].load = load.id
                    /\ c.pc = "idle" /\ c.draft = ctl[s].draft
                    /\ c.goal \in {"changed", "restored", "degraded", "activated", "stored", "removed"}
                    /\ c.goal = "changed" => ctl[s].goal = "select"
                    /\ c.goal = "removed" => ctl[s].goal = "remove"
  <2>1. TRUE \in BOOLEAN /\ ctl' = Answer(s, load, TRUE)  BY <1>2
  <2>2. PICK c \in Controls :
              /\ ctl' = [ctl EXCEPT ![s] = c]
              /\ \/ c = ctl[s] /\ (ctl[s].pc # "waiting" \/ ctl[s].load # load.id)
                 \/ /\ ctl[s].pc = "waiting" /\ ctl[s].load = load.id
                    /\ \/ /\ ctl[s].goal = "select" /\ ~TRUE
                          /\ c.pc = "load" /\ c.goal = "restore" /\ c.draft \in Models
                       \/ /\ c.pc = "idle" /\ c.draft = ctl[s].draft
                          /\ c.goal \in {"changed", "restored", "degraded", "activated", "stored", "removed"}
                          /\ c.goal = "changed" => ctl[s].goal = "select" /\ TRUE
                          /\ c.goal = "removed" => ctl[s].goal = "remove"
    BY <2>1, AnswerMoves
  <2> QED  BY <2>2
<1>10. ctl' \in [Sessions -> Controls] /\ ctl'[s] = c /\ \A t \in Sessions \ {s} : ctl'[t] = ctl[t]
  BY <1>1, <1>9, ControlMoves
<1>11. /\ loads' \in [Sessions -> SUBSET Loads] /\ \A t \in Sessions : IsFiniteSet(loads'[t])
       /\ loads'[s] = loads[s] \ {load} /\ \A t \in Sessions \ {s} : loads'[t] = loads[t]
  <2>1. loads' = [loads EXCEPT ![s] = (@ \ {load}) \cup {}]  BY <1>2
  <2>2. {} \in SUBSET Loads /\ IsFiniteSet({})  BY FS_EmptySet
  <2> QED  BY <1>1, <2>1, <2>2, LoadsMove
<1>12. SettingsTypes'  BY <1>1, <1>2, <1>8, <1>10, <1>11 DEF SettingsTypes, SettingsTypeOK, Valid
<1>13. side[s].state = "up" /\ index # NoSetting /\ side[s].space = index /\ index \in Configs
  BY <1>1 DEF SideFine, SettingsTypes, SettingsTypeOK
<1>14. ASSUME NEW t \in Sessions
      PROVE  SideFine(t)' /\ ControlFine(t)' /\ LoadFine(t)' /\ ReportFine(t)'
  <2>1. SideFine(t)'  BY <1>1, <1>2, <1>4, <1>5, <1>7, <1>8, <1>10, <1>11, <1>13 DEF SideFine
  <2>2. ControlFine(t)'  BY <1>1, <1>9, <1>10 DEF ControlFine, Valid
  <2>3. LoadFine(t)'
    <3>1. t = s /\ t \notin undone => loads'[t] = {}  BY <1>1, <1>2, <1>11 DEF LoadFine
    <3> QED  BY <1>1, <1>2, <1>10, <1>11, <3>1 DEF LoadFine
  <2>4. ReportFine(t)'
    <3>1. CASE t # s  BY <1>1, <1>2, <1>8, <1>10, <3>1 DEF ReportFine
    <3>2. CASE t = s /\ s \in undone  BY <1>2, <3>2 DEF ReportFine
    <3>3. CASE t = s /\ s \notin undone
      <4>1. load.next = file /\ ctl[s].pc = "waiting" /\ c.pc = "idle" /\ c.draft = ctl[s].draft
            /\ c.goal \in {"changed", "restored", "degraded", "activated", "stored", "removed"}
            /\ (c.goal = "changed" => ctl[s].goal = "select") /\ (c.goal = "removed" => ctl[s].goal = "remove")
        BY <1>4, <1>9, <3>3
      <4>2. /\ ctl[s].goal = "select" => file.model = ctl[s].draft
            /\ ctl[s].goal = "remove" => secret = NoSetting
        BY <1>1, <3>3, <4>1 DEF ReportFine
      <4>3. c.goal = "removed" /\ d # NoSetting => d.key = EnvKey  BY <1>5, <4>1, <4>2
      <4>4. UNCHANGED <<file, secret, undone>>  BY <1>2
      <4> QED  BY <1>7, <1>8, <1>10, <3>3, <4>1, <4>2, <4>3, <4>4 DEF ReportFine
    <3> QED  BY <3>1, <3>2, <3>3
  <2> QED  BY <2>1, <2>2, <2>3, <2>4
<1> QED  BY <1>12, <1>14 DEF SettingsIInv

-----------------------------------------------------------------------------
\* The steps of the controller.  One that is not waiting has no reload that counts.
LEMMA NotWaiting ==
    ASSUME SettingsIInv, NEW s \in Sessions, ctl[s].pc # "waiting"
    PROVE  s \in undone \/ loads[s] = {}
<1> SUFFICES ASSUME s \notin undone, NEW load \in loads[s] PROVE FALSE  OBVIOUS
<1> QED  BY SettingsOf DEF LoadFine

\* One that is not idle has an index.
LEMMA Indexed ==
    ASSUME SettingsIInv, NEW s \in Sessions, side[s].state = "up" \/ ctl[s].pc # "idle"
    PROVE  index # NoSetting /\ index \in Configs
<1>1. SideFine(s) /\ SettingsTypes  BY SettingsOf
<1> QED  BY <1>1 DEF SideFine, SettingsTypes, SettingsTypeOK

\* The controller that gave up.
LEMMA GivenUp ==
    LET c == [IdleControl EXCEPT !.goal = "error"] IN c \in Controls /\ c.pc = "idle" /\ c.goal = "error"
  BY DEF IdleControl, Controls

LEMMA SelectKeeps ==
    ASSUME SettingsIInv, NEW s \in Sessions, Select(s)
    PROVE  SettingsIInv'
<1>1. SettingsTypes /\ \A t \in Sessions : SideFine(t) /\ ControlFine(t) /\ LoadFine(t) /\ ReportFine(t)
  BY DEF SettingsIInv
<1>2. ctl[s].pc = "idle" /\ side[s].state = "up" /\ acts' = acts + 1 /\ Begun(s)
      /\ UNCHANGED <<file, secret, index, vectors, side, loads>>
  BY DEF Select, Act
<1>3. PICK m \in Models :
        ctl' = [ctl EXCEPT ![s] = [IdleControl EXCEPT !.pc = "load", !.goal = "select", !.draft = m, !.previous = file]]
  BY DEF Select, Offered
<1> DEFINE c == [IdleControl EXCEPT !.pc = "load", !.goal = "select", !.draft = m, !.previous = file]
<1>4. c \in Controls /\ c.pc = "load" /\ c.goal = "select" /\ c.draft \in Models /\ c.previous \in Configs
  <2>1. file \in Configs  BY <1>1 DEF SettingsTypes, SettingsTypeOK
  <2> QED  BY <2>1 DEF IdleControl, Controls
<1> HIDE DEF c
<1>5. ctl' \in [Sessions -> Controls] /\ ctl'[s] = c /\ \A t \in Sessions \ {s} : ctl'[t] = ctl[t]
  BY <1>1, <1>3, <1>4, ControlMoves DEF c
<1>6. undone' \subseteq Sessions /\ (\A t \in Sessions \ {s} : t \in undone' <=> t \in undone)
      /\ (s \in undone' \/ loads[s] = {})
  BY <1>1, <1>2, NotWaiting DEF Begun, SettingsTypes, SettingsTypeOK
<1>7. index # NoSetting  BY <1>2, Indexed
<1>8. SettingsTypes'  BY <1>1, <1>2, <1>5, <1>6 DEF SettingsTypes, SettingsTypeOK, Valid
<1>9. ASSUME NEW t \in Sessions
      PROVE  SideFine(t)' /\ ControlFine(t)' /\ LoadFine(t)' /\ ReportFine(t)'
  <2>1. SideFine(t)'  BY <1>1, <1>2, <1>7 DEF SideFine
  <2>2. ControlFine(t)'  BY <1>1, <1>4, <1>5 DEF ControlFine, Valid
  <2>3. LoadFine(t)'  BY <1>1, <1>2, <1>5, <1>6 DEF LoadFine
  <2>4. ReportFine(t)'  BY <1>1, <1>2, <1>4, <1>5, <1>6 DEF ReportFine
  <2> QED  BY <2>1, <2>2, <2>3, <2>4
<1> QED  BY <1>8, <1>9 DEF SettingsIInv

LEMMA LoadKeeps ==
    ASSUME SettingsIInv, NEW s \in Sessions, Load(s)
    PROVE  SettingsIInv'
<1>1. SettingsTypes /\ \A t \in Sessions : SideFine(t) /\ ControlFine(t) /\ LoadFine(t) /\ ReportFine(t)
  BY DEF SettingsIInv
<1>2. ctl[s].pc = "load" /\ ctl' = [ctl EXCEPT ![s].pc = "save", ![s].next = Applied(ctl[s].draft)]
      /\ UNCHANGED <<file, secret, index, vectors, side, loads, undone, acts>>
  BY DEF Load
<1>3. ctl[s] \in Controls /\ ctl[s].goal \in {"select", "restore"} /\ ctl[s].draft \in Models
  BY <1>1, <1>2 DEF ControlFine, SettingsTypes
<1> DEFINE n == Applied(ctl[s].draft)
           c == [ctl[s] EXCEPT !.pc = "save", !.next = n]
<1>4. n \in Configs /\ Valid(n) /\ n.model = ctl[s].draft
  BY <1>1, <1>3, SettingsAssumption DEF Applied, Configs, Valid, SettingsTypes, SettingsTypeOK
<1> HIDE DEF n
<1>5. c \in Controls /\ c.pc = "save" /\ c.next = n /\ c.goal = ctl[s].goal /\ c.draft = ctl[s].draft
      /\ c.previous = ctl[s].previous
  BY <1>3, <1>4 DEF Controls
<1>6. ctl' = [ctl EXCEPT ![s] = c]  BY <1>1, <1>2 DEF SettingsTypes, n
<1> HIDE DEF c
<1>7. ctl' \in [Sessions -> Controls] /\ ctl'[s] = c /\ \A t \in Sessions \ {s} : ctl'[t] = ctl[t]
  BY <1>1, <1>5, <1>6, ControlMoves
<1>8. index # NoSetting /\ (s \in undone \/ loads[s] = {})  BY <1>2, Indexed, NotWaiting
<1>9. SettingsTypes'  BY <1>1, <1>2, <1>7 DEF SettingsTypes, SettingsTypeOK, Valid
<1>10. ASSUME NEW t \in Sessions
       PROVE  SideFine(t)' /\ ControlFine(t)' /\ LoadFine(t)' /\ ReportFine(t)'
  <2>1. SideFine(t)'  BY <1>1, <1>2, <1>8 DEF SideFine
  <2>2. ControlFine(t)'  BY <1>1, <1>3, <1>4, <1>5, <1>7 DEF ControlFine, Valid
  <2>3. LoadFine(t)'  BY <1>1, <1>2, <1>7, <1>8 DEF LoadFine
  <2>4. ReportFine(t)'  BY <1>1, <1>2, <1>3, <1>5, <1>7 DEF ReportFine
  <2> QED  BY <2>1, <2>2, <2>3, <2>4
<1> QED  BY <1>9, <1>10 DEF SettingsIInv

LEMMA SaveKeeps ==
    ASSUME SettingsIInv, NEW s \in Sessions, Save(s)
    PROVE  SettingsIInv'
<1>1. SettingsTypes /\ \A t \in Sessions : SideFine(t) /\ ControlFine(t) /\ LoadFine(t) /\ ReportFine(t)
  BY DEF SettingsIInv
<1>2. ctl[s].pc = "save" /\ UNCHANGED <<secret, index, vectors, side, loads, acts>>  BY DEF Save
<1>3. ctl[s] \in Controls /\ ctl[s].goal \in {"select", "restore"} /\ ctl[s].draft \in Models
      /\ ctl[s].next \in Configs /\ Valid(ctl[s].next) /\ ctl[s].next.model = ctl[s].draft
  BY <1>1, <1>2 DEF ControlFine, SettingsTypes
<1>4. index # NoSetting /\ (s \in undone \/ loads[s] = {})  BY <1>2, Indexed, NotWaiting
<1>5. CASE file' = ctl[s].next /\ ctl' = [ctl EXCEPT ![s].pc = "reload"] /\ Overwrites(s)
  <2> DEFINE c == [ctl[s] EXCEPT !.pc = "reload"]
  <2>1. c \in Controls /\ c.pc = "reload" /\ c.goal = ctl[s].goal /\ c.draft = ctl[s].draft /\ c.next = ctl[s].next
        /\ c.previous = ctl[s].previous
    BY <1>3 DEF Controls
  <2>2. ctl' = [ctl EXCEPT ![s] = c]  BY <1>1, <1>5 DEF SettingsTypes
  <2> HIDE DEF c
  <2>3. ctl' \in [Sessions -> Controls] /\ ctl'[s] = c /\ \A t \in Sessions \ {s} : ctl'[t] = ctl[t]
    BY <1>1, <2>1, <2>2, ControlMoves
  <2>4. undone' \subseteq Sessions /\ (\A t \in Sessions \ {s} : t \in undone') /\ (s \in undone' <=> s \in undone)
    BY <1>1, <1>5 DEF Overwrites, SettingsTypes, SettingsTypeOK
  <2>5. SettingsTypes'  BY <1>1, <1>2, <1>3, <1>5, <2>3, <2>4 DEF SettingsTypes, SettingsTypeOK, Valid
  <2>6. ASSUME NEW t \in Sessions
        PROVE  SideFine(t)' /\ ControlFine(t)' /\ LoadFine(t)' /\ ReportFine(t)'
    <3>1. SideFine(t)'  BY <1>1, <1>2, <1>4 DEF SideFine
    <3>2. ControlFine(t)'  BY <1>1, <1>3, <2>1, <2>3 DEF ControlFine, Valid
    <3>3. LoadFine(t)'  BY <1>1, <1>2, <1>4, <2>3, <2>4 DEF LoadFine
    <3>4. ReportFine(t)'  BY <1>1, <1>2, <1>3, <1>5, <2>1, <2>3, <2>4 DEF ReportFine
    <3> QED  BY <3>1, <3>2, <3>3, <3>4
  <2> QED  BY <2>5, <2>6 DEF SettingsIInv
<1>6. CASE ctl' = [ctl EXCEPT ![s] = [IdleControl EXCEPT !.goal = "error"]] /\ UNCHANGED <<file, undone>>
  <2> DEFINE c == [IdleControl EXCEPT !.goal = "error"]
  <2>1. c \in Controls /\ c.pc = "idle" /\ c.goal = "error"  BY GivenUp
  <2>2. ctl' = [ctl EXCEPT ![s] = c]  BY <1>6
  <2> HIDE DEF c
  <2>3. ctl' \in [Sessions -> Controls] /\ ctl'[s] = c /\ \A t \in Sessions \ {s} : ctl'[t] = ctl[t]
    BY <1>1, <2>1, <2>2, ControlMoves
  <2>4. SettingsTypes'  BY <1>1, <1>2, <1>6, <2>3 DEF SettingsTypes, SettingsTypeOK, Valid
  <2>5. ASSUME NEW t \in Sessions
        PROVE  SideFine(t)' /\ ControlFine(t)' /\ LoadFine(t)' /\ ReportFine(t)'
    <3>1. SideFine(t)'  BY <1>1, <1>2, <1>4, <1>6 DEF SideFine
    <3>2. ControlFine(t)'  BY <1>1, <2>1, <2>3 DEF ControlFine, Valid
    <3>3. LoadFine(t)'  BY <1>1, <1>2, <1>4, <1>6, <2>3 DEF LoadFine
    <3>4. ReportFine(t)'  BY <1>1, <1>2, <1>6, <2>1, <2>3 DEF ReportFine
    <3> QED  BY <3>1, <3>2, <3>3, <3>4
  <2> QED  BY <2>4, <2>5 DEF SettingsIInv
<1> QED  BY <1>5, <1>6 DEF Save

LEMMA StoreKeeps ==
    ASSUME SettingsIInv, NEW s \in Sessions, NEW goal \in {"store", "remove"}, NEW value \in {Key, NoSetting},
           goal = "remove" => value = NoSetting, Store(s, goal, value)
    PROVE  SettingsIInv'
<1>1. SettingsTypes /\ \A t \in Sessions : SideFine(t) /\ ControlFine(t) /\ LoadFine(t) /\ ReportFine(t)
  BY DEF SettingsIInv
<1>2. ctl[s].pc = "idle" /\ side[s].state = "up" /\ acts' = acts + 1 /\ secret' = value
      /\ ctl' = [ctl EXCEPT ![s] = [IdleControl EXCEPT !.pc = "reload", !.goal = goal]]
      /\ undone' = (IF loads[s] = {} THEN undone \ {s} ELSE undone) \cup (Sessions \ {s})
      /\ UNCHANGED <<file, index, vectors, side, loads>>
  BY DEF Store, Act
<1> DEFINE c == [IdleControl EXCEPT !.pc = "reload", !.goal = goal]
<1>3. c \in Controls /\ c.pc = "reload" /\ c.goal = goal  BY DEF IdleControl, Controls
<1>4. ctl' = [ctl EXCEPT ![s] = c]  BY <1>2
<1> HIDE DEF c
<1>5. ctl' \in [Sessions -> Controls] /\ ctl'[s] = c /\ \A t \in Sessions \ {s} : ctl'[t] = ctl[t]
  BY <1>1, <1>3, <1>4, ControlMoves
<1>6. undone' \subseteq Sessions /\ (\A t \in Sessions \ {s} : t \in undone') /\ (s \in undone' \/ loads[s] = {})
  BY <1>1, <1>2, NotWaiting DEF SettingsTypes, SettingsTypeOK
<1>7. index # NoSetting  BY <1>2, Indexed
<1>8. SettingsTypes'  BY <1>1, <1>2, <1>5, <1>6 DEF SettingsTypes, SettingsTypeOK, Valid
<1>9. ASSUME NEW t \in Sessions
      PROVE  SideFine(t)' /\ ControlFine(t)' /\ LoadFine(t)' /\ ReportFine(t)'
  <2>1. SideFine(t)'  BY <1>1, <1>2, <1>7 DEF SideFine
  <2>2. ControlFine(t)'  BY <1>1, <1>3, <1>5 DEF ControlFine, Valid
  <2>3. LoadFine(t)'  BY <1>1, <1>2, <1>5, <1>6 DEF LoadFine
  <2>4. ReportFine(t)'  BY <1>1, <1>2, <1>3, <1>5, <1>6 DEF ReportFine
  <2> QED  BY <2>1, <2>2, <2>3, <2>4
<1> QED  BY <1>8, <1>9 DEF SettingsIInv

LEMMA ReloadKeeps ==
    ASSUME SettingsIInv, NEW s \in Sessions, Reload(s)
    PROVE  SettingsIInv'
<1>1. SettingsTypes /\ \A t \in Sessions : SideFine(t) /\ ControlFine(t) /\ LoadFine(t) /\ ReportFine(t)
  BY DEF SettingsIInv
<1>2. ctl[s].pc = "reload" /\ UNCHANGED <<file, secret, index, vectors, side, undone, acts>>  BY DEF Reload
<1>3. index # NoSetting /\ (s \in undone \/ loads[s] = {})  BY <1>2, Indexed, NotWaiting
<1>4. ctl[s] \in Controls /\ ctl[s].goal \in {"select", "restore", "store", "remove"}
  BY <1>1, <1>2 DEF ControlFine, SettingsTypes
<1>5. CASE side[s].state = "up"
  <2> DEFINE id == 1 + Cardinality(loads[s]) + acts
             l == [id |-> id, stage |-> "config", current |-> side[s].config, next |-> NoSetting]
             c == [ctl[s] EXCEPT !.pc = "waiting", !.load = id]
  <2>1. id \in Nat
    <3>1. Cardinality(loads[s]) \in Nat /\ acts \in Nat  BY <1>1, FS_CardinalityType DEF SettingsTypes
    <3> QED  BY <3>1
  <2>2. loads' = [loads EXCEPT ![s] = @ \cup {l}] /\ ctl' = [ctl EXCEPT ![s].pc = "waiting", ![s].load = id]
    BY <1>5 DEF Reload
  <2> HIDE DEF id
  <2>3. l \in Loads /\ l.id = id /\ l.stage = "config" /\ l.current = side[s].config
    BY <1>1, <1>5, <2>1 DEF SideFine, Loads
  <2>4. c \in Controls /\ c.pc = "waiting" /\ c.load = id /\ c.goal = ctl[s].goal /\ c.draft = ctl[s].draft
        /\ c.previous = ctl[s].previous
    BY <1>4, <2>1 DEF Controls
  <2>5. ctl' = [ctl EXCEPT ![s] = c]  BY <1>1, <2>2 DEF SettingsTypes
  <2> HIDE DEF l, c
  <2>6. ctl' \in [Sessions -> Controls] /\ ctl'[s] = c /\ \A t \in Sessions \ {s} : ctl'[t] = ctl[t]
    BY <1>1, <2>4, <2>5, ControlMoves
  <2>7. /\ loads' \in [Sessions -> SUBSET Loads] /\ \A t \in Sessions : IsFiniteSet(loads'[t])
        /\ loads'[s] = loads[s] \cup {l} /\ \A t \in Sessions \ {s} : loads'[t] = loads[t]
    <3>1. loads \in [Sessions -> SUBSET Loads] /\ \A t \in Sessions : IsFiniteSet(loads[t])  BY <1>1 DEF SettingsTypes
    <3>2. IsFiniteSet(loads[s] \cup {l})  BY <3>1, FS_AddElement
    <3>3. loads'[s] = loads[s] \cup {l} /\ \A t \in Sessions \ {s} : loads'[t] = loads[t]  BY <2>2, <3>1
    <3>4. loads' \in [Sessions -> SUBSET Loads]  BY <2>2, <2>3, <3>1
    <3> QED  BY <3>1, <3>2, <3>3, <3>4
  <2>8. side[s].config.dims = index.dims  BY <1>1, <1>5 DEF SideFine
  <2>9. SettingsTypes'  BY <1>1, <1>2, <2>6, <2>7 DEF SettingsTypes, SettingsTypeOK, Valid
  <2>10. ASSUME NEW t \in Sessions
         PROVE  SideFine(t)' /\ ControlFine(t)' /\ LoadFine(t)' /\ ReportFine(t)'
    <3>1. SideFine(t)'  BY <1>1, <1>2, <1>3, <1>5, <2>7 DEF SideFine
    <3>2. ControlFine(t)'  BY <1>1, <1>4, <2>4, <2>6 DEF ControlFine, Valid
    <3>3. LoadFine(t)'  BY <1>1, <1>2, <1>3, <2>3, <2>4, <2>6, <2>7, <2>8 DEF LoadFine
    <3>4. ReportFine(t)'  BY <1>1, <1>2, <1>4, <2>4, <2>6 DEF ReportFine
    <3> QED  BY <3>1, <3>2, <3>3, <3>4
  <2> QED  BY <2>9, <2>10 DEF SettingsIInv
<1>6. CASE side[s].state # "up"
  <2> DEFINE c == [IdleControl EXCEPT !.goal = "error"]
  <2>1. c \in Controls /\ c.pc = "idle" /\ c.goal = "error"  BY GivenUp
  <2>2. ctl' = [ctl EXCEPT ![s] = c] /\ UNCHANGED loads  BY <1>6 DEF Reload
  <2> HIDE DEF c
  <2>3. ctl' \in [Sessions -> Controls] /\ ctl'[s] = c /\ \A t \in Sessions \ {s} : ctl'[t] = ctl[t]
    BY <1>1, <2>1, <2>2, ControlMoves
  <2>4. SettingsTypes'  BY <1>1, <1>2, <2>2, <2>3 DEF SettingsTypes, SettingsTypeOK, Valid
  <2>5. ASSUME NEW t \in Sessions
        PROVE  SideFine(t)' /\ ControlFine(t)' /\ LoadFine(t)' /\ ReportFine(t)'
    <3>1. SideFine(t)'  BY <1>1, <1>2, <1>3, <2>2 DEF SideFine
    <3>2. ControlFine(t)'  BY <1>1, <2>1, <2>3 DEF ControlFine, Valid
    <3>3. LoadFine(t)'  BY <1>1, <1>2, <1>3, <2>2, <2>3 DEF LoadFine
    <3>4. ReportFine(t)'  BY <1>1, <1>2, <2>1, <2>3 DEF ReportFine
    <3> QED  BY <3>1, <3>2, <3>3, <3>4
  <2> QED  BY <2>4, <2>5 DEF SettingsIInv
<1> QED  BY <1>5, <1>6

LEMMA TimeoutKeeps ==
    ASSUME SettingsIInv, NEW s \in Sessions, Timeout(s)
    PROVE  SettingsIInv'
<1>1. SettingsTypes /\ \A t \in Sessions : SideFine(t) /\ ControlFine(t) /\ LoadFine(t) /\ ReportFine(t)
  BY DEF SettingsIInv
<1>2. ctl[s].pc = "waiting" /\ undone' = undone \cup {s}
      /\ UNCHANGED <<file, secret, index, vectors, side, loads, acts>>
  BY DEF Timeout
<1> DEFINE c == [IdleControl EXCEPT !.goal = "error"]
<1>3. c \in Controls /\ c.pc = "idle" /\ c.goal = "error"  BY GivenUp
<1>4. ctl' = [ctl EXCEPT ![s] = c]  BY DEF Timeout
<1> HIDE DEF c
<1>5. ctl' \in [Sessions -> Controls] /\ ctl'[s] = c /\ \A t \in Sessions \ {s} : ctl'[t] = ctl[t]
  BY <1>1, <1>3, <1>4, ControlMoves
<1>6. index # NoSetting  BY <1>2, Indexed
<1>7. SettingsTypes'  BY <1>1, <1>2, <1>5 DEF SettingsTypes, SettingsTypeOK, Valid
<1>8. ASSUME NEW t \in Sessions
      PROVE  SideFine(t)' /\ ControlFine(t)' /\ LoadFine(t)' /\ ReportFine(t)'
  <2>1. SideFine(t)'  BY <1>1, <1>2, <1>6 DEF SideFine
  <2>2. ControlFine(t)'  BY <1>1, <1>3, <1>5 DEF ControlFine, Valid
  <2>3. LoadFine(t)'  BY <1>1, <1>2, <1>5 DEF LoadFine
  <2>4. ReportFine(t)'  BY <1>1, <1>2, <1>3, <1>5 DEF ReportFine
  <2> QED  BY <2>1, <2>2, <2>3, <2>4
<1> QED  BY <1>7, <1>8 DEF SettingsIInv

\* What the invariant is for.
LEMMA SettingsImplied ==
    ASSUME SettingsIInv
    PROVE  SettingsHold
<1>1. SettingsTypeOK  BY DEF SettingsIInv, SettingsTypes
<1>2. ServedAsConfigured  BY DEF SettingsIInv, ServedAsConfigured, SideFine, Up
<1>3. ReportIsTrue  BY DEF SettingsIInv, ReportIsTrue, ReportFine, SideFine, Up
<1> QED  BY <1>1, <1>2, <1>3 DEF SettingsHold

\* Whatever the reloads, restarts, timeouts and other sessions do, a Sidecar serves what its
\* status says, in vectors that fit its index, and a setting reported as made is made.
THEOREM SettingsAlwaysHold == SettingsSpec => []SettingsHold
<1>1. SettingsInit => SettingsIInv
  <2> SUFFICES ASSUME SettingsInit PROVE SettingsIInv  OBVIOUS
  <2>1. Down \in Sides /\ Down.state = "down" /\ IdleControl \in Controls /\ IdleControl.pc = "idle"
        /\ IdleControl.goal = "none"
    BY DEF Down, Sides, IdleControl, Controls
  <2>2. side = [s \in Sessions |-> Down] /\ ctl = [s \in Sessions |-> IdleControl] /\ loads = [s \in Sessions |-> {}]
        /\ file \in Configs /\ Valid(file) /\ secret = NoSetting /\ index = NoSetting /\ vectors = {} /\ undone = {}
        /\ acts = 0
    BY DEF SettingsInit
  <2>3. \A s \in Sessions : side[s] = Down /\ ctl[s] = IdleControl /\ loads[s] = {}  BY <2>2
  <2>4. SettingsTypes
    <3>1. \A s \in Sessions : IsFiniteSet(loads[s])  BY <2>3, FS_EmptySet
    <3>2. side \in [Sessions -> Sides] /\ ctl \in [Sessions -> Controls] /\ loads \in [Sessions -> SUBSET Loads]
      BY <2>1, <2>2
    <3> QED  BY <2>2, <3>1, <3>2 DEF SettingsTypes, SettingsTypeOK
  <2>5. \A s \in Sessions : SideFine(s) /\ ControlFine(s) /\ LoadFine(s) /\ ReportFine(s)
    BY <2>1, <2>2, <2>3 DEF SideFine, ControlFine, LoadFine, ReportFine
  <2> QED  BY <2>4, <2>5 DEF SettingsIInv
<1>2. SettingsIInv /\ [SettingsNext]_settingsVars => SettingsIInv'
  <2> SUFFICES ASSUME SettingsIInv, [SettingsNext]_settingsVars PROVE SettingsIInv'  OBVIOUS
  <2>1. CASE UNCHANGED settingsVars
    BY <2>1 DEF settingsVars, SettingsIInv, SettingsTypes, SettingsTypeOK, Valid, SideFine, ControlFine, LoadFine, ReportFine
  <2>2. ASSUME NEW s \in Sessions,
               \/ Initialize(s) \/ OpenStore(s) \/ Make(s) \/ SidecarDies(s) \/ Write(s)
               \/ LoadConfig(s) \/ Activate(s)
               \/ Select(s) \/ Load(s) \/ Save(s) \/ Credential(s) \/ RemoveCredential(s)
               \/ Reload(s) \/ Timeout(s)
        PROVE  SettingsIInv'
    <3>1. CASE Credential(s)  BY <3>1, StoreKeeps DEF Credential
    <3>2. CASE RemoveCredential(s)  BY <3>2, StoreKeeps DEF RemoveCredential
    <3> QED  BY <2>2, <3>1, <3>2, InitializeKeeps, OpenStoreKeeps, MakeKeeps, DiesKeeps, WriteKeeps, LoadConfigKeeps,
                ActivateKeeps, SelectKeeps, LoadKeeps, SaveKeeps, ReloadKeeps, TimeoutKeeps
  <2> QED  BY <2>1, <2>2 DEF SettingsNext
<1> QED  BY <1>1, <1>2, SettingsImplied, PTL DEF SettingsSpec

-----------------------------------------------------------------------------
(* What sessions are about: the context they share *)

\* The topics that two refreshes have observed.
Twice == {t \in TopicIds : Cardinality(samples[t]) >= 2}
\* The shapes of the records.
IsTask(x) == DOMAIN x = {"goal", "topics", "repo", "state", "revision"}
IsScope(x) == DOMAIN x = {"task", "topics", "snap", "revision", "phase", "scope", "gen", "turn"}
IsRefresh(o) == DOMAIN o = {"pc", "goal", "gen", "topic", "alike", "terms", "seen", "new", "topics",
                            "current", "task", "snap"}
IsJob(j) == DOMAIN j = {"by", "task", "seen"}
\* A refresh before and after it has observed its topic.
Early == {"settled", "list", "fill", "topicGet", "named", "topicPut", "create"}
Late == {"taskGet", "currentGet", "taskList", "taskPut", "snapPut", "pointerPut"}

Domains ==
    /\ DOMAIN topics = TopicIds /\ DOMAIN samples = TopicIds /\ DOMAIN latest = Chats
    /\ DOMAIN scopes = Chats /\ DOMAIN op = Chats /\ \A s \in Chats : DOMAIN op[s] = Slots
    /\ plan \in Plans

TopicFine(t) ==
    /\ topics[t].count \in Nat /\ topics[t].revision \in Nat /\ IsFiniteSet(samples[t])
    /\ topics[t].count <= Cardinality(samples[t])
    /\ topics[t].revision > 0 => topics[t].count >= 1
    /\ topics[t].active => t \in Twice

\* A task that the session may be assigned, when it is known.
OfRepo(s, id) == repo[s] # {} => id.affinity = repo[s]
Usable(s, id) == id # None => id \in DOMAIN tasks /\ OfRepo(s, id)
ScopeFine(s, x) ==
    /\ IsScope(x) /\ x.turn \in 0 .. Len(plan.asks[s]) /\ x.phase \in {"idle", "start", "run"}
    /\ x.phase # "idle" => x.turn >= 1
    /\ x.topics \subseteq Twice /\ Usable(s, x.task) /\ Agrees(x)
    /\ x.scope # None => Agrees(x.scope) /\ (x.scope.task # None => x.scope.task \in DOMAIN tasks)

RefreshFine(s, o) ==
    /\ IsRefresh(o) /\ o.pc \in {"idle"} \cup Early \cup Late
    /\ o.pc # "idle" => o.goal \in Prompts \ {{}}
    /\ o.topics \subseteq Twice
    /\ o.pc \in {"topicGet", "topicPut"} => o.topic \in TopicIds
    /\ o.pc = "topicPut" => /\ o.new.count \in Nat \ {0} /\ o.new.count <= Cardinality(samples[o.topic]) + 1
                            /\ o.new.active => o.new.count >= 2 \/ o.topic \in Twice
    /\ o.pc \in {"taskGet", "currentGet"} => Usable(s, o.current)
    /\ o.pc = "currentGet" => o.current # None
    /\ o.pc = "taskPut" => OfRepo(s, o.task)
    /\ o.pc \in {"snapPut", "pointerPut"} => o.snap.topics \subseteq Twice
    /\ o.pc = "pointerPut" => o.snap \in stored

\* A refresh observes a topic once: that of a turn that starts once in each turn, and that
\* of a settled turn once, after it.
NotBegun(s, k) == k # 0 /\ (k > scopes[s].turn \/ (k = scopes[s].turn /\ scopes[s].phase # "idle"))
SlotFine(s, k) ==
    /\ \A t \in TopicIds : \A x \in samples[t] : x.of = s /\ x.slot = k =>
          /\ x.turn \in Nat /\ x.turn <= scopes[s].turn /\ ~NotBegun(s, k)
          /\ op[s][k].pc \in Early => k = 0 /\ x.turn < scopes[s].turn
    /\ NotBegun(s, k) => op[s][k].pc = "idle"

TaskFine(id) ==
    LET x == tasks[id] IN
    /\ IsTask(x) /\ x.revision \in Nat /\ x.topics \subseteq Twice
    /\ x.repo # {} => id.affinity = x.repo
    /\ resolved[id] = [goal |-> x.goal, topics |-> x.topics, repo |-> x.repo]
JobFine(j) ==
    /\ IsJob(j) /\ j.task \in DOMAIN tasks
    /\ j.seen # None => /\ IsTask(j.seen) /\ j.seen.revision \in Nat
                        /\ j.seen.revision <= tasks[j.task].revision
                        /\ j.seen.revision = tasks[j.task].revision => j.seen = tasks[j.task]

TopicsInv == \A t \in TopicIds : TopicFine(t)
ScopesInv == /\ \A s \in Chats : ScopeFine(s, scopes[s])
             /\ \A s \in Chats : scopes[s].phase = "start" <=> op[s][0].pc # "idle"
RefreshesInv == \A s \in Chats, k \in Slots : RefreshFine(s, op[s][k])
SlotsInv == \A s \in Chats, k \in Slots : SlotFine(s, k)
TasksInv == DOMAIN tasks = DOMAIN resolved /\ \A id \in DOMAIN tasks : TaskFine(id)
StoredInv == /\ \A snap \in stored : snap.topics \subseteq Twice
             /\ \A s \in Chats : latest[s] # None => latest[s] \in stored
JobsInv == \A j \in jobs : JobFine(j)

ContextIInv == /\ Domains /\ TopicsInv /\ ScopesInv /\ RefreshesInv /\ SlotsInv /\ TasksInv
               /\ StoredInv /\ JobsInv

-----------------------------------------------------------------------------

LEMMA ContextStarts == ContextInit => ContextIInv
<1> SUFFICES ASSUME ContextInit PROVE ContextIInv  OBVIOUS
<1> USE DEF ContextInit
<1>0. 0 \notin Turns /\ Slots = {0} \cup Turns  BY ContextAssumption DEF Slots
<1>1. Domains  BY DEF Domains
<1>2. TopicsInv
  <2> SUFFICES ASSUME NEW t \in TopicIds PROVE TopicFine(t)  BY DEF TopicsInv
  <2>1. topics[t] = NoTopic /\ samples[t] = {}  OBVIOUS
  <2> QED  BY <2>1, FS_EmptySet DEF TopicFine, NoTopic
<1>3. ScopesInv
  <2> SUFFICES ASSUME NEW s \in Chats PROVE ScopeFine(s, scopes[s]) /\ (scopes[s].phase = "start" <=> op[s][0].pc # "idle")
    BY DEF ScopesInv
  <2>1. scopes[s] = Fresh /\ op[s][0] = NoRefresh  BY <1>0
  <2>2. Len(plan.asks[s]) \in Nat  BY ContextAssumption, LenProperties
  <2> QED  BY <2>1, <2>2 DEF ScopeFine, IsScope, Fresh, NoRefresh, Usable, Agrees
<1>4. RefreshesInv
  <2> SUFFICES ASSUME NEW s \in Chats, NEW k \in Slots PROVE RefreshFine(s, op[s][k])  BY DEF RefreshesInv
  <2>1. op[s][k] = NoRefresh  OBVIOUS
  <2> QED  BY <2>1 DEF RefreshFine, NoRefresh, IsRefresh
<1>5. SlotsInv
  BY DEF SlotsInv, SlotFine, NoRefresh, Early
<1> QED  BY <1>1, <1>2, <1>3, <1>4, <1>5 DEF ContextIInv, TasksInv, StoredInv, JobsInv

LEMMA ContextImplied == ContextIInv => ContextHolds
<1> SUFFICES ASSUME ContextIInv PROVE ContextHolds  OBVIOUS
<1> USE DEF ContextIInv
<1>s. ASSUME NEW s \in Chats
      PROVE  /\ scopes[s].phase \in {"idle", "start", "run"} /\ scopes[s].topics \subseteq Twice
             /\ Usable(s, scopes[s].task) /\ Agrees(scopes[s])
             /\ scopes[s].scope # None => Agrees(scopes[s].scope)
  <2>1. ScopeFine(s, scopes[s])  BY DEF ScopesInv
  <2> QED  BY <2>1 DEF ScopeFine
<1>1. ContextTypeOK
  <2>1. ASSUME NEW t \in TopicIds, topics[t].revision > 0 PROVE topics[t].count \in 1 .. Cardinality(samples[t])
    BY <2>1, FS_CardinalityType DEF TopicsInv, TopicFine
  <2>2. \A s \in Chats : scopes[s].phase = "start" <=> op[s][0].pc # "idle"  BY DEF ScopesInv
  <2>3. DOMAIN tasks = DOMAIN resolved  BY DEF TasksInv
  <2> QED  BY <1>s, <2>1, <2>2, <2>3 DEF ContextTypeOK
<1>2. TopicsAreEarned
  <2>1. \A s \in Chats : scopes[s].topics \subseteq Twice  BY <1>s
  <2>2. \A id \in DOMAIN tasks : tasks[id].topics \subseteq Twice  BY DEF TasksInv, TaskFine
  <2>3. \A snap \in stored : snap.topics \subseteq Twice  BY DEF StoredInv
  <2>4. \A t \in TopicIds : topics[t].active => t \in Twice  BY DEF TopicsInv, TopicFine
  <2>5. \A t \in Twice : Cardinality(samples[t]) >= 2  BY DEF Twice
  <2> DEFINE about == {scopes[s].topics : s \in Chats} \cup {tasks[id].topics : id \in DOMAIN tasks}
                      \cup {snap.topics : snap \in stored}
  <2>6. \A a \in about : a \subseteq Twice  BY <2>1, <2>2, <2>3
  <2> HIDE DEF about
  <2>7. \A t \in UNION about : Cardinality(samples[t]) >= 2  BY <2>5, <2>6
  <2>8. \A t \in {u \in TopicIds : topics[u].active} : Cardinality(samples[t]) >= 2  BY <2>4, <2>5
  <2>9. \A t \in (UNION about) \cup {u \in TopicIds : topics[u].active} : Cardinality(samples[t]) >= 2
    BY <2>7, <2>8
  <2> QED  BY <2>9 DEF TopicsAreEarned, about
<1>3. ResolvedIsKept  BY DEF ResolvedIsKept, TasksInv, TaskFine
<1>4. RepositoriesApart
  BY <1>s DEF RepositoriesApart, Usable, OfRepo
<1>5. OfOneRefresh  BY <1>s DEF OfOneRefresh
<1>6. LatestIsStored  BY DEF LatestIsStored, StoredInv
<1> QED  BY <1>1, <1>2, <1>3, <1>4, <1>5, <1>6 DEF ContextHolds

-----------------------------------------------------------------------------
(* What a step leaves alone *)

\* What is observed, resolved and stored stays so.
Grows == /\ \A t \in TopicIds : IsFiniteSet(samples'[t]) /\ samples[t] \subseteq samples'[t]
         /\ DOMAIN tasks \subseteq DOMAIN tasks' /\ stored \subseteq stored' /\ plan' = plan

LEMMA MoreSamples ==
    ASSUME Grows
    PROVE  /\ \A t \in TopicIds : /\ Cardinality(samples[t]) \in Nat /\ Cardinality(samples'[t]) \in Nat
                                  /\ Cardinality(samples[t]) <= Cardinality(samples'[t])
           /\ Twice \subseteq Twice'
<1>1. ASSUME NEW t \in TopicIds
      PROVE  /\ Cardinality(samples[t]) \in Nat /\ Cardinality(samples'[t]) \in Nat
             /\ Cardinality(samples[t]) <= Cardinality(samples'[t])
  <2>1. IsFiniteSet(samples'[t]) /\ samples[t] \subseteq samples'[t]  BY DEF Grows
  <2>2. IsFiniteSet(samples[t]) /\ Cardinality(samples[t]) <= Cardinality(samples'[t])  BY <2>1, FS_Subset
  <2> QED  BY <2>1, <2>2, FS_CardinalityType
<1> QED  BY <1>1 DEF Twice

LEMMA RefreshStays ==
    ASSUME Grows, NEW s, NEW o, RefreshFine(s, o)
    PROVE  RefreshFine(s, o)'
<1>1. Twice \subseteq Twice' /\ repo' = repo  BY MoreSamples DEF Grows, repo
<1>2. o.pc = "topicPut" => Cardinality(samples[o.topic]) + 1 <= Cardinality(samples'[o.topic]) + 1
  BY MoreSamples DEF RefreshFine
<1>3. ASSUME o.pc = "topicPut" PROVE o.new.count <= Cardinality(samples'[o.topic]) + 1
  BY <1>2, <1>3, MoreSamples DEF RefreshFine
<1>4. stored \subseteq stored' /\ DOMAIN tasks \subseteq DOMAIN tasks'  BY DEF Grows
<1> QED  BY <1>1, <1>3, <1>4 DEF RefreshFine, Usable, OfRepo

LEMMA ScopeStays ==
    ASSUME Grows, NEW s, NEW x, ScopeFine(s, x)
    PROVE  ScopeFine(s, x)'
<1>1. Twice \subseteq Twice' /\ repo' = repo  BY MoreSamples DEF Grows, repo
<1> QED  BY <1>1 DEF ScopeFine, Usable, OfRepo, Grows

LEMMA TopicsStay ==
    ASSUME TopicsInv, UNCHANGED <<topics, samples>>
    PROVE  TopicsInv'
BY DEF TopicsInv, TopicFine, Twice

LEMMA TasksStay ==
    ASSUME TasksInv, Grows, UNCHANGED <<tasks, resolved>>
    PROVE  TasksInv'
BY MoreSamples DEF TasksInv, TaskFine

LEMMA JobsStay ==
    ASSUME JobsInv, UNCHANGED <<tasks, jobs>>
    PROVE  JobsInv'
BY DEF JobsInv, JobFine

LEMMA StoredStay ==
    ASSUME StoredInv, Grows, UNCHANGED <<stored, latest>>
    PROVE  StoredInv'
BY MoreSamples DEF StoredInv

\* A refresh is replaced by what it goes on to.
LEMMA Goes ==
    ASSUME Domains, NEW s \in Chats, NEW k, NEW o, Goto(s, k, o)
    PROVE  /\ DOMAIN op' = Chats /\ \A c \in Chats : DOMAIN op'[c] = Slots
           /\ \A c \in Chats, n \in Slots : op'[c][n] = IF c = s /\ n = k THEN o ELSE op[c][n]
<1>1. op' = [op EXCEPT ![s][k] = o]  BY DEF Goto
<1> QED  BY <1>1 DEF Domains

LEMMA RefreshesStay ==
    ASSUME Domains, RefreshesInv, Grows, NEW s \in Chats, NEW k, NEW o, Goto(s, k, o), RefreshFine(s, o)'
    PROVE  RefreshesInv'
<1> SUFFICES ASSUME NEW c \in Chats, NEW n \in Slots PROVE RefreshFine(c, op[c][n])'
  BY DEF RefreshesInv
<1>1. op'[c][n] = IF c = s /\ n = k THEN o ELSE op[c][n]  BY Goes
<1>2. PICK old : old = op[c][n]  OBVIOUS
<1>3. RefreshFine(c, old)  BY <1>2 DEF RefreshesInv
<1>4. RefreshFine(c, old)'  BY <1>3, RefreshStays
<1>5. CASE c = s /\ n = k
  <2>1. op'[c][n] = o  BY <1>1, <1>5
  <2> QED  BY <2>1, <1>5 DEF RefreshFine, Usable, OfRepo
<1>6. CASE ~(c = s /\ n = k)
  <2>1. op'[c][n] = old  BY <1>1, <1>2, <1>6
  <2> QED  BY <2>1, <1>4 DEF RefreshFine, Usable, OfRepo
<1> QED  BY <1>5, <1>6
\* Nothing is observed, and no turn and no refresh begins.
LEMMA SlotsStay ==
    ASSUME SlotsInv, UNCHANGED samples,
           \A c \in Chats : scopes'[c].turn = scopes[c].turn /\ (scopes[c].phase = "idle" => scopes'[c].phase = "idle"),
           \A c \in Chats, n \in Slots : op'[c][n].pc \in Early => op[c][n].pc \in Early,
           \A c \in Chats, n \in Slots : op[c][n].pc = "idle" => op'[c][n].pc = "idle"
    PROVE  SlotsInv'
<1> SUFFICES ASSUME NEW c \in Chats, NEW n \in Slots PROVE SlotFine(c, n)'
  BY DEF SlotsInv
<1>1. SlotFine(c, n)  BY DEF SlotsInv
<1>2. NotBegun(c, n)' => NotBegun(c, n)  BY DEF NotBegun
<1>3. ASSUME NEW t \in TopicIds, NEW x \in samples[t], x.of = c, x.slot = n
      PROVE  /\ x.turn \in Nat /\ x.turn <= scopes'[c].turn /\ ~NotBegun(c, n)'
             /\ op'[c][n].pc \in Early => n = 0 /\ x.turn < scopes'[c].turn
  BY <1>1, <1>2, <1>3 DEF SlotFine
<1>4. NotBegun(c, n)' => op'[c][n].pc = "idle"  BY <1>1, <1>2 DEF SlotFine
<1> QED  BY <1>3, <1>4 DEF SlotFine

\* The scopes of the other sessions.
LEMMA ScopesStay ==
    ASSUME Domains, ScopesInv, Grows, NEW s \in Chats, NEW x, ScopeFine(s, x)',
           DOMAIN scopes' = Chats, \A c \in Chats : scopes'[c] = IF c = s THEN x ELSE scopes[c],
           x.phase = "start" <=> op'[s][0].pc # "idle",
           \A c \in Chats : c # s => op'[c][0] = op[c][0]
    PROVE  ScopesInv'
<1>1. ASSUME NEW c \in Chats
      PROVE  ScopeFine(c, scopes[c])' /\ (scopes'[c].phase = "start" <=> op'[c][0].pc # "idle")
  <2>1. CASE c = s
    <3>1. scopes'[c] = x  BY <2>1
    <3> QED  BY <2>1, <3>1 DEF ScopeFine, Usable, OfRepo
  <2>2. CASE c # s
    <3>1. PICK old : old = scopes[c]  OBVIOUS
    <3>2. ScopeFine(c, old)'  BY <3>1, ScopeStays DEF ScopesInv
    <3>3. scopes'[c] = old  BY <2>2, <3>1
    <3>4. ScopeFine(c, scopes[c])'  BY <3>2, <3>3 DEF ScopeFine, Usable, OfRepo
    <3> QED  BY <2>2, <3>1, <3>3, <3>4 DEF ScopesInv
  <2> QED  BY <2>1, <2>2
<1> QED  BY <1>1 DEF ScopesInv

\* A step of a refresh that changes nothing else but the cache: the refresh has begun before
\* and goes on, and does not begin to observe again.
LEMMA RefreshAdvances ==
    ASSUME ContextIInv, NEW s \in Chats, NEW k \in Slots, NEW o, Goto(s, k, o), RefreshFine(s, o),
           UNCHANGED <<plan, topics, scopes, jobs, samples, store>>,
           op[s][k].pc # "idle", o.pc # "idle", o.pc \in Early => op[s][k].pc \in Early
    PROVE  ContextIInv'
<1> USE DEF ContextIInv
<1>d. 0 \in Slots  BY DEF Slots
<1>g. Grows  BY DEF Grows, TopicsInv, TopicFine, store
<1>1. /\ DOMAIN op' = Chats /\ \A c \in Chats : DOMAIN op'[c] = Slots
      /\ \A c \in Chats, n \in Slots : op'[c][n] = IF c = s /\ n = k THEN o ELSE op[c][n]
  BY Goes
<1>2. Domains'  BY <1>1 DEF Domains, store
<1>3. RefreshesInv'
  <2>1. RefreshFine(s, o)'  BY <1>g, RefreshStays
  <2> QED  BY <2>1, <1>g, RefreshesStay
<1>4. ScopesInv'
  <2>1. PICK x : x = scopes[s]  OBVIOUS
  <2>2. ScopeFine(s, x)'  BY <1>g, <2>1, ScopeStays DEF ScopesInv
  <2>3. DOMAIN scopes' = Chats /\ \A c \in Chats : scopes'[c] = IF c = s THEN x ELSE scopes[c]
    BY <2>1 DEF Domains
  <2>4. x.phase = "start" <=> op'[s][0].pc # "idle"  BY <1>1, <1>d, <2>1 DEF ScopesInv
  <2> QED  BY <1>1, <1>d, <1>g, <2>2, <2>3, <2>4, ScopesStay
<1>5. SlotsInv'  BY <1>1, SlotsStay
<1>6. TopicsInv'  BY TopicsStay
<1>7. TasksInv' /\ StoredInv' /\ JobsInv'
  BY <1>g, TasksStay, StoredStay, JobsStay DEF store
<1> QED  BY <1>2, <1>3, <1>4, <1>5, <1>6, <1>7

-----------------------------------------------------------------------------
(* The steps of a refresh *)

LEMMA AtShape ==
    ASSUME NEW o, NEW pc
    PROVE  /\ IsRefresh(At(o, pc)) /\ At(o, pc).pc = pc /\ At(o, pc).goal = o.goal /\ At(o, pc).gen = o.gen
           /\ At(o, pc).topics = {}
BY DEF At, NoRefresh, IsRefresh

LEMMA ChoicesFine ==
    ASSUME NEW s, NEW o, o.goal \in Prompts \ {{}}, NEW terms, NEW c \in Choices(o, terms)
    PROVE  RefreshFine(s, c) /\ c.pc \in {"create", "topicGet"}
<1>1. CASE c = At(o, "create")
  <2>1. /\ IsRefresh(c) /\ c.pc = "create" /\ c.goal = o.goal /\ c.topics = {}
    BY <1>1, AtShape DEF IsRefresh
  <2> QED  BY <2>1 DEF RefreshFine, Early
<1>2. ASSUME NEW t \in TopicIds, NEW alike, c = [At(o, "topicGet") EXCEPT !.topic = t, !.alike = alike]
      PROVE  RefreshFine(s, c) /\ c.pc = "topicGet"
  <2>1. /\ IsRefresh(c) /\ c.pc = "topicGet" /\ c.goal = o.goal /\ c.topics = {} /\ c.topic = t
    BY <1>2, AtShape DEF IsRefresh
  <2> QED  BY <2>1 DEF RefreshFine, Early
<1>3. c = At(o, "create") \/ \E t \in TopicIds : \E alike :
         c = [At(o, "topicGet") EXCEPT !.topic = t, !.alike = alike]
  BY DEF Choices, Known
<1> QED  BY <1>1, <1>2, <1>3

LEMMA BeginsFine ==
    ASSUME NEW s, NEW o, o.goal \in Prompts \ {{}}, NEW c \in Begins(o)
    PROVE  RefreshFine(s, c) /\ c.pc \in Early
<1>1. ASSUME NEW pc \in {"named", "list"}, c = At(o, pc) PROVE RefreshFine(s, c) /\ c.pc \in Early
  <2>1. /\ IsRefresh(c) /\ c.pc = pc /\ c.goal = o.goal /\ c.topics = {}
    BY <1>1, AtShape DEF IsRefresh
  <2> QED  BY <2>1 DEF RefreshFine, Early
<1>2. ASSUME c \in Choices(o, cache) PROVE RefreshFine(s, c) /\ c.pc \in Early
  BY <1>2, ChoicesFine DEF Early
<1> QED  BY <1>1, <1>2 DEF Begins

\* What a refresh resolves next, about topics that are earned.
LEMMA ResolveFine ==
    ASSUME NEW s, NEW k, NEW about, Resolve(s, k, about)
    PROVE  \E o : /\ Goto(s, k, o) /\ IsRefresh(o) /\ o.pc = "taskGet" /\ o.goal = op[s][k].goal
                  /\ o.topics = about /\ o.current = scopes[s].task
<1>1. PICK old : old = op[s][k]  OBVIOUS
<1>2. PICK task : task = scopes[s].task  OBVIOUS
<1> DEFINE o == [At(old, "taskGet") EXCEPT !.topics = about, !.current = task]
<1>3. /\ IsRefresh(o) /\ o.pc = "taskGet" /\ o.goal = old.goal /\ o.topics = about /\ o.current = task
  BY AtShape DEF IsRefresh
<1>4. Goto(s, k, o)  BY <1>1, <1>2 DEF Resolve
<1> QED  BY <1>1, <1>2, <1>3, <1>4

LEMMA ObservesFine ==
    ASSUME ContextIInv, NEW s \in Chats, NEW k \in Slots,
           List(s, k) \/ Fill(s, k) \/ TopicGet(s, k) \/ Named(s, k) \/ SettledRefresh(s, k)
    PROVE  \E o : /\ Goto(s, k, o) /\ RefreshFine(s, o) /\ o.pc \in Early
                  /\ UNCHANGED <<plan, topics, scopes, jobs, samples, store>> /\ op[s][k].pc \in Early
<1>1. PICK old : old = op[s][k]  OBVIOUS
<1>2. RefreshFine(s, old)  BY <1>1 DEF ContextIInv, RefreshesInv
<1>3. old.pc \in Early => old.goal \in Prompts \ {{}}  BY <1>2 DEF RefreshFine, Early
<1>4. CASE List(s, k)
  <2> DEFINE o == [At(old, "fill") EXCEPT !.terms = Terms]
  <2>1. old.pc = "list" /\ Goto(s, k, o)  BY <1>1, <1>4 DEF List
  <2>2. IsRefresh(o) /\ o.pc = "fill" /\ o.goal = old.goal /\ o.topics = {}
    BY AtShape DEF IsRefresh
  <2>3. RefreshFine(s, o) /\ o.pc \in Early
    <3> HIDE DEF o
    <3> QED  BY <1>3, <2>1, <2>2 DEF RefreshFine, Early
  <2> QED  BY <1>1, <1>4, <2>1, <2>3 DEF List, bounds, Early
<1>5. CASE Fill(s, k)
  <2>1. old.pc \in Early  BY <1>1, <1>5 DEF Fill, Early
  <2>2. PICK o \in Choices(old, old.terms) : Goto(s, k, o)  BY <1>1, <1>5 DEF Fill
  <2>3. RefreshFine(s, o) /\ o.pc \in Early  BY <1>3, <2>1, ChoicesFine DEF Early
  <2> QED  BY <1>1, <1>5, <2>1, <2>2, <2>3 DEF Fill, bounds
<1>6. CASE TopicGet(s, k)
  <2>0. old.pc = "topicGet" /\ old.topic \in TopicIds  BY <1>1, <1>2, <1>6 DEF TopicGet, RefreshFine
  <2>p. PICK was : was = topics[old.topic]  OBVIOUS
  <2>n. PICK new : new = [words |-> was.words \cup old.goal, count |-> was.count + 1,
                          active |-> Earned(was, was.count + 1, old.alike)]
    OBVIOUS
  <2> DEFINE o == [At(old, "topicPut") EXCEPT !.topic = old.topic, !.seen = {was.revision}, !.new = new]
  <2>1. Goto(s, k, o)  BY <1>1, <1>6, <2>p, <2>n DEF TopicGet
  <2>2. /\ IsRefresh(o) /\ o.pc = "topicPut" /\ o.goal = old.goal /\ o.topics = {} /\ o.topic = old.topic
        /\ o.new = new
    BY AtShape DEF IsRefresh
  <2>3. /\ new.count = was.count + 1 /\ (new.active => was.active \/ was.count + 1 >= 2)
    BY <2>n DEF Earned
  <2>4. /\ was.count \in Nat /\ Cardinality(samples[old.topic]) \in Nat
        /\ was.count <= Cardinality(samples[old.topic]) /\ (was.active => old.topic \in Twice)
    BY <2>0, <2>p, FS_CardinalityType DEF ContextIInv, TopicsInv, TopicFine
  <2>5. RefreshFine(s, o) /\ o.pc \in Early
    <3> HIDE DEF o
    <3>1. o.new.count \in Nat \ {0} /\ o.new.count <= Cardinality(samples[o.topic]) + 1
      BY <2>2, <2>3, <2>4
    <3>2. o.new.active => o.new.count >= 2 \/ o.topic \in Twice  BY <2>2, <2>3, <2>4
    <3> QED  BY <1>3, <2>0, <2>2, <3>1, <3>2 DEF RefreshFine, Early
  <2> QED  BY <1>1, <1>6, <2>0, <2>1, <2>5 DEF TopicGet, bounds, Early
<1>7. CASE Named(s, k)
  <2>0. old.pc = "named" /\ old.goal \in Prompts \ {{}}  BY <1>1, <1>3, <1>7 DEF Named, Early
  <2>p. PICK t : t = <<"named", old.goal>>  OBVIOUS
  <2>n. PICK new : new = [words |-> old.goal, count |-> topics[t].count + 1, active |-> topics[t].count + 1 >= 2]
    OBVIOUS
  <2> DEFINE o == [At(old, "topicPut") EXCEPT !.topic = t, !.new = new]
  <2>t. t \in TopicIds  BY <2>0, <2>p DEF TopicIds
  <2>1. Goto(s, k, o)  BY <1>1, <1>7, <2>p, <2>n DEF Named
  <2>2. /\ IsRefresh(o) /\ o.pc = "topicPut" /\ o.goal = old.goal /\ o.topics = {} /\ o.topic = t
        /\ o.new = new
    BY AtShape DEF IsRefresh
  <2>3. /\ topics[t].count \in Nat /\ Cardinality(samples[t]) \in Nat /\ topics[t].count <= Cardinality(samples[t])
    BY <2>t, FS_CardinalityType DEF ContextIInv, TopicsInv, TopicFine
  <2>4. new.count = topics[t].count + 1 /\ (new.active => topics[t].count + 1 >= 2)  BY <2>n
  <2>5. RefreshFine(s, o) /\ o.pc \in Early
    <3> HIDE DEF o
    <3>1. o.new.count \in Nat \ {0} /\ o.new.count <= Cardinality(samples[o.topic]) + 1
      BY <2>2, <2>3, <2>4
    <3>2. o.new.active => o.new.count >= 2  BY <2>2, <2>4
    <3> QED  BY <2>0, <2>t, <2>2, <3>1, <3>2 DEF RefreshFine, Early
  <2> QED  BY <1>1, <1>7, <2>0, <2>1, <2>5 DEF Named, bounds, Early
<1>8. CASE SettledRefresh(s, k)
  <2>1. old.pc \in Early  BY <1>1, <1>8 DEF SettledRefresh, Early
  <2> DEFINE asked == [goal |-> old.goal, gen |-> scopes[s].gen]
  <2>2. PICK o \in Begins(asked) : Goto(s, k, o)  BY <1>1, <1>8 DEF SettledRefresh
  <2>3. asked.goal \in Prompts \ {{}}  BY <1>3, <2>1
  <2>4. RefreshFine(s, o) /\ o.pc \in Early
    <3> HIDE DEF asked
    <3> QED  BY <2>3, BeginsFine
  <2> QED  BY <1>1, <1>8, <2>1, <2>2, <2>4 DEF SettledRefresh, bounds
<1> QED  BY <1>4, <1>5, <1>6, <1>7, <1>8

LEMMA TaskForFine ==
    ASSUME NEW s, NEW k, RefreshFine(s, op[s][k]), op[s][k].pc # "idle", NEW id, OfRepo(s, id)
    PROVE  RefreshFine(s, TaskFor(s, k, id)) /\ TaskFor(s, k, id).pc = "taskPut"
<1>1. PICK old : old = op[s][k]  OBVIOUS
<1>2. PICK o : o = TaskFor(s, k, id)  OBVIOUS
<1>3. o = [At(old, "taskPut") EXCEPT !.topics = old.topics, !.task = id]  BY <1>1, <1>2 DEF TaskFor
<1>4. IsRefresh(o) /\ o.pc = "taskPut" /\ o.goal = old.goal /\ o.topics = old.topics /\ o.task = id
  BY <1>3, AtShape DEF IsRefresh
<1>5. old.goal \in Prompts \ {{}} /\ old.topics \subseteq Twice  BY <1>1 DEF RefreshFine
<1>6. RefreshFine(s, o)  BY <1>4, <1>5 DEF RefreshFine, Early, Late
<1> QED  BY <1>2, <1>4, <1>6

LEMMA FurtherFine ==
    ASSUME NEW s, NEW k, RefreshFine(s, op[s][k]), op[s][k].pc # "idle", NEW pc \in {"currentGet", "taskList"},
           pc = "currentGet" => Usable(s, op[s][k].current) /\ op[s][k].current # None
    PROVE  RefreshFine(s, Further(s, k, pc)) /\ Further(s, k, pc).pc = pc
<1>1. PICK old : old = op[s][k]  OBVIOUS
<1>2. PICK o : o = Further(s, k, pc)  OBVIOUS
<1>3. o = [old EXCEPT !.pc = pc]  BY <1>1, <1>2 DEF Further
<1>4. /\ IsRefresh(o) /\ o.pc = pc /\ o.goal = old.goal /\ o.topics = old.topics
      /\ o.current = old.current
  BY <1>1, <1>3 DEF RefreshFine, IsRefresh
<1>5. old.goal \in Prompts \ {{}} /\ old.topics \subseteq Twice  BY <1>1 DEF RefreshFine
<1>6. pc = "currentGet" => Usable(s, o.current) /\ o.current # None  BY <1>1, <1>4
<1>7. RefreshFine(s, o)  BY <1>4, <1>5, <1>6 DEF RefreshFine, Early, Late
<1> QED  BY <1>2, <1>4, <1>7

LEMMA LooksFine ==
    ASSUME ContextIInv, NEW s \in Chats, NEW k \in Slots, TaskGet(s, k) \/ CurrentGet(s, k) \/ TaskList(s, k)
    PROVE  \E o : /\ Goto(s, k, o) /\ RefreshFine(s, o) /\ o.pc \in Late
                  /\ UNCHANGED <<plan, topics, scopes, jobs, samples, store>> /\ op[s][k].pc \in Late
<1>1. RefreshFine(s, op[s][k])  BY DEF ContextIInv, RefreshesInv
<1>2. op[s][k].pc \in {"taskGet", "currentGet", "taskList"}  BY DEF TaskGet, CurrentGet, TaskList
<1>3. UNCHANGED <<plan, topics, scopes, jobs, samples, store>>  BY DEF TaskGet, CurrentGet, TaskList, bounds
<1>4. op[s][k].pc \in {"taskGet", "currentGet"} => Usable(s, op[s][k].current)  BY <1>1 DEF RefreshFine
<1> DEFINE own == TaskId(s, op[s][k].goal, op[s][k].topics)
<1>5. OfRepo(s, own)  BY DEF TaskId, OfRepo
<1>6. ASSUME NEW id, OfRepo(s, id), Goto(s, k, TaskFor(s, k, id))
      PROVE  \E o : Goto(s, k, o) /\ RefreshFine(s, o) /\ o.pc \in Late
  BY <1>1, <1>2, <1>6, TaskForFine DEF Late
<1>7. ASSUME NEW pc \in {"currentGet", "taskList"}, Goto(s, k, Further(s, k, pc)),
             pc = "currentGet" => Usable(s, op[s][k].current) /\ op[s][k].current # None
      PROVE  \E o : Goto(s, k, o) /\ RefreshFine(s, o) /\ o.pc \in Late
  BY <1>1, <1>2, <1>7, FurtherFine DEF Late
<1>8. CASE TaskGet(s, k)
  <2>1. op[s][k].pc = "taskGet"  BY <1>8 DEF TaskGet
  <2>2. CASE own \in DOMAIN tasks
    <3>1. Goto(s, k, TaskFor(s, k, own))  BY <1>8, <2>2 DEF TaskGet
    <3> QED  BY <1>2, <1>3, <1>5, <1>6, <3>1 DEF Late
  <2>3. CASE own \notin DOMAIN tasks
    <3>1. Goto(s, k, Further(s, k, IF op[s][k].current # None THEN "currentGet" ELSE "taskList"))
      BY <1>8, <2>3 DEF TaskGet
    <3>2. CASE op[s][k].current # None
      <4>1. Goto(s, k, Further(s, k, "currentGet"))  BY <3>1, <3>2
      <4> QED  BY <1>2, <1>3, <1>4, <1>7, <2>1, <3>2, <4>1 DEF Late
    <3>3. CASE op[s][k].current = None
      <4>1. Goto(s, k, Further(s, k, "taskList"))  BY <3>1, <3>3
      <4> QED  BY <1>2, <1>3, <1>7, <4>1 DEF Late
    <3> QED  BY <3>2, <3>3
  <2> QED  BY <2>2, <2>3
<1>9. CASE CurrentGet(s, k)
  <2>1. op[s][k].pc = "currentGet" /\ op[s][k].current # None  BY <1>1, <1>9 DEF CurrentGet, RefreshFine
  <2>2. OfRepo(s, op[s][k].current)  BY <1>4, <2>1 DEF Usable
  <2>3. Goto(s, k, TaskFor(s, k, op[s][k].current)) \/ Goto(s, k, Further(s, k, "taskList"))
    BY <1>9 DEF CurrentGet
  <2>4. CASE Goto(s, k, TaskFor(s, k, op[s][k].current))
    BY <1>2, <1>3, <1>6, <2>2, <2>4 DEF Late
  <2>5. CASE Goto(s, k, Further(s, k, "taskList"))
    BY <1>2, <1>3, <1>7, <2>5 DEF Late
  <2> QED  BY <2>3, <2>4, <2>5
<1>10. CASE TaskList(s, k)
  <2>1. PICK id : Goto(s, k, TaskFor(s, k, id)) /\ (id = own \/ (id \in DOMAIN tasks /\ OfRepository(s, tasks[id])))
    BY <1>10 DEF TaskList
  <2>2. ASSUME id \in DOMAIN tasks, OfRepository(s, tasks[id]) PROVE OfRepo(s, id)
    BY <2>2 DEF OfRepository, OfRepo, ContextIInv, TasksInv, TaskFine
  <2> QED  BY <1>2, <1>3, <1>5, <1>6, <2>1, <2>2 DEF Late
<1> QED  BY <1>8, <1>9, <1>10

LEMMA ResolvesOn ==
    ASSUME ContextIInv, NEW s \in Chats, NEW k \in Slots, op[s][k].pc \in Early, Resolve(s, k, {})
    PROVE  \E o : Goto(s, k, o) /\ RefreshFine(s, o) /\ o.pc \in Late
<1>1. RefreshFine(s, op[s][k])  BY DEF ContextIInv, RefreshesInv
<1>2. op[s][k].goal \in Prompts \ {{}}  BY <1>1 DEF RefreshFine, Early
<1>3. Usable(s, scopes[s].task)
  <2>1. ScopeFine(s, scopes[s])  BY DEF ContextIInv, ScopesInv
  <2> QED  BY <2>1 DEF ScopeFine
<1>4. PICK o : /\ Goto(s, k, o) /\ IsRefresh(o) /\ o.pc = "taskGet" /\ o.goal = op[s][k].goal
               /\ o.topics = {} /\ o.current = scopes[s].task
  BY ResolveFine
<1>5. RefreshFine(s, o)  BY <1>2, <1>3, <1>4 DEF RefreshFine, Early, Late
<1> QED  BY <1>4, <1>5 DEF Late

\* A topic that a refresh writes is one that it has not written yet.
LEMMA WriteTopicKeeps ==
    ASSUME ContextIInv, NEW s \in Chats, NEW k \in Slots, op[s][k].pc \in Early, NEW t \in TopicIds, NEW new,
           new.count \in Nat \ {0}, new.count <= Cardinality(samples[t]) + 1,
           new.active => new.count >= 2 \/ t \in Twice,
           WriteTopic(s, k, t, new), UNCHANGED <<scopes, jobs, store, bounds>>
    PROVE  ContextIInv'
<1> USE DEF ContextIInv
<1>d. 0 \in Slots /\ Slots \subseteq Nat  BY ContextAssumption DEF Slots
<1>1. PICK x : x = [of |-> s, turn |-> scopes[s].turn, slot |-> k]  OBVIOUS
<1>2. /\ DOMAIN samples' = TopicIds /\ samples'[t] = samples[t] \cup {x}
      /\ \A u \in TopicIds : u # t => samples'[u] = samples[u]
  BY <1>1 DEF WriteTopic, Domains
<1>3. /\ DOMAIN topics' = TopicIds /\ topics'[t].count = new.count /\ topics'[t].active = new.active
      /\ topics'[t].revision = topics[t].revision + 1
      /\ \A u \in TopicIds : u # t => topics'[u] = topics[u]
  BY DEF WriteTopic, Domains
<1>4. x.of = s /\ x.slot = k /\ x.turn = scopes[s].turn  BY <1>1
<1>5. scopes[s].turn \in Nat
  <2>1. ScopeFine(s, scopes[s])  BY DEF ScopesInv
  <2>2. Len(plan.asks[s]) \in Nat  BY ContextAssumption, LenProperties DEF Domains
  <2> QED  BY <2>1, <2>2 DEF ScopeFine
<1>6. x \notin samples[t]
  <2>1. SlotFine(s, k)  BY DEF SlotsInv
  <2>2. x \in samples[t] => x.turn < scopes[s].turn  BY <1>4, <2>1 DEF SlotFine
  <2> QED  BY <1>4, <1>5, <2>2
<1>7. /\ IsFiniteSet(samples[t]) /\ IsFiniteSet(samples'[t]) /\ Cardinality(samples[t]) \in Nat
      /\ Cardinality(samples'[t]) = Cardinality(samples[t]) + 1
  BY <1>2, <1>6, FS_AddElement, FS_CardinalityType DEF TopicsInv, TopicFine
<1>g. Grows  BY <1>2, <1>7 DEF Grows, TopicsInv, TopicFine, store, bounds
<1>t. Twice \subseteq Twice'  BY <1>g, MoreSamples
<1>8. TopicsInv'
  <2>1. TopicFine(t)'
    <3>1. topics'[t].active => t \in Twice'
      <4>1. new.count >= 2 => Cardinality(samples'[t]) >= 2  BY <1>7
      <4> QED  BY <1>3, <1>t, <4>1 DEF Twice
    <3>2. topics[t].revision \in Nat  BY DEF TopicsInv, TopicFine
    <3> QED  BY <1>3, <1>7, <3>1, <3>2 DEF TopicFine
  <2>2. ASSUME NEW u \in TopicIds, u # t PROVE TopicFine(u)'
    <3>1. TopicFine(u) /\ topics'[u] = topics[u] /\ samples'[u] = samples[u]
      BY <1>2, <1>3, <2>2 DEF TopicsInv
    <3> QED  BY <3>1, <1>t DEF TopicFine
  <2> QED  BY <2>1, <2>2 DEF TopicsInv
<1> DEFINE about == IF new.active THEN {t} ELSE {}
<1>9. PICK o : /\ Goto(s, k, o) /\ IsRefresh(o) /\ o.pc = "taskGet" /\ o.goal = op[s][k].goal
               /\ o.topics = about /\ o.current = scopes[s].task
  BY ResolveFine DEF WriteTopic
<1>10. RefreshFine(s, o)'
  <2>1. about \subseteq Twice'
    <3>1. new.active => t \in Twice'  BY <1>t, <1>7 DEF Twice
    <3> QED  BY <3>1
  <2>2. op[s][k].goal \in Prompts \ {{}}
    <3>1. RefreshFine(s, op[s][k])  BY DEF RefreshesInv
    <3> QED  BY <3>1 DEF RefreshFine, Early
  <2>3. Usable(s, o.current)'
    <3>1. ScopeFine(s, scopes[s])  BY DEF ScopesInv
    <3>2. tasks' = tasks /\ repo' = repo  BY DEF store, bounds, repo
    <3> QED  BY <1>9, <3>1, <3>2 DEF ScopeFine, Usable, OfRepo
  <2> HIDE DEF about
  <2> QED  BY <1>9, <2>1, <2>2, <2>3 DEF RefreshFine, Early, Late
<1>11. RefreshesInv'  BY <1>g, <1>9, <1>10, RefreshesStay
<1>12. /\ DOMAIN op' = Chats /\ \A c \in Chats : DOMAIN op'[c] = Slots
       /\ \A c \in Chats, n \in Slots : op'[c][n] = IF c = s /\ n = k THEN o ELSE op[c][n]
  BY <1>9, Goes
<1>13. Domains'  BY <1>2, <1>3, <1>12 DEF Domains, store, bounds
<1>14. ScopesInv'
  <2>1. PICK y : y = scopes[s]  OBVIOUS
  <2>2. ScopeFine(s, y)'  BY <1>g, <2>1, ScopeStays DEF ScopesInv
  <2>3. DOMAIN scopes' = Chats /\ \A c \in Chats : scopes'[c] = IF c = s THEN y ELSE scopes[c]
    BY <2>1 DEF Domains
  <2>4. y.phase = "start" <=> op'[s][0].pc # "idle"  BY <1>d, <1>9, <1>12, <2>1 DEF ScopesInv, Early
  <2> QED  BY <1>12, <1>d, <1>g, <2>2, <2>3, <2>4, ScopesStay
<1>15. SlotsInv'
  <2> SUFFICES ASSUME NEW c \in Chats, NEW n \in Slots PROVE SlotFine(c, n)'  BY DEF SlotsInv
  <2>1. SlotFine(c, n) /\ SlotFine(s, k)  BY DEF SlotsInv
  <2>2. NotBegun(c, n)' <=> NotBegun(c, n)  BY DEF NotBegun
  <2>3. op'[c][n].pc \in Early => op[c][n].pc \in Early /\ ~(c = s /\ n = k)  BY <1>9, <1>12 DEF Early
  <2>4. ~NotBegun(s, k)  BY <2>1 DEF SlotFine, Early
  <2>5. ASSUME NEW u \in TopicIds, NEW y \in samples'[u], y.of = c, y.slot = n
        PROVE  /\ y.turn \in Nat /\ y.turn <= scopes[c].turn /\ ~NotBegun(c, n)
               /\ op'[c][n].pc \in Early => n = 0 /\ y.turn < scopes[c].turn
    <3>1. CASE y \in samples[u]  BY <2>1, <2>3, <2>5, <3>1 DEF SlotFine
    <3>2. CASE y \notin samples[u]
      <4>1. y = x  BY <1>2, <3>2
      <4> QED  BY <1>4, <1>5, <2>3, <2>4, <2>5, <4>1
    <3> QED  BY <3>1, <3>2
  <2>6. NotBegun(c, n) => op'[c][n].pc = "idle"  BY <1>12, <2>1, <2>4 DEF SlotFine
  <2>7. scopes' = scopes  OBVIOUS
  <2> QED  BY <2>2, <2>5, <2>6, <2>7 DEF SlotFine
<1>16. TasksInv' /\ StoredInv' /\ JobsInv'
  BY <1>g, TasksStay, StoredStay, JobsStay DEF store
<1> QED  BY <1>8, <1>11, <1>13, <1>14, <1>15, <1>16

LEMMA TopicKeeps ==
    ASSUME ContextIInv, NEW s \in Chats, NEW k \in Slots, TopicPut(s, k) \/ Create(s, k)
    PROVE  ContextIInv'
<1>0. RefreshFine(s, op[s][k])  BY DEF ContextIInv, RefreshesInv
<1>1. PICK old : old = op[s][k]  OBVIOUS
<1>2. CASE TopicPut(s, k) /\ old.seen # {} /\ old.seen # {topics[old.topic].revision}
  <2>1. op[s][k].pc \in Early /\ op[s][k].pc # "idle"  BY <1>2 DEF TopicPut, Early
  <2>2. Resolve(s, k, {})  BY <1>1, <1>2 DEF TopicPut
  <2>3. UNCHANGED <<plan, topics, scopes, jobs, samples, store>>  BY <1>1, <1>2 DEF TopicPut, bounds
  <2>4. PICK o : Goto(s, k, o) /\ RefreshFine(s, o) /\ o.pc \in Late  BY <2>1, <2>2, ResolvesOn
  <2> QED  BY <2>1, <2>3, <2>4, RefreshAdvances DEF Early, Late
<1>3. CASE TopicPut(s, k) /\ ~(old.seen # {} /\ old.seen # {topics[old.topic].revision})
  <2>1. op[s][k].pc = "topicPut" /\ op[s][k].pc \in Early  BY <1>3 DEF TopicPut, Early
  <2>2. WriteTopic(s, k, old.topic, old.new)  BY <1>1, <1>3 DEF TopicPut
  <2>3. UNCHANGED <<scopes, jobs, store, bounds>>  BY <1>3 DEF TopicPut
  <2>4. /\ old.topic \in TopicIds /\ old.new.count \in Nat \ {0}
        /\ old.new.count <= Cardinality(samples[old.topic]) + 1
        /\ old.new.active => old.new.count >= 2 \/ old.topic \in Twice
    BY <1>0, <1>1, <2>1 DEF RefreshFine
  <2> QED  BY <2>1, <2>2, <2>3, <2>4, WriteTopicKeeps
<1>4. CASE Create(s, k)
  <2>1. op[s][k].pc = "create" /\ op[s][k].pc \in Early  BY <1>4 DEF Create, Early
  <2>2. PICK t : t = <<"inferred", old.goal>>  OBVIOUS
  <2>3. PICK new : new = [words |-> old.goal, count |-> 1, active |-> FALSE]  OBVIOUS
  <2>4. old.goal \in Prompts \ {{}}  BY <1>0, <1>1, <2>1 DEF RefreshFine
  <2>5. t \in TopicIds  BY <2>2, <2>4 DEF TopicIds
  <2>6. WriteTopic(s, k, t, new) /\ UNCHANGED <<scopes, jobs, store, bounds>>
    BY <1>1, <1>4, <2>2, <2>3 DEF Create
  <2>7. Cardinality(samples[t]) \in Nat  BY <2>5, FS_CardinalityType DEF ContextIInv, TopicsInv, TopicFine
  <2>8. new.count \in Nat \ {0} /\ new.count <= Cardinality(samples[t]) + 1 /\ ~new.active  BY <2>3, <2>7
  <2> QED  BY <2>1, <2>5, <2>6, <2>8, WriteTopicKeeps
<1> QED  BY <1>2, <1>3, <1>4

ScopeBecomes(s, x) == DOMAIN scopes' = Chats /\ \A c \in Chats : scopes'[c] = IF c = s THEN x ELSE scopes[c]
LEMMA ScopeChanges ==
    ASSUME Domains, NEW s \in Chats, NEW x, scopes' = [scopes EXCEPT ![s] = x]
    PROVE  ScopeBecomes(s, x)
BY DEF Domains, ScopeBecomes

\* A step of a session and of one of its refreshes that neither observes nor begins.
LEMMA SessionSteps ==
    ASSUME ContextIInv, Grows, NEW s \in Chats, NEW k \in Slots, NEW o, Goto(s, k, o), RefreshFine(s, o)',
           NEW x, ScopeFine(s, x)', ScopeBecomes(s, x), x.turn = scopes[s].turn,
           scopes[s].phase = "idle" => x.phase = "idle",
           x.phase = "start" <=> (IF k = 0 THEN o ELSE op[s][0]).pc # "idle",
           o.pc \in Early => op[s][k].pc \in Early, op[s][k].pc = "idle" => o.pc = "idle",
           UNCHANGED <<topics, samples>>, DOMAIN latest' = Chats
    PROVE  Domains' /\ TopicsInv' /\ ScopesInv' /\ RefreshesInv' /\ SlotsInv'
<1> USE DEF ContextIInv
<1>d. 0 \in Slots  BY DEF Slots
<1>1. /\ DOMAIN op' = Chats /\ \A c \in Chats : DOMAIN op'[c] = Slots
      /\ \A c \in Chats, n \in Slots : op'[c][n] = IF c = s /\ n = k THEN o ELSE op[c][n]
  BY Goes
<1>2. DOMAIN scopes' = Chats /\ \A c \in Chats : scopes'[c] = IF c = s THEN x ELSE scopes[c]
  BY DEF ScopeBecomes
<1>3. Domains'  BY <1>1, <1>2 DEF Domains, Grows
<1>4. RefreshesInv'  BY RefreshesStay
<1>5. ScopesInv'
  <2>1. x.phase = "start" <=> op'[s][0].pc # "idle"  BY <1>1, <1>d
  <2>2. \A c \in Chats : c # s => op'[c][0] = op[c][0]  BY <1>1, <1>d
  <2> QED  BY <1>2, <2>1, <2>2, ScopesStay
<1>6. SlotsInv'
  <2>1. \A c \in Chats : /\ scopes'[c].turn = scopes[c].turn
                         /\ scopes[c].phase = "idle" => scopes'[c].phase = "idle"
    BY <1>2
  <2> QED  BY <1>1, <2>1, SlotsStay
<1> QED  BY <1>3, <1>4, <1>5, <1>6, TopicsStay

LEMMA TurnStartedFine ==
    ASSUME NEW s, NEW x, ScopeFine(s, x)', NEW k, k = 0 => x.turn >= 1, NEW born, NEW y, y = TurnStarted(x, k, born)
    PROVE  /\ ScopeFine(s, y)' /\ y.turn = x.turn /\ y.phase = (IF k = 0 THEN "run" ELSE x.phase)
<1>1. CASE k # 0  BY <1>1 DEF TurnStarted, ScopeFine, Usable, OfRepo
<1>2. CASE k = 0
  <2>1. PICK z : z = IF born = x.gen THEN Scope(x) ELSE None  OBVIOUS
  <2>2. y = [x EXCEPT !.phase = "run", !.scope = z]  BY <1>2, <2>1 DEF TurnStarted
  <2>3. IsScope(x)  BY DEF ScopeFine
  <2>4. /\ IsScope(y) /\ y.phase = "run" /\ y.scope = z /\ y.turn = x.turn /\ y.topics = x.topics
        /\ y.task = x.task /\ y.snap = x.snap
    BY <2>2, <2>3 DEF IsScope
  <2>5. z # None => z.task = x.task /\ z.topics = x.topics /\ z.snap = x.snap  BY <2>1 DEF Scope
  <2>6. Agrees(x) /\ (x.task # None => x.task \in DOMAIN tasks')  BY DEF ScopeFine, Usable
  <2>7. z # None => Agrees(z) /\ (z.task # None => z.task \in DOMAIN tasks')  BY <2>5, <2>6 DEF Agrees
  <2>8. Agrees(y)  BY <2>4, <2>6 DEF Agrees
  <2> QED  BY <1>2, <2>4, <2>7, <2>8 DEF ScopeFine, Usable, OfRepo
<1> QED  BY <1>1, <1>2

LEMMA IdleFine == ASSUME NEW s PROVE RefreshFine(s, NoRefresh)' /\ NoRefresh.pc = "idle"
BY DEF RefreshFine, IsRefresh, NoRefresh

LEMMA EndKeeps ==
    ASSUME ContextIInv, Grows, NEW s \in Chats, NEW k \in Slots, op[s][k].pc # "idle", End(s, k),
           UNCHANGED <<topics, samples>>, DOMAIN latest' = Chats
    PROVE  Domains' /\ TopicsInv' /\ ScopesInv' /\ RefreshesInv' /\ SlotsInv'
<1>1. PICK x : x = scopes[s]  OBVIOUS
<1>2. PICK born : born = op[s][k].gen  OBVIOUS
<1>3. PICK y : y = TurnStarted(x, k, born)  OBVIOUS
<1>4. ScopeFine(s, x) /\ (x.phase = "start" <=> op[s][0].pc # "idle")
  BY <1>1 DEF ContextIInv, ScopesInv
<1>5. ScopeFine(s, x)'  BY <1>4, ScopeStays
<1>6. k = 0 => x.phase = "start" /\ x.turn >= 1  BY <1>4 DEF ScopeFine
<1>7. ScopeFine(s, y)' /\ y.turn = x.turn /\ y.phase = (IF k = 0 THEN "run" ELSE x.phase)
  BY <1>3, <1>5, <1>6, TurnStartedFine
<1>8. ScopeBecomes(s, y) /\ Goto(s, k, NoRefresh)
  BY <1>1, <1>2, <1>3, ScopeChanges DEF End, ContextIInv
<1>9. PICK o : o = NoRefresh  OBVIOUS
<1>10. RefreshFine(s, o)' /\ o.pc = "idle" /\ Goto(s, k, o)
  BY <1>8, <1>9, IdleFine DEF RefreshFine, Usable, OfRepo
<1> QED  BY <1>1, <1>4, <1>6, <1>7, <1>8, <1>10, SessionSteps DEF Early

\* The scope that a snapshot is assigned to agrees with it.
LEMMA AssignedFine ==
    ASSUME ContextIInv, Grows, NEW s \in Chats, NEW o, o.topics \subseteq Twice, o.gen = scopes[s].gen,
           NEW task, task # None => task \in DOMAIN tasks' /\ OfRepo(s, task),
           NEW snap, snap = Snapshot(s, o, task), NEW y, y = Assigned(s, snap)
    PROVE  /\ ScopeFine(s, y)' /\ y.turn = scopes[s].turn /\ y.phase = scopes[s].phase
           /\ snap.topics = o.topics
<1>1. PICK x : x = scopes[s]  OBVIOUS
<1>2. ScopeFine(s, x)'  BY <1>1, ScopeStays DEF ContextIInv, ScopesInv
<1>3. /\ snap.task = task /\ snap.topics = o.topics /\ snap.gen = x.gen /\ snap.asked = o.gen
  BY <1>1 DEF Snapshot
<1>4. PICK t : t = IF task = None THEN x.task ELSE task  OBVIOUS
<1>5. y = [x EXCEPT !.topics = snap.topics, !.task = t, !.revision = snap.revision, !.snap = snap]
  BY <1>1, <1>3, <1>4 DEF Assigned
<1>6. /\ IsScope(y) /\ y.turn = x.turn /\ y.phase = x.phase /\ y.scope = x.scope /\ y.topics = o.topics
      /\ y.task = t /\ y.snap = snap
  BY <1>2, <1>3, <1>5 DEF ScopeFine, IsScope
<1>7. Agrees(y)  BY <1>1, <1>3, <1>4, <1>6 DEF Agrees
<1>8. repo' = repo  BY DEF Grows, repo
<1>9. Usable(s, t)'
  <2>1. CASE task = None  BY <1>2, <1>4, <2>1 DEF ScopeFine, Usable, OfRepo
  <2>2. CASE task # None  BY <1>4, <1>8, <2>2 DEF Usable, OfRepo
  <2> QED  BY <2>1, <2>2
<1>10. y.topics \subseteq Twice'  BY <1>6, MoreSamples
<1> QED  BY <1>1, <1>2, <1>3, <1>6, <1>7, <1>9, <1>10 DEF ScopeFine, Usable, OfRepo

LEMMA AssignKeeps ==
    ASSUME ContextIInv, Grows, NEW s \in Chats, NEW k \in Slots, op[s][k].pc \in Late,
           NEW task, task # None => task \in DOMAIN tasks' /\ OfRepo(s, task), Assign(s, k, task),
           UNCHANGED <<topics, samples>>, DOMAIN latest' = Chats
    PROVE  Domains' /\ TopicsInv' /\ ScopesInv' /\ RefreshesInv' /\ SlotsInv'
<1>1. PICK old : old = op[s][k]  OBVIOUS
<1>2. RefreshFine(s, old) /\ old.pc \in Late /\ old.pc # "idle"
  BY <1>1 DEF ContextIInv, RefreshesInv, Late
<1>3. old.topics \subseteq Twice /\ old.goal \in Prompts \ {{}}  BY <1>2 DEF RefreshFine
<1>4. PICK x : x = scopes[s]  OBVIOUS
<1>5. ScopeFine(s, x) /\ (x.phase = "start" <=> op[s][0].pc # "idle")
  BY <1>4 DEF ContextIInv, ScopesInv
<1>6. k = 0 => x.phase = "start" /\ x.turn >= 1  BY <1>1, <1>2, <1>5 DEF ScopeFine
<1>7. PICK snap : snap = Snapshot(s, old, task)  OBVIOUS
<1>8. PICK y : y = Assigned(s, snap)  OBVIOUS
<1>9. ASSUME old.gen = x.gen
      PROVE  ScopeFine(s, y)' /\ y.turn = x.turn /\ y.phase = x.phase /\ snap.topics = old.topics
  BY <1>3, <1>4, <1>7, <1>8, <1>9, AssignedFine
<1>10. CASE StillExpected(s, old) /\ plan.persist
  <2>1. old.gen = x.gen  BY <1>4, <1>10 DEF StillExpected
  <2>2. PICK o : o = [At(old, "snapPut") EXCEPT !.snap = snap]  OBVIOUS
  <2>3. scopes' = [scopes EXCEPT ![s] = y] /\ Goto(s, k, o)  BY <1>1, <1>7, <1>8, <1>10, <2>2 DEF Assign
  <2>s. ScopeBecomes(s, y)  BY <2>3, ScopeChanges DEF ContextIInv
  <2>4. IsRefresh(o) /\ o.pc = "snapPut" /\ o.goal = old.goal /\ o.topics = {} /\ o.snap = snap
    BY <2>2, AtShape DEF IsRefresh
  <2>5. RefreshFine(s, o)  BY <1>3, <1>9, <2>1, <2>4 DEF RefreshFine, Early, Late
  <2>6. RefreshFine(s, o)'  BY <2>5, RefreshStays
  <2> QED  BY <1>1, <1>2, <1>4, <1>5, <1>6, <1>9, <2>1, <2>3, <2>s, <2>4, <2>6, SessionSteps DEF Early
<1>11. PICK o : o = NoRefresh  OBVIOUS
<1>12. RefreshFine(s, o)' /\ o.pc = "idle"  BY <1>11, IdleFine DEF RefreshFine, Usable, OfRepo
<1>13. ASSUME NEW z, ScopeFine(s, z)', z.turn = x.turn, z.phase = x.phase, Goto(s, k, o),
              scopes' = [scopes EXCEPT ![s] = TurnStarted(z, k, old.gen)]
       PROVE  Domains' /\ TopicsInv' /\ ScopesInv' /\ RefreshesInv' /\ SlotsInv'
  <2>1. PICK w : w = TurnStarted(z, k, old.gen)  OBVIOUS
  <2>2. ScopeFine(s, w)' /\ w.turn = z.turn /\ w.phase = (IF k = 0 THEN "run" ELSE z.phase)
    BY <1>6, <1>13, <2>1, TurnStartedFine
  <2>3. ScopeBecomes(s, w)  BY <1>13, <2>1, ScopeChanges DEF ContextIInv
  <2>4. /\ w.turn = scopes[s].turn /\ (scopes[s].phase = "idle" => w.phase = "idle")
        /\ w.phase = "start" <=> (IF k = 0 THEN o ELSE op[s][0]).pc # "idle"
    BY <1>1, <1>2, <1>4, <1>5, <1>6, <1>12, <1>13, <2>2
  <2>5. o.pc \in Early => op[s][k].pc \in Early  BY <1>12 DEF Early
  <2>6. op[s][k].pc = "idle" => o.pc = "idle"  BY <1>12
  <2>7. RefreshFine(s, o)' /\ Goto(s, k, o)  BY <1>12, <1>13
  <2> QED  BY <2>2, <2>3, <2>4, <2>5, <2>6, <2>7, SessionSteps
<1>14. CASE StillExpected(s, old) /\ ~plan.persist
  <2>1. old.gen = x.gen  BY <1>4, <1>14 DEF StillExpected
  <2>2. scopes' = [scopes EXCEPT ![s] = TurnStarted(y, k, old.gen)] /\ Goto(s, k, o)
    BY <1>1, <1>7, <1>8, <1>11, <1>14 DEF Assign
  <2> QED  BY <1>9, <1>13, <2>1, <2>2
<1>15. CASE ~StillExpected(s, old)
  <2>1. scopes' = [scopes EXCEPT ![s] = TurnStarted(x, k, old.gen)] /\ Goto(s, k, o)
    BY <1>1, <1>4, <1>11, <1>15 DEF Assign
  <2>2. ScopeFine(s, x)'  BY <1>5, ScopeStays
  <2> QED  BY <1>13, <2>1, <2>2
<1> QED  BY <1>10, <1>14, <1>15

LEMMA TaskPutKeeps ==
    ASSUME ContextIInv, NEW s \in Chats, NEW k \in Slots, TaskPut(s, k)
    PROVE  ContextIInv'
<1> USE DEF ContextIInv
<1>1. PICK old : old = op[s][k]  OBVIOUS
<1>2. RefreshFine(s, old) /\ old.pc = "taskPut"  BY <1>1 DEF RefreshesInv, TaskPut
<1>3. OfRepo(s, old.task) /\ old.topics \subseteq Twice  BY <1>2 DEF RefreshFine
<1>4. PICK id : id = old.task  OBVIOUS
<1>5. PICK new : new = [goal |-> old.goal, topics |-> old.topics, repo |-> repo[s], state |-> "active",
                        revision |-> (IF id \in DOMAIN tasks THEN tasks[id].revision ELSE 0) + 1]
  OBVIOUS
<1>6. PICK as : as = [goal |-> old.goal, topics |-> old.topics, repo |-> repo[s]]  OBVIOUS
<1>7. tasks' = Written(tasks, id, new) /\ resolved' = Written(resolved, id, as) /\ Assign(s, k, id)
  BY <1>1, <1>4, <1>5, <1>6 DEF TaskPut
<1>8. UNCHANGED <<topics, cache, jobs, samples, stored, latest, bounds>>  BY DEF TaskPut
<1>9. /\ DOMAIN tasks' = DOMAIN tasks \cup {id} /\ DOMAIN resolved' = DOMAIN resolved \cup {id}
      /\ tasks'[id] = new /\ resolved'[id] = as
      /\ \A d \in DOMAIN tasks : d # id => tasks'[d] = tasks[d]
      /\ \A d \in DOMAIN resolved : d # id => resolved'[d] = resolved[d]
  BY <1>7 DEF Written
<1>g. Grows  BY <1>8, <1>9 DEF Grows, TopicsInv, TopicFine, bounds
<1>t. Twice' = Twice  BY <1>8 DEF Twice
<1>10. Domains' /\ TopicsInv' /\ ScopesInv' /\ RefreshesInv' /\ SlotsInv'
  BY <1>1, <1>2, <1>3, <1>4, <1>7, <1>8, <1>9, <1>g, AssignKeeps DEF Late, Domains
<1>11. /\ IsTask(new) /\ new.topics = old.topics /\ new.repo = repo[s] /\ new.goal = old.goal
       /\ new.revision = (IF id \in DOMAIN tasks THEN tasks[id].revision ELSE 0) + 1
  BY <1>5 DEF IsTask
<1>12. id \in DOMAIN tasks => tasks[id].revision \in Nat  BY DEF TasksInv, TaskFine
<1>13. TasksInv'
  <2>1. DOMAIN tasks' = DOMAIN resolved'  BY <1>9 DEF TasksInv
  <2>2. TaskFine(id)'
    <3>1. new.repo # {} => id.affinity = new.repo  BY <1>3, <1>4, <1>11 DEF OfRepo
    <3>2. as = [goal |-> new.goal, topics |-> new.topics, repo |-> new.repo]  BY <1>6, <1>11
    <3>3. new.revision \in Nat  BY <1>11, <1>12
    <3> QED  BY <1>3, <1>9, <1>11, <1>t, <3>1, <3>2, <3>3 DEF TaskFine
  <2>3. ASSUME NEW d \in DOMAIN tasks', d # id PROVE TaskFine(d)'
    <3>1. d \in DOMAIN tasks /\ d \in DOMAIN resolved /\ TaskFine(d)  BY <1>9, <2>3 DEF TasksInv
    <3> QED  BY <1>9, <1>t, <2>3, <3>1 DEF TaskFine
  <2> QED  BY <2>1, <2>2, <2>3 DEF TasksInv
<1>14. JobsInv'
  <2> SUFFICES ASSUME NEW j \in jobs PROVE JobFine(j)'  BY <1>8 DEF JobsInv
  <2>1. JobFine(j)  BY DEF JobsInv
  <2>2. CASE j.task # id  BY <1>9, <2>1, <2>2 DEF JobFine
  <2>3. CASE j.task = id
    <3>1. id \in DOMAIN tasks /\ tasks'[id].revision = tasks[id].revision + 1
      BY <1>9, <1>11, <2>1, <2>3 DEF JobFine
    <3> QED  BY <1>9, <1>12, <2>1, <2>3, <3>1 DEF JobFine
  <2> QED  BY <2>2, <2>3
<1>15. StoredInv'  BY <1>8, <1>g, StoredStay
<1> QED  BY <1>10, <1>13, <1>14, <1>15

LEMMA SnapshotKeeps ==
    ASSUME ContextIInv, NEW s \in Chats, NEW k \in Slots, SnapPut(s, k) \/ PointerPut(s, k)
    PROVE  ContextIInv'
<1> USE DEF ContextIInv
<1>1. PICK old : old = op[s][k]  OBVIOUS
<1>2. RefreshFine(s, old) /\ old.pc \in {"snapPut", "pointerPut"}
  BY <1>1 DEF RefreshesInv, SnapPut, PointerPut
<1>3. old.snap.topics \subseteq Twice /\ old.goal \in Prompts \ {{}}  BY <1>2 DEF RefreshFine
<1>4. UNCHANGED <<topics, cache, tasks, jobs, samples, resolved, bounds>>  BY DEF SnapPut, PointerPut
<1>5. /\ stored \subseteq stored' /\ stored' \subseteq stored \cup {old.snap}
      /\ PointerPut(s, k) => stored' = stored
  BY <1>1 DEF SnapPut, PointerPut
<1>g. Grows  BY <1>4, <1>5 DEF Grows, TopicsInv, TopicFine, bounds
<1>t. Twice' = Twice  BY <1>4 DEF Twice
<1>6. CASE SnapPut(s, k)
  <2>1. PICK o : o = [old EXCEPT !.pc = "pointerPut"]  OBVIOUS
  <2>2. Goto(s, k, o) /\ UNCHANGED <<scopes, latest>> /\ old.snap \in stored'
    BY <1>1, <1>6, <2>1 DEF SnapPut, Further
  <2>3. /\ IsRefresh(o) /\ o.pc = "pointerPut" /\ o.goal = old.goal /\ o.topics = old.topics
        /\ o.snap = old.snap
    BY <1>2, <2>1 DEF RefreshFine, IsRefresh
  <2>4. RefreshFine(s, o)'
    BY <1>2, <1>3, <1>t, <2>2, <2>3 DEF RefreshFine, Early, Late
  <2>5. PICK x : x = scopes[s]  OBVIOUS
  <2>6. ScopeFine(s, x)' /\ (x.phase = "start" <=> op[s][0].pc # "idle")
    BY <1>g, <2>5, ScopeStays DEF ScopesInv
  <2>7. ScopeBecomes(s, x)  BY <2>2, <2>5 DEF ScopeBecomes, Domains
  <2>8. Domains' /\ TopicsInv' /\ ScopesInv' /\ RefreshesInv' /\ SlotsInv'
    <3>1. x.turn = scopes[s].turn /\ (scopes[s].phase = "idle" => x.phase = "idle")  BY <2>5
    <3>2. x.phase = "start" <=> (IF k = 0 THEN o ELSE op[s][0]).pc # "idle"  BY <1>1, <1>2, <2>3, <2>6
    <3>3. (o.pc \in Early => op[s][k].pc \in Early) /\ (op[s][k].pc = "idle" => o.pc = "idle")
      BY <1>1, <1>2, <2>3 DEF Early
    <3>4. DOMAIN latest' = Chats  BY <2>2 DEF Domains
    <3> QED  BY <1>4, <1>g, <2>2, <2>4, <2>6, <2>7, <3>1, <3>2, <3>3, <3>4, SessionSteps
  <2>9. StoredInv'  BY <1>3, <1>5, <1>t, <2>2 DEF StoredInv
  <2> QED  BY <1>4, <1>g, <2>8, <2>9, TasksStay, JobsStay
<1>7. CASE PointerPut(s, k)
  <2>1. op[s][k].pc = "pointerPut" /\ End(s, k) /\ latest' = [latest EXCEPT ![s] = old.snap] /\ stored' = stored
    BY <1>1, <1>5, <1>7 DEF PointerPut
  <2>2. old.snap \in stored  BY <1>1, <1>2, <2>1 DEF RefreshFine
  <2>3. StoredInv'  BY <1>t, <2>1, <2>2 DEF StoredInv, Domains
  <2>4. DOMAIN latest' = Chats  BY <2>1 DEF Domains
  <2>5. Domains' /\ TopicsInv' /\ ScopesInv' /\ RefreshesInv' /\ SlotsInv'
    BY <1>4, <1>g, <2>1, <2>4, EndKeeps
  <2> QED  BY <1>4, <1>g, <2>3, <2>5, TasksStay, JobsStay
<1> QED  BY <1>6, <1>7

LEMMA FailKeeps ==
    ASSUME ContextIInv, NEW s \in Chats, NEW k \in Slots, Fail(s, k)
    PROVE  ContextIInv'
<1> USE DEF ContextIInv
<1>1. UNCHANGED <<plan, topics, cache, jobs, samples, store>>  BY DEF Fail
<1>g. Grows  BY <1>1 DEF Grows, TopicsInv, TopicFine, store
<1>2. DOMAIN latest' = Chats  BY <1>1 DEF store, Domains
<1>3. CASE /\ op[s][k].pc \in {"list", "topicGet", "named", "topicPut", "create"}
           /\ Resolve(s, k, {}) /\ UNCHANGED scopes
  <2>1. op[s][k].pc \in Early /\ op[s][k].pc # "idle"  BY <1>3 DEF Early
  <2>2. PICK o : Goto(s, k, o) /\ RefreshFine(s, o) /\ o.pc \in Late  BY <1>3, <2>1, ResolvesOn
  <2> QED  BY <1>1, <1>3, <2>1, <2>2, RefreshAdvances DEF Late
<1>4. CASE op[s][k].pc \in {"taskGet", "currentGet", "taskList", "taskPut"} /\ Assign(s, k, None)
  <2>1. op[s][k].pc \in Late  BY <1>4 DEF Late
  <2>2. Domains' /\ TopicsInv' /\ ScopesInv' /\ RefreshesInv' /\ SlotsInv'
    BY <1>1, <1>2, <1>4, <1>g, <2>1, AssignKeeps
  <2> QED  BY <1>1, <1>g, <2>2, TasksStay, StoredStay, JobsStay DEF store
<1>5. CASE op[s][k].pc \in {"snapPut", "pointerPut"} /\ End(s, k)
  <2>1. op[s][k].pc # "idle"  BY <1>5
  <2>2. Domains' /\ TopicsInv' /\ ScopesInv' /\ RefreshesInv' /\ SlotsInv'
    BY <1>1, <1>2, <1>5, <1>g, <2>1, EndKeeps
  <2> QED  BY <1>1, <1>g, <2>2, TasksStay, StoredStay, JobsStay DEF store
<1> QED  BY <1>3, <1>4, <1>5 DEF Fail

LEMMA RefreshKeeps ==
    ASSUME ContextIInv, NEW s \in Chats, NEW k \in Slots, Refreshes(s, k)
    PROVE  ContextIInv'
<1>1. CASE List(s, k) \/ Fill(s, k) \/ TopicGet(s, k) \/ Named(s, k) \/ SettledRefresh(s, k)
  <2>1. PICK o : /\ Goto(s, k, o) /\ RefreshFine(s, o) /\ o.pc \in Early
                 /\ UNCHANGED <<plan, topics, scopes, jobs, samples, store>> /\ op[s][k].pc \in Early
    BY <1>1, ObservesFine
  <2> QED  BY <2>1, RefreshAdvances DEF Early
<1>2. CASE TaskGet(s, k) \/ CurrentGet(s, k) \/ TaskList(s, k)
  <2>1. PICK o : /\ Goto(s, k, o) /\ RefreshFine(s, o) /\ o.pc \in Late
                 /\ UNCHANGED <<plan, topics, scopes, jobs, samples, store>> /\ op[s][k].pc \in Late
    BY <1>2, LooksFine
  <2>2. o.pc \notin Early /\ o.pc # "idle" /\ op[s][k].pc # "idle"  BY <2>1 DEF Early, Late
  <2> QED  BY <2>1, <2>2, RefreshAdvances
<1>3. CASE TopicPut(s, k) \/ Create(s, k)  BY <1>3, TopicKeeps
<1>4. CASE TaskPut(s, k)  BY <1>4, TaskPutKeeps
<1>5. CASE SnapPut(s, k) \/ PointerPut(s, k)  BY <1>5, SnapshotKeeps
<1>6. CASE Fail(s, k)  BY <1>6, FailKeeps
<1> QED  BY <1>1, <1>2, <1>3, <1>4, <1>5, <1>6 DEF Refreshes

-----------------------------------------------------------------------------
(* Turns, branches, outcomes, restarts *)

LEMMA TurnTyped ==
    ASSUME ContextIInv, NEW s \in Chats
    PROVE  /\ ScopeFine(s, scopes[s]) /\ scopes[s].turn \in Nat /\ Len(plan.asks[s]) \in Nat
           /\ plan.asks[s] \in Seq(Prompts)
<1>1. ScopeFine(s, scopes[s])  BY DEF ContextIInv, ScopesInv
<1>2. plan.asks[s] \in Seq(Prompts)  BY ContextAssumption DEF ContextIInv, Domains
<1>3. Len(plan.asks[s]) \in Nat  BY <1>2, LenProperties
<1>4. scopes[s].turn \in Nat  BY <1>1, <1>3 DEF ScopeFine
<1> QED  BY <1>1, <1>2, <1>3, <1>4

LEMMA TurnKeeps ==
    ASSUME ContextIInv, NEW s \in Chats, Turn(s)
    PROVE  ContextIInv'
<1> USE DEF ContextIInv
<1>d. 0 \in Slots /\ Slots \subseteq Nat  BY ContextAssumption DEF Slots
<1>1. PICK x : x = scopes[s]  OBVIOUS
<1>2. /\ ScopeFine(s, x) /\ x.turn \in Nat /\ Len(plan.asks[s]) \in Nat /\ plan.asks[s] \in Seq(Prompts)
      /\ x.phase = "idle" /\ x.turn < Len(plan.asks[s])
  BY <1>1, TurnTyped DEF Turn
<1>3. UNCHANGED <<topics, cache, jobs, samples, store, bounds>>  BY DEF Turn
<1>g. Grows  BY <1>3 DEF Grows, TopicsInv, TopicFine, store, bounds
<1>4. PICK goal : goal = plan.asks[s][x.turn + 1]  OBVIOUS
<1>5. goal \in Prompts  BY <1>2, <1>4, LenProperties
<1>6. PICK next : next = [x EXCEPT !.turn = x.turn + 1, !.phase = "start"]  OBVIOUS
<1>7. /\ IsScope(next) /\ next.turn = x.turn + 1 /\ next.phase = "start" /\ next.topics = x.topics
      /\ next.task = x.task /\ next.snap = x.snap /\ next.scope = x.scope
  BY <1>2, <1>6 DEF ScopeFine, IsScope
<1>8. ScopeFine(s, next)
  <2>1. next.turn \in 0 .. Len(plan.asks[s]) /\ next.turn >= 1  BY <1>2, <1>7
  <2>2. Agrees(next)  BY <1>2, <1>7 DEF ScopeFine, Agrees
  <2> QED  BY <1>2, <1>7, <2>1, <2>2 DEF ScopeFine
<1>9. ScopeFine(s, next)'  BY <1>8, <1>g, ScopeStays
\* What follows from the refresh of slot 0 that begins, and from the scope that the turn has.
<1>10. ASSUME NEW y, ScopeBecomes(s, y), ScopeFine(s, y)', y.turn = x.turn + 1, y.phase # "idle",
              DOMAIN op' = Chats, \A c \in Chats : DOMAIN op'[c] = Slots,
              \A c \in Chats, n \in Slots : ~(c = s /\ n = 0) => op'[c][n] = op[c][n],
              y.phase = "start" <=> op'[s][0].pc # "idle", RefreshesInv'
       PROVE  ContextIInv'
  <2>1. Domains'  BY <1>3, <1>10 DEF Domains, ScopeBecomes, store, bounds
  <2>2. ScopesInv'
    <3>1. \A c \in Chats : c # s => op'[c][0] = op[c][0]  BY <1>10, <1>d
    <3> QED  BY <1>10, <1>g, <3>1, ScopesStay DEF ScopeBecomes
  <2>3. SlotsInv'
    <3> SUFFICES ASSUME NEW c \in Chats, NEW n \in Slots PROVE SlotFine(c, n)'  BY DEF SlotsInv
    <3>1. SlotFine(c, n) /\ n \in Nat  BY <1>d DEF SlotsInv
    <3>2. CASE c # s
      <4>1. scopes'[c] = scopes[c] /\ op'[c][n] = op[c][n] /\ samples' = samples
        BY <1>3, <1>10, <3>2 DEF ScopeBecomes
      <4>2. NotBegun(c, n)' <=> NotBegun(c, n)  BY <4>1 DEF NotBegun
      <4> QED  BY <3>1, <4>1, <4>2 DEF SlotFine
    <3>3. CASE c = s
      <4>1. scopes'[s] = y /\ samples' = samples  BY <1>3, <1>10 DEF ScopeBecomes
      <4>2. NotBegun(s, n)' => NotBegun(s, n) /\ n # 0
        BY <1>1, <1>2, <1>10, <3>1, <4>1 DEF NotBegun
      <4>3. n # 0 => op'[s][n] = op[s][n]  BY <1>10
      <4>4. ASSUME NEW t \in TopicIds, NEW z \in samples[t], z.of = s, z.slot = n
            PROVE  /\ z.turn \in Nat /\ z.turn <= y.turn /\ ~NotBegun(s, n)'
                   /\ op'[s][n].pc \in Early => n = 0 /\ z.turn < y.turn
        <5>1. /\ z.turn \in Nat /\ z.turn <= x.turn /\ ~NotBegun(s, n)
              /\ op[s][n].pc \in Early => n = 0
          BY <1>1, <3>1, <3>3, <4>4 DEF SlotFine
        <5>2. z.turn <= y.turn /\ z.turn < y.turn  BY <1>2, <1>10, <5>1
        <5> QED  BY <4>2, <4>3, <5>1, <5>2
      <4>5. NotBegun(s, n)' => op'[s][n].pc = "idle"  BY <3>1, <3>3, <4>2, <4>3 DEF SlotFine
      <4> QED  BY <3>3, <4>1, <4>4, <4>5 DEF SlotFine
    <3> QED  BY <3>2, <3>3
  <2> QED  BY <1>3, <1>10, <1>g, <2>1, <2>2, <2>3, TopicsStay, TasksStay, StoredStay, JobsStay DEF store
<1>11. op[s][0].pc = "idle"  BY <1>1, <1>2 DEF ScopesInv
<1>12. CASE goal = {}
  <2>1. PICK y : y = TurnStarted(next, 0, next.gen)  OBVIOUS
  <2>2. scopes' = [scopes EXCEPT ![s] = y] /\ op' = op
    BY <1>1, <1>4, <1>6, <1>12, <2>1 DEF Turn
  <2>3. ScopeFine(s, y)' /\ y.turn = next.turn /\ y.phase = "run"
    BY <1>2, <1>7, <1>9, <2>1, TurnStartedFine
  <2>4. ScopeBecomes(s, y)  BY <2>2, ScopeChanges
  <2>5. RefreshesInv'
    <3> SUFFICES ASSUME NEW c \in Chats, NEW n \in Slots PROVE RefreshFine(c, op[c][n])'  BY DEF RefreshesInv
    <3>1. PICK o : o = op[c][n]  OBVIOUS
    <3>2. RefreshFine(c, o)'  BY <1>g, <3>1, RefreshStays DEF RefreshesInv
    <3> QED  BY <2>2, <3>1, <3>2 DEF RefreshFine, Usable, OfRepo
  <2> QED  BY <1>7, <1>10, <1>11, <2>2, <2>3, <2>4, <2>5 DEF Domains
<1>13. CASE goal # {}
  <2>1. PICK asked : asked = [goal |-> goal, gen |-> x.gen]  OBVIOUS
  <2>2. scopes' = [scopes EXCEPT ![s] = next] /\ \E o \in Begins(asked) : Goto(s, 0, o)
    BY <1>1, <1>4, <1>6, <1>13, <2>1 DEF Turn
  <2>3. PICK o \in Begins(asked) : Goto(s, 0, o)  BY <2>2
  <2>4. asked.goal \in Prompts \ {{}}  BY <1>5, <1>13, <2>1
  <2>5. RefreshFine(s, o) /\ o.pc \in Early  BY <2>4, BeginsFine
  <2>6. RefreshFine(s, o)'  BY <1>g, <2>5, RefreshStays
  <2>7. RefreshesInv'  BY <1>g, <2>3, <2>6, RefreshesStay
  <2>8. /\ DOMAIN op' = Chats /\ \A c \in Chats : DOMAIN op'[c] = Slots
        /\ \A c \in Chats, n \in Slots : op'[c][n] = IF c = s /\ n = 0 THEN o ELSE op[c][n]
    BY <2>3, Goes
  <2>9. ScopeBecomes(s, next)  BY <2>2, ScopeChanges
  <2>10. op'[s][0].pc # "idle"  BY <1>d, <2>5, <2>8 DEF Early
  <2> QED  BY <1>7, <1>9, <1>10, <2>7, <2>8, <2>9, <2>10
<1> QED  BY <1>12, <1>13

LEMMA FinishKeeps ==
    ASSUME ContextIInv, NEW s \in Chats, Finish(s)
    PROVE  ContextIInv'
<1> USE DEF ContextIInv
<1>d. 0 \in Slots /\ Slots \subseteq Nat  BY ContextAssumption DEF Slots
<1>1. PICK x : x = scopes[s]  OBVIOUS
<1>2. PICK n : n = x.turn  OBVIOUS
<1>3. /\ ScopeFine(s, x) /\ n \in Nat \ {0} /\ n <= Len(plan.asks[s]) /\ plan.asks[s] \in Seq(Prompts)
      /\ x.phase = "run"
  BY <1>1, <1>2, TurnTyped DEF Finish, ScopeFine
<1>4. UNCHANGED <<topics, cache, samples, store, bounds>>  BY DEF Finish
<1>g. Grows  BY <1>4 DEF Grows, TopicsInv, TopicFine, store, bounds
<1>5. PICK goal : goal = plan.asks[s][n]  OBVIOUS
<1>6. goal \in Prompts  BY <1>3, <1>5, LenProperties
<1>7. PICK o : o = IF goal = {} THEN NoRefresh ELSE [NoRefresh EXCEPT !.pc = "settled", !.goal = goal]
  OBVIOUS
<1>8. Goto(s, n, o)  BY <1>1, <1>2, <1>5, <1>7 DEF Finish
<1>9. RefreshFine(s, o)'
  <2>1. CASE goal = {}
    <3>1. o = NoRefresh  BY <1>7, <2>1
    <3> QED  BY <3>1, IdleFine DEF RefreshFine, Usable, OfRepo
  <2>2. CASE goal # {}
    <3>1. IsRefresh(o) /\ o.pc = "settled" /\ o.goal = goal /\ o.topics = {}
      BY <1>7, <2>2 DEF IsRefresh, NoRefresh
    <3> QED  BY <1>6, <2>2, <3>1 DEF RefreshFine, Early
  <2> QED  BY <2>1, <2>2
<1>10. PICK y : y = [x EXCEPT !.phase = "idle"]  OBVIOUS
<1>11. /\ IsScope(y) /\ y.turn = x.turn /\ y.phase = "idle" /\ y.topics = x.topics
       /\ y.task = x.task /\ y.snap = x.snap /\ y.scope = x.scope
  BY <1>3, <1>10 DEF ScopeFine, IsScope
<1>12. ScopeFine(s, y)
  <2>1. Agrees(y)  BY <1>3, <1>11 DEF ScopeFine, Agrees
  <2> QED  BY <1>3, <1>11, <2>1 DEF ScopeFine
<1>13. ScopeFine(s, y)'  BY <1>12, <1>g, ScopeStays
<1>14. scopes' = [scopes EXCEPT ![s] = y]  BY <1>1, <1>10 DEF Finish
<1>15. ScopeBecomes(s, y)  BY <1>14, ScopeChanges
<1>16. /\ DOMAIN op' = Chats /\ \A c \in Chats : DOMAIN op'[c] = Slots
       /\ \A c \in Chats, k \in Slots : op'[c][k] = IF c = s /\ k = n THEN o ELSE op[c][k]
  BY <1>8, Goes
<1>17. Domains'  BY <1>4, <1>15, <1>16 DEF Domains, ScopeBecomes, store, bounds
<1>18. RefreshesInv'  BY <1>8, <1>9, <1>g, RefreshesStay
<1>19. ScopesInv'
  <2>1. \A c \in Chats : op'[c][0] = op[c][0]  BY <1>3, <1>16, <1>d
  <2>2. op[s][0].pc = "idle"  BY <1>1, <1>3 DEF ScopesInv
  <2> QED  BY <1>11, <1>13, <1>15, <1>g, <2>1, <2>2, ScopesStay DEF ScopeBecomes
<1>20. SlotsInv'
  <2> SUFFICES ASSUME NEW c \in Chats, NEW k \in Slots PROVE SlotFine(c, k)'  BY DEF SlotsInv
  <2>1. SlotFine(c, k) /\ k \in Nat /\ samples' = samples  BY <1>4, <1>d DEF SlotsInv
  <2>2. scopes'[c].turn = scopes[c].turn /\ (c # s => scopes'[c] = scopes[c]) /\ scopes'[s] = y
    BY <1>1, <1>11, <1>15 DEF ScopeBecomes
  <2>3. NotBegun(c, k)' => NotBegun(c, k) /\ ~(c = s /\ k = n)
    BY <1>1, <1>2, <1>3, <1>11, <2>1, <2>2 DEF NotBegun
  <2>4. ~(c = s /\ k = n) => op'[c][k] = op[c][k]  BY <1>16
  <2>5. NotBegun(s, n)  BY <1>1, <1>2, <1>3 DEF NotBegun
  <2>6. ASSUME NEW t \in TopicIds, NEW z \in samples[t], z.of = c, z.slot = k
        PROVE  /\ z.turn \in Nat /\ z.turn <= scopes'[c].turn /\ ~NotBegun(c, k)'
               /\ op'[c][k].pc \in Early => k = 0 /\ z.turn < scopes'[c].turn
    <3>1. /\ z.turn \in Nat /\ z.turn <= scopes[c].turn /\ ~NotBegun(c, k)
          /\ op[c][k].pc \in Early => k = 0 /\ z.turn < scopes[c].turn
      BY <2>1, <2>6 DEF SlotFine
    <3>2. ~(c = s /\ k = n)  BY <2>5, <3>1
    <3> QED  BY <2>2, <2>3, <2>4, <3>1, <3>2
  <2>7. NotBegun(c, k)' => op'[c][k].pc = "idle"  BY <2>1, <2>3, <2>4 DEF SlotFine
  <2> QED  BY <2>1, <2>6, <2>7 DEF SlotFine
<1>21. JobsInv'
  <2> SUFFICES ASSUME NEW j \in jobs' PROVE JobFine(j)'  BY DEF JobsInv
  <2>0. tasks' = tasks  BY <1>4 DEF store
  <2>1. CASE j \in jobs  BY <2>0, <2>1 DEF JobsInv, JobFine
  <2>2. CASE j \notin jobs
    <3>1. PICK task : task = IF x.scope = None THEN None ELSE x.scope.task  OBVIOUS
    <3>2. task # None /\ j = [by |-> <<s, n>>, task |-> task, seen |-> None]
      BY <1>1, <1>2, <2>2, <3>1 DEF Finish
    <3>3. task \in DOMAIN tasks  BY <1>3, <3>1, <3>2 DEF ScopeFine
    <3> QED  BY <2>0, <3>2, <3>3 DEF JobFine, IsJob
  <2> QED  BY <2>1, <2>2
<1> QED  BY <1>4, <1>17, <1>18, <1>19, <1>20, <1>21, <1>g, TopicsStay, TasksStay, StoredStay DEF store

LEMMA MoveKeeps ==
    ASSUME ContextIInv, NEW s \in Chats, Move(s)
    PROVE  ContextIInv'
<1> USE DEF ContextIInv
<1>1. PICK x : x = scopes[s]  OBVIOUS
<1>2. PICK y : y = [x EXCEPT !.gen = x.gen + 1]  OBVIOUS
<1>3. scopes' = [scopes EXCEPT ![s] = y]  BY <1>1, <1>2 DEF Move
<1>4. UNCHANGED <<plan, topics, cache, op, jobs, slipped, life, samples, store>>  BY DEF Move
<1>g. Grows  BY <1>4 DEF Grows, TopicsInv, TopicFine, store
<1>5. ScopeFine(s, x)  BY <1>1 DEF ScopesInv
<1>6. /\ IsScope(y) /\ y.turn = x.turn /\ y.phase = x.phase /\ y.topics = x.topics
      /\ y.task = x.task /\ y.snap = x.snap /\ y.scope = x.scope
  BY <1>2, <1>5 DEF ScopeFine, IsScope
<1>7. ScopeFine(s, y)
  <2>1. Agrees(y)  BY <1>5, <1>6 DEF ScopeFine, Agrees
  <2> QED  BY <1>5, <1>6, <2>1 DEF ScopeFine
<1>8. ScopeFine(s, y)'  BY <1>7, <1>g, ScopeStays
<1>9. ScopeBecomes(s, y)  BY <1>3, ScopeChanges
<1>10. Domains'  BY <1>4, <1>9 DEF Domains, ScopeBecomes, store
<1>11. ScopesInv'
  <2>1. y.phase = "start" <=> op'[s][0].pc # "idle"  BY <1>1, <1>4, <1>6 DEF ScopesInv
  <2> QED  BY <1>4, <1>8, <1>9, <1>g, <2>1, ScopesStay DEF ScopeBecomes
<1>12. RefreshesInv'
  <2> SUFFICES ASSUME NEW c \in Chats, NEW n \in Slots PROVE RefreshFine(c, op[c][n])'  BY DEF RefreshesInv
  <2>1. PICK o : o = op[c][n]  OBVIOUS
  <2>2. RefreshFine(c, o)'  BY <1>g, <2>1, RefreshStays DEF RefreshesInv
  <2> QED  BY <1>4, <2>1, <2>2 DEF RefreshFine, Usable, OfRepo
<1>13. SlotsInv'
  <2>1. \A c \in Chats : scopes'[c].turn = scopes[c].turn /\ (scopes[c].phase = "idle" => scopes'[c].phase = "idle")
    BY <1>1, <1>6, <1>9 DEF ScopeBecomes
  <2> QED  BY <1>4, <2>1, SlotsStay
<1> QED  BY <1>4, <1>10, <1>11, <1>12, <1>13, <1>g, TopicsStay, TasksStay, StoredStay, JobsStay DEF store

\* What only the jobs and the tasks change.
LEMMA SessionsStay ==
    ASSUME ContextIInv, Grows, UNCHANGED <<topics, scopes, op, samples, latest, stored>>
    PROVE  Domains' /\ TopicsInv' /\ ScopesInv' /\ RefreshesInv' /\ SlotsInv' /\ StoredInv'
<1> USE DEF ContextIInv
<1>1. Domains'  BY DEF Domains, Grows
<1>2. ScopesInv'
  <2> SUFFICES ASSUME NEW c \in Chats PROVE ScopeFine(c, scopes[c])' /\ (scopes'[c].phase = "start" <=> op'[c][0].pc # "idle")
    BY DEF ScopesInv
  <2>1. PICK x : x = scopes[c]  OBVIOUS
  <2>2. ScopeFine(c, x)'  BY <2>1, ScopeStays DEF ScopesInv
  <2>3. ScopeFine(c, scopes[c])'  BY <2>1, <2>2 DEF ScopeFine, Usable, OfRepo
  <2> QED  BY <2>3 DEF ScopesInv
<1>3. RefreshesInv'
  <2> SUFFICES ASSUME NEW c \in Chats, NEW n \in Slots PROVE RefreshFine(c, op[c][n])'  BY DEF RefreshesInv
  <2>1. PICK o : o = op[c][n]  OBVIOUS
  <2>2. RefreshFine(c, o)'  BY <2>1, RefreshStays DEF RefreshesInv
  <2> QED  BY <2>1, <2>2 DEF RefreshFine, Usable, OfRepo
<1>4. SlotsInv'  BY SlotsStay
<1> QED  BY <1>1, <1>2, <1>3, <1>4, TopicsStay, StoredStay

LEMMA JobKeeps ==
    ASSUME ContextIInv, NEW j \in jobs, JobGet(j) \/ JobPut(j)
    PROVE  ContextIInv'
<1> USE DEF ContextIInv
<1>1. JobFine(j)  BY DEF JobsInv
<1>2. PICK id : id = j.task  OBVIOUS
<1>3. id \in DOMAIN tasks /\ TaskFine(id)  BY <1>1, <1>2 DEF JobFine, TasksInv
<1>4. CASE JobGet(j)
  <2>1. UNCHANGED <<topics, cache, scopes, op, samples, store, bounds>>  BY <1>4 DEF JobGet
  <2>g. Grows  BY <2>1 DEF Grows, TopicsInv, TopicFine, store, bounds
  <2>2. PICK new : new = [j EXCEPT !.seen = tasks[id]]  OBVIOUS
  <2>3. jobs' = (jobs \ {j}) \cup {new}  BY <1>2, <1>4, <2>2 DEF JobGet
  <2>4. IsJob(new) /\ new.task = id /\ new.seen = tasks[id]  BY <1>1, <1>2, <2>2 DEF JobFine, IsJob
  <2>5. JobFine(new)  BY <1>3, <2>4 DEF JobFine, TaskFine
  <2>6. \A i \in jobs' : JobFine(i)  BY <2>3, <2>5 DEF JobsInv
  <2>7. JobsInv'  BY <2>1, <2>6 DEF JobsInv, JobFine, store
  <2> QED  BY <2>1, <2>g, <2>7, SessionsStay, TasksStay DEF store
<1>5. CASE JobPut(j)
  <2>1. /\ UNCHANGED <<topics, cache, stored, latest, scopes, op, samples, resolved, bounds>>
        /\ jobs' = jobs \ {j} /\ j.seen # None
    BY <1>5 DEF JobPut
  <2>2. IsTask(j.seen) /\ (Unchanged(j) => j.seen = tasks[id])  BY <1>1, <1>2, <2>1 DEF JobFine, Unchanged
  <2>3. CASE ~Unchanged(j)
    <3>1. tasks' = tasks  BY <1>5, <2>3 DEF JobPut
    <3>g. Grows  BY <2>1, <3>1 DEF Grows, TopicsInv, TopicFine, bounds
    <3>2. JobsInv'  BY <2>1, <3>1 DEF JobsInv, JobFine
    <3> QED  BY <2>1, <3>1, <3>g, <3>2, SessionsStay, TasksStay
  <2>4. CASE Unchanged(j)
    <3>1. PICK new : new = [j.seen EXCEPT !.state = "over", !.revision = tasks[id].revision + 1]  OBVIOUS
    <3>2. tasks' = [tasks EXCEPT ![id] = new]  BY <1>2, <1>5, <2>4, <3>1 DEF JobPut
    <3>3. DOMAIN tasks' = DOMAIN tasks /\ tasks'[id] = new /\ \A d \in DOMAIN tasks : d # id => tasks'[d] = tasks[d]
      BY <1>3, <3>2
    <3>4. /\ IsTask(new) /\ new.revision = tasks[id].revision + 1 /\ new.goal = tasks[id].goal
          /\ new.topics = tasks[id].topics /\ new.repo = tasks[id].repo
      BY <2>2, <2>4, <3>1 DEF IsTask
    <3>g. Grows  BY <2>1, <3>3 DEF Grows, TopicsInv, TopicFine, bounds
    <3>t. Twice' = Twice  BY <2>1 DEF Twice
    <3>5. TasksInv'
      <4> SUFFICES ASSUME NEW d \in DOMAIN tasks PROVE TaskFine(d)'  BY <2>1, <3>3 DEF TasksInv
      <4>1. TaskFine(d)  BY DEF TasksInv
      <4>2. CASE d = id  BY <1>3, <2>1, <3>3, <3>4, <3>t, <4>2 DEF TaskFine
      <4>3. CASE d # id  BY <2>1, <3>3, <3>t, <4>1, <4>3 DEF TaskFine
      <4> QED  BY <4>2, <4>3
    <3>6. JobsInv'
      <4> SUFFICES ASSUME NEW i \in jobs PROVE JobFine(i)'  BY <2>1 DEF JobsInv
      <4>1. JobFine(i)  BY DEF JobsInv
      <4>2. CASE i.task = id
        <5>1. tasks[id].revision \in Nat  BY <1>3 DEF TaskFine
        <5> QED  BY <3>3, <3>4, <4>1, <4>2, <5>1 DEF JobFine
      <4>3. CASE i.task # id  BY <3>3, <4>1, <4>3 DEF JobFine
      <4> QED  BY <4>2, <4>3
    <3> QED  BY <2>1, <3>5, <3>6, <3>g, SessionsStay
  <2> QED  BY <2>3, <2>4
<1> QED  BY <1>4, <1>5

LEMMA RestartKeeps == ContextIInv /\ SidecarRestarts => ContextIInv'
<1> SUFFICES ASSUME ContextIInv, SidecarRestarts PROVE ContextIInv'  OBVIOUS
<1> USE DEF ContextIInv
<1>d. 0 \in Slots  BY DEF Slots
<1>1. UNCHANGED <<plan, topics, moves, slipped, samples, store>> /\ jobs' = {}  BY DEF SidecarRestarts
<1>g. Grows  BY <1>1 DEF Grows, TopicsInv, TopicFine, store
<1>2. op' = [s \in Chats |-> [k \in Slots |-> NoRefresh]]  BY DEF SidecarRestarts
<1>3. DOMAIN scopes' = Chats  BY DEF SidecarRestarts
<1>4. ASSUME NEW s \in Chats
      PROVE  ScopeFine(s, scopes[s])' /\ scopes'[s].turn = scopes[s].turn /\ scopes'[s].phase = "idle"
  <2>1. PICK y : y = [Fresh EXCEPT !.gen = scopes[s].gen, !.turn = scopes[s].turn]  OBVIOUS
  <2>2. /\ IsScope(y) /\ y.turn = scopes[s].turn /\ y.phase = "idle" /\ y.topics = {} /\ y.task = None
        /\ y.snap = None /\ y.scope = None
    BY <2>1 DEF IsScope, Fresh
  <2>3. ScopeFine(s, y)  BY <2>2, TurnTyped DEF ScopeFine, Usable, Agrees
  <2>4. ScopeFine(s, y)'  BY <1>g, <2>3, ScopeStays
  <2>5. scopes'[s] = y  BY <2>1 DEF SidecarRestarts
  <2> QED  BY <2>2, <2>4, <2>5 DEF ScopeFine, Usable, OfRepo
<1>5. \A s \in Chats, k \in Slots : op'[s][k].pc = "idle"  BY <1>2, IdleFine
<1>6. Domains'  BY <1>1, <1>2, <1>3 DEF Domains, store
<1>7. ScopesInv'  BY <1>4, <1>5, <1>d DEF ScopesInv
<1>8. RefreshesInv'
  <2> SUFFICES ASSUME NEW s \in Chats, NEW k \in Slots PROVE RefreshFine(s, op[s][k])'  BY DEF RefreshesInv
  <2>1. op'[s][k] = NoRefresh  BY <1>2
  <2> QED  BY <2>1, IdleFine DEF RefreshFine, Usable, OfRepo
<1>9. SlotsInv'  BY <1>1, <1>4, <1>5, SlotsStay DEF Early
<1>10. JobsInv'  BY <1>1 DEF JobsInv
<1> QED  BY <1>1, <1>6, <1>7, <1>8, <1>9, <1>10, <1>g, TopicsStay, TasksStay, StoredStay DEF store

LEMMA ContextKept == ContextIInv /\ [ContextNext]_contextVars => ContextIInv'
<1> SUFFICES ASSUME ContextIInv, [ContextNext]_contextVars PROVE ContextIInv'  OBVIOUS
<1>1. CASE UNCHANGED contextVars
  <2>1. UNCHANGED <<topics, scopes, op, samples, latest, stored, plan, tasks, resolved, jobs>>
    BY <1>1 DEF contextVars
  <2>2. Grows  BY <2>1 DEF Grows, ContextIInv, TopicsInv, TopicFine
  <2> QED  BY <2>1, <2>2, SessionsStay, TasksStay, JobsStay DEF ContextIInv
<1> QED
  BY <1>1, TurnKeeps, FinishKeeps, MoveKeeps, RefreshKeeps, JobKeeps, RestartKeeps DEF ContextNext

\* Whatever the sessions of a Sidecar ask, on whatever branches, and whatever fails or restarts:
\* topics are observed twice before anything is about them, late outcomes leave tasks what they
\* were resolved to, repositories share no task, and scopes agree with their snapshots.
THEOREM ContextAlwaysHolds == ContextSpec => []ContextHolds
<1>1. ContextSpec => []ContextIInv  BY ContextStarts, ContextKept, PTL DEF ContextSpec
<1> QED  BY <1>1, ContextImplied, PTL
=============================================================================
