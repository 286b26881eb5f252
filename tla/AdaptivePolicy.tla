---------------------------- MODULE AdaptivePolicy ----------------------------
(***************************************************************************)
(* The adaptive retrieval policy (retrieval/src/policy.ts) under the          *)
(* maintenance job of the memory extension (pi-memory-extension 661-714):     *)
(* candidates found by replay become shadow, canary and active; a regression  *)
(* degrades a canary or rolls the active policy back.                         *)
(*                                                                         *)
(* The service changes its fields first and then writes records, pointer and  *)
(* control one after the other; the process may die between two writes.  A    *)
(* policy is its identity, its state, the learned changes in its parameters   *)
(* and the configured baseline it is stamped with.  Replays and metrics are   *)
(* outcomes.                                                                 *)
(***************************************************************************)
EXTENDS Naturals, Sequences, FiniteSets

CONSTANTS Configs,       \* configured baselines, by fingerprint
          None,
          DraftLimit, ClockLimit, RestartLimit \* bounds: drafts, time, ends of the process

ASSUME PolicyAssumption == ClockLimit \in Nat

VARIABLES recs, pointer, control, \* on disk: policies by id, the pointer, ewma and cooldown
          active, fallback, shadow, canary, ewma, until, \* the fields of the service
          todo,                  \* writes to come, in order; those of one set in any order
          after,                 \* what the maintenance job does when they are done
          mode, config, now,
          made,                  \* drafts made
          judged,                \* drafts whose canary was found safe
          restarts

disk == <<recs, pointer, control>>
fields == <<active, fallback, shadow, canary, ewma, until>>
policyVars == <<disk, fields, todo, after, mode, config, now, made, judged, restarts>>

Policy(id, state, changes, based) == [id |-> id, state |-> state, changes |-> changes, based |-> based]
InState(p, state) == [p EXCEPT !.state = state]
Default == Policy(<<"default">>, "active", {}, config)
FirstFallback == Policy(<<"fallback">>, "fallback", {}, config)

RecordWrite(p) == [kind |-> "record", value |-> p]
PointerWrite(a, f) == [kind |-> "pointer", value |-> [active |-> a.id, fallback |-> f.id]]
ControlWrite(e, u) == [kind |-> "control", value |-> [ewma |-> e, until |-> u]]
InTurn(writes) == [i \in DOMAIN writes |-> {writes[i]}]

PolicyInit == /\ recs = <<>> /\ pointer = None /\ control = None
              /\ config \in Configs
              /\ active = Default /\ fallback = FirstFallback
              /\ shadow = None /\ canary = None /\ ewma = "none" /\ until = 0
              /\ todo = <<>> /\ after = "idle" /\ mode = "down"
              /\ now = 0 /\ made = 0 /\ judged = {} /\ restarts = 0

-----------------------------------------------------------------------------
\* One write reaches the disk.
Persist ==
    /\ mode = "up" /\ todo # <<>>
    /\ \E w \in Head(todo) :
         /\ recs' = IF w.kind = "record"
                    THEN [id \in DOMAIN recs \cup {w.value.id} |->
                             IF id = w.value.id THEN w.value ELSE recs[id]]
                    ELSE recs
         /\ pointer' = IF w.kind = "pointer" THEN w.value ELSE pointer
         /\ control' = IF w.kind = "control" THEN w.value ELSE control
         /\ todo' = IF Head(todo) = {w} THEN Tail(todo) ELSE <<Head(todo) \ {w}>> \o Tail(todo)
    /\ UNCHANGED <<fields, after, mode, config, now, made, judged, restarts>>

\* initialize without a pointer.
FirstStart ==
    /\ pointer = None
    /\ active' = Default' /\ fallback' = FirstFallback'
    /\ shadow' = None /\ canary' = None /\ ewma' = "none" /\ until' = 0
    /\ todo' = InTurn(<<RecordWrite(active'), RecordWrite(fallback'),
                        PointerWrite(active', fallback'), ControlWrite("none", 0)>>)

Named(id) == recs[id]
Stamped(p) == p.based = config'
Listed(state) == {recs[id] : id \in {i \in DOMAIN recs : recs[i].state = state}}

\* initialize with one: the two policies it names, the first of each list.
Load ==
    /\ pointer # None
    /\ Stamped(Named(pointer.active)) /\ Stamped(Named(pointer.fallback))
    /\ active' = Named(pointer.active)
    /\ fallback' = Named(pointer.fallback)
    /\ shadow' \in IF Listed("shadow") = {} THEN {None} ELSE Listed("shadow")
    /\ canary' \in IF Listed("canary") = {} THEN {None} ELSE Listed("canary")
    /\ ewma' = IF control = None THEN "none" ELSE control.ewma
    /\ until' = IF control = None THEN 0 ELSE control.until
    /\ todo' = <<>>

\* ... or a policy of another baseline: both are replaced and the rest is dropped.
Rebase ==
    /\ pointer # None
    /\ ~ (Stamped(Named(pointer.active)) /\ Stamped(Named(pointer.fallback)))
    /\ \E kept \in SUBSET Named(pointer.active).changes : \* the configured parameters win
         active' = Policy(<<"rebase", pointer.active, config'>>, "active", kept, config')
    /\ fallback' = Policy(<<"fallback", config'>>, "fallback", active'.changes, config')
    /\ shadow' = None /\ canary' = None /\ ewma' = "none" /\ until' = 0
    /\ todo' = InTurn(<<RecordWrite(active'), RecordWrite(fallback'),
                        PointerWrite(active', fallback'), ControlWrite("none", 0)>>)

Initialize ==
    /\ mode = "down" /\ mode' = "up"
    /\ config' \in Configs
    /\ FirstStart \/ Load \/ Rebase
    /\ after' = "idle"
    /\ UNCHANGED <<disk, now, made, judged, restarts>>

ServiceDies ==
    /\ mode = "up" /\ restarts < RestartLimit
    /\ mode' = "down" /\ restarts' = restarts + 1
    /\ todo' = <<>>
    /\ UNCHANGED <<disk, fields, after, config, now, made, judged>>

Tick == /\ now < ClockLimit /\ now' = now + 1
        /\ UNCHANGED <<disk, fields, todo, after, mode, config, made, judged, restarts>>

-----------------------------------------------------------------------------
\* The maintenance job.
Turn(pc) == mode = "up" /\ todo = <<>> /\ after = pc
Cooling == now < until
Frame == UNCHANGED <<disk, mode, config, now, restarts>>

\* The average moves a quarter of the way to what is measured.
Blend(m) == IF ewma \in {"none", m} THEN {m} ELSE {"safe", "unsafe"}

\* observeCanary up to persistControl, on the canary or on the active policy.
ObserveCanary ==
    /\ Turn("idle")
    /\ canary # None \/ shadow = None
    /\ \E m \in {"safe", "unsafe"} : ewma' \in Blend(m)
    /\ todo' = InTurn(<<ControlWrite(ewma', until)>>)
    /\ after' = IF canary # None THEN "judgeCanary" ELSE "judgeActive"
    /\ judged' = IF canary # None /\ ewma' = "safe" THEN judged \cup canary.changes ELSE judged
    /\ UNCHANGED <<active, fallback, shadow, canary, until, made>> /\ Frame

\* An unsafe canary is degraded.
DegradeCanary ==
    /\ Turn("judgeCanary") /\ ewma = "unsafe"
    /\ canary' = None
    /\ until' = now + 1
    /\ todo' = InTurn(<<RecordWrite(InState(canary, "degraded")), ControlWrite(ewma, until')>>)
    /\ after' = "idle"
    /\ UNCHANGED <<active, fallback, shadow, ewma, made, judged>> /\ Frame

\* Mutant: the verdict on the canary is not looked at.
SafeAnyway == ewma # "none"
Safe == ewma = "safe"
\* A safe one with enough samples is activated.
Activate ==
    /\ Turn("judgeCanary") /\ Safe
    /\ fallback' = InState(active, "fallback")
    /\ active' = InState(canary, "active")
    /\ canary' = None /\ ewma' = "none"
    /\ todo' = <<{RecordWrite(fallback'), RecordWrite(active')}, {PointerWrite(active', fallback')},
                 {ControlWrite("none", until)}>>
    /\ after' = "idle"
    /\ UNCHANGED <<shadow, until, made, judged>> /\ Frame

TooFewSamples ==
    /\ Turn("judgeCanary") /\ Safe
    /\ after' = "idle"
    /\ UNCHANGED <<fields, todo, made, judged>> /\ Frame

\* rollback, of an active policy that is unsafe; not one of state "active" in a cooldown.
Rollback ==
    /\ Turn("judgeActive") /\ ewma = "unsafe"
    /\ ~ (active.state = "active" /\ Cooling)
    /\ active' = InState(fallback, "active")
    /\ fallback' = InState(active, "degraded")
    /\ canary' = None
    /\ until' = now + 1
    /\ todo' = <<{RecordWrite(fallback'), RecordWrite(active')}, {PointerWrite(active', fallback')},
                 {ControlWrite(ewma, until')}>>
    /\ after' = "idle"
    /\ UNCHANGED <<shadow, ewma, made, judged>> /\ Frame

\* optimize: two drafts, of which at most one improves; the others are retired.
Draft(n) == Policy(<<"candidate", n>>, "draft", active.changes \cup {n}, None)
Optimize ==
    /\ \/ Turn("judgeActive") /\ (ewma # "unsafe" \/ (active.state = "active" /\ Cooling))
       \/ Turn("idle") /\ canary = None /\ shadow = None
    /\ after' = "idle"
    /\ \/ UNCHANGED <<shadow, todo, made>> \* cooling, or a baseline that exposes what it must not
       \/ LET drafts == {made + 1, made + 2} IN
            /\ ~Cooling /\ made + 2 <= DraftLimit
            /\ made' = made + 2
            /\ \E best \in drafts \cup {None} :
                 LET retired == {RecordWrite(InState(Draft(n), "retired")) : n \in drafts \ {best}} IN
                 /\ shadow' = IF best = None THEN None ELSE InState(Draft(best), "shadow")
                 /\ todo' = <<{RecordWrite(Draft(n)) : n \in drafts}, retired>>
                            \o (IF best = None THEN <<>> ELSE <<{RecordWrite(shadow')}>>)
    /\ UNCHANGED <<active, fallback, canary, ewma, until, judged>> /\ Frame

\* promoteToCanary, of a shadow that beats the active policy in a replay.
Promote ==
    /\ Turn("idle") /\ canary = None /\ shadow # None /\ ~Cooling
    /\ shadow' = None /\ canary' = InState(shadow, "canary") /\ ewma' = "none"
    /\ todo' = InTurn(<<RecordWrite(canary'), ControlWrite("none", until)>>)
    /\ UNCHANGED <<active, fallback, until, after, made, judged>> /\ Frame

PolicyNext ==
    \/ Persist \/ Initialize \/ ServiceDies \/ Tick
    \/ ObserveCanary \/ DegradeCanary \/ Activate \/ TooFewSamples \/ Rollback \/ Optimize \/ Promote
PolicySpec == PolicyInit /\ [][PolicyNext]_policyVars

-----------------------------------------------------------------------------
States == {"draft", "shadow", "canary", "active", "fallback", "degraded", "retired"}
\* Every variable holds a value of its type.
PolicyTypeOK ==
    /\ \A id \in DOMAIN recs : recs[id].id = id /\ recs[id].state \in States
    /\ pointer = None \/ {pointer.active, pointer.fallback} \subseteq DOMAIN recs
    /\ \A p \in {active, fallback, shadow, canary} : p = None \/ p.state \in States
    /\ ewma \in {"none", "safe", "unsafe"}
    /\ until \in 0 .. ClockLimit + 1

\* Whatever the process died in the middle of, the policy that serves every
\* request, the one a restart would load and the one a rollback would restore
\* hold no learned change that was not found safe as a canary.
ServedAreJudged ==
    /\ active.changes \subseteq judged /\ fallback.changes \subseteq judged
    /\ pointer # None => /\ Named(pointer.active).changes \subseteq judged
                         /\ Named(pointer.fallback).changes \subseteq judged

\* What is stored is whole, and only proven policies serve.
OnlyProvenServes == PolicyTypeOK /\ ServedAreJudged
=============================================================================
