----------------------------- MODULE MemoryCommit -----------------------------
(***************************************************************************)
(* What DefaultMemoryService writes to the memories of one namespace          *)
(* (memory/src/service.ts, temporal.ts, views.ts): commit behind the          *)
(* idempotency key and the namespace lock, the transitions of the memories it  *)
(* replaces, the slow consolidation of two stored memories, and the writers    *)
(* that take no lock.  A call is cut at every operation of the store, where    *)
(* other calls run and the process can die.                                   *)
(*                                                                         *)
(* The learning work that follows a commit is RelationshipLearning.tla; the  *)
(* atomicity of one revisioned record (idempotency results, the view) is what *)
(* StateStore.tla shows.                                                     *)
(***************************************************************************)
EXTENDS Naturals, Sequences, FiniteSets

CONSTANTS Callers,     \* concurrent calls of the service
          Contents,    \* normalized contents
          Keys,        \* idempotency keys
          Marks,       \* statuses that calls without the lock write
          Nothing,
          StoredContents, \* contents of the active memories there are at the start
          CommitLimit, CrashLimit, RepairLimit \* bounds

\* The namespace starts without duplicates, as the service leaves it.
ASSUME MemoryAssumption ==
    /\ StoredContents \in Seq(Contents)
    /\ \A i, j \in DOMAIN StoredContents : StoredContents[i] = StoredContents[j] => i = j
    /\ Marks \subseteq {"tombstoned", "conflicted", "rejected"}
    /\ Nothing \notin Callers \cup Contents \cup Keys \cup [content : Contents, id : Nat]
    /\ CrashLimit \in Nat

VARIABLES recs,    \* the memories, in order of creation (and of observedAt)
          idem,    \* key -> the persisted result, or Nothing
          running, \* key -> the call the process is running for it, or Nothing
          lock,    \* the promise chain of the namespace
          call,    \* caller -> its call
          view,    \* the materialized view: [rev, facts]
          repair,  \* repairViews between its read and its put, or Nothing
          effects, \* key -> records created or reinforced under it
          unseen,  \* memories whose commit a crash cut before the view
          calls, crashes, repairs

memoryVars == <<recs, idem, running, lock, call, view, repair, effects, unseen, calls, crashes, repairs>>

Ids == 1 .. Len(recs)
Returned == [pc |-> "idle"]
FreeCaller(p) == call[p] = Returned

MemoryInit ==
    /\ recs = [i \in DOMAIN StoredContents |->
                   [content |-> StoredContents[i], status |-> "active", by |-> 0]]
    /\ idem = [k \in Keys |-> Nothing]
    /\ running = [k \in Keys |-> Nothing]
    /\ lock = <<>>
    /\ call = [p \in Callers |-> Returned]
    /\ view = [rev |-> 0, facts |-> [i \in DOMAIN StoredContents |-> "current"]]
    /\ repair = Nothing
    /\ effects = [k \in Keys |-> 0]
    /\ unseen = {}
    /\ calls = 0
    /\ crashes = 0
    /\ repairs = 0

CallAt(p, pc) == call[p].pc = pc
Goto(p, pc) == call' = [call EXCEPT ![p].pc = pc]
Returns(p) == call' = [call EXCEPT ![p] = Returned]
\* Mutant: a call does not wait for the one before it.
HoldsUnwaited(p) == p \in Callers
Holds(p) == lock # <<>> /\ Head(lock) = p
Active(i) == recs[i].status = "active"
\* What a call has fetched: the records by their ids.
Read(ids) == [i \in ids |-> recs[i]]

Begins(p, c) == /\ FreeCaller(p) /\ calls < CommitLimit
                /\ calls' = calls + 1
                /\ call' = [call EXCEPT ![p] = c]

-----------------------------------------------------------------------------
\* commit: with a key it first looks for what the key already did.  The evidence
\* names what the new memory does to one stored memory.
CommitCall(p) ==
    \E c \in Contents, k \in Keys \cup {Nothing},
       e \in {[relation |-> "coexist", targets |-> {}]} \cup
             [relation : {"supersede", "retract"}, targets : {{i} : i \in Ids}] :
        /\ Begins(p, [pc |-> IF k = Nothing THEN "exact" ELSE "idem", kind |-> "commit",
                      content |-> c, key |-> k, relation |-> e.relation,
                      targets |-> e.targets, id |-> 0, copy |-> Read({})])
        /\ lock' = IF k = Nothing THEN Append(lock, p) ELSE lock
        /\ UNCHANGED <<recs, idem, running, view, repair, effects, unseen, crashes, repairs>>

Runs(k) == running[k] # Nothing
\* The persisted result answers, or refuses another command; a call that is
\* running answers for both; otherwise this call runs.
CheckKey(p) ==
    /\ CallAt(p, "idem")
    /\ LET k == call[p].key IN
       IF idem[k] # Nothing
       THEN /\ Returns(p)
            /\ UNCHANGED <<running, lock>>
       ELSE IF Runs(k)
       THEN Goto(p, "joined") /\ UNCHANGED <<running, lock>>
       ELSE /\ running' = [running EXCEPT ![k] = p]
            /\ lock' = Append(lock, p)
            /\ Goto(p, "exact")
    /\ UNCHANGED <<recs, idem, view, repair, effects, unseen, calls, crashes, repairs>>

\* Mutant: a provider that fails leaves the lock where it is.
ReleaseUnfailed(p) == lock' = IF CallAt(p, "embed") THEN lock ELSE Tail(lock)
\* The end of a call that holds the lock; the result of a keyed commit is
\* persisted after the lock is released.
Release(p) == lock' = Tail(lock)
Leaves(p) == /\ Release(p)
             /\ IF call[p].key = Nothing THEN Returns(p) ELSE Goto(p, "remember")

\* The same content in an active memory: it is reinforced.
FindExact(p) ==
    /\ CallAt(p, "exact") /\ Holds(p)
    /\ LET same == {i \in Ids : Active(i) /\ recs[i].content = call[p].content} IN
       IF same = {} THEN Goto(p, "embed")
       ELSE \E i \in same : call' = [call EXCEPT ![p].pc = "fetch", ![p].id = i,
                                                        ![p].targets = {}]
    /\ UNCHANGED <<recs, idem, running, lock, view, repair, effects, unseen, calls, crashes, repairs>>

FetchExact(p) ==
    /\ CallAt(p, "fetch")
    /\ call' = [call EXCEPT ![p].pc = "reinforce", ![p].copy = Read({call[p].id})]
    /\ UNCHANGED <<recs, idem, running, lock, view, repair, effects, unseen, calls, crashes, repairs>>

Count(p) == effects' = IF call[p].key = Nothing THEN effects
                       ELSE [effects EXCEPT ![call[p].key] = @ + 1]

\* The whole record is written from the copy that was fetched.
Reinforce(p) ==
    /\ CallAt(p, "reinforce")
    /\ recs' = [recs EXCEPT ![call[p].id] = call[p].copy[call[p].id]]
    /\ Count(p)
    /\ Leaves(p)
    /\ UNCHANGED <<idem, running, view, repair, unseen, calls, crashes, repairs>>

\* The embedding of new content: the provider answers or fails, and the lock is
\* released either way.
Embed(p) ==
    /\ CallAt(p, "embed")
    /\ Goto(p, "insert")
    /\ UNCHANGED <<recs, idem, running, lock, view, repair, effects, unseen, calls, crashes, repairs>>

\* The promise of a keyed commit settles, for all who wait for it.
Joined(q, k) == CallAt(q, "joined") /\ call[q].key = k
Settle(p) ==
    LET k == call[p].key IN
    /\ running' = [running EXCEPT ![k] = Nothing]
    /\ call' = [q \in Callers |-> IF q = p \/ Joined(q, k) THEN Returned ELSE call[q]]

EmbedFails(p) ==
    /\ CallAt(p, "embed")
    /\ Release(p)
    /\ IF call[p].key = Nothing THEN Returns(p) /\ UNCHANGED running ELSE Settle(p)
    /\ UNCHANGED <<recs, idem, view, repair, effects, unseen, calls, crashes, repairs>>

Insert(p) ==
    /\ CallAt(p, "insert")
    /\ recs' = Append(recs, [content |-> call[p].content, status |-> "active", by |-> 0])
    /\ call' = [call EXCEPT ![p].pc = "targets", ![p].id = Len(recs) + 1]
    /\ Count(p)
    /\ UNCHANGED <<idem, running, lock, view, repair, unseen, calls, crashes, repairs>>

\* applyTargetTransitions: fetches the targets and writes them whole.
ReadTargets(p) ==
    /\ CallAt(p, "targets")
    /\ IF call[p].relation \in {"supersede", "retract"}
       THEN call' = [call EXCEPT ![p].pc = "transition",
                                 ![p].copy = Read(call[p].targets)]
       ELSE Goto(p, "view")
    /\ UNCHANGED <<recs, idem, running, lock, view, repair, effects, unseen, calls, crashes, repairs>>

Replaced(p, r) == IF call[p].relation = "supersede"
                  THEN [r EXCEPT !.status = "superseded", !.by = call[p].id]
                  ELSE [r EXCEPT !.status = "tombstoned"]

WriteTargets(p) ==
    /\ CallAt(p, "transition")
    /\ recs' = [i \in Ids |-> IF i \in call[p].targets
                              THEN Replaced(p, call[p].copy[i]) ELSE recs[i]]
    /\ call' = [call EXCEPT ![p].pc = "view", ![p].copy = Read({})]
    /\ UNCHANGED <<idem, running, lock, view, repair, effects, unseen, calls, crashes, repairs>>

\* views.enqueueMemory: one compare-and-swap on the view, from the record as
\* this call wrote it.  The targets are not touched.
Fact(status) == IF status = "active" THEN "current" ELSE "historical"
Noted(f, i, status) == [j \in DOMAIN f \cup {i} |-> IF j = i THEN Fact(status) ELSE f[j]]

EnqueueView(p) ==
    /\ CallAt(p, "view")
    /\ view' = [rev |-> view.rev + 1,
                facts |-> Noted(view.facts, call[p].id,
                                IF call[p].relation = "reinforce" THEN "superseded"
                                ELSE "active")]
    /\ Leaves(p)
    /\ UNCHANGED <<recs, idem, running, repair, effects, unseen, calls, crashes, repairs>>

Remember(p) ==
    /\ CallAt(p, "remember")
    /\ idem' = [idem EXCEPT ![call[p].key] = [content |-> call[p].content, id |-> call[p].id]]
    /\ Settle(p)
    /\ UNCHANGED <<recs, lock, view, repair, effects, unseen, calls, crashes, repairs>>

-----------------------------------------------------------------------------
\* consolidateRelationship: a decision on two stored memories, under the lock.
Consolidate(p) ==
    \E i \in Ids, t \in Ids, r \in {"reinforce", "supersede", "retract"} :
        /\ i # t
        /\ Begins(p, [pc |-> "check", kind |-> "consolidate", content |-> Nothing, key |-> Nothing,
                      relation |-> r, targets |-> {t}, id |-> i, copy |-> Read({})])
        /\ lock' = Append(lock, p)
        /\ UNCHANGED <<recs, idem, running, view, repair, effects, unseen, crashes, repairs>>

Target(p) == CHOOSE t \in call[p].targets : TRUE

Fits(p) == /\ Active(call[p].id) /\ Active(Target(p))
           /\ call[p].relation # "reinforce" => Target(p) < call[p].id
\* Both are active, and an older memory replaces no newer one.
CheckConsolidation(p) ==
    /\ CallAt(p, "check") /\ Holds(p)
    /\ IF Fits(p)
       THEN /\ call' = [call EXCEPT ![p].pc = "consolidate",
                                    ![p].copy = Read({call[p].id, Target(p)})]
            /\ UNCHANGED lock
       ELSE Leaves(p)
    /\ UNCHANGED <<recs, idem, running, view, repair, effects, unseen, calls, crashes, repairs>>

\* A reinforcement writes both at once; otherwise the incoming memory is
\* written first and its targets after it, as in a commit.
WriteConsolidation(p) ==
    /\ CallAt(p, "consolidate")
    /\ IF call[p].relation = "reinforce"
       THEN /\ recs' = [recs EXCEPT
                   ![Target(p)] = call[p].copy[Target(p)],
                   ![call[p].id] = [call[p].copy[call[p].id] EXCEPT !.status = "superseded",
                                                          !.by = Target(p)]]
            /\ Goto(p, "view")
       ELSE /\ recs' = [recs EXCEPT ![call[p].id] = call[p].copy[call[p].id]]
            /\ Goto(p, "targets")
    /\ UNCHANGED <<idem, running, lock, view, repair, effects, unseen, calls, crashes, repairs>>

-----------------------------------------------------------------------------
\* tombstone, markConflicted and abandonBranch: a read and a write, no lock.
MarkCall(p) ==
    \E i \in Ids, s \in Marks :
        /\ s = "rejected" => Active(i)
        /\ Begins(p, [pc |-> "mark", kind |-> s, content |-> Nothing, key |-> Nothing,
                      relation |-> "none", targets |-> {}, id |-> i, copy |-> Read({i})])
        /\ UNCHANGED <<recs, idem, running, lock, view, repair, effects, unseen, crashes, repairs>>

WriteMark(p) ==
    /\ CallAt(p, "mark")
    /\ recs' = [recs EXCEPT ![call[p].id] = [call[p].copy[call[p].id] EXCEPT !.status = call[p].kind]]
    /\ Returns(p)
    /\ UNCHANGED <<idem, running, lock, view, repair, effects, unseen, calls, crashes, repairs>>

SameView == view.rev = repair.rev
\* repairViews: members are fetched, and the facts put if the view is the same.
RepairRead ==
    /\ repair = Nothing /\ repairs < RepairLimit
    /\ repair' = [rev |-> view.rev,
                  facts |-> [i \in DOMAIN view.facts |-> Fact(recs[i].status)]]
    /\ repairs' = repairs + 1
    /\ UNCHANGED <<recs, idem, running, lock, call, view, effects, unseen, calls, crashes>>

RepairPut ==
    /\ repair # Nothing
    /\ view' = IF SameView
               THEN [rev |-> view.rev + 1, facts |-> repair.facts] ELSE view
    /\ repair' = Nothing
    /\ UNCHANGED <<recs, idem, running, lock, call, effects, unseen, calls, crashes, repairs>>

\* The process dies: what is in memory is gone, the store stays.
Crash ==
    /\ crashes < CrashLimit
    /\ crashes' = crashes + 1
    /\ unseen' = unseen \cup {call[p].id : p \in {q \in Callers :
                     ~ FreeCaller(q) /\ call[q].pc \in {"targets", "transition", "view"}}}
    /\ running' = [k \in Keys |-> Nothing]
    /\ lock' = <<>>
    /\ call' = [p \in Callers |-> Returned]
    /\ repair' = Nothing
    /\ UNCHANGED <<recs, idem, view, effects, calls, repairs>>

CallStep(p) ==
    \/ CheckKey(p) \/ FindExact(p) \/ FetchExact(p) \/ Reinforce(p) \/ Embed(p) \/ EmbedFails(p)
    \/ Insert(p) \/ ReadTargets(p) \/ WriteTargets(p) \/ EnqueueView(p) \/ Remember(p)
    \/ CheckConsolidation(p) \/ WriteConsolidation(p) \/ WriteMark(p)

MemoryNext ==
    \/ \E p \in Callers : CommitCall(p) \/ Consolidate(p) \/ MarkCall(p) \/ CallStep(p)
    \/ RepairRead \/ RepairPut \/ Crash

\* The event loop goes on with every call that can go on.
MemoryFairness == \A p \in Callers : WF_memoryVars(CallStep(p))

MemorySpec == MemoryInit /\ [][MemoryNext]_memoryVars /\ MemoryFairness

-----------------------------------------------------------------------------
Statuses == {"active", "superseded", "tombstoned", "conflicted", "rejected"}

\* Every variable holds a value of its type.
MemoryTypeOK ==
    /\ \A i \in Ids : recs[i] \in [content : Contents, status : Statuses, by : 0 .. Len(recs)]
    /\ running \in [Keys -> Callers \cup {Nothing}] /\ effects \in [Keys -> Nat]
    /\ \A k \in Keys : idem[k] # Nothing => idem[k].id \in Ids
    /\ \A p \in Callers : call[p].pc # "idle" => call[p].id \in 0 .. Len(recs)
    /\ DOMAIN view.facts \subseteq Ids
    /\ unseen \subseteq Ids

\* However commits, consolidations, unlocked writers and crashes interleave, no
\* two active memories of a namespace have the same content.
ActiveContentIsUnique ==
    \A i, j \in Ids : Active(i) /\ Active(j) /\ recs[i].content = recs[j].content => i = j

\* Memories never replace each other in a circle, so what was superseded leads
\* to a memory that was not.
SupersededLeadsOut ==
    LET old == {i \in Ids : recs[i].status = "superseded"} IN
    \A s \in (SUBSET old) \ {{}} : \E i \in s : recs[i].by \notin s

\* Calls with one key write once, and once more for each crash between the
\* write and the persisted result.
KeyHasOneEffect == \A k \in Keys : effects[k] <= 1 + crashes

\* The view lists every memory whose commit went to its end: neither a
\* concurrent commit nor a repair that read before it takes a fact away.
ViewKnowsEveryCommit ==
    \A i \in Ids \ unseen :
        i \in DOMAIN view.facts
          \/ \E p \in Callers : call[p].pc \in {"targets", "transition", "view"} /\ call[p].id = i

\* The memories of a namespace, their history, what a key did and what the view lists stay
\* consistent, however commits, consolidations, unlocked writers and crashes interleave.
MemoriesAreSound == /\ MemoryTypeOK /\ ActiveContentIsUnique /\ SupersededLeadsOut
                    /\ KeyHasOneEffect /\ ViewKnowsEveryCommit

\* Every call returns, also when the provider fails under the lock.
EveryCallReturns == <>[](\A p \in Callers : FreeCaller(p))
=============================================================================
