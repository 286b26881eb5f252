------------------------------ MODULE StoreGuard ------------------------------
(***************************************************************************)
(* The guard of every operation of the Zvec store (zvec-storage/src/store.ts *)
(* 253-306 and 666-759): the gate of the ZvecStore object, the gate of the   *)
(* root directory in the process, and the file lock between processes.      *)
(* Inside, the collections an earlier guard left open are closed and the     *)
(* manifest is read again, so that what another process changed is seen.    *)
(*                                                                         *)
(* The file lock (proper-lockfile) is external: its lease goes stale when    *)
(* the holder dies or stalls, a stalled holder learns of it later, and its   *)
(* release removes whatever lock is there.  A process can hold several       *)
(* stores of one root, because resetSharedStores forgets the live ones.      *)
(***************************************************************************)
EXTENDS Naturals, Sequences, FiniteSets

CONSTANTS Slots,     \* slots of operations
          Stores,    \* ZvecStore objects on one root directory
          StoreOf,   \* slot -> store
          Processes,
          ProcessOf, \* store -> process
          Nil,      \* no manifest, no holder of the lock
          Stale,     \* the lock of a dead process, past its lease
          MaxCalls, MaxFaults \* bounds: calls in all; crashes and stalls together

ASSUME GuardAssumption ==
    /\ IsFiniteSet(Slots)
    /\ StoreOf \in [Slots -> Stores]
    /\ ProcessOf \in [Stores -> Processes]
    /\ MaxCalls \in Nat
    /\ {Nil, Stale} \cap Slots = {}
    /\ \A changes \in SUBSET (Slots \X (1 .. MaxCalls)) : changes # Nil

VARIABLES manifest,    \* on disk: the changes it holds, or Nil
          cached,      \* store -> #manifest
          compromised, \* store -> #compromised
          gate,        \* store -> the operations on #accessGuardGate
          root,        \* process -> the operations on the gate of the root
          lock,        \* who holds .writer
          lost,        \* operations whose lease went stale while they were inside
          at, kind,    \* slot -> where its operation is, and which one it is
          calls,       \* slot -> calls made
          acked,       \* changes reported to their callers
          crashes, stalls

guardVars == <<manifest, cached, compromised, gate, root, lock, lost, at, kind, calls, acked,
               crashes, stalls>>

Proc(o) == ProcessOf[StoreOf[o]]
\* start's two guards, a search, a change of the manifest.
OpKinds == {"start", "init", "read", "change"}
Inside == {o \in Slots : at[o] \in {"refresh", "body", "leave"}}
Change(o) == <<o, calls[o]>>
Calls == Slots \X (1 .. MaxCalls)
Made == {c \in Calls : c[2] <= calls[c[1]]}

GuardInit == /\ manifest = Nil
             /\ cached = [s \in Stores |-> Nil]
             /\ compromised = [s \in Stores |-> FALSE]
             /\ gate = [s \in Stores |-> <<>>]
             /\ root = [p \in Processes |-> <<>>]
             /\ lock = Nil
             /\ lost = {}
             /\ at = [o \in Slots |-> "idle"]
             /\ kind = [o \in Slots |-> "start"]
             /\ calls = [o \in Slots |-> 0]
             /\ acked = {}
             /\ crashes = 0
             /\ stalls = 0

\* #withStoreGuard up to its first await: a compromised store refuses.
Queued(o, k) ==
    LET s == StoreOf[o] IN
    IF compromised[s]
    THEN /\ at' = [at EXCEPT ![o] = "failed"]
         /\ UNCHANGED <<gate, kind>>
    ELSE /\ at' = [at EXCEPT ![o] = "gate"]
         /\ gate' = [gate EXCEPT ![s] = Append(@, o)]
         /\ kind' = [kind EXCEPT ![o] = k]

\* A call: the store has been started when it is read or changed.
CallStore(o) ==
    /\ at[o] \in {"idle", "done", "failed"} /\ Cardinality(Made) < MaxCalls
    /\ calls' = [calls EXCEPT ![o] = calls[o] + 1]
    /\ \E k \in OpKinds \ {"init"} :
         /\ (k = "start") = (cached[StoreOf[o]] = Nil)
         /\ Queued(o, k)
    /\ UNCHANGED <<manifest, cached, compromised, root, lock, lost, acked, crashes, stalls>>

\* await gate; acquireLocalRootAccess.
PassGate(o) ==
    /\ at[o] = "gate" /\ Head(gate[StoreOf[o]]) = o
    /\ at' = [at EXCEPT ![o] = "root"]
    /\ root' = [root EXCEPT ![Proc(o)] = Append(@, o)]
    /\ UNCHANGED <<manifest, cached, compromised, gate, lock, lost, kind, calls, acked, crashes, stalls>>

\* The previous tail of the root's gate is resolved; lockfile.lock starts.
PassRoot(o) ==
    /\ at[o] = "root" /\ Head(root[Proc(o)]) = o
    /\ at' = [at EXCEPT ![o] = "lock"]
    /\ UNCHANGED <<manifest, cached, compromised, gate, root, lock, lost, kind, calls, acked, crashes, stalls>>

\* lockfile.lock succeeds; the lock of a dead process only once it is stale.
TakeLock(o) ==
    /\ at[o] = "lock" /\ lock \in {Nil, Stale}
    /\ lock' = o
    /\ at' = [at EXCEPT ![o] = "refresh"]
    /\ UNCHANGED <<manifest, cached, compromised, gate, root, lost, kind, calls, acked, crashes, stalls>>

\* Mutant: a lock that is not obtained leaves the gates closed.
UnqueuedNever(o) == o \in Slots /\ UNCHANGED <<gate, root>>
\* The two gates are released, in a finally.
Unqueued(o) == /\ gate' = [gate EXCEPT ![StoreOf[o]] = Tail(@)]
               /\ root' = [root EXCEPT ![Proc(o)] = Tail(@)]

\* The retries of lockfile.lock are used up.
GiveUp(o) ==
    /\ at[o] = "lock" /\ lock # Nil
    /\ at' = [at EXCEPT ![o] = "failed"]
    /\ Unqueued(o)
    /\ UNCHANGED <<manifest, cached, compromised, lock, lost, kind, calls, acked, crashes, stalls>>

\* Mutant: the manifest of an earlier operation is used.
FreshCached(o) == IF cached[StoreOf[o]] = Nil THEN manifest ELSE cached[StoreOf[o]]
\* readActiveManifest after the lock: a missing file leaves the cached one.
Fresh(o) == IF manifest = Nil THEN cached[StoreOf[o]] ELSE manifest
Refresh(o) ==
    /\ at[o] = "refresh"
    /\ cached' = [cached EXCEPT ![StoreOf[o]] = Fresh(o)]
    /\ at' = [at EXCEPT ![o] = "body"]
    /\ UNCHANGED <<manifest, compromised, gate, root, lock, lost, kind, calls, acked, crashes, stalls>>

\* start, in its write guard, reads again before it writes the first manifest.
Initialized == IF manifest = Nil THEN {} ELSE manifest
\* The operation itself.  A change of the manifest is computed from the cached one.
Body(o) ==
    LET s == StoreOf[o] IN
    /\ at[o] = "body"
    /\ manifest' = CASE kind[o] = "init"   -> Initialized
                     [] kind[o] = "change" -> cached[s] \cup {Change(o)}
                     [] OTHER              -> manifest
    /\ cached' = [cached EXCEPT ![s] = IF kind[o] = "read" THEN @ ELSE manifest']
    /\ at' = [at EXCEPT ![o] = "leave"]
    /\ UNCHANGED <<compromised, gate, root, lock, lost, kind, calls, acked, crashes, stalls>>

\* The finally: release() removes the lock that is there, unless the library
\* has already told that the lease was lost.
Released(o) == IF o \in lost /\ compromised[StoreOf[o]] THEN lock ELSE Nil

\* start goes on to its write guard when it found no manifest.
Leave(o) ==
    /\ at[o] = "leave"
    /\ lock' = Released(o)
    /\ lost' = lost \ {o}
    /\ root' = [root EXCEPT ![Proc(o)] = Tail(@)]
    /\ IF kind[o] = "start" /\ cached[StoreOf[o]] = Nil /\ ~compromised[StoreOf[o]]
       THEN /\ at' = [at EXCEPT ![o] = "gate"]
            /\ kind' = [kind EXCEPT ![o] = "init"]
            /\ gate' = [gate EXCEPT ![StoreOf[o]] = Append(Tail(@), o)]
            /\ UNCHANGED acked
       ELSE /\ at' = [at EXCEPT ![o] = IF cached[StoreOf[o]] = Nil THEN "failed" ELSE "done"]
            /\ gate' = [gate EXCEPT ![StoreOf[o]] = Tail(@)]
            /\ acked' = IF kind[o] = "change" THEN acked \cup {Change(o)} ELSE acked
            /\ UNCHANGED kind
    /\ UNCHANGED <<manifest, cached, compromised, calls, crashes, stalls>>

\* The event loop of the holder stalls past the lease.
LoseLease(o) ==
    /\ lock = o /\ crashes + stalls < MaxFaults
    /\ stalls' = stalls + 1
    /\ lock' = Stale
    /\ lost' = lost \cup {o}
    /\ UNCHANGED <<manifest, cached, compromised, gate, root, at, kind, calls, acked, crashes>>

\* onCompromised: nothing in the repository clears the flag again.
Notice(o) ==
    /\ o \in lost
    /\ compromised' = [compromised EXCEPT ![StoreOf[o]] = TRUE]
    /\ UNCHANGED <<manifest, cached, gate, root, lock, lost, at, kind, calls, acked, crashes, stalls>>

\* A process dies and is started again; its lock stays until it is stale.
ProcessDies(p) ==
    LET mine == {o \in Slots : Proc(o) = p} IN
    /\ crashes + stalls < MaxFaults
    /\ crashes' = crashes + 1
    /\ at' = [o \in Slots |-> IF o \in mine THEN "idle" ELSE at[o]]
    /\ lock' = IF lock \in mine THEN Stale ELSE lock
    /\ lost' = lost \ mine
    /\ root' = [root EXCEPT ![p] = <<>>]
    /\ gate' = [s \in Stores |-> IF ProcessOf[s] = p THEN <<>> ELSE gate[s]]
    /\ cached' = [s \in Stores |-> IF ProcessOf[s] = p THEN Nil ELSE cached[s]]
    /\ compromised' = [s \in Stores |-> ProcessOf[s] # p /\ compromised[s]]
    /\ UNCHANGED <<manifest, kind, calls, acked, stalls>>

GuardStep(o) == \/ PassGate(o) \/ PassRoot(o) \/ TakeLock(o) \/ GiveUp(o)
                \/ Refresh(o) \/ Body(o) \/ Leave(o)
GuardNext == \/ \E o \in Slots : CallStore(o) \/ GuardStep(o) \/ LoseLease(o) \/ Notice(o)
             \/ \E p \in Processes : ProcessDies(p)

\* The steps of an operation end; lockfile.lock has a bounded number of retries.
GuardFairness == \A o \in Slots : WF_guardVars(GuardStep(o))
GuardSpec == GuardInit /\ [][GuardNext]_guardVars /\ GuardFairness

-----------------------------------------------------------------------------
\* Every variable holds a value of its type.
GuardTypeOK ==
    /\ cached \in [Stores -> (SUBSET Calls) \cup {Nil}]
    /\ lock \in Slots \cup {Nil, Stale}
    /\ at \in [Slots -> {"idle", "gate", "root", "lock", "refresh", "body", "leave", "done", "failed"}]
    /\ kind \in [Slots -> OpKinds]

\* Operations of all stores of all processes exclude each other, and each works
\* with the manifest that is on disk, until a lease is lost.
OneInsideAndFresh ==
    stalls = 0 => /\ Cardinality(Inside) <= 1
                  /\ \A o \in Inside : at[o] = "body" => cached[StoreOf[o]] = manifest

\* A change reported to its caller stays in the manifest, through the writes of
\* other processes, a second initialization and crashes, until a lease is lost.
ReportedChangesStay == stalls = 0 => acked = {} \/ (manifest # Nil /\ acked \subseteq manifest)

\* Operations exclude each other, see the manifest as it is on disk, and what they
\* reported stays.
ExclusiveAndFresh == GuardTypeOK /\ OneInsideAndFresh /\ ReportedChangesStay

\* Every operation ends: no gate is held for ever, not by one that failed, that
\* crashed or that lost its lease.
EveryOperationEnds == <>[](\A o \in Slots : at[o] \in {"done", "failed", "idle"})
=============================================================================
