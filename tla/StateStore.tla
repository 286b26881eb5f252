------------------------------ MODULE StateStore ------------------------------
(***************************************************************************)
(* ZvecStateStore (zvec-storage/src/state.ts): revisioned records kept in a *)
(* scalar collection.  mutate reads a record, applies a reducer and puts the *)
(* result under the revision it read, again after a conflict; put reads the *)
(* record, compares revisions and writes, behind a promise chain that belongs *)
(* to the identifier AND to the instance of the class.  Every read and every *)
(* write is one guarded operation of the store underneath, so calls that go  *)
(* through different instances meet between the two.                       *)
(***************************************************************************)
EXTENDS Naturals, Sequences

CONSTANTS Clients,      \* callers of put and mutate
          Keys,         \* identifiers of records
          Instances,    \* ZvecStateStore objects over the same store
          Owner,        \* caller -> the instance it calls
          Kinds,        \* kinds of calls: "mutate", "put"
          Expectations, \* the expectedRevision options of put
          Any,          \* no expectedRevision
          MaxRetries,   \* options.maxRetries of mutate (8 in the code)
          CallLimit     \* bound: calls of one caller

ASSUME StateStoreAssumption ==
    /\ Owner \in [Clients -> Instances]
    /\ Kinds \subseteq {"mutate", "put"}
    /\ MaxRetries \in Nat
    /\ CallLimit \in Nat
    /\ Expectations \subseteq Nat \cup {Any}
    /\ Any \notin Nat

VARIABLES rec,    \* the collection: identifier -> [val, rev]
          op,     \* caller -> the call it makes
          pc,     \* caller -> where that call is
          seen,   \* caller -> the record its reducer was given
          base,   \* caller -> the record put compared with
          tries,  \* caller -> attempts that ended in a revision conflict
          queue,  \* instance -> identifier -> callers on its promise chain
          made,   \* caller -> calls made so far
          foreign \* caller -> writes of others to its identifier, during its call

vars == <<rec, op, pc, seen, base, tries, queue, made, foreign>>

Unwritten == [val |-> {}, rev |-> 0]
Tokens == Clients \X (1 .. CallLimit)
Ops == [kind : Kinds, key : Keys, token : Tokens, expected : Expectations]

\* Each call writes something that tells it from every other one.
CallsOf(c) == {o \in Ops : o.token = <<c, made[c] + 1>>}

Init == /\ rec = [k \in Keys |-> Unwritten]
        /\ op = [c \in Clients |-> Any]
        /\ pc = [c \in Clients |-> "idle"]
        /\ seen = [c \in Clients |-> Unwritten]
        /\ base = [c \in Clients |-> Unwritten]
        /\ tries = [c \in Clients |-> 0]
        /\ queue = [i \in Instances |-> [k \in Keys |-> <<>>]]
        /\ made = [c \in Clients |-> 0]
        /\ foreign = [c \in Clients |-> 0]

Chain(c) == queue[Owner[c]][op[c].key]

\* put and mutate are called; put goes to the promise chain at once.
Call(c) ==
    /\ pc[c] \in {"idle", "ok", "failed"}
    /\ made[c] < CallLimit
    /\ \E o \in CallsOf(c) :
         /\ op' = [op EXCEPT ![c] = o]
         /\ pc' = [pc EXCEPT ![c] = IF o.kind = "mutate" THEN "read" ELSE "enqueue"]
    /\ made' = [made EXCEPT ![c] = made[c] + 1]
    /\ tries' = [tries EXCEPT ![c] = 0]
    /\ foreign' = [foreign EXCEPT ![c] = 0]
    /\ UNCHANGED <<rec, seen, base, queue>>

\* get of mutate: outside the promise chain.
Read(c) ==
    /\ pc[c] = "read"
    /\ seen' = [seen EXCEPT ![c] = rec[op[c].key]]
    /\ pc' = [pc EXCEPT ![c] = "enqueue"]
    /\ UNCHANGED <<rec, op, base, tries, queue, made, foreign>>

\* #exclusive: behind whoever is on the chain of this instance.
Enqueue(c) ==
    /\ pc[c] = "enqueue"
    /\ queue' = [queue EXCEPT ![Owner[c]] =
                    [queue[Owner[c]] EXCEPT ![op[c].key] = Append(Chain(c), c)]]
    /\ pc' = [pc EXCEPT ![c] = "wait"]
    /\ UNCHANGED <<rec, op, seen, base, tries, made, foreign>>

HoldsChain(c) == Chain(c) # <<>> /\ Head(Chain(c)) = c

ReleaseChain(c) ==
    queue' = [queue EXCEPT ![Owner[c]] =
                 [queue[Owner[c]] EXCEPT ![op[c].key] = Tail(Chain(c))]]

Expected(c) == IF op[c].kind = "mutate" THEN seen[c].rev ELSE op[c].expected

\* Mutant: no comparison of revisions.
ConflictsNever(c) == pc[c] # "wait"
\* Mutant: a record that was never written has no revision to agree with.
ConflictsAbsent(c) == Expected(c) \notin {Any, rec[op[c].key].rev} \/ rec[op[c].key].rev = 0
Conflicts(c) == Expected(c) \notin {Any, rec[op[c].key].rev}

\* get of put, and the comparison of revisions.
Compare(c) ==
    /\ pc[c] = "wait"
    /\ HoldsChain(c)
    /\ ~ Conflicts(c)
    /\ base' = [base EXCEPT ![c] = rec[op[c].key]]
    /\ pc' = [pc EXCEPT ![c] = "write"]
    /\ UNCHANGED <<rec, op, seen, tries, queue, made, foreign>>

\* StateRevisionConflictError: mutate starts over while it has attempts left.
Conflict(c) ==
    /\ pc[c] = "wait"
    /\ HoldsChain(c)
    /\ Conflicts(c)
    /\ ReleaseChain(c)
    /\ IF op[c].kind = "mutate" /\ tries[c] < MaxRetries
       THEN /\ tries' = [tries EXCEPT ![c] = tries[c] + 1]
            /\ pc' = [pc EXCEPT ![c] = "read"]
       ELSE /\ pc' = [pc EXCEPT ![c] = "failed"]
            /\ UNCHANGED tries
    /\ UNCHANGED <<rec, op, seen, base, made, foreign>>

\* The record put writes: one revision above the one it compared with.
Written(c) == [val |-> IF op[c].kind = "mutate"
                       THEN seen[c].val \cup {op[c].token} ELSE {op[c].token},
               rev |-> base[c].rev + 1]

\* upsertScalar of put, and the end of the call.
Write(c) ==
    /\ pc[c] = "write"
    /\ rec' = [rec EXCEPT ![op[c].key] = Written(c)]
    /\ ReleaseChain(c)
    /\ pc' = [pc EXCEPT ![c] = "ok"]
    /\ foreign' = [d \in Clients |->
                     IF d # c /\ pc[d] \notin {"idle", "ok", "failed"} /\ op[d].key = op[c].key
                     THEN foreign[d] + 1 ELSE foreign[d]]
    /\ UNCHANGED <<op, seen, base, tries, made>>

\* The process dies between two operations of the store.
Crash ==
    /\ pc' = [c \in Clients |-> "idle"]
    /\ queue' = [i \in Instances |-> [k \in Keys |-> <<>>]]
    /\ UNCHANGED <<rec, op, seen, base, tries, made, foreign>>

Step(c) == Read(c) \/ Enqueue(c) \/ Compare(c) \/ Conflict(c) \/ Write(c)

Next == (\E c \in Clients : Call(c) \/ Step(c)) \/ Crash

Spec == Init /\ [][Next]_vars

-----------------------------------------------------------------------------
Records == [val : SUBSET Tokens, rev : Nat]

\* Every record, reader and chain holds a value of its type.
TypeOK == /\ rec \in [Keys -> Records]
          /\ op \in [Clients -> Ops \cup {Any}]
          /\ pc \in [Clients -> {"idle", "read", "enqueue", "wait", "write", "ok", "failed"}]
          /\ \A c \in Clients : pc[c] # "idle" => op[c] \in Ops
          /\ seen \in [Clients -> Records]
          /\ base \in [Clients -> Records]
          /\ tries \in [Clients -> 0 .. MaxRetries]
          /\ queue \in [Instances -> [Keys -> Seq(Clients)]]
          /\ made \in [Clients -> 0 .. CallLimit]
          /\ foreign \in [Clients -> Nat]

\* How the implementation looks through the abstract specification: a call is
\* pending until its record is written or its revision refused.
StatusOf(p) == IF p \in {"idle", "ok", "failed"} THEN p ELSE "pending"

Atomic == INSTANCE AtomicState WITH
    reg <- rec,
    call <- [c \in Clients |-> IF pc[c] = "idle" THEN [status |-> "idle"]
                               ELSE [status |-> StatusOf(pc[c]), op |-> op[c]]]

\* The callers of one instance see one register per identifier: no call is
\* applied twice, half, to a stale record, or after it was refused.
ImplementsAtomicState == Atomic!ASpec

\* mutate gives up only after as many writes of others as it had attempts:
\* nothing else uses up the attempts.
GivesUpOnlyUnderContention ==
    \A c \in Clients : pc[c] = "failed" /\ op[c].kind = "mutate" => foreign[c] > MaxRetries

=============================================================================
