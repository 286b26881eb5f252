---------------------------- MODULE Storage_proofs ----------------------------
(***************************************************************************)
(* The layers of storage that everything durable rests on.  First the        *)
(* revisioned state (StateStore): it implements an atomic register, for every *)
(* number of callers, identifiers and calls, as long as its callers share one *)
(* instance of ZvecStateStore.  Then the guard of the store (StoreGuard): it  *)
(* excludes and refreshes, for every number of operations, stores, processes, *)
(* calls and crashes, until a lease is lost.  Then the migrations of the     *)
(* index (EmbeddingMigration): what is searched and what is kept for a        *)
(* rollback stay whole, and a switch is exact, for every number of spaces,    *)
(* records, attempts, faults and crashes.  At the end the task graph          *)
(* (TaskGraph): its dependencies make no cycle and its nodes move as their      *)
(* table says, for every number of nodes, callers and calls.                   *)
(***************************************************************************)
EXTENDS StateStore, StoreGuard, EmbeddingMigration, TaskGraph, FiniteSetTheorems, SequenceTheorems, TLAPS

(***************************************************************************)
(* The revisioned state.                                                    *)
(***************************************************************************)
\* A caller about to write is at the head of its chain, has compared with the
\* record as it still is, and has the revision it asked for.
WriterIsCurrent ==
    \A c \in Clients : pc[c] = "write" =>
        /\ HoldsChain(c)
        /\ base[c] = rec[op[c].key]
        /\ ~ Conflicts(c)

\* What a reducer was given is the record itself while the revision is the same.
RevisionTellsRecord ==
    \A c \in Clients : pc[c] \in {"enqueue", "wait", "write"} /\ op[c].kind = "mutate" =>
        /\ seen[c].rev <= rec[op[c].key].rev
        /\ seen[c].rev = rec[op[c].key].rev => seen[c] = rec[op[c].key]

\* Whoever acts holds the chain when its code assumes so; this much needs no
\* assumption on the instances.
WriterHoldsChain == \A c \in Clients : pc[c] = "write" => HoldsChain(c)

OneInstance == \A c, d \in Clients : Owner[c] = Owner[d]

\* Whoever joins a chain goes behind its head.
LEMMA AppendKeepsHead ==
    ASSUME NEW S, NEW s \in Seq(S), s # <<>>, NEW e \in S
    PROVE  Append(s, e) # <<>> /\ Head(Append(s, e)) = Head(s)
<1>1. Append(s, e) # <<>>
  BY AppendProperties
<1>2. Head(Append(s, e)) = IF s = <<>> THEN e ELSE Head(s)
  BY HeadTailAppend
<1> QED
  BY <1>1, <1>2

\* Releasing a chain leaves sequences of callers.
LEMMA ReleaseKeepsQueues ==
    ASSUME TypeOK, NEW c \in Clients, pc[c] # "idle", HoldsChain(c), ReleaseChain(c)
    PROVE  queue' \in [Instances -> [Keys -> Seq(Clients)]]
<1> USE StateStoreAssumption DEF TypeOK
<1>1. op[c].key \in Keys /\ Owner[c] \in Instances
  BY DEF Ops
<1>2. Chain(c) \in Seq(Clients) /\ Chain(c) # <<>>
  BY <1>1 DEF Chain, HoldsChain
<1>3. Tail(Chain(c)) \in Seq(Clients)
  BY <1>2
<1> QED
  BY <1>1, <1>3 DEF ReleaseChain

\* Every operation keeps the type of every variable.
LEMMA TypeStep == TypeOK /\ WriterHoldsChain /\ [Next]_vars => TypeOK'
<1> USE StateStoreAssumption
<1> SUFFICES ASSUME TypeOK, WriterHoldsChain, [Next]_vars PROVE TypeOK'
  OBVIOUS
<1> USE DEF TypeOK
<1>1. ASSUME NEW c \in Clients, Call(c) PROVE TypeOK'
  <2>1. PICK o \in CallsOf(c) :
          /\ op' = [op EXCEPT ![c] = o]
          /\ pc' = [pc EXCEPT ![c] = IF o.kind = "mutate" THEN "read" ELSE "enqueue"]
    BY <1>1 DEF Call
  <2>2. o \in Ops
    BY <2>1 DEF CallsOf
  <2>3. op' \in [Clients -> Ops \cup {Any}]
    BY <2>1, <2>2
  <2>4. \A d \in Clients : pc'[d] # "idle" => op'[d] \in Ops
    BY <2>1, <2>2
  <2>5. made' \in [Clients -> 0 .. CallLimit]
    BY <1>1 DEF Call
  <2> QED
    BY <1>1, <2>1, <2>3, <2>4, <2>5 DEF Call
<1>2. ASSUME NEW c \in Clients, Read(c) PROVE TypeOK'
  BY <1>2 DEF Read, Ops
<1>3. ASSUME NEW c \in Clients, Enqueue(c) PROVE TypeOK'
  <2>1. op[c].key \in Keys /\ Owner[c] \in Instances
    BY <1>3 DEF Enqueue, Ops
  <2>2. Append(Chain(c), c) \in Seq(Clients)
    BY <2>1 DEF Chain
  <2>3. queue' \in [Instances -> [Keys -> Seq(Clients)]]
    BY <1>3, <2>1, <2>2 DEF Enqueue
  <2> QED
    BY <1>3, <2>3 DEF Enqueue
<1>4. ASSUME NEW c \in Clients, Compare(c) PROVE TypeOK'
  BY <1>4 DEF Compare, Ops
<1>6. ASSUME NEW c \in Clients, Conflict(c) PROVE TypeOK'
  <2>1. queue' \in [Instances -> [Keys -> Seq(Clients)]]
    BY <1>6, ReleaseKeepsQueues DEF Conflict
  <2>2. tries' \in [Clients -> 0 .. MaxRetries]
    <3>1. CASE tries[c] < MaxRetries
      <4>1. tries[c] + 1 \in 0 .. MaxRetries  BY <3>1
      <4>2. tries' \in {tries, [tries EXCEPT ![c] = tries[c] + 1]}  BY <1>6 DEF Conflict
      <4> QED  BY <4>1, <4>2
    <3>2. CASE ~ (tries[c] < MaxRetries)
      BY <1>6, <3>2 DEF Conflict
    <3> QED  BY <3>1, <3>2
  <2> QED
    BY <1>6, <2>1, <2>2 DEF Conflict
<1>7. ASSUME NEW c \in Clients, Write(c) PROVE TypeOK'
  <2>1. pc[c] # "idle" /\ op[c] \in Ops
    BY <1>7 DEF Write
  <2>2. queue' \in [Instances -> [Keys -> Seq(Clients)]]
    BY <1>7, <2>1, ReleaseKeepsQueues DEF Write, WriterHoldsChain
  <2>3. Written(c) \in Records
    <3>1. op[c].token \in Tokens
      BY <2>1 DEF Ops
    <3> QED
      BY <3>1 DEF Written, Records
  <2>4. rec' \in [Keys -> Records]
    BY <1>7, <2>3 DEF Write
  <2>5. foreign' \in [Clients -> Nat]
    <3>1. \A d \in Clients : foreign[d] \in Nat /\ foreign[d] + 1 \in Nat
      OBVIOUS
    <3> QED
      BY <1>7, <3>1, ZenonT(30) DEF Write
  <2> QED
    BY <1>7, <2>2, <2>4, <2>5 DEF Write
<1>8. CASE Crash
  BY <1>8 DEF Crash
<1>9. CASE UNCHANGED vars
  BY <1>9 DEF vars
<1> QED
  BY <1>1, <1>2, <1>3, <1>4, <1>6, <1>7, <1>8, <1>9 DEF Next, Step

\* The head of a chain stays there until it releases the chain itself.
LEMMA ChainStep == TypeOK /\ WriterHoldsChain /\ [Next]_vars => WriterHoldsChain'
<1> USE StateStoreAssumption
<1> SUFFICES ASSUME TypeOK, WriterHoldsChain, [Next]_vars PROVE WriterHoldsChain'
  OBVIOUS
<1> USE DEF TypeOK, WriterHoldsChain
<1>1. ASSUME NEW c \in Clients, Call(c) PROVE WriterHoldsChain'
  <2>1. PICK o \in CallsOf(c) :
          /\ op' = [op EXCEPT ![c] = o]
          /\ pc' = [pc EXCEPT ![c] = IF o.kind = "mutate" THEN "read" ELSE "enqueue"]
    BY <1>1 DEF Call
  <2> QED
    BY <1>1, <2>1 DEF Call, HoldsChain, Chain
<1>2. ASSUME NEW c \in Clients, Read(c) PROVE WriterHoldsChain'
  BY <1>2 DEF Read, HoldsChain, Chain
<1>3. ASSUME NEW c \in Clients, Enqueue(c) PROVE WriterHoldsChain'
  <2> SUFFICES ASSUME NEW d \in Clients, pc'[d] = "write" PROVE HoldsChain(d)'
    OBVIOUS
  <2>1. pc[d] = "write" /\ d # c /\ op' = op
    BY <1>3 DEF Enqueue
  <2>2. /\ op[c].key \in Keys /\ Owner[c] \in Instances
        /\ op[d].key \in Keys /\ Owner[d] \in Instances
    BY <1>3, <2>1 DEF Enqueue, Ops
  <2>3. HoldsChain(d) /\ Chain(d) \in Seq(Clients) /\ Chain(c) \in Seq(Clients)
    BY <2>1, <2>2 DEF Chain
  <2>4. CASE Owner[c] = Owner[d] /\ op[c].key = op[d].key
    <3>1. Chain(d)' = Append(Chain(d), c)
      BY <1>3, <2>1, <2>2, <2>4 DEF Enqueue, Chain
    <3>2. Append(Chain(d), c) # <<>> /\ Head(Append(Chain(d), c)) = Head(Chain(d))
      BY <2>3, AppendKeepsHead DEF HoldsChain
    <3> QED
      BY <2>3, <3>1, <3>2 DEF HoldsChain
  <2>5. CASE ~ (Owner[c] = Owner[d] /\ op[c].key = op[d].key)
    <3>1. Chain(d)' = Chain(d)
      <4>1. CASE Owner[c] # Owner[d]
        BY <1>3, <2>1, <2>2, <4>1 DEF Enqueue, Chain
      <4>2. CASE Owner[c] = Owner[d] /\ op[c].key # op[d].key
        BY <1>3, <2>1, <2>2, <4>2 DEF Enqueue, Chain
      <4> QED
        BY <2>5, <4>1, <4>2
    <3> QED
      BY <2>3, <3>1 DEF HoldsChain
  <2> QED
    BY <2>4, <2>5
<1>4. ASSUME NEW c \in Clients, Compare(c) PROVE WriterHoldsChain'
  BY <1>4 DEF Compare, HoldsChain, Chain
<1>5. ASSUME NEW c \in Clients, HoldsChain(c), ReleaseChain(c), pc[c] # "idle", op' = op,
             NEW d \in Clients, d # c, pc[d] = "write"
      PROVE HoldsChain(d)'
  <2>1. /\ op[c].key \in Keys /\ Owner[c] \in Instances
        /\ op[d].key \in Keys /\ Owner[d] \in Instances
    BY <1>5 DEF Ops
  <2>2. Owner[c] # Owner[d] \/ op[c].key # op[d].key
    BY <1>5 DEF HoldsChain, Chain
  <2> QED
    BY <1>5, <2>1, <2>2 DEF ReleaseChain, Chain, HoldsChain
<1>6. ASSUME NEW c \in Clients, Conflict(c) PROVE WriterHoldsChain'
  BY <1>5, <1>6 DEF Conflict
<1>7. ASSUME NEW c \in Clients, Write(c) PROVE WriterHoldsChain'
  BY <1>5, <1>7 DEF Write
<1>8. CASE Crash
  BY <1>8 DEF Crash
<1>9. CASE UNCHANGED vars
  BY <1>9 DEF vars, HoldsChain, Chain
<1> QED
  BY <1>1, <1>2, <1>3, <1>4, <1>6, <1>7, <1>8, <1>9 DEF Next, Step

\* Every state has the type of its variables, and every writer its chain.
THEOREM StateTypeOK == Spec => []TypeOK
<1>1. Init => TypeOK /\ WriterHoldsChain
  BY StateStoreAssumption DEF Init, TypeOK, Records, Unwritten, WriterHoldsChain
<1>2. (TypeOK /\ WriterHoldsChain) /\ [Next]_vars => (TypeOK /\ WriterHoldsChain)'
  BY TypeStep, ChainStep
<1> QED
  BY <1>1, <1>2, PTL DEF Spec

\* With one instance, two callers never write an identifier between the same
\* comparison and its write.
LEMMA CurrentStep ==
    ASSUME OneInstance, TypeOK, WriterHoldsChain, WriterIsCurrent, RevisionTellsRecord, [Next]_vars
    PROVE  WriterIsCurrent' /\ RevisionTellsRecord'
<1> USE StateStoreAssumption
<1> USE DEF TypeOK
<1>a. WriterHoldsChain'
  BY ChainStep
<1>b. \A d \in Clients : pc[d] # "idle" => op[d] \in Ops /\ op[d].key \in Keys
  BY DEF Ops
<1>1. ASSUME NEW c \in Clients, Call(c) PROVE WriterIsCurrent' /\ RevisionTellsRecord'
  <2>1. PICK o \in CallsOf(c) :
          /\ op' = [op EXCEPT ![c] = o]
          /\ pc' = [pc EXCEPT ![c] = IF o.kind = "mutate" THEN "read" ELSE "enqueue"]
    BY <1>1 DEF Call
  <2>2. \A d \in Clients : d # c => op'[d] = op[d] /\ pc'[d] = pc[d]
    BY <2>1
  <2>3. pc'[c] \in {"read", "enqueue"} /\ (pc'[c] = "enqueue" => op'[c].kind # "mutate")
    BY <2>1
  <2>4. WriterIsCurrent'
    BY <1>1, <1>a, <2>2, <2>3 DEF Call, WriterIsCurrent, WriterHoldsChain, Conflicts, Expected
  <2>5. RevisionTellsRecord'
    BY <1>1, <2>2, <2>3 DEF Call, RevisionTellsRecord
  <2> QED
    BY <2>4, <2>5
<1>2. ASSUME NEW c \in Clients, Read(c) PROVE WriterIsCurrent' /\ RevisionTellsRecord'
  <2>1. WriterIsCurrent'
    BY <1>2, <1>a DEF Read, WriterIsCurrent, WriterHoldsChain, Conflicts, Expected
  <2>2. RevisionTellsRecord'
    BY <1>2, <1>b DEF Read, RevisionTellsRecord, Records
  <2> QED
    BY <2>1, <2>2
<1>3. ASSUME NEW c \in Clients, Enqueue(c) PROVE WriterIsCurrent' /\ RevisionTellsRecord'
  <2>1. WriterIsCurrent'
    BY <1>3, <1>a DEF Enqueue, WriterIsCurrent, WriterHoldsChain, Conflicts, Expected
  <2>2. RevisionTellsRecord'
    BY <1>3 DEF Enqueue, RevisionTellsRecord
  <2> QED
    BY <2>1, <2>2
<1>4. ASSUME NEW c \in Clients, Compare(c) PROVE WriterIsCurrent' /\ RevisionTellsRecord'
  <2>1. WriterIsCurrent'
    BY <1>4, <1>a DEF Compare, WriterIsCurrent, WriterHoldsChain, Conflicts, Expected
  <2>2. RevisionTellsRecord'
    BY <1>4 DEF Compare, RevisionTellsRecord
  <2> QED
    BY <2>1, <2>2
<1>5. ASSUME NEW c \in Clients, Conflict(c) PROVE WriterIsCurrent' /\ RevisionTellsRecord'
  <2>1. pc'[c] \in {"read", "failed"} /\ \A d \in Clients : d # c => pc'[d] = pc[d]
    BY <1>5 DEF Conflict
  <2>2. WriterIsCurrent'
    BY <1>5, <1>a, <2>1 DEF Conflict, WriterIsCurrent, WriterHoldsChain, Conflicts, Expected
  <2>3. RevisionTellsRecord'
    BY <1>5, <2>1 DEF Conflict, RevisionTellsRecord
  <2> QED
    BY <2>2, <2>3
<1>6. ASSUME NEW c \in Clients, Write(c) PROVE WriterIsCurrent' /\ RevisionTellsRecord'
  <2> DEFINE k == op[c].key
  <2>1. /\ op' = op /\ seen' = seen /\ base' = base
        /\ pc' = [pc EXCEPT ![c] = "ok"]
        /\ rec' = [rec EXCEPT ![k] = Written(c)]
        /\ k \in Keys
    BY <1>6, <1>b DEF Write
  <2>2. Written(c).rev = rec[k].rev + 1
    BY <1>6 DEF Write, WriterIsCurrent, Written
  <2>3. \A d \in Clients : d # c /\ pc[d] = "write" => op[d].key # k
    BY <1>6 DEF Write, WriterHoldsChain, HoldsChain, Chain, OneInstance
  <2>4. WriterIsCurrent'
    BY <1>a, <2>1, <2>3 DEF WriterIsCurrent, WriterHoldsChain, Conflicts, Expected
  <2>5. RevisionTellsRecord'
    <3> SUFFICES ASSUME NEW d \in Clients,
                        pc'[d] \in {"enqueue", "wait", "write"}, op[d].kind = "mutate"
                 PROVE  /\ seen[d].rev <= rec'[op[d].key].rev
                        /\ seen[d].rev = rec'[op[d].key].rev => seen[d] = rec'[op[d].key]
      BY <2>1 DEF RevisionTellsRecord
    <3>1. d # c /\ pc[d] = pc'[d] /\ op[d].key \in Keys
      BY <1>b, <2>1
    <3>2. seen[d].rev <= rec[op[d].key].rev
          /\ (seen[d].rev = rec[op[d].key].rev => seen[d] = rec[op[d].key])
      BY <3>1 DEF RevisionTellsRecord
    <3>3. CASE op[d].key = k
      <4>1. rec'[op[d].key].rev = rec[k].rev + 1
        BY <2>1, <2>2, <3>3
      <4>2. seen[d].rev \in Nat /\ rec[k].rev \in Nat
        BY <2>1 DEF Records
      <4> QED
        BY <3>2, <3>3, <4>1, <4>2
    <3>4. CASE op[d].key # k
      BY <2>1, <3>1, <3>2, <3>4
    <3> QED
      BY <3>3, <3>4
  <2> QED
    BY <2>4, <2>5
<1>7. CASE Crash
  BY <1>7 DEF Crash, WriterIsCurrent, RevisionTellsRecord
<1>8. CASE UNCHANGED vars
  BY <1>8, <1>a DEF vars, WriterIsCurrent, WriterHoldsChain, Conflicts, Expected, RevisionTellsRecord
<1> QED
  BY <1>1, <1>2, <1>3, <1>4, <1>5, <1>6, <1>7, <1>8 DEF Next, Step

\* Every step of the implementation is a step of the register, or none: a
\* record is written from what is there, once, or a call fails untouched.
THEOREM StateRefinesAtomicState == OneInstance /\ Spec => ImplementsAtomicState
<1> USE StateStoreAssumption
<1> SUFFICES ASSUME OneInstance PROVE Spec => ImplementsAtomicState
  OBVIOUS
<1> DEFINE Inv == TypeOK /\ WriterHoldsChain /\ WriterIsCurrent /\ RevisionTellsRecord
           View == [c \in Clients |-> IF pc[c] = "idle" THEN [status |-> "idle"]
                                     ELSE [status |-> StatusOf(pc[c]), op |-> op[c]]]
<1>1. Init => Inv
  BY DEF Init, TypeOK, Records, Unwritten, WriterHoldsChain, WriterIsCurrent, RevisionTellsRecord
<1>2. ASSUME Inv, [Next]_vars PROVE Inv'
  BY <1>2, TypeStep, ChainStep, CurrentStep
<1>3. Init => Atomic!AInit
  BY DEF Init, Atomic!AInit, Atomic!Unwritten, Unwritten, Atomic!NoCall
<1>4. ASSUME Inv, [Next]_vars PROVE [Atomic!ANext]_(Atomic!avars)
  <2> USE <1>4 DEF TypeOK
  <2>0. \A c \in Clients : pc[c] # "idle" => op[c] \in Ops /\ op[c].key \in Keys
    BY DEF Ops
  <2> SUFFICES ASSUME ~ UNCHANGED vars PROVE [Atomic!ANext]_(Atomic!avars)
    BY DEF vars, Atomic!avars
  <2>1. ASSUME NEW c \in Clients, Call(c) PROVE Atomic!ANext
    <3>1. PICK o \in CallsOf(c) :
            /\ op' = [op EXCEPT ![c] = o]
            /\ pc' = [pc EXCEPT ![c] = IF o.kind = "mutate" THEN "read" ELSE "enqueue"]
      BY <2>1 DEF Call
    <3>2. o \in Ops
      BY <3>1 DEF CallsOf
    <3>3. View' = [View EXCEPT ![c] = [status |-> "pending", op |-> o]]
      BY <3>1, <3>2 DEF StatusOf
    <3>4. View[c].status # "pending"
      BY <2>1 DEF Call, StatusOf
    <3>5. rec' = rec
      BY <2>1 DEF Call
    <3>6. Atomic!Invoke(c)
      BY <3>2, <3>3, <3>4, <3>5 DEF Atomic!Invoke
    <3> QED
      BY <3>6 DEF Atomic!ANext
  <2>2. ASSUME NEW c \in Clients, op' = op, rec' = rec, NEW p \in {"read", "enqueue", "wait", "write"},
               pc' = [pc EXCEPT ![c] = p], StatusOf(pc[c]) = "pending"
        PROVE UNCHANGED Atomic!avars
    <3>1. View' = View
      BY <2>2 DEF StatusOf
    <3> QED
      BY <2>2, <3>1 DEF Atomic!avars
  <2>3. ASSUME NEW c \in Clients, Read(c) \/ Enqueue(c) \/ Compare(c)
        PROVE UNCHANGED Atomic!avars
    BY <2>2, <2>3 DEF Read, Enqueue, Compare, StatusOf
  <2>4. ASSUME NEW c \in Clients, Conflict(c) PROVE [Atomic!ANext]_(Atomic!avars)
    <3>1. CASE op[c].kind = "mutate" /\ tries[c] < MaxRetries
      BY <2>2, <2>4, <3>1 DEF Conflict, StatusOf
    <3>2. CASE ~ (op[c].kind = "mutate" /\ tries[c] < MaxRetries)
      <4>1. pc[c] = "wait" /\ pc' = [pc EXCEPT ![c] = "failed"] /\ op' = op /\ rec' = rec
        BY <2>4, <3>2 DEF Conflict
      <4>2. View[c] = [status |-> "pending", op |-> op[c]]
        BY <4>1 DEF StatusOf
      <4>3. View' = [View EXCEPT ![c] = [status |-> "failed", op |-> op[c]]]
        BY <4>1 DEF StatusOf
      <4>4. op[c].kind # "mutate" => ~ Atomic!Allowed(op[c], rec[op[c].key])
        BY <2>4, <2>0, <4>1 DEF Conflict, Conflicts, Expected, Atomic!Allowed, Ops
      <4>5. Atomic!Refuse(c)
        BY <4>1, <4>2, <4>3, <4>4 DEF Atomic!Refuse
      <4> QED
        BY <4>5 DEF Atomic!ANext
    <3> QED
      BY <3>1, <3>2
  <2>5. ASSUME NEW c \in Clients, Write(c) PROVE Atomic!ANext
    <3>1. /\ pc[c] = "write" /\ pc' = [pc EXCEPT ![c] = "ok"] /\ op' = op
          /\ rec' = [rec EXCEPT ![op[c].key] = Written(c)]
          /\ op[c] \in Ops /\ op[c].key \in Keys
      BY <2>5, <2>0 DEF Write
    <3>2. View[c] = [status |-> "pending", op |-> op[c]]
      BY <3>1 DEF StatusOf
    <3>3. View' = [View EXCEPT ![c] = [status |-> "ok", op |-> op[c]]]
      BY <3>1 DEF StatusOf
    <3>4. base[c] = rec[op[c].key] /\ ~ Conflicts(c)
      BY <3>1 DEF WriterIsCurrent
    <3>5. Atomic!Allowed(op[c], rec[op[c].key])
      BY <3>4 DEF Conflicts, Expected, Atomic!Allowed
    <3>6. Written(c) = Atomic!Applied(op[c], rec[op[c].key])
      <4>1. CASE op[c].kind = "mutate"
        <5>1. seen[c].rev = rec[op[c].key].rev
          BY <3>1, <3>4, <4>1 DEF Conflicts, Expected, Records
        <5>2. seen[c] = rec[op[c].key]
          BY <3>1, <4>1, <5>1 DEF RevisionTellsRecord
        <5> QED
          BY <3>4, <4>1, <5>2 DEF Written, Atomic!Applied
      <4>2. CASE op[c].kind # "mutate"
        BY <3>4, <4>2 DEF Written, Atomic!Applied
      <4> QED
        BY <4>1, <4>2
    <3>7. Atomic!Apply(c)
      BY <3>1, <3>2, <3>3, <3>5, <3>6 DEF Atomic!Apply
    <3> QED
      BY <3>7 DEF Atomic!ANext
  <2>6. CASE Crash
    <3>1. View' = [c \in Clients |-> Atomic!NoCall] /\ rec' = rec
      BY <2>6 DEF Crash, Atomic!NoCall
    <3> QED
      BY <3>1 DEF Atomic!ANext, Atomic!ACrash
  <2> QED
    BY <2>1, <2>3, <2>4, <2>5, <2>6 DEF Next, Step
<1> QED
  BY <1>1, <1>2, <1>3, <1>4, PTL DEF Spec, ImplementsAtomicState, Atomic!ASpec

-----------------------------------------------------------------------------
\* Every attempt of a mutate that ended in a conflict met a write of another
\* call, and so did the one under way when its record has changed since.
Contended(c) ==
    pc[c] # "idle" /\ op[c].kind = "mutate" =>
        /\ pc[c] \in {"read", "enqueue", "wait"} => foreign[c] >= tries[c]
        /\ pc[c] \in {"enqueue", "wait"} /\ seen[c].rev # rec[op[c].key].rev
             => foreign[c] >= tries[c] + 1
        /\ pc[c] = "failed" => foreign[c] > MaxRetries

ContentionInv == \A c \in Clients : Contended(c)

LEMMA ContentionStep == TypeOK /\ ContentionInv /\ [Next]_vars => ContentionInv'
<1> SUFFICES ASSUME TypeOK, ContentionInv, [Next]_vars, NEW d \in Clients
             PROVE  Contended(d)'
  BY DEF ContentionInv
<1>n. /\ tries[d] \in Nat /\ foreign[d] \in Nat /\ tries[d] =< MaxRetries /\ MaxRetries \in Nat
      /\ Contended(d)
  BY StateStoreAssumption DEF TypeOK, ContentionInv
<1>u. UNCHANGED <<rec, op[d], pc[d], seen[d], tries[d], foreign[d]>> => Contended(d)'
  BY <1>n DEF Contended
<1>1. ASSUME NEW c \in Clients, Call(c) PROVE Contended(d)'
  <2>1. CASE d # c  BY <1>1, <1>u, <2>1 DEF Call, TypeOK
  <2>2. CASE d = c
    <3>1. pc'[d] \in {"read", "enqueue"} /\ tries'[d] = 0 /\ foreign'[d] = 0
      BY <1>1, <2>2 DEF Call, TypeOK
    <3>2. op'[d].kind = "mutate" => pc'[d] = "read"
      BY <1>1, <2>2 DEF Call, TypeOK
    <3> QED  BY <3>1, <3>2 DEF Contended
  <2> QED  BY <2>1, <2>2
<1>2. ASSUME NEW c \in Clients, Read(c) PROVE Contended(d)'
  <2>1. CASE d # c  BY <1>2, <1>u, <2>1 DEF Read, TypeOK
  <2>2. CASE d = c
    <3>1. /\ pc[d] = "read" /\ pc'[d] = "enqueue" /\ seen'[d] = rec'[op'[d].key]
          /\ UNCHANGED <<op[d], tries[d], foreign[d]>>
      BY <1>2, <2>2 DEF Read, TypeOK
    <3> QED  BY <1>n, <3>1 DEF Contended
  <2> QED  BY <2>1, <2>2
<1>3. ASSUME NEW c \in Clients, Enqueue(c) PROVE Contended(d)'
  <2>1. CASE d # c  BY <1>3, <1>u, <2>1 DEF Enqueue, TypeOK
  <2>2. CASE d = c
    <3>1. /\ pc[d] = "enqueue" /\ pc'[d] = "wait"
          /\ UNCHANGED <<rec, op[d], seen[d], tries[d], foreign[d]>>
      BY <1>3, <2>2 DEF Enqueue, TypeOK
    <3> QED  BY <1>n, <3>1 DEF Contended
  <2> QED  BY <2>1, <2>2
<1>4. ASSUME NEW c \in Clients, Compare(c) PROVE Contended(d)'
  <2>1. CASE d # c  BY <1>4, <1>u, <2>1 DEF Compare, TypeOK
  <2>2. CASE d = c
    <3>1. pc'[d] = "write"  BY <1>4, <2>2 DEF Compare, TypeOK
    <3> QED  BY <3>1 DEF Contended
  <2> QED  BY <2>1, <2>2
<1>5. ASSUME NEW c \in Clients, Conflict(c) PROVE Contended(d)'
  <2>1. CASE d # c  BY <1>5, <1>u, <2>1 DEF Conflict, TypeOK
  <2>2. CASE d = c /\ op[d].kind = "mutate"
    <3>1. pc[d] = "wait" /\ seen[d].rev # rec[op[d].key].rev
      BY <1>5, <2>2 DEF Conflict, Conflicts, Expected
    <3>2. foreign[d] >= tries[d] + 1  BY <1>n, <2>2, <3>1 DEF Contended
    <3>3. UNCHANGED <<op[d], foreign[d]>>  BY <1>5, <2>2 DEF Conflict
    <3>4. \/ tries[d] < MaxRetries /\ tries'[d] = tries[d] + 1 /\ pc'[d] = "read"
          \/ ~(tries[d] < MaxRetries) /\ pc'[d] = "failed"
      BY <1>5, <2>2 DEF Conflict, TypeOK
    <3> QED  BY <1>n, <3>2, <3>3, <3>4 DEF Contended
  <2>3. CASE op[d].kind # "mutate"  BY <1>5, <2>3 DEF Conflict, Contended
  <2> QED  BY <2>1, <2>2, <2>3
<1>6. ASSUME NEW c \in Clients, Write(c) PROVE Contended(d)'
  <2>1. CASE d = c
    <3>1. pc'[d] = "ok"  BY <1>6, <2>1 DEF Write, TypeOK
    <3> QED  BY <3>1 DEF Contended
  <2>2. CASE d # c /\ pc[d] \in {"read", "enqueue", "wait"} /\ op[d].key = op[c].key
    <3>1. foreign'[d] = foreign[d] + 1 /\ pc'[d] = pc[d] /\ UNCHANGED <<op[d], tries[d]>>
      BY <1>6, <2>2 DEF Write, TypeOK
    <3> QED  BY <1>n, <2>2, <3>1 DEF Contended
  <2>3. CASE d # c /\ op[d].key # op[c].key /\ pc[d] # "idle"
    <3>1. op[d].key \in Keys  BY <2>3 DEF TypeOK, Ops
    <3>2. rec'[op[d].key] = rec[op[d].key]  BY <1>6, <2>3, <3>1 DEF Write, TypeOK
    <3>3. UNCHANGED <<op[d], pc[d], seen[d], tries[d], foreign[d]>>
      BY <1>6, <2>3 DEF Write, TypeOK
    <3> QED  BY <1>n, <3>2, <3>3 DEF Contended
  <2>4. CASE d # c /\ pc[d] \notin {"read", "enqueue", "wait"} /\ op[d].key = op[c].key
    <3>1. pc'[d] = pc[d] /\ op'[d] = op[d]  BY <1>6, <2>4 DEF Write, TypeOK
    <3>2. pc[d] = "failed" => foreign'[d] = foreign[d]  BY <1>6, <2>4 DEF Write, TypeOK
    <3> QED  BY <1>n, <2>4, <3>1, <3>2 DEF Contended
  <2>5. CASE d # c /\ pc[d] = "idle"
    <3>1. pc'[d] = "idle"  BY <1>6, <2>5 DEF Write, TypeOK
    <3> QED  BY <3>1 DEF Contended
  <2> QED  BY <2>1, <2>2, <2>3, <2>4, <2>5
<1>7. CASE Crash
  <2>1. pc'[d] = "idle"  BY <1>7 DEF Crash
  <2> QED  BY <2>1 DEF Contended
<1>8. CASE UNCHANGED vars  BY <1>8, <1>u DEF vars
<1> QED
  BY <1>1, <1>2, <1>3, <1>4, <1>5, <1>6, <1>7, <1>8 DEF Next, Step

\* mutate gives up only after more writes of others to its record than it may
\* retry: its own put, a crash or a chain never uses up an attempt, whichever
\* instances the callers share (state.ts, mutate).
THEOREM GivesUpOnlyWhenContended == Spec => []GivesUpOnlyUnderContention
<1> DEFINE IInv == TypeOK /\ WriterHoldsChain /\ ContentionInv
<1>1. Init => IInv
  BY StateStoreAssumption
     DEF Init, TypeOK, Records, Unwritten, WriterHoldsChain, ContentionInv, Contended
<1>2. IInv /\ [Next]_vars => IInv'
  BY TypeStep, ChainStep, ContentionStep
<1>3. IInv => GivesUpOnlyUnderContention
  BY DEF ContentionInv, Contended, GivesUpOnlyUnderContention
<1> QED  BY <1>1, <1>2, <1>3, PTL DEF Spec
(***************************************************************************)
(* The guard of the store.                                                  *)
(***************************************************************************)
Active(o) == at[o] \notin {"idle", "done", "failed"}

\* The manifest and the counters have their types too; a store that reads or
\* changes the manifest has one, and so does the disk.
TypeInv ==
    /\ GuardTypeOK
    /\ manifest \in (SUBSET Calls) \cup {Nil}
    /\ calls \in [Slots -> 0 .. MaxCalls]
    /\ stalls \in Nat
    /\ manifest = Nil => \A s \in Stores : cached[s] = Nil
    /\ \A o \in Slots : Active(o) =>
          /\ calls[o] >= 1
          /\ kind[o] \in {"read", "change"} => cached[StoreOf[o]] # Nil

\* Until a lease is lost, whoever is inside holds the lock and, once it has
\* read the manifest, knows it; what it has changed is there.
GuardInv ==
    stalls = 0 =>
        /\ lost = {}
        /\ \A o \in Inside : lock = o
        /\ \A o \in Slots : at[o] = "body" => cached[StoreOf[o]] = manifest
        /\ \A o \in Slots : at[o] = "leave" /\ kind[o] = "change" =>
              manifest # Nil /\ Change(o) \in manifest
        /\ acked = {} \/ (manifest # Nil /\ acked \subseteq manifest)

-----------------------------------------------------------------------------
\* A slot makes at most MaxCalls calls, because all of them make no more.
LEMMA CallsBounded ==
    ASSUME TypeInv, NEW o \in Slots, Cardinality(Made) < MaxCalls
    PROVE  calls[o] + 1 \in 0 .. MaxCalls
<1> USE GuardAssumption DEF TypeInv
<1>1. calls[o] \in 0 .. MaxCalls  OBVIOUS
<1>2. ASSUME calls[o] = MaxCalls PROVE FALSE
  <2> DEFINE own == {o} \X (1 .. MaxCalls)
  <2>1. IsFiniteSet(1 .. MaxCalls) /\ Cardinality(1 .. MaxCalls) = MaxCalls
    BY FS_Interval
  <2>2. IsFiniteSet({o}) /\ Cardinality({o}) = 1  BY FS_Singleton
  <2>3. Cardinality(own) = MaxCalls
    <3>1. Cardinality(own) = Cardinality({o}) * Cardinality(1 .. MaxCalls)
      BY <2>1, <2>2, FS_Product
    <3> QED  BY <2>1, <2>2, <3>1
  <2>4. IsFiniteSet(Calls)  BY <2>1, FS_Product DEF Calls
  <2>5. Made \in SUBSET Calls  BY DEF Made
  <2>6. IsFiniteSet(Made)  BY <2>4, <2>5, FS_Subset
  <2>7. own \in SUBSET Made  BY <1>2 DEF Made, Calls
  <2>8. Cardinality(own) =< Cardinality(Made) /\ Cardinality(Made) \in Nat
    BY <2>6, <2>7, FS_Subset, FS_CardinalityType
  <2> HIDE DEF own
  <2> QED  BY <2>3, <2>8
<1> QED  BY <1>1, <1>2

LEMMA GuardTypeStep == TypeInv /\ [GuardNext]_guardVars => TypeInv'
<1> SUFFICES ASSUME TypeInv, [GuardNext]_guardVars PROVE TypeInv'
  OBVIOUS
<1> USE GuardAssumption DEF TypeInv, GuardTypeOK, OpKinds, Active
<1>c. Nil \notin SUBSET Calls  BY DEF Calls
<1>1. ASSUME NEW o \in Slots, CallStore(o) PROVE TypeInv'
  <2>1. calls' \in [Slots -> 0 .. MaxCalls] /\ calls'[o] >= 1
    BY <1>1, CallsBounded DEF CallStore
  <2>2. PICK k \in OpKinds \ {"init"} : (k = "start") = (cached[StoreOf[o]] = Nil) /\ Queued(o, k)
    BY <1>1 DEF CallStore
  <2>3. UNCHANGED <<manifest, cached, lock, stalls>>  BY <1>1 DEF CallStore
  <2>4. \/ at' = [at EXCEPT ![o] = "failed"] /\ UNCHANGED kind
        \/ at' = [at EXCEPT ![o] = "gate"] /\ kind' = [kind EXCEPT ![o] = k]
    BY <2>2 DEF Queued
  <2>5. \A d \in Slots \ {o} : calls'[d] = calls[d] /\ at'[d] = at[d] /\ kind'[d] = kind[d]
    BY <1>1, <2>4 DEF CallStore
  <2>6. ASSUME NEW d \in Slots, Active(d)'
        PROVE  calls'[d] >= 1 /\ (kind'[d] \in {"read", "change"} => cached'[StoreOf[d]] # Nil)
    BY <2>1, <2>2, <2>3, <2>4, <2>5, <2>6
  <2>7. at' \in [Slots -> {"idle", "gate", "root", "lock", "refresh", "body", "leave", "done", "failed"}]
        /\ kind' \in [Slots -> OpKinds]
    BY <2>4
  <2> QED  BY <2>1, <2>3, <2>6, <2>7
<1>2. ASSUME NEW o \in Slots, PassGate(o) \/ PassRoot(o) \/ TakeLock(o) \/ GiveUp(o) PROVE TypeInv'
  BY <1>2 DEF PassGate, PassRoot, TakeLock, GiveUp
<1>3. ASSUME NEW o \in Slots, Refresh(o) PROVE TypeInv'
  BY <1>3 DEF Refresh, Fresh
<1>4. ASSUME NEW o \in Slots, Body(o) PROVE TypeInv'
  <2> DEFINE s == StoreOf[o]
  <2>1. s \in Stores /\ Active(o) /\ Change(o) \in Calls
    BY <1>4 DEF Body, Change, Calls
  <2>2. kind[o] = "change" => cached[s] \in SUBSET Calls  BY <2>1
  <2>3. manifest' \in (SUBSET Calls) \cup {Nil} /\ (manifest # Nil => manifest' # Nil)
    BY <1>4, <1>c, <2>1, <2>2 DEF Body, Initialized
  <2>4. cached' = [cached EXCEPT ![s] = IF kind[o] = "read" THEN cached[s] ELSE manifest']
    BY <1>4 DEF Body
  <2>5. manifest' = Nil => cached'[s] = Nil
    BY <2>1, <2>3, <2>4
  <2>6. UNCHANGED <<lock, kind, calls, stalls>> /\ at' = [at EXCEPT ![o] = "leave"]
    BY <1>4 DEF Body
  <2>7. ASSUME NEW d \in Slots, Active(d)', kind'[d] \in {"read", "change"}
        PROVE  cached'[StoreOf[d]] # Nil
    <3>1. cached[StoreOf[d]] # Nil  BY <2>1, <2>6, <2>7
    <3>2. manifest' # Nil  BY <2>3, <3>1
    <3> QED  BY <2>4, <3>1, <3>2
  <2> QED  BY <2>1, <2>3, <2>4, <2>5, <2>6, <2>7
<1>5. ASSUME NEW o \in Slots, Leave(o) PROVE TypeInv'
  <2>1. lock' \in Slots \cup {Nil, Stale}  BY <1>5 DEF Leave, Released
  <2>2. /\ UNCHANGED <<manifest, cached, calls, stalls>>
        /\ \/ at' = [at EXCEPT ![o] = "gate"] /\ kind' = [kind EXCEPT ![o] = "init"]
           \/ at' = [at EXCEPT ![o] = "done"] /\ UNCHANGED kind
           \/ at' = [at EXCEPT ![o] = "failed"] /\ UNCHANGED kind
    BY <1>5 DEF Leave
  <2>3. Active(o)  BY <1>5 DEF Leave
  <2> QED  BY <2>1, <2>2, <2>3
<1>6. ASSUME NEW o \in Slots, LoseLease(o) \/ Notice(o) PROVE TypeInv'
  BY <1>6 DEF LoseLease, Notice
<1>7. ASSUME NEW p \in Processes, ProcessDies(p) PROVE TypeInv'
  <2>1. UNCHANGED <<manifest, calls, stalls, kind>>  BY <1>7 DEF ProcessDies
  <2>2. lock' \in Slots \cup {Nil, Stale}  BY <1>7 DEF ProcessDies
  <2>3. cached' \in [Stores -> (SUBSET Calls) \cup {Nil}]  BY <1>7 DEF ProcessDies
  <2>4. at' \in [Slots -> {"idle", "gate", "root", "lock", "refresh", "body", "leave", "done", "failed"}]
    BY <1>7 DEF ProcessDies
  <2>5. ASSUME NEW d \in Slots, Active(d)'
        PROVE  Active(d) /\ cached'[StoreOf[d]] = cached[StoreOf[d]]
    BY <1>7, <2>5 DEF ProcessDies, Proc
  <2>6. \A s \in Stores : cached'[s] \in {cached[s], Nil}  BY <1>7 DEF ProcessDies
  <2> QED  BY <2>1, <2>2, <2>3, <2>4, <2>5, <2>6
<1>8. CASE UNCHANGED guardVars  BY <1>8 DEF guardVars
<1> QED  BY <1>1, <1>2, <1>3, <1>4, <1>5, <1>6, <1>7, <1>8 DEF GuardNext, GuardStep

-----------------------------------------------------------------------------
LEMMA GuardInvStep == TypeInv /\ GuardInv /\ [GuardNext]_guardVars => GuardInv'
<1> SUFFICES ASSUME TypeInv, GuardInv, [GuardNext]_guardVars, stalls' = 0
             PROVE  GuardInv'
  BY DEF GuardInv
<1> USE GuardAssumption DEF TypeInv, GuardTypeOK, OpKinds
<1>c. Nil \notin SUBSET Calls  BY DEF Calls
<1>s. stalls = 0
  <2>1. stalls' \in {stalls, stalls + 1}
    BY DEF GuardNext, GuardStep, guardVars, CallStore, PassGate, PassRoot, TakeLock, GiveUp, Refresh, Body, Leave,
           LoseLease, Notice, ProcessDies
  <2> QED  BY <2>1
<1>i. /\ lost = {}
      /\ \A o \in Inside : lock = o
      /\ \A o \in Slots : at[o] = "body" => cached[StoreOf[o]] = manifest
      /\ \A o \in Slots : at[o] = "leave" /\ kind[o] = "change" =>
            manifest # Nil /\ Change(o) \in manifest
      /\ acked = {} \/ (manifest # Nil /\ acked \subseteq manifest)
  BY <1>s DEF GuardInv
<1>1. ASSUME NEW o \in Slots, CallStore(o) PROVE GuardInv'
  <2>1. \A d \in Slots : at'[d] \in {"refresh", "body", "leave"} =>
          d # o /\ at'[d] = at[d] /\ kind'[d] = kind[d] /\ calls'[d] = calls[d]
    BY <1>1 DEF CallStore, Queued
  <2> QED  BY <1>1, <1>i, <2>1 DEF CallStore, GuardInv, Inside, Change
<1>2. ASSUME NEW o \in Slots, PassGate(o) \/ PassRoot(o) \/ GiveUp(o) PROVE GuardInv'
  BY <1>2, <1>i DEF PassGate, PassRoot, GiveUp, GuardInv, Inside, Change
<1>3. ASSUME NEW o \in Slots, TakeLock(o) PROVE GuardInv'
  <2>1. Inside = {}  BY <1>3, <1>i DEF TakeLock, Inside
  <2>2. Inside' = {o}  BY <1>3, <2>1 DEF TakeLock, Inside
  <2> QED  BY <1>3, <1>i, <2>2 DEF TakeLock, GuardInv, Inside, Change
<1>4. ASSUME NEW o \in Slots, o \in Inside PROVE Inside = {o}
  BY <1>4, <1>i
<1>5. ASSUME NEW o \in Slots, Refresh(o) PROVE GuardInv'
  <2>1. Inside = {o}  BY <1>4, <1>5 DEF Refresh, Inside
  <2>2. Inside' = Inside /\ UNCHANGED <<lock, lost, manifest, acked, kind, calls>>
    BY <1>5 DEF Refresh, Inside
  <2>3. cached'[StoreOf[o]] = manifest  BY <1>5 DEF Refresh, Fresh
  <2>4. \A d \in Slots : at'[d] \in {"body", "leave"} => d = o /\ at'[d] = "body"
    BY <1>5, <2>1 DEF Refresh, Inside
  <2> QED  BY <1>i, <2>2, <2>3, <2>4 DEF GuardInv
<1>6. ASSUME NEW o \in Slots, Body(o) PROVE GuardInv'
  <2> DEFINE s == StoreOf[o]
  <2>1. Inside = {o}  BY <1>4, <1>6 DEF Body, Inside
  <2>2. Inside' = Inside /\ UNCHANGED <<lock, lost, acked, kind, calls>>
    BY <1>6 DEF Body, Inside
  <2>3. cached[s] = manifest /\ s \in Stores  BY <1>6, <1>i DEF Body
  <2>4. kind[o] \in {"read", "change"} => manifest # Nil
    BY <1>6, <2>3 DEF Body, Active
  <2>5. /\ manifest # Nil => manifest' # Nil /\ manifest \subseteq manifest'
        /\ kind[o] = "change" => manifest' # Nil /\ Change(o) \in manifest'
    <3>1. CASE kind[o] = "change"
      <4>1. manifest' = manifest \cup {Change(o)}  BY <1>6, <2>3, <3>1 DEF Body
      <4>2. calls[o] \in 1 .. MaxCalls  BY <1>6 DEF Body, Active
      <4>3. Change(o) \in Calls /\ manifest \in SUBSET Calls
        BY <2>4, <3>1, <4>2 DEF Change, Calls
      <4> QED  BY <1>c, <4>1, <4>3
    <3>2. CASE kind[o] # "change"
      BY <1>6, <1>c, <3>2 DEF Body, Initialized
    <3> QED  BY <3>1, <3>2
  <2>6. \A d \in Slots : at'[d] \in {"body", "leave"} => d = o /\ at'[d] = "leave"
    BY <1>6, <2>1 DEF Body, Inside
  <2>7. (Change(o))' = Change(o)  BY <2>2 DEF Change
  <2>8. \A d \in Slots : at'[d] = "leave" /\ kind'[d] = "change" =>
          manifest' # Nil /\ (Change(d))' \in manifest'
    BY <2>2, <2>5, <2>6, <2>7
  <2>9. acked' = {} \/ (manifest' # Nil /\ acked' \subseteq manifest')
    BY <1>i, <2>2, <2>5
  <2> QED  BY <1>i, <2>2, <2>6, <2>8, <2>9 DEF GuardInv
<1>7. ASSUME NEW o \in Slots, Leave(o) PROVE GuardInv'
  <2>1. Inside = {o}  BY <1>4, <1>7 DEF Leave, Inside
  <2>2. Inside' = {}
    <3>1. \E x \in {"gate", "done", "failed"} : at' = [at EXCEPT ![o] = x]
      BY <1>7 DEF Leave
    <3> QED  BY <2>1, <3>1 DEF Inside
  <2>3. lost' = {} /\ UNCHANGED manifest  BY <1>7, <1>i DEF Leave
  <2>4. acked' = acked \/ (kind[o] = "change" /\ acked' = acked \cup {Change(o)})
    BY <1>7 DEF Leave
  <2>5. acked' = {} \/ (manifest' # Nil /\ acked' \subseteq manifest')
    BY <1>7, <1>i, <2>3, <2>4 DEF Leave
  <2> QED  BY <2>2, <2>3, <2>5 DEF GuardInv, Inside
<1>8. ASSUME NEW o \in Slots, LoseLease(o) PROVE FALSE
  BY <1>8, <1>s DEF LoseLease
<1>9. ASSUME NEW o \in Slots, Notice(o) PROVE FALSE
  BY <1>9, <1>i DEF Notice
<1>10. ASSUME NEW p \in Processes, ProcessDies(p) PROVE GuardInv'
  <2>1. \A d \in Slots : at'[d] # "idle" => Proc(d) # p /\ at'[d] = at[d]
    BY <1>10 DEF ProcessDies
  <2>2. Inside' \subseteq Inside /\ \A d \in Inside' : lock' = d
    BY <1>10, <1>i, <2>1 DEF ProcessDies, Inside
  <2>3. \A d \in Slots : Proc(d) # p => cached'[StoreOf[d]] = cached[StoreOf[d]]
    BY <1>10 DEF ProcessDies, Proc
  <2>4. UNCHANGED <<manifest, kind, calls, acked>> /\ lost' = {}
    BY <1>10, <1>i DEF ProcessDies
  <2> QED  BY <1>i, <2>1, <2>2, <2>3, <2>4 DEF GuardInv, Change
<1>11. CASE UNCHANGED guardVars
  BY <1>11, <1>i DEF guardVars, GuardInv, Inside, Change
<1> QED
  BY <1>1, <1>2, <1>3, <1>5, <1>6, <1>7, <1>8, <1>9, <1>10, <1>11 DEF GuardNext, GuardStep

\* Operations of all stores of all processes exclude each other and work with
\* the manifest as it is on disk, and what they reported stays, through crashes,
\* until a lease is lost (#withStoreGuard, store.ts:253-306 and 666-759).
THEOREM GuardExcludesAndRefreshes == GuardSpec => []ExclusiveAndFresh
<1> DEFINE IInv == TypeInv /\ GuardInv
<1>1. GuardInit => IInv
  BY GuardAssumption DEF GuardInit, TypeInv, GuardTypeOK, OpKinds, Active, GuardInv, Inside
<1>2. IInv /\ [GuardNext]_guardVars => IInv'
  BY GuardTypeStep, GuardInvStep
<1>3. IInv => ExclusiveAndFresh
  <2> SUFFICES ASSUME IInv PROVE ExclusiveAndFresh
    OBVIOUS
  <2>1. GuardTypeOK  BY DEF TypeInv
  <2>2. ReportedChangesStay  BY DEF GuardInv, ReportedChangesStay
  <2>3. ASSUME stalls = 0 PROVE Cardinality(Inside) <= 1
    <3>1. Inside = {} \/ Inside = {lock}  BY <2>3 DEF GuardInv
    <3>2. Cardinality(Inside) \in {0, 1}  BY <3>1, FS_EmptySet, FS_Singleton
    <3> QED  BY <3>2
  <2>4. OneInsideAndFresh  BY <2>3 DEF GuardInv, OneInsideAndFresh, Inside
  <2> QED  BY <2>1, <2>2, <2>4 DEF ExclusiveAndFresh
<1> QED  BY <1>1, <1>2, <1>3, PTL DEF GuardSpec

(***************************************************************************)
(* The migrations of the knowledge index.                                   *)
(***************************************************************************)
Filling == {"create", "backfilling", "batch", "validate", "activate"}
TaskAt(t, steps) == worker[t] # Absent /\ worker[t].pc \in steps

\* A process that is down runs nothing.
DownIsIdle ==
    /\ mode # "up" => command = Absent /\ toRecover = {}
    /\ mode = "down" => Working = {}

\* One generation is active and holds what is kept of it; a generation the
\* manifest names has its collection, or was cut.
GenerationInv ==
    /\ \A g \in Gens : indexes.gens[g] = "active" <=> g = indexes.active
    /\ docs[indexes.active] = kept[indexes.active]
    /\ \A g \in Gens : indexes.gens[g] # "none" => docs[g] # Absent \/ g \in cut

\* What the manifest says of the collections.
Kept == GenerationInv /\ RollbackRestores

\* A task fills a generation that is not the active one from what that one
\* holds, and the step it is at says what is done.
FillsFromActive(t) ==
    /\ TaskAt(t, Filling) => /\ worker[t].snap = RecordsOf(indexes.active)
                             /\ worker[t].rest \subseteq worker[t].snap
    /\ TaskAt(t, Filling \cup {"failGeneration"}) => t # indexes.active
    /\ TaskAt(t, {"create"}) => indexes.gens[t] = "none"
    /\ TaskAt(t, {"create", "backfilling"}) => worker[t].rest = worker[t].snap
    /\ TaskAt(t, {"batch"}) => indexes.gens[t] \in {"none", "backfilling"}
    /\ TaskAt(t, {"batch"}) => worker[t].snap \ worker[t].rest \subseteq RecordsOf(t)
    /\ TaskAt(t, {"validate", "activate"}) => indexes.gens[t] = "validating"
    /\ TaskAt(t, {"validate", "activate"}) => worker[t].snap \subseteq RecordsOf(t)
    /\ TaskAt(t, {"activate"}) => Complete(t)
FillInv == \A t \in Spaces : FillsFromActive(t)

\* A task without attempts left stands at the head of its loop only over a job
\* that has none left either, or was given new ones since.
AttemptsAgree(t) ==
    /\ TaskAt(t, {"requeue"}) => HasAttempts(t)
    /\ TaskAt(t, {"lease"}) /\ ~ HasAttempts(t) =>
           job[t] # Absent /\ (job[t].attempts = MaxAttempts \/ t \in joined)

\* The job of a process that is up is not forgotten.
Remembered(t) ==
    mode = "up" /\ Unfinished(t) =>
        \/ worker[t] # Absent \/ t \in toRecover
        \/ job[t].attempts = MaxAttempts \/ t \in joined
JobInv == \A t \in Spaces : AttemptsAgree(t) /\ Remembered(t)

MigrationInv == MigrationTypeOK /\ DownIsIdle /\ Kept /\ FillInv /\ JobInv

LEMMA TaskTypes ==
    ASSUME MigrationTypeOK, NEW t \in Spaces, worker[t] # Absent
    PROVE  /\ worker[t] \in Tasks
           /\ \A p \in TaskSteps : [worker EXCEPT ![t].pc = p] \in [Spaces -> Tasks \cup {Absent}]
           /\ \A s \in JobStates : [state |-> s, attempts |-> worker[t].attempts] \in Jobs
  BY DEF MigrationTypeOK, Tasks, Jobs

LEMMA MigrationTypeStep == MigrationTypeOK /\ [MigrationNext]_migrationVars => MigrationTypeOK'
<1> SUFFICES ASSUME MigrationTypeOK, [MigrationNext]_migrationVars PROVE MigrationTypeOK'
  OBVIOUS
<1> USE MigrationAssumption DEF MigrationTypeOK
<1>j. Absent \notin Jobs /\ Absent \notin Tasks /\ Absent \notin Commands /\ Absent \notin SUBSET Docs
  OBVIOUS
<1>n. Spaces \subseteq Gens /\ First \in Gens  BY DEF Gens
<1>r. \A g \in Gens : RecordsOf(g) \in SUBSET Docs  BY DEF RecordsOf
<1>s. \A g \in Gens : SpaceOf(g) \in Spaces  BY DEF SpaceOf, Gens
<1>w. \A g \in Gens : Switched(g) \in [active : Gens, gens : [Gens -> GenStates]]
  BY DEF Switched, GenStates
<1>1. CASE Edit
  <2>1. docs' \in [Gens -> (SUBSET Docs) \cup {Absent}]
    BY <1>1, <1>r DEF Edit, RecordsOf
  <2> QED  BY <1>1, <2>1 DEF Edit
<1>2. ASSUME NEW t \in Spaces, EnqueueRead(t) PROVE MigrationTypeOK'
  BY <1>2 DEF EnqueueRead, Commands, Jobs, JobStates
<1>3. CASE EnqueueWrite
  <2>1. command \in Commands  BY <1>3 DEF EnqueueWrite
  <2>2. command.target \in Spaces /\ command.job \in Jobs  BY <2>1 DEF Commands
  <2>3. Scheduled(command.target, command.job) \in Tasks \cup {Absent}
    BY <2>2 DEF Scheduled, Tasks, Jobs, TaskSteps
  <2>4. job'[command.target] # Absent /\ \A t \in Spaces : job[t] # Absent => job'[t] # Absent
    BY <1>3, <1>j, <2>2 DEF EnqueueWrite
  <2>5. toRecover' \subseteq {t \in Spaces : job'[t] # Absent}  BY <1>3, <2>4 DEF EnqueueWrite
  <2>6. joined' \subseteq Spaces /\ job' \in [Spaces -> Jobs \cup {Absent}]
        /\ worker' \in [Spaces -> Tasks \cup {Absent}]
    BY <1>3, <2>2, <2>3 DEF EnqueueWrite
  <2> QED  BY <1>3, <2>5, <2>6 DEF EnqueueWrite
<1>4. ASSUME NEW t \in Spaces, Recover(t) PROVE MigrationTypeOK'
  <2>1. job[t] \in Jobs  BY <1>4 DEF Recover
  <2>2. Scheduled(t, job[t]) \in Tasks \cup {Absent}
    BY <2>1 DEF Scheduled, Tasks, Jobs, TaskSteps
  <2>3. \A s \in JobStates : /\ [job EXCEPT ![t].state = s] \in [Spaces -> Jobs \cup {Absent}]
                             /\ [job EXCEPT ![t].state = s][t] # Absent
    BY <1>j, <2>1 DEF Jobs
  <2>4. job' \in [Spaces -> Jobs \cup {Absent}] /\ worker' \in [Spaces -> Tasks \cup {Absent}]
    BY <1>4, <2>2, <2>3 DEF Recover, JobStates
  <2>5. \A u \in Spaces : job[u] # Absent => job'[u] # Absent
    BY <1>4, <2>3 DEF Recover, JobStates
  <2> QED  BY <1>4, <2>4, <2>5 DEF Recover
<1>5. ASSUME NEW t \in Spaces, TaskStep(t) PROVE MigrationTypeOK'
  <2>a. worker[t] # Absent /\ worker[t] \in Tasks  BY <1>5 DEF TaskStep, At, Lease, RunJob, Snapshot, CreateGeneration,
        MarkBackfilling, Batch, EmbedFails, Unnamed, Validate, Activate, Finish, FailGeneration, FailJob, Requeue, Bury
  <2>b. \A p \in TaskSteps : [worker EXCEPT ![t].pc = p] \in [Spaces -> Tasks \cup {Absent}]
    BY <2>a, TaskTypes
  <2>c. \A s \in JobStates : /\ [state |-> s, attempts |-> worker[t].attempts] \in Jobs
                             /\ [job EXCEPT ![t] = [state |-> s, attempts |-> worker[t].attempts]]
                                    \in [Spaces -> Jobs \cup {Absent}]
    BY <2>a, TaskTypes
  <2>d. \A s \in JobStates : Persist(t, s) =>
            /\ job' \in [Spaces -> Jobs \cup {Absent}]
            /\ \A u \in Spaces : job[u] # Absent => job'[u] # Absent
    BY <1>j, <2>c DEF Persist
  <2>e. ASSUME NEW r \in BOOLEAN, Fails(t, r) PROVE worker' \in [Spaces -> Tasks \cup {Absent}]
    <3>1. [worker[t] EXCEPT !.pc = "failGeneration", !.retryable = r] \in Tasks
      BY <2>a DEF Tasks, TaskSteps
    <3>2. worker' = [worker EXCEPT ![t] = [worker[t] EXCEPT !.pc = "failGeneration", !.retryable = r]]
      BY <2>e DEF Fails
    <3> QED  BY <3>1, <3>2
  <2>f. EndTask(t) => worker' \in [Spaces -> Tasks \cup {Absent}]  BY DEF EndTask
  <2>g. \A s \in GenStates : SetGeneration(t, s) =>
            indexes' \in [active : Gens, gens : [Gens -> GenStates]]
    BY <1>n DEF SetGeneration
  <2>1. CASE Lease(t)
    <3>1. CASE HasAttempts(t) /\ mode = "up"
      <4>1. worker[t].attempts + 1 \in 0 .. MaxAttempts
        BY <2>a, <3>1 DEF HasAttempts, Tasks
      <4>2. worker' \in [Spaces -> Tasks \cup {Absent}]
        BY <2>1, <2>a, <3>1, <4>1 DEF Lease, Tasks, TaskSteps
      <4>3. [state |-> "leased", attempts |-> worker[t].attempts + 1] \in Jobs
        BY <4>1 DEF Jobs, JobStates
      <4>4. job' \in [Spaces -> Jobs \cup {Absent}]
            /\ \A u \in Spaces : job[u] # Absent => job'[u] # Absent
        BY <1>j, <2>1, <3>1, <4>3 DEF Lease
      <4> QED  BY <2>1, <4>2, <4>4 DEF Lease, Frame
    <3>2. CASE ~ (HasAttempts(t) /\ mode = "up")
      BY <2>1, <2>f, <3>2 DEF Lease, Frame
    <3> QED  BY <3>1, <3>2
  <2>2. CASE RunJob(t)  BY <2>2, <2>b, <2>d DEF RunJob, Frame, Goto, TaskSteps, JobStates
  <2>3. CASE Snapshot(t)
    <3>1. CASE indexes.active = t /\ indexes.gens[t] = "active"
      BY <2>3, <2>b, <3>1 DEF Snapshot, Frame, Goto, TaskSteps
    <3>2. CASE ~ (indexes.active = t /\ indexes.gens[t] = "active")
      <4>1. RecordsOf(indexes.active) \in SUBSET Docs  BY <1>r
      <4>2. worker' \in [Spaces -> Tasks \cup {Absent}]
        BY <2>3, <2>a, <3>2, <4>1 DEF Snapshot, Tasks, TaskSteps
      <4> QED  BY <2>3, <4>2 DEF Snapshot, Frame
    <3> QED  BY <3>1, <3>2
  <2>4. CASE CreateGeneration(t)
    BY <2>4, <2>b, <1>n, <1>r DEF CreateGeneration, Frame, Goto, TaskSteps, GenStates
  <2>5. CASE MarkBackfilling(t)
    BY <2>5, <2>b, <2>g DEF MarkBackfilling, Frame, Goto, TaskSteps, GenStates
  <2>6. CASE Batch(t)
    <3>1. CASE worker[t].rest = {}
      BY <2>6, <3>1, <2>b, <2>g DEF Batch, Frame, Goto, TaskSteps, GenStates
    <3>2. CASE worker[t].rest # {}
      <4>1. PICK d \in worker[t].rest :
               /\ docs' = [docs EXCEPT ![t] = RecordsOf(t) \cup {d}]
               /\ worker' = [worker EXCEPT ![t].rest = @ \ {d}]
        BY <2>6, <3>2 DEF Batch
      <4>2. d \in Docs  BY <2>a DEF Tasks
      <4>3. docs' \in [Gens -> (SUBSET Docs) \cup {Absent}]  BY <1>n, <1>r, <4>1, <4>2
      <4>4. worker' \in [Spaces -> Tasks \cup {Absent}]  BY <2>a, <4>1 DEF Tasks
      <4> QED  BY <2>6, <3>2, <4>3, <4>4 DEF Batch, Frame
    <3> QED  BY <3>1, <3>2
  <2>7. CASE EmbedFails(t)  BY <2>7, <2>e DEF EmbedFails, Frame
  <2>8. CASE Unnamed(t)  BY <2>8, <2>e DEF Unnamed, Frame
  <2>9. CASE Validate(t)  BY <2>9, <2>b, <2>e DEF Validate, Frame, Goto, TaskSteps
  <2>10. CASE Activate(t)
    <3>1. CASE indexes.gens[t] = "validating"
      BY <2>10, <3>1, <1>n, <1>w, <2>b DEF Activate, Goto, TaskSteps
    <3>2. CASE indexes.gens[t] # "validating"
      BY <2>10, <3>2, <2>e DEF Activate
    <3> QED  BY <3>1, <3>2
  <2>11. CASE Finish(t)  BY <2>11, <2>d, <2>f DEF Finish, Frame, JobStates
  <2>12. CASE FailGeneration(t)
    BY <2>12, <2>b, <2>g DEF FailGeneration, Frame, Goto, TaskSteps, GenStates
  <2>13. CASE FailJob(t)
    BY <2>13, <2>b, <2>d, <2>f DEF FailJob, Frame, Goto, TaskSteps, JobStates
  <2>14. CASE Requeue(t)  BY <2>14, <2>b, <2>d DEF Requeue, Frame, Goto, TaskSteps, JobStates
  <2>15. CASE Bury(t)  BY <2>15, <2>d, <2>f DEF Bury, Frame, JobStates
  <2> QED  BY <1>5, <2>1, <2>2, <2>3, <2>4, <2>5, <2>6, <2>7, <2>8, <2>9, <2>10, <2>11, <2>12, <2>13, <2>14, <2>15
          DEF TaskStep
<1>6. ASSUME NEW g \in Gens, Rollback(g) PROVE MigrationTypeOK'
  BY <1>6, <1>w DEF Rollback
<1>7. CASE Collect
  <2>1. PICK old \in SUBSET Expired :
           /\ docs' = [g \in Gens |-> IF g \in old THEN Absent ELSE docs[g]]
           /\ indexes' = [indexes EXCEPT !.gens =
                             [g \in Gens |-> IF g \in old THEN "none" ELSE indexes.gens[g]]]
           /\ cut' = cut \ old
    BY <1>7 DEF Collect
  <2>2. indexes' \in [active : Gens, gens : [Gens -> GenStates]]
    BY <2>1 DEF GenStates
  <2> QED  BY <1>7, <2>1, <2>2 DEF Collect
<1>8. CASE CollectCut
  <2>1. PICK old \in SUBSET Expired :
           /\ docs' = [g \in Gens |-> IF g \in old THEN Absent ELSE docs[g]]
           /\ cut' = cut \cup old
    BY <1>8 DEF CollectCut
  <2>2. old \subseteq Gens  BY <2>1 DEF Expired
  <2> QED  BY <1>8, <2>1, <2>2 DEF CollectCut, Stopped
<1>9. CASE Die  BY <1>9 DEF Die, Stopped
<1>10. CASE Close  BY <1>10 DEF Close
<1>11. CASE Exit  BY <1>11 DEF Exit, Stopped
<1>12. CASE StartUp  BY <1>12, <1>s DEF StartUp, Unsettled
<1>13. CASE UNCHANGED migrationVars  BY <1>13 DEF migrationVars
<1> QED  BY <1>1, <1>2, <1>3, <1>4, <1>5, <1>6, <1>7, <1>8, <1>9, <1>10, <1>11, <1>12, <1>13 DEF MigrationNext

LEMMA IdleStep ==
    MigrationTypeOK /\ DownIsIdle /\ [MigrationNext]_migrationVars => DownIsIdle'
<1> SUFFICES ASSUME MigrationTypeOK, DownIsIdle, [MigrationNext]_migrationVars PROVE DownIsIdle'
  OBVIOUS
<1>1. ASSUME NEW t \in Spaces, TaskStep(t) PROVE DownIsIdle'
  <2>1. mode # "down" /\ UNCHANGED <<command, toRecover, mode>>
    BY <1>1 DEF TaskStep, At, Frame, Lease, RunJob, Snapshot, CreateGeneration, MarkBackfilling, Batch, EmbedFails,
       Unnamed, Validate, Activate, Finish, FailGeneration, FailJob, Requeue, Bury
  <2> QED  BY <2>1 DEF DownIsIdle
<1>2. CASE Die \/ Exit \/ CollectCut
  BY <1>2 DEF DownIsIdle, Die, Exit, CollectCut, Stopped, Working
<1>3. CASE Edit \/ EnqueueWrite \/ Collect \/ Close \/ StartUp
  BY <1>3 DEF DownIsIdle, Edit, EnqueueWrite, Collect, Close, StartUp
<1>4. ASSUME NEW t \in Spaces, EnqueueRead(t) \/ Recover(t) PROVE DownIsIdle'
  BY <1>4 DEF DownIsIdle, EnqueueRead, Recover
<1>5. ASSUME NEW g \in Gens, Rollback(g) PROVE DownIsIdle'
  BY <1>5 DEF DownIsIdle, Rollback
<1>6. CASE UNCHANGED migrationVars
  BY <1>6 DEF DownIsIdle, migrationVars, Working
<1> QED  BY <1>1, <1>2, <1>3, <1>4, <1>5, <1>6 DEF MigrationNext

\* A switch to a generation that is there, or was cut, and is not the active one.
LEMMA SwitchKeeps ==
    ASSUME MigrationTypeOK, Kept, NEW g \in Gens, g # indexes.active, indexes.gens[g] # "none",
           indexes' = Switched(g), kept' = [kept EXCEPT ![g] = docs[g]], UNCHANGED <<docs, cut>>
    PROVE  Kept'
<1> USE DEF MigrationTypeOK, Kept, GenerationInv, RollbackRestores
<1>1. indexes'.active = g
      /\ indexes'.gens = [h \in Gens |-> IF h = g THEN "active"
                                         ELSE IF h = indexes.active THEN "superseded" ELSE indexes.gens[h]]
  BY DEF Switched
<1>2. \A h \in Gens : indexes'.gens[h] = "active" <=> h = g  BY <1>1
<1>3. docs'[g] = kept'[g]  OBVIOUS
<1>4. ASSUME NEW h \in Gens, indexes'.gens[h] # "none" PROVE docs'[h] # Absent \/ h \in cut'
  BY <1>1, <1>4 DEF GenStates
<1>5. ASSUME NEW h \in Gens \ cut', indexes'.gens[h] = "superseded" PROVE docs'[h] = kept'[h]
  BY <1>1, <1>5
<1> QED  BY <1>1, <1>2, <1>3, <1>4, <1>5

\* A state given to a generation that is not the active one.
LEMMA MarkKeeps ==
    ASSUME MigrationTypeOK, Kept, NEW t \in Spaces, t # indexes.active,
           NEW s \in GenStates \ {"none", "active", "superseded"},
           SetGeneration(t, s), UNCHANGED <<docs, kept, cut>>
    PROVE  Kept'
  BY DEF MigrationTypeOK, Kept, GenerationInv, RollbackRestores, SetGeneration, Gens

LEMMA GenerationStep ==
    MigrationTypeOK /\ Kept /\ FillInv /\ [MigrationNext]_migrationVars => Kept'
<1> SUFFICES ASSUME MigrationTypeOK, Kept, FillInv, [MigrationNext]_migrationVars PROVE Kept'
  OBVIOUS
<1> USE MigrationAssumption DEF MigrationTypeOK
<1>n. Spaces \subseteq Gens  BY DEF Gens
<1>0. ASSUME UNCHANGED <<indexes, docs, kept, cut>> PROVE Kept'
  BY <1>0 DEF Kept, GenerationInv, RollbackRestores
<1>1. CASE Edit
  <2>1. docs'[indexes.active] # Absent /\ docs'[indexes.active] = kept'[indexes.active]
    BY <1>1 DEF Edit, RecordsOf
  <2>2. \A g \in Gens : g # indexes.active => docs'[g] = docs[g] /\ kept'[g] = kept[g]
    BY <1>1 DEF Edit
  <2>3. UNCHANGED <<indexes, cut>>  BY <1>1 DEF Edit
  <2> QED  BY <2>1, <2>2, <2>3 DEF Kept, GenerationInv, RollbackRestores
<1>2. ASSUME NEW g \in Gens, Rollback(g) PROVE Kept'
  <2>1. g # indexes.active  BY <1>2 DEF Rollback, Kept, GenerationInv
  <2> QED  BY <1>2, <2>1, SwitchKeeps DEF Rollback
<1>3. CASE Collect
  <2>1. PICK old \in SUBSET Expired :
           /\ docs' = [g \in Gens |-> IF g \in old THEN Absent ELSE docs[g]]
           /\ indexes' = [indexes EXCEPT !.gens =
                             [g \in Gens |-> IF g \in old THEN "none" ELSE indexes.gens[g]]]
           /\ cut' = cut \ old
    BY <1>3 DEF Collect
  <2>2. indexes.active \notin old  BY <2>1 DEF Expired
  <2> QED  BY <1>3, <2>1, <2>2 DEF Collect, Kept, GenerationInv, RollbackRestores
<1>4. CASE CollectCut
  <2>1. PICK old \in SUBSET Expired :
           /\ docs' = [g \in Gens |-> IF g \in old THEN Absent ELSE docs[g]]
           /\ cut' = cut \cup old
    BY <1>4 DEF CollectCut
  <2>2. indexes.active \notin old  BY <2>1 DEF Expired
  <2> QED  BY <1>4, <2>1, <2>2 DEF CollectCut, Kept, GenerationInv, RollbackRestores
<1>5. ASSUME NEW t \in Spaces, TaskStep(t) PROVE Kept'
  <2>f. FillsFromActive(t)  BY DEF FillInv
  <2>1. CASE CreateGeneration(t)
    <3>1. indexes.gens[t] = "none" /\ t # indexes.active
      BY <2>1, <2>f DEF CreateGeneration, At, FillsFromActive, TaskAt, Filling
    <3>2. RecordsOf(t) # Absent  BY <1>n DEF RecordsOf
    <3> QED  BY <2>1, <3>1, <3>2, <1>n DEF CreateGeneration, Frame, Kept, GenerationInv, RollbackRestores
  <2>2. CASE MarkBackfilling(t)
    <3>1. t # indexes.active  BY <2>2, <2>f DEF MarkBackfilling, At, FillsFromActive, TaskAt, Filling
    <3> QED  BY <2>2, <3>1, MarkKeeps DEF MarkBackfilling, Frame, GenStates
  <2>3. CASE Batch(t)
    <3>1. t # indexes.active /\ indexes.gens[t] = "backfilling"
      BY <2>3, <2>f DEF Batch, At, FillsFromActive, TaskAt, Filling
    <3>2. CASE worker[t].rest = {}
      BY <2>3, <3>1, <3>2, MarkKeeps DEF Batch, Frame, GenStates
    <3>3. CASE worker[t].rest # {}
      <4>1. PICK d : /\ docs' = [docs EXCEPT ![t] = RecordsOf(t) \cup {d}]
                     /\ docs' \in [Gens -> (SUBSET Docs) \cup {Absent}]
                     /\ d \in worker[t].rest
        BY <2>3, <3>3, MigrationTypeStep DEF Batch
      <4>2. RecordsOf(t) \cup {d} # Absent
        <5>1. worker[t] \in Tasks  BY <2>3, TaskTypes DEF Batch, At
        <5>2. RecordsOf(t) \cup {d} \in SUBSET Docs  BY <4>1, <5>1, <1>n DEF RecordsOf, Tasks
        <5> QED  BY <5>2
      <4> QED  BY <2>3, <3>1, <3>3, <4>1, <4>2, <1>n DEF Batch, Frame, Kept, GenerationInv, RollbackRestores
    <3> QED  BY <3>2, <3>3
  <2>4. CASE Activate(t)
    <3>1. t # indexes.active /\ indexes.gens[t] = "validating"
      BY <2>4, <2>f DEF Activate, At, FillsFromActive, TaskAt, Filling
    <3> QED  BY <2>4, <3>1, <1>n, SwitchKeeps DEF Activate
  <2>5. CASE FailGeneration(t)
    <3>1. t # indexes.active  BY <2>5, <2>f DEF FailGeneration, At, FillsFromActive, TaskAt
    <3> QED  BY <2>5, <3>1, MarkKeeps DEF FailGeneration, Frame, GenStates
  <2>6. CASE Lease(t) \/ RunJob(t) \/ Snapshot(t) \/ EmbedFails(t) \/ Unnamed(t) \/ Validate(t) \/ Finish(t)
             \/ FailJob(t) \/ Requeue(t) \/ Bury(t)
    BY <2>6, <1>0 DEF Lease, RunJob, Snapshot, EmbedFails, Unnamed, Validate, Finish, FailJob, Requeue, Bury, Frame
  <2> QED  BY <1>5, <2>1, <2>2, <2>3, <2>4, <2>5, <2>6 DEF TaskStep
<1>6. ASSUME NEW t \in Spaces, EnqueueRead(t) \/ Recover(t) PROVE Kept'
  BY <1>6, <1>0 DEF EnqueueRead, Recover
<1>7. CASE EnqueueWrite \/ Die \/ Close \/ Exit \/ StartUp
  BY <1>7, <1>0 DEF EnqueueWrite, Die, Close, Exit, StartUp
<1>8. CASE UNCHANGED migrationVars  BY <1>8, <1>0 DEF migrationVars
<1> QED  BY <1>1, <1>2, <1>3, <1>4, <1>5, <1>6, <1>7, <1>8 DEF MigrationNext

-----------------------------------------------------------------------------
\* What a task relies on is left alone.
LEMMA FillsKept ==
    ASSUME NEW t \in Spaces, FillsFromActive(t),
           worker'[t] = worker[t],
           RecordsOf(indexes.active)' = RecordsOf(indexes.active),
           TaskAt(t, Filling \cup {"failGeneration"}) => t # indexes'.active,
           TaskAt(t, Filling \ {"backfilling"}) =>
               indexes'.gens[t] = indexes.gens[t] /\ RecordsOf(t)' = RecordsOf(t)
    PROVE  FillsFromActive(t)'
  BY DEF FillsFromActive, TaskAt, Filling, Complete

\* A generation with as many records as the active one, and all of those, has
\* the same records.
LEMMA ExactWhenComplete ==
    ASSUME MigrationTypeOK, NEW t \in Spaces, FillsFromActive(t), TaskAt(t, {"activate"})
    PROVE  RecordsOf(t) = RecordsOf(indexes.active)
<1>1. worker[t].snap = RecordsOf(indexes.active) /\ worker[t].snap \subseteq RecordsOf(t)
      /\ Cardinality(RecordsOf(t)) = Cardinality(worker[t].snap)
  BY DEF FillsFromActive, TaskAt, Filling, Complete
<1>2. IsFiniteSet(RecordsOf(t))
  <2>1. RecordsOf(t) \subseteq Docs  BY DEF RecordsOf, MigrationTypeOK, Gens
  <2> QED  BY <2>1, MigrationAssumption, FS_Subset
<1> QED  BY <1>1, <1>2, FS_Subset

LEMMA FillStep ==
    MigrationTypeOK /\ DownIsIdle /\ Kept /\ FillInv /\ [MigrationNext]_migrationVars => FillInv'
<1> SUFFICES ASSUME MigrationTypeOK, DownIsIdle, Kept, FillInv, [MigrationNext]_migrationVars,
                    NEW u \in Spaces
             PROVE  FillsFromActive(u)'
  BY DEF FillInv
<1> USE MigrationAssumption DEF MigrationTypeOK
<1>n. Spaces \subseteq Gens  BY DEF Gens
<1>u. FillsFromActive(u)  BY DEF FillInv
<1>a. \A t \in Spaces : TaskAt(t, Filling \cup {"failGeneration"}) => t # indexes.active
  BY DEF FillInv, FillsFromActive
<1>0. ASSUME UNCHANGED <<indexes, docs>>, worker'[u] = worker[u] PROVE FillsFromActive(u)'
  BY <1>0, <1>a, <1>u, FillsKept DEF RecordsOf
<1>d. ASSUME worker'[u] = Absent PROVE FillsFromActive(u)'
  BY <1>d DEF FillsFromActive, TaskAt
<1>1. CASE Edit \/ \E g \in Gens : Rollback(g)
  <2>1. worker'[u] = Absent  BY <1>1 DEF Edit, Rollback, Working
  <2> QED  BY <2>1, <1>d
<1>2. CASE Collect
  <2>1. PICK old \in SUBSET Expired :
           /\ docs' = [g \in Gens |-> IF g \in old THEN Absent ELSE docs[g]]
           /\ indexes' = [indexes EXCEPT !.gens =
                             [g \in Gens |-> IF g \in old THEN "none" ELSE indexes.gens[g]]]
    BY <1>2 DEF Collect
  <2>2. \A g \in Gens \ old : docs'[g] = docs[g] /\ indexes'.gens[g] = indexes.gens[g]
    BY <2>1
  <2>3. indexes.active \notin old /\ indexes'.active = indexes.active  BY <2>1 DEF Expired
  <2>4. RecordsOf(indexes.active)' = RecordsOf(indexes.active)  BY <2>2, <2>3 DEF RecordsOf
  <2>5. TaskAt(u, Filling \ {"backfilling"}) => u \notin old
    BY <1>u, <2>1 DEF FillsFromActive, TaskAt, Filling, Expired
  <2>6. TaskAt(u, Filling \ {"backfilling"}) =>
            indexes'.gens[u] = indexes.gens[u] /\ RecordsOf(u)' = RecordsOf(u)
    BY <1>n, <2>2, <2>5 DEF RecordsOf
  <2> QED  BY <1>2, <1>a, <1>u, <2>3, <2>4, <2>6, FillsKept DEF Collect
<1>3. CASE CollectCut \/ Die \/ Exit
  BY <1>3, <1>d DEF CollectCut, Die, Exit, Stopped
<1>4. CASE Close \/ StartUp  BY <1>4, <1>0 DEF Close, StartUp
<1>5. CASE EnqueueWrite \/ \E t \in Spaces : Recover(t)
  <2>1. UNCHANGED <<indexes, docs>>  BY <1>5 DEF EnqueueWrite, Recover
  <2>2. worker'[u] = worker[u] \/ (worker'[u] # Absent /\ worker'[u].pc = "lease")
    BY <1>5 DEF EnqueueWrite, Recover, Scheduled
  <2>3. CASE worker'[u] # Absent /\ worker'[u].pc = "lease"
    BY <2>3 DEF FillsFromActive, TaskAt, Filling
  <2> QED  BY <1>0, <2>1, <2>2, <2>3
<1>6. ASSUME NEW t \in Spaces, EnqueueRead(t) PROVE FillsFromActive(u)'
  BY <1>6, <1>0 DEF EnqueueRead
<1>7. ASSUME NEW t \in Spaces, TaskStep(t) PROVE FillsFromActive(u)'
  <2>t. FillsFromActive(t)  BY DEF FillInv
  <2>w. worker[t] # Absent /\ worker[t] \in Tasks
    BY <1>7 DEF TaskStep, At, Lease, RunJob, Snapshot, CreateGeneration,
        MarkBackfilling, Batch, EmbedFails, Unnamed, Validate, Activate, Finish, FailGeneration, FailJob, Requeue, Bury
  \* Steps that leave the generations alone and end outside the filling.
  <2>q. ASSUME UNCHANGED <<indexes, docs>>, \A v \in Spaces \ {t} : worker'[v] = worker[v],
               worker'[t] = Absent \/ worker'[t].pc \notin Filling \cup {"failGeneration"}
        PROVE  FillsFromActive(u)'
    <3>1. CASE u = t  BY <2>q, <3>1 DEF FillsFromActive, TaskAt, Filling
    <3>2. CASE u # t  BY <2>q, <3>2, <1>0
    <3> QED  BY <3>1, <3>2
  \* A failure.
  <2>e. ASSUME NEW r \in BOOLEAN, Fails(t, r), TaskAt(t, Filling), UNCHANGED <<indexes, docs>>
        PROVE  FillsFromActive(u)'
    <3>1. CASE u = t
      <4>1. worker'[t].pc = "failGeneration"  BY <2>e, <2>w DEF Fails, Tasks
      <4>2. t # indexes'.active  BY <1>a, <2>e DEF TaskAt
      <4> QED  BY <3>1, <4>1, <4>2 DEF FillsFromActive, TaskAt, Filling
    <3>2. CASE u # t  BY <2>e, <3>2, <1>0 DEF Fails
    <3> QED  BY <3>1, <3>2
  \* A step of another task that is not the switch.
  <2>o. ASSUME u # t, \A v \in Spaces \ {t} : worker'[v] = worker[v], t # indexes.active,
               indexes'.active = indexes.active,
               \A g \in Gens \ {t} : docs'[g] = docs[g] /\ indexes'.gens[g] = indexes.gens[g]
        PROVE  FillsFromActive(u)'
    <3>1. RecordsOf(indexes.active)' = RecordsOf(indexes.active)  BY <2>o DEF RecordsOf
    <3>2. RecordsOf(u)' = RecordsOf(u) /\ indexes'.gens[u] = indexes.gens[u]
      BY <1>n, <2>o DEF RecordsOf
    <3> QED  BY <1>a, <1>u, <2>o, <3>1, <3>2, FillsKept
  <2>1. CASE Lease(t) \/ RunJob(t) \/ Finish(t) \/ FailJob(t) \/ Requeue(t) \/ Bury(t)
    <3>1. UNCHANGED <<indexes, docs>> /\ \A v \in Spaces \ {t} : worker'[v] = worker[v]
      BY <2>1 DEF Lease, RunJob, Finish, FailJob, Requeue, Bury, Goto, EndTask
    <3>2. worker'[t] = Absent \/ worker'[t].pc \in {"run", "snapshot", "requeue", "bury", "lease"}
      BY <2>1, <2>w DEF Lease, RunJob, Finish, FailJob, Requeue, Bury, Goto, EndTask, Tasks
    <3> QED  BY <2>q, <3>1, <3>2 DEF Filling
  <2>2. CASE Snapshot(t)
    <3>1. UNCHANGED <<indexes, docs>> /\ \A v \in Spaces \ {t} : worker'[v] = worker[v]
      BY <2>2 DEF Snapshot, Goto
    <3>2. CASE indexes.active = t /\ indexes.gens[t] = "active"
      <4>1. worker'[t].pc = "finish"  BY <2>2, <2>w, <3>2 DEF Snapshot, Goto, Tasks
      <4> QED  BY <2>q, <3>1, <4>1 DEF Filling
    <3>3. CASE ~ (indexes.active = t /\ indexes.gens[t] = "active")
      <4>1. t # indexes.active  BY <3>3, <1>n DEF Kept, GenerationInv
      <4>2. /\ worker'[t].pc = IF indexes.gens[t] = "none" THEN "create" ELSE "backfilling"
            /\ worker'[t].snap = RecordsOf(indexes.active) /\ worker'[t].rest = RecordsOf(indexes.active)
        BY <2>2, <2>w, <3>3 DEF Snapshot, Tasks
      <4>3. RecordsOf(indexes.active)' = RecordsOf(indexes.active)  BY <3>1 DEF RecordsOf
      <4>4. CASE u = t
        BY <3>1, <4>1, <4>2, <4>3, <4>4 DEF FillsFromActive, TaskAt, Filling
      <4>5. CASE u # t  BY <1>0, <3>1, <4>5
      <4> QED  BY <4>4, <4>5
    <3> QED  BY <3>2, <3>3
  <2>3. CASE CreateGeneration(t)
    <3>1. TaskAt(t, {"create"})  BY <2>3 DEF CreateGeneration, At, TaskAt
    <3>2. t # indexes.active  BY <1>a, <3>1 DEF TaskAt, Filling
    <3>3. /\ indexes'.active = indexes.active /\ \A v \in Spaces \ {t} : worker'[v] = worker[v]
          /\ \A g \in Gens \ {t} : docs'[g] = docs[g] /\ indexes'.gens[g] = indexes.gens[g]
      BY <2>3 DEF CreateGeneration, Goto
    <3>4. worker'[t] = [worker[t] EXCEPT !.pc = "backfilling"]  BY <2>3 DEF CreateGeneration, Goto
    <3>5. CASE u = t
      <4>1. RecordsOf(indexes.active)' = RecordsOf(indexes.active)  BY <3>2, <3>3 DEF RecordsOf
      <4>2. worker'[t].pc = "backfilling" /\ worker'[t].snap = worker[t].snap /\ worker'[t].rest = worker[t].rest
        BY <2>w, <3>4 DEF Tasks
      <4>3. worker[t].snap = RecordsOf(indexes.active) /\ worker[t].rest = worker[t].snap
        BY <2>t, <3>1 DEF FillsFromActive, TaskAt, Filling
      <4> QED  BY <3>2, <3>3, <3>5, <4>1, <4>2, <4>3 DEF FillsFromActive, TaskAt, Filling
    <3>6. CASE u # t  BY <2>o, <3>2, <3>3, <3>6
    <3> QED  BY <3>5, <3>6
  <2>4. CASE MarkBackfilling(t)
    <3>1. TaskAt(t, {"backfilling"})  BY <2>4 DEF MarkBackfilling, At, TaskAt
    <3>2. t # indexes.active  BY <1>a, <3>1 DEF TaskAt, Filling
    <3>3. /\ indexes'.active = indexes.active /\ \A v \in Spaces \ {t} : worker'[v] = worker[v]
          /\ docs' = docs /\ \A g \in Gens \ {t} : indexes'.gens[g] = indexes.gens[g]
      BY <2>4 DEF MarkBackfilling, Goto, SetGeneration
    <3>4. worker'[t] = [worker[t] EXCEPT !.pc = "batch"] /\ indexes'.gens[t] \in {"none", "backfilling"}
      BY <1>n, <2>4 DEF MarkBackfilling, Goto, SetGeneration
    <3>5. CASE u = t
      <4>1. RecordsOf(indexes.active)' = RecordsOf(indexes.active)  BY <3>3 DEF RecordsOf
      <4>2. worker'[t].pc = "batch" /\ worker'[t].snap = worker[t].snap /\ worker'[t].rest = worker[t].rest
        BY <2>w, <3>4 DEF Tasks
      <4>3. worker[t].snap = RecordsOf(indexes.active) /\ worker[t].rest = worker[t].snap
        BY <2>t, <3>1 DEF FillsFromActive, TaskAt, Filling
      <4> QED  BY <3>2, <3>3, <3>4, <3>5, <4>1, <4>2, <4>3 DEF FillsFromActive, TaskAt, Filling
    <3>6. CASE u # t  BY <2>o, <3>2, <3>3, <3>6
    <3> QED  BY <3>5, <3>6
  <2>5. CASE Batch(t)
    <3>1. TaskAt(t, {"batch"}) /\ indexes.gens[t] # "none"  BY <2>5 DEF Batch, At, TaskAt
    <3>2. t # indexes.active  BY <1>a, <3>1 DEF TaskAt, Filling
    <3>3. /\ worker[t].snap = RecordsOf(indexes.active) /\ worker[t].rest \subseteq worker[t].snap
          /\ worker[t].snap \ worker[t].rest \subseteq RecordsOf(t) /\ indexes.gens[t] = "backfilling"
      BY <2>t, <3>1 DEF FillsFromActive, TaskAt, Filling
    <3>4. CASE worker[t].rest = {}
      <4>1. /\ indexes'.active = indexes.active /\ \A v \in Spaces \ {t} : worker'[v] = worker[v]
            /\ docs' = docs /\ \A g \in Gens \ {t} : indexes'.gens[g] = indexes.gens[g]
            /\ indexes'.gens[t] = "validating"
            /\ worker'[t] = [worker[t] EXCEPT !.pc = "validate"]
        BY <1>n, <2>5, <3>1, <3>4 DEF Batch, Goto, SetGeneration
      <4>2. worker'[t].pc = "validate" /\ worker'[t].snap = worker[t].snap /\ worker'[t].rest = worker[t].rest
        BY <2>w, <4>1 DEF Tasks
      <4>3. \A g \in Gens : RecordsOf(g)' = RecordsOf(g)  BY <4>1 DEF RecordsOf
      <4>4. RecordsOf(indexes.active)' = RecordsOf(indexes.active)  BY <4>1 DEF RecordsOf
      <4>5. CASE u = t
        <5>1. worker'[t].snap \subseteq RecordsOf(t)'  BY <1>n, <3>3, <3>4, <4>2, <4>3
        <5>2. worker'[t].snap = RecordsOf(indexes.active)' /\ worker'[t].rest \subseteq worker'[t].snap
          BY <3>3, <4>2, <4>4
        <5> QED  BY <3>2, <4>1, <4>2, <4>5, <5>1, <5>2 DEF FillsFromActive, TaskAt, Filling
      <4>6. CASE u # t  BY <2>o, <3>2, <4>1, <4>6
      <4> QED  BY <4>5, <4>6
    <3>5. CASE worker[t].rest # {}
      <4>1. PICK d \in worker[t].rest :
               /\ docs' = [docs EXCEPT ![t] = RecordsOf(t) \cup {d}]
               /\ worker' = [worker EXCEPT ![t].rest = @ \ {d}]
               /\ UNCHANGED indexes
        BY <2>5, <3>5 DEF Batch
      <4>2. /\ worker'[t].pc = worker[t].pc /\ worker'[t].snap = worker[t].snap
            /\ worker'[t].rest = worker[t].rest \ {d}
        BY <2>w, <4>1 DEF Tasks
      <4>3. RecordsOf(t)' = RecordsOf(t) \cup {d}
        <5>1. RecordsOf(t) \cup {d} \in SUBSET Docs
          BY <1>n, <2>w, <4>1 DEF RecordsOf, Tasks
        <5>2. RecordsOf(t) \cup {d} # Absent  BY <5>1
        <5> QED  BY <1>n, <4>1, <5>2 DEF RecordsOf
      <4>4. RecordsOf(indexes.active)' = RecordsOf(indexes.active)  BY <3>2, <4>1 DEF RecordsOf
      <4>5. CASE u = t
        BY <3>1, <3>2, <3>3, <4>1, <4>2, <4>3, <4>4, <4>5 DEF FillsFromActive, TaskAt, Filling
      <4>6. CASE u # t  BY <2>o, <3>2, <4>1, <4>6
      <4> QED  BY <4>5, <4>6
    <3> QED  BY <3>4, <3>5
  <2>6. CASE EmbedFails(t) \/ Unnamed(t)
    <3>1. TaskAt(t, Filling) /\ UNCHANGED <<indexes, docs>>
      BY <2>6 DEF EmbedFails, Unnamed, At, TaskAt, Filling
    <3>2. \E r \in BOOLEAN : Fails(t, r)  BY <2>6 DEF EmbedFails, Unnamed
    <3> QED  BY <2>e, <3>1, <3>2
  <2>7. CASE Validate(t)
    <3>1. TaskAt(t, {"validate"}) /\ UNCHANGED <<indexes, docs>>  BY <2>7 DEF Validate, At, TaskAt
    <3>2. CASE Complete(t)
      <4>1. worker' = [worker EXCEPT ![t].pc = "activate"]  BY <2>7, <3>2 DEF Validate, Goto
      <4>2. worker'[t].pc = "activate" /\ worker'[t].snap = worker[t].snap /\ worker'[t].rest = worker[t].rest
        BY <2>w, <4>1 DEF Tasks
      <4>3. RecordsOf(t)' = RecordsOf(t) /\ RecordsOf(indexes.active)' = RecordsOf(indexes.active)
        BY <3>1 DEF RecordsOf
      <4>4. Complete(t)'  BY <3>2, <4>2, <4>3 DEF Complete
      <4>5. CASE u = t
        BY <2>t, <3>1, <4>2, <4>3, <4>4, <4>5 DEF FillsFromActive, TaskAt, Filling
      <4>6. CASE u # t  BY <1>0, <3>1, <4>1, <4>6
      <4> QED  BY <4>5, <4>6
    <3>3. CASE ~ Complete(t)
      <4>1. Fails(t, FALSE) /\ TaskAt(t, Filling)  BY <2>7, <3>1, <3>3 DEF Validate, TaskAt, Filling
      <4> QED  BY <2>e, <3>1, <4>1
    <3> QED  BY <3>2, <3>3
  <2>8. CASE Activate(t)
    <3>1. TaskAt(t, {"activate"}) /\ docs' = docs  BY <2>8 DEF Activate, At, TaskAt
    <3>2. t # indexes.active /\ indexes.gens[t] = "validating"
      BY <2>t, <3>1 DEF FillsFromActive, TaskAt, Filling
    <3>3. indexes' = Switched(t) /\ worker' = [worker EXCEPT ![t].pc = "finish"]
      BY <2>8, <3>2 DEF Activate, Goto
    <3>4. RecordsOf(t) = RecordsOf(indexes.active)  BY <2>t, <3>1, ExactWhenComplete
    <3>5. CASE u = t
      <4>1. worker'[t].pc = "finish"  BY <2>w, <3>3 DEF Tasks
      <4> QED  BY <3>5, <4>1 DEF FillsFromActive, TaskAt, Filling
    <3>6. CASE u # t
      <4>1. indexes'.active = t /\ RecordsOf(indexes.active)' = RecordsOf(indexes.active)
        BY <3>1, <3>3, <3>4 DEF Switched, RecordsOf
      <4>2. TaskAt(u, Filling \ {"backfilling"}) =>
                indexes'.gens[u] = indexes.gens[u] /\ RecordsOf(u)' = RecordsOf(u)
        BY <1>a, <1>n, <3>1, <3>3, <3>6 DEF Switched, RecordsOf, TaskAt, Filling
      <4> QED  BY <1>u, <3>3, <3>6, <4>1, <4>2, FillsKept
    <3> QED  BY <3>5, <3>6
  <2>9. CASE FailGeneration(t)
    <3>1. t # indexes.active  BY <1>a, <2>9 DEF FailGeneration, At, TaskAt
    <3>2. /\ indexes'.active = indexes.active /\ docs' = docs
          /\ \A g \in Gens \ {t} : indexes'.gens[g] = indexes.gens[g]
          /\ worker' = [worker EXCEPT ![t].pc = "failJob"]
      BY <2>9 DEF FailGeneration, SetGeneration, Goto
    <3>3. CASE u = t
      <4>1. worker'[t].pc = "failJob"  BY <2>w, <3>2 DEF Tasks
      <4> QED  BY <3>3, <4>1 DEF FillsFromActive, TaskAt, Filling
    <3>4. CASE u # t  BY <2>o, <3>1, <3>2, <3>4
    <3> QED  BY <3>3, <3>4
  <2> QED  BY <1>7, <2>1, <2>2, <2>3, <2>4, <2>5, <2>6, <2>7, <2>8, <2>9 DEF TaskStep
<1>8. CASE UNCHANGED migrationVars  BY <1>8, <1>0 DEF migrationVars
<1> QED  BY <1>1, <1>2, <1>3, <1>4, <1>5, <1>6, <1>7, <1>8 DEF MigrationNext

-----------------------------------------------------------------------------
LEMMA JobStep ==
    MigrationTypeOK /\ DownIsIdle /\ JobInv /\ [MigrationNext]_migrationVars => JobInv'
<1> SUFFICES ASSUME MigrationTypeOK, DownIsIdle, JobInv, [MigrationNext]_migrationVars,
                    NEW u \in Spaces
             PROVE  AttemptsAgree(u)' /\ Remembered(u)'
  BY DEF JobInv
<1> USE MigrationAssumption DEF MigrationTypeOK
<1>j. AttemptsAgree(u) /\ Remembered(u)  BY DEF JobInv
<1>0. ASSUME worker'[u] = worker[u], job'[u] = job[u], mode' = "up" => mode = "up",
             u \in toRecover => u \in toRecover' \/ mode' # "up", joined \subseteq joined'
      PROVE  AttemptsAgree(u)' /\ Remembered(u)'
  BY <1>0, <1>j DEF AttemptsAgree, Remembered, TaskAt, HasAttempts, Unfinished
<1>d. ASSUME mode' # "up", worker'[u] = Absent PROVE AttemptsAgree(u)' /\ Remembered(u)'
  BY <1>d DEF AttemptsAgree, Remembered, TaskAt
<1>1. CASE Edit \/ Collect \/ \E g \in Gens : Rollback(g)
  BY <1>1, <1>0 DEF Edit, Collect, Rollback
<1>2. CASE Die \/ Exit \/ CollectCut
  BY <1>2, <1>d DEF Die, Exit, CollectCut, Stopped
<1>3. CASE Close  BY <1>3, <1>0 DEF Close
<1>4. CASE StartUp
  <2>1. worker'[u] = Absent  BY <1>4 DEF StartUp, DownIsIdle, Working
  <2> QED  BY <1>4, <2>1 DEF StartUp, AttemptsAgree, Remembered, TaskAt, Unsettled, Unfinished
<1>5. ASSUME NEW t \in Spaces, EnqueueRead(t) PROVE AttemptsAgree(u)' /\ Remembered(u)'
  BY <1>5, <1>0 DEF EnqueueRead
<1>6. CASE EnqueueWrite
  <2>1. command \in Commands  BY <1>6 DEF EnqueueWrite
  <2>2. command.target \in Spaces /\ command.job \in Jobs  BY <2>1 DEF Commands
  <2>3. UNCHANGED <<toRecover, mode>> /\ joined \subseteq joined'  BY <1>6 DEF EnqueueWrite
  <2>4. CASE u # command.target  BY <1>6, <1>0, <2>3, <2>4 DEF EnqueueWrite
  <2>5. CASE u = command.target
    <3>1. job'[u] = command.job /\ job'[u] # Absent /\ worker'[u] = Scheduled(u, command.job)
      BY <1>6, <2>2, <2>5 DEF EnqueueWrite
    <3>2. command.job.attempts \in 0 .. MaxAttempts  BY <2>2 DEF Jobs
    <3>3. CASE worker[u] = Absent
      <4>1. worker'[u].pc = "lease" /\ worker'[u].attempts = command.job.attempts /\ worker'[u] # Absent
        <5>1. worker'[u] = [pc |-> "lease", attempts |-> command.job.attempts, snap |-> {}, rest |-> {},
                            retryable |-> TRUE]
          BY <3>1, <3>3 DEF Scheduled
        <5>2. worker'[u] \in Tasks  BY <3>2, <5>1 DEF Tasks, TaskSteps
        <5>3. worker'[u] # Absent  BY <5>2
        <5>4. worker'[u].pc = "lease" /\ worker'[u].attempts = command.job.attempts  BY <5>1
        <5> QED  BY <5>3, <5>4
      <4> QED  BY <3>1, <3>2, <4>1 DEF AttemptsAgree, Remembered, TaskAt, HasAttempts
    <3>4. CASE worker[u] # Absent
      <4>1. worker'[u] = worker[u]  BY <3>1, <3>4 DEF Scheduled
      <4>2. worker[u].attempts \in 0 .. MaxAttempts  BY <3>4 DEF Tasks
      <4>3. ASSUME TaskAt(u, {"lease"}), ~ HasAttempts(u), command.job.attempts # MaxAttempts
            PROVE  u \in joined'
        <5>1. worker[u].attempts = MaxAttempts /\ command.job.attempts < MaxAttempts
          BY <3>2, <4>2, <4>3 DEF HasAttempts
        <5>2. JoinsSpent  BY <2>5, <3>4, <4>3, <5>1 DEF JoinsSpent, TaskAt
        <5> QED  BY <1>6, <2>5, <5>2 DEF EnqueueWrite
      <4> QED  BY <1>j, <3>1, <3>4, <4>1, <4>3 DEF AttemptsAgree, Remembered, TaskAt, HasAttempts
    <3> QED  BY <3>3, <3>4
  <2> QED  BY <2>4, <2>5
<1>7. ASSUME NEW t \in Spaces, Recover(t) PROVE AttemptsAgree(u)' /\ Remembered(u)'
  <2>1. job[t] \in Jobs  BY <1>7 DEF Recover
  <2>2. UNCHANGED <<mode, joined>> /\ toRecover' = toRecover \ {t}  BY <1>7 DEF Recover
  <2>3. CASE u # t  BY <1>7, <1>0, <2>2, <2>3 DEF Recover
  <2>4. CASE u = t /\ job[t].attempts >= MaxAttempts
    <3>1. job'[t].state = "dead" /\ job'[t].attempts = job[t].attempts /\ worker' = worker
      BY <1>7, <2>1, <2>4 DEF Recover, Jobs
    <3>2. job'[t] # Absent  BY <1>7, <2>1, <2>4 DEF Recover, Jobs, JobStates
    <3> QED  BY <1>j, <2>2, <2>4, <3>1, <3>2 DEF AttemptsAgree, Remembered, TaskAt, HasAttempts, Unfinished
  <2>5. CASE u = t /\ ~ (job[t].attempts >= MaxAttempts)
    <3>1. /\ job' = [job EXCEPT ![t].state = "queued"] /\ worker' = [worker EXCEPT ![t] = Scheduled(t, job[t])]
      BY <1>7, <2>5 DEF Recover
    <3>2. job'[t].attempts = job[t].attempts /\ job'[t] # Absent
      BY <2>1, <3>1 DEF Jobs, JobStates
    <3>3. CASE worker[t] = Absent
      <4>1. worker'[t].pc = "lease" /\ worker'[t].attempts = job[t].attempts /\ worker'[t] # Absent
        BY <2>1, <3>1, <3>3 DEF Scheduled, Tasks, TaskSteps, Jobs
      <4>2. job[t].attempts < MaxAttempts  BY <2>1, <2>5 DEF Jobs
      <4> QED  BY <2>5, <4>1, <4>2 DEF AttemptsAgree, Remembered, TaskAt, HasAttempts
    <3>4. CASE worker[t] # Absent
      <4>1. worker'[t] = worker[t]  BY <3>1, <3>4 DEF Scheduled
      <4> QED  BY <1>j, <2>2, <2>5, <3>2, <3>4, <4>1 DEF AttemptsAgree, Remembered, TaskAt, HasAttempts
    <3> QED  BY <3>3, <3>4
  <2> QED  BY <2>3, <2>4, <2>5
<1>8. ASSUME NEW t \in Spaces, TaskStep(t) PROVE AttemptsAgree(u)' /\ Remembered(u)'
  <2>w. worker[t] # Absent /\ worker[t] \in Tasks
    BY <1>8 DEF TaskStep, At, Lease, RunJob, Snapshot, CreateGeneration,
        MarkBackfilling, Batch, EmbedFails, Unnamed, Validate, Activate, Finish, FailGeneration, FailJob, Requeue, Bury
  <2>1. /\ UNCHANGED <<toRecover, mode, joined>>
        /\ u # t => worker'[u] = worker[u] /\ job'[u] = job[u]
    BY <1>8 DEF TaskStep, Frame, Lease, RunJob, Snapshot, CreateGeneration, MarkBackfilling, Batch, EmbedFails, Unnamed,
       Validate, Activate, Finish, FailGeneration, FailJob, Requeue, Bury, Goto, Fails, Persist, EndTask
  <2>2. CASE u # t  BY <1>0, <2>1, <2>2
  <2>3. CASE u = t
    <3>p. \A p \in TaskSteps : Goto(t, p) =>
              worker'[t].pc = p /\ worker'[t].attempts = worker[t].attempts /\ worker'[t] # Absent
      <4> SUFFICES ASSUME NEW p \in TaskSteps, Goto(t, p)
                   PROVE  worker'[t].pc = p /\ worker'[t].attempts = worker[t].attempts /\ worker'[t] # Absent
        OBVIOUS
      <4>1. worker'[t] = [worker[t] EXCEPT !.pc = p]  BY DEF Goto
      <4>2. [worker[t] EXCEPT !.pc = p] \in Tasks  BY <2>w DEF Tasks
      <4> QED  BY <2>w, <4>1, <4>2 DEF Tasks
    \* Any step that leaves the task at work, and not at the head of its loop.
    <3>g. ASSUME worker'[t] # Absent, worker'[t].pc \notin {"lease", "requeue"}
          PROVE  AttemptsAgree(u)' /\ Remembered(u)'
      BY <2>3, <3>g DEF AttemptsAgree, Remembered, TaskAt
    <3>1. CASE Lease(t)
      <4>1. CASE HasAttempts(t) /\ mode = "up"
        <5>1. worker'[t] = [worker[t] EXCEPT !.pc = "run", !.attempts = @ + 1]  BY <3>1, <4>1 DEF Lease
        <5>2. worker'[t].pc = "run"  BY <2>w, <5>1 DEF Tasks
        <5>3. worker'[t] # Absent
          <6>1. worker[t].attempts + 1 \in 0 .. MaxAttempts  BY <2>w, <4>1 DEF Tasks, HasAttempts
          <6>2. worker'[t] \in Tasks  BY <2>w, <5>1, <6>1 DEF Tasks, TaskSteps
          <6> QED  BY <6>2
        <5> QED  BY <3>g, <5>2, <5>3
      <4>2. CASE ~ (HasAttempts(t) /\ mode = "up")
        <5>1. worker'[t] = Absent /\ job' = job  BY <3>1, <4>2 DEF Lease, EndTask
        <5>2. mode = "up" => job[t].attempts = MaxAttempts \/ t \in joined
          BY <1>j, <2>3, <2>w, <3>1, <4>2 DEF Lease, At, AttemptsAgree, TaskAt
        <5> QED  BY <2>1, <2>3, <5>1, <5>2 DEF AttemptsAgree, Remembered, TaskAt
      <4> QED  BY <4>1, <4>2
    <3>2. CASE RunJob(t) \/ CreateGeneration(t) \/ MarkBackfilling(t) \/ FailGeneration(t)
      BY <3>2, <3>p, <3>g DEF RunJob, CreateGeneration, MarkBackfilling, FailGeneration, TaskSteps
    <3>3. CASE Snapshot(t)
      <4>1. worker'[t].pc \in {"finish", "create", "backfilling"} /\ worker'[t] \in Tasks \cup {Absent}
        BY <2>w, <3>3, <3>p, MigrationTypeStep DEF Snapshot, Tasks, TaskSteps
      <4>2. worker'[t] # Absent
        <5>1. CASE Goto(t, "finish")  BY <3>p, <5>1 DEF TaskSteps
        <5>2. CASE worker' = [worker EXCEPT
                ![t].pc = IF indexes.gens[t] = "none" THEN "create" ELSE "backfilling",
                ![t].snap = RecordsOf(indexes.active),
                ![t].rest = RecordsOf(indexes.active)]
          <6>1. RecordsOf(indexes.active) \in SUBSET Docs  BY DEF RecordsOf
          <6>2. worker'[t] \in Tasks  BY <2>w, <5>2, <6>1 DEF Tasks, TaskSteps
          <6> QED  BY <6>2
        <5> QED  BY <3>3, <5>1, <5>2 DEF Snapshot
      <4> QED  BY <3>g, <4>1, <4>2
    <3>4. CASE Batch(t)
      <4>1. CASE worker[t].rest = {}  BY <3>4, <3>p, <3>g, <4>1 DEF Batch, TaskSteps
      <4>2. CASE worker[t].rest # {}
        <5>1. PICK d : worker' = [worker EXCEPT ![t].rest = @ \ {d}]  BY <3>4, <4>2 DEF Batch
        <5>2. worker'[t] = [worker[t] EXCEPT !.rest = worker[t].rest \ {d}]  BY <5>1
        <5>3. worker'[t].pc = "batch"  BY <2>w, <3>4, <5>2 DEF Batch, At, Tasks
        <5>4. worker'[t] \in Tasks  BY <2>w, <5>2 DEF Tasks
        <5> QED  BY <3>g, <5>3, <5>4
      <4> QED  BY <4>1, <4>2
    <3>f. ASSUME NEW r \in BOOLEAN, Fails(t, r) PROVE AttemptsAgree(u)' /\ Remembered(u)'
      <4>1. worker'[t] = [worker[t] EXCEPT !.pc = "failGeneration", !.retryable = r]  BY <3>f DEF Fails
      <4>2. worker'[t] \in Tasks  BY <2>w, <4>1 DEF Tasks, TaskSteps
      <4>3. worker'[t].pc = "failGeneration"  BY <2>w, <4>1 DEF Tasks
      <4> QED  BY <3>g, <4>2, <4>3
    <3>5. CASE EmbedFails(t) \/ Unnamed(t)  BY <3>5, <3>f DEF EmbedFails, Unnamed
    <3>6. CASE Validate(t)  BY <3>6, <3>f, <3>g, <3>p DEF Validate, TaskSteps
    <3>7. CASE Activate(t)
      <4>1. Goto(t, "finish") \/ Fails(t, FALSE)  BY <3>7 DEF Activate
      <4> QED  BY <3>f, <3>g, <3>p, <4>1 DEF TaskSteps
    <3>8. CASE Finish(t) \/ Bury(t)
      <4>1. worker'[t] = Absent /\ job'[t].state \in {"succeeded", "dead"}
        BY <3>8 DEF Finish, Bury, EndTask, Persist
      <4> QED  BY <2>3, <4>1 DEF AttemptsAgree, Remembered, TaskAt, Unfinished
    <3>9. CASE FailJob(t)
      <4>1. CASE mode = "closing"
        <5>1. worker'[t] = Absent /\ mode' # "up"  BY <2>1, <3>9, <4>1 DEF FailJob, EndTask
        <5> QED  BY <1>d, <2>3, <5>1
      <4>2. CASE mode # "closing" /\ worker[t].retryable /\ HasAttempts(t)
        <5>1. Goto(t, "requeue")  BY <3>9, <4>2 DEF FailJob
        <5>2. worker'[t].pc = "requeue" /\ worker'[t].attempts = worker[t].attempts /\ worker'[t] # Absent
          BY <3>p, <5>1 DEF TaskSteps
        <5> QED  BY <2>3, <4>2, <5>2 DEF AttemptsAgree, Remembered, TaskAt, HasAttempts
      <4>3. CASE mode # "closing" /\ ~ (worker[t].retryable /\ HasAttempts(t))
        <5>1. Goto(t, "bury")  BY <3>9, <4>3 DEF FailJob
        <5> QED  BY <3>g, <3>p, <5>1 DEF TaskSteps
      <4> QED  BY <4>1, <4>2, <4>3
    <3>10. CASE Requeue(t)
      <4>1. HasAttempts(t)  BY <1>j, <2>3, <3>10 DEF Requeue, At, AttemptsAgree, TaskAt
      <4>2. worker'[t].pc = "lease" /\ worker'[t].attempts = worker[t].attempts /\ worker'[t] # Absent
        BY <3>10, <3>p DEF Requeue, TaskSteps
      <4> QED  BY <2>3, <4>1, <4>2 DEF AttemptsAgree, Remembered, TaskAt, HasAttempts
    <3> QED  BY <1>8, <3>1, <3>2, <3>3, <3>4, <3>5, <3>6, <3>7, <3>8, <3>9, <3>10 DEF TaskStep
  <2> QED  BY <2>2, <2>3
<1>9. CASE UNCHANGED migrationVars  BY <1>9, <1>0 DEF migrationVars
<1> QED  BY <1>1, <1>2, <1>3, <1>4, <1>5, <1>6, <1>7, <1>8, <1>9 DEF MigrationNext

LEMMA MigrationInvInit == MigrationInit => MigrationInv
<1> USE MigrationAssumption
<1> SUFFICES ASSUME MigrationInit PROVE MigrationInv
  OBVIOUS
<1>1. MigrationTypeOK
  BY DEF MigrationInit, MigrationTypeOK, Gens, GenStates
<1>2. DownIsIdle /\ FillInv /\ JobInv
  BY DEF MigrationInit, DownIsIdle, Working, FillInv, FillsFromActive, JobInv, AttemptsAgree, Remembered, TaskAt,
     Unfinished
<1>3. Kept
  <2>1. Docs # Absent  OBVIOUS
  <2> QED  BY <2>1 DEF MigrationInit, Kept, GenerationInv, RollbackRestores, Gens
<1> QED  BY <1>1, <1>2, <1>3 DEF MigrationInv

LEMMA MigrationInvStep == MigrationInv /\ [MigrationNext]_migrationVars => MigrationInv'
  BY MigrationTypeStep, IdleStep, GenerationStep, FillStep, JobStep DEF MigrationInv

LEMMA MigrationInvAlways == MigrationSpec => []MigrationInv
  BY MigrationInvInit, MigrationInvStep, PTL DEF MigrationSpec

\* Whatever fails, whoever enqueues and wherever the process dies, the index that is
\* searched is there, the one kept for a rollback is what it was, and no accepted job is
\* forgotten: what migrateKnowledgeEmbedding and its jobs are for.
THEOREM MigrationAlwaysHolds == MigrationSpec => []MigrationHolds
<1>1. MigrationInv => MigrationHolds
  <2> SUFFICES ASSUME MigrationInv PROVE MigrationHolds
    OBVIOUS
  <2>1. ActiveIsThere
    BY DEF MigrationInv, MigrationTypeOK, Kept, GenerationInv, ActiveIsThere
  <2>2. NoForgottenJob  BY DEF MigrationInv, JobInv, Remembered, NoForgottenJob
  <2> QED  BY <2>1, <2>2 DEF MigrationInv, Kept, MigrationHolds
<1> QED  BY <1>1, MigrationInvAlways, PTL

\* A migration activates a generation with exactly the records of the one it replaces, for
\* every number of records, spaces, failures and resumed attempts.
THEOREM SwitchAlwaysExact == MigrationSpec => SwitchIsExact
<1>1. MigrationInv /\ [MigrationNext]_migrationVars =>
          [indexes'.active # indexes.active /\ Working # {} =>
              RecordsOf(indexes'.active) = RecordsOf(indexes.active)]_migrationVars
  <2> SUFFICES ASSUME MigrationInv, MigrationNext, indexes'.active # indexes.active, Working # {}
               PROVE  RecordsOf(indexes'.active) = RecordsOf(indexes.active)
    OBVIOUS
  <2> USE DEF MigrationInv, MigrationTypeOK
  <2>1. PICK t \in Spaces : Activate(t)
    BY DEF MigrationNext, TaskStep, Edit, EnqueueWrite, Collect, CollectCut, Die, Close, Exit, StartUp, EnqueueRead,
       Recover, Rollback, Lease, RunJob, Snapshot, CreateGeneration, MarkBackfilling, Batch, EmbedFails, Unnamed,
       Validate, Finish, FailGeneration, FailJob, Requeue, Bury, SetGeneration, Frame
  <2>2. indexes'.active = t
    <3>1. indexes' = Switched(t)  BY <2>1 DEF Activate
    <3> QED  BY <3>1 DEF Switched
  <2>3. TaskAt(t, {"activate"})  BY <2>1 DEF Activate, At, TaskAt
  <2> QED  BY <2>2, <2>3, ExactWhenComplete DEF FillInv
<1> QED  BY <1>1, MigrationInvAlways, PTL DEF MigrationSpec, SwitchIsExact

-----------------------------------------------------------------------------
(* The task graph. A write is under the revision that was read, so it changes *)
(* what was read; what a call is about to write is known from that.            *)
(*   OpsFit    what a call has read is older than the node or the node itself;  *)
(*   CreateInv a node is created by one call, on nodes that are there;          *)
(*   SureInv   the dependencies make no cycle, but for those being added.       *)

NodeRecords == [state : NodeStates \cup {"none"}, deps : SUBSET Nodes, revision : Nat]
CreateOps == [do : {"create"}, node : Nodes, deps : SUBSET Nodes]
MoveOps == [do : {"move", "write"}, node : Nodes, next : NodeStates, seen : NodeRecords,
            all : SUBSET Nodes, todo : SUBSET Nodes]
AbortOps == [do : {"abort"}, all : SUBSET Nodes, todo : SUBSET Nodes]
AddOps == [do : {"add", "check", "restore"}, node : Nodes, dep : Nodes, seen : NodeRecords]

GraphTypes == /\ graph \in [Nodes -> NodeRecords]
              /\ doing \in [Callers -> {Resting} \cup CreateOps \cup MoveOps \cup AbortOps \cup AddOps]
              /\ dropped \subseteq Nodes

NodesInv == \A n \in Nodes : /\ graph[n].revision = 0 => graph[n] = NoNode
                             /\ Exists(n) => graph[n].revision > 0 /\ graph[n].state \in NodeStates
                             /\ \A m \in graph[n].deps : Exists(m)

\* Nodes of an abortBranch that it is done with.
Aborted(ns) == \A n \in ns : graph[n].state = "aborted"
\* What was read is the node, unless the node was written since.
StillRead(n, read) == /\ Exists(n) /\ 0 < read.revision /\ read.revision =< graph[n].revision
                      /\ graph[n].revision = read.revision => graph[n] = read
OpFits(o) ==
    /\ o.do \in {"move", "write"} =>
          /\ StillRead(o.node, o.seen)
          /\ o.next \in Transitions[o.seen.state]
          /\ o.all # {} => o.next = "aborted" /\ o.node \in o.all /\ o.todo \subseteq o.all
                        /\ Aborted(o.all \ (o.todo \cup {o.node}))
    /\ o.do = "write" => o.next = "running" /\ \A d \in o.seen.deps : graph[d].state = "succeeded"
    /\ o.do = "abort" => o.todo \subseteq o.all /\ Aborted(o.all \ o.todo)
    /\ o.do \in {"move", "write", "abort"} => \A n \in o.todo : Exists(n)
    /\ o.do \in {"add", "check", "restore"} => Exists(o.dep) /\ Exists(o.node)
    /\ o.do = "add" => StillRead(o.node, o.seen)
    /\ o.do \in {"check", "restore"} =>
          /\ 0 < o.seen.revision /\ o.seen.revision + 1 =< graph[o.node].revision
          /\ graph[o.node].revision = o.seen.revision + 1 =>
                /\ graph[o.node].state = o.seen.state
                /\ graph[o.node].deps = o.seen.deps \cup {o.dep}
OpsFit == \A c \in Callers : OpFits(doing[c])

CreateInv ==
    \A c \in Callers : doing[c].do = "create" =>
        /\ ~Exists(doing[c].node) /\ \A m \in doing[c].deps : Exists(m)
        /\ \A d \in Callers \ {c} : doing[d].do = "create" => doing[d].node # doing[c].node

\* The dependencies of n that a call has added and not yet found to make no cycle.
Unsure(n) == {d \in Nodes : \E c \in Callers : /\ doing[c].do \in {"check", "restore"}
                                             /\ doing[c].node = n /\ doing[c].dep = d
                                             /\ d \notin doing[c].seen.deps}
Sure == [n \in Nodes |-> graph[n].deps \ Unsure(n)]
SureInv == overrun = {} => AcyclicIn(Sure)

DroppedInv == Aborted(dropped)

GraphIInv == GraphTypes /\ NodesInv /\ OpsFit /\ CreateInv /\ SureInv /\ DroppedInv

-----------------------------------------------------------------------------
\* The table of transitions.
LEMMA Table ==
    /\ NodeStates = {"pending", "running", "succeeded", "aborted", "failed", "blocked"}
    /\ \A s \in NodeStates : Transitions[s] \subseteq NodeStates
    /\ Transitions["succeeded"] = {} /\ Transitions["aborted"] = {}
    /\ "none" \notin NodeStates
  BY DEF NodeStates, Transitions

\* What a call that does something holds.
LEMMA OpTypes ==
    ASSUME GraphTypes, NEW c \in Callers
    PROVE  /\ doing[c].do \in {"rest", "create", "move", "write", "abort", "add", "check", "restore"}
           /\ doing[c].do = "rest" => doing[c] = Resting
           /\ doing[c].do = "create" => doing[c] \in CreateOps
           /\ doing[c].do \in {"move", "write"} => doing[c] \in MoveOps
           /\ doing[c].do = "abort" => doing[c] \in AbortOps
           /\ doing[c].do \in {"add", "check", "restore"} => doing[c] \in AddOps
  BY DEF GraphTypes, Resting, CreateOps, MoveOps, AbortOps, AddOps

\* Fewer dependencies reach less.
LEMMA FewerDeps ==
    ASSUME NEW a, NEW b, \A n \in Nodes : a[n] \subseteq b[n], AcyclicIn(b)
    PROVE  AcyclicIn(a)
<1> SUFFICES ASSUME NEW n \in Nodes, n \in ReachIn(a, n) PROVE FALSE  BY DEF AcyclicIn
<1>1. PICK S \in SUBSET Nodes : b[n] \subseteq S /\ Closed(S, b) /\ n \notin S
  BY DEF AcyclicIn, ReachIn
<1>2. a[n] \subseteq S /\ Closed(S, a)  BY <1>1 DEF Closed
<1> QED  BY <1>1, <1>2 DEF ReachIn

\* Nothing leads back to a node on which nothing depends.
LEMMA OneMoreNode ==
    ASSUME NEW a, NEW b, NEW n \in Nodes, AcyclicIn(a),
           \A m \in Nodes : n \notin b[m] /\ b[m] \subseteq Nodes,
           \A m \in Nodes \ {n} : b[m] = a[m]
    PROVE  AcyclicIn(b)
<1> SUFFICES ASSUME NEW m \in Nodes, m \in ReachIn(b, m) PROVE FALSE  BY DEF AcyclicIn
<1>1. CASE m = n
  <2>1. b[n] \subseteq Nodes \ {n} /\ Closed(Nodes \ {n}, b)  BY DEF Closed
  <2> QED  BY <1>1, <2>1 DEF ReachIn
<1>2. CASE m # n
  <2>1. PICK S \in SUBSET Nodes : a[m] \subseteq S /\ Closed(S, a) /\ m \notin S
    BY DEF AcyclicIn, ReachIn
  <2>2. b[m] \subseteq S \ {n} /\ Closed(S \ {n}, b)  BY <1>2, <2>1 DEF Closed
  <2> QED  BY <2>1, <2>2 DEF ReachIn
<1> QED  BY <1>1, <1>2

\* What a step may do to a node.
NodeStep(n) ==
    \/ graph'[n] = graph[n]
    \/ /\ graph'[n].revision = graph[n].revision + 1
       /\ graph'[n].state \in NodeStates /\ graph'[n] # NoNode
       /\ graph'[n].deps \subseteq Nodes /\ \A m \in graph'[n].deps : Exists(m) \/ m = n
       /\ Exists(n) => \/ graph'[n].state = graph[n].state
                       \/ graph'[n].state \in Transitions[graph[n].state]

\* A put of a node.
LEMMA Puts ==
    ASSUME GraphTypes, NEW n \in Nodes, NEW new \in NodeRecords, PutNode(n, new)
    PROVE  /\ graph' \in [Nodes -> NodeRecords]
           /\ graph'[n].revision = graph[n].revision + 1
           /\ graph'[n].state = new.state /\ graph'[n].deps = new.deps
           /\ \A m \in Nodes \ {n} : graph'[m] = graph[m]
<1>1. graph \in [Nodes -> NodeRecords] /\ graph[n].revision \in Nat  BY DEF GraphTypes, NodeRecords
<1>2. graph' = [graph EXCEPT ![n] = [new EXCEPT !.revision = graph[n].revision + 1]]  BY DEF PutNode
<1>3. /\ [new EXCEPT !.revision = graph[n].revision + 1] \in NodeRecords
      /\ [new EXCEPT !.revision = graph[n].revision + 1].revision = graph[n].revision + 1
      /\ [new EXCEPT !.revision = graph[n].revision + 1].state = new.state
      /\ [new EXCEPT !.revision = graph[n].revision + 1].deps = new.deps
  BY <1>1 DEF NodeRecords
<1> QED  BY <1>1, <1>2, <1>3

\* The four writes, and what each of them is of.
Created(c) == /\ doing[c].do = "create" /\ doing' = [doing EXCEPT ![c] = Resting]
              /\ doing[c] \in CreateOps
              /\ graph' \in [Nodes -> NodeRecords]
              /\ LET n == doing[c].node IN
                 /\ graph'[n].revision = graph[n].revision + 1 /\ graph'[n].state = "pending"
                 /\ graph'[n].deps = doing[c].deps
                 /\ \A m \in Nodes \ {n} : graph'[m] = graph[m]
              /\ UNCHANGED <<overrun, dropped>>
Moved(c) == /\ doing[c].do \in {"move", "write"} /\ doing[c] \in MoveOps
            /\ graph' \in [Nodes -> NodeRecords]
            /\ doing' = [doing EXCEPT ![c] = IF doing[c].all = {} THEN Resting
                                             ELSE Abort(doing[c].all, doing[c].todo)]
            /\ LET n == doing[c].node IN
               /\ doing[c].seen = graph[n] /\ doing[c].next \in Transitions[graph[n].state]
               /\ doing[c].next = "running" => doing[c].do = "write"
               /\ graph'[n].revision = graph[n].revision + 1 /\ graph'[n].state = doing[c].next
               /\ graph'[n].deps = graph[n].deps
               /\ \A m \in Nodes \ {n} : graph'[m] = graph[m]
            /\ UNCHANGED <<overrun, dropped>>
Added(c) == /\ doing[c].do = "add" /\ doing[c] \in AddOps
            /\ graph' \in [Nodes -> NodeRecords]
            /\ doing' = [doing EXCEPT ![c] = [doing[c] EXCEPT !.do = "check"]]
            /\ LET n == doing[c].node IN
               /\ doing[c].seen = graph[n]
               /\ graph'[n].revision = graph[n].revision + 1 /\ graph'[n].state = graph[n].state
               /\ graph'[n].deps = graph[n].deps \cup {doing[c].dep}
               /\ \A m \in Nodes \ {n} : graph'[m] = graph[m]
            /\ UNCHANGED <<overrun, dropped>>
Restored(c) == /\ doing[c].do = "restore" /\ doing[c] \in AddOps
               /\ graph' \in [Nodes -> NodeRecords]
               /\ doing' = [doing EXCEPT ![c] = Resting]
               /\ LET n == doing[c].node IN
                  /\ graph[n].deps = doing[c].seen.deps \cup {doing[c].dep}
                  /\ graph'[n].revision = graph[n].revision + 1 /\ graph'[n].state = graph[n].state
                  /\ graph'[n].deps = doing[c].seen.deps
                  /\ \A m \in Nodes \ {n} : graph'[m] = graph[m]
               /\ UNCHANGED <<overrun, dropped>>

\* A step writes a node, or leaves the graph alone.
LEMMA GraphWrites ==
    ASSUME GraphIInv, NEW c \in Callers
    PROVE  /\ PutNew(c) => Created(c)
           /\ WriteMove(c) /\ ~Outdated(doing[c].node, doing[c].seen) => Moved(c)
           /\ WriteDependency(c) /\ ~Outdated(doing[c].node, doing[c].seen) => Added(c)
           /\ Restore(c) /\ graph[doing[c].node].revision = doing[c].seen.revision + 1 => Restored(c)
<1> USE DEF GraphIInv
<1>1. ASSUME PutNew(c) PROVE Created(c)
  <2>1. doing[c] \in CreateOps  BY <1>1, OpTypes DEF PutNew
  <2>2. doing[c].node \in Nodes /\ NewNode(doing[c].deps) \in NodeRecords
        /\ NewNode(doing[c].deps).state = "pending" /\ NewNode(doing[c].deps).deps = doing[c].deps
    BY <2>1, Table DEF CreateOps, NewNode, NodeRecords
  <2> QED  BY <1>1, <2>1, <2>2, Puts DEF PutNew, Does, Created
<1>2. ASSUME WriteMove(c), ~Outdated(doing[c].node, doing[c].seen) PROVE Moved(c)
  <2>1. doing[c] \in MoveOps  BY <1>2, OpTypes DEF WriteMove
  <2>2. /\ doing[c].node \in Nodes /\ doing[c].next \in NodeStates /\ doing[c].seen \in NodeRecords
        /\ doing[c].seen = graph[doing[c].node]
        /\ doing[c].next \in Transitions[graph[doing[c].node].state]
    BY <1>2, <2>1 DEF WriteMove, MoveOps, Outdated, OpsFit, OpFits, StillRead
  <2>3. /\ [doing[c].seen EXCEPT !.state = doing[c].next] \in NodeRecords
        /\ [doing[c].seen EXCEPT !.state = doing[c].next].state = doing[c].next
        /\ [doing[c].seen EXCEPT !.state = doing[c].next].deps = doing[c].seen.deps
    BY <2>2 DEF NodeRecords
  <2>4. /\ PutNode(doing[c].node, [doing[c].seen EXCEPT !.state = doing[c].next])
        /\ Does(c, IF doing[c].all = {} THEN Resting ELSE Abort(doing[c].all, doing[c].todo))
        /\ doing[c].do \in {"move", "write"}
        /\ doing[c].next = "running" => doing[c].do = "write"
        /\ UNCHANGED <<overrun, dropped>>
    BY <1>2 DEF WriteMove
  <2>5. /\ graph' \in [Nodes -> NodeRecords]
        /\ graph'[doing[c].node].revision = graph[doing[c].node].revision + 1
        /\ graph'[doing[c].node].state = doing[c].next
        /\ graph'[doing[c].node].deps = doing[c].seen.deps
        /\ \A m \in Nodes \ {doing[c].node} : graph'[m] = graph[m]
    BY <2>2, <2>3, <2>4, Puts
  <2> QED  BY <2>1, <2>2, <2>4, <2>5 DEF Does, Moved
<1>3. ASSUME WriteDependency(c), ~Outdated(doing[c].node, doing[c].seen) PROVE Added(c)
  <2>1. doing[c] \in AddOps  BY <1>3, OpTypes DEF WriteDependency
  <2>2. /\ doing[c].node \in Nodes /\ doing[c].dep \in Nodes /\ doing[c].seen \in NodeRecords
        /\ doing[c].seen = graph[doing[c].node]
    BY <1>3, <2>1 DEF WriteDependency, AddOps, Outdated, OpsFit, OpFits, StillRead
  <2>3. /\ [doing[c].seen EXCEPT !.deps = @ \cup {doing[c].dep}] \in NodeRecords
        /\ [doing[c].seen EXCEPT !.deps = @ \cup {doing[c].dep}].state = doing[c].seen.state
        /\ [doing[c].seen EXCEPT !.deps = @ \cup {doing[c].dep}].deps
             = doing[c].seen.deps \cup {doing[c].dep}
    BY <2>2 DEF NodeRecords
  <2>4. /\ PutNode(doing[c].node, [doing[c].seen EXCEPT !.deps = @ \cup {doing[c].dep}])
        /\ Does(c, [doing[c] EXCEPT !.do = "check"])
        /\ doing[c].do = "add"
        /\ UNCHANGED <<overrun, dropped>>
    BY <1>3 DEF WriteDependency
  <2>5. /\ graph' \in [Nodes -> NodeRecords]
        /\ graph'[doing[c].node].revision = graph[doing[c].node].revision + 1
        /\ graph'[doing[c].node].state = doing[c].seen.state
        /\ graph'[doing[c].node].deps = doing[c].seen.deps \cup {doing[c].dep}
        /\ \A m \in Nodes \ {doing[c].node} : graph'[m] = graph[m]
    BY <2>2, <2>3, <2>4, Puts
  <2> QED  BY <2>1, <2>2, <2>4, <2>5 DEF Does, Added
<1>4. ASSUME Restore(c), graph[doing[c].node].revision = doing[c].seen.revision + 1
      PROVE  Restored(c)
  <2>1. doing[c] \in AddOps  BY <1>4, OpTypes DEF Restore
  <2>2. /\ doing[c].node \in Nodes /\ doing[c].dep \in Nodes /\ doing[c].seen \in NodeRecords
        /\ graph[doing[c].node].state = doing[c].seen.state
        /\ graph[doing[c].node].deps = doing[c].seen.deps \cup {doing[c].dep}
    BY <1>4, <2>1 DEF Restore, AddOps, OpsFit, OpFits
  <2>3. /\ PutNode(doing[c].node, doing[c].seen) /\ Does(c, Resting)
        /\ doing[c].do = "restore" /\ UNCHANGED <<overrun, dropped>>
    BY <1>4 DEF Restore
  <2> QED  BY <2>1, <2>2, <2>3, Puts DEF Does, Restored
<1> QED  BY <1>1, <1>2, <1>3, <1>4

GraphCall(c) == Create(c) \/ Transition(c) \/ AbortBranch(c) \/ AddDependency(c) \/ CallStep(c)

\* The steps that leave the graph alone.
QuietStep(c) ==
    /\ UNCHANGED graph
    /\ \/ Create(c) \/ Transition(c) \/ AbortBranch(c) \/ AddDependency(c)
       \/ Ready(c) \/ AbortNext(c) \/ AbortReturns(c) \/ CheckDependency(c)
       \/ (WriteMove(c) \/ WriteDependency(c)) /\ Outdated(doing[c].node, doing[c].seen)
       \/ Restore(c) /\ graph[doing[c].node].revision # doing[c].seen.revision + 1

\* There are no other steps.
LEMMA GraphSteps ==
    ASSUME GraphIInv, NEW c \in Callers, GraphCall(c)
    PROVE  QuietStep(c) \/ Created(c) \/ Moved(c) \/ Added(c) \/ Restored(c)
<1>1. CASE Create(c) \/ Transition(c) \/ AbortBranch(c) \/ AddDependency(c) \/ Ready(c)
             \/ AbortNext(c) \/ AbortReturns(c) \/ CheckDependency(c)
  BY <1>1 DEF QuietStep, Create, Transition, AbortBranch, AddDependency, Ready, AbortNext,
              AbortReturns, CheckDependency, GraphKept
<1>2. CASE PutNew(c)  BY <1>2, GraphWrites
<1>3. CASE WriteMove(c)  BY <1>3, GraphWrites DEF QuietStep, WriteMove
<1>4. CASE WriteDependency(c)  BY <1>4, GraphWrites DEF QuietStep, WriteDependency
<1>5. CASE Restore(c)  BY <1>5, GraphWrites DEF QuietStep, Restore
<1> QED  BY <1>1, <1>2, <1>3, <1>4, <1>5 DEF GraphCall, CallStep

\* Every node makes a step of the table, or keeps its state, or is created.
LEMMA EveryNodeSteps ==
    ASSUME GraphIInv, NEW c \in Callers, GraphCall(c), NEW n \in Nodes
    PROVE  NodeStep(n)
<1> USE DEF GraphIInv
<1>0. graph[n] \in NodeRecords /\ graph[n].revision \in Nat  BY DEF GraphTypes, NodeRecords
<1>1. CASE QuietStep(c)  BY <1>1 DEF QuietStep, NodeStep
<1>2. CASE Created(c)
  <2>1. doing[c].node \in Nodes /\ ~Exists(doing[c].node) /\ doing[c].deps \subseteq Nodes
        /\ \A m \in doing[c].deps : Exists(m)
    BY <1>2 DEF Created, CreateOps, CreateInv
  <2>2. CASE n = doing[c].node
    <3>1. graph'[n].state = "pending" /\ graph'[n].deps = doing[c].deps
          /\ graph'[n].revision = graph[n].revision + 1
      BY <1>2, <2>2 DEF Created
    <3>2. graph'[n] # NoNode  BY <3>1 DEF NoNode
    <3> QED  BY <2>1, <2>2, <3>1, <3>2, Table DEF NodeStep
  <2> QED  BY <1>2, <2>2 DEF Created, NodeStep
<1>3. CASE Moved(c)
  <2>1. doing[c].node \in Nodes /\ doing[c].next \in NodeStates  BY <1>3 DEF Moved, MoveOps
  <2>2. CASE n = doing[c].node
    <3>1. /\ graph'[n].state = doing[c].next /\ graph'[n].deps = graph[n].deps
          /\ graph'[n].revision = graph[n].revision + 1
          /\ doing[c].next \in Transitions[graph[n].state]
      BY <1>3, <2>2 DEF Moved
    <3>2. graph'[n] # NoNode  BY <2>1, <3>1, Table DEF NoNode
    <3> QED  BY <1>0, <2>1, <3>1, <3>2 DEF NodeStep, NodesInv, NodeRecords
  <2> QED  BY <1>3, <2>2 DEF Moved, NodeStep
<1>4. CASE Added(c) \/ Restored(c)
  <2>1. doing[c] \in AddOps /\ doing[c].node \in Nodes /\ Exists(doing[c].dep) /\ Exists(doing[c].node)
    BY <1>4 DEF Added, Restored, AddOps, OpsFit, OpFits
  <2>2. CASE n = doing[c].node
    <3>1. /\ graph'[n].state = graph[n].state /\ graph'[n].deps \subseteq graph[n].deps \cup {doing[c].dep}
          /\ graph'[n].revision = graph[n].revision + 1
      BY <1>4, <2>2 DEF Added, Restored
    <3>2. graph[n].state \in NodeStates /\ doing[c].dep \in Nodes
      BY <2>1, <2>2 DEF NodesInv, AddOps
    <3>3. graph'[n] # NoNode  BY <3>1, <3>2, Table DEF NoNode
    <3> QED  BY <1>0, <2>1, <3>1, <3>2, <3>3 DEF NodeStep, NodesInv, NodeRecords
  <2> QED  BY <1>4, <2>2 DEF Added, Restored, NodeStep
<1> QED  BY <1>1, <1>2, <1>3, <1>4, GraphSteps

\* Nodes stay, and what has succeeded or was aborted stays so.
LEMMA NodesStay ==
    ASSUME GraphIInv, NEW c \in Callers, GraphCall(c)
    PROVE  \A n \in Nodes : /\ Exists(n) => Exists(n)'
                            /\ graph[n].state \in {"succeeded", "aborted"} => graph'[n].state = graph[n].state
                            /\ graph[n].revision =< graph'[n].revision
                            /\ graph[n].revision = graph'[n].revision => graph'[n] = graph[n]
<1> SUFFICES ASSUME NEW n \in Nodes
             PROVE  /\ Exists(n) => Exists(n)'
                    /\ graph[n].state \in {"succeeded", "aborted"} => graph'[n].state = graph[n].state
                    /\ graph[n].revision =< graph'[n].revision
                    /\ graph[n].revision = graph'[n].revision => graph'[n] = graph[n]
  OBVIOUS
<1>1. NodeStep(n)  BY EveryNodeSteps
<1>2. graph[n].revision \in Nat  BY DEF GraphIInv, GraphTypes, NodeRecords
<1>3. graph[n].state \in {"succeeded", "aborted"} => Exists(n)  BY DEF Exists, NoNode
<1> QED  BY <1>1, <1>2, <1>3, Table DEF NodeStep, Exists

\* What a node says of itself and of the nodes it depends on stays true.
LEMMA NodesKept ==
    ASSUME GraphIInv, NEW c \in Callers, GraphCall(c)
    PROVE  NodesInv'
<1> SUFFICES ASSUME NEW n \in Nodes
             PROVE  /\ graph'[n].revision = 0 => graph'[n] = NoNode
                    /\ Exists(n)' => graph'[n].revision > 0 /\ graph'[n].state \in NodeStates
                    /\ \A m \in graph'[n].deps : Exists(m)'
  BY DEF NodesInv
<1>1. NodeStep(n)  BY EveryNodeSteps
<1>2. graph[n].revision \in Nat /\ graph[n].deps \subseteq Nodes  BY DEF GraphIInv, GraphTypes, NodeRecords
<1>3. \A m \in Nodes : Exists(m) => Exists(m)'  BY NodesStay
<1>4. CASE graph'[n] = graph[n]
  BY <1>2, <1>3, <1>4 DEF GraphIInv, NodesInv, Exists
<1>5. CASE graph'[n] # graph[n]
  <2>1. /\ graph'[n].revision > 0 /\ graph'[n] # NoNode /\ graph'[n].state \in NodeStates
        /\ graph'[n].deps \subseteq Nodes /\ \A m \in graph'[n].deps : Exists(m) \/ m = n
    BY <1>1, <1>2, <1>5 DEF NodeStep
  <2> QED  BY <1>3, <2>1 DEF Exists
<1> QED  BY <1>4, <1>5

\* The types of what a call does next.
LEMMA GraphTypesKept ==
    ASSUME GraphIInv, NEW c \in Callers, GraphCall(c)
    PROVE  GraphTypes'
<1> USE DEF GraphIInv
<1> DEFINE Doings == {Resting} \cup CreateOps \cup MoveOps \cup AbortOps \cup AddOps
<1>1. /\ graph \in [Nodes -> NodeRecords] /\ doing \in [Callers -> Doings] /\ dropped \subseteq Nodes
      /\ \A n \in Nodes : graph[n] \in NodeRecords
  BY DEF GraphTypes
<1>2. graph' \in [Nodes -> NodeRecords]
  BY <1>1, GraphSteps DEF QuietStep, Created, Moved, Added, Restored
<1>3. \A n \in Nodes, next \in NodeStates, all, todo \in SUBSET Nodes :
         Move(n, next, all, todo) \in MoveOps
  BY <1>1 DEF Move, MoveOps
<1>4. \A all, todo \in SUBSET Nodes : Abort(all, todo) \in AbortOps  BY DEF Abort, AbortOps
<1>5. \E o \in Doings : doing' = [doing EXCEPT ![c] = o]
  <2>1. CASE Create(c)
    <3>1. PICK n \in Nodes, deps \in SUBSET Nodes :
             doing' = [doing EXCEPT ![c] = [do |-> "create", node |-> n, deps |-> deps]]
      BY <2>1 DEF Create, Does
    <3>2. [do |-> "create", node |-> n, deps |-> deps] \in CreateOps  BY DEF CreateOps
    <3> QED  BY <3>1, <3>2
  <2>2. CASE Transition(c)  BY <2>2, <1>3 DEF Transition, Does
  <2>3. CASE AbortBranch(c)
    <3>1. {n \in Branch : graph[n].state \in Live} \in SUBSET Nodes  BY GraphAssumption DEF GraphAssumption
    <3> QED  BY <2>3, <1>4, <3>1 DEF AbortBranch, Does
  <2>4. CASE AddDependency(c)
    <3>1. PICK n, d \in Nodes :
             doing' = [doing EXCEPT ![c] = [do |-> "add", node |-> n, dep |-> d, seen |-> graph[n]]]
      BY <2>4 DEF AddDependency, Does
    <3>2. [do |-> "add", node |-> n, dep |-> d, seen |-> graph[n]] \in AddOps  BY <1>1 DEF AddOps
    <3> QED  BY <3>1, <3>2
  <2>5. CASE Ready(c)
    <3>1. doing[c] \in MoveOps  BY <2>5, OpTypes DEF Ready
    <3>2. [doing[c] EXCEPT !.do = "write"] \in MoveOps  BY <3>1 DEF MoveOps
    <3> QED  BY <2>5, <3>2 DEF Ready, Does
  <2>6. CASE AbortNext(c)
    <3>1. doing[c] \in AbortOps  BY <2>6, OpTypes DEF AbortNext
    <3>2. \A n \in doing[c].todo : Move(n, "aborted", doing[c].all, doing[c].todo \ {n}) \in MoveOps
      BY <3>1, <1>3, Table DEF AbortOps
    <3> QED  BY <2>6, <3>2 DEF AbortNext, Does
  <2>7. CASE CheckDependency(c)
    <3>1. doing[c] \in AddOps  BY <2>7, OpTypes DEF CheckDependency
    <3>2. [doing[c] EXCEPT !.do = "restore"] \in AddOps  BY <3>1 DEF AddOps
    <3> QED  BY <2>7, <3>2 DEF CheckDependency, Does
  <2>8. CASE \/ AbortReturns(c) \/ Created(c) \/ Restored(c)
             \/ (WriteMove(c) \/ WriteDependency(c)) /\ Outdated(doing[c].node, doing[c].seen)
             \/ Restore(c)
    BY <2>8 DEF AbortReturns, Created, Restored, WriteMove, WriteDependency, Restore, Does
  <2>9. CASE Moved(c)
    <3>1. Abort(doing[c].all, doing[c].todo) \in AbortOps  BY <2>9, <1>4 DEF Moved, MoveOps
    <3> QED  BY <2>9, <3>1 DEF Moved
  <2>10. CASE Added(c)
    <3>1. [doing[c] EXCEPT !.do = "check"] \in AddOps  BY <2>10 DEF Added, AddOps
    <3> QED  BY <2>10, <3>1 DEF Added
  <2> QED  BY <2>1, <2>2, <2>3, <2>4, <2>5, <2>6, <2>7, <2>8, <2>9, <2>10, GraphSteps DEF QuietStep
<1>6. dropped' \subseteq Nodes
  <2>1. CASE AbortReturns(c)
    <3>1. doing[c].all \subseteq Nodes  BY <2>1, OpTypes DEF AbortReturns, AbortOps
    <3> QED  BY <2>1, <3>1, <1>1 DEF AbortReturns
  <2>2. CASE ~AbortReturns(c)
    <3>1. dropped' = dropped
      BY <2>2, GraphSteps DEF QuietStep, Created, Moved, Added, Restored, Create, Transition, AbortBranch,
           AddDependency, Ready, AbortNext, CheckDependency, WriteMove, WriteDependency, Restore, GraphKept
    <3> QED  BY <3>1, <1>1
  <2> QED  BY <2>1, <2>2
<1> QED  BY <1>1, <1>2, <1>5, <1>6 DEF GraphTypes

\* What a call has read still fits when another one has written.
LEMMA OthersFit ==
    ASSUME GraphIInv, NEW c \in Callers, GraphCall(c), NEW d \in Callers, doing'[d] = doing[d]
    PROVE  OpFits(doing[d])'
<1> USE DEF GraphIInv
<1>1. OpFits(doing[d])  BY DEF OpsFit
<1>2. \A n \in Nodes : /\ Exists(n) => Exists(n)'
                       /\ graph[n].state \in {"succeeded", "aborted"} => graph'[n].state = graph[n].state
                       /\ graph[n].revision =< graph'[n].revision
                       /\ graph[n].revision = graph'[n].revision => graph'[n] = graph[n]
                       /\ graph[n].revision \in Nat /\ graph'[n].revision \in Nat
                       /\ graph[n].deps \subseteq Nodes
  BY NodesStay, GraphTypesKept DEF GraphTypes, NodeRecords
<1>3. ASSUME doing[d].do \in {"move", "write"} PROVE OpFits(doing[d])'
  <2>1. doing[d] \in MoveOps  BY <1>3, OpTypes
  <2>2. /\ doing[d].node \in Nodes /\ doing[d].all \subseteq Nodes
        /\ doing[d].seen.revision \in Nat /\ doing[d].seen.deps \subseteq Nodes
    BY <2>1 DEF MoveOps, NodeRecords
  <2>3. StillRead(doing[d].node, doing[d].seen)'
    BY <1>1, <1>2, <1>3, <2>2 DEF OpFits, StillRead
  <2>4. doing[d].all # {} => Aborted(doing[d].all \ (doing[d].todo \cup {doing[d].node}))'
    BY <1>1, <1>2, <1>3, <2>2 DEF OpFits, Aborted
  <2>6. \A n \in doing[d].todo : Exists(n)'
    BY <1>1, <1>2, <1>3, <2>1 DEF OpFits, MoveOps
  <2>5. doing[d].do = "write" => \A e \in doing[d].seen.deps : graph'[e].state = "succeeded"
    BY <1>1, <1>2, <2>2 DEF OpFits
  <2> QED  BY <1>1, <1>3, <2>3, <2>4, <2>5, <2>6 DEF OpFits
<1>4. ASSUME doing[d].do = "abort" PROVE OpFits(doing[d])'
  <2>1. doing[d].all \subseteq Nodes /\ doing[d].todo \subseteq Nodes  BY <1>4, OpTypes DEF AbortOps
  <2> QED  BY <1>1, <1>2, <1>4, <2>1 DEF OpFits, Aborted
<1>5. ASSUME doing[d].do \in {"add", "check", "restore"} PROVE OpFits(doing[d])'
  <2>1. doing[d] \in AddOps  BY <1>5, OpTypes
  <2>2. doing[d].node \in Nodes /\ doing[d].dep \in Nodes /\ doing[d].seen.revision \in Nat
    BY <2>1 DEF AddOps, NodeRecords
  <2>3. doing[d].do = "add" => StillRead(doing[d].node, doing[d].seen)'
    BY <1>1, <1>2, <2>2 DEF OpFits, StillRead
  <2>4. doing[d].do \in {"check", "restore"} =>
          /\ 0 < doing[d].seen.revision /\ doing[d].seen.revision + 1 =< graph'[doing[d].node].revision
          /\ graph'[doing[d].node].revision = doing[d].seen.revision + 1 =>
                /\ graph'[doing[d].node].state = doing[d].seen.state
                /\ graph'[doing[d].node].deps = doing[d].seen.deps \cup {doing[d].dep}
    BY <1>1, <1>2, <2>2 DEF OpFits
  <2> QED  BY <1>1, <1>2, <1>5, <2>2, <2>3, <2>4 DEF OpFits
<1>6. CASE doing[d].do \in {"rest", "create"}  BY <1>6 DEF OpFits
<1> QED  BY <1>3, <1>4, <1>5, <1>6, OpTypes

\* What a call does next fits what it has read.
LEMMA OwnFits ==
    ASSUME GraphIInv, NEW c \in Callers, GraphCall(c)
    PROVE  OpFits(doing[c])'
<1> USE DEF GraphIInv
<1>0. /\ OpFits(doing[c])
      /\ \A n \in Nodes : graph[n] \in NodeRecords /\ graph[n].revision \in Nat
      /\ c \in DOMAIN doing
  BY DEF OpsFit, GraphTypes, NodeRecords
<1>1. \A o : doing' = [doing EXCEPT ![c] = o] => doing'[c] = o  BY <1>0
<1>2. CASE doing'[c].do \in {"rest", "create"}  BY <1>2 DEF OpFits
<1>3. CASE Create(c)
  <2>1. PICK n, deps : doing'[c] = [do |-> "create", node |-> n, deps |-> deps]
    BY <1>1, <1>3 DEF Create, Does
  <2> QED  BY <1>2, <2>1
<1>4. CASE Transition(c)
  <2>1. PICK n \in Nodes, next \in NodeStates :
           Exists(n) /\ next \in Transitions[graph[n].state] /\ doing'[c] = Move(n, next, {}, {})
    BY <1>1, <1>4 DEF Transition, Does
  <2>2. graph' = graph  BY <1>4 DEF Transition, GraphKept
  <2> QED  BY <1>0, <2>1, <2>2 DEF Move, OpFits, StillRead, NodesInv, Exists
<1>5. CASE AbortBranch(c)
  <2>1. doing'[c] = Abort({n \in Branch : graph[n].state \in Live}, {n \in Branch : graph[n].state \in Live})
        /\ graph' = graph
    BY <1>1, <1>5 DEF AbortBranch, Does, GraphKept
  <2>2. \A n \in Branch : graph[n].state \in Live => Exists(n)  BY DEF Live, Exists, NoNode
  <2> QED  BY <2>1, <2>2 DEF Abort, OpFits, Aborted, Exists
<1>6. CASE AddDependency(c)
  <2>1. PICK n, d \in Nodes : /\ Exists(n) /\ Exists(d)
                              /\ doing'[c] = [do |-> "add", node |-> n, dep |-> d, seen |-> graph[n]]
    BY <1>1, <1>6 DEF AddDependency, Does
  <2>2. graph' = graph  BY <1>6 DEF AddDependency, GraphKept
  <2> QED  BY <1>0, <2>1, <2>2 DEF OpFits, StillRead, NodesInv, Exists
<1>7. CASE Ready(c)
  <2>1. CASE AllDone(doing[c].seen)
    <3>1. doing[c] \in MoveOps  BY <1>7, OpTypes DEF Ready
    <3>2. doing'[c] = [doing[c] EXCEPT !.do = "write"]  BY <1>1, <1>7, <2>1 DEF Ready, Does
    <3>3. /\ doing'[c].do = "write" /\ doing'[c].node = doing[c].node /\ doing'[c].next = doing[c].next
          /\ doing'[c].seen = doing[c].seen /\ doing'[c].all = doing[c].all
          /\ doing'[c].todo = doing[c].todo
      BY <3>1, <3>2 DEF MoveOps
    <3>4. graph' = graph /\ doing[c].next = "running" /\ doing[c].do = "move"
      BY <1>7 DEF Ready, GraphKept
    <3> QED  BY <1>0, <2>1, <3>3, <3>4 DEF OpFits, AllDone, StillRead, Aborted, Exists
  <2>2. CASE ~AllDone(doing[c].seen)
    <3>1. doing'[c] = Resting  BY <1>1, <1>7, <2>2 DEF Ready, Does
    <3> QED  BY <1>2, <3>1 DEF Resting
  <2> QED  BY <2>1, <2>2
<1>8. CASE AbortNext(c)
  <2>1. doing[c] \in AbortOps  BY <1>8, OpTypes DEF AbortNext
  <2>2. PICK n \in doing[c].todo :
           doing'[c] = IF "aborted" \in Transitions[graph[n].state]
                       THEN Move(n, "aborted", doing[c].all, doing[c].todo \ {n}) ELSE Resting
    BY <1>1, <1>8 DEF AbortNext, Does
  <2>3. graph' = graph /\ doing[c].do = "abort"  BY <1>8 DEF AbortNext, GraphKept
  <2>4. CASE "aborted" \in Transitions[graph[n].state]
    <3>1. n \in Nodes /\ n \in doing[c].all /\ doing[c].todo \subseteq doing[c].all
          /\ Aborted(doing[c].all \ doing[c].todo)
      BY <1>0, <2>1, <2>3 DEF AbortOps, OpFits
    <3>2. Exists(n) /\ graph[n].revision > 0 /\ \A m \in doing[c].todo : Exists(m)
      BY <1>0, <2>3, <3>1 DEF OpFits, NodesInv
    <3> QED  BY <1>0, <2>2, <2>3, <2>4, <3>1, <3>2
             DEF Move, OpFits, StillRead, NodesInv, Exists, NoNode, Aborted
  <2>5. CASE "aborted" \notin Transitions[graph[n].state]  BY <1>2, <2>2, <2>5 DEF Resting
  <2> QED  BY <2>4, <2>5
<1>9. CASE AbortReturns(c) \/ Created(c) \/ Restored(c)
  <2>1. doing'[c] = Resting  BY <1>1, <1>9 DEF AbortReturns, Created, Restored, Does
  <2> QED  BY <1>2, <2>1 DEF Resting
<1>10. CASE CheckDependency(c)
  <2>1. CASE Acyclic
    <3>1. doing'[c] = Resting  BY <1>1, <1>10, <2>1 DEF CheckDependency, Does
    <3> QED  BY <1>2, <3>1 DEF Resting
  <2>2. CASE ~Acyclic
    <3>1. doing[c] \in AddOps  BY <1>10, OpTypes DEF CheckDependency
    <3>2. doing'[c] = [doing[c] EXCEPT !.do = "restore"]  BY <1>1, <1>10, <2>2 DEF CheckDependency, Does
    <3>3. /\ doing'[c].do = "restore" /\ doing'[c].node = doing[c].node /\ doing'[c].dep = doing[c].dep
          /\ doing'[c].seen = doing[c].seen
      BY <3>1, <3>2 DEF AddOps
    <3>4. graph' = graph /\ doing[c].do = "check"  BY <1>10 DEF CheckDependency, GraphKept
    <3> QED  BY <1>0, <3>3, <3>4 DEF OpFits, Exists
  <2> QED  BY <2>1, <2>2
<1>11. CASE \/ (WriteMove(c) \/ WriteDependency(c)) /\ Outdated(doing[c].node, doing[c].seen)
            \/ Restore(c)
  <2>1. doing'[c] = Resting  BY <1>1, <1>11 DEF WriteMove, WriteDependency, Restore, Does
  <2> QED  BY <1>2, <2>1 DEF Resting
<1>12. CASE Moved(c)
  <2>1. doing'[c] = IF doing[c].all = {} THEN Resting ELSE Abort(doing[c].all, doing[c].todo)
    BY <1>1, <1>12 DEF Moved
  <2>2. CASE doing[c].all = {}  BY <1>2, <2>1, <2>2 DEF Resting
  <2>3. CASE doing[c].all # {}
    <3>1. doing'[c] = Abort(doing[c].all, doing[c].todo)  BY <2>1, <2>3
    <3>2. /\ doing[c].next = "aborted" /\ doing[c].node \in doing[c].all
          /\ Aborted(doing[c].all \ (doing[c].todo \cup {doing[c].node}))
          /\ doing[c].all \subseteq Nodes /\ doing[c].node \in Nodes
          /\ doing[c].todo \subseteq doing[c].all /\ \A n \in doing[c].todo : Exists(n)
      BY <1>0, <1>12, <2>3 DEF Moved, MoveOps, OpFits
    <3>4. \A n \in doing[c].all \ doing[c].todo : graph'[n].state = "aborted"
      BY <1>12, <3>2 DEF Moved, Aborted
    <3>5. \A n \in doing[c].todo : Exists(n)'  BY <3>2, NodesStay
    <3> QED  BY <3>1, <3>2, <3>4, <3>5 DEF Abort, OpFits, Aborted
  <2> QED  BY <2>2, <2>3
<1>13. CASE Added(c)
  <2>1. doing[c] \in AddOps /\ doing'[c] = [doing[c] EXCEPT !.do = "check"]  BY <1>1, <1>13 DEF Added
  <2>2. /\ doing'[c].do = "check" /\ doing'[c].node = doing[c].node /\ doing'[c].dep = doing[c].dep
        /\ doing'[c].seen = doing[c].seen /\ doing[c].node \in Nodes /\ doing[c].dep \in Nodes
    BY <2>1 DEF AddOps
  <2>3. /\ doing[c].seen = graph[doing[c].node] /\ doing[c].seen.revision > 0
        /\ Exists(doing[c].dep)' /\ Exists(doing[c].node)'
    BY <1>0, <1>13, <2>2, NodesStay DEF Added, OpFits, StillRead
  <2>4. /\ graph'[doing[c].node].revision = graph[doing[c].node].revision + 1
        /\ graph'[doing[c].node].state = graph[doing[c].node].state
        /\ graph'[doing[c].node].deps = graph[doing[c].node].deps \cup {doing[c].dep}
    BY <1>13 DEF Added
  <2>5. graph[doing[c].node].revision \in Nat  BY <1>0, <2>2
  <2> QED  BY <2>2, <2>3, <2>4, <2>5 DEF OpFits
<1> QED  BY <1>3, <1>4, <1>5, <1>6, <1>7, <1>8, <1>9, <1>10, <1>11, <1>12, <1>13, GraphSteps
         DEF QuietStep

\* A node that a call is about to create is there for nobody else.
LEMMA CreateKept ==
    ASSUME GraphIInv, NEW c \in Callers, GraphCall(c)
    PROVE  CreateInv'
<1> USE DEF GraphIInv
<1>1. SUFFICES ASSUME NEW d \in Callers, doing'[d].do = "create"
               PROVE  /\ graph'[doing'[d].node] = NoNode /\ \A m \in doing'[d].deps : Exists(m)'
                      /\ \A e \in Callers \ {d} : doing'[e].do = "create" => doing'[e].node # doing'[d].node
  BY DEF CreateInv, Exists
<1>2. /\ \A e \in Callers \ {c} : doing'[e] = doing[e]
      /\ \A o : doing' = [doing EXCEPT ![c] = o] => doing'[c] = o
      /\ \A e \in Callers : doing[e].do = "create" => doing[e].node \in Nodes /\ doing[e].deps \subseteq Nodes
  <2>1. \E o : doing' = [doing EXCEPT ![c] = o]
    BY GraphSteps DEF QuietStep, Created, Moved, Added, Restored, Create, Transition, AbortBranch, AddDependency,
       Ready, AbortNext, AbortReturns, CheckDependency, WriteMove, WriteDependency, Restore, Does
  <2>2. \A e \in Callers : doing[e].do = "create" => doing[e].node \in Nodes /\ doing[e].deps \subseteq Nodes
    BY OpTypes DEF CreateOps
  <2> QED  BY <2>1, <2>2 DEF GraphTypes
<1>3. CASE Create(c)
  <2>1. PICK n \in Nodes, deps \in SUBSET {m \in Nodes : Exists(m)} :
           /\ ~Exists(n) /\ \A e \in Callers : doing[e].do = "create" => doing[e].node # n
           /\ doing'[c] = [do |-> "create", node |-> n, deps |-> deps]
    BY <1>2, <1>3 DEF Create, Does
  <2>2. graph' = graph  BY <1>3 DEF Create, GraphKept
  <2>3. CASE d = c  BY <1>2, <2>1, <2>2, <2>3 DEF Exists
  <2>4. CASE d # c  BY <1>1, <1>2, <2>1, <2>2, <2>4 DEF Exists, CreateInv
  <2> QED  BY <2>3, <2>4
<1>4. ASSUME ~Create(c) PROVE doing'[c].do # "create"
  <2>1. CASE Transition(c)
    <3>1. PICK n, next : doing'[c] = Move(n, next, {}, {})  BY <1>2, <2>1 DEF Transition, Does
    <3> QED  BY <3>1 DEF Move
  <2>2. CASE AbortBranch(c)
    <3>1. PICK all : doing'[c] = Abort(all, all)  BY <1>2, <2>2 DEF AbortBranch, Does
    <3> QED  BY <3>1 DEF Abort
  <2>3. CASE AddDependency(c)
    <3>1. PICK n, e : doing'[c] = [do |-> "add", node |-> n, dep |-> e, seen |-> graph[n]]
      BY <1>2, <2>3 DEF AddDependency, Does
    <3> QED  BY <3>1
  <2>4. CASE Ready(c)
    <3>1. doing[c] \in MoveOps  BY <2>4, OpTypes DEF Ready
    <3>2. [doing[c] EXCEPT !.do = "write"].do = "write"  BY <3>1 DEF MoveOps
    <3> QED  BY <1>2, <2>4, <3>2 DEF Ready, Does, Resting
  <2>5. CASE AbortNext(c)
    <3>1. PICK n : doing'[c] = Move(n, "aborted", doing[c].all, doing[c].todo \ {n}) \/ doing'[c] = Resting
      BY <1>2, <2>5 DEF AbortNext, Does
    <3> QED  BY <3>1 DEF Move, Resting
  <2>6. CASE CheckDependency(c)
    <3>1. doing[c] \in AddOps  BY <2>6, OpTypes DEF CheckDependency
    <3>2. [doing[c] EXCEPT !.do = "restore"].do = "restore"  BY <3>1 DEF AddOps
    <3> QED  BY <1>2, <2>6, <3>2 DEF CheckDependency, Does, Resting
  <2>7. CASE \/ AbortReturns(c) \/ Created(c) \/ Restored(c) \/ Restore(c)
             \/ (WriteMove(c) \/ WriteDependency(c)) /\ Outdated(doing[c].node, doing[c].seen)
    <3>1. doing' = [doing EXCEPT ![c] = Resting]
      BY <2>7 DEF AbortReturns, Created, Restored, Restore, WriteMove, WriteDependency, Does
    <3>2. doing'[c] = Resting  BY <1>2, <3>1
    <3> QED  BY <3>2 DEF Resting
  <2>8. CASE Moved(c)  BY <1>2, <2>8 DEF Moved, Resting, Abort
  <2>9. CASE Added(c)
    <3>1. [doing[c] EXCEPT !.do = "check"].do = "check"  BY <2>9 DEF Added, AddOps
    <3> QED  BY <1>2, <2>9, <3>1 DEF Added
  <2> QED  BY <1>4, <2>1, <2>2, <2>3, <2>4, <2>5, <2>6, <2>7, <2>8, <2>9, GraphSteps DEF QuietStep
<1>5. CASE ~Create(c)
  <2>1. d # c /\ doing'[d] = doing[d] /\ doing[d].do = "create"  BY <1>1, <1>2, <1>4, <1>5
  <2>2. \A e \in Callers \ {d} : doing'[e].do = "create" => doing'[e].node # doing'[d].node
    BY <1>2, <1>4, <1>5, <2>1 DEF CreateInv
  <2>3. \A m \in doing'[d].deps : Exists(m)'  BY <1>2, <2>1, NodesStay DEF CreateInv
  <2>4. graph'[doing'[d].node] = NoNode
    <3>1. ~Exists(doing[d].node) /\ doing[d].node \in Nodes  BY <1>2, <2>1 DEF CreateInv
    <3>2. CASE QuietStep(c)  BY <2>1, <3>1, <3>2 DEF QuietStep, Exists
    <3>3. CASE Created(c)
      <4>1. doing[c].node # doing[d].node  BY <2>1, <3>3 DEF Created, CreateInv
      <4> QED  BY <2>1, <3>1, <3>3, <4>1 DEF Created, Exists
    <3>4. CASE Moved(c) \/ Added(c) \/ Restored(c)
      <4>1. Exists(doing[c].node)
        BY <3>4 DEF Moved, Added, Restored, OpsFit, OpFits, StillRead
      <4>2. graph'[doing[d].node] = graph[doing[d].node]
        BY <3>1, <3>4, <4>1 DEF Moved, Added, Restored
      <4> QED  BY <2>1, <3>1, <4>2 DEF Exists
    <3> QED  BY <3>2, <3>3, <3>4, GraphSteps
  <2> QED  BY <2>2, <2>3, <2>4
<1> QED  BY <1>3, <1>5

\* What was dropped has been aborted.
LEMMA DroppedKept ==
    ASSUME GraphIInv, NEW c \in Callers, GraphCall(c)
    PROVE  DroppedInv'
<1> USE DEF GraphIInv
<1>1. \A n \in Nodes : graph[n].state = "aborted" => graph'[n].state = "aborted"  BY NodesStay
<1>2. CASE AbortReturns(c)
  <2>1. doing[c].all \subseteq Nodes  BY <1>2, OpTypes DEF AbortReturns, AbortOps
  <2>2. Aborted(doing[c].all)  BY <1>2, <2>1 DEF AbortReturns, OpsFit, OpFits, Aborted
  <2>3. dropped' = dropped \cup doing[c].all  BY <1>2 DEF AbortReturns
  <2> QED  BY <1>1, <2>1, <2>2, <2>3 DEF DroppedInv, Aborted, GraphTypes
<1>3. CASE ~AbortReturns(c)
  <2>1. dropped' = dropped
    BY <1>3, GraphSteps DEF QuietStep, Created, Moved, Added, Restored, Create, Transition, AbortBranch,
         AddDependency, Ready, AbortNext, CheckDependency, WriteMove, WriteDependency, Restore, GraphKept
  <2> QED  BY <1>1, <2>1 DEF DroppedInv, Aborted, GraphTypes
<1> QED  BY <1>2, <1>3

\* When the dependencies that are sure get no more, they make no cycle.
LEMMA SureLess ==
    ASSUME GraphIInv, overrun' = {} => overrun = {},
           \A n \in Nodes : Sure'[n] \subseteq Sure[n]
    PROVE  SureInv'
<1>1. ASSUME AcyclicIn(Sure) PROVE AcyclicIn(Sure)'
  <2>1. AcyclicIn(Sure')  BY <1>1, FewerDeps
  <2> QED  BY <2>1 DEF AcyclicIn, ReachIn, Closed
<1> QED  BY <1>1 DEF GraphIInv, SureInv

\* What is sure of a node before and after a step, member by member.
LEMMA SureMember ==
    /\ \A n \in Nodes : Sure[n] = graph[n].deps \ Unsure(n)
    /\ \A n \in Nodes : Sure'[n] = graph'[n].deps \ Unsure(n)'
  BY DEF Sure

\* A dependency that is being added is not unsure for another reason than its call.
LEMMA UnsureKept ==
    ASSUME GraphIInv, NEW c \in Callers, NEW o, doing' = [doing EXCEPT ![c] = o], NEW n \in Nodes,
           doing[c].do \in {"check", "restore"} /\ doing[c].node = n /\ doing[c].dep \notin doing[c].seen.deps =>
              /\ o.do \in {"check", "restore"} /\ o.node = n /\ o.dep = doing[c].dep
              /\ o.dep \notin o.seen.deps
    PROVE  Unsure(n) \subseteq Unsure(n)'
<1> SUFFICES ASSUME NEW d \in Nodes, d \in Unsure(n) PROVE d \in Unsure(n)'  BY DEF Unsure
<1>1. PICK e \in Callers : /\ doing[e].do \in {"check", "restore"} /\ doing[e].node = n
                           /\ doing[e].dep = d /\ d \notin doing[e].seen.deps
  BY DEF Unsure
<1>2. doing'[c] = o /\ \A x \in Callers \ {c} : doing'[x] = doing[x]  BY DEF GraphIInv, GraphTypes
<1> QED  BY <1>1, <1>2 DEF Unsure

\* No step adds a dependency that is sure and closes a cycle.
LEMMA SureKept ==
    ASSUME GraphIInv, GraphTypes', NEW c \in Callers, GraphCall(c)
    PROVE  SureInv'
<1> USE DEF GraphIInv
<1>0. /\ \A n \in Nodes : Sure[n] = graph[n].deps \ Unsure(n) /\ Sure'[n] = graph'[n].deps \ Unsure(n)'
      /\ \A n \in Nodes : graph[n].deps \subseteq Nodes /\ graph'[n].deps \subseteq Nodes
  BY SureMember DEF GraphTypes, NodeRecords
<1>1. CASE CheckDependency(c)
  <2>1. graph' = graph /\ overrun' = overrun  BY <1>1 DEF CheckDependency, GraphKept
  <2>2. CASE Acyclic
    <3>1. \A n \in Nodes : Sure'[n] \subseteq Deps[n]  BY <1>0, <2>1 DEF Deps
    <3>2. AcyclicIn(Sure')  BY <2>2, <3>1, FewerDeps DEF Acyclic
    <3> QED  BY <3>2 DEF SureInv, AcyclicIn, ReachIn, Closed
  <2>3. CASE ~Acyclic
    <3>1. doing[c] \in AddOps /\ doing[c].do = "check"  BY <1>1, OpTypes DEF CheckDependency
    <3>2. doing' = [doing EXCEPT ![c] = [doing[c] EXCEPT !.do = "restore"]]
      BY <1>1, <2>3 DEF CheckDependency, Does
    <3>3. LET o == [doing[c] EXCEPT !.do = "restore"] IN
          o.do = "restore" /\ o.node = doing[c].node /\ o.dep = doing[c].dep /\ o.seen = doing[c].seen
      BY <3>1 DEF AddOps
    <3>4. \A n \in Nodes : Unsure(n) \subseteq Unsure(n)'  BY <3>1, <3>2, <3>3, UnsureKept
    <3> QED  BY <1>0, <2>1, <3>4, SureLess
  <2> QED  BY <2>2, <2>3
<1>2. CASE QuietStep(c) /\ ~CheckDependency(c) /\ ~Restore(c)
  <2>1. graph' = graph /\ overrun' = overrun
    BY <1>2 DEF QuietStep, Create, Transition, AbortBranch, AddDependency, Ready, AbortNext, AbortReturns,
                WriteMove, WriteDependency, GraphKept
  <2>2. \E o : doing' = [doing EXCEPT ![c] = o]
    BY <1>2 DEF QuietStep, Create, Transition, AbortBranch, AddDependency, Ready, AbortNext, AbortReturns,
                WriteMove, WriteDependency, Does
  <2>3. doing[c].do \notin {"check", "restore"}
    BY <1>2 DEF QuietStep, Create, Transition, AbortBranch, AddDependency, Ready, AbortNext, AbortReturns,
                WriteMove, WriteDependency, Requests, Resting
  <2>4. \A n \in Nodes : Unsure(n) \subseteq Unsure(n)'  BY <2>2, <2>3, UnsureKept
  <2> QED  BY <1>0, <2>1, <2>4, SureLess
<1>3. CASE QuietStep(c) /\ Restore(c)
  <2>1. overrun' # {}  BY <1>3 DEF QuietStep, Restore, Create, Transition, AbortBranch, AddDependency,
                               Ready, AbortNext, AbortReturns, CheckDependency, WriteMove, WriteDependency, Requests, Resting
  <2> QED  BY <2>1 DEF SureInv
<1>4. CASE Created(c)
  <2>1. doing[c].do = "create" /\ doing' = [doing EXCEPT ![c] = Resting] /\ overrun' = overrun
    BY <1>4 DEF Created
  <2>2. \A n \in Nodes : Unsure(n) \subseteq Unsure(n)'  BY <2>1, UnsureKept
  <2> DEFINE n == doing[c].node
  <2>3. n \in Nodes /\ ~Exists(n) /\ \A m \in doing[c].deps : Exists(m)
    BY <1>4, <2>1 DEF Created, CreateOps, CreateInv
  <2>4. graph'[n].deps = doing[c].deps /\ \A m \in Nodes \ {n} : graph'[m] = graph[m]
    BY <1>4 DEF Created
  <2>5. \A m \in Nodes : n \notin graph'[m].deps
    BY <2>3, <2>4 DEF NodesInv
  <2> DEFINE mid == [m \in Nodes |-> IF m = n THEN graph'[n].deps ELSE Sure[m]]
  <2> HIDE DEF n
  <2>6. \A m \in Nodes : Sure'[m] \subseteq mid[m] /\ n \notin mid[m] /\ mid[m] \subseteq Nodes
    BY <1>0, <2>2, <2>3, <2>4, <2>5
  <2>7. \A m \in Nodes \ {n} : mid[m] = Sure[m]  OBVIOUS
  <2> HIDE DEF mid
  <2>8. ASSUME AcyclicIn(Sure) PROVE AcyclicIn(Sure')
    <3>1. AcyclicIn(mid)  BY <2>3, <2>6, <2>7, <2>8, OneMoreNode
    <3> QED  BY <2>6, <3>1, FewerDeps
  <2> QED  BY <2>1, <2>8 DEF SureInv, AcyclicIn, ReachIn, Closed
<1>5. CASE Moved(c)
  <2>1. \E o : doing' = [doing EXCEPT ![c] = o]  BY <1>5 DEF Moved
  <2>2. doing[c].do \notin {"check", "restore"} /\ overrun' = overrun  BY <1>5 DEF Moved
  <2>3. \A n \in Nodes : Unsure(n) \subseteq Unsure(n)'  BY <2>1, <2>2, UnsureKept
  <2>4. \A n \in Nodes : graph'[n].deps = graph[n].deps  BY <1>5 DEF Moved
  <2> QED  BY <1>0, <2>2, <2>3, <2>4, SureLess
<1>6. CASE Added(c)
  <2>1. doing[c] \in AddOps /\ doing[c].do = "add" /\ overrun' = overrun
        /\ doing' = [doing EXCEPT ![c] = [doing[c] EXCEPT !.do = "check"]]
    BY <1>6 DEF Added
  <2>2. LET o == [doing[c] EXCEPT !.do = "check"] IN
        o.do = "check" /\ o.node = doing[c].node /\ o.dep = doing[c].dep /\ o.seen = doing[c].seen
    BY <2>1 DEF AddOps
  <2>3. \A n \in Nodes : Unsure(n) \subseteq Unsure(n)'  BY <2>1, UnsureKept
  <2>4. doing'[c] = [doing[c] EXCEPT !.do = "check"]  BY <2>1 DEF GraphTypes
  <2>5. PICK k \in Nodes, e \in Nodes : k = doing[c].node /\ e = doing[c].dep
    BY <2>1 DEF AddOps
  <2>6. /\ doing[c].seen = graph[k] /\ graph'[k].deps = graph[k].deps \cup {e}
        /\ \A m \in Nodes \ {k} : graph'[m] = graph[m]
    BY <1>6, <2>5 DEF Added
  <2>7. e \notin graph[k].deps => e \in Unsure(k)'
    BY <2>2, <2>4, <2>5, <2>6 DEF Unsure
  <2>8. \A n \in Nodes : Sure'[n] \subseteq Sure[n]
    BY <1>0, <2>3, <2>6, <2>7
  <2> QED  BY <2>1, <2>8, SureLess
<1>7. CASE Restored(c)
  <2>1. /\ doing[c] \in AddOps /\ doing[c].do = "restore" /\ overrun' = overrun
        /\ doing' = [doing EXCEPT ![c] = Resting]
    BY <1>7 DEF Restored
  <2>2. PICK k \in Nodes, e \in Nodes : k = doing[c].node /\ e = doing[c].dep
    BY <2>1 DEF AddOps
  <2>3. /\ graph[k].deps = doing[c].seen.deps \cup {e} /\ graph'[k].deps = doing[c].seen.deps
        /\ \A m \in Nodes \ {k} : graph'[m] = graph[m]
    BY <1>7, <2>2 DEF Restored
  <2>4. \A n \in Nodes \ {k} : Unsure(n) \subseteq Unsure(n)'  BY <2>1, <2>2, UnsureKept
  <2>5. \A x \in Callers \ {c} : doing'[x] = doing[x]  BY <2>1 DEF GraphTypes
  <2>6. ASSUME NEW d \in Nodes, d \in doing[c].seen.deps, d \in Unsure(k) PROVE d \in Unsure(k)'
    <3>1. PICK x \in Callers : /\ doing[x].do \in {"check", "restore"} /\ doing[x].node = k
                               /\ doing[x].dep = d /\ d \notin doing[x].seen.deps
      BY <2>6 DEF Unsure
    <3>2. x # c  BY <2>6, <3>1
    <3>3. doing'[x] = doing[x]  BY <2>5, <3>2
    <3> QED  BY <3>1, <3>3 DEF Unsure
  <2>7. \A n \in Nodes \ {k} : Sure'[n] \subseteq Sure[n]  BY <1>0, <2>3, <2>4
  <2>8. Sure'[k] \subseteq Sure[k]
    <3>1. \A d \in Nodes : d \in Unsure(k) /\ d \in doing[c].seen.deps => d \in Unsure(k)'  BY <2>6
    <3>2. doing[c].seen.deps \subseteq graph[k].deps /\ graph[k].deps \subseteq Nodes  BY <1>0, <2>3
    <3> QED  BY <1>0, <2>3, <3>1, <3>2
  <2>9. \A n \in Nodes : Sure'[n] \subseteq Sure[n]  BY <2>7, <2>8
  <2> QED  BY <2>1, <2>9, SureLess
<1> QED  BY <1>1, <1>2, <1>3, <1>4, <1>5, <1>6, <1>7, GraphSteps

\* A step is of one call.
LEMMA OneCallSteps ==
    ASSUME GraphIInv, NEW c \in Callers, GraphCall(c)
    PROVE  \A d \in Callers \ {c} : doing'[d] = doing[d]
<1>1. \E o : doing' = [doing EXCEPT ![c] = o]
  BY GraphSteps DEF QuietStep, Created, Moved, Added, Restored, Create, Transition, AbortBranch, AddDependency,
     Ready, AbortNext, AbortReturns, CheckDependency, WriteMove, WriteDependency, Restore, Does
<1> QED  BY <1>1 DEF GraphIInv, GraphTypes

\* The invariant of the graph holds at the start, at each step, and gives the promise.
LEMMA GraphStarts == GraphInit => GraphIInv
<1> SUFFICES ASSUME GraphInit PROVE GraphIInv  OBVIOUS
<1>1. /\ graph = [n \in Nodes |-> IF n \in Present THEN NewNode({}) ELSE NoNode]
      /\ doing = [c \in Callers |-> Resting] /\ overrun = {} /\ dropped = {}
  BY DEF GraphInit
<1>2. NewNode({}) \in NodeRecords /\ NoNode \in NodeRecords /\ NewNode({}).revision = 1
      /\ NewNode({}).deps = {} /\ NewNode({}).state = "pending" /\ NoNode.deps = {}
      /\ NoNode.revision = 0
  BY Table DEF NewNode, NoNode, NodeRecords
<1>3. GraphTypes  BY <1>1, <1>2 DEF GraphTypes
<1>4. NodesInv  BY <1>1, <1>2, Table DEF NodesInv, Exists
<1>5. \A c \in Callers : doing[c].do = "rest"  BY <1>1 DEF Resting
<1>6. OpsFit /\ CreateInv  BY <1>5 DEF OpsFit, OpFits, CreateInv
<1>7. \A n \in Nodes : Sure[n] = {}  BY <1>1, <1>2 DEF Sure
<1>8. AcyclicIn(Sure)
  <2>1. \A n \in Nodes : Sure[n] \subseteq {} /\ Closed({}, Sure)  BY <1>7 DEF Closed
  <2> QED  BY <2>1 DEF AcyclicIn, ReachIn
<1> QED  BY <1>1, <1>3, <1>4, <1>6, <1>8 DEF GraphIInv, SureInv, DroppedInv, Aborted

LEMMA GraphStays == GraphIInv /\ [GraphNext]_graphVars => GraphIInv'
<1> SUFFICES ASSUME GraphIInv, [GraphNext]_graphVars PROVE GraphIInv'  OBVIOUS
<1>1. CASE GraphNext
  <2>1. PICK c \in Callers : GraphCall(c)  BY <1>1 DEF GraphNext, GraphCall
  <2>2. GraphTypes' /\ NodesInv' /\ CreateInv' /\ DroppedInv'
    BY <2>1, GraphTypesKept, NodesKept, CreateKept, DroppedKept
  <2>3. SureInv'  BY <2>1, <2>2, SureKept
  <2>4. OpsFit'
    <3> SUFFICES ASSUME NEW d \in Callers PROVE OpFits(doing[d])'  BY DEF OpsFit
    <3>1. CASE d = c  BY <2>1, <3>1, OwnFits
    <3>2. CASE d # c  BY <2>1, <3>2, OneCallSteps, OthersFit
    <3> QED  BY <3>1, <3>2
  <2> QED  BY <2>2, <2>3, <2>4 DEF GraphIInv
<1>2. CASE UNCHANGED graphVars
  <2>1. graph' = graph /\ doing' = doing /\ overrun' = overrun /\ dropped' = dropped
    BY <1>2 DEF graphVars
  <2>2. GraphTypes' /\ NodesInv'  BY <2>1 DEF GraphIInv, GraphTypes, NodesInv, Exists
  <2>3. OpsFit'
    <3>1. \A c \in Callers : OpFits(doing[c])  BY DEF GraphIInv, OpsFit
    <3>2. \A c \in Callers : OpFits(doing[c])'  BY <2>1, <3>1 DEF OpFits, StillRead, Aborted, Exists
    <3> QED  BY <3>2 DEF OpsFit
  <2>4. CreateInv' /\ DroppedInv'  BY <2>1 DEF GraphIInv, CreateInv, DroppedInv, Aborted, Exists
  <2>5. SureInv'
    <3>1. \A n \in Nodes : Sure'[n] \subseteq Sure[n]  BY <2>1 DEF Sure, Unsure
    <3> QED  BY <2>1, <3>1, SureLess
  <2> QED  BY <2>2, <2>3, <2>4, <2>5 DEF GraphIInv
<1> QED  BY <1>1, <1>2

LEMMA GraphFollows == GraphIInv => GraphHolds
<1> SUFFICES ASSUME GraphIInv PROVE GraphHolds  OBVIOUS
<1> USE DEF GraphIInv
<1>1. GraphTypeOK
  BY DEF GraphTypes, NodeRecords, NodesInv, GraphTypeOK
<1>2. ASSUME \A c \in Callers : doing[c].do \notin {"check", "restore"}, overrun = {}
      PROVE  AcyclicIn(Deps)
  <2>1. \A n \in Nodes : Unsure(n) = {}  BY <1>2 DEF Unsure
  <2>2. \A n \in Nodes : Deps[n] \subseteq Sure[n]  BY <2>1 DEF Deps, Sure
  <2>3. AcyclicIn(Sure)  BY <1>2 DEF SureInv
  <2> QED  BY <2>2, <2>3, FewerDeps
<1> QED  BY <1>1, <1>2 DEF GraphHolds, DroppedInv, Aborted

\* GraphHolds, for every set of nodes and callers: whatever the callers do at once, the
\* dependencies make no cycle once no call is in the middle of adding one, unless a node was
\* written again before a dependency could be taken back, and what an abortBranch listed is
\* aborted when it returns.
THEOREM GraphAlwaysHolds == GraphSpec => []GraphHolds
<1>1. GraphInit => GraphIInv  BY GraphStarts
<1>2. GraphIInv /\ [GraphNext]_graphVars => GraphIInv'  BY GraphStays
<1>3. GraphIInv => GraphHolds  BY GraphFollows
<1> QED  BY <1>1, <1>2, <1>3, PTL DEF GraphSpec

\* What a step does to the state of a node.
NodeMoves(n) ==
    LET old == graph[n] new == graph'[n] IN
    /\ Exists(n) /\ new.state # old.state => new.state \in Transitions[old.state]
    /\ new.state = "running" /\ old.state # "running" =>
          \A d \in new.deps : graph[d].state = "succeeded"

\* Only the write of a move changes the state of a node, and it knows what the node depends on.
LEMMA StepMovesNodes ==
    ASSUME GraphIInv, NEW c \in Callers, GraphCall(c), NEW n \in Nodes
    PROVE  NodeMoves(n)
<1> USE DEF GraphIInv
<1>1. Exists(n) /\ graph'[n].state # graph[n].state => graph'[n].state \in Transitions[graph[n].state]
  BY EveryNodeSteps DEF NodeStep
<1>2. ASSUME graph'[n].state = "running", graph[n].state # "running"
      PROVE  \A d \in graph'[n].deps : graph[d].state = "succeeded"
  <2>1. ~QuietStep(c)  BY <1>2 DEF QuietStep
  <2>2. ~Created(c)  BY <1>2 DEF Created
  <2>3. ~Added(c) /\ ~Restored(c)  BY <1>2 DEF Added, Restored
  <2>4. Moved(c)  BY <2>1, <2>2, <2>3, GraphSteps
  <2>5. n = doing[c].node /\ doing[c].next = "running" /\ doing[c].do = "write"
        /\ graph'[n].deps = graph[n].deps /\ doing[c].seen = graph[n]
    BY <1>2, <2>4 DEF Moved
  <2>6. \A d \in doing[c].seen.deps : graph[d].state = "succeeded"  BY <2>5 DEF OpsFit, OpFits
  <2> QED  BY <2>5, <2>6
<1> QED  BY <1>1, <1>2 DEF NodeMoves

\* MovesAreLegal, for every set of nodes and callers: a node moves as the table says, never
\* leaves succeeded or aborted, and starts only when all it depends on has succeeded.
THEOREM MovesAlwaysLegal == GraphSpec => MovesAreLegal
<1>1. GraphInit => GraphIInv  BY GraphStarts
<1>2. GraphIInv /\ [GraphNext]_graphVars => GraphIInv'  BY GraphStays
<1>3. GraphIInv /\ [GraphNext]_graphVars => [\A n \in Nodes : NodeMoves(n)]_graphVars
  BY StepMovesNodes DEF GraphNext, GraphCall
<1>4. GraphSpec => [][\A n \in Nodes : NodeMoves(n)]_graphVars  BY <1>1, <1>2, <1>3, PTL DEF GraphSpec
<1> QED  BY <1>4 DEF MovesAreLegal, NodeMoves
=============================================================================
