--------------------------- MODULE Runtime_proofs ---------------------------
(***************************************************************************)
(* Proofs about what runs work in a Pi process: the background scheduler     *)
(* (BackgroundScheduler), the queue of relationship learning                 *)
(* (BackgroundQueue), the requests to the inference provider                 *)
(* (ProviderRequests) and the runtime of the providers (ProviderRuntime), for  *)
(* any calls, jobs, requests and hosts and every choice of the limits.  Each    *)
(* part has an inductive invariant of its own; the sums and the queues that    *)
(* several of them keep come first.                                         *)
(***************************************************************************)
EXTENDS BackgroundScheduler, BackgroundQueue, ProviderRequests, ProviderRuntime,
        FiniteSetTheorems, SequenceTheorems, TLAPS

-----------------------------------------------------------------------------
(* Sums and queues. *)

\* Sums.  A set of elements with so many units each: finite, and one element more adds its own.
Units(S, of) == UNION {{x} \X (1..of[x]) : x \in S}

LEMMA OwnUnits ==
    ASSUME NEW x, NEW n \in Nat
    PROVE  IsFiniteSet({x} \X (1..n)) /\ Cardinality({x} \X (1..n)) = n
<1>1. IsFiniteSet(1..n) /\ Cardinality(1..n) = IF 1 > n THEN 0 ELSE n - 1 + 1  BY FS_Interval
<1>2. IsFiniteSet({x}) /\ Cardinality({x}) = 1  BY FS_Singleton
<1>3. /\ IsFiniteSet({x} \X (1..n))
      /\ Cardinality({x} \X (1..n)) = Cardinality({x}) * Cardinality(1..n)
  BY <1>1, <1>2, FS_Product
<1>4. Cardinality(1..n) = n /\ 1 * n = n  BY <1>1
<1> QED  BY <1>2, <1>3, <1>4

LEMMA UnitsFinite ==
    ASSUME NEW S, IsFiniteSet(S), NEW of, \A x \in S : of[x] \in Nat
    PROVE  IsFiniteSet(Units(S, of)) /\ Cardinality(Units(S, of)) \in Nat
<1> DEFINE each == {{x} \X (1..of[x]) : x \in S}
           own == [x \in S |-> {x} \X (1..of[x])]
<1>1. own \in Surjection(S, each)  BY DEF Surjection
<1>2. \A t \in each : IsFiniteSet(t)
  <2>1. \A x \in S : IsFiniteSet({x} \X (1..of[x]))  BY OwnUnits
  <2> QED  BY <2>1
<1>3. IsFiniteSet(UNION each)
  <2> HIDE DEF own, each
  <2>1. IsFiniteSet(each)  BY <1>1, FS_Surjection
  <2> QED  BY <1>2, <2>1, FS_UNION
<1>4. IsFiniteSet(Units(S, of))  BY <1>3 DEF Units
<1> QED  BY <1>4, FS_CardinalityType

LEMMA UnitsWithOneMore ==
    ASSUME NEW S, IsFiniteSet(S), NEW of, NEW y, y \notin S, \A x \in S \cup {y} : of[x] \in Nat
    PROVE  Cardinality(Units(S \cup {y}, of)) = Cardinality(Units(S, of)) + of[y]
<1> DEFINE own == {y} \X (1..of[y])
<1>1. IsFiniteSet(Units(S, of)) /\ Cardinality(Units(S, of)) \in Nat  BY UnitsFinite
<1>2. of[y] \in Nat /\ IsFiniteSet(own) /\ Cardinality(own) = of[y]  BY OwnUnits
<1>3. Units(S \cup {y}, of) = Units(S, of) \cup own /\ Units(S, of) \cap own = {}  BY DEF Units
<1> HIDE DEF own
<1>4. Cardinality(Units(S, of) \cap own) = 0  BY <1>3, FS_EmptySet
<1>5. Cardinality(Units(S, of) \cup own)
        = Cardinality(Units(S, of)) + Cardinality(own) - Cardinality(Units(S, of) \cap own)
  BY <1>1, <1>2, FS_Union
<1>6. Cardinality(Units(S, of) \cup own) = Cardinality(Units(S, of)) + of[y]
  BY <1>1, <1>2, <1>4, <1>5
<1> QED  BY <1>3, <1>6

\* A queue without repetitions, as its elements come and go.
LEMMA QueueFacts ==
    ASSUME NEW S, NEW q \in Seq(S)
    PROVE  /\ Len(q) \in Nat /\ DOMAIN q = 1..Len(q)
           /\ \A i \in DOMAIN q : q[i] \in S
           /\ q # <<>> => Len(q) # 0
  BY LenProperties, EmptySeq

LEMMA QueueLonger ==
    ASSUME NEW S, NEW q \in Seq(S), IsInjective(q), NEW r \in S, r \notin ToSet(q)
    PROVE  /\ Append(q, r) \in Seq(S) /\ IsInjective(Append(q, r))
           /\ ToSet(Append(q, r)) = ToSet(q) \cup {r} /\ Len(Append(q, r)) = Len(q) + 1
<1> DEFINE s == Append(q, r)
<1>1. /\ s \in Seq(S) /\ Len(s) = Len(q) + 1
      /\ \A i \in 1..Len(q) : s[i] = q[i]
      /\ s[Len(q) + 1] = r
  BY AppendProperties
<1>2. DOMAIN s = 1..(Len(q) + 1)  BY <1>1, LenProperties
<1> HIDE DEF s
<1> QED  BY <1>1, <1>2, QueueFacts DEF s, ToSet, IsInjective

LEMMA QueueTail ==
    ASSUME NEW S, NEW q \in Seq(S), IsInjective(q), q # <<>>
    PROVE  /\ Tail(q) \in Seq(S) /\ IsInjective(Tail(q))
           /\ Head(q) \in ToSet(q)
           /\ ToSet(Tail(q)) = ToSet(q) \ {Head(q)} /\ Len(Tail(q)) = Len(q) - 1
<1> DEFINE s == Tail(q)
<1>1. /\ s \in Seq(S) /\ Len(s) = Len(q) - 1
      /\ \A i \in 1..Len(s) : s[i] = q[i + 1]
  BY HeadTailProperties
<1>2. DOMAIN s = 1..Len(s) /\ Len(s) \in Nat  BY <1>1, LenProperties
<1>3. Head(q) = q[1] /\ 1 \in DOMAIN q  BY QueueFacts
<1> HIDE DEF s
<1>4. \A i \in DOMAIN q : i # 1 => i - 1 \in DOMAIN s /\ s[i - 1] = q[i]
  BY <1>1, <1>2, QueueFacts
<1>5. \A i \in DOMAIN s : i + 1 \in DOMAIN q /\ i + 1 # 1 /\ s[i] = q[i + 1]
  BY <1>1, <1>2, QueueFacts
<1>6. IsInjective(s)
  <2> SUFFICES ASSUME NEW i \in DOMAIN s, NEW j \in DOMAIN s, s[i] = s[j] PROVE i = j
    BY DEF IsInjective
  <2>1. i + 1 = j + 1  BY <1>5 DEF IsInjective
  <2> QED  BY <1>2, <2>1
<1>7. ToSet(s) = ToSet(q) \ {Head(q)}
  <2>1. ASSUME NEW x \in ToSet(s) PROVE x \in ToSet(q) /\ x # Head(q)
    BY <1>3, <1>5, <2>1 DEF ToSet, IsInjective
  <2>2. ASSUME NEW x \in ToSet(q), x # Head(q) PROVE x \in ToSet(s)
    BY <1>3, <1>4, <2>2 DEF ToSet
  <2> QED  BY <2>1, <2>2
<1> QED  BY <1>1, <1>3, <1>6, <1>7 DEF s, ToSet

LEMMA QueueCut ==
    ASSUME NEW S, NEW q \in Seq(S), IsInjective(q), NEW n \in DOMAIN q
    PROVE  /\ RemoveAt(q, n) \in Seq(S) /\ IsInjective(RemoveAt(q, n))
           /\ ToSet(RemoveAt(q, n)) = ToSet(q) \ {q[n]} /\ Len(RemoveAt(q, n)) = Len(q) - 1
<1> DEFINE a == SubSeq(q, 1, n - 1)
           b == SubSeq(q, n + 1, Len(q))
           s == a \o b
           l == Len(q)
<1>1. /\ l \in Nat /\ DOMAIN q = 1..l /\ n \in 1..l
      /\ \A i \in 1..l : q[i] \in S
  BY QueueFacts
<1>2. /\ a \in Seq(S) /\ Len(a) = n - 1
      /\ \A i \in 1..(n - 1) : a[i] = q[i]
  <2>1. \A i \in 1..(n - 1) : q[i] \in S  BY <1>1
  <2>2. n - 1 \in Int /\ 1 \in Int  BY <1>1
  <2>3. /\ a \in Seq(S) /\ Len(a) = IF 1 <= n - 1 THEN n - 1 - 1 + 1 ELSE 0
        /\ \A i \in 1..(n - 1 - 1 + 1) : a[i] = q[1 + i - 1]
    BY <2>1, <2>2, SubSeqProperties
  <2> HIDE DEF a
  <2> QED  BY <1>1, <2>3
<1>3. /\ b \in Seq(S) /\ Len(b) = l - n
      /\ \A i \in 1..(l - n) : b[i] = q[n + i]
  <2>1. \A i \in (n + 1)..l : q[i] \in S  BY <1>1
  <2>2. n + 1 \in Int /\ l \in Int  BY <1>1
  <2>3. /\ b \in Seq(S) /\ Len(b) = IF n + 1 <= l THEN l - (n + 1) + 1 ELSE 0
        /\ \A i \in 1..(l - (n + 1) + 1) : b[i] = q[n + 1 + i - 1]
    BY <2>1, <2>2, SubSeqProperties
  <2> HIDE DEF b
  <2>4. Len(b) = l - n  BY <1>1, <2>3
  <2>5. \A i \in 1..(l - n) : i \in 1..(l - (n + 1) + 1) /\ n + 1 + i - 1 = n + i  BY <1>1
  <2> HIDE DEF l
  <2> QED  BY <2>3, <2>4, <2>5
<1>4. /\ s \in Seq(S) /\ Len(s) = Len(a) + Len(b)
      /\ \A i \in 1..(Len(a) + Len(b)) : s[i] = IF i <= Len(a) THEN a[i] ELSE b[i - Len(a)]
  <2> HIDE DEF a, b
  <2> QED  BY <1>2, <1>3, ConcatProperties
<1>5. DOMAIN s = 1..(l - 1) /\ Len(s) = l - 1
  BY <1>1, <1>2, <1>3, <1>4, LenProperties
<1> HIDE DEF a, b, s
<1>6. \A i \in DOMAIN s : s[i] = IF i < n THEN q[i] ELSE q[i + 1]
  <2> SUFFICES ASSUME NEW i \in 1..(l - 1)
               PROVE  s[i] = IF i < n THEN q[i] ELSE q[i + 1]
    BY <1>5
  <2>1. CASE i < n  BY <1>1, <1>2, <1>3, <1>4, <2>1
  <2>2. CASE i >= n
    <3>1. i - (n - 1) \in 1..(l - n) /\ n + (i - (n - 1)) = i + 1  BY <1>1, <2>2
    <3>2. s[i] = b[i - (n - 1)]  BY <1>1, <1>2, <1>3, <1>4, <2>2
    <3> QED  BY <1>1, <1>3, <2>2, <3>1, <3>2
  <2> QED  BY <1>1, <2>1, <2>2
<1> HIDE DEF l
<1>7. IsInjective(s)
  <2> SUFFICES ASSUME NEW i \in DOMAIN s, NEW j \in DOMAIN s, s[i] = s[j] PROVE i = j
    BY DEF IsInjective
  <2> DEFINE place(k) == IF k < n THEN k ELSE k + 1
  <2>1. place(i) \in DOMAIN q /\ place(j) \in DOMAIN q  BY <1>1, <1>5
  <2>2. q[place(i)] = q[place(j)]  BY <1>1, <1>5, <1>6
  <2>3. place(i) = place(j)  BY <2>1, <2>2 DEF IsInjective
  <2> QED  BY <1>1, <1>5, <2>3
<1>8. ToSet(s) = ToSet(q) \ {q[n]}
  <2>1. ASSUME NEW i \in DOMAIN s PROVE s[i] \in ToSet(q) \ {q[n]}
    <3>1. CASE i < n  BY <1>1, <1>5, <1>6, <3>1 DEF ToSet, IsInjective
    <3>2. CASE i >= n
      <4>1. s[i] = q[i + 1] /\ i + 1 \in DOMAIN q /\ i + 1 # n
        BY <1>1, <1>5, <1>6, <3>2
      <4> QED  BY <1>1, <4>1 DEF ToSet, IsInjective
    <3> QED  BY <1>1, <1>5, <3>1, <3>2
  <2>2. ASSUME NEW i \in DOMAIN q, q[i] # q[n] PROVE q[i] \in ToSet(s)
    <3>1. CASE i < n
      <4>1. i \in DOMAIN s /\ s[i] = q[i]  BY <1>1, <1>5, <1>6, <3>1
      <4> QED  BY <4>1 DEF ToSet
    <3>2. CASE i > n
      <4>1. i - 1 \in DOMAIN s /\ s[i - 1] = q[i]  BY <1>1, <1>5, <1>6, <3>2
      <4> QED  BY <4>1 DEF ToSet
    <3> QED  BY <1>1, <2>2, <3>1, <3>2
  <2> QED  BY <2>1, <2>2 DEF ToSet
<1>9. RemoveAt(q, n) = s  BY DEF RemoveAt, s, a, b, l
<1> QED  BY <1>4, <1>5, <1>7, <1>8, <1>9 DEF l

LEMMA QueueWithout ==
    ASSUME NEW S, NEW q \in Seq(S), IsInjective(q), NEW i
    PROVE  /\ Without(q, i) \in Seq(S) /\ IsInjective(Without(q, i))
           /\ ToSet(Without(q, i)) = ToSet(q) \ {i}
           /\ Len(Without(q, i)) = IF i \in ToSet(q) THEN Len(q) - 1 ELSE Len(q)
<1> DEFINE n == CHOOSE k \in DOMAIN q : q[k] = i
<1>1. CASE i \in ToSet(q)
  <2>1. n \in DOMAIN q /\ q[n] = i  BY <1>1 DEF ToSet
  <2> HIDE DEF n
  <2>2. Without(q, i) = RemoveAt(q, n)  BY <1>1 DEF Without, n
  <2> QED  BY <1>1, <2>1, <2>2, QueueCut
<1>2. CASE i \notin ToSet(q)  BY <1>2 DEF Without
<1> QED  BY <1>1, <1>2

-----------------------------------------------------------------------------
(* BackgroundScheduler. *)

\* The statuses of a call agree with the place where the scheduler keeps it.
StatusInv ==
    /\ \A c \in Calls : c \in heap <=> status[c] = "queued"
    /\ \A c \in held : status[c] \in {"executing", "finished"}
    /\ \A c \in Calls : status[c] = "executing" => c \in held

\* The key of a live call is registered for that call.
KeyInv ==
    \A c \in Calls :
        KeyOf[c] # NoKey /\ status[c] \in {"queued", "executing"} => dedup[KeyOf[c]] = c

SchedulerIInv == TypeOK /\ StatusInv /\ KeyInv /\ LanesRespected /\ NoLostWakeup

-----------------------------------------------------------------------------
LEMMA TypeInit == Init => TypeOK
<1> SUFFICES ASSUME Init PROVE TypeOK
  OBVIOUS
<1>1. controllers \in [{IdOf[c] : c \in Calls} -> Calls \cup {NoCall}]  BY DEF Init
<1>2. dedup \in [Keys -> Calls \cup {NoCall}]  BY DEF Init
<1>3. status \in [Calls -> {"new", "queued", "executing"} \cup Settled]  BY DEF Init
<1>4. seq \in [Calls -> Nat]  BY DEF Init
<1>5. heap \subseteq Calls /\ aborted \subseteq Calls /\ held \subseteq Calls
  BY DEF Init
<1>6. nextSeq \in Nat /\ queuedBytes \in Int /\ active \in Nat
  BY DEF Init
<1>7. drainQueued \in BOOLEAN /\ draining \in BOOLEAN
  BY DEF Init
<1>8. closing \in {"open", "grace", "aborting", "closed"}
  BY DEF Init
<1> QED  BY <1>1, <1>2, <1>3, <1>4, <1>5, <1>6, <1>7, <1>8 DEF TypeOK

LEMMA TypeStep == TypeOK /\ StatusInv /\ LanesRespected /\ [Next]_vars => TypeOK'
<1> SUFFICES ASSUME TypeOK, StatusInv, LanesRespected, [Next]_vars
             PROVE  TypeOK'
  OBVIOUS
<1> USE CallsAssumption, LimitsAssumption DEF TypeOK, Settled
<1>1. ASSUME NEW c \in Calls, Schedule(c) PROVE TypeOK'
  <2>1. CASE ScheduleClosed(c)  BY <2>1 DEF ScheduleClosed
  <2>2. CASE ScheduleJoin(c)    BY <2>2 DEF ScheduleJoin
  <2>3. CASE ScheduleFull(c)    BY <2>3 DEF ScheduleFull
  <2>4. CASE ScheduleAccept(c)
    <3>1. BytesOf[c] \in Nat  OBVIOUS
    <3>2. KeyOf[c] # NoKey => KeyOf[c] \in Keys  OBVIOUS
    <3>3. dedup' \in [Keys -> Calls \cup {NoCall}]  BY <2>4, <3>2 DEF ScheduleAccept
    <3> QED  BY <2>4, <3>1, <3>3 DEF ScheduleAccept, WakeDrain
  <2> QED  BY <1>1, <2>1, <2>2, <2>3, <2>4 DEF Schedule
<1>2. ASSUME NEW c \in Calls, SignalAbort(c) PROVE TypeOK'
  BY <1>2 DEF SignalAbort
<1>3. ASSUME NEW c \in Calls, Cancel(c) PROVE TypeOK'
  BY <1>3 DEF Cancel
<1>4. ASSUME NEW c \in Calls, Settle(c) PROVE TypeOK'
  BY <1>4 DEF Settle
<1>5. ASSUME NEW c \in Calls, Release(c) PROVE TypeOK'
  <2>1. IsFiniteSet(held)  BY FS_Subset
  <2>2. Cardinality(held) \in Nat /\ Cardinality(held) # 0
    BY <1>5, <2>1, FS_CardinalityType, FS_EmptySet DEF Release
  <2>3. active - 1 \in Nat  BY <2>2 DEF LanesRespected
  <2> QED  BY <1>5, <2>3 DEF Release, DrainAfterRelease
<1>6. ASSUME NEW k \in Keys, DedupDelete(k) PROVE TypeOK'
  BY <1>6 DEF DedupDelete
<1>7. CASE DrainBegin  BY <1>7 DEF DrainBegin
<1>8. CASE DrainEnd  BY <1>8 DEF DrainEnd
<1>9. ASSUME NEW c \in Calls, DrainDrop(c) PROVE TypeOK'
  <2>1. BytesOf[c] \in Nat  OBVIOUS
  <2> QED  BY <1>9, <2>1 DEF DrainDrop, BytesAfterDrop, BytesAfterPop
<1>10. ASSUME NEW c \in Calls, DrainStart(c) PROVE TypeOK'
  <2>1. BytesOf[c] \in Nat  OBVIOUS
  <2> QED  BY <1>10, <2>1 DEF DrainStart, BytesAfterPop, ControllersOnStart, ActiveOnStart
<1>11. CASE CloseBegin  BY <1>11 DEF CloseBegin, HeapAfterClose
<1>12. CASE CloseAbort
  BY <1>12 DEF CloseAbort
<1>13. CASE CloseReturn  BY <1>13 DEF CloseReturn
<1>14. CASE UNCHANGED vars  BY <1>14 DEF vars
<1> QED
  BY <1>1, <1>2, <1>3, <1>4, <1>5, <1>6, <1>7, <1>8, <1>9, <1>10, <1>11, <1>12, <1>13, <1>14
     DEF Next, DrainStep

-----------------------------------------------------------------------------
LEMMA StatusStep == TypeOK /\ StatusInv /\ [Next]_vars => StatusInv'
<1> SUFFICES ASSUME TypeOK, StatusInv, [Next]_vars
             PROVE  StatusInv'
  OBVIOUS
<1> USE DEF TypeOK, StatusInv, Settled
<1>1. ASSUME NEW c \in Calls, Schedule(c) PROVE StatusInv'
  BY <1>1 DEF Schedule, ScheduleClosed, ScheduleJoin, ScheduleFull, ScheduleAccept
<1>2. ASSUME NEW c \in Calls, SignalAbort(c) \/ Cancel(c) PROVE StatusInv'
  BY <1>2 DEF SignalAbort, Cancel
<1>3. ASSUME NEW c \in Calls, Settle(c) PROVE StatusInv'
  BY <1>3 DEF Settle
<1>4. ASSUME NEW c \in Calls, Release(c) PROVE StatusInv'
  BY <1>4 DEF Release
<1>5. ASSUME NEW k \in Keys, DedupDelete(k) PROVE StatusInv'
  BY <1>5 DEF DedupDelete
<1>6. CASE DrainBegin \/ DrainEnd  BY <1>6 DEF DrainBegin, DrainEnd
<1>7. ASSUME NEW c \in Calls, DrainDrop(c) PROVE StatusInv'
  BY <1>7 DEF DrainDrop, IsNext
<1>8. ASSUME NEW c \in Calls, DrainStart(c) PROVE StatusInv'
  BY <1>8 DEF DrainStart, IsNext
<1>9. CASE CloseBegin  BY <1>9 DEF CloseBegin, HeapAfterClose
<1>10. CASE CloseAbort \/ CloseReturn  BY <1>10 DEF CloseAbort, CloseReturn
<1>11. CASE UNCHANGED vars  BY <1>11 DEF vars
<1> QED
  BY <1>1, <1>2, <1>3, <1>4, <1>5, <1>6, <1>7, <1>8, <1>9, <1>10, <1>11 DEF Next, DrainStep

LEMMA KeyStep == TypeOK /\ StatusInv /\ KeyInv /\ [Next]_vars => KeyInv'
<1> SUFFICES ASSUME TypeOK, StatusInv, KeyInv, [Next]_vars
             PROVE  KeyInv'
  OBVIOUS
<1> USE CallsAssumption DEF TypeOK, StatusInv, KeyInv, Settled
<1>1. ASSUME NEW c \in Calls, Schedule(c) PROVE KeyInv'
  <2>1. CASE ScheduleClosed(c) \/ ScheduleJoin(c) \/ ScheduleFull(c)
    BY <2>1 DEF ScheduleClosed, ScheduleJoin, ScheduleFull
  <2>2. CASE ScheduleAccept(c)
    <3> SUFFICES ASSUME NEW d \in Calls, KeyOf[d] # NoKey,
                        status'[d] \in {"queued", "executing"}
                 PROVE  dedup'[KeyOf[d]] = d
      OBVIOUS
    <3>1. KeyOf[d] \in Keys  OBVIOUS
    <3>2. CASE d = c  BY <2>2, <3>1, <3>2 DEF ScheduleAccept
    <3>3. CASE d # c
      <4>1. dedup[KeyOf[d]] = d  BY <2>2, <3>3 DEF ScheduleAccept
      <4>2. KeyOf[c] # KeyOf[d]  BY <2>2, <4>1 DEF ScheduleAccept, InFlight
      <4> QED  BY <2>2, <3>1, <4>1, <4>2 DEF ScheduleAccept
    <3> QED  BY <3>2, <3>3
  <2> QED  BY <1>1, <2>1, <2>2 DEF Schedule
<1>2. ASSUME NEW c \in Calls, SignalAbort(c) \/ Cancel(c) PROVE KeyInv'
  BY <1>2 DEF SignalAbort, Cancel
<1>3. ASSUME NEW c \in Calls, Settle(c) \/ Release(c) PROVE KeyInv'
  BY <1>3 DEF Settle, Release
<1>4. ASSUME NEW k \in Keys, DedupDelete(k) PROVE KeyInv'
  BY <1>4 DEF DedupDelete
<1>5. CASE DrainBegin \/ DrainEnd  BY <1>5 DEF DrainBegin, DrainEnd
<1>6. ASSUME NEW c \in Calls, DrainDrop(c) \/ DrainStart(c) PROVE KeyInv'
  BY <1>6 DEF DrainDrop, DrainStart, IsNext
<1>7. CASE CloseBegin  BY <1>7 DEF CloseBegin
<1>8. CASE CloseAbort \/ CloseReturn  BY <1>8 DEF CloseAbort, CloseReturn
<1>9. CASE UNCHANGED vars  BY <1>9 DEF vars
<1> QED
  BY <1>1, <1>2, <1>3, <1>4, <1>5, <1>6, <1>7, <1>8, <1>9 DEF Next, DrainStep

-----------------------------------------------------------------------------
\* The held calls, and the background calls among them, are finitely many.
LEMMA HeldFinite ==
  ASSUME TypeOK
  PROVE  /\ IsFiniteSet(held) /\ Cardinality(held) \in Nat
         /\ IsFiniteSet({c \in held : Background(c)})
         /\ Cardinality({c \in held : Background(c)}) \in Nat
         /\ Cardinality({c \in held : Background(c)}) =< Cardinality(held)
<1>1. IsFiniteSet(held)  BY CallsAssumption, FS_Subset DEF TypeOK
<1>2. {c \in held : Background(c)} \in SUBSET held  OBVIOUS
<1> QED  BY <1>1, <1>2, FS_Subset, FS_CardinalityType

LEMMA LanesStep == TypeOK /\ StatusInv /\ LanesRespected /\ [Next]_vars => LanesRespected'
<1> SUFFICES ASSUME TypeOK, StatusInv, LanesRespected, [Next]_vars
             PROVE  LanesRespected'
  OBVIOUS
<1> USE LimitsAssumption
<1> DEFINE BgHeld == {c \in held : Background(c)}
<1>0. /\ IsFiniteSet(held) /\ Cardinality(held) \in Nat
      /\ IsFiniteSet(BgHeld) /\ Cardinality(BgHeld) \in Nat
      /\ Cardinality(BgHeld) =< Cardinality(held)
  BY HeldFinite
<1>1. ASSUME NEW c \in Calls, Release(c) PROVE LanesRespected'
  <2>1. held' = held \ {c} /\ c \in held /\ active' = active - 1
    BY <1>1 DEF Release
  <2>2. Cardinality(held') = Cardinality(held) - 1
    BY <1>0, <2>1, FS_RemoveElement
  <2>3. (BgHeld)' \in SUBSET BgHeld  BY <2>1 DEF Background
  <2>4. Cardinality((BgHeld)') =< Cardinality(BgHeld) /\ Cardinality((BgHeld)') \in Nat
    BY <1>0, <2>3, FS_Subset, FS_CardinalityType
  <2> QED  BY <1>0, <2>1, <2>2, <2>4 DEF LanesRespected
<1>2. ASSUME NEW c \in Calls, DrainStart(c) PROVE LanesRespected'
  <2>1. held' = held \cup {c} /\ active' = active + 1 /\ active < MaxActiveTasks
    BY <1>2 DEF DrainStart, ActiveOnStart, DrainBlocked, TypeOK
  <2>2. c \notin held
    BY <1>2 DEF DrainStart, IsNext, StatusInv, TypeOK
  <2>3. Cardinality(held') = Cardinality(held) + 1
    BY <1>0, <2>1, <2>2, FS_AddElement
  <2>4. CASE Background(c)
    <3>1. (BgHeld)' = BgHeld \cup {c}  BY <2>1, <2>4 DEF Background
    <3>2. Cardinality((BgHeld)') = Cardinality(BgHeld) + 1
      BY <1>0, <2>2, <3>1, FS_AddElement
    <3>3. ~LaneReserved(c)  BY <1>2 DEF DrainStart, DrainBlocked, IsNext
    <3>4. MaxActiveTasks > 1 => active < MaxActiveTasks - 1
      BY <2>4, <3>3 DEF LaneReserved, TypeOK
    <3> QED  BY <1>0, <2>1, <2>3, <3>2, <3>4 DEF LanesRespected
  <2>5. CASE ~Background(c)
    <3>1. (BgHeld)' = BgHeld  BY <2>1, <2>5 DEF Background
    <3>2. Cardinality((BgHeld)') = Cardinality(BgHeld)  BY <3>1
    <3> QED  BY <1>0, <2>1, <2>3, <3>2 DEF LanesRespected
  <2> QED  BY <2>4, <2>5
<1>3. CASE UNCHANGED <<active, held>>
  BY <1>3 DEF LanesRespected, Background
<1>4. UNCHANGED <<active, held>>
      \/ \E c \in Calls : Release(c) \/ DrainStart(c)
  BY DEF Next, vars, DrainStep, Schedule, ScheduleClosed, ScheduleJoin, ScheduleFull,
         ScheduleAccept, SignalAbort, Cancel, Settle, DedupDelete, DrainBegin, DrainEnd,
         DrainDrop, CloseBegin, CloseAbort, CloseReturn
<1> QED  BY <1>1, <1>2, <1>3, <1>4

LEMMA WakeupStep == TypeOK /\ NoLostWakeup /\ [Next]_vars => NoLostWakeup'
<1> SUFFICES ASSUME TypeOK, NoLostWakeup, [Next]_vars,
                    (Idle /\ ~drainQueued /\ heap # {})'
             PROVE  \/ active' >= MaxActiveTasks
                    \/ \E c \in heap' : IsNext(c)' /\ LaneReserved(c)'
  BY DEF NoLostWakeup
<1>1. CASE DrainEnd
  BY <1>1 DEF DrainEnd, DrainBlocked, IsNext, Before, LaneReserved, Background
<1>2. UNCHANGED <<heap, seq, active, draining, drainQueued>> \/ DrainEnd
  BY DEF Idle, Next, vars, DrainStep, Schedule, ScheduleClosed, ScheduleJoin, ScheduleFull,
         ScheduleAccept, WakeDrain, SignalAbort, Cancel, Settle, Release, DrainAfterRelease,
         DedupDelete, DrainBegin, DrainDrop, DrainStart, CloseBegin, HeapAfterClose,
         CloseAbort, CloseReturn
<1>3. CASE UNCHANGED <<heap, seq, active, draining, drainQueued>>
  BY <1>3 DEF NoLostWakeup, Idle, IsNext, Before, LaneReserved, Background
<1> QED  BY <1>1, <1>2, <1>3

-----------------------------------------------------------------------------
LEMMA InductiveInit == Init => SchedulerIInv
<1> SUFFICES ASSUME Init PROVE SchedulerIInv
  OBVIOUS
<1>1. TypeOK  BY TypeInit
<1>2. StatusInv /\ KeyInv /\ NoLostWakeup
  BY DEF Init, StatusInv, KeyInv, NoLostWakeup
<1>3. held = {} /\ {c \in held : Background(c)} = {}  BY DEF Init
<1>4. LanesRespected
  BY <1>3, FS_EmptySet, LimitsAssumption DEF Init, LanesRespected
<1> QED  BY <1>1, <1>2, <1>4 DEF SchedulerIInv

LEMMA InductiveStep == SchedulerIInv /\ [Next]_vars => SchedulerIInv'
  BY TypeStep, StatusStep, KeyStep, LanesStep, WakeupStep DEF SchedulerIInv

LEMMA InductiveInvariant == Spec => []SchedulerIInv
  BY InductiveInit, InductiveStep, PTL DEF Spec

-----------------------------------------------------------------------------
\* Every variable keeps its type, whatever the calls and the limits.
THEOREM TypeCorrect == Spec => []TypeOK
  BY InductiveInvariant, PTL DEF SchedulerIInv

\* #active counts the lanes in use, stays within maxActiveTasks, and background
\* work never takes the last lane (#drain, scheduler.ts:303-337).
THEOREM LanesAlwaysRespected == Spec => []LanesRespected
  BY InductiveInvariant, PTL DEF SchedulerIInv

\* A drain that stops early stops because of a lane whose release drains again.
THEOREM WakeupNeverLost == Spec => []NoLostWakeup
  BY InductiveInvariant, PTL DEF SchedulerIInv

\* No two calls with one deduplication key are ever live together.
THEOREM SingleFlightAlways == Spec => []SingleFlight
<1>1. SchedulerIInv => SingleFlight
  BY DEF SchedulerIInv, TypeOK, KeyInv, SingleFlight
<1> QED  BY <1>1, InductiveInvariant, PTL

\* The reserved lane does its work: interactive entries that still wait after a
\* drain wait behind a held interactive call, never behind background work only.
THEOREM InteractiveLaneWorks == Spec => []InteractiveWaitsForInteractive
<1>1. ASSUME SchedulerIInv PROVE InteractiveWaitsForInteractive
  <2> SUFFICES ASSUME MaxActiveTasks > 1, Idle, ~drainQueued,
                      NEW u \in heap, ~Background(u),
                      \A c \in held : Background(c)
               PROVE  FALSE
    BY DEF InteractiveWaitsForInteractive
  <2> USE CallsAssumption, LimitsAssumption
  <2>1. TypeOK /\ LanesRespected /\ NoLostWakeup  BY <1>1 DEF SchedulerIInv
  <2>2. {c \in held : Background(c)} = held  OBVIOUS
  <2>3. active =< MaxActiveTasks - 1  BY <2>1, <2>2 DEF LanesRespected
  <2>4. ~(active >= MaxActiveTasks)  BY <2>1, <2>3 DEF TypeOK
  <2>5. PICK c \in heap : IsNext(c) /\ LaneReserved(c)
    BY <2>1, <2>4 DEF NoLostWakeup
  <2>6. Background(c) /\ c # u  BY <2>5 DEF LaneReserved
  <2>7. Before(c, u)  BY <2>5, <2>6 DEF IsNext
  <2>8. PriorityOf[c] \in Nat /\ PriorityOf[u] \in Nat  BY <2>1 DEF TypeOK
  <2>9. PriorityOf[c] >= PriorityOf[u]  BY <2>7, <2>8 DEF Before
  <2> QED  BY <2>6, <2>8, <2>9 DEF Background, UserRequested
<1> QED  BY <1>1, InductiveInvariant, PTL

\* Together: whoever waits once a drain is over waits for a lane that will be released and
\* drained again, an interactive call never behind background work only, and no two calls of
\* one key run.
THEOREM CallsAlwaysServed == Spec => []CallsAreServed
<1>1. CallsAreServed <=> NoLostWakeup /\ InteractiveWaitsForInteractive /\ SingleFlight  BY DEF CallsAreServed
<1> QED  BY <1>1, WakeupNeverLost, InteractiveLaneWorks, SingleFlightAlways, PTL

-----------------------------------------------------------------------------
\* The calls of one task id are one call: then a controller is that of its call.
DistinctIds == \A c, d \in Calls : IdOf[c] = IdOf[d] => c = d

\* The bytes of a set of calls with one more, or one less.
LEMMA BytesFinite ==
  ASSUME NEW S \in SUBSET Calls
  PROVE  IsFiniteSet(S) /\ IsFiniteSet(BytesIn(S)) /\ Cardinality(BytesIn(S)) \in Nat
<1>1. IsFiniteSet(S) /\ \A c \in S : BytesOf[c] \in Nat  BY CallsAssumption, FS_Subset
<1>2. BytesIn(S) = Units(S, BytesOf)  BY DEF BytesIn, Units
<1> QED  BY <1>1, <1>2, UnitsFinite

LEMMA BytesWithOneMore ==
  ASSUME NEW S \in SUBSET Calls, NEW c \in Calls, c \notin S
  PROVE  Cardinality(BytesIn(S \cup {c})) = Cardinality(BytesIn(S)) + BytesOf[c]
<1>1. IsFiniteSet(S) /\ \A d \in S \cup {c} : BytesOf[d] \in Nat  BY CallsAssumption, FS_Subset
<1>2. BytesIn(S) = Units(S, BytesOf) /\ BytesIn(S \cup {c}) = Units(S \cup {c}, BytesOf)
  BY DEF BytesIn, Units
<1> QED  BY <1>1, <1>2, UnitsWithOneMore

LEMMA BytesWithOneLess ==
  ASSUME NEW S \in SUBSET Calls, NEW c \in S
  PROVE  /\ Cardinality(BytesIn(S)) = Cardinality(BytesIn(S \ {c})) + BytesOf[c]
         /\ Cardinality(BytesIn(S \ {c})) \in Nat
<1>1. S = (S \ {c}) \cup {c} /\ S \ {c} \in SUBSET Calls /\ c \in Calls /\ c \notin S \ {c}
  OBVIOUS
<1>2. Cardinality(BytesIn((S \ {c}) \cup {c})) = Cardinality(BytesIn(S \ {c})) + BytesOf[c]
  BY <1>1, BytesWithOneMore
<1> QED  BY <1>1, <1>2, BytesFinite

\* The queued calls, and the background calls among them, are finitely many.
LEMMA HeapFinite ==
  ASSUME TypeOK
  PROVE  /\ IsFiniteSet(heap) /\ Cardinality(heap) \in Nat
         /\ IsFiniteSet({c \in heap : Background(c)})
         /\ Cardinality({c \in heap : Background(c)}) \in Nat
<1>1. IsFiniteSet(heap)  BY CallsAssumption, FS_Subset DEF TypeOK
<1>2. {c \in heap : Background(c)} \in SUBSET heap  OBVIOUS
<1> QED  BY <1>1, <1>2, FS_Subset, FS_CardinalityType

\* The share of background entries is a number of at least one.
LEMMA BackgroundShare == BackgroundTaskLimit \in Int /\ BackgroundTaskLimit >= 1
<1> DEFINE share == (4 * MaxQueuedTasks) \div 5
<1>1. share \in Int  BY LimitsAssumption
<1>2. \E x \in {1, share} : \A y \in {1, share} : x >= y  BY <1>1
<1>3. Max({1, share}) \in {1, share} /\ \A y \in {1, share} : Max({1, share}) >= y
  BY <1>2 DEF Max
<1> HIDE DEF share
<1>4. Max({1, share}) \in Int /\ Max({1, share}) >= 1  BY <1>1, <1>3
<1> QED  BY <1>4 DEF BackgroundTaskLimit, share

\* A queue that loses entries stays within its limits.
LEMMA SmallerQueue ==
  ASSUME TypeOK, QueueWithinLimits, heap' \subseteq heap
  PROVE  /\ Cardinality(heap') =< MaxQueuedTasks
         /\ Cardinality({c \in heap' : Background(c)}) =< BackgroundTaskLimit
<1> USE LimitsAssumption
<1> DEFINE all == {c \in heap : Background(c)}
           left == {c \in heap' : Background(c)}
<1>1. heap' \in SUBSET heap /\ left \in SUBSET all  OBVIOUS
<1>2. /\ IsFiniteSet(heap) /\ Cardinality(heap) \in Nat
      /\ IsFiniteSet(all) /\ Cardinality(all) \in Nat
  BY HeapFinite
<1>3. Cardinality(heap) =< MaxQueuedTasks /\ Cardinality(all) =< BackgroundTaskLimit
  BY DEF QueueWithinLimits
<1>4. /\ Cardinality(heap') =< Cardinality(heap) /\ Cardinality(heap') \in Nat
      /\ Cardinality(left) =< Cardinality(all) /\ Cardinality(left) \in Nat
  <2> HIDE DEF all, left
  <2> QED  BY <1>1, <1>2, FS_Subset, FS_CardinalityType
<1> HIDE DEF all, left
<1> QED  BY <1>2, <1>3, <1>4, BackgroundShare DEF left

LEMMA QueueStep == TypeOK /\ StatusInv /\ QueueWithinLimits /\ [Next]_vars => QueueWithinLimits'
<1> SUFFICES ASSUME TypeOK, StatusInv, QueueWithinLimits, [Next]_vars
             PROVE  QueueWithinLimits'
  OBVIOUS
<1> USE CallsAssumption, LimitsAssumption
<1>1. ASSUME NEW c \in Calls, ScheduleAccept(c) PROVE QueueWithinLimits'
  <2> DEFINE all == {d \in heap : Background(d)}
  <2>1. heap' = heap \cup {c} /\ queuedBytes' = queuedBytes + BytesOf[c] /\ closing' = closing
    BY <1>1 DEF ScheduleAccept
  <2>2. c \notin heap  BY <1>1 DEF ScheduleAccept, StatusInv, TypeOK
  <2>3. /\ IsFiniteSet(heap) /\ Cardinality(heap) \in Nat
        /\ IsFiniteSet(all) /\ Cardinality(all) \in Nat
    BY HeapFinite
  <2>4. RoomFor(c)  BY <1>1 DEF ScheduleAccept
  <2>5. Cardinality(heap') = Cardinality(heap) + 1  BY <2>1, <2>2, <2>3, FS_AddElement
  <2>6. Cardinality(heap') =< MaxQueuedTasks  BY <2>3, <2>4, <2>5 DEF RoomFor
  <2>7. Cardinality({d \in heap' : Background(d)}) =< BackgroundTaskLimit
    <3>1. CASE Background(c)
      <4>1. {d \in heap' : Background(d)} = all \cup {c}  BY <2>1, <3>1
      <4>2. Cardinality(all \cup {c}) = Cardinality(all) + 1
        BY <2>2, <2>3, FS_AddElement
      <4>3. all \in SUBSET heap  OBVIOUS
      <4>4. Cardinality(all) =< Cardinality(heap)  BY <2>3, <4>3, FS_Subset
      <4>5. Cardinality(heap) < BackgroundTaskLimit  BY <2>4, <3>1 DEF RoomFor
      <4> HIDE DEF all
      <4>6. Cardinality(all) + 1 =< BackgroundTaskLimit
        BY <2>3, <4>4, <4>5, BackgroundShare
      <4> QED  BY <4>1, <4>2, <4>6
    <3>2. CASE ~Background(c)
      <4>1. {d \in heap' : Background(d)} = all  BY <2>1, <3>2
      <4> QED  BY <4>1 DEF QueueWithinLimits
    <3> QED  BY <3>1, <3>2
  <2>8. ASSUME closing' = "open"
        PROVE  queuedBytes' =< MaxQueuedBytes /\ queuedBytes' = Cardinality(BytesIn(heap'))
    <3>1. queuedBytes = Cardinality(BytesIn(heap))  BY <2>1, <2>8 DEF QueueWithinLimits
    <3>2. Cardinality(BytesIn(heap \cup {c})) = Cardinality(BytesIn(heap)) + BytesOf[c]
      BY <2>2, BytesWithOneMore DEF TypeOK
    <3> QED  BY <2>1, <2>4, <3>1, <3>2 DEF RoomFor
  <2> QED  BY <2>6, <2>7, <2>8 DEF QueueWithinLimits, Background
<1>2. ASSUME NEW c \in Calls, DrainDrop(c) \/ DrainStart(c) PROVE QueueWithinLimits'
  <2>1. c \in heap /\ heap' = heap \ {c} /\ queuedBytes' = queuedBytes - BytesOf[c] /\ closing' = closing
    BY <1>2 DEF DrainDrop, DrainStart, IsNext, BytesAfterDrop, BytesAfterPop
  <2>2. /\ Cardinality(BytesIn(heap)) = Cardinality(BytesIn(heap \ {c})) + BytesOf[c]
        /\ Cardinality(BytesIn(heap \ {c})) \in Nat
    BY <2>1, BytesWithOneLess DEF TypeOK
  <2>3. ASSUME closing' = "open"
        PROVE  queuedBytes' =< MaxQueuedBytes /\ queuedBytes' = Cardinality(BytesIn(heap'))
    <3>1. queuedBytes = Cardinality(BytesIn(heap)) /\ queuedBytes =< MaxQueuedBytes
      BY <2>1, <2>3 DEF QueueWithinLimits
    <3>2. BytesOf[c] \in Nat  OBVIOUS
    <3> QED  BY <2>1, <2>2, <3>1, <3>2
  <2> QED  BY <2>1, <2>3, SmallerQueue DEF QueueWithinLimits, Background
<1>3. CASE CloseBegin
  <2>1. heap' \subseteq heap /\ closing' # "open"  BY <1>3 DEF CloseBegin, HeapAfterClose
  <2> QED  BY <2>1, SmallerQueue DEF QueueWithinLimits, Background
<1>4. CASE UNCHANGED <<heap, queuedBytes>> /\ (closing' = "open" => closing = "open")
  BY <1>4 DEF QueueWithinLimits, Background
<1>5. \/ UNCHANGED <<heap, queuedBytes>> /\ (closing' = "open" => closing = "open")
      \/ CloseBegin
      \/ \E c \in Calls : ScheduleAccept(c) \/ DrainDrop(c) \/ DrainStart(c)
  BY DEF Next, vars, DrainStep, Schedule, ScheduleClosed, ScheduleJoin, ScheduleFull,
         SignalAbort, Cancel, Settle, Release, DedupDelete, DrainBegin, DrainEnd,
         CloseAbort, CloseReturn
<1> QED  BY <1>1, <1>2, <1>3, <1>4, <1>5

-----------------------------------------------------------------------------
\* A live call has its controller registered under its id.
ControllerInv ==
    \A c \in Calls : status[c] \in {"queued", "executing"} => controllers[IdOf[c]] = c

LEMMA ControllerStep ==
  DistinctIds /\ TypeOK /\ StatusInv /\ ControllerInv /\ [Next]_vars => ControllerInv'
<1> SUFFICES ASSUME DistinctIds, TypeOK, StatusInv, ControllerInv, [Next]_vars
             PROVE  ControllerInv'
  OBVIOUS
<1> USE DEF DistinctIds, TypeOK, StatusInv, ControllerInv, Settled
<1>1. ASSUME NEW c \in Calls, Schedule(c) PROVE ControllerInv'
  BY <1>1 DEF Schedule, ScheduleClosed, ScheduleJoin, ScheduleFull, ScheduleAccept
<1>2. ASSUME NEW c \in Calls, SignalAbort(c) \/ Cancel(c) \/ Settle(c) PROVE ControllerInv'
  BY <1>2 DEF SignalAbort, Cancel, Settle
<1>3. ASSUME NEW c \in Calls, Release(c) PROVE ControllerInv'
  BY <1>3 DEF Release
<1>4. ASSUME NEW c \in Calls, DrainDrop(c) \/ DrainStart(c) PROVE ControllerInv'
  BY <1>4 DEF DrainDrop, DrainStart, IsNext, ControllersOnStart
<1>5. CASE CloseBegin
  BY <1>5 DEF CloseBegin, HeapAfterClose
<1>6. CASE UNCHANGED <<status, controllers>>  BY <1>6
<1>7. \/ UNCHANGED <<status, controllers>> \/ CloseBegin
      \/ \E c \in Calls : \/ Schedule(c) \/ SignalAbort(c) \/ Cancel(c) \/ Settle(c) \/ Release(c)
                         \/ DrainDrop(c) \/ DrainStart(c)
  BY DEF Next, vars, DrainStep, DedupDelete, DrainBegin, DrainEnd, CloseAbort, CloseReturn
<1> QED  BY <1>1, <1>2, <1>3, <1>4, <1>5, <1>6, <1>7

LEMMA CloseStep ==
  TypeOK /\ StatusInv /\ ControllerInv /\ CloseReachesEveryTask /\ [Next]_vars
    => CloseReachesEveryTask'
<1> SUFFICES ASSUME TypeOK, StatusInv, ControllerInv, CloseReachesEveryTask, [Next]_vars
             PROVE  CloseReachesEveryTask'
  OBVIOUS
<1> USE DEF TypeOK, CloseReachesEveryTask
<1>1. ASSUME NEW c \in Calls, Schedule(c) PROVE CloseReachesEveryTask'
  BY <1>1 DEF Schedule, ScheduleClosed, ScheduleJoin, ScheduleFull, ScheduleAccept
<1>2. ASSUME NEW c \in Calls, SignalAbort(c) \/ Cancel(c) \/ Settle(c) \/ Release(c)
      PROVE  CloseReachesEveryTask'
  BY <1>2 DEF SignalAbort, Cancel, Settle, Release
<1>3. ASSUME NEW c \in Calls, DrainDrop(c) \/ DrainStart(c) PROVE CloseReachesEveryTask'
  BY <1>3 DEF DrainDrop, DrainStart, IsNext
<1>4. CASE CloseBegin
  BY <1>4 DEF CloseBegin, HeapAfterClose
<1>5. CASE CloseAbort
  <2>1. \A c \in held : status[c] = "executing" => c \in aborted'
    <3> SUFFICES ASSUME NEW c \in held, status[c] = "executing" PROVE c \in aborted'
      OBVIOUS
    <3>1. controllers[IdOf[c]] = c /\ IdOf[c] \in DOMAIN controllers  BY DEF ControllerInv
    <3>2. c # NoCall  BY CallsAssumption
    <3> QED  BY <1>5, <3>1, <3>2 DEF CloseAbort
  <2> QED  BY <1>5, <2>1 DEF CloseAbort
<1>6. CASE CloseReturn  BY <1>6 DEF CloseReturn
<1>7. CASE UNCHANGED <<heap, held, status, aborted, closing>>  BY <1>7
<1>8. \/ UNCHANGED <<heap, held, status, aborted, closing>> \/ CloseBegin \/ CloseAbort \/ CloseReturn
      \/ \E c \in Calls : \/ Schedule(c) \/ SignalAbort(c) \/ Cancel(c) \/ Settle(c) \/ Release(c)
                         \/ DrainDrop(c) \/ DrainStart(c)
  BY DEF Next, vars, DrainStep, DedupDelete, DrainBegin, DrainEnd
<1> QED  BY <1>1, <1>2, <1>3, <1>4, <1>5, <1>6, <1>7, <1>8

LEMMA QueueLimitsInit == Init => QueueWithinLimits
<1> SUFFICES ASSUME Init PROVE QueueWithinLimits
  OBVIOUS
<1>1. heap = {} /\ {c \in heap : Background(c)} = {} /\ BytesIn(heap) = {}
  BY DEF Init, BytesIn
<1>2. Cardinality(heap) = 0 /\ Cardinality({c \in heap : Background(c)}) = 0
      /\ Cardinality(BytesIn(heap)) = 0
  BY <1>1, FS_EmptySet
<1> QED  BY <1>2, LimitsAssumption, BackgroundShare DEF Init, QueueWithinLimits

\* #queuedBytes is the sum of the queued entries, and the queue stays within its
\* limits, whatever the ids of the tasks are (#enqueue and #drain).
THEOREM QueueAlwaysWithinLimits == Spec => []QueueWithinLimits
<1>1. SchedulerIInv /\ QueueWithinLimits /\ [Next]_vars => (SchedulerIInv /\ QueueWithinLimits)'
  BY InductiveStep, QueueStep DEF SchedulerIInv
<1> QED  BY <1>1, InductiveInit, QueueLimitsInit, PTL DEF Spec

\* The limits hold and close() reaches every task that runs, whichever way tasks
\* leave the queue and the lanes (schedule, #drain and close, scheduler.ts:190-337).
THEOREM LimitsAlwaysHold ==
  ASSUME DistinctIds
  PROVE  Spec => []LimitsHold
<1> DEFINE Inv == SchedulerIInv /\ QueueWithinLimits /\ ControllerInv /\ CloseReachesEveryTask
<1>1. Init => Inv
  <2> SUFFICES ASSUME Init PROVE Inv
    OBVIOUS
  <2>1. ControllerInv /\ CloseReachesEveryTask
    BY DEF Init, ControllerInv, CloseReachesEveryTask
  <2> QED  BY <2>1, QueueLimitsInit, InductiveInit
<1>2. Inv /\ [Next]_vars => Inv'
  BY InductiveStep, QueueStep, ControllerStep, CloseStep DEF SchedulerIInv
<1>3. Inv => LimitsHold  BY DEF SchedulerIInv, LimitsHold
<1> QED  BY <1>1, <1>2, <1>3, PTL DEF Spec

-----------------------------------------------------------------------------
(* BackgroundQueue. *)

\* Exactly the pending jobs are in the queues, each once, within the limit.
PlacesInv ==
    /\ freshQueue \in Seq(Jobs \cap Fresh) /\ normalQueue \in Seq(Jobs \ Fresh)
    /\ PendingAreQueued /\ OnePendingPerKey

\* Backlog waits while the burst counter grows, which is at least what passed it over.
BurstInv ==
    /\ freshSelections \in Nat /\ passedOver \in 0..freshSelections
    /\ BoundedFairness

\* The runners are not too many, until the queue drains.
RunnersInv == drain = "none" => IsFiniteSet(Running) /\ Cardinality(Running) <= MaxConcurrency

QueueIInv ==
    /\ jobStatus \in [Jobs -> {"new", "queued", "running"} \cup Ended]
    /\ pumping \in BOOLEAN /\ drain \in {"none", "waiting", "done"}
    /\ PlacesInv /\ BurstInv /\ RunnersInv

\* A queue that takes a job which is in neither, and which shares its key with no pending one.
LEMMA PlacesWithOneMore ==
    ASSUME NEW fresh \in Seq(Jobs \cap Fresh), NEW normal \in Seq(Jobs \ Fresh),
           IsInjective(fresh), IsInjective(normal), NEW j \in Jobs,
           j \notin ToSet(fresh) \cup ToSet(normal),
           freshQueue' = IF GoesToFresh(j) THEN Append(fresh, j) ELSE fresh,
           normalQueue' = IF GoesToFresh(j) THEN normal ELSE Append(normal, j)
    PROVE  /\ freshQueue' \in Seq(Jobs \cap Fresh) /\ normalQueue' \in Seq(Jobs \ Fresh)
           /\ IsInjective(freshQueue') /\ IsInjective(normalQueue')
           /\ ToSet(freshQueue') \cup ToSet(normalQueue') = ToSet(fresh) \cup ToSet(normal) \cup {j}
           /\ Len(freshQueue') + Len(normalQueue') = Len(fresh) + Len(normal) + 1
<1>0. Len(fresh) \in Nat /\ Len(normal) \in Nat  BY LenProperties
<1>1. CASE j \in Fresh
  <2>1. /\ Append(fresh, j) \in Seq(Jobs \cap Fresh) /\ IsInjective(Append(fresh, j))
        /\ ToSet(Append(fresh, j)) = ToSet(fresh) \cup {j}
        /\ Len(Append(fresh, j)) = Len(fresh) + 1
    BY <1>1, QueueLonger
  <2> QED  BY <1>0, <1>1, <2>1 DEF GoesToFresh
<1>2. CASE j \notin Fresh
  <2>1. /\ Append(normal, j) \in Seq(Jobs \ Fresh) /\ IsInjective(Append(normal, j))
        /\ ToSet(Append(normal, j)) = ToSet(normal) \cup {j}
        /\ Len(Append(normal, j)) = Len(normal) + 1
    BY <1>2, QueueLonger
  <2> QED  BY <1>0, <1>2, <2>1 DEF GoesToFresh
<1> QED  BY <1>1, <1>2

LEMMA LengthsAreNumbers ==
    ASSUME PlacesInv
    PROVE  /\ Len(freshQueue) \in Nat /\ Len(normalQueue) \in Nat /\ PendingCount \in Nat
           /\ ToSet(freshQueue) \subseteq Jobs \cap Fresh /\ ToSet(normalQueue) \subseteq Jobs \ Fresh
           /\ freshQueue # <<>> <=> Len(freshQueue) > 0
           /\ normalQueue # <<>> <=> Len(normalQueue) > 0
<1>1. freshQueue \in Seq(Jobs \cap Fresh) /\ normalQueue \in Seq(Jobs \ Fresh)  BY DEF PlacesInv
<1>2. Len(freshQueue) \in Nat /\ Len(normalQueue) \in Nat  BY <1>1, LenProperties
<1>3. (freshQueue # <<>> => Len(freshQueue) # 0) /\ (normalQueue # <<>> => Len(normalQueue) # 0)
  BY <1>1, QueueFacts
<1>4. Len(<<>>) = 0  OBVIOUS
<1>5. ToSet(freshQueue) \subseteq Jobs \cap Fresh /\ ToSet(normalQueue) \subseteq Jobs \ Fresh
  BY <1>1, QueueFacts DEF ToSet
<1> QED  BY <1>2, <1>3, <1>4, <1>5 DEF PendingCount

-----------------------------------------------------------------------------
LEMMA CoalescedHolds == ASSUME QueueIInv, NEW j \in Jobs, EnqueueCoalesced(j) PROVE QueueIInv'
<1> USE DEF QueueIInv
<1>1. PICK i \in Jobs :
        /\ FindCoalesced(i, j)
        /\ jobStatus' = [jobStatus EXCEPT ![i] = "replaced", ![j] = "queued"]
        /\ freshQueue' = IF GoesToFresh(j) THEN Append(Without(freshQueue, i), j)
                                        ELSE Without(freshQueue, i)
        /\ normalQueue' = IF GoesToFresh(j) THEN Without(normalQueue, i)
                                         ELSE Append(Without(normalQueue, i), j)
  BY DEF EnqueueCoalesced
<1>2. i \in Pending /\ j \notin Pending /\ i # j /\ jobStatus[j] = "new"
      /\ UNCHANGED <<freshSelections, pumping, drain, passedOver>>
  BY <1>1 DEF FindCoalesced, Pending, EnqueueCoalesced
<1>3. Pending' = (Pending \ {i}) \cup {j} /\ Running' = Running
  BY <1>1, <1>2 DEF Pending, Running
<1> DEFINE fresh == Without(freshQueue, i)
           normal == Without(normalQueue, i)
<1>4. /\ freshQueue \in Seq(Jobs \cap Fresh) /\ normalQueue \in Seq(Jobs \ Fresh)
      /\ IsInjective(freshQueue) /\ IsInjective(normalQueue)
      /\ ToSet(freshQueue) \cup ToSet(normalQueue) = Pending
      /\ Len(freshQueue) + Len(normalQueue) <= MaxQueueLength
  BY DEF PlacesInv, PendingAreQueued, PendingCount
<1>5. /\ fresh \in Seq(Jobs \cap Fresh) /\ IsInjective(fresh) /\ ToSet(fresh) = ToSet(freshQueue) \ {i}
      /\ Len(fresh) = IF i \in ToSet(freshQueue) THEN Len(freshQueue) - 1 ELSE Len(freshQueue)
  BY <1>4, QueueWithout
<1>6. /\ normal \in Seq(Jobs \ Fresh) /\ IsInjective(normal) /\ ToSet(normal) = ToSet(normalQueue) \ {i}
      /\ Len(normal) = IF i \in ToSet(normalQueue) THEN Len(normalQueue) - 1 ELSE Len(normalQueue)
  BY <1>4, QueueWithout
<1>7. /\ freshQueue' = IF GoesToFresh(j) THEN Append(fresh, j) ELSE fresh
      /\ normalQueue' = IF GoesToFresh(j) THEN normal ELSE Append(normal, j)
  BY <1>1
<1> HIDE DEF fresh, normal
<1>8. j \notin ToSet(fresh) \cup ToSet(normal)  BY <1>2, <1>4, <1>5, <1>6
<1>9. /\ freshQueue' \in Seq(Jobs \cap Fresh) /\ normalQueue' \in Seq(Jobs \ Fresh)
      /\ IsInjective(freshQueue') /\ IsInjective(normalQueue')
      /\ ToSet(freshQueue') \cup ToSet(normalQueue') = ToSet(fresh) \cup ToSet(normal) \cup {j}
      /\ Len(freshQueue') + Len(normalQueue') = Len(fresh) + Len(normal) + 1
  BY <1>5, <1>6, <1>7, <1>8, PlacesWithOneMore
<1>10. ToSet(freshQueue') \cup ToSet(normalQueue') = Pending'
  BY <1>3, <1>4, <1>5, <1>6, <1>9
<1>11. Len(freshQueue') + Len(normalQueue') <= MaxQueueLength
  <2>1. i \in ToSet(freshQueue) \/ i \in ToSet(normalQueue)  BY <1>2, <1>4
  <2>2. Len(freshQueue) \in Nat /\ Len(normalQueue) \in Nat /\ MaxQueueLength \in Nat
    BY LengthsAreNumbers, QueueAssumption
  <2>3. Len(fresh) + Len(normal) + 1 <= Len(freshQueue) + Len(normalQueue)
    <3>1. Len(fresh) <= Len(freshQueue) /\ (i \in ToSet(freshQueue) => Len(fresh) <= Len(freshQueue) - 1)
      BY <1>5, <2>2
    <3>2. Len(normal) <= Len(normalQueue) /\ (i \in ToSet(normalQueue) => Len(normal) <= Len(normalQueue) - 1)
      BY <1>6, <2>2
    <3>3. Len(fresh) \in Nat /\ Len(normal) \in Nat  BY <1>5, <1>6, LenProperties
    <3> QED  BY <2>1, <2>2, <3>1, <3>2, <3>3
  <2> QED  BY <1>4, <1>9, <2>2, <2>3
<1>12. OnePendingPerKey'
  <2>1. CoalesceKey[j] # NoCoalesceKey /\ CoalesceKey[i] = CoalesceKey[j]
    BY <1>1 DEF FindCoalesced, Coalesces
  <2> QED  BY <1>2, <1>3, <2>1 DEF PlacesInv, OnePendingPerKey
<1>13. PlacesInv'
  BY <1>9, <1>10, <1>11, <1>12 DEF PlacesInv, PendingAreQueued, PendingCount, ToSet, IsInjective
<1> QED
  BY <1>1, <1>2, <1>3, <1>13 DEF BurstInv, BoundedFairness, RunnersInv, Ended

LEMMA NewHolds == ASSUME QueueIInv, NEW j \in Jobs, EnqueueNew(j) PROVE QueueIInv'
<1> USE DEF QueueIInv
<1> DEFINE dropped == IF Full THEN {Victim} ELSE {}
           fresh == IF Full /\ Victim \in Fresh THEN Tail(freshQueue) ELSE freshQueue
           normal == IF Full /\ Victim \notin Fresh THEN Tail(normalQueue) ELSE normalQueue
<1>1. /\ jobStatus' = [i \in Jobs |-> IF i = j THEN "queued"
                                      ELSE IF i \in dropped THEN "dropped" ELSE jobStatus[i]]
      /\ freshQueue' = IF GoesToFresh(j) THEN Append(fresh, j) ELSE fresh
      /\ normalQueue' = IF GoesToFresh(j) THEN normal ELSE Append(normal, j)
      /\ jobStatus[j] = "new" /\ pumping' = TRUE /\ UNCHANGED <<freshSelections, drain, passedOver>>
  BY DEF EnqueueNew
<1>2. \A i \in Pending : CoalesceKey[j] = NoCoalesceKey \/ CoalesceKey[i] # CoalesceKey[j]
  BY DEF EnqueueNew, FindCoalesced, Coalesces, Pending
<1>3. /\ freshQueue \in Seq(Jobs \cap Fresh) /\ normalQueue \in Seq(Jobs \ Fresh)
      /\ IsInjective(freshQueue) /\ IsInjective(normalQueue)
      /\ ToSet(freshQueue) \cup ToSet(normalQueue) = Pending
      /\ PendingCount <= MaxQueueLength
  BY DEF PlacesInv, PendingAreQueued
<1>4. MaxQueueLength \in Nat \ {0}  BY QueueAssumption
<1>5. CASE ~Full
  <2>1. Pending' = Pending \cup {j} /\ Running' = Running /\ j \notin Pending
    BY <1>1, <1>5 DEF Pending, Running
  <2>2. fresh = freshQueue /\ normal = normalQueue  BY <1>5
  <2>3. /\ freshQueue' \in Seq(Jobs \cap Fresh) /\ normalQueue' \in Seq(Jobs \ Fresh)
        /\ IsInjective(freshQueue') /\ IsInjective(normalQueue')
        /\ ToSet(freshQueue') \cup ToSet(normalQueue') = Pending'
        /\ Len(freshQueue') + Len(normalQueue') = PendingCount + 1
    <3> HIDE DEF fresh, normal
    <3> QED  BY <1>1, <1>3, <2>1, <2>2, PlacesWithOneMore DEF PendingCount
  <2>4. PendingCount' <= MaxQueueLength
    BY <1>4, <1>5, <2>3, LengthsAreNumbers DEF PendingCount, Full
  <2>5. OnePendingPerKey'  BY <1>2, <2>1 DEF PlacesInv, OnePendingPerKey
  <2>6. PlacesInv'  BY <2>3, <2>4, <2>5 DEF PlacesInv, PendingAreQueued, ToSet, IsInjective
  <2> QED  BY <1>1, <1>5, <2>1, <2>6 DEF BurstInv, BoundedFairness, RunnersInv, Ended
<1>6. CASE Full
  <2>1. /\ Victim \in ToSet(freshQueue) \cup ToSet(normalQueue)
        /\ fresh \in Seq(Jobs \cap Fresh) /\ normal \in Seq(Jobs \ Fresh)
        /\ IsInjective(fresh) /\ IsInjective(normal)
        /\ ToSet(fresh) \cup ToSet(normal) = (ToSet(freshQueue) \cup ToSet(normalQueue)) \ {Victim}
        /\ Len(fresh) + Len(normal) = PendingCount - 1
    <3>0. Len(freshQueue) \in Nat /\ Len(normalQueue) \in Nat  BY LengthsAreNumbers
    <3>1. CASE normalQueue # <<>>
      <4>1. /\ Tail(normalQueue) \in Seq(Jobs \ Fresh) /\ IsInjective(Tail(normalQueue))
            /\ Head(normalQueue) \in ToSet(normalQueue)
            /\ ToSet(Tail(normalQueue)) = ToSet(normalQueue) \ {Head(normalQueue)}
            /\ Len(Tail(normalQueue)) = Len(normalQueue) - 1
        BY <1>3, <3>1, QueueTail
      <4>2. Victim = Head(normalQueue) /\ Victim \notin Fresh
        BY <3>1, <4>1, LengthsAreNumbers DEF Victim
      <4> QED  BY <1>3, <1>6, <3>0, <4>1, <4>2, LengthsAreNumbers DEF PendingCount
    <3>2. CASE normalQueue = <<>>
      <4>1. freshQueue # <<>>  BY <1>4, <1>6, <3>2, LengthsAreNumbers DEF Full, PendingCount
      <4>2. /\ Tail(freshQueue) \in Seq(Jobs \cap Fresh) /\ IsInjective(Tail(freshQueue))
            /\ Head(freshQueue) \in ToSet(freshQueue)
            /\ ToSet(Tail(freshQueue)) = ToSet(freshQueue) \ {Head(freshQueue)}
            /\ Len(Tail(freshQueue)) = Len(freshQueue) - 1
        BY <1>3, <4>1, QueueTail
      <4>3. Victim = Head(freshQueue) /\ Victim \in Fresh
        BY <3>2, <4>2, LengthsAreNumbers DEF Victim
      <4> QED  BY <1>3, <1>6, <3>0, <4>2, <4>3, LengthsAreNumbers DEF PendingCount
    <3> QED  BY <3>1, <3>2
  <2>2. /\ Pending' = (Pending \ {Victim}) \cup {j} /\ Running' = Running
        /\ j \notin Pending /\ j # Victim
    BY <1>1, <1>3, <1>6, <2>1 DEF Pending, Running
  <2> HIDE DEF fresh, normal
  <2>3. /\ freshQueue' \in Seq(Jobs \cap Fresh) /\ normalQueue' \in Seq(Jobs \ Fresh)
        /\ IsInjective(freshQueue') /\ IsInjective(normalQueue')
        /\ ToSet(freshQueue') \cup ToSet(normalQueue') = ToSet(fresh) \cup ToSet(normal) \cup {j}
        /\ Len(freshQueue') + Len(normalQueue') = Len(fresh) + Len(normal) + 1
    <3>1. j \notin ToSet(fresh) \cup ToSet(normal)  BY <1>3, <2>1, <2>2
    <3> QED  BY <1>1, <2>1, <3>1, PlacesWithOneMore
  <2>4. ToSet(freshQueue') \cup ToSet(normalQueue') = Pending'  BY <1>3, <2>1, <2>2, <2>3
  <2>5. PendingCount' <= MaxQueueLength
    BY <1>3, <1>4, <2>1, <2>3, LengthsAreNumbers DEF PendingCount
  <2>6. OnePendingPerKey'  BY <1>2, <2>2 DEF PlacesInv, OnePendingPerKey
  <2>7. PlacesInv'  BY <2>3, <2>4, <2>5, <2>6 DEF PlacesInv, PendingAreQueued, ToSet, IsInjective
  <2> QED  BY <1>1, <1>6, <2>2, <2>7 DEF BurstInv, BoundedFairness, RunnersInv, Ended
<1> QED  BY <1>5, <1>6

\* A job leaves the head of its queue for a free runner.
LEMMA RunnerTaken ==
    ASSUME QueueIInv, CanStart, NEW j \in Pending, jobStatus' = [jobStatus EXCEPT ![j] = "running"],
           UNCHANGED drain
    PROVE  RunnersInv' /\ Pending' = Pending \ {j}
           /\ jobStatus' \in [Jobs -> {"new", "queued", "running"} \cup Ended]
<1>1. /\ Running' = Running \cup {j} /\ j \notin Running /\ Pending' = Pending \ {j}
      /\ jobStatus' \in [Jobs -> {"new", "queued", "running"} \cup Ended]
  BY DEF QueueIInv, Running, Pending
<1>2. /\ drain = "none" /\ IsFiniteSet(Running) /\ Cardinality(Running) < MaxConcurrency
      /\ Cardinality(Running) \in Nat /\ MaxConcurrency \in Nat
  BY FS_CardinalityType, QueueAssumption DEF QueueIInv, RunnersInv, CanStart, RoomToRun
<1>3. IsFiniteSet(Running') /\ Cardinality(Running') = Cardinality(Running) + 1
  BY <1>1, <1>2, FS_AddElement
<1> QED  BY <1>1, <1>2, <1>3 DEF RunnersInv

LEMMA StartFreshHolds == ASSUME QueueIInv, StartFresh PROVE QueueIInv'
<1> USE DEF QueueIInv
<1>1. freshQueue # <<>> /\ (normalQueue = <<>> \/ freshSelections < FreshBurstLimit)
  BY DEF StartFresh, TakesFresh
<1> DEFINE j == Head(freshQueue)
<1>2. /\ freshQueue' \in Seq(Jobs \cap Fresh) /\ IsInjective(freshQueue') /\ j \in ToSet(freshQueue)
      /\ ToSet(freshQueue') = ToSet(freshQueue) \ {j} /\ Len(freshQueue') = Len(freshQueue) - 1
  BY <1>1, QueueTail DEF StartFresh, PlacesInv, PendingAreQueued
<1>3. j \in Pending /\ j \notin ToSet(normalQueue) /\ ToSet(freshQueue) \cup ToSet(normalQueue) = Pending
  BY <1>2, LengthsAreNumbers DEF PlacesInv, PendingAreQueued
<1>4. jobStatus' = [jobStatus EXCEPT ![j] = "running"] /\ UNCHANGED <<normalQueue, pumping, drain>>
  BY DEF StartFresh
<1> HIDE DEF j
<1>5. RunnersInv' /\ Pending' = Pending \ {j}
      /\ jobStatus' \in [Jobs -> {"new", "queued", "running"} \cup Ended]
  BY <1>3, <1>4, RunnerTaken DEF StartFresh
<1>6. PlacesInv'
  <2>1. PendingCount' <= MaxQueueLength
    <3>1. MaxQueueLength \in Nat  BY QueueAssumption
    <3> QED  BY <1>2, <1>4, <3>1, LengthsAreNumbers DEF PlacesInv, PendingAreQueued, PendingCount
  <2>2. OnePendingPerKey'  BY <1>5 DEF PlacesInv, OnePendingPerKey
  <2>3. ToSet(freshQueue') \cup ToSet(normalQueue') = Pending'  BY <1>2, <1>3, <1>4, <1>5
  <2> QED
    BY <1>2, <1>4, <2>1, <2>2, <2>3 DEF PlacesInv, PendingAreQueued, ToSet, IsInjective
<1>7. BurstInv'
  <2>1. FreshBurstLimit \in Nat \ {0}  BY QueueAssumption
  <2>2. freshSelections' = freshSelections + 1
        /\ passedOver' = IF normalQueue = <<>> THEN 0 ELSE passedOver + 1
    BY DEF StartFresh
  <2> QED  BY <1>1, <2>1, <2>2 DEF BurstInv, BoundedFairness
<1> QED  BY <1>4, <1>5, <1>6, <1>7

LEMMA StartNormalHolds == ASSUME QueueIInv, StartNormal PROVE QueueIInv'
<1> USE DEF QueueIInv
<1>1. normalQueue # <<>>
  BY LengthsAreNumbers DEF StartNormal, TakesFresh, CanStart, PendingCount
<1> DEFINE j == Head(normalQueue)
<1>2. /\ normalQueue' \in Seq(Jobs \ Fresh) /\ IsInjective(normalQueue') /\ j \in ToSet(normalQueue)
      /\ ToSet(normalQueue') = ToSet(normalQueue) \ {j} /\ Len(normalQueue') = Len(normalQueue) - 1
  BY <1>1, QueueTail DEF StartNormal, PlacesInv, PendingAreQueued
<1>3. j \in Pending /\ j \notin ToSet(freshQueue) /\ ToSet(freshQueue) \cup ToSet(normalQueue) = Pending
  BY <1>2, LengthsAreNumbers DEF PlacesInv, PendingAreQueued
<1>4. jobStatus' = [jobStatus EXCEPT ![j] = "running"] /\ UNCHANGED <<freshQueue, pumping, drain>>
  BY DEF StartNormal
<1> HIDE DEF j
<1>5. RunnersInv' /\ Pending' = Pending \ {j}
      /\ jobStatus' \in [Jobs -> {"new", "queued", "running"} \cup Ended]
  BY <1>3, <1>4, RunnerTaken DEF StartNormal
<1>6. PlacesInv'
  <2>1. PendingCount' <= MaxQueueLength
    <3>1. MaxQueueLength \in Nat  BY QueueAssumption
    <3> QED  BY <1>2, <1>4, <3>1, LengthsAreNumbers DEF PlacesInv, PendingAreQueued, PendingCount
  <2>2. OnePendingPerKey'  BY <1>5 DEF PlacesInv, OnePendingPerKey
  <2>3. ToSet(freshQueue') \cup ToSet(normalQueue') = Pending'  BY <1>2, <1>3, <1>4, <1>5
  <2> QED
    BY <1>2, <1>4, <2>1, <2>2, <2>3 DEF PlacesInv, PendingAreQueued, ToSet, IsInjective
<1>7. BurstInv'
  BY QueueAssumption DEF StartNormal, BurstInv, BoundedFairness
<1> QED  BY <1>4, <1>5, <1>6, <1>7

\* A job that ends frees its runner.
LEMMA FinishHolds == ASSUME QueueIInv, NEW j \in Jobs, Finish(j) PROVE QueueIInv'
<1> USE DEF QueueIInv
<1>1. /\ jobStatus' = [jobStatus EXCEPT ![j] = "done"] /\ jobStatus[j] = "running"
      /\ pumping' = (drain = "none")
      /\ UNCHANGED <<freshQueue, normalQueue, freshSelections, drain, passedOver>>
  BY DEF Finish, PumpAfterFinish
<1>2. Pending' = Pending /\ Running' = Running \ {j} /\ j \in Running
  BY <1>1 DEF Pending, Running
<1>3. RunnersInv'
  <2> SUFFICES ASSUME drain = "none"
               PROVE  IsFiniteSet(Running') /\ Cardinality(Running') <= MaxConcurrency
    BY <1>1 DEF RunnersInv
  <2>1. IsFiniteSet(Running) /\ Cardinality(Running) <= MaxConcurrency /\ Cardinality(Running) \in Nat
        /\ MaxConcurrency \in Nat
    BY FS_CardinalityType, QueueAssumption DEF RunnersInv
  <2>2. IsFiniteSet(Running') /\ Cardinality(Running') = Cardinality(Running) - 1
    BY <1>2, <2>1, FS_RemoveElement
  <2> QED  BY <2>1, <2>2
<1>4. PlacesInv'
  BY <1>1, <1>2 DEF PlacesInv, PendingAreQueued, PendingCount, OnePendingPerKey, ToSet, IsInjective
<1>5. jobStatus' \in [Jobs -> {"new", "queued", "running"} \cup Ended]  BY <1>1 DEF Ended
<1> QED  BY <1>1, <1>3, <1>4, <1>5 DEF BurstInv, BoundedFairness

\* From drain on no job is pending.
LEMMA DrainHolds == ASSUME QueueIInv, NEW cancel \in BOOLEAN, Drain(cancel) PROVE QueueIInv'
<1> USE DEF QueueIInv
<1>1. /\ drain' = "waiting" /\ freshQueue' = <<>> /\ normalQueue' = <<>>
      /\ jobStatus' = [j \in Jobs |-> IF j \notin Pending THEN jobStatus[j]
                                      ELSE IF cancel THEN "cancelled" ELSE "running"]
      /\ UNCHANGED <<freshSelections, pumping, passedOver>>
  BY DEF Drain
<1>2. Pending' = {}  BY <1>1 DEF Pending
<1>3. /\ ToSet(freshQueue') = {} /\ ToSet(normalQueue') = {}
      /\ IsInjective(freshQueue') /\ IsInjective(normalQueue') /\ PendingCount' = 0
  BY <1>1 DEF ToSet, IsInjective, PendingCount
<1>4. PlacesInv'
  <2>1. MaxQueueLength \in Nat  BY QueueAssumption
  <2>2. OnePendingPerKey'  BY <1>2 DEF OnePendingPerKey
  <2>3. PendingAreQueued'
    BY <1>2, <1>3, <2>1 DEF PendingAreQueued, ToSet, IsInjective
  <2> QED  BY <1>1, <2>2, <2>3, EmptySeq DEF PlacesInv
<1>5. jobStatus' \in [Jobs -> {"new", "queued", "running"} \cup Ended]  BY <1>1 DEF Ended
<1> QED  BY <1>1, <1>4, <1>5 DEF BurstInv, BoundedFairness, RunnersInv

LEMMA QueueNextHolds == QueueIInv /\ [QueueNext]_queueVars => QueueIInv'
<1> SUFFICES ASSUME QueueIInv, [QueueNext]_queueVars PROVE QueueIInv'
  OBVIOUS
<1> USE DEF QueueIInv
<1>1. ASSUME NEW j \in Jobs, EnqueueIgnored(j) PROVE QueueIInv'
  <2>1. Pending' = Pending /\ Running' = Running
    BY <1>1 DEF EnqueueIgnored, Pending, Running
  <2>2. PlacesInv'
    BY <1>1, <2>1 DEF EnqueueIgnored, PlacesInv, PendingAreQueued, PendingCount, OnePendingPerKey,
       ToSet, IsInjective
  <2> QED  BY <1>1, <2>1, <2>2 DEF EnqueueIgnored, BurstInv, BoundedFairness, RunnersInv, Ended
<1>2. ASSUME UNCHANGED <<jobStatus, freshQueue, normalQueue, freshSelections, passedOver>>,
             pumping' \in BOOLEAN, drain' = drain \/ (drain' = "done" /\ drain = "waiting")
      PROVE  QueueIInv'
  BY <1>2 DEF Pending, Running, PlacesInv, PendingAreQueued, PendingCount, OnePendingPerKey, ToSet,
     IsInjective, BurstInv, BoundedFairness, RunnersInv
<1>3. CASE PumpEnd  BY <1>2, <1>3 DEF PumpEnd
<1>4. CASE DrainResolve  BY <1>2, <1>4 DEF DrainResolve
<1>5. CASE UNCHANGED queueVars  BY <1>2, <1>5 DEF queueVars
<1> QED
  BY <1>1, <1>3, <1>4, <1>5, CoalescedHolds, NewHolds, StartFreshHolds, StartNormalHolds,
     FinishHolds, DrainHolds
  DEF QueueNext, Enqueue, Pump

LEMMA QueueInitHolds == QueueInit => QueueIInv
<1> SUFFICES ASSUME QueueInit PROVE QueueIInv
  OBVIOUS
<1> USE DEF QueueInit
<1>1. {MaxConcurrency, MaxQueueLength, FreshBurstLimit} \subseteq Nat  BY QueueAssumption
<1>2. Pending = {} /\ Running = {}  BY DEF Pending, Running
<1>3. /\ ToSet(freshQueue) = {} /\ ToSet(normalQueue) = {}
      /\ IsInjective(freshQueue) /\ IsInjective(normalQueue) /\ PendingCount = 0
  BY DEF ToSet, IsInjective, PendingCount
<1>4. PlacesInv
  BY <1>1, <1>2, <1>3, EmptySeq DEF PlacesInv, PendingAreQueued, OnePendingPerKey
<1>5. RunnersInv  BY <1>1, <1>2, FS_EmptySet DEF RunnersInv
<1>6. BurstInv  BY <1>1 DEF BurstInv, BoundedFairness
<1> QED  BY <1>4, <1>5, <1>6 DEF QueueIInv

\* MentisBackgroundQueue: for any jobs, keys and limits, exactly the pending jobs are in the
\* queues, within the length; the runners are not too many; a key has one pending job;
\* and backlog is passed over at most freshBurstLimit times in a row.
THEOREM QueueAlwaysFair == QueueSpec => []QueueIsFair
<1>1. QueueInit => QueueIInv  BY QueueInitHolds
<1>2. QueueIInv /\ [QueueNext]_queueVars => QueueIInv'  BY QueueNextHolds
<1>3. QueueIInv => QueueIsFair
  BY DEF QueueIInv, QueueIsFair, QueueTypeOK, RunnersHold, PlacesInv, BurstInv, RunnersInv
<1> QED  BY <1>1, <1>2, <1>3, PTL DEF QueueSpec

-----------------------------------------------------------------------------
(* ProviderRequests. *)

\* Who waits is in the queue once, and a permit is held, available or handed to a waiter.
PermitInv ==
    /\ pc \in [Requests -> {"idle", "budget", "admitted", "queued", "sent", "backoff", "over"}]
    /\ waiters \in Seq(Requests) /\ IsInjective(waiters)
    /\ IsFiniteSet(Holders) /\ available \in Nat
    /\ PermitsAreKept

\* A request that waits for its next attempt has one left.
AttemptInv ==
    /\ attempt \in [Requests -> 0..MaxAttempts]
    /\ \A r \in Requests : pc[r] = "backoff" => attempt[r] < MaxAttempts

\* A request is let through once, and is remembered with its age.
WindowInv ==
    /\ DOMAIN admitted \subseteq Requests /\ IsFiniteSet(DOMAIN admitted)
    /\ \A r \in DOMAIN admitted : admitted[r] \in 0..(Minute - 1)
    /\ \A r \in Requests : pc[r] \in {"idle", "budget"} => r \notin DOMAIN admitted
    /\ BudgetHolds

BreakerInv == open \in 0..OpenTicks /\ throttled \in Nat

RequestIInv == PermitInv /\ AttemptInv /\ WindowInv /\ BreakerInv

-----------------------------------------------------------------------------
LEMMA QueuedIsThere ==
    ASSUME PermitInv, NEW r \in Requests, pc[r] = "queued"
    PROVE  /\ (CHOOSE i \in DOMAIN waiters : waiters[i] = r) \in DOMAIN waiters
           /\ waiters[CHOOSE i \in DOMAIN waiters : waiters[i] = r] = r
  BY DEF PermitInv, PermitsAreKept, ToSet

\* Somebody moves between places where he holds no permit and does not wait, or keeps his permit.
LEMMA PermitsUntouched ==
    ASSUME PermitInv, NEW r \in Requests,
           NEW place \in {"budget", "admitted", "sent", "backoff", "over"},
           pc' = [pc EXCEPT ![r] = place], UNCHANGED <<waiters, available>>, pc[r] # "queued",
           pc[r] \in {"sent", "backoff"} <=> place \in {"sent", "backoff"}
    PROVE  PermitInv'
<1>1. Holders' = Holders /\ {q \in Requests : pc'[q] = "queued"} = {q \in Requests : pc[q] = "queued"}
  BY DEF PermitInv, Holders
<1> QED  BY <1>1 DEF PermitInv, PermitsAreKept

LEMMA PermitTaken ==
    ASSUME PermitInv, NEW r \in Requests, pc[r] = "admitted", available > 0,
           pc' = [pc EXCEPT ![r] = "sent"], available' = available - 1, UNCHANGED waiters
    PROVE  PermitInv'
<1>1. /\ Holders' = Holders \cup {r} /\ r \notin Holders
      /\ {q \in Requests : pc'[q] = "queued"} = {q \in Requests : pc[q] = "queued"}
  BY DEF PermitInv, Holders
<1>2. IsFiniteSet(Holders') /\ Cardinality(Holders') = Cardinality(Holders) + 1
      /\ Cardinality(Holders) \in Nat
  BY <1>1, FS_AddElement, FS_CardinalityType DEF PermitInv
<1>3. available' \in Nat /\ Concurrent \in Nat  BY RequestsAssumption DEF PermitInv
<1>4. Cardinality(Holders') + available' = Concurrent
  BY <1>2, <1>3 DEF PermitInv, PermitsAreKept
<1>5. waiters' = <<>>  BY DEF PermitInv, PermitsAreKept
<1>6. pc' \in [Requests -> {"idle", "budget", "admitted", "queued", "sent", "backoff", "over"}]
  BY DEF PermitInv
<1> QED  BY <1>1, <1>2, <1>3, <1>4, <1>5, <1>6 DEF PermitInv, PermitsAreKept

LEMMA PermitAwaited ==
    ASSUME PermitInv, NEW r \in Requests, pc[r] = "admitted", ~(available > 0),
           pc' = [pc EXCEPT ![r] = "queued"], waiters' = Append(waiters, r), UNCHANGED available
    PROVE  PermitInv'
<1>1. /\ Holders' = Holders
      /\ {q \in Requests : pc'[q] = "queued"} = {q \in Requests : pc[q] = "queued"} \cup {r}
  BY DEF PermitInv, Holders
<1>2. r \notin ToSet(waiters)  BY DEF PermitInv, PermitsAreKept
<1>3. /\ waiters' \in Seq(Requests) /\ IsInjective(waiters)'
      /\ ToSet(waiters)' = ToSet(waiters) \cup {r}
  BY <1>2, QueueLonger DEF PermitInv
<1>4. available' = 0 /\ available' \in Nat  BY DEF PermitInv
<1> QED  BY <1>1, <1>3, <1>4 DEF PermitInv, PermitsAreKept

LEMMA PermitGivenUp ==
    ASSUME PermitInv, NEW r \in Requests, pc[r] = "queued", pc' = [pc EXCEPT ![r] = "over"],
           waiters' = RemoveAt(waiters, CHOOSE i \in DOMAIN waiters : waiters[i] = r),
           UNCHANGED available
    PROVE  PermitInv'
<1> DEFINE n == CHOOSE i \in DOMAIN waiters : waiters[i] = r
<1>1. n \in DOMAIN waiters /\ waiters[n] = r  BY QueuedIsThere
<1>2. waiters # <<>>  BY <1>1, EmptySeq, QueueFacts DEF PermitInv
<1> HIDE DEF n
<1>3. /\ waiters' \in Seq(Requests) /\ IsInjective(waiters)'
      /\ ToSet(waiters)' = ToSet(waiters) \ {r}
  BY <1>1, QueueCut DEF PermitInv, n
<1>4. /\ Holders' = Holders
      /\ {q \in Requests : pc'[q] = "queued"} = {q \in Requests : pc[q] = "queued"} \ {r}
  BY DEF PermitInv, Holders
<1> QED  BY <1>2, <1>3, <1>4 DEF PermitInv, PermitsAreKept

\* Who ends hands his permit to the first waiter, or gives it back.
LEMMA PermitReleased ==
    ASSUME PermitInv, NEW r \in Requests, pc[r] \in {"sent", "backoff"},
           ReleasePermit([pc EXCEPT ![r] = "over"])
    PROVE  PermitInv'
<1> USE DEF ReleasePermit, Released
<1>1. r \in Holders /\ IsFiniteSet(Holders) /\ Cardinality(Holders) \in Nat
  BY FS_CardinalityType DEF PermitInv, Holders
<1>2. IsFiniteSet(Holders \ {r}) /\ Cardinality(Holders \ {r}) = Cardinality(Holders) - 1
  BY <1>1, FS_RemoveElement
<1>3. CASE waiters = <<>>
  <2>1. pc' = [pc EXCEPT ![r] = "over"] /\ available' = available + 1 /\ UNCHANGED waiters
    BY <1>3
  <2>2. /\ Holders' = Holders \ {r}
        /\ {q \in Requests : pc'[q] = "queued"} = {q \in Requests : pc[q] = "queued"}
    BY <2>1 DEF PermitInv, Holders
  <2>3. Cardinality(Holders') + available' = Concurrent /\ available' \in Nat
    BY <1>1, <1>2, <2>1, <2>2 DEF PermitInv, PermitsAreKept
  <2>4. pc' \in [Requests -> {"idle", "budget", "admitted", "queued", "sent", "backoff", "over"}]
    BY <2>1 DEF PermitInv
  <2> QED  BY <1>2, <1>3, <2>1, <2>2, <2>3, <2>4 DEF PermitInv, PermitsAreKept
<1>4. CASE waiters # <<>>
  <2> DEFINE q == Head(waiters)
  <2>1. /\ waiters' \in Seq(Requests) /\ IsInjective(waiters)' /\ q \in ToSet(waiters)
        /\ ToSet(waiters)' = ToSet(waiters) \ {q}
    <3>1. waiters' = Tail(waiters)  BY <1>4
    <3>2. waiters \in Seq(Requests) /\ IsInjective(waiters)  BY DEF PermitInv
    <3> QED  BY <1>4, <3>1, <3>2, QueueTail
  <2>2. q \in Requests /\ pc[q] = "queued" /\ q # r
    BY <2>1 DEF PermitInv, PermitsAreKept
  <2>3. pc' = [pc EXCEPT ![r] = "over", ![q] = "sent"] /\ available' = available
    BY <1>4
  <2> HIDE DEF q
  <2>4. /\ Holders' = (Holders \ {r}) \cup {q} /\ q \notin Holders \ {r}
        /\ {x \in Requests : pc'[x] = "queued"} = {x \in Requests : pc[x] = "queued"} \ {q}
    BY <2>2, <2>3 DEF PermitInv, Holders
  <2>5. IsFiniteSet(Holders') /\ Cardinality(Holders') = Cardinality(Holders)
    BY <1>1, <1>2, <2>4, FS_AddElement
  <2>6. available = 0  BY <1>4 DEF PermitInv, PermitsAreKept
  <2>7. pc' \in [Requests -> {"idle", "budget", "admitted", "queued", "sent", "backoff", "over"}]
    BY <2>2, <2>3 DEF PermitInv
  <2> QED  BY <2>1, <2>3, <2>4, <2>5, <2>6, <2>7 DEF PermitInv, PermitsAreKept
<1> QED  BY <1>3, <1>4

-----------------------------------------------------------------------------
\* The tokens of finitely many requests are a number; one more adds its own.
LEMMA TokensFinite ==
    ASSUME NEW rs \in SUBSET Requests, IsFiniteSet(rs)
    PROVE  IsFiniteSet(Tokens(rs)) /\ Cardinality(Tokens(rs)) \in Nat
<1>1. Tokens(rs) = Units(rs, TokensOf)  BY DEF Tokens, Units
<1>2. \A r \in rs : TokensOf[r] \in Nat  BY RequestsAssumption
<1> QED  BY <1>1, <1>2, UnitsFinite

LEMMA TokensWithOneMore ==
    ASSUME NEW rs \in SUBSET Requests, IsFiniteSet(rs), NEW r \in Requests, r \notin rs
    PROVE  Cardinality(Tokens(rs \cup {r})) = Cardinality(Tokens(rs)) + TokensOf[r]
<1>1. \A some \in SUBSET Requests : Tokens(some) = Units(some, TokensOf)  BY DEF Tokens, Units
<1>2. \A x \in rs \cup {r} : TokensOf[x] \in Nat  BY RequestsAssumption
<1>3. Cardinality(Units(rs \cup {r}, TokensOf)) = Cardinality(Units(rs, TokensOf)) + TokensOf[r]
  BY <1>2, UnitsWithOneMore
<1> QED  BY <1>1, <1>3

LEMMA TokensOfFewer ==
    ASSUME NEW rs \in SUBSET Requests, IsFiniteSet(rs), NEW fewer \in SUBSET rs
    PROVE  /\ Cardinality(Tokens(fewer)) <= Cardinality(Tokens(rs))
           /\ Cardinality(Tokens(fewer)) \in Nat
<1>1. Tokens(fewer) \in SUBSET Tokens(rs)  BY DEF Tokens
<1>2. IsFiniteSet(Tokens(rs))  BY TokensFinite
<1>3. IsFiniteSet(Tokens(fewer)) /\ Cardinality(Tokens(fewer)) <= Cardinality(Tokens(rs))
  BY <1>1, <1>2, FS_Subset
<1> QED  BY <1>3, FS_CardinalityType

\* Letting a request through that the budget has room for, and the passing of time.
LEMMA WindowAdmits ==
    ASSUME WindowInv, NEW r \in Requests, pc[r] = "budget", HasBudget(r),
           admitted' = [q \in DOMAIN admitted \cup {r} |-> IF q = r THEN 0 ELSE admitted[q]],
           \A q \in Requests : pc'[q] \in {"idle", "budget"} => q # r /\ pc[q] \in {"idle", "budget"}
    PROVE  WindowInv'
<1>1. r \notin DOMAIN admitted /\ IsFiniteSet(DOMAIN admitted)  BY DEF WindowInv
<1>2. Second \in Nat \ {0} /\ Minute \in Nat \ {0} /\ PerSecond \in Nat /\ PerMinute \in Nat
  BY RequestsAssumption
<1>3. /\ Within(Second)' = Within(Second) \cup {r} /\ Within(Minute)' = Within(Minute) \cup {r}
      /\ r \notin Within(Second) /\ r \notin Within(Minute)
  BY <1>1, <1>2 DEF Within
<1>4. /\ IsFiniteSet(Within(Second)) /\ IsFiniteSet(Within(Minute)) /\ Within(Minute) \in SUBSET Requests
      /\ Cardinality(Within(Second)) \in Nat
  <2>1. Within(Second) \in SUBSET DOMAIN admitted /\ Within(Minute) \in SUBSET DOMAIN admitted
    BY DEF Within
  <2> QED  BY <1>1, <2>1, FS_Subset, FS_CardinalityType DEF WindowInv
<1>5. Cardinality(Within(Second)') <= PerSecond
  <2>1. Cardinality(Within(Second)') = Cardinality(Within(Second)) + 1
    BY <1>3, <1>4, FS_AddElement
  <2> QED  BY <1>2, <1>4, <2>1 DEF HasBudget
<1>6. Cardinality(Tokens(Within(Minute)')) <= PerMinute
  BY <1>3, <1>4, TokensWithOneMore DEF HasBudget, Used
<1>7. Tokens(Within(Minute))' = Tokens(Within(Minute)')  BY DEF Tokens
<1>8. DOMAIN admitted' \subseteq Requests /\ IsFiniteSet(DOMAIN admitted')
  BY <1>1, FS_AddElement DEF WindowInv
<1>9. \A q \in DOMAIN admitted' : admitted'[q] \in 0..(Minute - 1)  BY <1>2 DEF WindowInv
<1>10. \A q \in Requests : pc'[q] \in {"idle", "budget"} => q \notin DOMAIN admitted'
  BY DEF WindowInv
<1> QED  BY <1>5, <1>6, <1>7, <1>8, <1>9, <1>10 DEF WindowInv, BudgetHolds

LEMMA WindowAges ==
    ASSUME WindowInv, admitted' = [r \in Within(Minute - 1) |-> admitted[r] + 1], UNCHANGED pc
    PROVE  WindowInv'
<1>1. Second \in Nat /\ Minute \in Nat \ {0} /\ PerSecond \in Nat /\ PerMinute \in Nat
  BY RequestsAssumption
<1>2. DOMAIN admitted' \in SUBSET DOMAIN admitted /\ \A r \in DOMAIN admitted : admitted[r] \in Nat
  BY <1>1 DEF Within, WindowInv
<1>3. Within(Second)' \in SUBSET Within(Second) /\ Within(Minute)' \in SUBSET Within(Minute)
  BY <1>1, <1>2 DEF Within
<1>4. /\ IsFiniteSet(Within(Second)) /\ IsFiniteSet(Within(Minute)) /\ Within(Minute) \in SUBSET Requests
      /\ Cardinality(Within(Second)) \in Nat
  <2>1. Within(Second) \in SUBSET DOMAIN admitted /\ Within(Minute) \in SUBSET DOMAIN admitted
    BY DEF Within
  <2> QED  BY <2>1, FS_Subset, FS_CardinalityType DEF WindowInv
<1>5. /\ Cardinality(Within(Second)') <= Cardinality(Within(Second)) /\ Cardinality(Within(Second)') \in Nat
      /\ IsFiniteSet(DOMAIN admitted')
  BY <1>2, <1>3, <1>4, FS_Subset, FS_CardinalityType DEF WindowInv
<1>6. /\ Cardinality(Tokens(Within(Minute)')) <= Cardinality(Tokens(Within(Minute)))
      /\ Cardinality(Tokens(Within(Minute)')) \in Nat /\ Cardinality(Tokens(Within(Minute))) \in Nat
  BY <1>3, <1>4, TokensOfFewer, TokensFinite
<1>7. Tokens(Within(Minute))' = Tokens(Within(Minute)')  BY DEF Tokens
<1>8. BudgetHolds'
  BY <1>1, <1>4, <1>5, <1>6, <1>7 DEF WindowInv, BudgetHolds
<1>9. \A r \in DOMAIN admitted' : admitted'[r] \in 0..(Minute - 1)
  BY <1>1, <1>2 DEF Within
<1> QED  BY <1>2, <1>5, <1>8, <1>9 DEF WindowInv

LEMMA WindowSame ==
    ASSUME WindowInv, UNCHANGED admitted,
           \A q \in Requests : pc'[q] \in {"idle", "budget"} => pc[q] \in {"idle", "budget"}
    PROVE  WindowInv'
  BY DEF WindowInv, BudgetHolds, Within, Tokens

-----------------------------------------------------------------------------
\* What each action does to the permits, the attempts, the windows and the breaker.
LEMMA EndsStep ==
    ASSUME RequestIInv, NEW r \in Requests, NEW how, pc[r] \in {"sent", "backoff"}, Ends(r, how),
           UNCHANGED admitted
    PROVE  RequestIInv'
<1> USE DEF RequestIInv
<1>1. ReleasePermit([pc EXCEPT ![r] = "over"])  BY DEF Ends
<1>2. PermitInv'  BY <1>1, PermitReleased
<1>3. waiters # <<>> => Head(waiters) \in Requests /\ pc[Head(waiters)] = "queued"
  BY QueueTail DEF PermitInv, PermitsAreKept
<1>4. pc' = IF waiters = <<>> THEN [pc EXCEPT ![r] = "over"]
            ELSE [pc EXCEPT ![r] = "over", ![Head(waiters)] = "sent"]
  BY <1>1 DEF ReleasePermit, Released
<1>5. attempt' = IF waiters = <<>> THEN attempt ELSE [attempt EXCEPT ![Head(waiters)] = 1]
  BY <1>1 DEF ReleasePermit, Released
<1>6. 1 \in 0..MaxAttempts  BY RequestsAssumption
<1>7. \A q \in Requests : pc'[q] = pc[q] \/ pc'[q] \in {"over", "sent"}
  BY <1>3, <1>4 DEF PermitInv
<1>8. \A q \in Requests : pc'[q] = "backoff" => attempt'[q] = attempt[q]
  BY <1>3, <1>4, <1>5 DEF PermitInv, AttemptInv
<1>9. AttemptInv'  BY <1>3, <1>5, <1>6, <1>7, <1>8 DEF AttemptInv
<1>10. WindowInv'  BY <1>7, WindowSame
<1>11. BreakerInv'
  <2>1. Threshold \in Nat \ {0} /\ OpenTicks \in Nat  BY RequestsAssumption
  <2> QED  BY <2>1 DEF Ends, BreakerInv
<1> QED  BY <1>2, <1>9, <1>10, <1>11

LEMMA RequestStepHolds == ASSUME RequestIInv, NEW r \in Requests, RequestStep(r) PROVE RequestIInv'
<1> USE DEF RequestIInv
<1>0. pc \in [Requests -> {"idle", "budget", "admitted", "queued", "sent", "backoff", "over"}]
  BY DEF PermitInv
<1>1. CASE Call(r)
  <2>1. PermitInv'  BY <1>1, PermitsUntouched DEF Call
  <2>2. AttemptInv'  BY <1>0, <1>1 DEF Call, AttemptInv
  <2>3. WindowInv'  BY <1>0, <1>1, WindowSame DEF Call
  <2> QED  BY <1>1, <2>1, <2>2, <2>3 DEF Call, BreakerInv
<1>2. CASE Admit(r)
  <2>1. PermitInv'  BY <1>2, PermitsUntouched DEF Admit
  <2>2. AttemptInv'  BY <1>0, <1>2 DEF Admit, AttemptInv
  <2>3. WindowInv'  BY <1>0, <1>2, WindowAdmits DEF Admit
  <2> QED  BY <1>2, <2>1, <2>2, <2>3 DEF Admit, BreakerInv
<1>3. CASE Acquire(r)
  <2>1. PermitInv'
    BY <1>3, PermitsUntouched, PermitTaken, PermitAwaited DEF Acquire
  <2>2. AttemptInv'
    <3>1. 1 \in 0..MaxAttempts  BY RequestsAssumption
    <3> QED  BY <1>0, <1>3, <3>1 DEF Acquire, AttemptInv
  <2>3. WindowInv'  BY <1>0, <1>3, WindowSame DEF Acquire
  <2> QED  BY <1>3, <2>1, <2>2, <2>3 DEF Acquire, BreakerInv
<1>4. CASE Again(r)
  <2>1. PermitInv'  BY <1>4, PermitsUntouched DEF Again
  <2>2. AttemptInv'
    <3>1. MaxAttempts \in Nat /\ attempt[r] + 1 \in 0..MaxAttempts
      BY <1>4, RequestsAssumption DEF Again, AttemptInv
    <3> QED  BY <1>0, <1>4, <3>1 DEF Again, AttemptInv
  <2>3. WindowInv'  BY <1>0, <1>4, WindowSame DEF Again
  <2> QED  BY <1>4, <2>1, <2>2, <2>3 DEF Again, BreakerInv
<1>5. CASE Abort(r)
  <2>1. CASE pc[r] = "backoff"  BY <1>5, <2>1, EndsStep DEF Abort
  <2>2. CASE pc[r] # "backoff"
    <3>1. /\ pc' = IF pc[r] \in {"budget", "queued"} THEN [pc EXCEPT ![r] = "over"] ELSE pc
          /\ waiters' = IF pc[r] = "queued"
                        THEN RemoveAt(waiters, CHOOSE i \in DOMAIN waiters : waiters[i] = r)
                        ELSE waiters
          /\ UNCHANGED <<attempt, available, throttled, open, admitted>>
      BY <1>5, <2>2 DEF Abort
    <3>2. PermitInv'
      <4>1. CASE pc[r] = "queued"  BY <3>1, <4>1, PermitGivenUp
      <4>2. CASE pc[r] = "budget"  BY <3>1, <4>2, PermitsUntouched
      <4>3. CASE pc[r] \notin {"budget", "queued"}
        BY <3>1, <4>3 DEF PermitInv, PermitsAreKept, Holders
      <4> QED  BY <4>1, <4>2, <4>3
    <3>3. AttemptInv'  BY <1>0, <3>1 DEF AttemptInv
    <3>4. WindowInv'  BY <1>0, <3>1, WindowSame
    <3> QED  BY <3>1, <3>2, <3>3, <3>4 DEF BreakerInv
  <2> QED  BY <2>1, <2>2
<1>6. CASE Hears(r) \/ Answers(r)  BY <1>6, EndsStep DEF Hears, Answers
<1>7. ASSUME NEW f \in Failures, Fails(r, f) PROVE RequestIInv'
  <2>1. CASE pc' = [pc EXCEPT ![r] = "backoff"]
             /\ UNCHANGED <<attempt, waiters, available, throttled, open>> /\ attempt[r] < MaxAttempts
    <3>1. PermitInv'  BY <1>7, <2>1, PermitsUntouched DEF Fails
    <3>2. AttemptInv'  BY <1>0, <2>1 DEF AttemptInv
    <3>3. WindowInv'  BY <1>0, <1>7, <2>1, WindowSame DEF Fails
    <3> QED  BY <2>1, <3>1, <3>2, <3>3 DEF BreakerInv
  <2>2. CASE \E how : Ends(r, how)  BY <1>7, <2>2, EndsStep DEF Fails
  <2> QED  BY <1>7, <2>1, <2>2 DEF Fails
<1> QED  BY <1>1, <1>2, <1>3, <1>4, <1>5, <1>6, <1>7 DEF RequestStep

LEMMA RequestNextHolds == RequestIInv /\ [RequestNext]_requestVars => RequestIInv'
<1> SUFFICES ASSUME RequestIInv, [RequestNext]_requestVars PROVE RequestIInv'
  OBVIOUS
<1>1. CASE \E r \in Requests : RequestStep(r)  BY <1>1, RequestStepHolds
<1>2. CASE Tick
  <2>1. WindowInv'  BY <1>2, WindowAges DEF Tick, RequestIInv
  <2>2. BreakerInv'
    <3>1. OpenTicks \in Nat  BY RequestsAssumption
    <3> QED  BY <1>2, <3>1 DEF Tick, RequestIInv, BreakerInv
  <2>3. PermitInv' /\ AttemptInv'
    BY <1>2 DEF Tick, RequestIInv, PermitInv, PermitsAreKept, Holders, AttemptInv
  <2> QED  BY <2>1, <2>2, <2>3 DEF RequestIInv
<1>3. CASE UNCHANGED requestVars
  <2>1. WindowInv'  BY <1>3, WindowSame DEF requestVars, RequestIInv
  <2> QED
    BY <1>3, <2>1 DEF requestVars, RequestIInv, PermitInv, PermitsAreKept, Holders, AttemptInv, BreakerInv
<1> QED  BY <1>1, <1>2, <1>3 DEF RequestNext

LEMMA RequestInitHolds == RequestInit => RequestIInv
<1> SUFFICES ASSUME RequestInit PROVE RequestIInv
  OBVIOUS
<1> USE DEF RequestInit
<1>1. /\ Concurrent \in Nat /\ PerSecond \in Nat /\ PerMinute \in Nat /\ OpenTicks \in Nat
      /\ MaxAttempts \in Nat
  BY RequestsAssumption
<1>2. DOMAIN admitted = {} /\ ToSet(waiters) = {} /\ IsInjective(waiters)
  BY DEF ToSet, IsInjective
<1>3. Holders = {} /\ Within(Second) = {} /\ Tokens(Within(Minute)) = {}
  BY <1>2 DEF Holders, Within, Tokens
<1>4. PermitInv
  BY <1>1, <1>2, <1>3, FS_EmptySet, EmptySeq DEF PermitInv, PermitsAreKept
<1>5. WindowInv  BY <1>1, <1>2, <1>3, FS_EmptySet DEF WindowInv, BudgetHolds
<1> QED  BY <1>1, <1>4, <1>5 DEF RequestIInv, AttemptInv, BreakerInv

\* Exactly one vector for each input is all there is room for, so each input has its own.
LEMMA ResponsesAreWhole == AnswersAreWhole
<1>1. Inputs \in Nat \ {0} /\ Documents \in Nat  BY RequestsAssumption
<1> SUFFICES ASSUME NEW data \in Data
             PROVE  /\ Mapped(data) # <<>> => \A i \in 1..Inputs : /\ Mapped(data)[i] \in DOMAIN data
                                                                   /\ data[Mapped(data)[i]] = i - 1
                    /\ IsInjective(Ranked(data)) /\ ToSet(Ranked(data)) \subseteq 0..(Documents - 1)
                    /\ Range(data) = 0..(Inputs - 1) /\ Len(data) = Inputs => Mapped(data) # <<>>
  BY DEF AnswersAreWhole
<1>2. PICK n \in (Inputs - 1)..(Inputs + 1) : data \in [1..n -> 0..Inputs]  BY DEF Data
<1>3. n \in Nat /\ DOMAIN data = 1..n /\ Len(data) = n
  <2>1. n \in Nat  BY <1>1, <1>2
  <2>2. data \in Seq(0..Inputs)  BY <1>2, <2>1, SeqDef
  <2>3. DOMAIN data = 1..Len(data) /\ Len(data) \in Nat  BY <2>2, LenProperties
  <2> QED  BY <1>2, <2>1, <2>3
<1>4. IsFiniteSet(1..Inputs) /\ Cardinality(1..Inputs) = Inputs
  <2>1. /\ IsFiniteSet(1..Inputs)
        /\ Cardinality(1..Inputs) = IF 1 > Inputs THEN 0 ELSE Inputs - 1 + 1
    BY <1>1, FS_Interval
  <2> QED  BY <1>1, <2>1
<1>5. IsFiniteSet(0..(Inputs - 1)) /\ Cardinality(0..(Inputs - 1)) = Inputs
  <2>1. /\ IsFiniteSet(0..(Inputs - 1))
        /\ Cardinality(0..(Inputs - 1)) = IF 0 > Inputs - 1 THEN 0 ELSE Inputs - 1 - 0 + 1
    BY <1>1, FS_Interval
  <2> QED  BY <1>1, <2>1
<1>6. ASSUME Ordered(data)
      PROVE  \A i \in 1..Inputs : \E place \in DOMAIN data : data[place] = i - 1
  <2>1. n = Inputs /\ DOMAIN data = 1..Inputs  BY <1>3, <1>6 DEF Ordered
  <2>2. data \in Injection(1..Inputs, 0..(Inputs - 1))
    BY <1>1, <1>2, <1>6, <2>1 DEF Ordered, IsInjective, Injection
  <2>3. data \in Surjection(1..Inputs, 0..(Inputs - 1))  BY <1>4, <1>5, <2>2, FS_Injection
  <2> QED  BY <1>1, <2>1, <2>3 DEF Surjection
<1>7. ASSUME Ordered(data), NEW i \in 1..Inputs
      PROVE  Mapped(data)[i] \in DOMAIN data /\ data[Mapped(data)[i]] = i - 1
  BY <1>6, <1>7 DEF Mapped
<1>8. Mapped(data) # <<>> => Ordered(data)  BY DEF Mapped
<1>9. IsInjective(Ranked(data)) /\ ToSet(Ranked(data)) \subseteq 0..(Documents - 1)
  BY <1>1, <1>2 DEF Ranked, IsInjective, ToSet
<1>10. ASSUME Range(data) = 0..(Inputs - 1), Len(data) = Inputs PROVE Mapped(data) # <<>>
  <2>1. n = Inputs  BY <1>3, <1>10
  <2>2. data \in [1..Inputs -> 0..(Inputs - 1)]  BY <1>2, <1>10, <2>1 DEF Range
  <2>3. data \in Surjection(1..Inputs, 0..(Inputs - 1))
    BY <1>10, <2>2 DEF Surjection, Range
  <2>4. data \in Injection(1..Inputs, 0..(Inputs - 1))
    BY <1>4, <1>5, <2>3, FS_Surjection
  <2>5. Ordered(data)
    BY <1>1, <1>3, <1>10, <2>2, <2>4 DEF Ordered, Injection, IsInjective
  <2>6. DOMAIN Mapped(data) = 1..Inputs  BY <2>5 DEF Mapped
  <2> QED  BY <1>1, <2>6
<1> QED  BY <1>7, <1>8, <1>9, <1>10

\* ProviderRequestGate, AsyncSemaphore, mapEmbeddingVectors, mapRerankItems: for any requests,
\* limits and windows, no permit is lost or given twice, what is let through in a window is
\* within its budget, and a response gives each input its own vector or none to any.
THEOREM RequestsAlwaysHold == RequestSpec => []RequestsHold
<1>1. RequestInit => RequestIInv  BY RequestInitHolds
<1>2. RequestIInv /\ [RequestNext]_requestVars => RequestIInv'  BY RequestNextHolds
<1>3. RequestIInv => RequestsHold
  <2> SUFFICES ASSUME RequestIInv PROVE RequestsHold
    OBVIOUS
  <2>1. available \in 0..Concurrent
    <3>1. Concurrent \in Nat /\ Cardinality(Holders) \in Nat
      BY RequestsAssumption, FS_CardinalityType DEF RequestIInv, PermitInv
    <3> QED  BY <3>1 DEF RequestIInv, PermitInv, PermitsAreKept
  <2> QED
    BY <2>1, ResponsesAreWhole DEF RequestIInv, RequestsHold, RequestTypeOK, PermitInv, AttemptInv,
       WindowInv, BreakerInv
<1> QED  BY <1>1, <1>2, <1>3, PTL DEF RequestSpec

-----------------------------------------------------------------------------
(* ProviderRuntime. *)

\* The place of a kind in the order of activation; it is disposed of at 6 minus that place.
Place(kind) == CHOOSE i \in 1..5 : Activation[i] = kind

LEMMA KindFacts ==
    /\ Len(Activation) = 5 /\ Len(Turn) = 5
    /\ \A i \in 1..5 : Activation[i] \in Kinds /\ Place(Activation[i]) = i
    /\ \A i \in 1..5 : Turn[i] \in Kinds /\ Place(Turn[i]) = 6 - i
    /\ \A k \in Kinds : Place(k) \in 1..5 /\ Activation[Place(k)] = k
<1>1. Len(Activation) = 5 /\ DOMAIN Activation = 1..5 /\ Len(Turn) = 5
  BY DEF Activation, Turn, Disposal
<1>2. \A i, j \in 1..5 : Activation[i] = Activation[j] => i = j  BY DEF Activation
<1>3. \A i \in 1..5 : Activation[i] \in Kinds  BY <1>1 DEF Kinds, ToSet
<1>4. \A i \in 1..5 : Place(Activation[i]) = i  BY <1>2 DEF Place
<1>5. \A i \in 1..5 : 6 - i \in 1..5 /\ Turn[i] = Activation[6 - i]
  BY DEF Activation, Turn, Disposal
<1>6. \A k \in Kinds : \E i \in 1..5 : Activation[i] = k  BY <1>1 DEF Kinds, ToSet
<1> QED  BY <1>1, <1>3, <1>4, <1>5, <1>6

LEMMA ProviderFacts ==
    \A p \in Providers : p.kind \in Kinds /\ p.priority \in Int /\ p.reads \subseteq Kinds
<1>1. {"embedding", "reranker", "knowledge", "memory", "retrieval"} = Kinds
  BY DEF Kinds, Activation, ToSet
<1>2. \A p \in ToSet(Host) : p.kind \in Kinds /\ p.priority \in Int /\ p.reads \subseteq Kinds
  <2> DEFINE R == [id : STRING, kind : Kinds, priority : Int, reads : SUBSET Kinds, opens : BOOLEAN]
  <2>1. \A p \in R : p.kind \in Kinds /\ p.priority \in Int /\ p.reads \subseteq Kinds  OBVIOUS
  <2>2. Host \in Seq(R)  BY ProvidersAssumption
  <2> HIDE DEF R
  <2>3. \A i \in DOMAIN Host : Host[i] \in R  BY <2>2, LenProperties
  <2> QED  BY <2>1, <2>3 DEF ToSet
<1>3. \A p \in ToSet(MemoryExtension) \cup ToSet(KnowledgeExtension) :
        p.kind \in Kinds /\ p.priority \in Int /\ p.reads \subseteq Kinds
  BY <1>1 DEF MemoryExtension, KnowledgeExtension, ToSet, Embedding, Reranker, Memory, Knowledge,
     MemoryRetrieval, KnowledgeRetrieval, Provider, Standalone
<1>4. Providers = ToSet(MemoryExtension) \cup ToSet(KnowledgeExtension) \cup ToSet(Host)
  BY DEF Providers, Extensions
<1> QED  BY <1>2, <1>3, <1>4

-----------------------------------------------------------------------------
\* What is served is declared, is of its kind, and is alive until the runtime is disposed of.
ServedInv ==
    \A k \in Kinds : services[k] # None =>
        /\ services[k] \in Declared /\ services[k].kind = k
        /\ phase # "disposing" => services[k] \in Live

\* The values that live are of kinds whose turn has come, and were made of earlier ones.
OrderInv ==
    /\ phase = "declaring" => Live = {}
    /\ phase = "activating" => \A p \in Live : Place(p.kind) < at
    /\ \A p \in Live : \A q \in built[p] : q \in Providers /\ Place(q.kind) < Place(p.kind)

\* A candidate that was tried has failed; what would be better than what serves has failed,
\* or was disposed of.
BestInv ==
    /\ phase = "activating" => \A p \in tried : state[p] = "failed"
    /\ \A p, q \in Declared : p.kind = q.kind /\ p.priority > q.priority /\ services[p.kind] = q
                                  => state[p] \in {"failed", "disposed"}

\* Of the kinds whose turn is over nothing lives, and of the others all that is served does.
EndInv ==
    /\ phase = "disposing" =>
        /\ \A p \in Live : Place(p.kind) <= 6 - at
        /\ \A k \in Kinds : services[k] # None /\ services[k] \notin Live => Place(k) >= 6 - at
    /\ phase = "disposed" => Live = {}

HandleInv == handles \subseteq Live \cup stuck

RuntimeIInv ==
    /\ phase \in {"declaring", "activating", "ready", "rejected", "disposing", "disposed"}
    /\ RuntimeTypeOK /\ ServedInv /\ OrderInv /\ BestInv /\ EndInv /\ HandleInv

LEMMA RuntimeInitHolds == RuntimeInit => RuntimeIInv
<1> SUFFICES ASSUME RuntimeInit PROVE RuntimeIInv
  OBVIOUS
<1> USE DEF RuntimeInit
<1>1. Declared = {} /\ Live = {}  BY DEF Declared, Live
<1>2. RuntimeTypeOK  BY <1>1 DEF RuntimeTypeOK
<1> QED  BY <1>1, <1>2 DEF RuntimeIInv, ServedInv, OrderInv, BestInv, EndInv, HandleInv

LEMMA DeclareHolds == ASSUME RuntimeIInv, NEW x \in DOMAIN Extensions, Declare(x) PROVE RuntimeIInv'
<1> USE DEF RuntimeIInv
<1>1. /\ phase = "declaring" /\ UNCHANGED <<services, built, handles, phase, at, tried, stuck>>
      /\ Declared' = Declared \cup ToSet(Extensions[x])
      /\ state' = [p \in Providers |->
                      IF p \in ToSet(Extensions[x]) \ Declared THEN "declared" ELSE state[p]]
  BY DEF Declare, Declared
<1>2. Live' = {} /\ Live = {} /\ \A k \in Kinds : services[k] = None
  BY <1>1 DEF OrderInv, ServedInv, Live
<1>3. ToSet(Extensions[x]) \subseteq Providers  BY DEF Providers
<1>4. RuntimeTypeOK'  BY <1>1, <1>2, <1>3 DEF RuntimeTypeOK
<1>5. BestInv'  BY <1>1, <1>2, <1>3, ProviderFacts, ProvidersAssumption DEF BestInv, RuntimeTypeOK
<1> QED  BY <1>1, <1>2, <1>4, <1>5 DEF ServedInv, OrderInv, EndInv, HandleInv

\* A candidate that initializes is new to the values that live.
LEMMA NextIsNew ==
    ASSUME RuntimeIInv, NEW p, Activating, ComesNext(p)
    PROVE  /\ p \in Declared /\ p \in Providers /\ p \notin Live /\ p # None
           /\ p.kind \in Kinds /\ p.kind = Activation[at] /\ Place(p.kind) = at /\ at \in 1..5
           /\ phase = "activating"
<1>1. at \in 1..5 /\ phase = "activating"  BY KindFacts DEF Activating, RuntimeIInv, RuntimeTypeOK
<1>2. p \in Declared /\ p.kind = Activation[at]  BY DEF ComesNext, Left, Candidates
<1>3. p.kind \in Kinds /\ Place(p.kind) = at  BY <1>1, <1>2, KindFacts
<1>4. p \notin Live  BY <1>1, <1>3 DEF RuntimeIInv, OrderInv
<1> QED  BY <1>1, <1>2, <1>3, <1>4, ProvidersAssumption DEF RuntimeIInv, RuntimeTypeOK

LEMMA InitializesHolds == ASSUME RuntimeIInv, NEW p \in Providers, Initializes(p) PROVE RuntimeIInv'
<1> USE DEF RuntimeIInv
<1>1. /\ Activating /\ ComesNext(p)
      /\ state' = [q \in Providers |->
                      IF q = p THEN "active"
                      ELSE IF q \in Candidates /\ state[q] = "declared" THEN "shadowed" ELSE state[q]]
      /\ services' = [services EXCEPT ![p.kind] = p]
      /\ built' = [q \in Live \cup {p} |->
                      IF q = p THEN {services[k] : k \in p.reads} \ {None} ELSE built[q]]
      /\ handles' \subseteq handles \cup {p}
      /\ at' = at + 1 /\ tried' = {} /\ UNCHANGED <<entries, phase, stuck>>
  BY DEF Initializes
<1>2. /\ p \in Declared /\ p \notin Live /\ p # None
      /\ p.kind \in Kinds /\ p.kind = Activation[at] /\ Place(p.kind) = at /\ at \in 1..5
      /\ phase = "activating"
  BY <1>1, NextIsNew
<1>3. Live' = Live \cup {p} /\ Declared' = Declared  BY <1>1 DEF Live, Declared
<1>4. RuntimeTypeOK'  BY <1>1, <1>2, <1>3 DEF RuntimeTypeOK
<1>5. ServedInv'  BY <1>1, <1>2, <1>3 DEF ServedInv, RuntimeTypeOK
<1>6. OrderInv'
  <2>1. \A q \in built'[p] : q \in Providers /\ Place(q.kind) < Place(p.kind)
    <3> SUFFICES ASSUME NEW k \in p.reads, services[k] # None
                 PROVE  services[k] \in Providers /\ Place(services[k].kind) < Place(p.kind)
      BY <1>1, <1>3
    <3>1. k \in Kinds  BY ProviderFacts
    <3>2. services[k] \in Live  BY <1>2, <3>1 DEF ServedInv
    <3> QED  BY <1>2, <3>2 DEF OrderInv, RuntimeTypeOK
  <2>2. \A r \in Live : built'[r] = built[r]  BY <1>1, <1>2
  <2>3. \A r \in Live : Place(r.kind) < at'
    <3>1. \A r \in Live : Place(r.kind) < at /\ Place(r.kind) \in 1..5
      BY <1>2, ProviderFacts, KindFacts DEF OrderInv, RuntimeTypeOK
    <3> QED  BY <1>1, <1>2, <3>1
  <2> QED  BY <1>1, <1>2, <1>3, <2>1, <2>2, <2>3 DEF OrderInv
<1>7. BestInv'
  <2> SUFFICES ASSUME NEW better \in Declared, NEW q \in Declared, better.kind = q.kind,
                      better.priority > q.priority, services'[better.kind] = q
               PROVE  state'[better] \in {"failed", "disposed"}
    BY <1>1, <1>3 DEF BestInv
  <2>1. better \in Providers /\ q \in Providers /\ better.priority \in Int /\ q.priority \in Int
        /\ better.kind \in Kinds
    BY ProviderFacts DEF RuntimeTypeOK
  <2>2. CASE better.kind = p.kind
    <3>1. q = p  BY <1>1, <1>2, <2>2 DEF RuntimeTypeOK
    <3>2. better \notin Left  BY <1>1, <2>1, <3>1 DEF ComesNext, Outranks
    <3>3. better \in Candidates  BY <1>2, <2>2 DEF Candidates
    <3>4. state[better] \in {"failed", "disposed"}
      BY <1>2, <3>2, <3>3 DEF Left, BestInv
    <3>5. better # p  BY <2>1, <3>1
    <3> QED  BY <1>1, <2>1, <3>4, <3>5
  <2>3. CASE better.kind # p.kind
    <3>1. services[better.kind] = q  BY <1>1, <2>1, <2>3 DEF RuntimeTypeOK
    <3>2. state[better] \in {"failed", "disposed"}  BY <3>1 DEF BestInv
    <3> QED  BY <1>1, <2>1, <2>3, <3>2
  <2> QED  BY <2>2, <2>3
<1>8. EndInv' /\ HandleInv'  BY <1>1, <1>2, <1>3 DEF EndInv, HandleInv
<1> QED  BY <1>1, <1>4, <1>5, <1>6, <1>7, <1>8

LEMMA InitializeFailsHolds ==
    ASSUME RuntimeIInv, NEW p \in Providers, InitializeFails(p) PROVE RuntimeIInv'
<1> USE DEF RuntimeIInv
<1>1. /\ Activating /\ ComesNext(p)
      /\ state' = [state EXCEPT ![p] = "failed"] /\ tried' = tried \cup {p}
      /\ UNCHANGED <<entries, services, built, handles, phase, at, stuck>>
  BY DEF InitializeFails
<1>2. p \in Declared /\ p \notin Live  BY <1>1, NextIsNew
<1>3. Live' = Live /\ Declared' = Declared  BY <1>1 DEF Live, Declared
<1>4. RuntimeTypeOK'  BY <1>1, <1>2, <1>3 DEF RuntimeTypeOK
<1>5. BestInv'  BY <1>1, <1>3 DEF BestInv, RuntimeTypeOK
<1> QED  BY <1>1, <1>3, <1>4, <1>5 DEF ServedInv, OrderInv, EndInv, HandleInv

\* The runtime goes on to the next kind or phase.
LEMMA NextKindHolds == ASSUME RuntimeIInv, NextKind PROVE RuntimeIInv'
<1> USE DEF RuntimeIInv
<1>1. /\ at \in 1..5 /\ phase = "activating" /\ at' = at + 1 /\ tried' = {}
      /\ UNCHANGED <<entries, state, services, built, handles, phase, stuck>>
  BY KindFacts DEF NextKind, Activating, RuntimeTypeOK
<1>2. Live' = Live /\ Declared' = Declared  BY <1>1 DEF Live, Declared
<1>3. \A p \in Live : Place(p.kind) \in 1..5
  BY ProviderFacts, KindFacts DEF RuntimeTypeOK
<1>4. OrderInv'  BY <1>1, <1>2, <1>3 DEF OrderInv
<1> QED  BY <1>1, <1>2, <1>4 DEF RuntimeTypeOK, ServedInv, BestInv, EndInv, HandleInv

LEMMA PhaseHolds ==
    ASSUME RuntimeIInv, UNCHANGED <<entries, state, services, built, handles, stuck>>,
           \/ phase = "declaring" /\ phase' = "activating" /\ at' = 1 /\ tried' = {}
           \/ phase = "activating" /\ phase' \in {"ready", "rejected"} /\ at' = at
           \/ AtRest /\ phase' = "disposing" /\ at' = 1
    PROVE  RuntimeIInv'
<1> USE DEF RuntimeIInv
<1>1. Live' = Live /\ Declared' = Declared  BY DEF Live, Declared
<1>2. \A p \in Live : Place(p.kind) \in 1..5
  BY ProviderFacts, KindFacts DEF RuntimeTypeOK
<1>3. RuntimeTypeOK' /\ ServedInv' /\ HandleInv'
  BY <1>1 DEF RuntimeTypeOK, ServedInv, HandleInv, AtRest
<1>4. OrderInv' /\ BestInv'  BY <1>1 DEF OrderInv, BestInv, AtRest
<1>5. EndInv'
  <2>1. phase' = "disposing" => \A k \in Kinds : services[k] # None => services[k] \in Live
    BY DEF ServedInv, AtRest
  <2> QED  BY <1>1, <1>2, <2>1 DEF EndInv, AtRest
<1> QED  BY <1>3, <1>4, <1>5 DEF AtRest

LEMMA UnregisterHolds == ASSUME RuntimeIInv, NEW p \in Providers, Unregister(p) PROVE RuntimeIInv'
<1> USE DEF RuntimeIInv
<1>1. /\ phase \in {"declaring", "ready", "rejected"} /\ state' = [state EXCEPT ![p] = "disposed"]
      /\ UNCHANGED <<entries, phase, at, tried>>
  BY DEF Unregister
<1>2. Declared' = Declared  BY <1>1 DEF Declared
<1>3. CASE p \in Live
  <2>1. /\ services' = [services EXCEPT ![p.kind] = None]
        /\ built' = Restrict(built, Live \ {p})
        /\ handles' \subseteq handles /\ stuck \subseteq stuck'
        /\ p \notin handles' \/ p \in stuck'
    BY <1>3 DEF Unregister
  <2>2. /\ Live' = Live \ {p} /\ \A q \in Live' : built'[q] = built[q]
    BY <2>1 DEF Live, Restrict
  <2>3. p.kind \in Kinds  BY ProviderFacts
  <2>4. RuntimeTypeOK'  BY <1>1, <1>2, <2>1, <2>2 DEF RuntimeTypeOK
  <2>5. ServedInv'
    <3>1. \A k \in Kinds : services'[k] = IF k = p.kind THEN None ELSE services[k]
      BY <2>1 DEF RuntimeTypeOK
    <3> QED  BY <1>1, <1>2, <2>2, <3>1 DEF ServedInv
  <2>6. BestInv'
    <3>1. \A k \in Kinds : services'[k] = IF k = p.kind THEN None ELSE services[k]
      BY <2>1 DEF RuntimeTypeOK
    <3>2. \A q \in Declared : q.kind \in Kinds /\ q # None
      BY ProviderFacts, ProvidersAssumption DEF RuntimeTypeOK
    <3>3. \A q \in Declared : state'[q] = IF q = p THEN "disposed" ELSE state[q]
      BY <1>1 DEF RuntimeTypeOK
    <3> QED  BY <1>1, <1>2, <3>1, <3>2, <3>3 DEF BestInv
  <2>7. OrderInv' /\ EndInv' /\ HandleInv'
    BY <1>1, <2>1, <2>2 DEF OrderInv, EndInv, HandleInv
  <2> QED  BY <1>1, <2>4, <2>5, <2>6, <2>7
<1>4. CASE p \notin Live
  <2>1. UNCHANGED <<services, built, handles, stuck>>  BY <1>4 DEF Unregister
  <2>2. Live' = Live  BY <2>1 DEF Live
  <2>3. RuntimeTypeOK'  BY <1>1, <1>2, <1>4, <2>1, <2>2 DEF RuntimeTypeOK
  <2>4. BestInv'  BY <1>1, <1>2, <2>1 DEF BestInv, RuntimeTypeOK
  <2> QED  BY <1>1, <1>2, <2>1, <2>2, <2>3, <2>4 DEF ServedInv, OrderInv, EndInv, HandleInv
<1> QED  BY <1>3, <1>4

LEMMA DisposeHolds == ASSUME RuntimeIInv, NEW p \in Providers, Dispose(p) PROVE RuntimeIInv'
<1> USE DEF RuntimeIInv
<1>1. /\ phase = "disposing" /\ at \in 1..5 /\ p \in Declared /\ p.kind = Turn[at]
      /\ built' = Restrict(built, Live \ {p}) /\ UNCHANGED <<entries, services, phase, at, tried>>
      /\ handles' \subseteq handles /\ stuck \subseteq stuck' /\ (p \notin handles' \/ p \in stuck')
  BY KindFacts DEF Dispose, Due, RuntimeTypeOK
<1>2. state' = [state EXCEPT ![p] = "disposed"] \/ state' = [state EXCEPT ![p] = "failed"]
  BY DEF Dispose
<1>3. Live' = Live \ {p} /\ Declared' = Declared /\ \A q \in Live' : built'[q] = built[q]
  BY <1>1 DEF Live, Declared, Restrict
<1>4. p.kind \in Kinds /\ Place(p.kind) = 6 - at  BY <1>1, KindFacts
<1>5. RuntimeTypeOK'  BY <1>1, <1>2, <1>3 DEF RuntimeTypeOK
<1>6. BestInv'  BY <1>1, <1>2, <1>3 DEF BestInv, RuntimeTypeOK
<1>7. EndInv'
  <2> SUFFICES ASSUME NEW k \in Kinds, services[k] # None, services[k] \notin Live'
               PROVE  Place(k) >= 6 - at
    BY <1>1, <1>3 DEF EndInv
  <2>1. CASE services[k] = p  BY <1>4, <2>1 DEF ServedInv, RuntimeTypeOK
  <2>2. CASE services[k] # p  BY <1>1, <1>3, <2>2 DEF EndInv
  <2> QED  BY <2>1, <2>2
<1> QED  BY <1>1, <1>3, <1>5, <1>6, <1>7 DEF ServedInv, OrderInv, HandleInv

LEMMA DisposeNextHolds == ASSUME RuntimeIInv, DisposeNext PROVE RuntimeIInv'
<1> USE DEF RuntimeIInv
<1>1. /\ phase = "disposing" /\ at \in 1..5 /\ Due = {} /\ at' = at + 1
      /\ UNCHANGED <<entries, state, services, built, handles, phase, tried, stuck>>
  BY KindFacts DEF DisposeNext, RuntimeTypeOK
<1>2. Live' = Live /\ Declared' = Declared  BY <1>1 DEF Live, Declared
<1>3. \A p \in Live : Place(p.kind) <= 6 - at'
  <2> SUFFICES ASSUME NEW p \in Live PROVE Place(p.kind) <= 6 - at'
    OBVIOUS
  <2>1. p \in Declared /\ state[p] = "active" /\ p.kind \in Kinds
    BY ProviderFacts DEF RuntimeTypeOK
  <2>2. p.kind # Turn[at]  BY <1>1, <2>1 DEF Due
  <2>3. Place(p.kind) # 6 - at  BY <1>1, <2>1, <2>2, KindFacts
  <2>4. Place(p.kind) <= 6 - at /\ Place(p.kind) \in 1..5  BY <1>1, <2>1, KindFacts DEF EndInv
  <2> QED  BY <1>1, <2>3, <2>4
<1>4. \A k \in Kinds : services[k] # None /\ services[k] \notin Live => Place(k) >= 6 - at'
  BY <1>1, KindFacts DEF EndInv
<1> QED
  BY <1>1, <1>2, <1>3, <1>4 DEF RuntimeTypeOK, ServedInv, OrderInv, BestInv, EndInv, HandleInv

\* After the last kind nothing lives.
LEMMA DisposedHolds == ASSUME RuntimeIInv, Disposed PROVE RuntimeIInv'
<1> USE DEF RuntimeIInv
<1>1. /\ phase = "disposing" /\ at = 6 /\ phase' = "disposed"
      /\ services' = [k \in Kinds |-> None]
      /\ state' = [p \in Providers |-> IF state[p] \in {"declared", "shadowed"} THEN "disposed" ELSE state[p]]
      /\ UNCHANGED <<entries, built, handles, at, tried, stuck>>
  BY KindFacts DEF Disposed, RuntimeTypeOK
<1>2. Live' = Live /\ Declared' = Declared  BY <1>1 DEF Live, Declared
<1>3. Live = {}
  <2>1. \A p \in Live : Place(p.kind) <= 6 - 6 /\ Place(p.kind) \in 1..5
    BY <1>1, ProviderFacts, KindFacts DEF EndInv, RuntimeTypeOK
  <2> QED  BY <2>1
<1>4. RuntimeTypeOK'  BY <1>1, <1>2, <1>3 DEF RuntimeTypeOK
<1>5. BestInv'  BY <1>1, <1>2, ProviderFacts, ProvidersAssumption DEF BestInv, RuntimeTypeOK
<1> QED  BY <1>1, <1>2, <1>3, <1>4, <1>5 DEF ServedInv, OrderInv, EndInv, HandleInv

LEMMA NewSessionHolds == ASSUME RuntimeIInv, NewSession PROVE RuntimeIInv'
<1> USE DEF RuntimeIInv, NewSession
<1>1. Declared' = {} /\ Live' = {}  BY DEF Declared, Live
<1>2. RuntimeTypeOK'  BY <1>1 DEF RuntimeTypeOK
<1>3. HandleInv'  BY <1>1 DEF HandleInv, EndInv
<1> QED  BY <1>1, <1>2, <1>3 DEF ServedInv, OrderInv, BestInv, EndInv

LEMMA RuntimeNextHolds == RuntimeIInv /\ [RuntimeNext]_runtimeVars => RuntimeIInv'
<1> SUFFICES ASSUME RuntimeIInv, [RuntimeNext]_runtimeVars PROVE RuntimeIInv'
  OBVIOUS
<1>1. CASE Ready  BY <1>1, PhaseHolds DEF Ready
<1>2. CASE Conflict  BY <1>2, PhaseHolds DEF Conflict, Activating
<1>3. CASE Activated  BY <1>3, PhaseHolds DEF Activated
<1>4. CASE Shutdown  BY <1>4, PhaseHolds DEF Shutdown
<1>5. CASE UNCHANGED runtimeVars
  <2>1. Live' = Live /\ Declared' = Declared  BY <1>5 DEF runtimeVars, Live, Declared
  <2> QED
    BY <1>5, <2>1 DEF runtimeVars, RuntimeIInv, RuntimeTypeOK, ServedInv, OrderInv, BestInv, EndInv,
       HandleInv
<1> QED
  BY <1>1, <1>2, <1>3, <1>4, <1>5, DeclareHolds, InitializesHolds, InitializeFailsHolds,
     NextKindHolds, UnregisterHolds, DisposeHolds, DisposeNextHolds, DisposedHolds, NewSessionHolds
  DEF RuntimeNext

\* Runtime: for any host and any faults, the best provider of a kind that is alive serves, what
\* was built on a value is disposed of before it, and every handle of the store is given back,
\* unless the disposal of its provider failed.
THEOREM ProvidersAlwaysHold == RuntimeSpec => []ProvidersHold
<1>1. RuntimeInit => RuntimeIInv  BY RuntimeInitHolds
<1>2. RuntimeIInv /\ [RuntimeNext]_runtimeVars => RuntimeIInv'  BY RuntimeNextHolds
<1>3. RuntimeIInv => ProvidersHold
  <2> SUFFICES ASSUME RuntimeIInv PROVE ProvidersHold
    OBVIOUS
  <2> USE DEF RuntimeIInv
  <2>1. BestServes  BY DEF BestServes, BestInv
  <2>2. ServedIsLive  BY DEF ServedIsLive, ServedInv, AtRest
  <2>3. HandlesReturn  BY DEF HandlesReturn, HandleInv, EndInv
  <2>4. DependentsFirst
    <3> SUFFICES ASSUME phase = "disposing", NEW p \in Live, NEW q \in built[p],
                        q \notin Live, services[q.kind] = q
                 PROVE  FALSE
      BY DEF DependentsFirst
    <3>1. q \in Providers /\ q.kind \in Kinds /\ q # None /\ p.kind \in Kinds
      BY ProviderFacts, ProvidersAssumption DEF OrderInv, RuntimeTypeOK
    <3>2. Place(q.kind) >= 6 - at /\ Place(p.kind) <= 6 - at  BY <3>1 DEF EndInv
    <3>3. Place(q.kind) < Place(p.kind)  BY DEF OrderInv
    <3>4. Place(q.kind) \in 1..5 /\ Place(p.kind) \in 1..5 /\ at \in 1..6
      BY <3>1, KindFacts DEF RuntimeTypeOK
    <3> QED  BY <3>2, <3>3, <3>4
  <2> QED  BY <2>1, <2>2, <2>3, <2>4 DEF ProvidersHold
<1> QED  BY <1>1, <1>2, <1>3, PTL DEF RuntimeSpec
=============================================================================
