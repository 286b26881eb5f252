------------------------ MODULE KnowledgeJobs_proofs ------------------------
(***************************************************************************)
(* Proofs about KnowledgeJobs for every set of commands, jobs and callers, *)
(* every number of attempts, restarts and failures of the store.           *)
(***************************************************************************)
EXTENDS KnowledgeJobs, TLAPS

\* The job id of a call is its own, and its record is not written yet.
CallInv ==
  \A c \in Caller :
    \/ call[c] = NoCall
    \/ /\ call[c].pc = "persist" /\ call[c].key \in Key /\ call[c].job \in Job
       /\ record[call[c].job] = NoRecord
       /\ \A d \in Caller : call[d].job = call[c].job => d = c

\* A task writes the record of a job of its own key.
RunInv ==
  \A k \in Key : InFlight(k) => run[k].job \in Job /\ record[run[k].job].key = k

\* The recovery writes back records under the key they have.
RecoveringInv ==
  \A j \in Job : recovering[j] # NoRecord =>
    recovering[j].key = record[j].key /\ recovering[j].key \in Key

RecordInv == \A j \in Job : record[j].key = NoKey <=> record[j] = NoRecord

KeyInv == CallInv /\ RunInv /\ RecoveringInv /\ RecordInv

-----------------------------------------------------------------------------
RunType == [pc : RunPc, job : Job \cup {NoJob}, attempts : 0..MaxAttempts,
            result : {"none", "complete", "partial", "transient", "permanent"},
            aborted : BOOLEAN]

LEMMA CopyType ==
  ASSUME record \in [Job -> Record], NEW j, NEW k \in Key, NEW s \in State,
         NEW n \in 0..MaxAttempts, Copy(j, k, s, n)
  PROVE  record' \in [Job -> Record]
BY DEF Copy, Record

LEMMA ScheduleType ==
  ASSUME run \in [Key -> RunType], NEW k \in Key, NEW j \in Job, NEW n \in 0..MaxAttempts,
         Schedule(k, j, n)
  PROVE  run' \in [Key -> RunType]
<1>1. [NoRun EXCEPT !.pc = "turn", !.job = j, !.attempts = n] \in RunType
  BY DEF NoRun, RunType, RunPc
<1> QED  BY <1>1 DEF Schedule

CallType == [pc : {"none", "persist"}, key : Key \cup {NoKey}, job : Job \cup {NoJob}]

LEMMA ScheduleJob ==
  ASSUME run \in [Key -> RunType], NEW k \in Key, NEW j, NEW n, Schedule(k, j, n)
  PROVE  \A l \in Key : run'[l] = run[l] \/ (l = k /\ run'[l].job = j)
<1>1. [NoRun EXCEPT !.pc = "turn", !.job = j, !.attempts = n].job = j
  BY DEF NoRun
<1> QED  BY <1>1 DEF Schedule

LEMMA Nothing == NoRun \in RunType /\ NoRecord \in Record /\ NoCall \in CallType
<1>1. 0 \in 0..MaxAttempts  BY JobsAssumption
<1> QED  BY <1>1 DEF NoRun, NoRecord, NoCall, RunType, RunPc, Record, State, CallType

LEMMA TypeInit == Init => TypeOK
<1> SUFFICES ASSUME Init PROVE TypeOK
  OBVIOUS
<1>1. record \in [Job -> Record] /\ recovering \in [Job -> Record]
  BY Nothing DEF Init
<1>2. run \in [Key -> RunType]  BY Nothing DEF Init
<1>3. call \in [Caller -> CallType]  BY Nothing DEF Init
<1>4. crashes \in 0..MaxCrashes /\ failures \in 0..MaxFailures
  BY JobsAssumption DEF Init
<1>5. recovered \in BOOLEAN /\ pending \subseteq Key  BY DEF Init
<1> QED  BY <1>1, <1>2, <1>3, <1>4, <1>5 DEF TypeOK, RunType, CallType

LEMMA TypeStep == TypeOK /\ KeyInv /\ [Next]_vars => TypeOK'
<1> SUFFICES ASSUME TypeOK, KeyInv, [Next]_vars PROVE TypeOK'
  OBVIOUS
<1> USE JobsAssumption
<1>r. run \in [Key -> RunType]  BY DEF TypeOK, RunType
<1>s. Unresolved \subseteq State /\ {"succeeded", "dead"} \subseteq State
  BY DEF State
<1>1. ASSUME NEW k \in Key, EnqueueExisting(k) PROVE TypeOK'
  <2>1. PICK j \in Duplicates(k) : Schedule(k, j, record[j].attempts)
    BY <1>1 DEF EnqueueExisting
  <2>2. j \in Job /\ record[j].attempts \in 0..MaxAttempts
    BY DEF Duplicates, TypeOK, Record
  <2>3. run' \in [Key -> RunType]  BY <1>r, <2>1, <2>2, ScheduleType
  <2>4. failures' \in 0..MaxFailures  BY <2>1 DEF Schedule, Works, Fails, TypeOK
  <2> QED  BY <1>1, <2>3, <2>4 DEF EnqueueExisting, TypeOK, RunType
<1>2. ASSUME NEW c \in Caller, NEW k \in Key, EnqueueNew(c, k) PROVE TypeOK'
  BY <1>2 DEF EnqueueNew, Fresh, TypeOK
<1>3. ASSUME NEW c \in Caller, EnqueuePersist(c) PROVE TypeOK'
  <2>1. call[c].key \in Key /\ call[c].job \in Job
    BY <1>3 DEF EnqueuePersist, KeyInv, CallInv, NoCall
  <2>2. call' \in [Caller -> [pc : {"none", "persist"}, key : Key \cup {NoKey},
                              job : Job \cup {NoJob}]]
    BY <1>3 DEF EnqueuePersist, TypeOK, NoCall
  <2>3. record' \in [Job -> Record]
    BY <1>3, <1>s, <2>1, CopyType DEF EnqueuePersist, TypeOK, Unresolved
  <2>4. run' \in [Key -> RunType]
    BY <1>3, <1>r, <2>1, ScheduleType DEF EnqueuePersist
  <2>5. pending' \subseteq Key /\ failures' \in 0..MaxFailures
    BY <1>3, <2>1 DEF EnqueuePersist, Schedule, Accept, Works, Fails, TypeOK
  <2> QED  BY <1>3, <2>2, <2>3, <2>4, <2>5 DEF EnqueuePersist, TypeOK, RunType
<1>4. ASSUME NEW k \in Key, RunStep(k) PROVE TypeOK'
  <2>f. ASSUME RunFrame, Works \/ Fails, record' \in [Job -> Record],
               run' \in [Key -> RunType], pending' \subseteq Key
        PROVE  TypeOK'
    BY <2>f DEF RunFrame, Works, Fails, TypeOK, RunType
  <2>p. record \in [Job -> Record] /\ pending \subseteq Key  BY DEF TypeOK
  <2>e. NoRun \in RunType  BY DEF NoRun, RunType, RunPc
  <2>w. ASSUME NEW s \in State, Write(k, s) PROVE record' \in [Job -> Record]
    <3>1. run[k].attempts \in 0..MaxAttempts  BY <1>r DEF RunType
    <3> QED  BY <2>w, <2>p, <3>1, CopyType DEF Write
  <2>1. CASE TurnEnds(k)
    BY <2>1, <2>f, <2>p, <2>e, <1>r DEF TurnEnds, End
  <2>2. CASE Lease(k)
    <3>1. run[k].attempts + 1 \in 0..MaxAttempts
      BY <2>2, <1>r DEF Lease, Spent, RunType
    <3>2. [run[k] EXCEPT !.pc = "leased", !.attempts = run[k].attempts + 1] \in RunType
      BY <1>r, <3>1 DEF RunType, RunPc
    <3>3. run' \in [Key -> RunType]
      BY <2>2, <1>r, <2>e, <3>2 DEF Lease, End
    <3>4. record' \in [Job -> Record]
      BY <2>2, <2>p, <1>s, <3>1, CopyType DEF Lease, Unresolved
    <3> QED  BY <2>2, <2>f, <2>p, <3>3, <3>4 DEF Lease
  <2>3. CASE WriteRunning(k)
    <3>1. record' \in [Job -> Record]
      BY <2>3, <2>w, <2>p, <1>s DEF WriteRunning, Unresolved
    <3>2. run' \in [Key -> RunType]
      BY <2>3, <1>r, <2>e DEF WriteRunning, Goto, End, RunType, RunPc
    <3> QED  BY <2>3, <2>f, <2>p, <3>1, <3>2 DEF WriteRunning
  <2>4. CASE IngestReturns(k)
    <3>1. [run[k] EXCEPT !.pc = "succeed",
                         !.result = IF run[k].aborted THEN "partial" ELSE "complete"] \in RunType
      BY <1>r DEF RunType, RunPc
    <3>2. run' \in [Key -> RunType]
      BY <2>4, <1>r, <3>1 DEF IngestReturns
    <3> QED  BY <2>4, <2>f, <2>p, <3>2 DEF IngestReturns
  <2>5. CASE IngestThrows(k)
    <3>1. PICK error \in {"transient", "permanent"} :
            run' = [run EXCEPT ![k] = [@ EXCEPT !.pc = "fail", !.result = error]]
      BY <2>5 DEF IngestThrows
    <3>2. [run[k] EXCEPT !.pc = "fail", !.result = error] \in RunType
      BY <1>r DEF RunType, RunPc
    <3>3. run' \in [Key -> RunType]
      BY <1>r, <3>1, <3>2
    <3> QED  BY <2>5, <2>f, <2>p, <3>3 DEF IngestThrows
  <2>6. CASE WriteSucceeded(k)
    <3>1. record' \in [Job -> Record]
      BY <2>6, <2>w, <2>p, <1>s DEF WriteSucceeded
    <3>2. [run[k] EXCEPT !.pc = "fail", !.result = "transient"] \in RunType
      BY <1>r DEF RunType, RunPc
    <3>3. run' \in [Key -> RunType]
      BY <2>6, <1>r, <2>e, <3>2 DEF WriteSucceeded, End
    <3> QED  BY <2>6, <2>f, <2>p, <3>1, <3>3 DEF WriteSucceeded
  <2>7. CASE WriteFailed(k)
    <3>1. record' \in [Job -> Record]
      BY <2>7, <2>w, <2>p, <1>s DEF WriteFailed, Unresolved
    <3>2. AfterFailure(k) \in RunType
      BY <1>r, <2>e DEF AfterFailure, RunType, RunPc
    <3>3. run' \in [Key -> RunType]
      BY <2>7, <1>r, <2>e, <3>2 DEF WriteFailed, End
    <3> QED  BY <2>7, <2>f, <2>p, <3>1, <3>3 DEF WriteFailed
  <2>8. CASE WriteDead(k)
    <3>1. record' \in [Job -> Record]
      BY <2>8, <2>w, <2>p, <1>s DEF WriteDead
    <3> QED  BY <2>8, <2>f, <2>p, <2>e, <1>r, <3>1 DEF WriteDead, End
  <2>9. CASE WriteQueued(k)
    <3>1. record' \in [Job -> Record]
      BY <2>9, <2>w, <2>p, <1>s DEF WriteQueued, Unresolved
    <3>2. run' \in [Key -> RunType]
      BY <2>9, <1>r, <2>e DEF WriteQueued, Goto, End, RunType, RunPc
    <3> QED  BY <2>9, <2>f, <2>p, <3>1, <3>2 DEF WriteQueued
  <2>10. CASE DelayEnds(k)
    <3>1. run' \in [Key -> RunType]
      BY <2>10, <1>r, <2>e DEF DelayEnds, Goto, End, RunType, RunPc
    <3> QED  BY <2>10, <2>f, <2>p, <3>1 DEF DelayEnds
  <2> QED  BY <1>4, <2>1, <2>2, <2>3, <2>4, <2>5, <2>6, <2>7, <2>8, <2>9, <2>10 DEF RunStep
<1>5. ASSUME NEW k \in Key, Abort(k) PROVE TypeOK'
  BY <1>5 DEF Abort, TypeOK
<1>6. CASE RecoverRead
  <2>1. recovering' \in [Job -> Record]
    BY <1>6 DEF RecoverRead, TypeOK, Record, NoRecord, State
  <2> QED  BY <1>6, <2>1 DEF RecoverRead, Works, Fails, TypeOK
<1>7. ASSUME NEW j \in Job, RecoverOne(j) PROVE TypeOK'
  <2>1. NoRecord \in Record  BY DEF NoRecord, Record, State
  <2>2. recovering' \in [Job -> Record]
    BY <1>7, <2>1 DEF RecoverOne, TypeOK
  <2>3. recovering[j].key \in Key /\ recovering[j].attempts \in 0..MaxAttempts
    BY <1>7 DEF RecoverOne, KeyInv, RecoveringInv, TypeOK, Record
  <2>4. record' \in [Job -> Record]
    BY <1>7, <1>s, <2>3, CopyType DEF RecoverOne, TypeOK, Unresolved
  <2>5. run' \in [Key -> RunType]
    BY <1>7, <1>r, <2>3, ScheduleType DEF RecoverOne
  <2>6. pending' \subseteq Key /\ failures' \in 0..MaxFailures
    BY <1>7 DEF RecoverOne, Schedule, Works, Fails, TypeOK
  <2> QED  BY <1>7, <2>2, <2>4, <2>5, <2>6 DEF RecoverOne, TypeOK, RunType
<1>8. CASE Crash
  <2>1. recovering' \in [Job -> Record]  BY <1>8, Nothing DEF Crash
  <2>2. run' \in [Key -> RunType]  BY <1>8, Nothing DEF Crash
  <2>3. call' \in [Caller -> CallType]  BY <1>8, Nothing DEF Crash
  <2>4. crashes' \in 0..MaxCrashes  BY <1>8 DEF Crash, TypeOK
  <2> QED  BY <1>8, <2>1, <2>2, <2>3, <2>4 DEF Crash, TypeOK, RunType, CallType
<1>9. CASE UNCHANGED vars  BY <1>9 DEF vars, TypeOK
<1> QED
  BY <1>1, <1>2, <1>3, <1>4, <1>5, <1>6, <1>7, <1>8, <1>9 DEF Next, Enqueue, Recover

-----------------------------------------------------------------------------
LEMMA KeyInit == Init => KeyInv
BY DEF Init, KeyInv, CallInv, RunInv, RecoveringInv, RecordInv, NoRecord, NoRun, InFlight

\* Every write of a record names the key the record has, or is its first.
LEMMA KeyOfCopy ==
  ASSUME TypeOK, KeyInv, NEW j \in Job, NEW k \in Key, NEW s, NEW n, Copy(j, k, s, n),
         record[j].key \in {k, NoKey}, s # "none"
  PROVE  /\ RecordInv'
         /\ \A i \in Job : record[i].key # NoKey => record'[i].key = record[i].key
         /\ record'[j].key = k
         /\ \A i \in Job : i # j => record'[i] = record[i]
<1>1. \A i \in Job : record'[i] = IF i = j THEN [key |-> k, state |-> s, attempts |-> n]
                                ELSE record[i]
  BY DEF Copy, TypeOK
<1>2. NoKey # k  BY JobsAssumption
<1> QED  BY <1>1, <1>2 DEF KeyInv, RecordInv, NoRecord

\* A step of a task keeps its job, or ends it.
LEMMA JobOfStep ==
  ASSUME TypeOK, NEW k \in Key, RunStep(k), InFlight(k)
  PROVE  \A l \in Key : run'[l].pc = "none" \/ (run'[l].job = run[l].job /\ InFlight(l))
<1> DEFINE To(r) == run' = [run EXCEPT ![k] = r]
<1>1. ASSUME NEW r, To(r), r.pc = "none" \/ r.job = run[k].job
      PROVE  \A l \in Key : run'[l].pc = "none" \/ (run'[l].job = run[l].job /\ InFlight(l))
  BY <1>1 DEF TypeOK, InFlight
<1>2. End(k) => To(NoRun)  BY DEF End
<1>3. NoRun.pc = "none"  BY DEF NoRun
<1>4. ASSUME NEW pc, Goto(k, pc)
      PROVE  \A l \in Key : run'[l].pc = "none" \/ (run'[l].job = run[l].job /\ InFlight(l))
  BY <1>4 DEF Goto, TypeOK, InFlight
<1>5. ASSUME NEW pc, NEW result
      PROVE  [run[k] EXCEPT !.pc = pc, !.result = result].job = run[k].job
  BY DEF TypeOK
<1>6. ASSUME NEW pc, NEW n
      PROVE  [run[k] EXCEPT !.pc = pc, !.attempts = n].job = run[k].job
  BY DEF TypeOK
<1>7. ASSUME NEW pc PROVE [run[k] EXCEPT !.pc = pc].job = run[k].job
  BY DEF TypeOK
<1>8. CASE TurnEnds(k)  BY <1>8, <1>1, <1>2, <1>3 DEF TurnEnds
<1>9. CASE Lease(k)
  <2> DEFINE r == [run[k] EXCEPT !.pc = "leased", !.attempts = run[k].attempts + 1]
  <2>1. r.job = run[k].job  BY <1>6
  <2>2. To(r) \/ End(k)  BY <1>9 DEF Lease
  <2> HIDE DEF r
  <2> QED  BY <1>1, <1>2, <1>3, <2>1, <2>2
<1>10. CASE WriteRunning(k)  BY <1>10, <1>1, <1>2, <1>3, <1>4 DEF WriteRunning
<1>11. CASE IngestReturns(k)  BY <1>11, <1>1, <1>5 DEF IngestReturns
<1>12. CASE IngestThrows(k)  BY <1>12, <1>1, <1>5 DEF IngestThrows
<1>13. CASE WriteSucceeded(k)  BY <1>13, <1>1, <1>2, <1>3, <1>5 DEF WriteSucceeded
<1>14. CASE WriteFailed(k)
  <2>1. AfterFailure(k).pc = "none" \/ AfterFailure(k).job = run[k].job
    BY <1>3, <1>7 DEF AfterFailure
  <2> QED  BY <1>14, <1>1, <1>2, <1>3, <2>1 DEF WriteFailed
<1>15. CASE WriteDead(k)  BY <1>15, <1>1, <1>2, <1>3 DEF WriteDead
<1>16. CASE WriteQueued(k)  BY <1>16, <1>1, <1>2, <1>3, <1>4 DEF WriteQueued
<1>17. CASE DelayEnds(k)  BY <1>17, <1>1, <1>2, <1>3, <1>4 DEF DelayEnds
<1> QED
  BY <1>8, <1>9, <1>10, <1>11, <1>12, <1>13, <1>14, <1>15, <1>16, <1>17 DEF RunStep

\* The parts of KeyInv when records keep their keys.
LEMMA KeysKept ==
  ASSUME TypeOK, KeyInv, RecordInv',
         \A i \in Job : record[i].key # NoKey => record'[i].key = record[i].key
  PROVE  /\ \A k \in Key : InFlight(k) =>
              run[k].job \in Job /\ record'[run[k].job].key = k
         /\ \A j \in Job : recovering[j] # NoRecord =>
              recovering[j].key = record'[j].key /\ recovering[j].key \in Key
BY JobsAssumption DEF KeyInv, RunInv, RecoveringInv

LEMMA KeyStep == TypeOK /\ KeyInv /\ [Next]_vars => KeyInv'
<1> SUFFICES ASSUME TypeOK, KeyInv, [Next]_vars PROVE KeyInv'
  OBVIOUS
<1> USE JobsAssumption
<1>1. ASSUME NEW k \in Key, EnqueueExisting(k) PROVE KeyInv'
  <2>1. PICK j \in Duplicates(k) : Schedule(k, j, record[j].attempts)
    BY <1>1 DEF EnqueueExisting
  <2>2. RunInv'
    <3>1. \A l \in Key : run'[l] = run[l] \/ (l = k /\ run'[l].job = j)
      BY <2>1, ScheduleJob DEF TypeOK, RunType
    <3> QED  BY <1>1, <2>1, <3>1 DEF EnqueueExisting, Duplicates, KeyInv, RunInv, InFlight
  <2> QED  BY <1>1, <2>2 DEF EnqueueExisting, KeyInv, CallInv, RecoveringInv, RecordInv
<1>2. ASSUME NEW c \in Caller, NEW k \in Key, EnqueueNew(c, k) PROVE KeyInv'
  <2>1. PICK j \in Fresh : call' = [call EXCEPT ![c] = [pc |-> "persist", key |-> k, job |-> j]]
    BY <1>2 DEF EnqueueNew
  <2>2. CallInv'
    BY <1>2, <2>1 DEF EnqueueNew, Fresh, KeyInv, CallInv, TypeOK, NoCall
  <2> QED  BY <1>2, <2>2 DEF EnqueueNew, KeyInv, RunInv, RecoveringInv, RecordInv, InFlight
<1>3. ASSUME NEW c \in Caller, EnqueuePersist(c) PROVE KeyInv'
  <2> DEFINE j == call[c].job
             k == call[c].key
  <2>1. /\ k \in Key /\ j \in Job /\ record[j] = NoRecord
        /\ \A d \in Caller : call[d].job = j => d = c
    BY <1>3 DEF EnqueuePersist, KeyInv, CallInv, NoCall
  <2>2. call' = [call EXCEPT ![c] = NoCall]  BY <1>3 DEF EnqueuePersist
  <2>3. CASE Copy(j, k, "queued", 0) /\ Schedule(k, j, 0)
    <3>1. record[j].key = NoKey  BY <2>1 DEF NoRecord
    <3>2. /\ RecordInv'
          /\ \A i \in Job : record[i].key # NoKey => record'[i].key = record[i].key
          /\ record'[j].key = k
          /\ \A i \in Job : i # j => record'[i] = record[i]
      BY <2>1, <2>3, <3>1, KeyOfCopy
    <3>3. CallInv'
      BY <2>1, <2>2, <3>2 DEF KeyInv, CallInv, TypeOK, NoCall
    <3>4. RunInv'
      <4>1. \A l \in Key : run'[l] = run[l] \/ (l = k /\ run'[l].job = j)
        BY <2>1, <2>3, ScheduleJob DEF TypeOK, RunType
      <4> QED  BY <2>1, <3>2, <4>1, KeysKept DEF RunInv, InFlight
    <3>5. RecoveringInv'
      BY <1>3, <3>2, KeysKept DEF EnqueuePersist, RecoveringInv
    <3> QED  BY <3>2, <3>3, <3>4, <3>5 DEF KeyInv
  <2>4. CASE UNCHANGED <<record, run>>
    <3>1. CallInv'  BY <2>1, <2>2, <2>4 DEF KeyInv, CallInv, TypeOK, NoCall
    <3> QED
      BY <1>3, <2>4, <3>1 DEF EnqueuePersist, KeyInv, RunInv, RecoveringInv, RecordInv, InFlight
  <2> QED  BY <1>3, <2>3, <2>4 DEF EnqueuePersist
<1>4. ASSUME NEW k \in Key, RunStep(k) PROVE KeyInv'
  <2>1. InFlight(k) /\ run[k].job \in Job /\ record[run[k].job].key = k
    BY <1>4 DEF RunStep, TurnEnds, Lease, WriteRunning, IngestReturns, IngestThrows, WriteSucceeded,
       WriteFailed, WriteDead, WriteQueued, DelayEnds, InFlight, KeyInv, RunInv
  <2>2. \/ UNCHANGED record
        \/ \E s \in State \ {"none"}, n \in 0..MaxAttempts + 1 : Copy(run[k].job, k, s, n)
    <3>1. run[k].attempts \in 0..MaxAttempts  BY DEF TypeOK
    <3>2. /\ run[k].attempts \in 0..MaxAttempts + 1
          /\ run[k].attempts + 1 \in 0..MaxAttempts + 1
      BY <3>1
    <3> QED
      BY <1>4, <3>2 DEF RunStep, TurnEnds, Lease, WriteRunning, IngestReturns, IngestThrows,
         WriteSucceeded, WriteFailed, WriteDead, WriteQueued, DelayEnds, Write, State, Unresolved
  <2>3. /\ RecordInv'
        /\ \A i \in Job : record[i].key # NoKey => record'[i].key = record[i].key
        /\ \A i \in Job : record[i] = NoRecord => record'[i] = record[i]
    <3>1. CASE UNCHANGED record  BY <3>1 DEF KeyInv, RecordInv
    <3>2. ASSUME NEW s \in State \ {"none"}, NEW n, Copy(run[k].job, k, s, n)
          PROVE  /\ RecordInv'
                 /\ \A i \in Job : record[i].key # NoKey => record'[i].key = record[i].key
                 /\ \A i \in Job : record[i] = NoRecord => record'[i] = record[i]
      BY <2>1, <3>2, KeyOfCopy DEF KeyInv, RecordInv
    <3> QED  BY <2>2, <3>1, <3>2
  <2>4. \A l \in Key : run'[l].pc = "none" \/ (run'[l].job = run[l].job /\ InFlight(l))
    BY <1>4, <2>1, JobOfStep
  <2>5. UNCHANGED <<call, recovering>>
    BY <1>4 DEF RunStep, RunFrame, TurnEnds, Lease, WriteRunning, IngestReturns, IngestThrows,
       WriteSucceeded, WriteFailed, WriteDead, WriteQueued, DelayEnds
  <2>6. RunInv'  BY <2>3, <2>4, KeysKept DEF RunInv, InFlight
  <2>7. RecoveringInv'  BY <2>3, <2>5, KeysKept DEF RecoveringInv
  <2>8. CallInv'  BY <2>3, <2>5 DEF KeyInv, CallInv
  <2> QED  BY <2>3, <2>6, <2>7, <2>8 DEF KeyInv
<1>5. ASSUME NEW k \in Key, Abort(k) PROVE KeyInv'
  BY <1>5 DEF Abort, KeyInv, CallInv, RunInv, RecoveringInv, RecordInv, InFlight, TypeOK
<1>6. CASE RecoverRead
  <2>1. RecoveringInv'
    BY <1>6 DEF RecoverRead, KeyInv, RecoveringInv, RecordInv, TypeOK, Record
  <2> QED  BY <1>6, <2>1 DEF RecoverRead, KeyInv, CallInv, RunInv, RecordInv, InFlight
<1>7. ASSUME NEW j \in Job, RecoverOne(j) PROVE KeyInv'
  <2> DEFINE r == recovering[j]
  <2>1. r.key \in Key /\ record[j].key = r.key
    BY <1>7 DEF RecoverOne, KeyInv, RecoveringInv
  <2>2. \A i \in Job : recovering'[i] \in {recovering[i], NoRecord}
    BY <1>7 DEF RecoverOne, TypeOK
  <2>3. /\ RecordInv'
        /\ \A i \in Job : record[i].key # NoKey => record'[i].key = record[i].key
        /\ \A i \in Job : record[i] = NoRecord => record'[i] = record[i]
    <3>1. CASE UNCHANGED record  BY <3>1 DEF KeyInv, RecordInv
    <3>2. ASSUME NEW s \in {"dead", "queued"}, Copy(j, r.key, s, r.attempts)
          PROVE  /\ RecordInv'
                 /\ \A i \in Job : record[i].key # NoKey => record'[i].key = record[i].key
                 /\ \A i \in Job : record[i] = NoRecord => record'[i] = record[i]
      BY <2>1, <3>2, KeyOfCopy DEF KeyInv, RecordInv
    <3> QED  BY <1>7, <3>1, <3>2 DEF RecoverOne
  <2>4. UNCHANGED run \/ Schedule(r.key, j, r.attempts)
    BY <1>7 DEF RecoverOne
  <2>5. record'[j].key = r.key  BY <2>1, <2>3
  <2>6. RunInv'
    <3>1. \A l \in Key : run'[l] = run[l] \/ (l = r.key /\ run'[l].job = j)
      BY <2>1, <2>4, ScheduleJob DEF TypeOK, RunType
    <3> QED  BY <2>3, <2>5, <3>1, KeysKept DEF RunInv, InFlight
  <2>7. RecoveringInv'  BY <2>2, <2>3, KeysKept DEF RecoveringInv
  <2>8. CallInv'  BY <1>7, <2>3 DEF RecoverOne, KeyInv, CallInv
  <2> QED  BY <2>3, <2>6, <2>7, <2>8 DEF KeyInv
<1>8. CASE Crash
  BY <1>8 DEF Crash, KeyInv, CallInv, RunInv, RecoveringInv, RecordInv, NoRun, InFlight
<1>9. CASE UNCHANGED vars
  BY <1>9 DEF vars, KeyInv, CallInv, RunInv, RecoveringInv, RecordInv, InFlight
<1> QED
  BY <1>1, <1>2, <1>3, <1>4, <1>5, <1>6, <1>7, <1>8, <1>9 DEF Next, Enqueue, Recover

\* Every variable keeps its type: no record and no task ever counts more
\* attempts than the maximum, across restarts and recoveries.
THEOREM TypeCorrect == Spec => []TypeOK
<1>1. Init => TypeOK /\ KeyInv  BY TypeInit, KeyInit
<1>2. TypeOK /\ KeyInv /\ [Next]_vars => (TypeOK /\ KeyInv)'
  BY TypeStep, KeyStep
<1> QED  BY <1>1, <1>2, PTL DEF Spec

-----------------------------------------------------------------------------
\* A record that is written keeps the promise to its key, unless the key has
\* been served or given up by the same step.
LEMMA DurableCopy ==
  ASSUME TypeOK, KeyInv, AcceptedIsDurable, NEW j \in Job, NEW k \in Key, NEW s, NEW n,
         Copy(j, k, s, n), record[j].key \in {k, NoKey},
         pending' \subseteq pending \cup {k}, s \in Unresolved \/ k \notin pending'
  PROVE  AcceptedIsDurable'
<1>1. /\ record'[j].key = k /\ record'[j].state = s
      /\ \A i \in Job : i # j => record'[i] = record[i]
  BY DEF Copy, TypeOK
<1>2. ASSUME NEW l \in pending', l # k
      PROVE  \E i \in Job : record'[i].key = l /\ record'[i].state \in Unresolved
  <2>1. l \in pending /\ l # NoKey  BY <1>2, JobsAssumption DEF TypeOK
  <2>2. PICK i \in Job : record[i].key = l /\ record[i].state \in Unresolved
    BY <2>1 DEF AcceptedIsDurable
  <2>3. i # j  BY <1>2, <2>1, <2>2
  <2> QED  BY <1>1, <2>2, <2>3
<1> QED  BY <1>1, <1>2 DEF AcceptedIsDurable

LEMMA DurableStep ==
  ASSUME TypeOK, KeyInv, AcceptedIsDurable, [Next]_vars
  PROVE  AcceptedIsDurable'
<1>1. ASSUME NEW k \in Key, EnqueueExisting(k) PROVE AcceptedIsDurable'
  <2>1. Duplicates(k) # {}  BY <1>1 DEF EnqueueExisting
  <2> QED  BY <1>1, <2>1 DEF EnqueueExisting, Duplicates, AcceptedIsDurable
<1>2. ASSUME NEW c \in Caller, EnqueuePersist(c) PROVE AcceptedIsDurable'
  <2>1. /\ call[c].key \in Key /\ call[c].job \in Job
        /\ record[call[c].job].key = NoKey
    BY <1>2 DEF EnqueuePersist, KeyInv, CallInv, NoCall, NoRecord
  <2>2. CASE Copy(call[c].job, call[c].key, "queued", 0) /\ Accept(call[c].key)
    BY <2>1, <2>2, DurableCopy DEF Accept, Unresolved
  <2>3. CASE UNCHANGED <<record, pending>>  BY <2>3 DEF AcceptedIsDurable
  <2> QED  BY <1>2, <2>2, <2>3 DEF EnqueuePersist
<1>3. ASSUME NEW k \in Key, RunStep(k) PROVE AcceptedIsDurable'
  <2>k. UNCHANGED <<record, pending>> => AcceptedIsDurable'  BY DEF AcceptedIsDurable
  <2>j. InFlight(k) => run[k].job \in Job /\ record[run[k].job].key = k
    BY DEF KeyInv, RunInv
  <2>w. ASSUME NEW s, Write(k, s), InFlight(k), pending' \subseteq pending,
               s \in Unresolved \/ k \notin pending'
        PROVE  AcceptedIsDurable'
    BY <2>w, <2>j, DurableCopy DEF Write
  <2>1. CASE TurnEnds(k)  BY <2>1, <2>k DEF TurnEnds
  <2>2. CASE Lease(k)
    <3>1. CASE Copy(run[k].job, k, "leased", run[k].attempts + 1)
      <4>1. InFlight(k) /\ UNCHANGED pending  BY <2>2 DEF Lease, InFlight
      <4> QED  BY <3>1, <4>1, <2>j, DurableCopy DEF Unresolved
    <3> QED  BY <2>2, <2>k, <3>1 DEF Lease
  <2>3. CASE WriteRunning(k)
    BY <2>3, <2>k, <2>w DEF WriteRunning, InFlight, Unresolved
  <2>4. CASE IngestReturns(k)  BY <2>4, <2>k DEF IngestReturns
  <2>5. CASE IngestThrows(k)  BY <2>5, <2>k DEF IngestThrows
  <2>6. CASE WriteSucceeded(k)
    BY <2>6, <2>k, <2>w DEF WriteSucceeded, InFlight
  <2>7. CASE WriteFailed(k)
    BY <2>7, <2>k, <2>w DEF WriteFailed, InFlight, Unresolved
  <2>8. CASE WriteDead(k)
    BY <2>8, <2>k, <2>w DEF WriteDead, InFlight
  <2>9. CASE WriteQueued(k)
    BY <2>9, <2>k, <2>w DEF WriteQueued, InFlight, Unresolved
  <2>10. CASE DelayEnds(k)  BY <2>10, <2>k DEF DelayEnds
  <2> QED  BY <1>3, <2>1, <2>2, <2>3, <2>4, <2>5, <2>6, <2>7, <2>8, <2>9, <2>10 DEF RunStep
<1>4. ASSUME NEW j \in Job, RecoverOne(j) PROVE AcceptedIsDurable'
  <2> DEFINE r == recovering[j]
  <2>1. r.key \in Key /\ record[j].key = r.key
    BY <1>4 DEF RecoverOne, KeyInv, RecoveringInv
  <2>2. CASE Copy(j, r.key, "dead", r.attempts) /\ pending' = pending \ {r.key}
    BY <2>1, <2>2, DurableCopy
  <2>3. CASE Copy(j, r.key, "queued", r.attempts) /\ UNCHANGED pending
    BY <2>1, <2>3, DurableCopy DEF Unresolved
  <2>4. CASE UNCHANGED <<record, pending>>  BY <2>4 DEF AcceptedIsDurable
  <2> QED  BY <1>4, <2>2, <2>3, <2>4 DEF RecoverOne
<1>5. CASE UNCHANGED <<record, pending>>  BY <1>5 DEF AcceptedIsDurable
<1> QED
  BY <1>1, <1>2, <1>3, <1>4, <1>5
     DEF Next, Enqueue, Recover, EnqueueNew, RecoverRead, Abort, Crash, vars

\* What enqueueIngest has acknowledged survives every restart until it is recorded
\* as succeeded or given up, whatever calls of the store fail, whatever the
\* scheduler refuses and whatever is aborted.
THEOREM AcceptedStaysDurable == Spec => []AcceptedIsDurable
<1> DEFINE IInv == TypeOK /\ KeyInv /\ AcceptedIsDurable
<1>1. Init => IInv
  BY TypeInit, KeyInit DEF Init, AcceptedIsDurable
<1>2. IInv /\ [Next]_vars => IInv'
  BY TypeStep, KeyStep, DurableStep
<1>3. IInv => AcceptedIsDurable  OBVIOUS
<1> QED  BY <1>1, <1>2, <1>3, PTL DEF Spec

-----------------------------------------------------------------------------
\* The attempt of key k is between its lease and the record of its outcome.
Busy(k) == run[k].pc \in {"leased", "ingest", "succeed", "fail"}

\* A lease is that of a busy attempt, or the recovery has still to treat it.
LeaseInv ==
  (recovered /\ failures = 0) =>
    \A j \in Job :
      record[j].state \in {"leased", "running"} =>
        recovering[j] # NoRecord \/ \E k \in Key : Busy(k) /\ run[k].job = j

\* A task that gives its job up has used its attempts or met a permanent error.
GiveUpInv ==
  \A k \in Key :
    run[k].pc = "dead" => run[k].result = "permanent" \/ run[k].attempts >= MaxAttempts

\* A step of one task leaves the others and the records of other jobs alone.
LEMMA OneTask ==
  ASSUME TypeOK, NEW k \in Key, RunStep(k)
  PROVE  /\ \A l \in Key \ {k} : run'[l] = run[l]
         /\ \A j \in Job : j # run[k].job => record'[j] = record[j]
         /\ UNCHANGED <<recovered, recovering>>
         /\ failures' = 0 => Works
<1>1. \A l \in Key \ {k} : run'[l] = run[l]
  BY DEF TypeOK, RunStep, TurnEnds, Lease, WriteRunning, IngestReturns, IngestThrows,
     WriteSucceeded, WriteFailed, WriteDead, WriteQueued, DelayEnds, Goto, End
<1>2. \A j \in Job : j # run[k].job => record'[j] = record[j]
  BY DEF TypeOK, RunStep, TurnEnds, Lease, WriteRunning, IngestReturns, IngestThrows,
     WriteSucceeded, WriteFailed, WriteDead, WriteQueued, DelayEnds, Write, Copy
<1>3. UNCHANGED <<recovered, recovering>>
  BY DEF RunStep, RunFrame, TurnEnds, Lease, WriteRunning, IngestReturns, IngestThrows,
     WriteSucceeded, WriteFailed, WriteDead, WriteQueued, DelayEnds
<1>4. Works \/ Fails
  BY DEF RunStep, TurnEnds, Lease, WriteRunning, IngestReturns, IngestThrows,
     WriteSucceeded, WriteFailed, WriteDead, WriteQueued, DelayEnds
<1>5. Fails => failures' # 0  BY JobsAssumption DEF Fails, TypeOK
<1> QED  BY <1>1, <1>2, <1>3, <1>4, <1>5

LEMMA LeaseOfTask ==
  ASSUME TypeOK, KeyInv, LeaseInv, NEW k \in Key, RunStep(k)
  PROVE  LeaseInv'
<1> SUFFICES ASSUME recovered', failures' = 0, NEW j \in Job,
                    record'[j].state \in {"leased", "running"}, recovering'[j] = NoRecord
             PROVE  \E l \in Key : Busy(l)' /\ run'[l].job = j
  BY DEF LeaseInv
<1>1. Works /\ recovered /\ failures = 0 /\ recovering[j] = NoRecord
  BY OneTask DEF Works
<1>2. \A l \in Key \ {k} : run'[l] = run[l]  BY OneTask
<1>3. ASSUME NEW l \in Key \ {k}, Busy(l), run[l].job = j
      PROVE  \E i \in Key : Busy(i)' /\ run'[i].job = j
  BY <1>2, <1>3 DEF Busy
<1>4. CASE j # run[k].job
  <2>1. record'[j] = record[j]  BY <1>4, OneTask
  <2>2. PICK l \in Key : Busy(l) /\ run[l].job = j  BY <1>1, <2>1 DEF LeaseInv
  <2> QED  BY <1>3, <1>4, <2>2
<1>5. CASE j = run[k].job
  <2>w. ASSUME NEW s, Write(k, s) PROVE record'[j].state = s
    BY <1>5, <2>w DEF Write, Copy, TypeOK
  <2>u. ASSUME UNCHANGED record PROVE \E l \in Key : Busy(l) /\ run[l].job = j
    BY <1>1, <2>u DEF LeaseInv
  <2>n. ~Fails  BY <1>1 DEF Works, Fails
  <2>1. CASE TurnEnds(k)
    <3>1. UNCHANGED record /\ ~Busy(k)  BY <2>1 DEF TurnEnds, Busy
    <3> QED  BY <1>3, <2>u, <3>1
  <2>2. CASE Lease(k)
    <3>1. run' = [run EXCEPT ![k] = [@ EXCEPT !.pc = "leased", !.attempts = run[k].attempts + 1]]
      BY <2>2, <2>n DEF Lease
    <3>2. run'[k].pc = "leased" /\ run'[k].job = j  BY <1>5, <3>1 DEF TypeOK
    <3> QED  BY <3>2 DEF Busy
  <2>3. CASE WriteRunning(k)
    <3>1. Goto(k, "ingest")  BY <2>3, <2>n DEF WriteRunning
    <3>2. run'[k].pc = "ingest" /\ run'[k].job = j  BY <1>5, <3>1 DEF Goto, TypeOK
    <3> QED  BY <3>2 DEF Busy
  <2>4. CASE IngestReturns(k)
    <3>1. run'[k].pc = "succeed" /\ run'[k].job = j  BY <1>5, <2>4 DEF IngestReturns, TypeOK
    <3> QED  BY <3>1 DEF Busy
  <2>5. CASE IngestThrows(k)
    <3>1. run'[k].pc = "fail" /\ run'[k].job = j  BY <1>5, <2>5 DEF IngestThrows, TypeOK
    <3> QED  BY <3>1 DEF Busy
  <2>6. CASE WriteSucceeded(k)  BY <2>6, <2>n, <2>w DEF WriteSucceeded
  <2>7. CASE WriteFailed(k)  BY <2>7, <2>n, <2>w DEF WriteFailed
  <2>8. CASE WriteDead(k)  BY <2>8, <2>n, <2>w DEF WriteDead
  <2>9. CASE WriteQueued(k)  BY <2>9, <2>n, <2>w DEF WriteQueued
  <2>10. CASE DelayEnds(k)
    <3>1. UNCHANGED record /\ ~Busy(k)  BY <2>10 DEF DelayEnds, Busy
    <3> QED  BY <1>3, <2>u, <3>1
  <2> QED  BY <2>1, <2>2, <2>3, <2>4, <2>5, <2>6, <2>7, <2>8, <2>9, <2>10 DEF RunStep
<1> QED  BY <1>4, <1>5

LEMMA LeaseStep == TypeOK /\ KeyInv /\ LeaseInv /\ [Next]_vars => LeaseInv'
<1> SUFFICES ASSUME TypeOK, KeyInv, LeaseInv, [Next]_vars PROVE LeaseInv'
  OBVIOUS
<1>f. Fails => failures' # 0  BY JobsAssumption DEF Fails, TypeOK
<1>s. ASSUME NEW k \in Key, NEW j, NEW n, Schedule(k, j, n)
      PROVE  \A l \in Key : Busy(l) => Busy(l)' /\ run'[l].job = run[l].job
  BY <1>s DEF Schedule, Busy, InFlight, TypeOK
<1>1. ASSUME NEW k \in Key, EnqueueExisting(k) PROVE LeaseInv'
  <2>1. PICK j \in Duplicates(k) : Schedule(k, j, record[j].attempts)
    BY <1>1 DEF EnqueueExisting
  <2>2. failures' = 0 => failures = 0  BY <1>f, <2>1 DEF Schedule, Works
  <2>3. \A l \in Key : Busy(l) => Busy(l)' /\ run'[l].job = run[l].job  BY <1>s, <2>1
  <2>4. UNCHANGED <<record, recovered, recovering>>  BY <1>1 DEF EnqueueExisting
  <2> QED  BY <2>2, <2>3, <2>4 DEF LeaseInv
<1>2. ASSUME NEW c \in Caller, EnqueuePersist(c) PROVE LeaseInv'
  <2>1. call[c].job \in Job /\ call[c].key \in Key
    BY <1>2 DEF EnqueuePersist, KeyInv, CallInv, NoCall
  <2>2. UNCHANGED <<recovered, recovering>>  BY <1>2 DEF EnqueuePersist
  <2>3. CASE Copy(call[c].job, call[c].key, "queued", 0) /\ Schedule(call[c].key, call[c].job, 0)
    <3>1. failures' = 0 => failures = 0  BY <1>f, <2>3 DEF Schedule, Works
    <3>2. \A l \in Key : Busy(l) => Busy(l)' /\ run'[l].job = run[l].job  BY <1>s, <2>1, <2>3
    <3>3. \A j \in Job : record'[j] = record[j] \/ record'[j].state = "queued"
      BY <2>1, <2>3 DEF Copy, TypeOK
    <3> QED  BY <2>2, <3>1, <3>2, <3>3 DEF LeaseInv
  <2>4. CASE Fails  BY <1>f, <2>4 DEF LeaseInv
  <2> QED  BY <1>2, <2>3, <2>4 DEF EnqueuePersist
<1>3. ASSUME NEW k \in Key, RunStep(k) PROVE LeaseInv'
  BY <1>3, LeaseOfTask
<1>4. ASSUME NEW k \in Key, Abort(k) PROVE LeaseInv'
  <2>1. \A l \in Key : run'[l].pc = run[l].pc /\ run'[l].job = run[l].job
    BY <1>4 DEF Abort, TypeOK
  <2> QED  BY <1>4, <2>1 DEF Abort, Busy, LeaseInv
<1>5. CASE RecoverRead
  <2>1. SUFFICES ASSUME failures' = 0, NEW j \in Job, record'[j].state \in {"leased", "running"}
                 PROVE  recovering'[j] # NoRecord
    BY DEF LeaseInv
  <2>2. record[j].state \in TakenOver  BY <1>5, <2>1 DEF RecoverRead, TakenOver, Unresolved
  <2>3. recovering'[j] = record[j]  BY <1>5, <1>f, <2>1, <2>2 DEF RecoverRead
  <2>4. record[j].state # NoRecord.state  BY <1>5, <2>1 DEF RecoverRead, NoRecord
  <2> QED  BY <2>3, <2>4
<1>6. ASSUME NEW j \in Job, RecoverOne(j) PROVE LeaseInv'
  <2> DEFINE r == recovering[j]
  <2>1. r.key \in Key  BY <1>6 DEF RecoverOne, KeyInv, RecoveringInv
  <2>2. CASE Fails  BY <1>f, <2>2 DEF LeaseInv
  <2>3. CASE ~Fails
    <3>1. /\ recovering' = [recovering EXCEPT ![j] = NoRecord]
          /\ \/ Copy(j, r.key, "dead", r.attempts) /\ Works /\ UNCHANGED run
             \/ Copy(j, r.key, "queued", r.attempts) /\ Schedule(r.key, j, r.attempts)
      BY <1>6, <2>3 DEF RecoverOne
    <3>2. UNCHANGED <<recovered, failures>>  BY <1>6, <2>3, <3>1 DEF RecoverOne, Schedule, Works
    <3>3. /\ record'[j].state \in {"dead", "queued"}
          /\ \A i \in Job \ {j} : record'[i] = record[i] /\ recovering'[i] = recovering[i]
      BY <3>1 DEF Copy, TypeOK
    <3>4. \A l \in Key : Busy(l) => Busy(l)' /\ run'[l].job = run[l].job
      BY <1>s, <2>1, <3>1 DEF Busy
    <3> QED  BY <3>2, <3>3, <3>4 DEF LeaseInv
  <2> QED  BY <2>2, <2>3
<1>7. CASE Crash  BY <1>7 DEF Crash, LeaseInv
<1>8. CASE UNCHANGED <<record, run, recovered, recovering, failures>>
  BY <1>8 DEF LeaseInv, Busy
<1> QED
  BY <1>1, <1>2, <1>3, <1>4, <1>5, <1>6, <1>7, <1>8 DEF Next, Enqueue, Recover, EnqueueNew, vars

\* After the recovery every lease is that of a task of this process: none of a
\* process that ended is left, however starts, crashes and tasks interleave.
THEOREM LeasesHaveTheirTask == Spec => []NoOrphanLease
<1> DEFINE IInv == TypeOK /\ KeyInv /\ LeaseInv
<1>1. Init => IInv
  BY TypeInit, KeyInit DEF Init, LeaseInv
<1>2. IInv /\ [Next]_vars => IInv'
  BY TypeStep, KeyStep, LeaseStep
<1>3. IInv => NoOrphanLease  BY DEF LeaseInv, NoOrphanLease, Busy, InFlight
<1> QED  BY <1>1, <1>2, <1>3, PTL DEF Spec

\* Both: no accepted command is without a record, and no lease without a task.
THEOREM WorkAlwaysDurable == Spec => []WorkIsDurable
<1>1. WorkIsDurable <=> AcceptedIsDurable /\ NoOrphanLease  BY DEF WorkIsDurable
<1> QED  BY <1>1, AcceptedStaysDurable, LeasesHaveTheirTask, PTL

-----------------------------------------------------------------------------
LEMMA GiveUpStep == TypeOK /\ KeyInv /\ GiveUpInv /\ [Next]_vars => GiveUpInv'
<1> SUFFICES ASSUME TypeOK, KeyInv, GiveUpInv, [Next]_vars PROVE GiveUpInv'
  OBVIOUS
<1>s. ASSUME NEW k \in Key, NEW j, NEW n, Schedule(k, j, n) PROVE GiveUpInv'
  <2>1. [NoRun EXCEPT !.pc = "turn", !.job = j, !.attempts = n].pc = "turn"  BY DEF NoRun
  <2>2. \A l \in Key : run'[l] = run[l] \/ run'[l].pc = "turn"
    BY <1>s, <2>1 DEF Schedule, TypeOK
  <2> QED  BY <2>2 DEF GiveUpInv
<1>u. UNCHANGED run => GiveUpInv'  BY DEF GiveUpInv
<1>1. ASSUME NEW k \in Key, RunStep(k) PROVE GiveUpInv'
  <2>1. \A l \in Key \ {k} : run'[l] = run[l]  BY <1>1, OneTask
  <2>2. SUFFICES ASSUME run'[k].pc = "dead"
                 PROVE  run'[k].result = "permanent" \/ run'[k].attempts >= MaxAttempts
    BY <2>1 DEF GiveUpInv
  <2>e. ~End(k)  BY <2>2 DEF End, NoRun, TypeOK
  <2>g. ASSUME NEW pc, Goto(k, pc) PROVE pc = "dead"  BY <2>2, <2>g DEF Goto, TypeOK
  <2>l. ~Lease(k)  BY <2>2, <2>e DEF Lease, TypeOK
  <2>r. ~IngestReturns(k) /\ ~IngestThrows(k)  BY <2>2 DEF IngestReturns, IngestThrows, TypeOK
  <2>t. ~WriteSucceeded(k)  BY <2>2, <2>e DEF WriteSucceeded, TypeOK
  <2>3. WriteFailed(k) /\ run' = [run EXCEPT ![k] = AfterFailure(k)]
    BY <1>1, <2>e, <2>g, <2>l, <2>r, <2>t
       DEF RunStep, TurnEnds, WriteRunning, WriteFailed, WriteDead, WriteQueued, DelayEnds
  <2>4. run'[k] = AfterFailure(k) /\ AfterFailure(k).pc = "dead"  BY <2>2, <2>3 DEF TypeOK
  <2>5. ~run[k].aborted  BY <2>4 DEF AfterFailure, NoRun
  <2>6. GivesUp(k)  BY <2>4, <2>5 DEF AfterFailure, TypeOK
  <2>7. /\ run'[k].result = run[k].result /\ run'[k].attempts = run[k].attempts
    BY <2>4, <2>5 DEF AfterFailure, TypeOK
  <2> QED  BY <2>6, <2>7 DEF GivesUp, Spent
<1>2. ASSUME NEW k \in Key, EnqueueExisting(k) PROVE GiveUpInv'
  BY <1>2, <1>s DEF EnqueueExisting
<1>3. ASSUME NEW c \in Caller, EnqueuePersist(c) PROVE GiveUpInv'
  <2>1. call[c].key \in Key  BY <1>3 DEF EnqueuePersist, KeyInv, CallInv, NoCall
  <2> QED  BY <1>3, <1>s, <1>u, <2>1 DEF EnqueuePersist
<1>4. ASSUME NEW k \in Key, Abort(k) PROVE GiveUpInv'
  BY <1>4 DEF Abort, GiveUpInv, TypeOK
<1>5. ASSUME NEW j \in Job, RecoverOne(j) PROVE GiveUpInv'
  <2>1. recovering[j].key \in Key  BY <1>5 DEF RecoverOne, KeyInv, RecoveringInv
  <2> QED  BY <1>5, <1>s, <1>u, <2>1 DEF RecoverOne
<1>6. CASE Crash  BY <1>6 DEF Crash, GiveUpInv, NoRun
<1>7. CASE UNCHANGED run  BY <1>7, <1>u
<1> QED
  BY <1>1, <1>2, <1>3, <1>4, <1>5, <1>6, <1>7
     DEF Next, Enqueue, Recover, EnqueueNew, RecoverRead, vars

\* A job becomes dead by its task, which gives it up, or by the recovery.
LEMMA DeadWrite ==
  ASSUME TypeOK, KeyInv, GiveUpInv, [Next]_vars, NEW j \in Job,
         record[j].state # "dead", record'[j].state = "dead"
  PROVE  \/ record'[j].attempts >= MaxAttempts
         \/ \E k \in Key : run[k].job = j /\ run[k].result = "permanent"
<1>1. ASSUME NEW k \in Key, RunStep(k)
      PROVE  \/ record'[j].attempts >= MaxAttempts
             \/ \E l \in Key : run[l].job = j /\ run[l].result = "permanent"
  <2>1. run[k].job = j  BY <1>1, OneTask
  <2>2. run[k].pc = "dead" /\ Write(k, "dead")
    BY <1>1, <2>1 DEF RunStep, TurnEnds, Lease, WriteRunning, IngestReturns, IngestThrows,
       WriteSucceeded, WriteFailed, WriteDead, WriteQueued, DelayEnds, Write, Copy, TypeOK
  <2>3. record'[j].attempts = run[k].attempts  BY <2>1, <2>2 DEF Write, Copy, TypeOK
  <2> QED  BY <2>1, <2>2, <2>3 DEF GiveUpInv
<1>2. ASSUME NEW c \in Caller, EnqueuePersist(c) PROVE FALSE
  BY <1>2 DEF EnqueuePersist, Copy, TypeOK
<1>3. ASSUME NEW i \in Job, RecoverOne(i) PROVE record'[j].attempts >= MaxAttempts
  BY <1>3 DEF RecoverOne, Copy, TypeOK
<1>4. UNCHANGED record => FALSE  OBVIOUS
<1> QED
  BY <1>1, <1>2, <1>3, <1>4
     DEF Next, Enqueue, Recover, EnqueueExisting, EnqueueNew, RecoverRead, Abort, Crash, vars

\* No job is given up before its attempts are used up, unless its error is
\* permanent: not by a task, not by the recovery after a restart.
THEOREM DeathIsAlwaysDeserved == Spec => DeadIsDeserved
<1> DEFINE IInv == TypeOK /\ KeyInv /\ GiveUpInv
           Deserved == \A j \in Job :
             (record[j].state # "dead" /\ record'[j].state = "dead") =>
               \/ record'[j].attempts >= MaxAttempts
               \/ \E k \in Key : run[k].job = j /\ run[k].result = "permanent"
<1>1. Init => IInv
  BY TypeInit, KeyInit DEF Init, GiveUpInv, NoRun
<1>2. IInv /\ [Next]_vars => IInv'
  BY TypeStep, KeyStep, GiveUpStep
<1>3. IInv /\ [Next]_vars => [Deserved]_vars
  BY DeadWrite
<1> QED  BY <1>1, <1>2, <1>3, PTL DEF Spec, DeadIsDeserved
=============================================================================
