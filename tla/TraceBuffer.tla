------------------------------ MODULE TraceBuffer ------------------------------
(***************************************************************************)
(* Retrieval traces and their outcomes (retrieval/src/effectiveness.ts).      *)
(* recordRetrieval appends to a bounded buffer; flushes, one at a time, write  *)
(* it in batches; recordOutcome flushes, looks its trace up and adds to the    *)
(* utility of each memory that was shown.  Tasks of the background scheduler   *)
(* record outcomes concurrently.                                             *)
(***************************************************************************)
EXTENDS Naturals, Sequences, FiniteSets, SequencesExt

CONSTANTS Traces, Memories, Tasks,
          TraceOf,                \* task -> the trace its outcome is about
          MaxBatch, MaxBuffered,
          FailLimit               \* bound: writes that fail

VARIABLES buffer, batch,          \* #buffer; what the flush in progress writes, or <<>>
          timer,                  \* #timer is set
          stored,                 \* trace -> status of its record
          gone,                   \* traces dropped at the limit or with a failed batch
          utility,                \* memory -> the outcomes its counters count
          pc, left, seen,         \* task -> where it is; memories still to do; counters it read
          life,                   \* "open", "closing", "waiting" (of close), "closed"
          fails

vars == <<buffer, batch, timer, stored, gone, utility, pc, left, seen, life, fails>>

Flushing == batch # <<>>
Recorded == ToSet(buffer) \cup ToSet(batch) \cup gone \cup {t \in Traces : stored[t] # "absent"}

Init == /\ buffer = <<>> /\ batch = <<>> /\ timer = FALSE
        /\ stored = [t \in Traces |-> "absent"]
        /\ gone = {}
        /\ utility = [m \in Memories |-> {}]
        /\ pc = [k \in Tasks |-> "idle"]
        /\ left = [k \in Tasks |-> {}]
        /\ seen = [k \in Tasks |-> {}]
        /\ life = "open" /\ fails = 0

\* The first MaxBatch traces of a buffer go into a flush.
TakeBatch(b) ==
    LET n == IF Len(b) < MaxBatch THEN Len(b) ELSE MaxBatch IN
    /\ batch' = SubSeq(b, 1, n)
    /\ buffer' = SubSeq(b, n + 1, Len(b))
    /\ timer' = FALSE

\* recordRetrieval; the oldest trace makes room.
Record(t) ==
    /\ life = "open" /\ t \notin Recorded
    /\ LET full == Len(buffer) >= MaxBuffered
           next == Append(IF full THEN Tail(buffer) ELSE buffer, t) IN
       /\ gone' = IF full THEN gone \cup {Head(buffer)} ELSE gone
       /\ IF Len(next) >= MaxBatch /\ ~Flushing
          THEN TakeBatch(next)
          ELSE /\ buffer' = next
               /\ timer' = (timer \/ Len(next) < MaxBatch)
               /\ UNCHANGED batch
    /\ UNCHANGED <<stored, utility, pc, left, seen, life, fails>>

TimerFires ==
    /\ timer /\ life # "closed"
    /\ IF Flushing \/ buffer = <<>> THEN timer' = FALSE /\ UNCHANGED <<buffer, batch>>
       ELSE TakeBatch(buffer)
    /\ UNCHANGED <<stored, gone, utility, pc, left, seen, life, fails>>

\* The finally of a flush: the rest gets a timer of its own.
Rearm == timer \/ buffer # <<>>

\* Everyone who waits for the flush in progress goes on, or fails with it.
Released(ok) == pc' = [k \in Tasks |-> IF pc[k] # "flush" THEN pc[k]
                                       ELSE IF ok THEN "fetch" ELSE "done"]
Unsaved == ToSet(buffer) \cup ToSet(batch)

FlushEnds ==
    /\ Flushing /\ life # "closed"
    /\ stored' = [t \in Traces |-> IF t \in ToSet(batch) THEN "recorded" ELSE stored[t]]
    /\ batch' = <<>>
    /\ timer' = Rearm
    /\ Released(TRUE)
    /\ life' = IF life = "waiting" THEN "closing" ELSE life
    /\ UNCHANGED <<buffer, gone, utility, left, seen, fails>>

\* A failed flush loses its batch, and ends a close that waits for it.
FlushFails ==
    /\ Flushing /\ life # "closed" /\ fails < FailLimit
    /\ fails' = fails + 1
    /\ gone' = gone \cup (IF life = "waiting" THEN Unsaved ELSE ToSet(batch))
    /\ batch' = <<>>
    /\ timer' = Rearm
    /\ Released(FALSE)
    /\ life' = IF life = "waiting" THEN "closed" ELSE life
    /\ UNCHANGED <<buffer, stored, utility, left, seen>>

-----------------------------------------------------------------------------
\* recordOutcome: await flush(), which is the one in progress if there is one.
Outcome(k) ==
    /\ pc[k] = "idle" /\ life = "open" /\ TraceOf[k] \in Recorded
    /\ pc' = [pc EXCEPT ![k] = IF Flushing \/ buffer # <<>> THEN "flush" ELSE "fetch"]
    /\ IF Flushing \/ buffer = <<>>
       THEN UNCHANGED <<buffer, batch>> /\ timer' = (timer /\ Flushing)
       ELSE TakeBatch(buffer)
    /\ UNCHANGED <<stored, gone, utility, left, seen, life, fails>>

Frame == UNCHANGED <<buffer, batch, timer, gone, life, fails>>

\* A trace that is not stored has no outcome.
Fetch(k) ==
    /\ pc[k] = "fetch" /\ life # "closed"
    /\ IF stored[TraceOf[k]] = "absent"
       THEN pc' = [pc EXCEPT ![k] = "done"] /\ UNCHANGED left
       ELSE /\ pc' = [pc EXCEPT ![k] = "read"]
            /\ left' = [left EXCEPT ![k] = Memories]
    /\ UNCHANGED <<stored, utility, seen>> /\ Frame

\* The counters of one memory are read, and written without a revision.
ReadUtility(k) ==
    /\ pc[k] = "read" /\ life # "closed" /\ left[k] # {}
    /\ \E m \in left[k] :
         /\ seen' = [seen EXCEPT ![k] = {<<m, utility[m]>>}]
         /\ left' = [left EXCEPT ![k] = @ \ {m}]
    /\ pc' = [pc EXCEPT ![k] = "write"]
    /\ UNCHANGED <<stored, utility>> /\ Frame

WriteUtility(k) ==
    /\ pc[k] = "write" /\ life # "closed"
    /\ \E s \in seen[k] : utility' = [utility EXCEPT ![s[1]] = s[2] \cup {k}]
    /\ seen' = [seen EXCEPT ![k] = {}]
    /\ pc' = [pc EXCEPT ![k] = "read"]
    /\ UNCHANGED <<stored, left>> /\ Frame

\* The trace is written back as attributed, and the outcome is written.
Attribute(k) ==
    /\ pc[k] = "read" /\ life # "closed" /\ left[k] = {}
    /\ stored' = [stored EXCEPT ![TraceOf[k]] = "attributed"]
    /\ pc' = [pc EXCEPT ![k] = "done"]
    /\ UNCHANGED <<utility, left, seen>> /\ Frame

-----------------------------------------------------------------------------
\* Mutant: close does not wait for a flush that is under way.
DrainedBuffer == buffer = <<>>
Drained == buffer = <<>> /\ ~Flushing

\* close: flushes until nothing is left; the process ends after it.
BeginClose == /\ life = "open" /\ life' = "closing" /\ timer' = FALSE
              /\ UNCHANGED <<buffer, batch, stored, gone, utility, pc, left, seen, fails>>
CloseLoop ==
    /\ life = "closing"
    /\ life' = IF Drained THEN "closed" ELSE "waiting"
    /\ IF buffer # <<>> /\ ~Flushing THEN TakeBatch(buffer) ELSE UNCHANGED <<buffer, batch, timer>>
    /\ UNCHANGED <<stored, gone, utility, pc, left, seen, fails>>

TaskStep(k) == Fetch(k) \/ ReadUtility(k) \/ WriteUtility(k) \/ Attribute(k)
Next == \/ TimerFires \/ FlushEnds \/ FlushFails \/ BeginClose \/ CloseLoop
        \/ \E t \in Traces : Record(t)
        \/ \E k \in Tasks : Outcome(k) \/ TaskStep(k)

\* Timers fire, writes end, close and the tasks go on.
Fairness == /\ WF_vars(TimerFires) /\ WF_vars(FlushEnds) /\ WF_vars(CloseLoop)
            /\ \A k \in Tasks : WF_vars(TaskStep(k))
Spec == Init /\ [][Next]_vars /\ Fairness

-----------------------------------------------------------------------------
\* Every variable holds a value of its type.
TypeOK == /\ Len(buffer) <= MaxBuffered /\ Len(batch) <= MaxBatch
          /\ stored \in [Traces -> {"absent", "recorded", "attributed"}]
          /\ utility \in [Memories -> SUBSET Tasks]
          /\ pc \in [Tasks -> {"idle", "flush", "fetch", "read", "write", "done"}]

\* Every trace ends stored, unless the limit of the buffer, a failed write or a
\* failed close took it: none stays in the buffer without a timer, and none is left when the service
\* is closed.
EveryTraceLeaves == <>[](Unsaved \subseteq gone)

=============================================================================
