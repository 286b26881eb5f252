------------------------------ MODULE MCServices ------------------------------
(***************************************************************************)
(* Services around the stored records, side by side: the durable jobs of the *)
(* knowledge service (KnowledgeJobs), the adaptive retrieval policy           *)
(* (AdaptivePolicy), the buffered traces (TraceBuffer), the learning of       *)
(* procedures (ExperienceLearning), one recall by reference or by words       *)
(* (RecallCoordinator) and one search (RetrievalPipeline).  They share no      *)
(* variable: part, chosen at the start, says which of them runs.            *)
(***************************************************************************)
EXTENDS KnowledgeJobs, AdaptivePolicy, ExperienceLearning, RecallCoordinator, RetrievalPipeline

CONSTANTS j1, j2, k1, c1, c2
VARIABLE part

CONSTANTS t1, t2, t3, m1, o1, o2
VARIABLES buffer, batch, timer, stored, gone, utility, pc, left, seen, life, fails
Traces == INSTANCE TraceBuffer
    WITH Traces <- {t1, t2, t3}, Memories <- {m1}, Tasks <- {o1, o2},
        TraceOf <- [o \in {o1, o2} |-> IF o = o1 THEN t1 ELSE t2],
        MaxBatch <- 2, MaxBuffered <- 2, FailLimit <- 1

CONSTANTS x1, x2

CONSTANTS p1, u1, u2
\* The id with and without a prefix, and a recall by words alone.
MCReferences == {Nil, "bare", "art_"}

\* Two chunks of one content, one of them found by its text, a chunk of another version, a view of somebody else, a
\* memory that two of them contradict, and one of little authority.
Hit(id, kind, content, cost) ==
    [id |-> id, kind |-> kind, content |-> content, cost |-> cost, authority |-> 1,
     own |-> TRUE, current |-> TRUE, fits |-> TRUE, fts |-> FALSE]
MCCorpus ==
        { [Hit(1, "knowledge", "a", 2) EXCEPT !.fts = TRUE], Hit(2, "knowledge", "b", 1),
          Hit(3, "knowledge", "a", 2),
          [Hit(4, "view", "c", 1) EXCEPT !.own = FALSE],
          [Hit(5, "memory", "d", 1) EXCEPT !.fts = TRUE],
          [Hit(6, "memory", "e", 2) EXCEPT !.authority = 0] }
MCContradicts == {<<1, 5>>, <<2, 5>>}

traceVars == <<buffer, batch, timer, stored, gone, utility, pc, left, seen, life, fails>>
all == <<part, vars, policyVars, traceVars, learnVars, recallVars, searchVars>>

Start == /\ part \in {"jobs", "policy", "traces", "experience", "recall", "retrieval"}
         /\ Init /\ PolicyInit /\ Traces!Init
         /\ LearnInit /\ RecallInit /\ SearchInit
         /\ part # "policy" => config = "g1"
         /\ part # "recall" => there = [k \in Kinds |-> "absent"]
         /\ part # "retrieval" => request = [required |-> FALSE, historical |-> FALSE, minimum |-> 0]
Run == \/ /\ part = "jobs" /\ Next
          /\ UNCHANGED <<part, policyVars, traceVars, learnVars, recallVars, searchVars>>
       \/ /\ part = "policy" /\ PolicyNext
          /\ UNCHANGED <<part, vars, traceVars, learnVars, recallVars, searchVars>>
       \/ /\ part = "traces" /\ Traces!Next
          /\ UNCHANGED <<part, vars, policyVars, learnVars, recallVars, searchVars>>
       \/ /\ part = "experience" /\ LearnNext
          /\ UNCHANGED <<part, vars, policyVars, traceVars, recallVars, searchVars>>
       \/ /\ part = "recall" /\ RecallNext
          /\ UNCHANGED <<part, vars, policyVars, traceVars, learnVars, searchVars>>
       \/ /\ part = "retrieval" /\ SearchNext
          /\ UNCHANGED <<part, vars, policyVars, traceVars, learnVars, recallVars>>

\* The fairness of the jobs, in their part: a recovery is enabled in the initial
\* state.  Nothing fair is enabled in the initial state of the traces.
JobFairness == /\ WF_vars(part = "jobs" /\ Recover)
               /\ \A c \in Caller : WF_vars(EnqueuePersist(c))
               /\ \A k \in Key : WF_vars(RunStep(k))
Parts == Start /\ [][Run]_all /\ JobFairness /\ Traces!Fairness

\* TraceBuffer: no trace stays in the buffer for ever.
EveryTraceLeaves == Traces!EveryTraceLeaves
=============================================================================
