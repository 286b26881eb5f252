-------------------------- MODULE ExperienceLearning --------------------------
(***************************************************************************)
(* The life of a learned procedure (memory/src/experience.ts, and the job of  *)
(* sidecar-runtime.ts that feeds it): outcomes of task episodes are counted    *)
(* once, a procedure that proved itself is qualified and promoted to a memory,  *)
(* one that fails is degraded and retired.  Jobs of several task episodes work  *)
(* on one procedure; each is cut at every await, where others run and it may    *)
(* be aborted.  A mutation of the record is atomic (StateStore), and so is a    *)
(* commit under its idempotency key (MemoryCommit).                          *)
(***************************************************************************)
EXTENDS Naturals, Sequences, FiniteSets

CONSTANTS Jobs, MinimumOutcomes,
          MinimumPercent,          \* minimumSuccessEstimate, in percent
          EpisodeLimit, JobLimit,  \* bounds
          Missing \* no procedure, no memory

ProcedureStates == {"observed", "evaluating", "qualified", "promoted", "degraded", "retired", "rejected"}
Procedures == [state : ProcedureStates, outcomes : SUBSET Nat, successes : Nat, failures : Nat,
               revision : Nat, memory : Nat \cup {Missing}]

ASSUME ExperienceAssumption ==
    /\ MinimumOutcomes \in Nat /\ MinimumPercent \in Nat
    /\ Missing \notin Procedures /\ Missing \notin Nat

VARIABLES candidate,  \* [state, outcomes, successes, failures, revision, memory] or Missing
          job,        \* job -> where it is, and what it read there and still needs
          keys,       \* knowledge revision -> [evidence, memory] the commit under its key answered
          memories,   \* memory -> its status
          notices,    \* revisions a degradation notice was committed for
          episodes,   \* task episode -> whether it succeeded
          disturbed,  \* two jobs were on the procedure at once, or one was cut
          jobs

learnVars == <<candidate, job, keys, memories, notices, episodes, disturbed, jobs>>

Good(s) == {e \in s : episodes[e]}
Idle == [pc |-> "idle"]
Busy == {j \in Jobs : job[j] # Idle}
At(j, pc) == job[j].pc = pc
Proceed(j, pc) == job' = [job EXCEPT ![j] = [pc |-> pc]]
Ends(j) == job' = [job EXCEPT ![j] = Idle]

LearnInit == /\ candidate = Missing /\ job = [j \in Jobs |-> Idle]
             /\ keys = <<>> /\ memories = <<>> /\ notices = {}
             /\ episodes = <<>> /\ disturbed = FALSE /\ jobs = 0

\* betaSuccessEstimate(c) >= (MinimumPercent - less) / 100.
Reaches(c, less) == 100 * (1 + c.successes) >= (MinimumPercent - less) * (2 + c.successes + c.failures)
Enough(c) == Cardinality(c.outcomes) >= MinimumOutcomes

\* experienceStateAfterOutcome.
StateAfter(c) ==
    CASE c.state = "promoted" /\ ~Reaches(c, 15) -> "degraded"
      [] c.state \in {"degraded", "retired"} /\ Enough(c) /\ Reaches(c, 0) -> "qualified"
      [] c.state = "degraded" /\ Enough(c) /\ ~Reaches(c, 30) -> "retired"
      [] c.state = "observed" -> "evaluating"
      [] OTHER -> c.state

-----------------------------------------------------------------------------
\* observe: the procedure of the family, or a new one.
Observe(j, e) ==
    /\ job[j] = Idle /\ jobs < JobLimit
    /\ jobs' = jobs + 1
    /\ \/ e \in DOMAIN episodes /\ UNCHANGED episodes
       \/ e = Len(episodes) + 1 /\ \E succeeded \in BOOLEAN : episodes' = Append(episodes, succeeded)
    /\ candidate' = IF candidate # Missing THEN candidate
                    ELSE [state |-> "observed", outcomes |-> {}, successes |-> 0, failures |-> 0,
                          revision |-> 0, memory |-> Missing]
    /\ job' = [job EXCEPT ![j] = [pc |-> "outcome", episode |-> e]]
    /\ disturbed' = (disturbed \/ Busy # {})
    /\ UNCHANGED <<keys, memories, notices>>

\* recordOutcome reads the record before it is mutated ...
ReadInitial(j) ==
    /\ At(j, "outcome")
    /\ IF candidate.state = "rejected" THEN Ends(j)
       ELSE job' = [job EXCEPT ![j] = [pc |-> "mutate", episode |-> job[j].episode,
                                      initial |-> candidate.state]]
    /\ UNCHANGED <<candidate, keys, memories, notices, episodes, disturbed, jobs>>

Counted(c, e) == e \in c.outcomes
With(c, e) == LET added == [c EXCEPT !.outcomes = @ \cup {e},
                              !.successes = IF episodes[e] THEN @ + 1 ELSE @,
                              !.failures = IF episodes[e] THEN @ ELSE @ + 1]
              IN  [added EXCEPT !.state = StateAfter(added)]

\* ... and acts on the difference afterwards: a notice, or a tombstone.
RecordOutcome(j) ==
    /\ At(j, "mutate")
    /\ LET c == IF Counted(candidate, job[j].episode) THEN candidate
                ELSE With(candidate, job[j].episode)
       IN  /\ candidate' = c
           /\ job' = [job EXCEPT ![j] =
                   CASE c.state = "degraded" /\ job[j].initial # "degraded" ->
                            [pc |-> "notice", revision |-> c.revision]
                     [] c.state = "retired" /\ job[j].initial # "retired" /\ c.memory # Missing ->
                            [pc |-> "tombstone", memory |-> c.memory]
                     [] OTHER -> [pc |-> "qualify"]]
    /\ UNCHANGED <<keys, memories, notices, episodes, disturbed, jobs>>

Announce(j) ==
    /\ At(j, "notice")
    /\ notices' = notices \cup {job[j].revision}
    /\ Proceed(j, "qualify")
    /\ UNCHANGED <<candidate, keys, memories, episodes, disturbed, jobs>>

Tombstone(j) ==
    /\ At(j, "tombstone")
    /\ memories' = [memories EXCEPT ![job[j].memory] = "tombstoned"]
    /\ Proceed(j, "qualify")
    /\ UNCHANGED <<candidate, keys, notices, episodes, disturbed, jobs>>

\* Mutant: the success rate is not asked for.
QualifiesByCount(c) == c.state \notin {"promoted", "rejected"} /\ Enough(c) /\ c.successes > 0
Qualifies(c) == /\ c.state \notin {"promoted", "rejected"}
                /\ Enough(c) /\ Reaches(c, 0) /\ c.successes > 0

\* qualify; what it refuses ends the job.
Qualify(j) ==
    /\ At(j, "qualify")
    /\ IF Qualifies(candidate)
       THEN candidate' = [candidate EXCEPT !.state = "qualified"] /\ Proceed(j, "promote")
       ELSE UNCHANGED candidate /\ Ends(j)
    /\ UNCHANGED <<keys, memories, notices, episodes, disturbed, jobs>>

\* promote reads the record once, for the content, the evidence and the key.
ReadQualified(j) ==
    /\ At(j, "promote")
    /\ IF candidate.state \in {"qualified", "degraded"}
       THEN job' = [job EXCEPT ![j] = [pc |-> "commit", evidence |-> candidate.outcomes,
                                      revision |-> candidate.revision + 1]]
       ELSE Ends(j)
    /\ UNCHANGED <<candidate, keys, memories, notices, episodes, disturbed, jobs>>

Served == {m \in DOMAIN memories : memories[m] = "active"}
FreshMemory == Cardinality(DOMAIN memories) + 1
Plus(f, k, v) == [x \in DOMAIN f \cup {k} |-> IF x = k THEN v ELSE f[x]]

\* The commit of the procedure: its key answers what it answered, whatever the
\* evidence is now (the evidence is not part of the command's hash); an active
\* memory of the same content is reinforced; a memory that looks sensitive is
\* refused, for ever.
CommitProcedure(j) ==
    /\ At(j, "commit")
    /\ LET r == job[j].revision
           known == r \in DOMAIN keys
           settle(m) == job' = [job EXCEPT ![j] = [pc |-> "settle", revision |-> r, memory |-> m]]
           answer(m) == /\ keys' = Plus(keys, r, [evidence |-> job[j].evidence, memory |-> m])
                        /\ settle(m)
       IN  \/ known /\ settle(keys[r].memory) /\ UNCHANGED <<keys, memories>>
           \/ ~known /\ (\E m \in Served : answer(m)) /\ UNCHANGED memories
           \/ ~known /\ Served = {} /\ answer(FreshMemory) /\ memories' = Plus(memories, FreshMemory, "active")
           \/ ~known /\ answer(Missing) /\ UNCHANGED memories
    /\ UNCHANGED <<candidate, notices, episodes, disturbed, jobs>>

\* The result is written over whatever the record says by now.
Settle(j) ==
    /\ At(j, "settle")
    /\ candidate' = [candidate EXCEPT !.state = IF job[j].memory = Missing THEN "rejected" ELSE "promoted",
                         !.revision = job[j].revision,
                         !.memory = IF job[j].memory = Missing THEN @ ELSE job[j].memory]
    /\ Ends(j)
    /\ UNCHANGED <<keys, memories, notices, episodes, disturbed, jobs>>

\* The job is aborted, a call fails, or the process dies.
Cut(j) == /\ job[j] # Idle
          /\ disturbed' = TRUE
          /\ Ends(j)
          /\ UNCHANGED <<candidate, keys, memories, notices, episodes, jobs>>

LearnNext ==
    \E j \in Jobs :
        \/ \E e \in 1 .. EpisodeLimit : Observe(j, e)
        \/ ReadInitial(j) \/ RecordOutcome(j) \/ Announce(j) \/ Tombstone(j) \/ Qualify(j)
        \/ ReadQualified(j) \/ CommitProcedure(j) \/ Settle(j) \/ Cut(j)

LearnSpec == LearnInit /\ [][LearnNext]_learnVars

-----------------------------------------------------------------------------
\* However jobs race, repeat an episode or are cut, every task episode counts once.
EpisodesCountOnce ==
    candidate # Missing =>
        /\ candidate.successes = Cardinality(Good(candidate.outcomes))
        /\ candidate.failures = Cardinality(candidate.outcomes \ Good(candidate.outcomes))

\* The procedure is served by one memory, and only on the evidence of enough
\* episodes of which enough succeeded, unless another job was under way or was cut.
MemoryIsEarned ==
    /\ Cardinality(Served) <= 1
    /\ ~disturbed => \A r \in DOMAIN keys :
            LET n == Cardinality(keys[r].evidence)
                s == Cardinality(Good(keys[r].evidence))
            IN  n >= MinimumOutcomes /\ 100 * (1 + s) >= MinimumPercent * (2 + n)

\* What is served agrees with the record: a retired procedure is not served, a
\* promoted one is, and readers of a degraded one are told; unless jobs overlapped
\* or were cut.
StateIsServed ==
    (Busy = {} /\ ~disturbed /\ candidate # Missing) =>
        /\ candidate.state = "retired" => Served = {}
        /\ candidate.state = "promoted" => candidate.memory \in Served
        /\ candidate.state = "degraded" => candidate.revision \in notices

\* A procedure is served when, and only when, distinct task episodes have earned it.
ProceduresAreEarned == EpisodesCountOnce /\ MemoryIsEarned /\ StateIsServed
=============================================================================
