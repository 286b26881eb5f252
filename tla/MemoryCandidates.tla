--------------------------- MODULE MemoryCandidates ---------------------------
(***************************************************************************)
(* How a candidate becomes a memory (memory/src/memory-candidates.ts): it is   *)
(* observed by background jobs that race, found again by its scope and a        *)
(* similar wording, counted per session, expires, and is promoted to a memory   *)
(* under an idempotency key.  A job is cut at every await, and may die there.   *)
(* The texts are abstract: a wording stands for what canonicalAssertion makes   *)
(* of a content, and all wordings of a model overlap enough to be one claim.    *)
(***************************************************************************)
EXTENDS Naturals, Sequences, FiniteSets

CONSTANTS Observers,         \* background jobs of the scheduler
          Proposals,         \* [id, source, session, wording, preference, strong, verified, firstPerson,
                             \*  entailed, ours, hint, ceiling]: one proposal with its evidence
          MinimumPreference, \* minimumPreferenceObservations
          MinimumBehavior,   \* minimumBehaviorObservations
          Lifetime,          \* candidateTtlMs, in ticks of the clock
          ClockLimit, CallLimit, CutLimit, \* bounds
          None

\* The ranges that core/src/config.ts 531-542 requires of the two minimums, and the
\* types of a proposal.
ASSUME CandidatesAssumption ==
    /\ MinimumPreference \in Nat /\ MinimumPreference >= 2
    /\ MinimumBehavior \in Nat /\ MinimumBehavior >= 3
    /\ Lifetime \in Nat
    /\ None \notin Nat
    /\ \A i \in Proposals : /\ i.ceiling \in {"task", "repository", "project", "user"}
                            /\ {i.preference, i.strong, i.firstPerson, i.verified} \subseteq BOOLEAN

VARIABLES auto,        \* the policy's autoPromotion
          candidates,  \* <<scope, wording>> -> the candidate's record
          observing,   \* observer -> what it does
          keys,        \* candidate -> [wording, memory] of the commit under its key
          memories,    \* <<scope, wording, observations>> of the memories committed, in order
          day, observed, aborts \* the clock, calls of observe, jobs cut off

candidateVars == <<auto, candidates, observing, keys, memories, day, observed, aborts>>

Free == [pc |-> "idle"]
Terminal == {"promoted", "rejected", "expired"}
User == {"user_commitment", "user_correction"}
Tool == {"verified_tool", "episode_consolidation"}
Rank(kind) == CASE kind = "task" -> 0 [] kind = "repository" -> 1 [] kind = "project" -> 2 [] kind = "user" -> 3
Ends(o) == observing' = [observing EXCEPT ![o] = Free]
At(o, pc) == observing[o].pc = pc

CandidateInit == /\ auto \in BOOLEAN
                 /\ candidates = <<>> /\ keys = <<>> /\ memories = <<>>
                 /\ observing = [o \in Observers |-> Free]
                 /\ day = 0 /\ observed = 0 /\ aborts = 0

\* What observe asks of a proposal before it reads or writes anything.
Accepted(i) == /\ i.source # "model_hypothesis"
               /\ i.ours /\ i.entailed
               /\ i.preference => i.firstPerson
               /\ i.source \in Tool => i.verified

\* proposedScope: never wider than the evidence allows.
OwnPreference(i) == i.preference /\ i.hint = "user" /\ i.ceiling = "user" /\ i.firstPerson
ProposedScope(i) ==
    CASE i.source = "user_statement" /\ OwnPreference(i) -> "user"
      [] i.source \in Tool /\ i.ceiling # "task" -> "repository"
      [] i.source \in User /\ i.hint = "repository" /\ Rank(i.ceiling) >= 1 -> "repository"
      [] i.source \in User /\ i.hint = "project" /\ Rank(i.ceiling) >= 2 -> "project"
      [] i.source \in User /\ OwnPreference(i) -> "user"
      [] OTHER -> "task"

-----------------------------------------------------------------------------
Entries(c) == {c.observations[n] : n \in DOMAIN c.observations}
Independent(c) == Cardinality({i.session : i \in Entries(c)})
Sources(c) == {i.source : i \in Entries(c)}

\* Mutant: observations are counted, not sessions.
EligibleByCount(c) == \/ Sources(c) \cap (User \cup {"episode_consolidation"}) # {} /\ c.strong
                      \/ Len(c.observations) >= 2
\* eligibility.
Eligible(c) == \/ Sources(c) \cap User # {} /\ c.strong
               \/ /\ "user_statement" \in Sources(c) /\ c.preference
                  /\ Independent(c) >= MinimumPreference
               \/ /\ "repeated_behavior" \in Sources(c) /\ c.scope # "user"
                  /\ Independent(c) >= MinimumBehavior
               \/ "episode_consolidation" \in Sources(c) /\ c.strong
               \/ Sources(c) \cap Tool # {} /\ Independent(c) >= 2

Overdue(c) == c.expires <= day /\ c.state \notin Terminal

\* observe: list reads every record of the namespace ...
Begin(o, i) ==
    /\ observing[o] = Free /\ observed < CallLimit /\ Accepted(i)
    /\ observed' = observed + 1
    /\ LET open == {k \in DOMAIN candidates : candidates[k].state \notin Terminal}
       IN  observing' = [observing EXCEPT ![o] = [pc |-> "list", input |-> i, now |-> day,
                        live |-> {k \in open : ~Overdue(candidates[k])},
                        overdue |-> {k \in open : Overdue(candidates[k])}]]
    /\ UNCHANGED <<auto, candidates, keys, memories, day, aborts>>

\* ... and expires those that are overdue, each in a mutation that looks again.
Expire(o, k) ==
    /\ At(o, "list") /\ k \in observing[o].overdue
    /\ LET c == candidates[k]
           kept == c.expires > observing[o].now \/ c.state \in {"promoted", "rejected"}
       IN  /\ candidates' = IF kept THEN candidates ELSE [candidates EXCEPT ![k].state = "expired"]
           /\ observing' = [observing EXCEPT ![o].overdue = @ \ {k},
                          ![o].live = IF kept /\ c.state \notin Terminal THEN @ \cup {k} ELSE @]
    /\ UNCHANGED <<auto, keys, memories, day, observed, aborts>>

\* The candidate with the wording, or else a similar one of its scope, is reinforced;
\* without one the wording becomes a candidate.
Found(o) == LET i == observing[o].input
                same == {k \in observing[o].live : k[1] = ProposedScope(i)}
                exact == {k \in same : candidates[k].wording = i.wording}
            IN  IF exact # {} THEN exact
                ELSE IF same # {} THEN same ELSE {<<ProposedScope(i), i.wording>>}

Reinforced(c, i) ==
    LET added == [c EXCEPT !.wording = i.wording, !.preference = i.preference,
                     !.observations = Append(@, i), !.strong = @ \/ i.strong,
                     !.expires = day + Lifetime]
    IN  [added EXCEPT !.state = IF Eligible(added) THEN "eligible"
                                ELSE IF Len(added.observations) > 1 THEN "reinforced" ELSE "observed"]
New(i) == [scope |-> ProposedScope(i), wording |-> i.wording, preference |-> i.preference,
           state |-> "observed", observations |-> <<>>, strong |-> FALSE, expires |-> 0, memory |-> None]
Seen(c, i) == \E entry \in Entries(c) : entry.id = i.id

Mutate(o) ==
    /\ At(o, "list") /\ observing[o].overdue = {}
    /\ \E k \in Found(o) :
           LET i == observing[o].input
               old == IF k \in DOMAIN candidates THEN candidates[k] ELSE New(i)
               c == IF old.state \in Terminal \/ Seen(old, i) THEN old ELSE Reinforced(old, i)
           IN  /\ candidates' = [x \in DOMAIN candidates \cup {k} |-> IF x = k THEN c ELSE candidates[x]]
               /\ IF c.state = "eligible" /\ auto
                  THEN observing' = [observing EXCEPT ![o] = [pc |-> "promote", id |-> k]]
                  ELSE Ends(o)
    /\ UNCHANGED <<auto, keys, memories, day, observed, aborts>>

\* promote reads the candidate again ...
ReadEligible(o) ==
    /\ At(o, "promote")
    /\ LET c == candidates[observing[o].id]
       IN  IF c.state = "eligible"
           THEN observing' = [observing EXCEPT ![o] = [pc |-> "commit", id |-> @.id, wording |-> c.wording,
                                             observations |-> c.observations]]
           ELSE Ends(o)
    /\ UNCHANGED <<auto, candidates, keys, memories, day, observed, aborts>>

\* ... commits it under a key that refuses another wording (the service may refuse
\* the content too) ...
Commit(o) ==
    /\ At(o, "commit")
    /\ LET k == observing[o].id
           mark(m) == observing' = [observing EXCEPT ![o] = [pc |-> "mark", id |-> k, memory |-> m]]
           answer(m) == /\ keys' = [x \in DOMAIN keys \cup {k} |-> IF x = k
                                        THEN [wording |-> observing[o].wording, memory |-> m] ELSE keys[x]]
                        /\ mark(m)
       IN  IF k \in DOMAIN keys
           THEN /\ IF keys[k].wording = observing[o].wording THEN mark(keys[k].memory) ELSE Ends(o)
                /\ UNCHANGED <<keys, memories>>
           ELSE \/ /\ memories' = Append(memories, <<k[1], observing[o].wording, observing[o].observations>>)
                   /\ answer(Len(memories'))
                \/ answer(None) /\ UNCHANGED memories
    /\ UNCHANGED <<auto, candidates, day, observed, aborts>>

\* ... and writes the outcome over whatever the record says by now.
Mark(o) ==
    /\ At(o, "mark")
    /\ candidates' = [candidates EXCEPT ![observing[o].id].memory = observing[o].memory,
                         ![observing[o].id].state = IF observing[o].memory = None THEN "rejected" ELSE "promoted"]
    /\ Ends(o)
    /\ UNCHANGED <<auto, keys, memories, day, observed, aborts>>

\* The job is aborted, a call of the store fails, or the process dies.
CutOff(o) == /\ observing[o] # Free /\ aborts < CutLimit
          /\ aborts' = aborts + 1
          /\ Ends(o)
          /\ UNCHANGED <<auto, candidates, keys, memories, day, observed>>

Tick == /\ day < ClockLimit /\ day' = day + 1
        /\ UNCHANGED <<auto, candidates, observing, keys, memories, observed, aborts>>

CandidateNext ==
    \/ \E o \in Observers : \/ \E i \in Proposals : Begin(o, i)
                            \/ \E k \in DOMAIN candidates : Expire(o, k)
                            \/ Mutate(o) \/ ReadEligible(o) \/ Commit(o) \/ Mark(o) \/ CutOff(o)
    \/ Tick

CandidateSpec == CandidateInit /\ [][CandidateNext]_candidateVars

-----------------------------------------------------------------------------
\* A candidate has at most one memory, committed on its evidence.
PromotedHasMemory ==
    \A k \in DOMAIN candidates :
        candidates[k].state = "promoted" =>
            /\ candidates[k].memory \in DOMAIN memories
            /\ k \in DOMAIN keys /\ keys[k].memory = candidates[k].memory

\* Nothing becomes a memory on its own: behind each is an explicit statement or a
\* verified episode that was strong, or observations of two sessions; and never is
\* one wider than any evidence behind it allows.
MemoriesAreEarned ==
    /\ memories # <<>> => auto
    /\ \A m \in DOMAIN memories :
           LET entries == {memories[m][3][n] : n \in DOMAIN memories[m][3]}
           IN  /\ \/ \E i \in entries : i.source \in User \cup {"episode_consolidation"}
                  \/ \E i, j \in entries : i.session # j.session
               /\ \A i \in entries : Rank(memories[m][1]) <= Rank(i.ceiling)
                                     /\ (i.source \in Tool => i.verified)

\* However often a job is retried, an observation is one.
ObservationsCountOnce ==
    \A k \in DOMAIN candidates : \A m, n \in DOMAIN candidates[k].observations :
        candidates[k].observations[m].id = candidates[k].observations[n].id => m = n

\* What became eligible does not wait for ever: when no job is under way and none was
\* cut, no eligible candidate is left.
EligibleIsPromoted ==
    (auto /\ aborts = 0 /\ \A o \in Observers : observing[o] = Free) =>
        \A k \in DOMAIN candidates : candidates[k].state # "eligible"

\* A memory made of candidates rests on enough independent observations of one scope,
\* each counted once, and no candidate is promoted without its memory, or left behind.
CandidatesAreEarned == /\ PromotedHasMemory /\ MemoriesAreEarned
                       /\ ObservationsCountOnce /\ EligibleIsPromoted
=============================================================================
