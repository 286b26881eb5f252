----------------------------- MODULE Memory_proofs -----------------------------
(***************************************************************************)
(* MemoryCandidates: what is made of candidates rests on evidence, for every  *)
(* set of proposals, every number of observing jobs and calls, wherever jobs  *)
(* are cut off and whatever minimums the configuration allows.                *)
(*                                                                         *)
(* MemoryCommit: the memories of a namespace stay consistent, for every set   *)
(* of callers, contents and keys, however calls interleave with the writers   *)
(* that take no lock, with repairs and with crashes.                          *)
(*                                                                         *)
(* ArtifactStore: what is published of an artifact is whole and lasts, for    *)
(* every number of processes that write, recover and collect it.              *)
(***************************************************************************)
EXTENDS MemoryCandidates, MemoryCommit, ArtifactStore, FiniteSetTheorems, SequenceTheorems, TLAPS

Scopes == {"task", "repository", "project", "user"}
Wordings == {i.wording : i \in Proposals}
Names == Scopes \X Wordings
States == {"observed", "reinforced", "eligible"} \cup Terminal

Candidate == [scope : Scopes, wording : Wordings, preference : BOOLEAN, state : States,
              observations : Seq(Proposals), strong : BOOLEAN, expires : Nat,
              memory : Nat \cup {None}]

\* The steps of a job know of candidates that are stored.
CallType(o) ==
    /\ observing[o].pc \in {"idle", "list", "promote", "commit", "mark"}
    /\ At(o, "list") =>
          observing[o] \in [pc : {"list"}, input : Proposals, now : Nat,
                            live : SUBSET DOMAIN candidates, overdue : SUBSET DOMAIN candidates]
    /\ At(o, "promote") => observing[o] \in [pc : {"promote"}, id : DOMAIN candidates]
    /\ At(o, "commit") =>
          observing[o] \in [pc : {"commit"}, id : DOMAIN candidates, wording : Wordings,
                            observations : Seq(Proposals)]
    /\ At(o, "mark") =>
          observing[o] \in [pc : {"mark"}, id : DOMAIN candidates, memory : Nat \cup {None}]

TypeInv ==
    /\ auto \in BOOLEAN
    /\ day \in Nat /\ aborts \in Nat
    /\ DOMAIN observing = Observers /\ \A o \in Observers : CallType(o)
    /\ \A k \in DOMAIN candidates : k \in Names /\ candidates[k] \in Candidate
    /\ memories \in Seq(Scopes \X Wordings \X Seq(Proposals))
    /\ DOMAIN keys \subseteq DOMAIN candidates
    /\ \A k \in DOMAIN keys : keys[k].memory \in DOMAIN memories \cup {None}

\* A candidate has observations of its own scope, each once, and is eligible only if they
\* make it so; one that is promoted has the memory its key answers.
Sound(c) ==
    /\ \A n \in DOMAIN c.observations : /\ Accepted(c.observations[n])
                                        /\ ProposedScope(c.observations[n]) = c.scope
    /\ \A m, n \in DOMAIN c.observations :
           c.observations[m].id = c.observations[n].id => m = n
    /\ c.state = "eligible" => Eligible(c)
CandidateInv ==
    \A k \in DOMAIN candidates : /\ candidates[k].scope = k[1]
                                 /\ Sound(candidates[k])

\* What MemoriesAreEarned asks of the observations behind a memory of a scope.
Backed(observations, scope) ==
    LET entries == {observations[n] : n \in DOMAIN observations}
    IN  /\ \/ \E i \in entries : i.source \in User \cup {"episode_consolidation"}
           \/ \E i, j \in entries : i.session # j.session
        /\ \A i \in entries : Rank(scope) <= Rank(i.ceiling) /\ (i.source \in Tool => i.verified)

\* A job carries what it has read of an eligible candidate, or what the key answered it.
CallInv ==
    \A o \in Observers :
        /\ At(o, "list") => Accepted(observing[o].input)
        /\ observing[o].pc \in {"promote", "commit", "mark"} => auto
        /\ At(o, "commit") => Backed(observing[o].observations, observing[o].id[1])
        /\ At(o, "mark") => /\ observing[o].id \in DOMAIN keys
                            /\ observing[o].memory = keys[observing[o].id].memory

MemoryInv == /\ memories # <<>> => auto
             /\ \A m \in DOMAIN memories : Backed(memories[m][3], memories[m][1])

Promoted == \A k \in DOMAIN candidates :
    candidates[k].state = "promoted" => /\ k \in DOMAIN keys
                                        /\ candidates[k].memory = keys[k].memory
                                        /\ keys[k].memory # None

\* While no job is cut off, a key that was used is being marked or was, and somebody
\* is about to promote what is eligible.
Handled ==
    aborts = 0 =>
        /\ \A k \in DOMAIN keys :
               \/ candidates[k].state \in {"promoted", "rejected"}
               \/ \E o \in Observers : At(o, "mark") /\ observing[o].id = k
        /\ auto => \A k \in DOMAIN candidates :
               candidates[k].state = "eligible" =>
                   \E o \in Observers : /\ observing[o].pc \in {"promote", "commit", "mark"}
                                        /\ observing[o].id = k

CandidatesIInv == TypeInv /\ CandidateInv /\ CallInv /\ MemoryInv /\ Promoted /\ Handled

-----------------------------------------------------------------------------
\* Observations of two sessions are observations of different sessions.
LEMMA TwoSessions ==
    ASSUME NEW c, Independent(c) \in Nat, Independent(c) >= 2
    PROVE  \E i, j \in Entries(c) : i.session # j.session
<1> DEFINE S == {i.session : i \in Entries(c)}
<1> SUFFICES ASSUME \A i, j \in Entries(c) : i.session = j.session
             PROVE  FALSE
  OBVIOUS
<1>1. CASE S = {}
  BY <1>1, FS_EmptySet DEF Independent
<1>2. CASE S # {}
  <2>1. PICK s \in S : TRUE  BY <1>2
  <2>2. S = {s}  BY <2>1
  <2>3. Cardinality({s}) = 1  BY FS_Singleton
  <2> QED  BY <2>2, <2>3 DEF Independent
<1> QED  BY <1>1, <1>2

LEMMA EntriesFinite ==
    ASSUME NEW c \in Candidate
    PROVE  Independent(c) \in Nat
<1> DEFINE D == 1 .. Len(c.observations)
           S == {i.session : i \in Entries(c)}
           f == [n \in D |-> c.observations[n].session]
<1>1. c.observations \in Seq(Proposals)  BY DEF Candidate
<1>2. D = DOMAIN c.observations /\ IsFiniteSet(D)  BY <1>1, FS_Interval
<1>3. f \in [D -> S]  BY <1>2 DEF Entries
<1>4. \A s \in S : \E n \in D : f[n] = s  BY <1>2 DEF Entries
<1>5. f \in Surjection(D, S)  BY <1>3, <1>4 DEF Surjection
<1>6. IsFiniteSet(S)  BY <1>2, <1>5, FS_Surjection
<1> QED  BY <1>6, FS_CardinalityType DEF Independent

\* The scope of a proposal is never wider than its evidence allows.
LEMMA ScopeIsBounded ==
    ASSUME NEW i \in Proposals
    PROVE  /\ ProposedScope(i) \in Scopes
           /\ Rank(ProposedScope(i)) <= Rank(i.ceiling)
BY CandidatesAssumption DEF ProposedScope, OwnPreference, Rank, Scopes

\* What is eligible on its observations may become a memory.
LEMMA EligibleIsBacked ==
    ASSUME NEW c \in Candidate, Sound(c), Eligible(c)
    PROVE  Backed(c.observations, c.scope)
<1> DEFINE entries == {c.observations[n] : n \in DOMAIN c.observations}
<1>1. entries = Entries(c)  BY DEF Entries
<1>2. \/ \E i \in entries : i.source \in User \cup {"episode_consolidation"}
      \/ \E i, j \in entries : i.session # j.session
  <2>1. CASE Sources(c) \cap (User \cup {"episode_consolidation"}) # {}
    BY <1>1, <2>1 DEF Sources
  <2>2. CASE Sources(c) \cap (User \cup {"episode_consolidation"}) = {}
    <3>1. Independent(c) >= 2
      BY <2>2, EntriesFinite, CandidatesAssumption DEF Eligible
    <3> QED  BY <1>1, <3>1, TwoSessions, EntriesFinite
  <2> QED  BY <2>1, <2>2
<1>3. ASSUME NEW i \in entries
      PROVE  Rank(c.scope) <= Rank(i.ceiling) /\ (i.source \in Tool => i.verified)
  <2>1. PICK n \in DOMAIN c.observations : i = c.observations[n]  OBVIOUS
  <2>2. i \in Proposals  BY <2>1 DEF Candidate
  <2>3. Accepted(i) /\ ProposedScope(i) = c.scope  BY <2>1 DEF Sound
  <2> QED  BY <2>2, <2>3, ScopeIsBounded DEF Accepted
<1> QED  BY <1>2, <1>3 DEF Backed
-----------------------------------------------------------------------------
\* Where a job goes leaves the other jobs where they are.
LEMMA OneJob ==
    ASSUME TypeInv, NEW o \in Observers, NEW e, observing' = [observing EXCEPT ![o] = e]
    PROVE  /\ DOMAIN observing' = Observers
           /\ observing'[o] = e
           /\ \A p \in Observers \ {o} : observing'[p] = observing[p]
BY DEF TypeInv

\* The candidate a job mutates: one that is stored or a new one, of the proposal's scope.
LEMMA FoundIs ==
    ASSUME CandidatesIInv, NEW o \in Observers, At(o, "list"), NEW k \in Found(o)
    PROVE  /\ observing[o].input \in Proposals /\ Accepted(observing[o].input)
           /\ k \in Names
           /\ k[1] = ProposedScope(observing[o].input)
<1> DEFINE i == observing[o].input
<1>1. i \in Proposals /\ Accepted(i) /\ observing[o].live \subseteq DOMAIN candidates
  BY DEF CandidatesIInv, TypeInv, CallType, CallInv
<1>2. i.wording \in Wordings /\ ProposedScope(i) \in Scopes  BY <1>1, ScopeIsBounded DEF Wordings
<1>3. <<ProposedScope(i), i.wording>> \in Names  BY <1>2 DEF Names
<1>4. CASE k = <<ProposedScope(i), i.wording>>  BY <1>1, <1>3, <1>4
<1>5. CASE k \in observing[o].live /\ k[1] = ProposedScope(i)
  BY <1>1, <1>5 DEF CandidatesIInv, TypeInv
<1> QED  BY <1>1, <1>4, <1>5 DEF Found

\* A candidate that is reinforced, or made, stays sound.
LEMMA ReinforcedIs ==
    ASSUME NEW c \in Candidate, Sound(c) \/ c.observations = <<>>, c.state \notin Terminal,
           NEW i \in Proposals, Accepted(i), ProposedScope(i) = c.scope, ~Seen(c, i), day \in Nat
    PROVE  /\ Reinforced(c, i) \in Candidate
           /\ Sound(Reinforced(c, i))
           /\ Reinforced(c, i).scope = c.scope
           /\ Reinforced(c, i).state \notin Terminal
<1> DEFINE added == [c EXCEPT !.wording = i.wording, !.preference = i.preference,
                         !.observations = Append(@, i), !.strong = @ \/ i.strong,
                         !.expires = day + Lifetime]
           r == Reinforced(c, i)
<1>1. /\ i.wording \in Wordings /\ i.preference \in BOOLEAN /\ i.strong \in BOOLEAN
      /\ day + Lifetime \in Nat /\ Append(c.observations, i) \in Seq(Proposals)
  BY CandidatesAssumption DEF Wordings, Candidate
<1>2. /\ added \in Candidate
      /\ added.observations = Append(c.observations, i) /\ added.scope = c.scope
  BY <1>1 DEF Candidate
<1> HIDE DEF added
<1>3. /\ r = [added EXCEPT !.state = r.state]
      /\ r.state \in {"eligible", "reinforced", "observed"}
      /\ r.state = "eligible" => Eligible(added)
  BY <1>2 DEF added, Reinforced, Candidate
<1> HIDE DEF r
<1>4. /\ r \in Candidate /\ r.observations = added.observations /\ r.scope = added.scope
      /\ r.preference = added.preference /\ r.strong = added.strong
      /\ r.state \notin Terminal
  BY <1>2, <1>3 DEF Candidate, States, Terminal
<1>5. Eligible(added) => Eligible(r)
  BY <1>4 DEF Eligible, Sources, Independent, Entries
<1>6. \A n \in DOMAIN c.observations : /\ Accepted(c.observations[n])
                                        /\ ProposedScope(c.observations[n]) = c.scope
                                        /\ c.observations[n].id # i.id
  BY DEF Sound, Seen, Entries
<1>7. \A m, n \in DOMAIN c.observations : c.observations[m].id = c.observations[n].id => m = n
  BY DEF Sound
<1>8. /\ DOMAIN r.observations = DOMAIN c.observations \cup {Len(c.observations) + 1}
      /\ r.observations[Len(c.observations) + 1] = i
      /\ \A n \in DOMAIN c.observations : r.observations[n] = c.observations[n]
  BY <1>2, <1>4 DEF Candidate
<1>9. Sound(r)
  <2>1. \A n \in DOMAIN r.observations : /\ Accepted(r.observations[n])
                                          /\ ProposedScope(r.observations[n]) = r.scope
    BY <1>2, <1>4, <1>6, <1>8
  <2>2. \A m, n \in DOMAIN r.observations : r.observations[m].id = r.observations[n].id => m = n
    BY <1>6, <1>7, <1>8
  <2> QED  BY <1>3, <1>5, <2>1, <2>2 DEF Sound
<1> QED  BY <1>2, <1>4, <1>9 DEF r
-----------------------------------------------------------------------------
\* Begin: a job that was free lists what is stored.
LEMMA BeginKeeps ==
    ASSUME CandidatesIInv, NEW o \in Observers, NEW i \in Proposals, Begin(o, i)
    PROVE  CandidatesIInv'
<1> DEFINE open == {k \in DOMAIN candidates : candidates[k].state \notin Terminal}
           e == [pc |-> "list", input |-> i, now |-> day,
                 live |-> {k \in open : ~Overdue(candidates[k])},
                 overdue |-> {k \in open : Overdue(candidates[k])}]
<1> USE DEF At
<1>1. /\ observing' = [observing EXCEPT ![o] = e]
      /\ UNCHANGED <<auto, candidates, keys, memories, day, aborts>>
      /\ observing[o].pc = "idle" /\ Accepted(i)
  BY DEF Begin, Free
<1>2. /\ e.pc = "list" /\ e.input = i
      /\ e \in [pc : {"list"}, input : Proposals, now : Nat,
                live : SUBSET DOMAIN candidates, overdue : SUBSET DOMAIN candidates]
  BY DEF CandidatesIInv, TypeInv
<1> HIDE DEF e
<1>3. /\ DOMAIN observing' = Observers /\ observing'[o] = e
      /\ \A p \in Observers \ {o} : observing'[p] = observing[p]
  BY <1>1, OneJob DEF CandidatesIInv
<1>4. TypeInv'
  <2>1. \A p \in Observers : CallType(p)'
    BY <1>1, <1>2, <1>3 DEF CandidatesIInv, TypeInv, CallType
  <2> QED  BY <1>1, <1>3, <2>1 DEF CandidatesIInv, TypeInv
<1>5. CallInv'  BY <1>1, <1>2, <1>3 DEF CandidatesIInv, CallInv
<1>6. CandidateInv' /\ MemoryInv' /\ Promoted'
  <2>1. CandidateInv'  BY <1>1 DEF CandidatesIInv, CandidateInv
  <2>2. MemoryInv'  BY <1>1 DEF CandidatesIInv, MemoryInv
  <2>3. Promoted'  BY <1>1 DEF CandidatesIInv, Promoted
  <2> QED  BY <2>1, <2>2, <2>3
<1>7. Handled'
  BY <1>1, <1>3 DEF CandidatesIInv, Handled
<1> QED  BY <1>4, <1>5, <1>6, <1>7 DEF CandidatesIInv

\* Expire: what is promoted or rejected stays so, and what expires is not eligible.
LEMMA ExpireKeeps ==
    ASSUME CandidatesIInv, NEW o \in Observers, NEW k \in DOMAIN candidates, Expire(o, k)
    PROVE  CandidatesIInv'
<1> DEFINE c == candidates[k]
           kept == c.expires > observing[o].now \/ c.state \in {"promoted", "rejected"}
           live == IF kept /\ c.state \notin Terminal THEN observing[o].live \cup {k}
                   ELSE observing[o].live
           e == [observing[o] EXCEPT !.overdue = @ \ {k}, !.live = live]
           d == [c EXCEPT !.state = "expired"]
<1> USE DEF At
<1>1. /\ observing' = [observing EXCEPT ![o] = e]
      /\ candidates' = IF kept THEN candidates ELSE [candidates EXCEPT ![k] = d]
      /\ UNCHANGED <<auto, keys, memories, day, aborts>>
      /\ observing[o].pc = "list"
  BY DEF Expire
<1>2. observing[o] \in [pc : {"list"}, input : Proposals, now : Nat,
                       live : SUBSET DOMAIN candidates, overdue : SUBSET DOMAIN candidates]
  BY <1>1 DEF CandidatesIInv, TypeInv, CallType
<1>3. /\ e.pc = "list" /\ e.input = observing[o].input
      /\ e \in [pc : {"list"}, input : Proposals, now : Nat,
                live : SUBSET DOMAIN candidates, overdue : SUBSET DOMAIN candidates]
  BY <1>2
<1>4. /\ c \in Candidate /\ Sound(c) /\ c.scope = k[1]
  BY DEF CandidatesIInv, TypeInv, CandidateInv
<1>5. /\ d \in Candidate /\ d.state = "expired" /\ d.observations = c.observations
      /\ d.scope = c.scope
  BY <1>4 DEF Candidate, States, Terminal
<1>6. Sound(d)  BY <1>4, <1>5 DEF Sound
<1> HIDE DEF e, d
<1>7. /\ DOMAIN observing' = Observers /\ observing'[o] = e
      /\ \A p \in Observers \ {o} : observing'[p] = observing[p]
  BY <1>1, OneJob DEF CandidatesIInv
<1>8. /\ DOMAIN candidates' = DOMAIN candidates
      /\ \A x \in DOMAIN candidates : \/ candidates'[x] = candidates[x]
                                      \/ x = k /\ candidates'[x] = d /\ ~kept
  BY <1>1
<1>9. TypeInv'
  <2>1. \A p \in Observers : CallType(p)'
    BY <1>1, <1>3, <1>7, <1>8 DEF CandidatesIInv, TypeInv, CallType
  <2>2. \A x \in DOMAIN candidates' : x \in Names /\ candidates'[x] \in Candidate
    BY <1>5, <1>8 DEF CandidatesIInv, TypeInv
  <2> QED  BY <1>1, <1>7, <1>8, <2>1, <2>2 DEF CandidatesIInv, TypeInv
<1>10. CallInv'  BY <1>1, <1>3, <1>7 DEF CandidatesIInv, CallInv
<1>11. MemoryInv'  BY <1>1 DEF CandidatesIInv, MemoryInv
<1>12. CandidateInv'
  BY <1>4, <1>5, <1>6, <1>8 DEF CandidatesIInv, CandidateInv
<1>13. Promoted'  BY <1>1, <1>5, <1>8 DEF CandidatesIInv, Promoted
<1>14. Handled'
  <2> SUFFICES ASSUME aborts = 0 PROVE Handled'  BY <1>1 DEF Handled
  <2>1. \A x \in DOMAIN keys : \/ candidates'[x].state \in {"promoted", "rejected"}
                                \/ \E p \in Observers : observing'[p].pc = "mark" /\ observing'[p].id = x
    <3> TAKE x \in DOMAIN keys
    <3>1. \/ candidates[x].state \in {"promoted", "rejected"}
          \/ \E p \in Observers : observing[p].pc = "mark" /\ observing[p].id = x
      BY DEF CandidatesIInv, Handled
    <3>2. CASE candidates[x].state \in {"promoted", "rejected"}
      BY <1>8, <3>2 DEF CandidatesIInv, TypeInv
    <3>3. CASE \E p \in Observers : observing[p].pc = "mark" /\ observing[p].id = x
      BY <1>1, <1>7, <3>3
    <3> QED  BY <3>1, <3>2, <3>3
  <2>2. auto => \A x \in DOMAIN candidates' :
               candidates'[x].state = "eligible" =>
                   \E p \in Observers : /\ observing'[p].pc \in {"promote", "commit", "mark"}
                                        /\ observing'[p].id = x
    <3> SUFFICES ASSUME auto, NEW x \in DOMAIN candidates', candidates'[x].state = "eligible"
                 PROVE  \E p \in Observers : /\ observing'[p].pc \in {"promote", "commit", "mark"}
                                             /\ observing'[p].id = x
      OBVIOUS
    <3>1. x \in DOMAIN candidates /\ candidates[x].state = "eligible"  BY <1>5, <1>8
    <3>2. PICK p \in Observers : /\ observing[p].pc \in {"promote", "commit", "mark"}
                                /\ observing[p].id = x
      BY <3>1 DEF CandidatesIInv, Handled
    <3> QED  BY <1>1, <1>7, <3>2
  <2> QED  BY <1>1, <2>1, <2>2 DEF Handled
<1> QED  BY <1>9, <1>10, <1>11, <1>12, <1>13, <1>14 DEF CandidatesIInv
\* Mutate: what becomes eligible has a job that promotes it.
LEMMA MutateKeeps ==
    ASSUME CandidatesIInv, NEW o \in Observers, Mutate(o)
    PROVE  CandidatesIInv'
<1> USE DEF At
<1>1. PICK k \in Found(o) :
           LET i == observing[o].input
               old == IF k \in DOMAIN candidates THEN candidates[k] ELSE New(i)
               c == IF old.state \in Terminal \/ Seen(old, i) THEN old ELSE Reinforced(old, i)
           IN  /\ candidates' = [x \in DOMAIN candidates \cup {k} |-> IF x = k THEN c ELSE candidates[x]]
               /\ IF c.state = "eligible" /\ auto
                  THEN observing' = [observing EXCEPT ![o] = [pc |-> "promote", id |-> k]]
                  ELSE Ends(o)
  BY DEF Mutate
<1> DEFINE i == observing[o].input
           old == IF k \in DOMAIN candidates THEN candidates[k] ELSE New(i)
           c == IF old.state \in Terminal \/ Seen(old, i) THEN old ELSE Reinforced(old, i)
           e == IF c.state = "eligible" /\ auto THEN [pc |-> "promote", id |-> k] ELSE Free
<1>2. /\ observing[o].pc = "list"
      /\ UNCHANGED <<auto, keys, memories, day, aborts>>
  BY DEF Mutate
<1>3. /\ i \in Proposals /\ Accepted(i) /\ k \in Names /\ k[1] = ProposedScope(i)
  BY <1>2, FoundIs
<1>4. /\ old \in Candidate /\ old.scope = k[1]
      /\ Sound(old) \/ old.observations = <<>>
      /\ old.state \in Terminal \/ Seen(old, i) => k \in DOMAIN candidates
  <2>1. CASE k \in DOMAIN candidates
    BY <2>1 DEF CandidatesIInv, TypeInv, CandidateInv
  <2>2. CASE k \notin DOMAIN candidates
    <3>1. old = New(i)  BY <2>2
    <3>2. /\ New(i) \in Candidate /\ New(i).scope = ProposedScope(i)
          /\ New(i).observations = <<>> /\ New(i).state = "observed"
      BY <1>3, ScopeIsBounded, CandidatesAssumption DEF New, Candidate, Wordings, States
    <3>3. ~Seen(New(i), i)  BY <3>2 DEF Seen, Entries
    <3> QED  BY <1>3, <3>1, <3>2, <3>3 DEF Terminal
  <2> QED  BY <2>1, <2>2
<1> HIDE DEF i, old
<1>5. /\ c \in Candidate /\ Sound(c) /\ c.scope = k[1]
      /\ (k \in DOMAIN candidates /\ c = candidates[k]) \/ c.state \notin Terminal
  <2>1. CASE old.state \in Terminal \/ Seen(old, i)
    BY <1>4, <2>1 DEF CandidatesIInv, TypeInv, CandidateInv, old
  <2>2. CASE ~(old.state \in Terminal \/ Seen(old, i))
    BY <1>3, <1>4, <2>2, ReinforcedIs DEF CandidatesIInv, TypeInv
  <2> QED  BY <2>1, <2>2
<1>6. k \in DOMAIN candidates /\ candidates[k].state \in Terminal => c = candidates[k]
  BY DEF old
<1>7. /\ candidates' = [x \in DOMAIN candidates \cup {k} |-> IF x = k THEN c ELSE candidates[x]]
      /\ observing' = [observing EXCEPT ![o] = e]
  BY <1>1 DEF Ends, old, i
<1> HIDE DEF c
<1>8. /\ e.pc \in {"idle", "promote"}
      /\ e.pc = "promote" => e = [pc |-> "promote", id |-> k] /\ auto
      /\ c.state = "eligible" /\ auto => e.pc = "promote" /\ e.id = k
  BY DEF Free
<1> HIDE DEF e
<1>9. /\ DOMAIN observing' = Observers /\ observing'[o] = e
      /\ \A p \in Observers \ {o} : observing'[p] = observing[p]
  BY <1>7, OneJob DEF CandidatesIInv
<1>10. /\ DOMAIN candidates' = DOMAIN candidates \cup {k} /\ candidates'[k] = c
       /\ \A x \in DOMAIN candidates : x # k => candidates'[x] = candidates[x]
  BY <1>7
<1>11. TypeInv'
  <2>1. \A p \in Observers : CallType(p)'
    <3>1. CallType(o)'  BY <1>8, <1>9, <1>10 DEF CallType
    <3>2. ASSUME NEW p \in Observers \ {o} PROVE CallType(p)'
      BY <1>9, <1>10 DEF CandidatesIInv, TypeInv, CallType
    <3> QED  BY <3>1, <3>2
  <2>2. \A x \in DOMAIN candidates' : x \in Names /\ candidates'[x] \in Candidate
    BY <1>3, <1>5, <1>10 DEF CandidatesIInv, TypeInv
  <2> QED  BY <1>2, <1>9, <1>10, <2>1, <2>2 DEF CandidatesIInv, TypeInv
<1>12. CallInv'
  BY <1>2, <1>8, <1>9 DEF CandidatesIInv, CallInv
<1>13. MemoryInv'  BY <1>2 DEF CandidatesIInv, MemoryInv
<1>14. CandidateInv'  BY <1>5, <1>10 DEF CandidatesIInv, CandidateInv
<1>15. Promoted'  BY <1>2, <1>5, <1>6, <1>10 DEF CandidatesIInv, Promoted, Terminal
<1>16. Handled'
  <2> SUFFICES ASSUME aborts = 0 PROVE Handled'  BY <1>2 DEF Handled
  <2>1. \A x \in DOMAIN keys : \/ candidates'[x].state \in {"promoted", "rejected"}
                                \/ \E p \in Observers : observing'[p].pc = "mark" /\ observing'[p].id = x
    <3> TAKE x \in DOMAIN keys
    <3>1. x \in DOMAIN candidates  BY DEF CandidatesIInv, TypeInv
    <3>2. \/ candidates[x].state \in {"promoted", "rejected"}
          \/ \E p \in Observers : observing[p].pc = "mark" /\ observing[p].id = x
      BY DEF CandidatesIInv, Handled
    <3>3. CASE candidates[x].state \in {"promoted", "rejected"}
      BY <1>6, <1>10, <3>1, <3>3 DEF Terminal
    <3>4. CASE \E p \in Observers : observing[p].pc = "mark" /\ observing[p].id = x
      BY <1>2, <1>9, <3>4
    <3> QED  BY <3>2, <3>3, <3>4
  <2>2. ASSUME auto, NEW x \in DOMAIN candidates', candidates'[x].state = "eligible"
        PROVE  \E p \in Observers : /\ observing'[p].pc \in {"promote", "commit", "mark"}
                                    /\ observing'[p].id = x
    <3>1. CASE x = k
      BY <1>8, <1>9, <1>10, <2>2, <3>1
    <3>2. CASE x # k
      <4>1. x \in DOMAIN candidates /\ candidates[x].state = "eligible"  BY <1>10, <2>2, <3>2
      <4>2. PICK p \in Observers : /\ observing[p].pc \in {"promote", "commit", "mark"}
                                  /\ observing[p].id = x
        BY <2>2, <4>1 DEF CandidatesIInv, Handled
      <4> QED  BY <1>2, <1>9, <4>2
    <3> QED  BY <3>1, <3>2
  <2> QED  BY <1>2, <2>1, <2>2 DEF Handled
<1> QED  BY <1>11, <1>12, <1>13, <1>14, <1>15, <1>16 DEF CandidatesIInv

\* ReadEligible: what is read of an eligible candidate may become a memory.
LEMMA ReadKeeps ==
    ASSUME CandidatesIInv, NEW o \in Observers, ReadEligible(o)
    PROVE  CandidatesIInv'
<1> DEFINE k == observing[o].id
           c == candidates[k]
           e == IF c.state = "eligible"
                THEN [pc |-> "commit", id |-> k, wording |-> c.wording, observations |-> c.observations]
                ELSE Free
<1> USE DEF At
<1>1. /\ observing[o].pc = "promote"
      /\ observing' = [observing EXCEPT ![o] = e]
      /\ UNCHANGED <<auto, candidates, keys, memories, day, aborts>>
  BY DEF ReadEligible, Ends
<1>2. k \in DOMAIN candidates /\ auto  BY <1>1 DEF CandidatesIInv, TypeInv, CallType, CallInv
<1>3. c \in Candidate /\ Sound(c) /\ c.scope = k[1]
  BY <1>2 DEF CandidatesIInv, TypeInv, CandidateInv
<1>4. c.state = "eligible" => Backed(c.observations, k[1])
  BY <1>3, EligibleIsBacked DEF Sound
<1>5. c.wording \in Wordings /\ c.observations \in Seq(Proposals)  BY <1>3 DEF Candidate
<1>6. /\ e.pc \in {"idle", "commit"}
      /\ e.pc = "commit" => /\ e \in [pc : {"commit"}, id : DOMAIN candidates, wording : Wordings,
                                      observations : Seq(Proposals)]
                            /\ Backed(e.observations, e.id[1])
      /\ c.state = "eligible" => e.pc = "commit" /\ e.id = k
  BY <1>2, <1>4, <1>5 DEF Free
<1> HIDE DEF e
<1>7. /\ DOMAIN observing' = Observers /\ observing'[o] = e
      /\ \A p \in Observers \ {o} : observing'[p] = observing[p]
  BY <1>1, OneJob DEF CandidatesIInv
<1>8. TypeInv'
  <2>1. \A p \in Observers : CallType(p)'
    BY <1>1, <1>6, <1>7 DEF CandidatesIInv, TypeInv, CallType
  <2> QED  BY <1>1, <1>7, <2>1 DEF CandidatesIInv, TypeInv
<1>9. CallInv'  BY <1>1, <1>2, <1>6, <1>7 DEF CandidatesIInv, CallInv
<1>10. CandidateInv' /\ MemoryInv' /\ Promoted'
  <2>1. CandidateInv'  BY <1>1 DEF CandidatesIInv, CandidateInv
  <2>2. MemoryInv'  BY <1>1 DEF CandidatesIInv, MemoryInv
  <2>3. Promoted'  BY <1>1 DEF CandidatesIInv, Promoted
  <2> QED  BY <2>1, <2>2, <2>3
<1>11. Handled'  BY <1>1, <1>6, <1>7 DEF CandidatesIInv, Handled
<1> QED  BY <1>8, <1>9, <1>10, <1>11 DEF CandidatesIInv
\* Commit: under its key a candidate has one memory, committed on what made it eligible.
LEMMA CommitKeeps ==
    ASSUME CandidatesIInv, NEW o \in Observers, Commit(o)
    PROVE  CandidatesIInv'
<1> DEFINE k == observing[o].id
           made == <<k[1], observing[o].wording, observing[o].observations>>
           marking(m) == [pc |-> "mark", id |-> k, memory |-> m]
           answered(m) == [x \in DOMAIN keys \cup {k} |->
                              IF x = k THEN [wording |-> observing[o].wording, memory |-> m] ELSE keys[x]]
<1> USE DEF At
<1>1. /\ observing[o].pc = "commit"
      /\ UNCHANGED <<auto, candidates, day, aborts>>
  BY DEF Commit
<1>2. /\ k \in DOMAIN candidates /\ k \in Names /\ auto
      /\ observing[o].wording \in Wordings /\ observing[o].observations \in Seq(Proposals)
      /\ Backed(observing[o].observations, k[1])
  BY <1>1 DEF CandidatesIInv, TypeInv, CallType, CallInv
<1>3. memories \in Seq(Scopes \X Wordings \X Seq(Proposals)) /\ Len(memories) \in Nat
  BY DEF CandidatesIInv, TypeInv
<1>4. made \in Scopes \X Wordings \X Seq(Proposals)  BY <1>2 DEF Names
<1>5. CandidateInv'  BY <1>1 DEF CandidatesIInv, CandidateInv
<1>6. ASSUME NEW e, observing' = [observing EXCEPT ![o] = e],
             e.pc \in {"idle", "mark"},
             e.pc = "mark" => /\ e \in [pc : {"mark"}, id : DOMAIN candidates, memory : Nat \cup {None}]
                              /\ e.id \in DOMAIN keys' /\ e.memory = keys'[e.id].memory,
             DOMAIN keys' \in {DOMAIN keys, DOMAIN keys \cup {k}},
             \A x \in DOMAIN keys : keys'[x] = keys[x],
             \A x \in DOMAIN keys' : keys'[x].memory \in DOMAIN memories' \cup {None},
             memories' \in {memories, Append(memories, made)},
             (e.pc = "mark" /\ e.id = k)
                \/ /\ DOMAIN keys' = DOMAIN keys /\ k \in DOMAIN keys
      PROVE  CandidatesIInv'
    <2>1. /\ DOMAIN observing' = Observers /\ observing'[o] = e
          /\ \A p \in Observers \ {o} : observing'[p] = observing[p]
      BY <1>6, OneJob DEF CandidatesIInv
    <2>2. TypeInv'
      <3>1. \A p \in Observers : CallType(p)'
        BY <1>1, <1>6, <2>1 DEF CandidatesIInv, TypeInv, CallType
      <3>2. memories' \in Seq(Scopes \X Wordings \X Seq(Proposals))
        <4> HIDE DEF made
        <4>1. CASE memories' = memories  BY <1>3, <4>1
        <4>2. CASE memories' = Append(memories, made)  BY <1>3, <1>4, <4>2
        <4> QED  BY <1>6, <4>1, <4>2
      <3>3. DOMAIN keys' \subseteq DOMAIN candidates  BY <1>2, <1>6 DEF CandidatesIInv, TypeInv
      <3> QED  BY <1>1, <1>6, <2>1, <3>1, <3>2, <3>3 DEF CandidatesIInv, TypeInv
    <2>3. CallInv'
      <3>1. \A p \in Observers \ {o} : observing[p].pc = "mark" =>
                /\ observing[p].id \in DOMAIN keys' /\ observing[p].memory = keys'[observing[p].id].memory
        BY <1>6 DEF CandidatesIInv, CallInv
      <3> QED  BY <1>1, <1>2, <1>6, <2>1, <3>1 DEF CandidatesIInv, CallInv
    <2>4. MemoryInv'
      <3>1. CASE memories' = memories  BY <1>1, <3>1 DEF CandidatesIInv, MemoryInv
      <3>2. CASE memories' = Append(memories, made)
        <4>1. /\ DOMAIN memories' = DOMAIN memories \cup {Len(memories) + 1}
              /\ memories'[Len(memories) + 1] = made
              /\ \A m \in DOMAIN memories : memories'[m] = memories[m]
          BY <1>3, <1>4, <3>2
        <4>2. made[1] = k[1] /\ made[3] = observing[o].observations  OBVIOUS
        <4> QED  BY <1>1, <1>2, <4>1, <4>2 DEF CandidatesIInv, MemoryInv
      <3> QED  BY <1>6, <3>1, <3>2
    <2>5. Promoted'
      BY <1>1, <1>6 DEF CandidatesIInv, TypeInv, Promoted
    <2>6. Handled'
      <3> SUFFICES ASSUME aborts = 0 PROVE Handled'  BY <1>1 DEF Handled
      <3>1. ASSUME NEW x \in DOMAIN keys'
            PROVE  \/ candidates[x].state \in {"promoted", "rejected"}
                   \/ \E p \in Observers : observing'[p].pc = "mark" /\ observing'[p].id = x
        <4>1. CASE x \in DOMAIN keys
          BY <1>1, <2>1, <4>1 DEF CandidatesIInv, Handled
        <4>2. CASE x \notin DOMAIN keys
          BY <1>6, <2>1, <3>1, <4>2
        <4> QED  BY <4>1, <4>2
      <3>2. ASSUME auto, NEW x \in DOMAIN candidates, candidates[x].state = "eligible"
            PROVE  \E p \in Observers : /\ observing'[p].pc \in {"promote", "commit", "mark"}
                                        /\ observing'[p].id = x
        <4>1. PICK p \in Observers : /\ observing[p].pc \in {"promote", "commit", "mark"}
                                    /\ observing[p].id = x
          BY <3>2 DEF CandidatesIInv, Handled
        <4>2. CASE p # o  BY <2>1, <4>1, <4>2
        <4>3. CASE p = o /\ e.pc = "mark" /\ e.id = k  BY <2>1, <4>1, <4>3
        <4>4. CASE p = o /\ k \in DOMAIN keys
          <5>1. x = k  BY <4>1, <4>4
          <5>2. PICK q \in Observers : observing[q].pc = "mark" /\ observing[q].id = x
            BY <3>2, <4>4, <5>1 DEF CandidatesIInv, Handled
          <5> QED  BY <1>1, <2>1, <5>2
        <4> QED  BY <1>6, <4>2, <4>3, <4>4
      <3> QED  BY <1>1, <3>1, <3>2 DEF Handled
    <2> QED  BY <1>5, <2>2, <2>3, <2>4, <2>5, <2>6 DEF CandidatesIInv
<1>7. CASE k \in DOMAIN keys
  <2>1. UNCHANGED <<keys, memories>>  BY <1>7 DEF Commit
  <2>2. keys[k].memory \in Nat \cup {None}  BY <1>3, <1>7 DEF CandidatesIInv, TypeInv
  <2>3. CASE observing' = [observing EXCEPT ![o] = marking(keys[k].memory)]
    BY <1>2, <1>6, <1>7, <2>1, <2>2, <2>3 DEF CandidatesIInv, TypeInv
  <2>4. CASE observing' = [observing EXCEPT ![o] = Free]
    BY <1>6, <1>7, <2>1, <2>4 DEF CandidatesIInv, TypeInv, Free
  <2> QED  BY <1>7, <2>3, <2>4 DEF Commit, Ends
<1>8. CASE k \notin DOMAIN keys
  <2>1. ASSUME NEW m \in Nat \cup {None}, keys' = answered(m), m \in DOMAIN memories' \cup {None},
               observing' = [observing EXCEPT ![o] = marking(m)],
               memories' \in {memories, Append(memories, made)}
        PROVE  CandidatesIInv'
    <3>1. /\ DOMAIN keys' = DOMAIN keys \cup {k} /\ keys'[k].memory = m
          /\ \A x \in DOMAIN keys : keys'[x] = keys[x]
      BY <1>8, <2>1
    <3>2. DOMAIN memories \subseteq DOMAIN memories'  BY <1>3, <1>4, <2>1
    <3>3. \A x \in DOMAIN keys' : keys'[x].memory \in DOMAIN memories' \cup {None}
      BY <2>1, <3>1, <3>2 DEF CandidatesIInv, TypeInv
    <3>4. /\ marking(m).pc = "mark" /\ marking(m).id = k /\ marking(m).memory = m
          /\ marking(m) \in [pc : {"mark"}, id : DOMAIN candidates, memory : Nat \cup {None}]
      BY <1>2
    <3> HIDE DEF marking, made, answered
    <3> QED  BY <1>6, <2>1, <3>1, <3>3, <3>4
  <2>2. CASE /\ memories' = Append(memories, made) /\ keys' = answered(Len(memories'))
             /\ observing' = [observing EXCEPT ![o] = marking(Len(memories'))]
    <3>1. Len(memories') \in Nat /\ Len(memories') \in DOMAIN memories'  BY <1>3, <1>4, <2>2
    <3> HIDE DEF marking, made, answered
    <3> QED  BY <2>1, <2>2, <3>1
  <2>3. CASE /\ memories' = memories /\ keys' = answered(None)
             /\ observing' = [observing EXCEPT ![o] = marking(None)]
    BY <2>1, <2>3
  <2> QED  BY <1>8, <2>2, <2>3 DEF Commit
<1> QED  BY <1>7, <1>8

\* Mark: the record says what the key answered.
LEMMA MarkKeeps ==
    ASSUME CandidatesIInv, NEW o \in Observers, Mark(o)
    PROVE  CandidatesIInv'
<1> DEFINE k == observing[o].id
           c == candidates[k]
           d == [c EXCEPT !.memory = observing[o].memory,
                          !.state = IF observing[o].memory = None THEN "rejected" ELSE "promoted"]
<1> USE DEF At
<1>1. /\ observing[o].pc = "mark"
      /\ observing' = [observing EXCEPT ![o] = Free]
      /\ candidates' = [candidates EXCEPT ![k] = d]
      /\ UNCHANGED <<auto, keys, memories, day, aborts>>
  BY DEF Mark, Ends
<1>2. /\ k \in DOMAIN candidates /\ k \in DOMAIN keys
      /\ observing[o].memory = keys[k].memory /\ observing[o].memory \in Nat \cup {None}
  BY <1>1 DEF CandidatesIInv, TypeInv, CallType, CallInv
<1>3. c \in Candidate /\ Sound(c) /\ c.scope = k[1]
  BY <1>2 DEF CandidatesIInv, TypeInv, CandidateInv
<1>4. /\ d \in Candidate /\ d.memory = keys[k].memory
      /\ d.state = IF keys[k].memory = None THEN "rejected" ELSE "promoted"
      /\ d.observations = c.observations /\ d.scope = c.scope
  BY <1>2, <1>3 DEF Candidate, States, Terminal
<1>5. Sound(d)  BY <1>3, <1>4 DEF Sound
<1> HIDE DEF d
<1>6. /\ DOMAIN observing' = Observers /\ observing'[o].pc = "idle"
      /\ \A p \in Observers \ {o} : observing'[p] = observing[p]
  BY <1>1, OneJob DEF CandidatesIInv, Free
<1>7. /\ DOMAIN candidates' = DOMAIN candidates /\ candidates'[k] = d
      /\ \A x \in DOMAIN candidates : x # k => candidates'[x] = candidates[x]
  BY <1>1, <1>2
<1>8. TypeInv'
  <2>1. \A p \in Observers : CallType(p)'
    BY <1>6, <1>7 DEF CandidatesIInv, TypeInv, CallType
  <2>2. \A x \in DOMAIN candidates' : x \in Names /\ candidates'[x] \in Candidate
    BY <1>4, <1>7 DEF CandidatesIInv, TypeInv
  <2> QED  BY <1>1, <1>6, <1>7, <2>1, <2>2 DEF CandidatesIInv, TypeInv
<1>9. CallInv'  BY <1>1, <1>6 DEF CandidatesIInv, CallInv
<1>10. MemoryInv'  BY <1>1 DEF CandidatesIInv, MemoryInv
<1>11. CandidateInv'  BY <1>3, <1>4, <1>5, <1>7 DEF CandidatesIInv, CandidateInv
<1>12. Promoted'  BY <1>1, <1>2, <1>4, <1>7 DEF CandidatesIInv, Promoted
<1>13. Handled'
  <2> SUFFICES ASSUME aborts = 0 PROVE Handled'  BY <1>1 DEF Handled
  <2>1. ASSUME NEW x \in DOMAIN keys
        PROVE  \/ candidates'[x].state \in {"promoted", "rejected"}
               \/ \E p \in Observers : observing'[p].pc = "mark" /\ observing'[p].id = x
    <3>1. CASE x = k  BY <1>4, <1>7, <3>1
    <3>2. CASE x # k
      <4>1. x \in DOMAIN candidates  BY DEF CandidatesIInv, TypeInv
      <4> QED  BY <1>6, <1>7, <3>2, <4>1 DEF CandidatesIInv, Handled
    <3> QED  BY <3>1, <3>2
  <2>2. ASSUME auto, NEW x \in DOMAIN candidates, candidates'[x].state = "eligible"
        PROVE  \E p \in Observers : /\ observing'[p].pc \in {"promote", "commit", "mark"}
                                    /\ observing'[p].id = x
    <3>1. x # k  BY <1>4, <1>7, <2>2
    <3> QED  BY <1>6, <1>7, <2>2, <3>1 DEF CandidatesIInv, Handled
  <2> QED  BY <1>1, <1>7, <2>1, <2>2 DEF Handled
<1> QED  BY <1>8, <1>9, <1>10, <1>11, <1>12, <1>13 DEF CandidatesIInv

\* CutOff, Tick: a job that is cut off leaves no promise of promotion behind.
LEMMA RestKeeps ==
    ASSUME CandidatesIInv, (\E o \in Observers : CutOff(o)) \/ Tick \/ UNCHANGED candidateVars
    PROVE  CandidatesIInv'
<1> USE DEF At
<1>1. UNCHANGED <<auto, candidates, keys, memories>>
  BY DEF CutOff, Tick, candidateVars
<1>2. CandidateInv' /\ MemoryInv' /\ Promoted'
  <2>1. CandidateInv'  BY <1>1 DEF CandidatesIInv, CandidateInv
  <2>2. MemoryInv'  BY <1>1 DEF CandidatesIInv, MemoryInv
  <2>3. Promoted'  BY <1>1 DEF CandidatesIInv, Promoted
  <2> QED  BY <2>1, <2>2, <2>3
<1>3. ASSUME NEW o \in Observers, CutOff(o)
      PROVE  CandidatesIInv'
  <2>1. observing' = [observing EXCEPT ![o] = Free] /\ aborts' = aborts + 1 /\ day' = day
    BY <1>3 DEF CutOff, Ends
  <2>2. /\ DOMAIN observing' = Observers /\ observing'[o].pc = "idle"
        /\ \A p \in Observers \ {o} : observing'[p] = observing[p]
    BY <2>1, OneJob DEF CandidatesIInv, Free
  <2>3. TypeInv'
    <3>1. \A p \in Observers : CallType(p)'
      BY <1>1, <2>2 DEF CandidatesIInv, TypeInv, CallType
    <3> QED  BY <1>1, <2>1, <2>2, <3>1 DEF CandidatesIInv, TypeInv
  <2>4. CallInv'  BY <1>1, <2>2 DEF CandidatesIInv, CallInv
  <2>5. Handled'  BY <2>1 DEF CandidatesIInv, TypeInv, Handled
  <2> QED  BY <1>2, <2>3, <2>4, <2>5 DEF CandidatesIInv
<1>4. CASE Tick \/ UNCHANGED candidateVars
  <2>1. UNCHANGED <<observing, aborts>> /\ day' \in Nat
    BY <1>4 DEF Tick, candidateVars, CandidatesIInv, TypeInv
  <2>2. TypeInv'  BY <1>1, <2>1 DEF CandidatesIInv, TypeInv, CallType
  <2>3. CallInv'  BY <1>1, <2>1 DEF CandidatesIInv, CallInv
  <2>4. Handled'  BY <1>1, <2>1 DEF CandidatesIInv, Handled
  <2> QED  BY <1>2, <2>2, <2>3, <2>4 DEF CandidatesIInv
<1> QED  BY <1>3, <1>4

-----------------------------------------------------------------------------
LEMMA Starts == CandidateInit => CandidatesIInv
<1> SUFFICES ASSUME CandidateInit PROVE CandidatesIInv  OBVIOUS
<1> USE DEF CandidateInit
<1>1. /\ DOMAIN candidates = {} /\ DOMAIN keys = {} /\ DOMAIN memories = {}
      /\ \A o \in Observers : observing[o].pc = "idle"
  BY DEF Free
<1>2. TypeInv  BY <1>1 DEF TypeInv, CallType, At
<1> QED  BY <1>1, <1>2 DEF CandidatesIInv, CandidateInv, CallInv, MemoryInv, Promoted, Handled, At

LEMMA NextStep == CandidatesIInv /\ [CandidateNext]_candidateVars => CandidatesIInv'
BY BeginKeeps, ExpireKeeps, MutateKeeps, ReadKeeps, CommitKeeps, MarkKeeps, RestKeeps
   DEF CandidateNext

LEMMA InvariantSuffices == CandidatesIInv => CandidatesAreEarned
<1> SUFFICES ASSUME CandidatesIInv PROVE CandidatesAreEarned  OBVIOUS
<1>1. PromotedHasMemory  BY DEF CandidatesIInv, TypeInv, Promoted, PromotedHasMemory
<1>2. MemoriesAreEarned  BY DEF CandidatesIInv, MemoryInv, Backed, MemoriesAreEarned
<1>3. ObservationsCountOnce  BY DEF CandidatesIInv, CandidateInv, Sound, ObservationsCountOnce
<1>4. EligibleIsPromoted  BY DEF CandidatesIInv, Handled, EligibleIsPromoted, Free
<1> QED  BY <1>1, <1>2, <1>3, <1>4 DEF CandidatesAreEarned

\* A memory made of candidates rests on an explicit statement, a verified episode or
\* independent observations of one scope, each counted once; no candidate is promoted without
\* its memory; and while no job is cut off, none that is eligible is left behind.
THEOREM CandidatesAlwaysEarned == CandidateSpec => []CandidatesAreEarned
<1>1. CandidateInit => CandidatesIInv  BY Starts
<1>2. CandidatesIInv /\ [CandidateNext]_candidateVars => CandidatesIInv'  BY NextStep
<1>3. CandidatesIInv => CandidatesAreEarned  BY InvariantSuffices
<1> QED  BY <1>1, <1>2, <1>3, PTL DEF CandidateSpec

-----------------------------------------------------------------------------
\* MemoryCommit: what a record and a call of the service are.
Record == [content : Contents, status : Statuses, by : Nat]
Copies == UNION {[ids -> Record] : ids \in SUBSET Nat}
CallPcs == {"idem", "joined", "exact", "fetch", "reinforce", "embed", "insert", "targets",
            "transition", "view", "remember", "check", "consolidate", "mark"}
CallRecord == [pc : CallPcs, kind : {"commit", "consolidate"} \cup Marks,
               content : Contents \cup {Nothing}, key : Keys \cup {Nothing},
               relation : {"coexist", "supersede", "retract", "reinforce", "none"},
               targets : SUBSET Nat, id : Nat, copy : Copies]

StoreInv ==
    /\ recs \in Seq(Record) /\ \A i \in Ids : recs[i].by <= Len(recs)
    /\ lock \in Seq(Callers)
    /\ DOMAIN call = Callers /\ \A p \in Callers : FreeCaller(p) \/ call[p] \in CallRecord
    /\ running \in [Keys -> Callers \cup {Nothing}]
    /\ DOMAIN idem = Keys
    /\ \A k \in Keys : idem[k] # Nothing => idem[k] \in [content : Contents, id : Ids]
    /\ effects \in [Keys -> Nat] /\ crashes \in Nat

\* What a call carries fits the memories, at every step of it.
CallFits(p) ==
    LET c == call[p] IN
    /\ c.id <= Len(recs) /\ c.targets \subseteq Ids /\ DOMAIN c.copy \subseteq Ids
    /\ \A i \in DOMAIN c.copy : c.copy[i].content = recs[i].content /\ c.copy[i].by <= Len(recs)
    /\ c.pc \notin {"idem", "joined", "exact", "embed", "insert"} => c.id # 0
    /\ c.pc \in {"idem", "joined", "remember"} => c.key \in Keys
    /\ c.key \in Keys \/ c.pc \in {"exact", "embed", "insert"} => c.kind = "commit"
    /\ c.kind = "commit" => c.content \in Contents
    /\ c.pc \in {"check", "consolidate"} =>
          c.key = Nothing /\ \E t \in Nat \ {c.id} : c.targets = {t}
    /\ c.pc \in {"targets", "transition"} => c.id \notin c.targets
    /\ c.pc = "transition" => DOMAIN c.copy = c.targets
    /\ c.pc = "reinforce" => DOMAIN c.copy = {c.id} /\ c.copy[c.id].status # "superseded"
    /\ c.pc = "consolidate" =>
          /\ DOMAIN c.copy = {c.id} \cup c.targets
          /\ \A i \in DOMAIN c.copy : c.copy[i].status = "active"
    /\ c.pc = "mark" => DOMAIN c.copy = {c.id} /\ c.kind \in Marks

\* Between the lock and its release nobody else makes a memory active or supersedes one.
Locked == {"fetch", "reinforce", "embed", "insert", "targets", "transition", "view", "consolidate"}
Sole(ids) == \A i \in ids, j \in Ids : (Active(j) \/ j \in ids) /\ recs[j].content = recs[i].content => j = i
CallGuarded(p) ==
    LET c == call[p] IN
    /\ c.pc \in Locked => Holds(p)
    /\ c.pc \in {"fetch", "targets", "transition"} => recs[c.id].status # "superseded"
    /\ c.pc \in {"fetch", "reinforce"} => Sole({c.id})
    /\ c.pc = "consolidate" => Sole({c.id} \cup c.targets)
    /\ c.pc \in {"embed", "insert"} => \A j \in Ids : Active(j) => recs[j].content # c.content

CallKeyed(p) ==
    call[p].key \in Keys /\ call[p].pc \notin {"idem", "joined"} =>
        running[call[p].key] = p /\ idem[call[p].key] = Nothing

CallsInv == \A p \in Callers : ~FreeCaller(p) => CallFits(p) /\ CallGuarded(p) /\ CallKeyed(p)

Written(k) == \/ idem[k] # Nothing
              \/ \E p \in Callers : /\ ~FreeCaller(p) /\ call[p].key = k
                                    /\ call[p].pc \in {"targets", "transition", "view", "remember"}
EffectInv == \A k \in Keys : /\ effects[k] <= 1 + crashes
                             /\ ~Written(k) => effects[k] <= crashes

ViewInv == /\ view = [rev |-> view.rev, facts |-> view.facts] /\ view.rev \in Nat
           /\ DOMAIN view.facts \subseteq Ids /\ unseen \subseteq Ids
           /\ repair # Nothing =>
                 /\ repair = [rev |-> repair.rev, facts |-> repair.facts] /\ repair.rev \in 0..view.rev
                 /\ repair.rev = view.rev => DOMAIN repair.facts = DOMAIN view.facts

MemoryIInv == /\ StoreInv /\ CallsInv /\ EffectInv /\ ViewInv
        /\ ActiveContentIsUnique /\ SupersededLeadsOut /\ ViewKnowsEveryCommit

-----------------------------------------------------------------------------
\* What the lock, the memories and the copies are to the provers.
LEMMA StoreFacts ==
    ASSUME StoreInv
    PROVE  /\ Len(recs) \in Nat /\ DOMAIN recs = Ids /\ recs \in [Ids -> Record]
           /\ \A i \in Ids : i \in Nat /\ i # 0 /\ recs[i] \in Record
  BY LenProperties DEF StoreInv, Ids

LEMMA RecsWritten ==
    ASSUME StoreInv, recs' \in [Ids -> Record], \A i \in Ids : recs'[i].by <= Len(recs)
    PROVE  /\ recs' \in Seq(Record) /\ Len(recs)' = Len(recs) /\ Ids' = Ids
           /\ \A i \in Ids' : recs'[i].by <= Len(recs)'
<1>1. Len(recs) \in Nat  BY StoreFacts
<1>2. recs' \in [1 .. Len(recs) -> Record]  BY DEF Ids
<1>3. recs' \in Seq(Record)  BY <1>1, <1>2, SeqDef
<1>4. DOMAIN recs' = 1 .. Len(recs') /\ Len(recs') \in Nat  BY <1>3, LenProperties
<1>5. Len(recs') = Len(recs)  BY <1>1, <1>2, <1>4
<1> QED  BY <1>3, <1>5 DEF Ids

LEMMA CopyFacts ==
    ASSUME NEW c \in CallRecord
    PROVE  /\ c.copy \in [DOMAIN c.copy -> Record] /\ DOMAIN c.copy \subseteq Nat
           /\ \A i \in DOMAIN c.copy : c.copy[i] \in Record
<1>1. PICK ids \in SUBSET Nat : c.copy \in [ids -> Record]  BY DEF CallRecord, Copies
<1> QED  BY <1>1

\* Reading is what copies come from.
LEMMA ReadFacts ==
    ASSUME StoreInv, NEW ids, ids \subseteq Ids
    PROVE  /\ Read(ids) \in Copies /\ DOMAIN Read(ids) = ids
           /\ \A i \in ids : Read(ids)[i] = recs[i]
<1>1. ids \in SUBSET Nat /\ \A i \in ids : recs[i] \in Record  BY StoreFacts
<1>2. Read(ids) \in [ids -> Record]  BY <1>1 DEF Read
<1> QED  BY <1>1, <1>2 DEF Read, Copies

\* One caller at a time is between the lock and its release.
LEMMA Exclusive ==
    ASSUME CallsInv, NEW p \in Callers, NEW q \in Callers,
           ~FreeCaller(p), ~FreeCaller(q), call[p].pc \in Locked, call[q].pc \in Locked
    PROVE  p = q
  BY DEF CallsInv, CallGuarded, Holds

LEMMA Unguarded ==
    ASSUME NEW p \in Callers, call[p].pc \notin Locked
    PROVE  CallGuarded(p)
  BY DEF CallGuarded, Locked

\* A step of one call leaves what holds of the others.
LEMMA CallsStep ==
    ASSUME StoreInv, CallsInv, StoreInv', NEW p \in Callers,
           Len(recs) <= Len(recs)',
           \A i \in Ids : recs'[i].content = recs[i].content,
           \A q \in Callers \ {p} : FreeCaller(q)' \/ call'[q] = call[q],
           \/ Len(recs)' = Len(recs) /\ \A i \in Ids : recs'[i] = recs[i] \/ recs'[i].status \in Marks
           \/ ~FreeCaller(p) /\ call[p].pc \in Locked,
           \A q \in Callers \ {p} : Holds(q) => Holds(q)',
           \A k \in Keys : \/ running'[k] = running[k] /\ idem'[k] = idem[k]
                           \/ running[k] \in {Nothing, p},
           ~FreeCaller(p)' => CallFits(p)' /\ CallGuarded(p)' /\ CallKeyed(p)'
    PROVE  CallsInv'
<1> SUFFICES ASSUME NEW q \in Callers \ {p}, ~FreeCaller(q)'
             PROVE  CallFits(q)' /\ CallGuarded(q)' /\ CallKeyed(q)'
  BY DEF CallsInv
<1>1. call'[q] = call[q] /\ ~FreeCaller(q)  BY DEF FreeCaller
<1>2. CallFits(q) /\ CallGuarded(q) /\ CallKeyed(q) /\ call[q] \in CallRecord
  BY <1>1 DEF CallsInv, StoreInv
<1>3. Len(recs) \in Nat /\ Len(recs)' \in Nat /\ Ids \subseteq Ids'  BY StoreFacts DEF StoreInv, Ids
<1>4. CallFits(q)'
  <2>1. \A i \in DOMAIN call[q].copy : call[q].copy[i].by \in Nat
    BY <1>2, CopyFacts DEF Record
  <2> QED  BY <1>1, <1>2, <1>3, <2>1 DEF CallFits, CallRecord
<1>5. CallGuarded(q)'
  <2>1. CASE call[q].pc \notin Locked  BY <1>1, <2>1, Unguarded DEF CallGuarded, Locked
  <2>2. CASE call[q].pc \in Locked
    <3>1. /\ Len(recs)' = Len(recs)
          /\ \A i \in Ids : recs'[i] = recs[i] \/ recs'[i].status \in Marks
      BY <1>1, <2>2, Exclusive
    <3>2. Ids' = Ids  BY <3>1 DEF Ids
    <3>3. \A i \in Ids : /\ Active(i)' => Active(i)
                         /\ recs'[i].status = "superseded" => recs[i].status = "superseded"
      BY <3>1, MemoryAssumption DEF Active
    <3>4. Holds(q)'  BY <1>2, <2>2 DEF CallGuarded
    <3>5. call[q].id \in Ids \/ call[q].pc \in {"embed", "insert"}
      BY <1>2, <2>2, <1>3 DEF CallFits, CallRecord, Locked, Ids
    <3>6. call[q].targets \subseteq Ids  BY <1>2 DEF CallFits
    <3>7. \A ids \in SUBSET Ids : Sole(ids) => Sole(ids)'  BY <3>2, <3>3 DEF Sole
    <3> QED  BY <1>1, <1>2, <3>2, <3>3, <3>4, <3>5, <3>6, <3>7 DEF CallGuarded
  <2> QED  BY <2>1, <2>2
<1>6. CallKeyed(q)'
  <2>1. Nothing \notin Callers  BY MemoryAssumption
  <2> QED  BY <1>1, <1>2, <2>1 DEF CallKeyed
<1> QED  BY <1>4, <1>5, <1>6

\* What is superseded leads out as before when it keeps its successor or gets one that is not.
LEMMA LeadsOutStep ==
    ASSUME SupersededLeadsOut, NEW d,
           d \in Ids' => recs'[d].status # "superseded",
           \A i \in Ids' : recs'[i].status = "superseded" =>
               \/ recs'[i].by = d
               \/ i \in Ids /\ recs[i].status = "superseded" /\ recs'[i].by = recs[i].by
    PROVE  SupersededLeadsOut'
<1> DEFINE old == {i \in Ids : recs[i].status = "superseded"}
<1>1. SUFFICES ASSUME NEW s \in SUBSET (old'), s # {} PROVE \E i \in s : recs'[i].by \notin s
  BY DEF SupersededLeadsOut
<1>2. d \notin s  BY <1>1
<1>3. CASE \E i \in s : recs'[i].by = d  BY <1>2, <1>3
<1>4. CASE \A i \in s : recs'[i].by # d
  <2>1. s \in (SUBSET old) \ {{}} /\ \A i \in s : recs'[i].by = recs[i].by  BY <1>1, <1>4
  <2> QED  BY <2>1 DEF SupersededLeadsOut
<1> QED  BY <1>3, <1>4

\* A key keeps its effect: while its call goes on, and then in the persisted result.
Wrote == {"targets", "transition", "view", "remember"}
LEMMA EffectsKept ==
    ASSUME EffectInv, UNCHANGED <<effects, crashes>>,
           \A k \in Keys : idem[k] # Nothing => idem'[k] # Nothing,
           \A q \in Callers : ~FreeCaller(q) /\ call[q].key \in Keys /\ call[q].pc \in Wrote =>
               \/ ~FreeCaller(q)' /\ call'[q].key = call[q].key /\ call'[q].pc \in Wrote
               \/ idem'[call[q].key] # Nothing
    PROVE  EffectInv'
<1>1. \A k \in Keys : Written(k) => Written(k)'  BY DEF Written, Wrote
<1> QED  BY <1>1 DEF EffectInv

\* A caller that is somewhere has a call.
LEMMA CallTyped ==
    ASSUME MemoryIInv, NEW p \in Callers, ~FreeCaller(p)
    PROVE  /\ call[p] \in CallRecord /\ CallFits(p) /\ CallGuarded(p) /\ CallKeyed(p)
           /\ call[p].pc # "idle"
<1>1. call[p] \in CallRecord /\ CallFits(p) /\ CallGuarded(p) /\ CallKeyed(p)
  BY DEF MemoryIInv, StoreInv, CallsInv
<1>2. call[p].pc \in CallPcs  BY <1>1 DEF CallRecord
<1> QED  BY <1>1, <1>2 DEF CallPcs

LEMMA Somewhere ==
    ASSUME NEW p, NEW pc, CallAt(p, pc), pc # "idle"
    PROVE  ~FreeCaller(p)
  BY DEF CallAt, FreeCaller, Returned

LEMMA RecordIsCall == ASSUME NEW c \in CallRecord PROVE c # Returned
<1>1. c.pc \in CallPcs  BY DEF CallRecord
<1> QED  BY <1>1 DEF Returned, CallPcs

LEMMA Gone ==
    ASSUME MemoryIInv, NEW p \in Callers, NEW pc \in CallPcs, ~FreeCaller(p), Goto(p, pc)
    PROVE  LET c == [call[p] EXCEPT !.pc = pc] IN
           call' = [call EXCEPT ![p] = c] /\ c \in CallRecord
  BY CallTyped DEF Goto, CallRecord, MemoryIInv, StoreInv

\* A step that writes nothing to the store.
LEMMA QuietStep ==
    ASSUME MemoryIInv, NEW p \in Callers, NEW c \in CallRecord \cup {Returned},
           call' = [call EXCEPT ![p] = c],
           UNCHANGED <<recs, idem, view, repair, effects, unseen, crashes>>,
           lock' \in Seq(Callers), \A q \in Callers \ {p} : Holds(q) => Holds(q)',
           running' \in [Keys -> Callers \cup {Nothing}],
           \A k \in Keys : running'[k] = running[k] \/ running[k] \in {Nothing, p},
           c # Returned => CallFits(p)' /\ CallGuarded(p)' /\ CallKeyed(p)',
           \/ FreeCaller(p) \/ call[p].pc \notin Wrote
           \/ c # Returned /\ c.key = call[p].key /\ c.pc \in Wrote,
           \/ FreeCaller(p) \/ call[p].pc \notin {"targets", "transition", "view"}
           \/ c # Returned /\ c.id = call[p].id /\ c.pc \in {"targets", "transition", "view"}
    PROVE  MemoryIInv'
<1> USE DEF MemoryIInv
<1>1. DOMAIN call = Callers /\ call'[p] = c /\ \A q \in Callers \ {p} : call'[q] = call[q]
  BY DEF StoreInv
<1>2. FreeCaller(p)' <=> c = Returned  BY <1>1 DEF FreeCaller
<1>3. StoreInv'
  <2>1. \A q \in Callers : FreeCaller(q)' \/ call'[q] \in CallRecord
    BY <1>1, <1>2 DEF StoreInv, FreeCaller
  <2> QED  BY <1>1, <2>1 DEF StoreInv, Ids
<1>4. CallsInv'
  <2>1. Len(recs) <= Len(recs)'  BY StoreFacts
  <2> QED  BY <1>1, <1>2, <1>3, <2>1, CallsStep
<1>5. \A q \in Callers : ~FreeCaller(q) /\ call[q].pc \in Wrote =>
         ~FreeCaller(q)' /\ call'[q].key = call[q].key /\ call'[q].pc \in Wrote
  BY <1>1, <1>2 DEF FreeCaller
<1>6. EffectInv'  BY <1>5, EffectsKept
<1>7. ViewInv'  BY DEF ViewInv, Ids
<1>8. ActiveContentIsUnique' /\ SupersededLeadsOut'
  BY DEF ActiveContentIsUnique, SupersededLeadsOut, Ids, Active
<1>9. ViewKnowsEveryCommit'
  <2>1. \A q \in Callers : call[q].pc \in {"targets", "transition", "view"} =>
           call'[q].pc \in {"targets", "transition", "view"} /\ call'[q].id = call[q].id
    BY <1>1 DEF FreeCaller, Returned
  <2> QED  BY <2>1 DEF ViewKnowsEveryCommit, Ids
<1> QED  BY <1>3, <1>4, <1>6, <1>7, <1>8, <1>9

\* Taking a place at the end of the lock leaves its head to the one who has it.
LEMMA Queued ==
    ASSUME MemoryIInv, NEW p \in Callers, lock' = lock \/ lock' = Append(lock, p)
    PROVE  lock' \in Seq(Callers) /\ \A q \in Callers : Holds(q) => Holds(q)'
<1>1. lock \in Seq(Callers)  BY DEF MemoryIInv, StoreInv
<1>2. CASE lock' = lock  BY <1>1, <1>2 DEF Holds
<1>3. CASE lock' = Append(lock, p)
  <2>1. lock' \in Seq(Callers) /\ lock' # <<>>  BY <1>1, <1>3, AppendProperties
  <2>2. lock # <<>> => Head(lock') = Head(lock)  BY <1>1, <1>3, HeadTailAppend
  <2> QED  BY <2>1, <2>2 DEF Holds
<1> QED  BY <1>2, <1>3

\* Only the one who holds the lock releases it.
LEMMA Unqueued ==
    ASSUME MemoryIInv, NEW p \in Callers, Holds(p), Release(p)
    PROVE  lock' \in Seq(Callers) /\ \A q \in Callers \ {p} : Holds(q) => Holds(q)'
  BY HeadTailProperties DEF MemoryIInv, StoreInv, Holds, Release

-----------------------------------------------------------------------------
LEMMA CommitCallStep == ASSUME MemoryIInv, NEW p \in Callers, CommitCall(p) PROVE MemoryIInv'
<1>0. PICK n \in Contents, k \in Keys \cup {Nothing},
           e \in {[relation |-> "coexist", targets |-> {}]} \cup
                 [relation : {"supersede", "retract"}, targets : {{i} : i \in Ids}] :
         /\ Begins(p, [pc |-> IF k = Nothing THEN "exact" ELSE "idem", kind |-> "commit",
                       content |-> n, key |-> k, relation |-> e.relation,
                       targets |-> e.targets, id |-> 0, copy |-> Read({})])
         /\ lock' = IF k = Nothing THEN Append(lock, p) ELSE lock
  BY DEF CommitCall
<1> DEFINE r == e.relation
           ts == e.targets
           c == [pc |-> IF k = Nothing THEN "exact" ELSE "idem", kind |-> "commit",
                 content |-> n, key |-> k, relation |-> r, targets |-> ts,
                 id |-> 0, copy |-> Read({})]
<1>1. r \in {"coexist", "supersede", "retract"} /\ ts \in SUBSET Ids
  <2>1. CASE e = [relation |-> "coexist", targets |-> {}]  BY <2>1
  <2>2. CASE e \in [relation : {"supersede", "retract"}, targets : {{i} : i \in Ids}]  BY <2>2
  <2> QED  BY <2>1, <2>2
<1>2. /\ UNCHANGED <<recs, idem, running, view, repair, effects, unseen, crashes>>
      /\ FreeCaller(p) /\ call' = [call EXCEPT ![p] = c]
  BY <1>0 DEF CommitCall, Begins
<1>3. StoreInv /\ Len(recs) \in Nat /\ \A i \in Ids : i \in Nat  BY StoreFacts DEF MemoryIInv
<1>4. Read({}) \in Copies /\ DOMAIN Read({}) = {}  BY <1>3, ReadFacts
<1>5. c \in CallRecord  BY <1>3, <1>4 DEF CallRecord, CallPcs
<1>6. call'[p] = c  BY <1>2, <1>3 DEF StoreInv
<1>7. CallFits(p)'
  <2>1. /\ c.pc \in {"exact", "idem"} /\ c.kind = "commit" /\ c.content \in Contents /\ c.id = 0
        /\ c.pc = "idem" => c.key \in Keys
        /\ c.targets = ts /\ DOMAIN c.copy = {}
    BY <1>4
  <2> HIDE DEF c
  <2> QED  BY <1>1, <1>2, <1>3, <1>6, <2>1 DEF CallFits, Ids
<1>8. CallGuarded(p)'  BY <1>2, <1>6 DEF CallGuarded, Locked
<1>9. CallKeyed(p)'  BY <1>2, <1>6, MemoryAssumption DEF CallKeyed
<1> HIDE DEF c
<1> QED  BY <1>0, <1>2, <1>3, <1>5, <1>7, <1>8, <1>9, Queued, QuietStep DEF StoreInv

LEMMA CheckKeyStep == ASSUME MemoryIInv, NEW p \in Callers, CheckKey(p) PROVE MemoryIInv'
<1> DEFINE k == call[p].key
<1>1. ~FreeCaller(p) /\ call[p].pc = "idem"  BY Somewhere DEF CheckKey, CallAt
<1>2. call[p] \in CallRecord /\ CallFits(p) /\ k \in Keys  BY <1>1, CallTyped DEF CallFits
<1>3. UNCHANGED <<recs, idem, view, repair, effects, unseen, calls, crashes>>  BY DEF CheckKey
<1>4. /\ StoreInv /\ DOMAIN call = Callers /\ running \in [Keys -> Callers \cup {Nothing}]
      /\ lock \in Seq(Callers)
  BY DEF MemoryIInv, StoreInv
<1>5. CASE idem[k] # Nothing
  <2>1. Returns(p) /\ UNCHANGED <<running, lock>>  BY <1>5 DEF CheckKey
  <2> QED  BY <1>1, <1>3, <1>4, <2>1, QuietStep DEF Returns, Wrote, Holds
<1>6. CASE idem[k] = Nothing /\ Runs(k)
  <2> DEFINE c == [call[p] EXCEPT !.pc = "joined"]
  <2>1. Goto(p, "joined") /\ UNCHANGED <<running, lock>>  BY <1>6 DEF CheckKey
  <2>2. call' = [call EXCEPT ![p] = c] /\ c \in CallRecord  BY <1>1, <2>1, Gone DEF CallPcs
  <2>3. /\ c.pc = "joined" /\ c.id = call[p].id /\ c.targets = call[p].targets /\ c.copy = call[p].copy
        /\ c.kind = call[p].kind /\ c.content = call[p].content /\ c.key = k
    BY <1>2 DEF CallRecord
  <2>4. call'[p] = c  BY <1>4, <2>2
  <2> HIDE DEF c
  <2>5. CallFits(p)'  BY <1>1, <1>2, <1>3, <2>3, <2>4 DEF CallFits, Ids
  <2>6. CallGuarded(p)' /\ CallKeyed(p)'  BY <2>3, <2>4 DEF CallGuarded, CallKeyed, Locked
  <2> QED  BY <1>1, <1>3, <1>4, <2>1, <2>2, <2>5, <2>6, QuietStep DEF Wrote, Holds
<1>7. CASE idem[k] = Nothing /\ ~Runs(k)
  <2> DEFINE c == [call[p] EXCEPT !.pc = "exact"]
  <2>1. Goto(p, "exact") /\ running' = [running EXCEPT ![k] = p] /\ lock' = Append(lock, p)
    BY <1>7 DEF CheckKey
  <2>2. call' = [call EXCEPT ![p] = c] /\ c \in CallRecord  BY <1>1, <2>1, Gone DEF CallPcs
  <2>3. /\ c.pc = "exact" /\ c.id = call[p].id /\ c.targets = call[p].targets /\ c.copy = call[p].copy
        /\ c.kind = call[p].kind /\ c.content = call[p].content /\ c.key = k
    BY <1>2 DEF CallRecord
  <2>4. call'[p] = c  BY <1>4, <2>2
  <2>5. /\ running' \in [Keys -> Callers \cup {Nothing}] /\ running'[k] = p /\ running[k] = Nothing
        /\ \A j \in Keys : running'[j] = running[j] \/ running[j] = Nothing
    BY <1>2, <1>4, <1>7, <2>1 DEF Runs
  <2>6. lock' \in Seq(Callers) /\ \A q \in Callers : Holds(q) => Holds(q)'  BY <2>1, Queued
  <2> HIDE DEF c
  <2>7. CallFits(p)'  BY <1>1, <1>2, <1>3, <2>3, <2>4 DEF CallFits, Ids
  <2>8. CallGuarded(p)' /\ CallKeyed(p)'
    BY <1>3, <1>7, <2>3, <2>4, <2>5 DEF CallGuarded, CallKeyed, Locked
  <2> QED  BY <1>1, <1>3, <2>2, <2>5, <2>6, <2>7, <2>8, QuietStep DEF Wrote
<1> QED  BY <1>5, <1>6, <1>7

LEMMA FindExactStep == ASSUME MemoryIInv, NEW p \in Callers, FindExact(p) PROVE MemoryIInv'
<1> DEFINE same == {i \in Ids : Active(i) /\ recs[i].content = call[p].content}
<1>1. ~FreeCaller(p) /\ call[p].pc = "exact" /\ Holds(p)  BY Somewhere DEF FindExact, CallAt
<1>2. call[p] \in CallRecord /\ CallFits(p) /\ CallKeyed(p)  BY <1>1, CallTyped
<1>3. UNCHANGED <<recs, idem, running, lock, view, repair, effects, unseen, calls, crashes>>
  BY DEF FindExact
<1>4. /\ StoreInv /\ DOMAIN call = Callers /\ running \in [Keys -> Callers \cup {Nothing}]
      /\ lock \in Seq(Callers) /\ \A i \in Ids : i \in Nat /\ i # 0
  BY StoreFacts DEF MemoryIInv, StoreInv
<1>5. CASE same = {}
  <2> DEFINE c == [call[p] EXCEPT !.pc = "embed"]
  <2>1. call' = [call EXCEPT ![p] = c] /\ c \in CallRecord
    BY <1>1, <1>5, Gone DEF CallPcs, FindExact
  <2>2. /\ c.pc = "embed" /\ c.id = call[p].id /\ c.targets = call[p].targets /\ c.copy = call[p].copy
        /\ c.kind = call[p].kind /\ c.content = call[p].content /\ c.key = call[p].key
    BY <1>2 DEF CallRecord
  <2>3. call'[p] = c  BY <1>4, <2>1
  <2> HIDE DEF c
  <2>4. CallFits(p)'  BY <1>1, <1>2, <1>3, <2>2, <2>3 DEF CallFits, Ids
  <2>5. CallGuarded(p)' /\ CallKeyed(p)'
    BY <1>1, <1>2, <1>3, <1>5, <2>2, <2>3 DEF CallGuarded, CallKeyed, Locked, Ids, Active, Holds
  <2> QED  BY <1>1, <1>3, <1>4, <2>1, <2>4, <2>5, QuietStep DEF Wrote, Holds
<1>6. CASE same # {}
  <2>1. PICK i \in same : call' = [call EXCEPT ![p].pc = "fetch", ![p].id = i, ![p].targets = {}]
    BY <1>6 DEF FindExact
  <2> DEFINE c == [call[p] EXCEPT !.pc = "fetch", !.id = i, !.targets = {}]
  <2>2. call' = [call EXCEPT ![p] = c]  BY <1>4, <2>1
  <2>3. c \in CallRecord /\ c # Returned  BY <1>2, <1>4, RecordIsCall DEF CallRecord, CallPcs
  <2>4. /\ c.pc = "fetch" /\ c.id = i /\ c.targets = {} /\ c.copy = call[p].copy
        /\ c.kind = call[p].kind /\ c.content = call[p].content /\ c.key = call[p].key
    BY <1>2 DEF CallRecord
  <2>5. call'[p] = c  BY <1>4, <2>2
  <2> HIDE DEF c
  <2>6. CallFits(p)'  BY <1>1, <1>2, <1>3, <1>4, <2>4, <2>5 DEF CallFits, Ids
  <2>7. Sole({i}) /\ Active(i) /\ i \in Ids  BY DEF MemoryIInv, ActiveContentIsUnique, Sole
  <2>8. CallGuarded(p)' /\ CallKeyed(p)'
    BY <1>1, <1>2, <1>3, <2>4, <2>5, <2>7 DEF CallGuarded, CallKeyed, Ids, Active, Holds, Sole
  <2> QED  BY <1>1, <1>3, <1>4, <2>2, <2>3, <2>6, <2>8, QuietStep DEF Wrote, Holds
<1> QED  BY <1>5, <1>6

LEMMA FetchExactStep == ASSUME MemoryIInv, NEW p \in Callers, FetchExact(p) PROVE MemoryIInv'
<1> DEFINE i == call[p].id
           c == [call[p] EXCEPT !.pc = "reinforce", !.copy = Read({i})]
<1>1. ~FreeCaller(p) /\ call[p].pc = "fetch"  BY Somewhere DEF FetchExact, CallAt
<1>2. call[p] \in CallRecord /\ CallFits(p) /\ CallGuarded(p) /\ CallKeyed(p)  BY <1>1, CallTyped
<1>3. UNCHANGED <<recs, idem, running, lock, view, repair, effects, unseen, calls, crashes>>
  BY DEF FetchExact
<1>4. /\ StoreInv /\ DOMAIN call = Callers /\ running \in [Keys -> Callers \cup {Nothing}]
      /\ lock \in Seq(Callers) /\ \A j \in Ids : recs[j].by <= Len(recs)
  BY DEF MemoryIInv, StoreInv
<1>5. i \in Ids /\ Holds(p) /\ recs[i].status # "superseded" /\ Sole({i})
  BY <1>1, <1>2, <1>4, StoreFacts DEF CallFits, CallGuarded, CallRecord, Locked, Ids
<1>6. Read({i}) \in Copies /\ DOMAIN Read({i}) = {i} /\ Read({i})[i] = recs[i]
  BY <1>4, <1>5, ReadFacts
<1>7. call' = [call EXCEPT ![p] = c]  BY <1>4 DEF FetchExact
<1>8. c \in CallRecord  BY <1>2, <1>6 DEF CallRecord, CallPcs
<1>9. /\ c.pc = "reinforce" /\ c.id = i /\ c.targets = call[p].targets /\ c.copy = Read({i})
      /\ c.kind = call[p].kind /\ c.content = call[p].content /\ c.key = call[p].key
  BY <1>2 DEF CallRecord
<1>10. call'[p] = c  BY <1>4, <1>7
<1> HIDE DEF c
<1>11. CallFits(p)'
  <2>1. /\ DOMAIN c.copy = {i} /\ {i} \subseteq Ids
        /\ c.copy[i].content = recs[i].content /\ c.copy[i].by <= Len(recs)
        /\ c.copy[i].status # "superseded"
    BY <1>4, <1>5, <1>6, <1>9
  <2> QED  BY <1>1, <1>2, <1>3, <1>9, <1>10, <2>1 DEF CallFits, Ids
<1>12. CallGuarded(p)' /\ CallKeyed(p)'
  BY <1>1, <1>2, <1>3, <1>5, <1>9, <1>10 DEF CallGuarded, CallKeyed, Ids, Active, Holds, Sole
<1> QED  BY <1>1, <1>3, <1>4, <1>7, <1>8, <1>11, <1>12, QuietStep DEF Wrote, Holds

LEMMA EmbedStep == ASSUME MemoryIInv, NEW p \in Callers, Embed(p) PROVE MemoryIInv'
<1> DEFINE c == [call[p] EXCEPT !.pc = "insert"]
<1>1. ~FreeCaller(p) /\ call[p].pc = "embed"  BY Somewhere DEF Embed, CallAt
<1>2. call[p] \in CallRecord /\ CallFits(p) /\ CallGuarded(p) /\ CallKeyed(p)  BY <1>1, CallTyped
<1>3. UNCHANGED <<recs, idem, running, lock, view, repair, effects, unseen, calls, crashes>>
  BY DEF Embed
<1>4. /\ StoreInv /\ DOMAIN call = Callers /\ running \in [Keys -> Callers \cup {Nothing}]
      /\ lock \in Seq(Callers)
  BY DEF MemoryIInv, StoreInv
<1>5. call' = [call EXCEPT ![p] = c] /\ c \in CallRecord  BY <1>1, Gone DEF CallPcs, Embed
<1>6. /\ c.pc = "insert" /\ c.id = call[p].id /\ c.targets = call[p].targets /\ c.copy = call[p].copy
      /\ c.kind = call[p].kind /\ c.content = call[p].content /\ c.key = call[p].key
  BY <1>2 DEF CallRecord
<1>7. call'[p] = c  BY <1>4, <1>5
<1> HIDE DEF c
<1>8. CallFits(p)'  BY <1>1, <1>2, <1>3, <1>6, <1>7 DEF CallFits, Ids
<1>9. CallGuarded(p)' /\ CallKeyed(p)'
  BY <1>1, <1>2, <1>3, <1>6, <1>7 DEF CallGuarded, CallKeyed, Locked, Ids, Active, Holds
<1> QED  BY <1>1, <1>3, <1>4, <1>5, <1>8, <1>9, QuietStep DEF Wrote, Holds

LEMMA ReadTargetsStep == ASSUME MemoryIInv, NEW p \in Callers, ReadTargets(p) PROVE MemoryIInv'
<1> DEFINE ts == call[p].targets
<1>1. ~FreeCaller(p) /\ call[p].pc = "targets"  BY Somewhere DEF ReadTargets, CallAt
<1>2. call[p] \in CallRecord /\ CallFits(p) /\ CallGuarded(p) /\ CallKeyed(p)  BY <1>1, CallTyped
<1>3. UNCHANGED <<recs, idem, running, lock, view, repair, effects, unseen, calls, crashes>>
  BY DEF ReadTargets
<1>4. /\ StoreInv /\ DOMAIN call = Callers /\ running \in [Keys -> Callers \cup {Nothing}]
      /\ lock \in Seq(Callers) /\ \A j \in Ids : recs[j].by <= Len(recs)
  BY DEF MemoryIInv, StoreInv
<1>5. ts \subseteq Ids /\ Holds(p) /\ call[p].id # 0  BY <1>1, <1>2 DEF CallFits, CallGuarded, Locked
<1>6. CASE call[p].relation \in {"supersede", "retract"}
  <2> DEFINE c == [call[p] EXCEPT !.pc = "transition", !.copy = Read(ts)]
  <2>1. Read(ts) \in Copies /\ DOMAIN Read(ts) = ts /\ \A i \in ts : Read(ts)[i] = recs[i]
    BY <1>4, <1>5, ReadFacts
  <2>2. call' = [call EXCEPT ![p] = c]  BY <1>4, <1>6 DEF ReadTargets
  <2>3. c \in CallRecord /\ c # Returned  BY <1>2, <2>1, RecordIsCall DEF CallRecord, CallPcs
  <2>4. /\ c.pc = "transition" /\ c.id = call[p].id /\ c.targets = ts /\ c.copy = Read(ts)
        /\ c.kind = call[p].kind /\ c.content = call[p].content /\ c.key = call[p].key
    BY <1>2 DEF CallRecord
  <2>5. call'[p] = c  BY <1>4, <2>2
  <2> HIDE DEF c
  <2>6. CallFits(p)'
    <3>1. /\ DOMAIN c.copy = ts
          /\ \A i \in ts : c.copy[i].content = recs[i].content /\ c.copy[i].by <= Len(recs)
      BY <1>4, <1>5, <2>1, <2>4
    <3> QED  BY <1>1, <1>2, <1>3, <1>5, <2>4, <2>5, <3>1 DEF CallFits, Ids
  <2>7. CallGuarded(p)' /\ CallKeyed(p)'
    BY <1>1, <1>2, <1>3, <1>5, <2>4, <2>5 DEF CallGuarded, CallKeyed, Holds
  <2> QED  BY <1>1, <1>3, <1>4, <2>2, <2>3, <2>4, <2>6, <2>7, QuietStep DEF Wrote, Holds
<1>7. CASE call[p].relation \notin {"supersede", "retract"}
  <2> DEFINE c == [call[p] EXCEPT !.pc = "view"]
  <2>1. call' = [call EXCEPT ![p] = c] /\ c \in CallRecord
    BY <1>1, <1>7, Gone DEF CallPcs, ReadTargets
  <2>2. /\ c.pc = "view" /\ c.id = call[p].id /\ c.targets = ts /\ c.copy = call[p].copy
        /\ c.kind = call[p].kind /\ c.content = call[p].content /\ c.key = call[p].key /\ c # Returned
    BY <1>2, <2>1, RecordIsCall DEF CallRecord
  <2>3. call'[p] = c  BY <1>4, <2>1
  <2> HIDE DEF c
  <2>4. CallFits(p)'  BY <1>1, <1>2, <1>3, <1>5, <2>2, <2>3 DEF CallFits, Ids
  <2>5. CallGuarded(p)' /\ CallKeyed(p)'
    BY <1>1, <1>2, <1>3, <1>5, <2>2, <2>3 DEF CallGuarded, CallKeyed, Holds
  <2> QED  BY <1>1, <1>3, <1>4, <2>1, <2>2, <2>4, <2>5, QuietStep DEF Wrote, Holds
<1> QED  BY <1>6, <1>7

LEMMA ConsolidateStep == ASSUME MemoryIInv, NEW p \in Callers, Consolidate(p) PROVE MemoryIInv'
<1>1. PICK i \in Ids, t \in Ids, r \in {"reinforce", "supersede", "retract"} :
         /\ i # t
         /\ Begins(p, [pc |-> "check", kind |-> "consolidate", content |-> Nothing, key |-> Nothing,
                       relation |-> r, targets |-> {t}, id |-> i, copy |-> Read({})])
  BY DEF Consolidate
<1> DEFINE c == [pc |-> "check", kind |-> "consolidate", content |-> Nothing, key |-> Nothing,
                 relation |-> r, targets |-> {t}, id |-> i, copy |-> Read({})]
<1>2. /\ UNCHANGED <<recs, idem, running, view, repair, effects, unseen, crashes>>
      /\ lock' = Append(lock, p) /\ FreeCaller(p) /\ call' = [call EXCEPT ![p] = c]
  BY <1>1 DEF Consolidate, Begins
<1>3. /\ StoreInv /\ DOMAIN call = Callers /\ running \in [Keys -> Callers \cup {Nothing}]
      /\ Len(recs) \in Nat /\ \A j \in Ids : j \in Nat /\ j # 0 /\ j <= Len(recs)
  BY StoreFacts DEF MemoryIInv, StoreInv, Ids
<1>4. Read({}) \in Copies /\ DOMAIN Read({}) = {}  BY <1>3, ReadFacts
<1>5. c \in CallRecord  BY <1>3, <1>4 DEF CallRecord, CallPcs
<1>6. call'[p] = c  BY <1>2, <1>3
<1>7. /\ c.pc = "check" /\ c.kind = "consolidate" /\ c.key = Nothing /\ c.targets = {t}
      /\ c.id = i /\ DOMAIN c.copy = {}
  BY <1>4
<1> HIDE DEF c
<1>8. CallFits(p)'
  <2>1. \E s \in Nat \ {c.id} : c.targets = {s}  BY <1>1, <1>3, <1>7
  <2> QED  BY <1>1, <1>2, <1>3, <1>6, <1>7, <2>1, MemoryAssumption DEF CallFits, Ids
<1>9. CallGuarded(p)' /\ CallKeyed(p)'
  BY <1>6, <1>7, MemoryAssumption DEF CallGuarded, CallKeyed, Locked
<1> QED  BY <1>2, <1>3, <1>5, <1>8, <1>9, Queued, QuietStep

LEMMA TargetFacts ==
    ASSUME NEW p, NEW t, call[p].targets = {t}
    PROVE  Target(p) = t
  BY DEF Target

LEMMA CheckConsolidationStep == ASSUME MemoryIInv, NEW p \in Callers, CheckConsolidation(p) PROVE MemoryIInv'
<1> DEFINE i == call[p].id
<1>1. ~FreeCaller(p) /\ call[p].pc = "check" /\ Holds(p)
  BY Somewhere DEF CheckConsolidation, CallAt
<1>2. call[p] \in CallRecord /\ CallFits(p) /\ CallKeyed(p)  BY <1>1, CallTyped
<1>3. UNCHANGED <<recs, idem, running, view, repair, effects, unseen, calls, crashes>>
  BY DEF CheckConsolidation
<1>4. /\ StoreInv /\ DOMAIN call = Callers /\ running \in [Keys -> Callers \cup {Nothing}]
      /\ lock \in Seq(Callers) /\ \A j \in Ids : recs[j].by <= Len(recs)
  BY DEF MemoryIInv, StoreInv
<1>5. PICK t \in Nat \ {i} : call[p].targets = {t}  BY <1>1, <1>2 DEF CallFits
<1>6. t \in Ids /\ i \in Ids /\ Target(p) = t
  <2>1. t \in Ids  BY <1>2, <1>5 DEF CallFits
  <2>2. i \in Ids  BY <1>1, <1>2, <1>4, StoreFacts DEF CallFits, CallRecord, Ids
  <2> QED  BY <1>5, <2>1, <2>2, TargetFacts
<1>7. CASE Fits(p)
  <2> DEFINE c == [call[p] EXCEPT !.pc = "consolidate", !.copy = Read({i, t})]
  <2>1. /\ Read({i, t}) \in Copies /\ DOMAIN Read({i, t}) = {i, t}
        /\ Read({i, t})[i] = recs[i] /\ Read({i, t})[t] = recs[t]
    BY <1>4, <1>6, ReadFacts
  <2>2. call' = [call EXCEPT ![p] = c] /\ lock' = lock
    BY <1>4, <1>6, <1>7 DEF CheckConsolidation
  <2>3. c \in CallRecord  BY <1>2, <2>1 DEF CallRecord, CallPcs
  <2>4. /\ c.pc = "consolidate" /\ c.id = i /\ c.targets = {t} /\ c.copy = Read({i, t})
        /\ c.kind = call[p].kind /\ c.content = call[p].content /\ c.key = call[p].key
    BY <1>2, <1>5 DEF CallRecord
  <2>5. call'[p] = c  BY <1>4, <2>2
  <2> HIDE DEF c
  <2>6. Active(i) /\ Active(t)  BY <1>6, <1>7 DEF Fits
  <2>7. CallFits(p)'
    <3>1. /\ DOMAIN c.copy = {i, t} /\ {i, t} \subseteq Ids
          /\ \A j \in {i, t} : /\ c.copy[j].content = recs[j].content /\ c.copy[j].by <= Len(recs)
                              /\ c.copy[j].status = "active"
      BY <1>4, <1>6, <2>1, <2>4, <2>6 DEF Active
    <3> QED  BY <1>1, <1>2, <1>3, <1>5, <2>4, <2>5, <3>1 DEF CallFits, Ids
  <2>8. Sole({i} \cup {t})  BY <1>6, <2>6 DEF MemoryIInv, ActiveContentIsUnique, Sole
  <2>9. CallGuarded(p)' /\ CallKeyed(p)'
    BY <1>1, <1>2, <1>3, <2>2, <2>4, <2>5, <2>8 DEF CallGuarded, CallKeyed, Holds, Ids, Sole, Active
  <2> QED  BY <1>1, <1>3, <1>4, <2>2, <2>3, <2>7, <2>9, QuietStep DEF Wrote, Holds
<1>8. CASE ~Fits(p)
  <2>1. call[p].key = Nothing  BY <1>1, <1>2 DEF CallFits
  <2>2. Release(p) /\ Returns(p)  BY <1>8, <2>1 DEF CheckConsolidation, Leaves
  <2>3. lock' \in Seq(Callers) /\ \A q \in Callers \ {p} : Holds(q) => Holds(q)'
    BY <1>1, <2>2, Unqueued
  <2> QED  BY <1>1, <1>3, <1>4, <2>2, <2>3, QuietStep DEF Wrote, Returns
<1> QED  BY <1>7, <1>8

LEMMA MarkCallStep == ASSUME MemoryIInv, NEW p \in Callers, MarkCall(p) PROVE MemoryIInv'
<1>1. PICK i \in Ids, s \in Marks :
         Begins(p, [pc |-> "mark", kind |-> s, content |-> Nothing, key |-> Nothing,
                    relation |-> "none", targets |-> {}, id |-> i, copy |-> Read({i})])
  BY DEF MarkCall
<1> DEFINE c == [pc |-> "mark", kind |-> s, content |-> Nothing, key |-> Nothing,
                 relation |-> "none", targets |-> {}, id |-> i, copy |-> Read({i})]
<1>2. /\ UNCHANGED <<recs, idem, running, lock, view, repair, effects, unseen, crashes>>
      /\ FreeCaller(p) /\ call' = [call EXCEPT ![p] = c]
  BY <1>1 DEF MarkCall, Begins
<1>3. /\ StoreInv /\ DOMAIN call = Callers /\ running \in [Keys -> Callers \cup {Nothing}]
      /\ lock \in Seq(Callers) /\ \A j \in Ids : recs[j].by <= Len(recs)
      /\ i \in Nat /\ i # 0 /\ i <= Len(recs)
  BY StoreFacts DEF MemoryIInv, StoreInv, Ids
<1>4. Read({i}) \in Copies /\ DOMAIN Read({i}) = {i} /\ Read({i})[i] = recs[i]
  BY <1>3, ReadFacts
<1>5. c \in CallRecord  BY <1>3, <1>4 DEF CallRecord, CallPcs
<1>6. call'[p] = c  BY <1>2, <1>3
<1>7. /\ c.pc = "mark" /\ c.kind = s /\ c.key = Nothing /\ c.targets = {} /\ c.id = i
      /\ DOMAIN c.copy = {i} /\ c.copy[i].content = recs[i].content /\ c.copy[i].by <= Len(recs)
  BY <1>3, <1>4
<1> HIDE DEF c
<1>8. CallFits(p)'
  BY <1>2, <1>3, <1>6, <1>7, MemoryAssumption DEF CallFits, Ids
<1>9. CallGuarded(p)' /\ CallKeyed(p)'
  BY <1>6, <1>7, MemoryAssumption DEF CallGuarded, CallKeyed, Locked
<1> QED  BY <1>2, <1>3, <1>5, <1>8, <1>9, QuietStep DEF Holds

\* The promise of a key settles: its call ends, and with it those who joined it.
LEMMA SettleStep ==
    ASSUME MemoryIInv, NEW p \in Callers, ~FreeCaller(p), call[p].key \in Keys, Settle(p),
           UNCHANGED <<recs, view, repair, effects, unseen, crashes>>,
           lock' \in Seq(Callers), \A q \in Callers \ {p} : Holds(q) => Holds(q)',
           \/ call[p].pc = "embed" /\ UNCHANGED idem
           \/ /\ call[p].pc = "remember"
              /\ idem' = [idem EXCEPT ![call[p].key] = [content |-> call[p].content, id |-> call[p].id]]
    PROVE  MemoryIInv'
<1> USE DEF MemoryIInv
<1> DEFINE k == call[p].key
<1>1. call[p] \in CallRecord /\ CallFits(p) /\ CallKeyed(p)  BY CallTyped
<1>2. /\ running' = [running EXCEPT ![k] = Nothing]
      /\ call' = [q \in Callers |-> IF q = p \/ Joined(q, k) THEN Returned ELSE call[q]]
  BY DEF Settle
<1>3. running[k] = p /\ idem[k] = Nothing  BY <1>1 DEF CallKeyed
<1>4. /\ DOMAIN idem' = Keys /\ \A j \in Keys \ {k} : idem'[j] = idem[j]
      /\ idem'[k] # Nothing => idem'[k] \in [content : Contents, id : Ids]
      /\ call[p].pc = "remember" => idem'[k] # Nothing
  <2>1. CASE UNCHANGED idem /\ call[p].pc = "embed"  BY <2>1 DEF StoreInv
  <2>2. CASE /\ call[p].pc = "remember"
             /\ idem' = [idem EXCEPT ![k] = [content |-> call[p].content, id |-> call[p].id]]
    <3>1. call[p].content \in Contents /\ call[p].id \in Ids
      BY <1>1, <2>2, StoreFacts DEF CallFits, CallRecord, Ids
    <3>2. [content |-> call[p].content, id |-> call[p].id] \in [content : Contents, id : Nat]
      BY <3>1, StoreFacts
    <3>3. [content |-> call[p].content, id |-> call[p].id] # Nothing  BY <3>2, MemoryAssumption
    <3> QED  BY <2>2, <3>1, <3>3 DEF StoreInv
  <2> QED  BY <2>1, <2>2
<1>5. \A q \in Callers : FreeCaller(q)' \/ (call'[q] = call[q] /\ ~Joined(q, k) /\ q # p)
  BY <1>2 DEF FreeCaller
<1>6. FreeCaller(p)'  BY <1>2 DEF FreeCaller
<1>7. StoreInv'
  <2>1. /\ DOMAIN call' = Callers /\ \A q \in Callers : FreeCaller(q)' \/ call'[q] \in CallRecord
    BY <1>2, <1>5 DEF StoreInv, FreeCaller
  <2>2. running' \in [Keys -> Callers \cup {Nothing}]  BY <1>2 DEF StoreInv
  <2>3. \A j \in Keys : idem'[j] # Nothing => idem'[j] \in [content : Contents, id : Ids]
    BY <1>4 DEF StoreInv
  <2> QED  BY <1>4, <2>1, <2>2, <2>3 DEF StoreInv, Ids
<1>8. CallsInv'
  <2>1. Len(recs) <= Len(recs)'  BY StoreFacts
  <2>2. \A j \in Keys : \/ running'[j] = running[j] /\ idem'[j] = idem[j]
                        \/ running[j] \in {Nothing, p}
    BY <1>2, <1>3, <1>4 DEF StoreInv
  <2>3. \A q \in Callers \ {p} : FreeCaller(q)' \/ call'[q] = call[q]  BY <1>5
  <2> QED  BY <1>6, <1>7, <2>1, <2>2, <2>3, CallsStep
<1>9. EffectInv'
  <2>1. \A j \in Keys : idem[j] # Nothing => idem'[j] # Nothing  BY <1>3, <1>4
  <2>2. \A q \in Callers : call[q].pc \in Wrote => ~Joined(q, k)  BY DEF Wrote, Joined, CallAt
  <2>3. \A q \in Callers : ~FreeCaller(q) /\ call[q].key \in Keys /\ call[q].pc \in Wrote =>
           \/ ~FreeCaller(q)' /\ call'[q].key = call[q].key /\ call'[q].pc \in Wrote
           \/ idem'[call[q].key] # Nothing
    <3> SUFFICES ASSUME NEW q \in Callers, ~FreeCaller(q), call[q].key \in Keys, call[q].pc \in Wrote
                 PROVE  \/ ~FreeCaller(q)' /\ call'[q].key = call[q].key /\ call'[q].pc \in Wrote
                        \/ idem'[call[q].key] # Nothing
      OBVIOUS
    <3>1. CASE q = p  BY <1>4, <3>1 DEF Wrote
    <3>2. CASE q # p  BY <1>2, <2>2, <3>2 DEF FreeCaller
    <3> QED  BY <3>1, <3>2
  <2> QED  BY <2>1, <2>3, EffectsKept
<1>10. ViewInv'  BY DEF ViewInv, Ids
<1>11. ActiveContentIsUnique' /\ SupersededLeadsOut'
  BY DEF ActiveContentIsUnique, SupersededLeadsOut, Ids, Active
<1>12. ViewKnowsEveryCommit'
  <2>1. \A q \in Callers : call[q].pc \in {"targets", "transition", "view"} => call'[q] = call[q]
    BY <1>2 DEF Joined, CallAt
  <2> QED  BY <2>1 DEF ViewKnowsEveryCommit, Ids
<1> QED  BY <1>7, <1>8, <1>9, <1>10, <1>11, <1>12

LEMMA EmbedFailsStep == ASSUME MemoryIInv, NEW p \in Callers, EmbedFails(p) PROVE MemoryIInv'
<1>1. ~FreeCaller(p) /\ call[p].pc = "embed"  BY Somewhere DEF EmbedFails, CallAt
<1>2. call[p] \in CallRecord /\ CallGuarded(p)  BY <1>1, CallTyped
<1>3. Release(p) /\ UNCHANGED <<recs, idem, view, repair, effects, unseen, calls, crashes>>
  BY DEF EmbedFails
<1>4. Holds(p)  BY <1>1, <1>2 DEF CallGuarded, Locked
<1>5. lock' \in Seq(Callers) /\ \A q \in Callers \ {p} : Holds(q) => Holds(q)'
  BY <1>3, <1>4, Unqueued
<1>6. CASE call[p].key = Nothing
  <2>1. Returns(p) /\ UNCHANGED running  BY <1>6 DEF EmbedFails
  <2>2. running \in [Keys -> Callers \cup {Nothing}]  BY DEF MemoryIInv, StoreInv
  <2> QED  BY <1>1, <1>3, <1>5, <2>1, <2>2, QuietStep DEF Wrote, Returns
<1>7. CASE call[p].key # Nothing
  <2>1. Settle(p) /\ call[p].key \in Keys  BY <1>2, <1>7 DEF EmbedFails, CallRecord
  <2> QED  BY <1>1, <1>3, <1>5, <2>1, SettleStep
<1> QED  BY <1>6, <1>7

LEMMA RememberStep == ASSUME MemoryIInv, NEW p \in Callers, Remember(p) PROVE MemoryIInv'
<1>1. ~FreeCaller(p) /\ call[p].pc = "remember"  BY Somewhere DEF Remember, CallAt
<1>2. call[p].key \in Keys  BY <1>1, CallTyped DEF CallFits
<1>3. UNCHANGED <<recs, lock, view, repair, effects, unseen, calls, crashes>> /\ Settle(p)
  BY DEF Remember
<1>4. lock \in Seq(Callers)  BY DEF MemoryIInv, StoreInv
<1> QED  BY <1>1, <1>2, <1>3, <1>4, SettleStep DEF Remember, Holds

-----------------------------------------------------------------------------
\* The one effect of a key: its call has had none before, and goes on to remember it.
LEMMA Counted ==
    ASSUME MemoryIInv, NEW p \in Callers, ~FreeCaller(p), call[p].pc \in {"reinforce", "insert"},
           Count(p), UNCHANGED <<idem, crashes>>,
           \A q \in Callers \ {p} : call'[q] = call[q],
           call[p].key \in Keys =>
               ~FreeCaller(p)' /\ call'[p].key = call[p].key /\ call'[p].pc \in Wrote
    PROVE  EffectInv' /\ effects' \in [Keys -> Nat]
<1> USE DEF MemoryIInv
<1>1. call[p] \in CallRecord /\ CallKeyed(p)  BY CallTyped
<1>2. effects \in [Keys -> Nat] /\ crashes \in Nat  BY DEF StoreInv
<1>3. \A k \in Keys : (k # call[p].key) /\ Written(k) => Written(k)'
  BY DEF Written, FreeCaller
<1>4. CASE call[p].key = Nothing
  <2>1. effects' = effects /\ call[p].key \notin Keys  BY <1>4, MemoryAssumption DEF Count
  <2> QED  BY <1>2, <1>3, <2>1 DEF EffectInv
<1>5. CASE call[p].key # Nothing
  <2> DEFINE k == call[p].key
  <2>1. k \in Keys /\ effects' = [effects EXCEPT ![k] = @ + 1]
    BY <1>1, <1>5 DEF Count, CallRecord
  <2>2. idem[k] = Nothing /\ running[k] = p  BY <1>1, <2>1 DEF CallKeyed
  <2>3. ~Written(k)
    <3> SUFFICES ASSUME NEW q \in Callers, ~FreeCaller(q), call[q].key = k,
                        call[q].pc \in {"targets", "transition", "view", "remember"}
                 PROVE  FALSE
      BY <2>2 DEF Written
    <3>1. CallKeyed(q)  BY CallTyped
    <3>2. q = p  BY <2>1, <2>2, <3>1 DEF CallKeyed
    <3> QED  BY <3>2
  <2>4. effects[k] <= crashes  BY <2>1, <2>3 DEF EffectInv
  <2>5. effects'[k] <= 1 + crashes  BY <1>2, <2>1, <2>4
  <2>6. Written(k)'  BY <2>1 DEF Written, Wrote
  <2>7. \A j \in Keys \ {k} : effects'[j] = effects[j]  BY <1>2, <2>1
  <2>8. EffectInv'  BY <1>3, <2>1, <2>5, <2>6, <2>7 DEF EffectInv
  <2>9. effects' \in [Keys -> Nat]  BY <1>2, <2>1
  <2> QED  BY <2>8, <2>9
<1> QED  BY <1>4, <1>5

\* A call that leaves the lock returns, or remembers the result of its key.
LEMMA Left ==
    ASSUME MemoryIInv, NEW p \in Callers, ~FreeCaller(p), Holds(p), Leaves(p),
           StoreInv', UNCHANGED <<running, idem>>, call[p].pc \in {"reinforce", "view"},
           Len(recs)' = Len(recs), \A i \in Ids : recs'[i].content = recs[i].content
    PROVE  /\ lock' \in Seq(Callers) /\ \A q \in Callers \ {p} : Holds(q) => Holds(q)'
           /\ \A q \in Callers \ {p} : call'[q] = call[q]
           /\ CallsInv'
           /\ call[p].key \in Keys =>
                 /\ ~FreeCaller(p)' /\ call'[p].key = call[p].key /\ call'[p].pc = "remember"
           /\ call'[p].pc \in {"idle", "remember"}
<1> USE DEF MemoryIInv
<1> DEFINE c == IF call[p].key = Nothing THEN Returned ELSE [call[p] EXCEPT !.pc = "remember"]
<1>1. /\ call[p] \in CallRecord /\ CallFits(p) /\ CallGuarded(p) /\ CallKeyed(p)
      /\ call[p].pc \in Locked
  BY CallTyped DEF Locked
<1>2. call' = [call EXCEPT ![p] = c] /\ Release(p)  BY DEF Leaves, Returns, Goto
<1>3. lock' \in Seq(Callers) /\ \A q \in Callers \ {p} : Holds(q) => Holds(q)'  BY <1>2, Unqueued
<1>4. DOMAIN call = Callers /\ call'[p] = c /\ \A q \in Callers \ {p} : call'[q] = call[q]
  BY <1>2 DEF StoreInv
<1>5. call[p].key = Nothing => FreeCaller(p)' /\ call[p].key \notin Keys
  BY <1>4, MemoryAssumption DEF FreeCaller
<1>6. call[p].key # Nothing =>
         /\ c \in CallRecord /\ c # Returned /\ call[p].key \in Keys
         /\ c.pc = "remember" /\ c.id = call[p].id /\ c.targets = call[p].targets
         /\ c.copy = call[p].copy /\ c.kind = call[p].kind /\ c.content = call[p].content
         /\ c.key = call[p].key
  <2> SUFFICES ASSUME call[p].key # Nothing
               PROVE  /\ c \in CallRecord /\ c # Returned /\ call[p].key \in Keys
                      /\ c.pc = "remember" /\ c.id = call[p].id /\ c.targets = call[p].targets
                      /\ c.copy = call[p].copy /\ c.kind = call[p].kind /\ c.content = call[p].content
                      /\ c.key = call[p].key
    OBVIOUS
  <2>1. c = [call[p] EXCEPT !.pc = "remember"]  OBVIOUS
  <2>2. c \in CallRecord  BY <1>1, <2>1 DEF CallRecord, CallPcs
  <2> QED  BY <1>1, <2>1, <2>2, RecordIsCall DEF CallRecord
<1> HIDE DEF c
<1>7. ~FreeCaller(p)' => CallFits(p)' /\ CallGuarded(p)' /\ CallKeyed(p)'
  <2> SUFFICES ASSUME call[p].key # Nothing PROVE CallFits(p)' /\ CallGuarded(p)' /\ CallKeyed(p)'
    BY <1>5
  <2>1. Ids' = Ids  BY DEF Ids
  <2>2. CallFits(p)'  BY <1>1, <1>4, <1>6, <2>1 DEF CallFits
  <2> QED  BY <1>1, <1>4, <1>6, <2>2 DEF CallGuarded, CallKeyed, Locked
<1>8. CallsInv'
  <2>1. Len(recs) <= Len(recs)'  BY StoreFacts
  <2>2. \A q \in Callers \ {p} : FreeCaller(q)' \/ call'[q] = call[q]  BY <1>4
  <2> QED  BY <1>1, <1>3, <1>7, <2>1, <2>2, CallsStep
<1> QED  BY <1>3, <1>4, <1>5, <1>6, <1>8 DEF FreeCaller, Returned

LEMMA ReinforceStep == ASSUME MemoryIInv, NEW p \in Callers, Reinforce(p) PROVE MemoryIInv'
<1> USE DEF MemoryIInv
<1> DEFINE i == call[p].id
           r == call[p].copy[i]
<1>1. ~FreeCaller(p) /\ call[p].pc = "reinforce"  BY Somewhere DEF Reinforce, CallAt
<1>2. call[p] \in CallRecord /\ CallFits(p) /\ CallGuarded(p)  BY <1>1, CallTyped
<1>3. /\ Count(p) /\ Leaves(p) /\ recs' = [recs EXCEPT ![i] = r]
      /\ UNCHANGED <<idem, running, view, repair, unseen, calls, crashes>>
  BY DEF Reinforce
<1>4. i \in Ids /\ DOMAIN call[p].copy = {i}  BY <1>1, <1>2 DEF CallFits
<1>5. /\ r \in Record /\ r.content = recs[i].content /\ r.by <= Len(recs) /\ r.status # "superseded"
  BY <1>1, <1>2, <1>4, CopyFacts DEF CallFits
<1>6. Holds(p) /\ Sole({i})  BY <1>1, <1>2 DEF CallGuarded, Locked
<1>7. /\ recs \in [Ids -> Record] /\ \A j \in Ids : recs[j].by <= Len(recs) /\ j # 0
  BY StoreFacts DEF StoreInv
<1> HIDE DEF i, r
<1>8. /\ recs' \in [Ids -> Record] /\ recs'[i] = r /\ \A j \in Ids \ {i} : recs'[j] = recs[j]
  BY <1>3, <1>4, <1>5, <1>7
<1>9. /\ recs' \in Seq(Record) /\ Len(recs)' = Len(recs) /\ Ids' = Ids
      /\ \A j \in Ids' : recs'[j].by <= Len(recs)'
  <2>1. \A j \in Ids : recs'[j].by <= Len(recs)  BY <1>5, <1>7, <1>8
  <2> QED  BY <1>8, <2>1, RecsWritten
<1>10. \A j \in Ids : recs'[j].content = recs[j].content  BY <1>5, <1>8
<1>11. StoreInv'
  <2>1. lock' \in Seq(Callers)  BY <1>3, <1>6, Unqueued DEF Leaves
  <2>2. DOMAIN call' = Callers /\ \A q \in Callers : FreeCaller(q)' \/ call'[q] \in CallRecord
    <3>1. CASE call[p].key = Nothing  BY <1>3, <3>1 DEF Leaves, Returns, StoreInv, FreeCaller
    <3>2. CASE call[p].key # Nothing
      <4>1. Goto(p, "remember")  BY <1>3, <3>2 DEF Leaves
      <4> QED  BY <1>1, <4>1, Gone DEF StoreInv, FreeCaller, CallPcs
    <3> QED  BY <3>1, <3>2
  <2>3. effects' \in [Keys -> Nat]
    BY <1>2, <1>3 DEF Count, StoreInv, CallRecord
  <2> QED  BY <1>3, <1>9, <2>1, <2>2, <2>3 DEF StoreInv
<1>12. /\ CallsInv' /\ \A q \in Callers \ {p} : call'[q] = call[q]
       /\ call[p].key \in Keys =>
             /\ ~FreeCaller(p)' /\ call'[p].key = call[p].key /\ call'[p].pc = "remember"
       /\ call'[p].pc \in {"idle", "remember"}
  BY <1>1, <1>3, <1>6, <1>9, <1>10, <1>11, Left
<1>13. EffectInv'  BY <1>1, <1>3, <1>12, Counted DEF Wrote
<1>14. ViewInv'  BY <1>3, <1>9 DEF ViewInv
<1>15. ActiveContentIsUnique'
  BY <1>6, <1>8, <1>9, <1>10 DEF ActiveContentIsUnique, Active, Sole
<1>16. SupersededLeadsOut'
  BY <1>5, <1>7, <1>8, <1>9, LeadsOutStep
<1>17. ViewKnowsEveryCommit'  BY <1>1, <1>3, <1>9, <1>12 DEF ViewKnowsEveryCommit
<1> QED  BY <1>11, <1>12, <1>13, <1>14, <1>15, <1>16, <1>17

LEMMA EnqueueViewStep == ASSUME MemoryIInv, NEW p \in Callers, EnqueueView(p) PROVE MemoryIInv'
<1> USE DEF MemoryIInv
<1> DEFINE i == call[p].id
           note == IF call[p].relation = "reinforce" THEN "superseded" ELSE "active"
<1>1. ~FreeCaller(p) /\ call[p].pc = "view"  BY Somewhere DEF EnqueueView, CallAt
<1>2. call[p] \in CallRecord /\ CallFits(p) /\ CallGuarded(p)  BY <1>1, CallTyped
<1>3. /\ Leaves(p) /\ view' = [rev |-> view.rev + 1, facts |-> Noted(view.facts, i, note)]
      /\ UNCHANGED <<recs, idem, running, repair, effects, unseen, calls, crashes>>
  BY DEF EnqueueView
<1>4. Holds(p)  BY <1>1, <1>2 DEF CallGuarded, Locked
<1>5. i \in Ids  BY <1>1, <1>2, StoreFacts DEF CallFits, CallRecord, Ids
<1>6. Len(recs)' = Len(recs) /\ Ids' = Ids  BY <1>3 DEF Ids
<1>7. StoreInv'
  <2>1. lock' \in Seq(Callers)  BY <1>3, <1>4, Unqueued DEF Leaves
  <2>2. DOMAIN call' = Callers /\ \A q \in Callers : FreeCaller(q)' \/ call'[q] \in CallRecord
    <3>1. CASE call[p].key = Nothing  BY <1>3, <3>1 DEF Leaves, Returns, StoreInv, FreeCaller
    <3>2. CASE call[p].key # Nothing
      <4>1. Goto(p, "remember")  BY <1>3, <3>2 DEF Leaves
      <4> QED  BY <1>1, <4>1, Gone DEF StoreInv, FreeCaller, CallPcs
    <3> QED  BY <3>1, <3>2
  <2> QED  BY <1>3, <1>6, <2>1, <2>2 DEF StoreInv
<1>8. /\ CallsInv' /\ \A q \in Callers \ {p} : call'[q] = call[q]
      /\ call[p].key \in Keys =>
            /\ ~FreeCaller(p)' /\ call'[p].key = call[p].key /\ call'[p].pc = "remember"
  BY <1>1, <1>3, <1>4, <1>6, <1>7, Left
<1>9. EffectInv'
  <2>1. \A q \in Callers : ~FreeCaller(q) /\ call[q].key \in Keys /\ call[q].pc \in Wrote =>
           ~FreeCaller(q)' /\ call'[q].key = call[q].key /\ call'[q].pc \in Wrote
    BY <1>8 DEF FreeCaller, Wrote
  <2> QED  BY <1>3, <2>1, EffectsKept
<1>10. /\ view'.rev = view.rev + 1 /\ view' = [rev |-> view'.rev, facts |-> view'.facts]
       /\ DOMAIN view'.facts = DOMAIN view.facts \cup {i}
  BY <1>3 DEF Noted
<1>11. ViewInv'
  <2>1. view.rev \in Nat /\ DOMAIN view.facts \subseteq Ids  BY DEF ViewInv
  <2>2. repair' # Nothing => repair' = repair /\ repair.rev \in 0 .. view.rev  BY <1>3 DEF ViewInv
  <2> QED  BY <1>3, <1>5, <1>6, <1>10, <2>1, <2>2 DEF ViewInv
<1>12. ActiveContentIsUnique' /\ SupersededLeadsOut'
  BY <1>3 DEF ActiveContentIsUnique, SupersededLeadsOut, Ids, Active
<1>13. ViewKnowsEveryCommit'
  BY <1>3, <1>6, <1>8, <1>10 DEF ViewKnowsEveryCommit
<1> QED  BY <1>7, <1>8, <1>9, <1>11, <1>12, <1>13

LEMMA InsertStep == ASSUME MemoryIInv, NEW p \in Callers, Insert(p) PROVE MemoryIInv'
<1> USE DEF MemoryIInv
<1> DEFINE n == Len(recs) + 1
           r == [content |-> call[p].content, status |-> "active", by |-> 0]
           c == [call[p] EXCEPT !.pc = "targets", !.id = n]
<1>1. ~FreeCaller(p) /\ call[p].pc = "insert"  BY Somewhere DEF Insert, CallAt
<1>2. call[p] \in CallRecord /\ CallFits(p) /\ CallGuarded(p) /\ CallKeyed(p)  BY <1>1, CallTyped
<1>3. /\ Count(p) /\ recs' = Append(recs, r) /\ call' = [call EXCEPT ![p] = c]
      /\ UNCHANGED <<idem, running, lock, view, repair, unseen, calls, crashes>>
  BY DEF Insert, StoreInv
<1>4. /\ recs \in Seq(Record) /\ Len(recs) \in Nat /\ n \in Nat /\ n # 0
      /\ \A j \in Ids : recs[j].by <= Len(recs) /\ recs[j] \in Record
  BY StoreFacts DEF StoreInv
<1>5. r \in Record /\ r.content = call[p].content
  BY <1>1, <1>2 DEF CallFits, Record, Statuses
<1>6. /\ c \in CallRecord /\ c # Returned
      /\ c.pc = "targets" /\ c.id = n /\ c.targets = call[p].targets /\ c.copy = call[p].copy
      /\ c.kind = call[p].kind /\ c.content = call[p].content /\ c.key = call[p].key
  <2>1. c \in CallRecord  BY <1>2, <1>4 DEF CallRecord, CallPcs
  <2> QED  BY <1>2, <2>1, RecordIsCall DEF CallRecord
<1>7. DOMAIN call = Callers /\ call'[p] = c /\ \A q \in Callers \ {p} : call'[q] = call[q]
  BY <1>3 DEF StoreInv
<1>8. /\ recs' \in Seq(Record) /\ Len(recs)' = n /\ Ids' = Ids \cup {n} /\ n \notin Ids
      /\ recs'[n] = r /\ \A j \in Ids : recs'[j] = recs[j]
  <2>1. recs' \in Seq(Record) /\ Len(recs') = n  BY <1>3, <1>4, <1>5, AppendProperties
  <2>2. recs'[n] = r /\ \A j \in 1 .. Len(recs) : recs'[j] = recs[j]
    BY <1>3, <1>4, <1>5, AppendProperties
  <2>3. 1 .. n = (1 .. Len(recs)) \cup {n} /\ n \notin 1 .. Len(recs)  BY <1>4
  <2> HIDE DEF n, r
  <2> QED  BY <2>1, <2>2, <2>3 DEF Ids
<1>9. r.by = 0 /\ r.status = "active"  OBVIOUS
<1>10. n = Len(recs) + 1  OBVIOUS
<1> HIDE DEF n, r, c
<1>11. EffectInv' /\ effects' \in [Keys -> Nat]
  BY <1>1, <1>3, <1>6, <1>7, Counted DEF FreeCaller, Wrote
<1>12. StoreInv'
  <2>1. \A j \in Ids' : recs'[j].by <= Len(recs)'
    <3>1. \A j \in Ids : recs[j].by \in Nat  BY <1>4 DEF Record
    <3> QED  BY <1>4, <1>8, <1>9, <1>10, <3>1
  <2>2. \A q \in Callers : FreeCaller(q)' \/ call'[q] \in CallRecord
    BY <1>6, <1>7 DEF StoreInv, FreeCaller
  <2>3. DOMAIN call' = Callers  BY <1>3, <1>7
  <2>4. \A k \in Keys : idem'[k] # Nothing => idem'[k] \in [content : Contents, id : Ids']
    BY <1>3, <1>8 DEF StoreInv
  <2> QED  BY <1>3, <1>8, <1>11, <2>1, <2>2, <2>3, <2>4 DEF StoreInv
<1>13. CallsInv'
  <2>1. CallFits(p)'
    <3>1. /\ call[p].targets \subseteq Ids /\ DOMAIN call[p].copy \subseteq Ids
          /\ \A i \in DOMAIN call[p].copy : /\ call[p].copy[i].content = recs[i].content
                                            /\ call[p].copy[i].by \in Nat
                                            /\ call[p].copy[i].by <= Len(recs)
          /\ call[p].kind = "commit" /\ call[p].content \in Contents
      BY <1>1, <1>2, CopyFacts DEF CallFits, Record
    <3>2. n <= Len(recs)' /\ \A i \in DOMAIN call[p].copy : call[p].copy[i].by <= Len(recs)'
      BY <1>4, <1>8, <1>10, <3>1
    <3> QED  BY <1>4, <1>6, <1>7, <1>8, <3>1, <3>2 DEF CallFits
  <2>2. CallGuarded(p)' /\ CallKeyed(p)'
    BY <1>1, <1>2, <1>3, <1>6, <1>7, <1>8, <1>9 DEF CallGuarded, CallKeyed, Locked, Holds
  <2>3. Len(recs) <= Len(recs)'  BY <1>4, <1>8, <1>10
  <2>4. \A i \in Ids : recs'[i].content = recs[i].content  BY <1>8
  <2>5. call[p].pc \in Locked  BY <1>1 DEF Locked
  <2>6. \A q \in Callers \ {p} : Holds(q) => Holds(q)'  BY <1>3 DEF Holds
  <2> QED  BY <1>1, <1>3, <1>7, <1>12, <2>1, <2>2, <2>3, <2>4, <2>5, <2>6, CallsStep
<1>14. ViewInv'  BY <1>3, <1>8 DEF ViewInv
<1>15. ActiveContentIsUnique'
  <2>1. \A j \in Ids : Active(j) => recs[j].content # r.content
    BY <1>1, <1>2, <1>5 DEF CallGuarded
  <2> QED  BY <1>8, <2>1 DEF ActiveContentIsUnique, Active
<1>16. SupersededLeadsOut'
  <2>1. 0 \notin Ids'  BY <1>4, <1>8, StoreFacts
  <2> QED  BY <1>8, <1>9, <2>1, LeadsOutStep
<1>17. ViewKnowsEveryCommit'
  <2>1. call'[p].pc = "targets" /\ call'[p].id = n  BY <1>6, <1>7
  <2>2. \A q \in Callers : call[q].pc \in {"targets", "transition", "view"} => q # p  BY <1>1
  <2> QED  BY <1>3, <1>7, <1>8, <2>1, <2>2 DEF ViewKnowsEveryCommit
<1> QED  BY <1>11, <1>12, <1>13, <1>14, <1>15, <1>16, <1>17

\* A step that writes some of the memories whole, from what it fetched of them.
LEMMA RewriteStep ==
    ASSUME MemoryIInv, NEW p \in Callers, ~FreeCaller(p), NEW c \in CallRecord \cup {Returned},
           call' = [call EXCEPT ![p] = c],
           UNCHANGED <<idem, running, lock, view, repair, effects, unseen, crashes>>,
           recs' \in [Ids -> Record],
           \A i \in Ids : recs'[i].content = recs[i].content /\ recs'[i].by <= Len(recs),
           \/ \A i \in Ids : recs'[i] = recs[i] \/ recs'[i].status \in Marks
           \/ call[p].pc \in Locked,
           StoreInv' /\ c # Returned => CallFits(p)' /\ CallGuarded(p)' /\ CallKeyed(p)',
           \/ call[p].pc \notin Wrote
           \/ c # Returned /\ c.key = call[p].key /\ c.pc \in Wrote,
           \/ call[p].pc \notin {"targets", "transition", "view"}
           \/ c # Returned /\ c.id = call[p].id /\ c.pc \in {"targets", "transition", "view"},
           StoreInv' => ActiveContentIsUnique' /\ SupersededLeadsOut'
    PROVE  MemoryIInv'
<1> USE DEF MemoryIInv
<1>1. DOMAIN call = Callers /\ call'[p] = c /\ \A q \in Callers \ {p} : call'[q] = call[q]
  BY DEF StoreInv
<1>2. FreeCaller(p)' <=> c = Returned  BY <1>1 DEF FreeCaller
<1>3. /\ recs' \in Seq(Record) /\ Len(recs)' = Len(recs) /\ Ids' = Ids
      /\ \A i \in Ids' : recs'[i].by <= Len(recs)'
  BY RecsWritten
<1>4. StoreInv'
  <2>1. \A q \in Callers : FreeCaller(q)' \/ call'[q] \in CallRecord
    BY <1>1, <1>2 DEF StoreInv, FreeCaller
  <2> QED  BY <1>1, <1>3, <2>1 DEF StoreInv
<1>5. CallsInv'
  <2>1. Len(recs) <= Len(recs)'  BY <1>3, StoreFacts
  <2>2. \A q \in Callers \ {p} : Holds(q) => Holds(q)'  BY DEF Holds
  <2> QED  BY <1>1, <1>2, <1>3, <1>4, <2>1, <2>2, CallsStep
<1>6. \A q \in Callers : ~FreeCaller(q) /\ call[q].pc \in Wrote =>
         ~FreeCaller(q)' /\ call'[q].key = call[q].key /\ call'[q].pc \in Wrote
  BY <1>1, <1>2 DEF FreeCaller
<1>7. EffectInv'  BY <1>6, EffectsKept
<1>8. ViewInv'  BY <1>3 DEF ViewInv
<1>9. ViewKnowsEveryCommit'
  <2>1. \A q \in Callers : call[q].pc \in {"targets", "transition", "view"} =>
           call'[q].pc \in {"targets", "transition", "view"} /\ call'[q].id = call[q].id
    BY <1>1
  <2> QED  BY <1>3, <2>1 DEF ViewKnowsEveryCommit
<1> QED  BY <1>4, <1>5, <1>7, <1>8, <1>9

LEMMA WriteTargetsStep == ASSUME MemoryIInv, NEW p \in Callers, WriteTargets(p) PROVE MemoryIInv'
<1> USE DEF MemoryIInv
<1> DEFINE d == call[p].id
           ts == call[p].targets
           c == [call[p] EXCEPT !.pc = "view", !.copy = Read({})]
<1>1. ~FreeCaller(p) /\ call[p].pc = "transition"  BY Somewhere DEF WriteTargets, CallAt
<1>2. call[p] \in CallRecord /\ CallFits(p) /\ CallGuarded(p) /\ CallKeyed(p)  BY <1>1, CallTyped
<1>3. /\ recs' = [i \in Ids |-> IF i \in ts THEN Replaced(p, call[p].copy[i]) ELSE recs[i]]
      /\ call' = [call EXCEPT ![p] = c]
      /\ UNCHANGED <<idem, running, lock, view, repair, effects, unseen, calls, crashes>>
  BY DEF WriteTargets, StoreInv
<1>4. /\ StoreInv /\ DOMAIN call = Callers /\ recs \in [Ids -> Record]
      /\ \A i \in Ids : i # 0 /\ recs[i].by <= Len(recs)
  BY StoreFacts DEF StoreInv
<1>5. /\ d \in Ids /\ d \in Nat /\ d <= Len(recs) /\ d \notin ts /\ ts \subseteq Ids
      /\ DOMAIN call[p].copy = ts /\ Holds(p) /\ recs[d].status # "superseded"
  BY <1>1, <1>2, StoreFacts DEF CallFits, CallGuarded, CallRecord, Locked, Ids
<1>6. \A i \in ts : /\ call[p].copy[i] \in Record /\ call[p].copy[i].content = recs[i].content
                    /\ call[p].copy[i].by <= Len(recs)
  BY <1>2, <1>5, CopyFacts DEF CallFits
<1>7. ASSUME NEW i \in ts
      PROVE  /\ recs'[i] \in Record /\ recs'[i].content = recs[i].content /\ recs'[i].by <= Len(recs)
             /\ recs'[i].status # "active"
             /\ recs'[i].status = "superseded" => recs'[i].by = d
  <2>1. recs'[i] = Replaced(p, call[p].copy[i])  BY <1>3, <1>5
  <2>2. CASE call[p].relation = "supersede"
    <3>1. recs'[i] = [call[p].copy[i] EXCEPT !.status = "superseded", !.by = d]
      BY <2>1, <2>2 DEF Replaced
    <3> QED  BY <1>5, <1>6, <3>1 DEF Record, Statuses
  <2>3. CASE call[p].relation # "supersede"
    <3>1. recs'[i] = [call[p].copy[i] EXCEPT !.status = "tombstoned"]
      BY <2>1, <2>3 DEF Replaced
    <3> QED  BY <1>5, <1>6, <3>1 DEF Record, Statuses
  <2> QED  BY <2>2, <2>3
<1>8. \A i \in Ids \ ts : recs'[i] = recs[i]  BY <1>3
<1>9. Read({}) \in Copies /\ DOMAIN Read({}) = {}  BY <1>4, ReadFacts
<1>10. /\ c \in CallRecord /\ c # Returned
       /\ c.pc = "view" /\ c.id = d /\ c.targets = ts /\ DOMAIN c.copy = {}
       /\ c.kind = call[p].kind /\ c.content = call[p].content /\ c.key = call[p].key
  <2>1. c \in CallRecord  BY <1>2, <1>9 DEF CallRecord, CallPcs
  <2> QED  BY <1>2, <1>9, <2>1, RecordIsCall DEF CallRecord
<1>11. call'[p] = c  BY <1>3, <1>4
<1>12. recs' \in [Ids -> Record]
  <2>1. \A i \in Ids : recs'[i] \in Record  BY <1>4, <1>7, <1>8
  <2>2. recs' = [i \in Ids |-> recs'[i]]  BY <1>3
  <2> QED  BY <2>1, <2>2
<1> HIDE DEF c, d, ts
<1>13. Ids' = Ids /\ Len(recs)' = Len(recs)
  <2>1. \A i \in Ids : recs'[i].by <= Len(recs)  BY <1>4, <1>7, <1>8
  <2> QED  BY <1>12, <2>1, RecsWritten
<1>14. CallFits(p)' /\ CallGuarded(p)' /\ CallKeyed(p)'
  <2>1. CallFits(p)'  BY <1>1, <1>2, <1>4, <1>5, <1>10, <1>11, <1>13 DEF CallFits
  <2> QED  BY <1>1, <1>2, <1>3, <1>5, <1>10, <1>11, <2>1 DEF CallGuarded, CallKeyed, Holds
<1>15. ActiveContentIsUnique'
  BY <1>7, <1>8, <1>13 DEF ActiveContentIsUnique, Active
<1>16. SupersededLeadsOut'
  <2>1. recs'[d].status # "superseded"  BY <1>5, <1>8
  <2> QED  BY <1>7, <1>8, <1>13, <2>1, LeadsOutStep
<1>17. \A i \in Ids : recs'[i].content = recs[i].content /\ recs'[i].by <= Len(recs)
  BY <1>4, <1>7, <1>8
<1> QED
  BY <1>1, <1>3, <1>10, <1>12, <1>14, <1>15, <1>16, <1>17, RewriteStep DEF Wrote, Locked, d

LEMMA WriteConsolidationStep == ASSUME MemoryIInv, NEW p \in Callers, WriteConsolidation(p) PROVE MemoryIInv'
<1> USE DEF MemoryIInv
<1> DEFINE i == call[p].id
           copy == call[p].copy
<1>1. ~FreeCaller(p) /\ call[p].pc = "consolidate"  BY Somewhere DEF WriteConsolidation, CallAt
<1>2. call[p] \in CallRecord /\ CallFits(p) /\ CallGuarded(p) /\ CallKeyed(p)  BY <1>1, CallTyped
<1>3. UNCHANGED <<idem, running, lock, view, repair, effects, unseen, calls, crashes>>
  BY DEF WriteConsolidation
<1>4. /\ StoreInv /\ DOMAIN call = Callers /\ recs \in [Ids -> Record]
      /\ \A j \in Ids : j # 0 /\ recs[j].by <= Len(recs)
  BY StoreFacts DEF StoreInv
<1>5. PICK t \in Nat \ {i} : call[p].targets = {t}  BY <1>1, <1>2 DEF CallFits
<1>6. DOMAIN copy = {i, t} /\ i \in Ids /\ t \in Ids /\ t # i /\ t <= Len(recs)
  BY <1>1, <1>2, <1>4, <1>5, StoreFacts DEF CallFits, Ids
<1>7. Target(p) = t  BY <1>5, TargetFacts
<1>8. \A j \in {i, t} : /\ copy[j] \in Record /\ copy[j].content = recs[j].content
                        /\ copy[j].by <= Len(recs) /\ copy[j].status = "active"
  BY <1>1, <1>2, <1>6, CopyFacts DEF CallFits
<1>9. Holds(p) /\ Sole({i, t})
  <2>1. {i} \cup call[p].targets = {i, t}  BY <1>5
  <2> QED  BY <1>1, <1>2, <2>1 DEF CallGuarded, Locked
<1> HIDE DEF i, copy
<1>10. CASE call[p].relation = "reinforce"
  <2> DEFINE c == [call[p] EXCEPT !.pc = "view"]
             r == [copy[i] EXCEPT !.status = "superseded", !.by = t]
  <2>1. recs' = [recs EXCEPT ![t] = copy[t], ![i] = r] /\ Goto(p, "view")
    BY <1>7, <1>10 DEF WriteConsolidation, i, copy
  <2>2. call' = [call EXCEPT ![p] = c] /\ c \in CallRecord  BY <1>1, <2>1, Gone DEF CallPcs
  <2>3. /\ c.pc = "view" /\ c.id = i /\ c.targets = {t} /\ c.copy = copy
        /\ c.kind = call[p].kind /\ c.content = call[p].content /\ c.key = call[p].key /\ c # Returned
    BY <1>2, <1>5, <2>2, RecordIsCall DEF CallRecord, i, copy
  <2>4. call'[p] = c  BY <1>4, <2>2
  <2>5. /\ r \in Record /\ r.content = recs[i].content /\ r.by = t /\ r.status = "superseded"
    BY <1>6, <1>8 DEF Record, Statuses
  <2> HIDE DEF c, r
  <2>6. /\ recs' \in [Ids -> Record] /\ recs'[t] = copy[t] /\ recs'[i] = r
        /\ \A j \in Ids \ {i, t} : recs'[j] = recs[j]
    BY <1>4, <1>6, <1>8, <2>1, <2>5
  <2>7. \A j \in Ids : recs'[j].content = recs[j].content /\ recs'[j].by <= Len(recs)
    BY <1>4, <1>6, <1>8, <2>5, <2>6
  <2>8. Ids' = Ids /\ Len(recs)' = Len(recs)  BY <1>4, <2>6, <2>7, RecsWritten
  <2>9. CallFits(p)'
    BY <1>1, <1>2, <1>4, <1>5, <1>6, <2>3, <2>4, <2>7, <2>8 DEF CallFits, copy, i
  <2>10. CallGuarded(p)' /\ CallKeyed(p)'
    BY <1>1, <1>2, <1>3, <1>9, <2>3, <2>4 DEF CallGuarded, CallKeyed, Holds
  <2>11. ActiveContentIsUnique'
    BY <1>6, <1>9, <2>5, <2>6, <2>7, <2>8 DEF ActiveContentIsUnique, Active, Sole
  <2>12. SupersededLeadsOut'
    <3>1. recs'[t].status # "superseded"  BY <1>6, <1>8, <2>6
    <3>2. \A j \in Ids' : recs'[j].status = "superseded" =>
             \/ recs'[j].by = t
             \/ j \in Ids /\ recs[j].status = "superseded" /\ recs'[j].by = recs[j].by
      BY <1>6, <2>5, <2>6, <2>8, <3>1
    <3> QED  BY <3>1, <3>2, LeadsOutStep
  <2> QED
    BY <1>1, <1>3, <2>2, <2>3, <2>6, <2>7, <2>9, <2>10, <2>11, <2>12, RewriteStep DEF Wrote, Locked
<1>11. CASE call[p].relation # "reinforce"
  <2> DEFINE c == [call[p] EXCEPT !.pc = "targets"]
  <2>1. recs' = [recs EXCEPT ![i] = copy[i]] /\ Goto(p, "targets")
    BY <1>11 DEF WriteConsolidation, i, copy
  <2>2. call' = [call EXCEPT ![p] = c] /\ c \in CallRecord  BY <1>1, <2>1, Gone DEF CallPcs
  <2>3. /\ c.pc = "targets" /\ c.id = i /\ c.targets = {t} /\ c.copy = copy
        /\ c.kind = call[p].kind /\ c.content = call[p].content /\ c.key = call[p].key /\ c # Returned
    BY <1>2, <1>5, <2>2, RecordIsCall DEF CallRecord, i, copy
  <2>4. call'[p] = c  BY <1>4, <2>2
  <2> HIDE DEF c
  <2>6. /\ recs' \in [Ids -> Record] /\ recs'[i] = copy[i]
        /\ \A j \in Ids \ {i} : recs'[j] = recs[j]
    BY <1>4, <1>6, <1>8, <2>1
  <2>7. \A j \in Ids : recs'[j].content = recs[j].content /\ recs'[j].by <= Len(recs)
    BY <1>4, <1>6, <1>8, <2>6
  <2>8. Ids' = Ids /\ Len(recs)' = Len(recs)  BY <1>4, <2>6, <2>7, RecsWritten
  <2>9. CallFits(p)'
    BY <1>1, <1>2, <1>4, <1>5, <1>6, <2>3, <2>4, <2>7, <2>8 DEF CallFits, copy, i
  <2>10. CallGuarded(p)' /\ CallKeyed(p)'
    BY <1>1, <1>2, <1>3, <1>8, <1>9, <2>3, <2>4, <2>6 DEF CallGuarded, CallKeyed, Holds
  <2>11. ActiveContentIsUnique'
    BY <1>6, <1>9, <2>6, <2>7, <2>8 DEF ActiveContentIsUnique, Active, Sole
  <2>12. SupersededLeadsOut'
    <3>1. 0 \notin Ids'  BY <1>4, <2>8
    <3> QED  BY <1>8, <2>6, <2>8, <3>1, LeadsOutStep
  <2> QED
    BY <1>1, <1>3, <2>2, <2>3, <2>6, <2>7, <2>9, <2>10, <2>11, <2>12, RewriteStep DEF Wrote, Locked
<1> QED  BY <1>10, <1>11

LEMMA WriteMarkStep == ASSUME MemoryIInv, NEW p \in Callers, WriteMark(p) PROVE MemoryIInv'
<1> USE DEF MemoryIInv
<1> DEFINE i == call[p].id
           r == [call[p].copy[i] EXCEPT !.status = call[p].kind]
<1>1. ~FreeCaller(p) /\ call[p].pc = "mark"  BY Somewhere DEF WriteMark, CallAt
<1>2. call[p] \in CallRecord /\ CallFits(p)  BY <1>1, CallTyped
<1>3. /\ recs' = [recs EXCEPT ![i] = r] /\ call' = [call EXCEPT ![p] = Returned]
      /\ UNCHANGED <<idem, running, lock, view, repair, effects, unseen, calls, crashes>>
  BY DEF WriteMark, Returns
<1>4. /\ StoreInv /\ recs \in [Ids -> Record] /\ \A j \in Ids : j # 0 /\ recs[j].by <= Len(recs)
  BY StoreFacts DEF StoreInv
<1>5. i \in Ids /\ DOMAIN call[p].copy = {i} /\ call[p].kind \in Marks
  BY <1>1, <1>2 DEF CallFits
<1>6. /\ call[p].copy[i] \in Record /\ call[p].copy[i].content = recs[i].content
      /\ call[p].copy[i].by <= Len(recs)
  BY <1>2, <1>5, CopyFacts DEF CallFits
<1>7. call[p].kind \in {"tombstoned", "conflicted", "rejected"}  BY <1>5, MemoryAssumption
<1>8. r \in Record /\ r.content = recs[i].content /\ r.by <= Len(recs) /\ r.status = call[p].kind
  BY <1>6, <1>7 DEF Record, Statuses
<1> HIDE DEF r, i
<1>9. /\ recs' \in [Ids -> Record] /\ recs'[i] = r /\ \A j \in Ids \ {i} : recs'[j] = recs[j]
  BY <1>3, <1>4, <1>5, <1>8
<1>10. \A j \in Ids : recs'[j].content = recs[j].content /\ recs'[j].by <= Len(recs)
  BY <1>4, <1>8, <1>9
<1>11. Ids' = Ids  BY <1>4, <1>9, <1>10, RecsWritten
<1>12. ActiveContentIsUnique'
  BY <1>7, <1>8, <1>9, <1>10, <1>11 DEF ActiveContentIsUnique, Active
<1>13. SupersededLeadsOut'
  <2>1. 0 \notin Ids'  BY <1>4, <1>11
  <2> QED  BY <1>7, <1>8, <1>9, <1>11, <2>1, LeadsOutStep
<1>14. \A j \in Ids : recs'[j] = recs[j] \/ recs'[j].status \in Marks
  BY <1>5, <1>8, <1>9
<1> QED
  BY <1>1, <1>3, <1>9, <1>10, <1>12, <1>13, <1>14, RewriteStep DEF Wrote

-----------------------------------------------------------------------------
\* A step that leaves the memories, the calls and the members of the view.
LEMMA NothingWritten ==
    ASSUME MemoryIInv, UNCHANGED <<recs, idem, running, lock, call, effects, unseen, crashes>>,
           DOMAIN view'.facts = DOMAIN view.facts, ViewInv'
    PROVE  MemoryIInv'
<1> USE DEF MemoryIInv
<1>1. Ids' = Ids /\ \A p \in Callers : FreeCaller(p)' <=> FreeCaller(p)  BY DEF Ids, FreeCaller
<1>2. StoreInv'  BY <1>1 DEF StoreInv
<1>3. CallsInv'
  <2> SUFFICES ASSUME NEW p \in Callers, ~FreeCaller(p)
               PROVE  CallFits(p)' /\ CallGuarded(p)' /\ CallKeyed(p)'
    BY <1>1 DEF CallsInv
  <2>1. CallFits(p) /\ CallGuarded(p) /\ CallKeyed(p)  BY DEF CallsInv
  <2>2. CallFits(p)'  BY <1>1, <2>1 DEF CallFits
  <2>3. CallGuarded(p)'
    <3>1. Holds(p)' <=> Holds(p)  BY DEF Holds
    <3>2. \A ids : Sole(ids)' <=> Sole(ids)  BY <1>1 DEF Sole, Active
    <3>3. \A j : Active(j)' <=> Active(j)  BY DEF Active
    <3> QED  BY <1>1, <2>1, <3>1, <3>2, <3>3 DEF CallGuarded
  <2>4. CallKeyed(p)'  BY <2>1 DEF CallKeyed
  <2> QED  BY <2>2, <2>3, <2>4
<1>4. EffectInv'  BY <1>1 DEF EffectInv, Written
<1>5. ActiveContentIsUnique' /\ SupersededLeadsOut'
  BY <1>1 DEF ActiveContentIsUnique, SupersededLeadsOut, Active
<1>6. ViewKnowsEveryCommit'  BY <1>1 DEF ViewKnowsEveryCommit
<1> QED  BY <1>2, <1>3, <1>4, <1>5, <1>6

LEMMA RepairReadStep == ASSUME MemoryIInv, RepairRead PROVE MemoryIInv'
<1> USE DEF MemoryIInv
<1>1. /\ repair' = [rev |-> view.rev, facts |-> [i \in DOMAIN view.facts |-> Fact(recs[i].status)]]
      /\ UNCHANGED <<recs, idem, running, lock, call, view, effects, unseen, calls, crashes>>
  BY DEF RepairRead
<1>2. /\ repair' = [rev |-> repair'.rev, facts |-> repair'.facts] /\ repair'.rev = view.rev
      /\ DOMAIN repair'.facts = DOMAIN view.facts
  BY <1>1
<1>3. ViewInv'  BY <1>1, <1>2 DEF ViewInv, Ids
<1> QED  BY <1>1, <1>3, NothingWritten

LEMMA RepairPutStep == ASSUME MemoryIInv, RepairPut PROVE MemoryIInv'
<1> USE DEF MemoryIInv
<1>1. /\ repair # Nothing /\ repair' = Nothing
      /\ view' = IF SameView THEN [rev |-> view.rev + 1, facts |-> repair.facts] ELSE view
      /\ UNCHANGED <<recs, idem, running, lock, call, effects, unseen, calls, crashes>>
  BY DEF RepairPut
<1>2. DOMAIN view'.facts = DOMAIN view.facts /\ view'.rev \in Nat
      /\ view' = [rev |-> view'.rev, facts |-> view'.facts]
  <2>1. CASE SameView  BY <1>1, <2>1 DEF ViewInv, SameView
  <2>2. CASE ~SameView  BY <1>1, <2>2 DEF ViewInv
  <2> QED  BY <2>1, <2>2
<1>3. ViewInv'  BY <1>1, <1>2 DEF ViewInv, Ids
<1> QED  BY <1>1, <1>2, <1>3, NothingWritten

LEMMA CrashStep == ASSUME MemoryIInv, Crash PROVE MemoryIInv'
<1> USE DEF MemoryIInv
<1> DEFINE cut == {q \in Callers : ~FreeCaller(q) /\ call[q].pc \in {"targets", "transition", "view"}}
<1>1. /\ crashes' = crashes + 1 /\ unseen' = unseen \cup {call[p].id : p \in cut}
      /\ running' = [k \in Keys |-> Nothing] /\ lock' = <<>>
      /\ call' = [p \in Callers |-> Returned] /\ repair' = Nothing
      /\ UNCHANGED <<recs, idem, view, effects, calls>>
  BY DEF Crash
<1>2. Ids' = Ids /\ \A p \in Callers : FreeCaller(p)'  BY <1>1 DEF Ids, FreeCaller
<1>3. StoreInv'
  BY <1>1, <1>2, EmptySeq DEF StoreInv
<1>4. CallsInv'  BY <1>2 DEF CallsInv
<1>5. EffectInv'
  <2>1. effects \in [Keys -> Nat] /\ crashes \in Nat  BY DEF StoreInv
  <2> QED  BY <1>1, <2>1 DEF EffectInv
<1>6. \A p \in cut : call[p].id \in Ids
  <2> SUFFICES ASSUME NEW p \in cut PROVE call[p].id \in Ids  OBVIOUS
  <2>1. call[p] \in CallRecord /\ CallFits(p)  BY CallTyped
  <2> QED  BY <2>1, StoreFacts DEF CallFits, CallRecord, Ids
<1>7. ViewInv'  BY <1>1, <1>2, <1>6 DEF ViewInv
<1>8. ActiveContentIsUnique' /\ SupersededLeadsOut'
  BY <1>1 DEF ActiveContentIsUnique, SupersededLeadsOut, Ids, Active
<1>9. ViewKnowsEveryCommit'
  <2>1. \A p \in Callers : call[p].pc \in {"targets", "transition", "view"} => p \in cut
    BY DEF FreeCaller, Returned
  <2> HIDE DEF cut
  <2> QED  BY <1>1, <1>2, <2>1 DEF ViewKnowsEveryCommit
<1> QED  BY <1>3, <1>4, <1>5, <1>7, <1>8, <1>9

-----------------------------------------------------------------------------
LEMMA MemoryInitHolds == MemoryInit => MemoryIInv
<1> SUFFICES ASSUME MemoryInit PROVE MemoryIInv
  OBVIOUS
<1> USE DEF MemoryInit
<1>1. /\ StoredContents \in Seq(Contents) /\ Len(StoredContents) \in Nat
      /\ DOMAIN StoredContents = 1 .. Len(StoredContents)
      /\ \A i \in DOMAIN StoredContents : StoredContents[i] \in Contents
  BY MemoryAssumption, LenProperties
<1>2. recs \in [1 .. Len(StoredContents) -> Record]  BY <1>1 DEF Record, Statuses
<1>3. recs \in Seq(Record)  BY <1>1, <1>2, SeqDef
<1>4. Len(recs) = Len(StoredContents) /\ Ids = DOMAIN StoredContents
  <2>1. DOMAIN recs = 1 .. Len(recs) /\ Len(recs) \in Nat  BY <1>3, LenProperties
  <2>2. Len(recs) = Len(StoredContents)  BY <1>1, <1>2, <2>1
  <2> QED  BY <1>1, <2>2 DEF Ids
<1>5. \A i \in Ids : /\ recs[i].content = StoredContents[i] /\ recs[i].status = "active"
                     /\ recs[i].by = 0
  BY <1>4
<1>6. \A p \in Callers : FreeCaller(p)  BY DEF FreeCaller
<1>7. StoreInv  BY <1>1, <1>3, <1>4, <1>5, <1>6, EmptySeq DEF StoreInv
<1>8. CallsInv  BY <1>6 DEF CallsInv
<1>9. EffectInv  BY DEF EffectInv
<1>10. ViewInv  BY <1>4 DEF ViewInv
<1>11. ActiveContentIsUnique  BY <1>4, <1>5, MemoryAssumption DEF ActiveContentIsUnique
<1>12. SupersededLeadsOut  BY <1>5 DEF SupersededLeadsOut
<1>13. ViewKnowsEveryCommit  BY <1>4 DEF ViewKnowsEveryCommit
<1> QED  BY <1>7, <1>8, <1>9, <1>10, <1>11, <1>12, <1>13 DEF MemoryIInv

LEMMA MemoryStepHolds == MemoryIInv /\ [MemoryNext]_memoryVars => MemoryIInv'
<1> SUFFICES ASSUME MemoryIInv, [MemoryNext]_memoryVars PROVE MemoryIInv'
  OBVIOUS
<1>1. ASSUME NEW p \in Callers, CommitCall(p) \/ Consolidate(p) \/ MarkCall(p) PROVE MemoryIInv'
  BY <1>1, CommitCallStep, ConsolidateStep, MarkCallStep
<1>2. ASSUME NEW p \in Callers, CallStep(p) PROVE MemoryIInv'
  BY <1>2, CheckKeyStep, FindExactStep, FetchExactStep, ReinforceStep, EmbedStep, EmbedFailsStep,
     InsertStep, ReadTargetsStep, WriteTargetsStep, EnqueueViewStep, RememberStep,
     CheckConsolidationStep, WriteConsolidationStep, WriteMarkStep DEF CallStep
<1>3. CASE RepairRead \/ RepairPut \/ Crash  BY <1>3, RepairReadStep, RepairPutStep, CrashStep
<1>4. CASE UNCHANGED memoryVars
  <2>1. UNCHANGED <<recs, idem, running, lock, call, view, repair, effects, unseen, crashes>>
    BY <1>4 DEF memoryVars
  <2>2. ViewInv'  BY <2>1 DEF MemoryIInv, ViewInv, Ids
  <2> QED  BY <2>1, <2>2, NothingWritten
<1> QED  BY <1>1, <1>2, <1>3, <1>4 DEF MemoryNext

LEMMA MemoryInvSuffices == MemoryIInv => MemoriesAreSound
<1> SUFFICES ASSUME MemoryIInv PROVE MemoriesAreSound
  OBVIOUS
<1> USE DEF MemoryIInv
<1>1. MemoryTypeOK
  <2>1. \A i \in Ids : recs[i] \in [content : Contents, status : Statuses, by : 0 .. Len(recs)]
    BY StoreFacts DEF StoreInv, Record
  <2>2. \A k \in Keys : idem[k] # Nothing => idem[k].id \in Ids  BY DEF StoreInv
  <2>3. \A p \in Callers : call[p].pc # "idle" => call[p].id \in 0 .. Len(recs)
    <3> SUFFICES ASSUME NEW p \in Callers, call[p].pc # "idle" PROVE call[p].id \in 0 .. Len(recs)
      OBVIOUS
    <3>1. ~FreeCaller(p)  BY DEF FreeCaller, Returned
    <3>2. call[p] \in CallRecord /\ CallFits(p)  BY <3>1, CallTyped
    <3> QED  BY <3>2, StoreFacts DEF CallFits, CallRecord
  <2> QED  BY <2>1, <2>2, <2>3 DEF MemoryTypeOK, StoreInv, ViewInv
<1>2. KeyHasOneEffect  BY DEF KeyHasOneEffect, EffectInv
<1> QED  BY <1>1, <1>2 DEF MemoriesAreSound

\* DefaultMemoryService: the memories of a namespace, their history, what a key did and what
\* the view lists stay consistent, for any number of callers, calls and crashes.
THEOREM MemoriesAlwaysSound == MemorySpec => []MemoriesAreSound
<1>1. MemoryInit => MemoryIInv  BY MemoryInitHolds
<1>2. MemoryIInv /\ [MemoryNext]_memoryVars => MemoryIInv'  BY MemoryStepHolds
<1>3. MemoryIInv => MemoriesAreSound  BY MemoryInvSuffices
<1> QED  BY <1>1, <1>2, <1>3, PTL DEF MemorySpec

-----------------------------------------------------------------------------
(* ArtifactStore. What is on the disk and what the record says go apart      *)
(* between any two steps; what a write and a maintenance know ties them.      *)
(*   WholeInv  who is about to publish a record as ready has its files there;  *)
(*   AloneInv  a write that met nobody has the content for itself;               *)
(*   AckedInv  what was given out as ready is touched by an expiry only.           *)

Manifests == [episode : Episodes, expiry : Expiries]
ArtifactTypes ==
    /\ rec \in [Artifacts -> Records \cup {NoRecord}]
    /\ files \in [Artifacts -> [chunks : BOOLEAN, manifest : Manifests \cup {NoRecord}]]
    /\ write \in [Procs -> Writes \cup {NoRecord}]
    /\ maint \in [Procs -> Jobs \cup {NoRecord}]
    /\ clock \in {0, 1} /\ acked \subseteq Artifacts /\ raced \subseteq Artifacts

JobInv == \A p \in Procs : maint[p] # NoRecord =>
    /\ maint[p].pc \in {"recover", "collect"} => maint[p].a = NoRecord
    /\ maint[p].pc \in {"repair", "reject"} => maint[p].a \in Listed(p)
    /\ maint[p].pc \in {"delete", "remove"} => maint[p].a \in Artifacts /\ rec[maint[p].a] # NoRecord

WholeInv ==
    \A a \in Artifacts \ raced :
        /\ Reusable(a) => Whole(a)
        /\ \A p \in Procs : /\ WriteAt(p, "ready") /\ write[p].a = a => Whole(a)
                            /\ maint[p] # NoRecord /\ maint[p].pc = "repair" /\ maint[p].a = a => Whole(a)

AloneInv ==
    \A a \in Artifacts \ met : \A p \in Procs : write[p] # NoRecord /\ write[p].a = a =>
        /\ \A q \in Procs \ {p} : write[q] # NoRecord => write[q].a # a
        /\ \A q \in Procs : ~Maintains(q, a)
        /\ ~Reusable(a) /\ a \notin acked

AckedInv ==
    \A a \in acked \ met :
        /\ rec[a] # NoRecord
        /\ rec[a].state = "ready" \/ (Expired(rec[a]) /\ rec[a].state \in {"expired", "deleted"})
        /\ \A p \in Procs : Maintains(p, a) =>
              /\ maint[p].pc \in {"collect", "delete", "remove"}
              /\ a \in Listed(p) => Expired(maint[p].list[a])
              /\ maint[p].pc = "delete" /\ maint[p].a = a => Expired(rec[a])

ArtifactIInv == ArtifactTypes /\ JobInv /\ WholeInv /\ AloneInv /\ AckedInv

-----------------------------------------------------------------------------
\* A value is not the sign for no value.
LEMMA SomeRecord == /\ NoRecord \notin Artifacts /\ NoRecord \notin Records /\ NoRecord \notin Writes
                    /\ NoRecord \notin Jobs /\ NoRecord \notin Manifests
  BY ArtifactAssumption DEF Manifests

\* A write goes on, or ends, and does one of five things to the disk.
LEMMA WriteMoves ==
    ASSUME ArtifactTypes, NEW p \in Procs, WriteStep(p)
    PROVE  /\ write[p] \in Writes /\ write[p] # NoRecord
           /\ UNCHANGED <<maint, clock, raced, met>>
           /\ \E w \in Writes \cup {NoRecord} :
                /\ write' = [write EXCEPT ![p] = w]
                /\ w # NoRecord => w.a = write[p].a
                /\ \/ /\ w # NoRecord => w.pc # "ready"
                      /\ \E r \in Records : r.state # "ready" /\ rec' = [rec EXCEPT ![write[p].a] = r]
                      /\ UNCHANGED <<files, acked>>
                   \/ /\ w # NoRecord => w.pc # "ready"
                      /\ files' = [files EXCEPT ![write[p].a].chunks = TRUE] /\ UNCHANGED <<rec, acked>>
                   \/ /\ files[write[p].a].chunks
                      /\ \E m \in Manifests : files' = [files EXCEPT ![write[p].a].manifest = m]
                      /\ UNCHANGED <<rec, acked>>
                   \/ /\ w # NoRecord => w.pc # "ready"
                      /\ UNCHANGED <<rec, files, acked>>
                   \/ /\ w = NoRecord /\ write[p].pc = "ready"
                      /\ \E r \in Records : r.state = "ready" /\ rec' = [rec EXCEPT ![write[p].a] = r]
                      /\ acked' = acked \cup {write[p].a} /\ UNCHANGED files
<1>1. write[p] \in Writes /\ write[p] # NoRecord
  BY SomeRecord DEF WriteStep, PersistPending, PersistPersisting, WriteChunks, WriteManifest, WriteFails, PersistReady,
     PersistFailed, WriteAt, ArtifactTypes
<1>2. UNCHANGED <<maint, clock, raced, met>>
  BY DEF WriteStep, PersistPending, PersistPersisting, WriteChunks, WriteManifest, WriteFails, PersistReady, PersistFailed
<1>3. ASSUME NEW pc \in {"persisting", "chunks", "manifest", "ready", "failed"}, GotoWrite(p, pc)
      PROVE  \E w \in Writes : w.pc = pc /\ w.a = write[p].a /\ write' = [write EXCEPT ![p] = w]
  <2> DEFINE w == [write[p] EXCEPT !.pc = pc]
  <2>1. w \in Writes /\ w.pc = pc /\ w.a = write[p].a  BY <1>1 DEF Writes
  <2>2. write' = [write EXCEPT ![p] = w]  BY <1>3 DEF GotoWrite, ArtifactTypes
  <2> QED  BY <2>1, <2>2
<1>4. ASSUME NEW s \in ArtifactStates, Persist(p, s)
      PROVE  \E r \in Records : r.state = s /\ rec' = [rec EXCEPT ![write[p].a] = r]
  <2> DEFINE r == [state |-> s, episode |-> write[p].episode, expiry |-> write[p].expiry]
  <2>1. r \in Records /\ r.state = s  BY <1>1 DEF Writes, Records
  <2>2. rec' = [rec EXCEPT ![write[p].a] = r]  BY <1>4 DEF Persist
  <2> QED  BY <2>1, <2>2
<1>5. {"pending", "persisting", "failed", "ready"} \subseteq ArtifactStates  BY DEF ArtifactStates
<1>6. CASE PersistPending(p)
  <2>1. PICK w \in Writes : w.pc = "persisting" /\ w.a = write[p].a /\ write' = [write EXCEPT ![p] = w]
    BY <1>3, <1>6 DEF PersistPending
  <2>2. PICK r \in Records : r.state = "pending" /\ rec' = [rec EXCEPT ![write[p].a] = r]
    BY <1>4, <1>5, <1>6 DEF PersistPending
  <2> QED  BY <1>1, <1>2, <1>6, <2>1, <2>2 DEF PersistPending
<1>7. CASE PersistPersisting(p)
  <2>1. PICK w \in Writes : w.pc = "chunks" /\ w.a = write[p].a /\ write' = [write EXCEPT ![p] = w]
    BY <1>3, <1>7 DEF PersistPersisting
  <2>2. PICK r \in Records : r.state = "persisting" /\ rec' = [rec EXCEPT ![write[p].a] = r]
    BY <1>4, <1>5, <1>7 DEF PersistPersisting
  <2> QED  BY <1>1, <1>2, <1>7, <2>1, <2>2 DEF PersistPersisting
<1>8. CASE WriteChunks(p)
  <2>1. PICK w \in Writes : w.pc = "manifest" /\ w.a = write[p].a /\ write' = [write EXCEPT ![p] = w]
    BY <1>3, <1>8 DEF WriteChunks
  <2> QED  BY <1>1, <1>2, <1>8, <2>1 DEF WriteChunks
<1>9. CASE WriteManifest(p) /\ files[write[p].a].chunks
  <2>1. PICK w \in Writes : w.pc = "ready" /\ w.a = write[p].a /\ write' = [write EXCEPT ![p] = w]
    BY <1>3, <1>9 DEF WriteManifest
  <2>2. [episode |-> write[p].episode, expiry |-> write[p].expiry] \in Manifests
    BY <1>1 DEF Writes, Manifests
  <2> QED  BY <1>1, <1>2, <1>9, <2>1, <2>2 DEF WriteManifest
<1>10. CASE (WriteManifest(p) /\ ~files[write[p].a].chunks) \/ WriteFails(p)
  <2>1. PICK w \in Writes : w.pc = "failed" /\ w.a = write[p].a /\ write' = [write EXCEPT ![p] = w]
    BY <1>3, <1>10 DEF WriteManifest, WriteFails
  <2> QED  BY <1>1, <1>2, <1>10, <2>1 DEF WriteManifest, WriteFails
<1>11. CASE PersistReady(p)
  <2>1. PICK r \in Records : r.state = "ready" /\ rec' = [rec EXCEPT ![write[p].a] = r]
    BY <1>4, <1>5, <1>11 DEF PersistReady
  <2> QED  BY <1>1, <1>2, <1>11, <2>1 DEF PersistReady, WriteAt
<1>12. CASE PersistFailed(p)
  <2>1. PICK r \in Records : r.state = "failed" /\ rec' = [rec EXCEPT ![write[p].a] = r]
    BY <1>4, <1>5, <1>12 DEF PersistFailed
  <2> QED  BY <1>1, <1>2, <1>12, <2>1 DEF PersistFailed
<1> QED  BY <1>6, <1>7, <1>8, <1>9, <1>10, <1>11, <1>12 DEF WriteStep

\* A write keeps the invariant: what it publishes is on the disk by then, and
\* what it writes over is nobody else's, or has met somebody.
LEMMA WriteKeepsArtifacts ==
    ASSUME ArtifactIInv, NEW p \in Procs, WriteStep(p)
    PROVE  ArtifactIInv'
<1> DEFINE x == write[p].a
<1>1. ArtifactTypes /\ JobInv /\ WholeInv /\ AloneInv /\ AckedInv  BY DEF ArtifactIInv
<1>2. write[p] \in Writes /\ write[p] # NoRecord /\ UNCHANGED <<maint, clock, raced, met>>
  BY <1>1, WriteMoves
<1>3. x \in Artifacts  BY <1>2 DEF Writes
<1>4. PICK w \in Writes \cup {NoRecord} :
        /\ write' = [write EXCEPT ![p] = w]
        /\ w # NoRecord => w.a = x
        /\ \/ /\ w # NoRecord => w.pc # "ready"
              /\ \E r \in Records : r.state # "ready" /\ rec' = [rec EXCEPT ![x] = r]
              /\ UNCHANGED <<files, acked>>
           \/ /\ w # NoRecord => w.pc # "ready"
              /\ files' = [files EXCEPT ![x].chunks = TRUE] /\ UNCHANGED <<rec, acked>>
           \/ /\ files[x].chunks
              /\ \E m \in Manifests : files' = [files EXCEPT ![x].manifest = m]
              /\ UNCHANGED <<rec, acked>>
           \/ /\ w # NoRecord => w.pc # "ready"
              /\ UNCHANGED <<rec, files, acked>>
           \/ /\ w = NoRecord /\ write[p].pc = "ready"
              /\ \E r \in Records : r.state = "ready" /\ rec' = [rec EXCEPT ![x] = r]
              /\ acked' = acked \cup {x} /\ UNCHANGED files
  BY <1>1, WriteMoves
<1>5. write'[p] = w /\ (\A q \in Procs \ {p} : write'[q] = write[q]) /\ write' \in [Procs -> Writes \cup {NoRecord}]
  BY <1>1, <1>4 DEF ArtifactTypes
<1> DEFINE Outcome == /\ rec' \in [Artifacts -> Records \cup {NoRecord}]
                      /\ files' \in [Artifacts -> [chunks : BOOLEAN, manifest : Manifests \cup {NoRecord}]]
                      /\ \A a \in Artifacts \ {x} : rec'[a] = rec[a] /\ files'[a] = files[a]
                      /\ rec[x] # NoRecord => rec'[x] # NoRecord
                      /\ Whole(x) => files'[x].chunks /\ files'[x].manifest # NoRecord
                      /\ w # NoRecord /\ w.pc = "ready" => files'[x].chunks /\ files'[x].manifest # NoRecord
                      /\ \/ /\ acked' = acked
                            /\ rec'[x] # NoRecord /\ rec'[x].state = "ready" => rec'[x] = rec[x]
                         \/ /\ w = NoRecord /\ acked' = acked \cup {x} /\ write[p].pc = "ready"
                            /\ rec'[x] # NoRecord /\ rec'[x].state = "ready"
<1>6. Outcome
  <2>1. CASE \E r \in Records : r.state # "ready" /\ rec' = [rec EXCEPT ![x] = r] /\ UNCHANGED <<files, acked>>
                                /\ (w # NoRecord => w.pc # "ready")
    BY <1>1, <1>3, <2>1, SomeRecord DEF ArtifactTypes, Whole
  <2>2. CASE files' = [files EXCEPT ![x].chunks = TRUE] /\ UNCHANGED <<rec, acked>> /\ (w # NoRecord => w.pc # "ready")
    BY <1>1, <1>3, <2>2, SomeRecord DEF ArtifactTypes, Whole
  <2>3. CASE files[x].chunks /\ (\E m \in Manifests : files' = [files EXCEPT ![x].manifest = m]) /\ UNCHANGED <<rec, acked>>
    BY <1>1, <1>3, <2>3, SomeRecord DEF ArtifactTypes, Whole
  <2>4. CASE UNCHANGED <<rec, files, acked>> /\ (w # NoRecord => w.pc # "ready")
    BY <1>1, <1>3, <2>4 DEF ArtifactTypes, Whole
  <2>5. CASE /\ w = NoRecord /\ write[p].pc = "ready"
             /\ \E r \in Records : r.state = "ready" /\ rec' = [rec EXCEPT ![x] = r]
             /\ acked' = acked \cup {x} /\ UNCHANGED files
    BY <1>1, <1>3, <2>5, SomeRecord DEF ArtifactTypes, Whole
  <2> QED  BY <1>4, <2>1, <2>2, <2>3, <2>4, <2>5
<1> HIDE DEF Outcome
<1>7. ArtifactTypes'
  BY <1>1, <1>2, <1>3, <1>5, <1>6 DEF ArtifactTypes, Outcome
<1>8. JobInv'
  BY <1>1, <1>2, <1>6 DEF JobInv, Outcome, Listed
<1>9. WholeInv'
  BY <1>1, <1>2, <1>3, <1>4, <1>5, <1>6 DEF WholeInv, Outcome, Reusable, Whole, WriteAt
<1>10. AloneInv'
  BY <1>1, <1>2, <1>3, <1>4, <1>5, <1>6 DEF AloneInv, Outcome, Reusable, Maintains
<1>11. AckedInv'
  <2>1. ASSUME NEW a \in acked' \ met', a # x
        PROVE  a \in acked \ met /\ rec'[a] = rec[a] /\ a \in Artifacts
    BY <1>1, <1>2, <1>6, <2>1 DEF Outcome, ArtifactTypes
  <2>2. ASSUME x \in acked' \ met'
        PROVE  rec'[x] # NoRecord /\ rec'[x].state = "ready" /\ \A q \in Procs : ~Maintains(q, x)
    BY <1>1, <1>2, <1>3, <1>6, <2>2 DEF Outcome, AloneInv
  <2>3. \A a \in Artifacts, q \in Procs : Maintains(q, a)' <=> Maintains(q, a)  BY <1>2 DEF Maintains
  <2> QED  BY <1>1, <1>2, <1>3, <2>1, <2>2, <2>3 DEF AckedInv, Expired, Listed
<1> QED  BY <1>7, <1>8, <1>9, <1>10, <1>11 DEF ArtifactIInv

-----------------------------------------------------------------------------
\* What the job of a process is, field by field.
LEMMA JobFields ==
    ASSUME ArtifactTypes, NEW p \in Procs, maint[p] # NoRecord
    PROVE  /\ maint[p] \in Jobs /\ Listed(p) \in SUBSET Artifacts /\ maint[p].list \in [Listed(p) -> Records]
           /\ maint[p].a \in Artifacts \cup {NoRecord}
<1>1. maint[p] \in Jobs  BY DEF ArtifactTypes
<1>2. PICK S \in SUBSET Artifacts : maint[p].list \in [S -> Records]  BY <1>1 DEF Jobs, Lists
<1> QED  BY <1>1, <1>2 DEF Listed, Jobs

\* Giving a process another job: its fields, and the jobs of the others.
LEMMA ArtifactJob ==
    ASSUME ArtifactTypes, NEW p \in Procs, NEW m \in Jobs, maint' = [maint EXCEPT ![p] = m]
    PROVE  /\ maint' \in [Procs -> Jobs \cup {NoRecord}]
           /\ maint'[p] = m /\ maint'[p] # NoRecord
           /\ \A q \in Procs \ {p} : maint'[q] = maint[q]
           /\ Listed(p)' = DOMAIN m.list
<1>1. maint \in [Procs -> Jobs \cup {NoRecord}] /\ m # NoRecord  BY SomeRecord DEF ArtifactTypes
<1> QED  BY <1>1 DEF Listed

\* The job of a process with another pc, artifact and list is a job.
LEMMA JobMoves ==
    ASSUME ArtifactTypes, NEW p \in Procs, maint[p] # NoRecord,
           NEW pc \in {"recover", "repair", "reject", "collect", "delete", "remove"},
           NEW y \in Artifacts \cup {NoRecord}, maint' = [maint EXCEPT ![p].pc = pc, ![p].a = y]
    PROVE  /\ maint' \in [Procs -> Jobs \cup {NoRecord}]
           /\ maint'[p] # NoRecord /\ maint'[p].pc = pc /\ maint'[p].list = maint[p].list /\ maint'[p].a = y
           /\ \A q \in Procs \ {p} : maint'[q] = maint[q]
           /\ Listed(p)' = Listed(p)
<1> DEFINE m == [maint[p] EXCEPT !.pc = pc, !.a = y]
<1>1. m \in Jobs /\ m.pc = pc /\ m.list = maint[p].list /\ m.a = y  BY JobFields DEF Jobs
<1>2. maint' = [maint EXCEPT ![p] = m]  BY DEF ArtifactTypes
<1> HIDE DEF m
<1> QED  BY <1>1, <1>2, ArtifactJob DEF Listed

\* A job judges a record it listed: to repair it, its files have to be there.
LEMMA JudgeKeepsArtifacts ==
    ASSUME ArtifactIInv, NEW p \in Procs, NEW b \in Artifacts, Judge(p, b)
    PROVE  ArtifactIInv'
<1>1. ArtifactTypes /\ JobInv /\ WholeInv /\ AloneInv /\ AckedInv  BY DEF ArtifactIInv
<1>2. maint[p] # NoRecord /\ maint[p].pc = "recover" /\ b \in Listed(p)
      /\ UNCHANGED <<rec, files, write, clock, acked, raced, met, spent>>  BY DEF Judge
<1>3. PICK c \in {"repair", "reject"} :
        maint' = [maint EXCEPT ![p].pc = c, ![p].a = b] /\ (c = "repair" => Whole(b))
  BY DEF Judge, Genuine
<1>6. /\ maint' \in [Procs -> Jobs \cup {NoRecord}]
      /\ maint'[p] # NoRecord /\ maint'[p].pc = c /\ maint'[p].list = maint[p].list /\ maint'[p].a = b
      /\ \A q \in Procs \ {p} : maint'[q] = maint[q]
      /\ Listed(p)' = Listed(p)
  BY <1>1, <1>2, <1>3, JobMoves
<1>7. \A a \in Artifacts, q \in Procs : Maintains(q, a)' => Maintains(q, a)
  BY <1>2, <1>6 DEF Maintains, Listed
<1>8. ArtifactTypes'  BY <1>1, <1>2, <1>6 DEF ArtifactTypes
<1>9. JobInv'  BY <1>1, <1>2, <1>3, <1>6 DEF JobInv, Listed
<1>10. WholeInv'  BY <1>1, <1>2, <1>3, <1>6 DEF WholeInv, Reusable, Whole, WriteAt
<1>11. AloneInv'  BY <1>1, <1>2, <1>7 DEF AloneInv, Reusable
<1>12. AckedInv'
  <2>1. \A a \in acked \ met : ~Maintains(p, a)  BY <1>1, <1>2 DEF AckedInv
  <2> QED  BY <1>1, <1>2, <1>6, <1>7, <2>1 DEF AckedInv, ArtifactTypes, Expired, Listed
<1> QED  BY <1>8, <1>9, <1>10, <1>11, <1>12 DEF ArtifactIInv

\* The job of a process without one of the records it listed is a job.
LEMMA DropIsJob ==
    ASSUME ArtifactTypes, NEW p \in Procs, maint[p] # NoRecord, NEW b,
           NEW pc \in {"recover", "repair", "reject", "collect", "delete", "remove"},
           NEW y \in Artifacts \cup {NoRecord},
           maint' = [Drop(p, b) EXCEPT ![p].pc = pc, ![p].a = y]
    PROVE  /\ maint' \in [Procs -> Jobs \cup {NoRecord}]
           /\ maint'[p] # NoRecord /\ maint'[p].pc = pc /\ maint'[p].a = y
           /\ Listed(p)' = Listed(p) \ {b}
           /\ \A a \in Listed(p) \ {b} : maint'[p].list[a] = maint[p].list[a]
           /\ \A q \in Procs \ {p} : maint'[q] = maint[q]
<1> DEFINE f == [a \in Listed(p) \ {b} |-> maint[p].list[a]]
           m == [maint[p] EXCEPT !.list = f]
           n == [m EXCEPT !.pc = pc, !.a = y]
<1>1. maint \in [Procs -> Jobs \cup {NoRecord}]  BY DEF ArtifactTypes
<1>2. f \in Lists /\ DOMAIN f = Listed(p) \ {b}
  <2>1. f \in [Listed(p) \ {b} -> Records]  BY JobFields
  <2> HIDE DEF f
  <2> QED  BY <2>1, JobFields DEF Lists
<1>3. \A a \in Listed(p) \ {b} : f[a] = maint[p].list[a]  OBVIOUS
<1>4. Drop(p, b) = [maint EXCEPT ![p].list = f]  BY DEF Drop
<1> HIDE DEF f
<1>5. m \in Jobs /\ m.list = f  BY <1>2, JobFields DEF Jobs
<1>6. Drop(p, b) = [maint EXCEPT ![p] = m]  BY <1>1, <1>4
<1> HIDE DEF m
<1>7. Drop(p, b)[p] = m /\ DOMAIN Drop(p, b) = Procs  BY <1>1, <1>6
<1>8. n \in Jobs /\ n.pc = pc /\ n.a = y /\ n.list = f  BY <1>5 DEF Jobs
<1>9. maint' = [Drop(p, b) EXCEPT ![p] = n]  BY <1>7
<1> HIDE DEF n
<1>10. maint' = [maint EXCEPT ![p] = n]  BY <1>1, <1>6, <1>9
<1> QED  BY <1>2, <1>3, <1>8, <1>10, ArtifactJob

\* The verdict on an unfinished record, ready or failed: nobody was given it.
LEMMA VerdictKeepsArtifacts ==
    ASSUME ArtifactIInv, NEW p \in Procs, Verdict(p)
    PROVE  ArtifactIInv'
<1> DEFINE x == maint[p].a
<1>1. ArtifactTypes /\ JobInv /\ WholeInv /\ AloneInv /\ AckedInv  BY DEF ArtifactIInv
<1>2. maint[p] # NoRecord /\ maint[p].pc \in {"repair", "reject"}
      /\ UNCHANGED <<files, write, clock, acked, raced, met>>
  BY DEF Verdict
<1>3. x \in Listed(p) /\ x \in Artifacts /\ maint[p].list[x] \in Records  BY <1>1, <1>2, JobFields DEF JobInv
<1>4. Maintains(p, x)  BY <1>2, <1>3 DEF Maintains, Listed
<1>5. PICK r \in Records : /\ rec' = [rec EXCEPT ![x] = r]
                           /\ r.state = "ready" => maint[p].pc = "repair"
  <2>1. CASE maint[p].pc = "repair"
    <3> DEFINE r == [state |-> "ready", episode |-> maint[p].list[x].episode,
                     expiry |-> IF files[x].manifest = NoRecord THEN maint[p].list[x].expiry
                                ELSE files[x].manifest.expiry]
    <3>1. "ready" \in ArtifactStates  BY DEF ArtifactStates
    <3>2. files[x].manifest # NoRecord => files[x].manifest.expiry \in Expiries
      BY <1>1, <1>3 DEF ArtifactTypes, Manifests
    <3>3. r \in Records  BY <1>3, <3>1, <3>2 DEF Records
    <3>4. rec' = [rec EXCEPT ![x] = r]  BY <2>1 DEF Verdict
    <3> QED  BY <2>1, <3>3, <3>4
  <2>2. CASE maint[p].pc = "reject"
    <3> DEFINE r == [maint[p].list[x] EXCEPT !.state = "failed"]
    <3>1. "failed" \in ArtifactStates  BY DEF ArtifactStates
    <3>2. r \in Records /\ r.state = "failed"  BY <1>3, <3>1 DEF Records
    <3>3. rec' = [rec EXCEPT ![x] = r]  BY <2>2 DEF Verdict
    <3> QED  BY <3>2, <3>3
  <2> QED  BY <1>2, <2>1, <2>2
<1>6. /\ maint' \in [Procs -> Jobs \cup {NoRecord}]
      /\ maint'[p] # NoRecord /\ maint'[p].pc = "recover" /\ maint'[p].a = NoRecord
      /\ Listed(p)' = Listed(p) \ {x}
      /\ \A q \in Procs \ {p} : maint'[q] = maint[q]
  <2>1. maint' = [Drop(p, x) EXCEPT ![p].pc = "recover", ![p].a = NoRecord]  BY DEF Verdict
  <2> HIDE DEF x
  <2> QED  BY <1>1, <1>2, <2>1, DropIsJob
<1>7. /\ rec' \in [Artifacts -> Records \cup {NoRecord}] /\ rec'[x] = r /\ r # NoRecord
      /\ \A a \in Artifacts \ {x} : rec'[a] = rec[a]
  BY <1>1, <1>3, <1>5, SomeRecord DEF ArtifactTypes
<1>8. \A a \in Artifacts, q \in Procs : Maintains(q, a)' => Maintains(q, a)
  BY <1>2, <1>6, SomeRecord DEF Maintains, Listed
<1>9. ArtifactTypes'  BY <1>1, <1>2, <1>6, <1>7 DEF ArtifactTypes
<1>10. JobInv'  BY <1>1, <1>6, <1>7 DEF JobInv, Listed
<1>11. WholeInv'  BY <1>1, <1>2, <1>3, <1>5, <1>6, <1>7 DEF WholeInv, Reusable, Whole, WriteAt
<1>12. AloneInv'
  <2>1. ASSUME NEW q \in Procs, write[q] # NoRecord, write[q].a = x PROVE x \in met
    BY <1>1, <1>3, <1>4, <2>1 DEF AloneInv
  <2> QED  BY <1>1, <1>2, <1>7, <1>8, <2>1 DEF AloneInv, Reusable
<1>13. AckedInv'
  <2>1. \A a \in acked \ met : ~Maintains(p, a)  BY <1>1, <1>2 DEF AckedInv
  <2> QED  BY <1>1, <1>2, <1>4, <1>6, <1>7, <1>8, <2>1 DEF AckedInv, ArtifactTypes, Expired, Listed
<1> QED  BY <1>9, <1>10, <1>11, <1>12, <1>13 DEF ArtifactIInv

\* The job that lists some of the records.
LEMMA JobLists ==
    ASSUME ArtifactTypes, NEW p \in Procs, NEW S \in SUBSET Artifacts, \A a \in S : rec[a] # NoRecord,
           NEW pc \in {"recover", "collect"}, maint' = [maint EXCEPT ![p] = Job(pc, S)]
    PROVE  /\ maint' \in [Procs -> Jobs \cup {NoRecord}]
           /\ maint'[p] # NoRecord /\ maint'[p].pc = pc /\ maint'[p].a = NoRecord
           /\ Listed(p)' = S /\ \A a \in S : maint'[p].list[a] = rec[a]
           /\ \A q \in Procs \ {p} : maint'[q] = maint[q]
<1> DEFINE f == [a \in S |-> rec[a]]
           m == [pc |-> pc, list |-> f, a |-> NoRecord]
<1>1. f \in [S -> Records]  BY DEF ArtifactTypes
<1>2. DOMAIN f = S /\ \A a \in S : f[a] = rec[a]  OBVIOUS
<1>3. maint' = [maint EXCEPT ![p] = m]  BY DEF Job
<1> HIDE DEF f
<1>4. f \in Lists  BY <1>1 DEF Lists
<1>5. m \in Jobs /\ m.list = f /\ m.pc = pc /\ m.a = NoRecord  BY <1>4 DEF Jobs
<1> HIDE DEF m
<1> QED  BY <1>2, <1>3, <1>5, ArtifactJob

\* A job starts with the unfinished records: one that is being written meets it.
LEMMA StartKeepsArtifacts ==
    ASSUME ArtifactIInv, NEW p \in Procs, MaintStart(p)
    PROVE  ArtifactIInv'
<1>1. ArtifactTypes /\ JobInv /\ WholeInv /\ AloneInv /\ AckedInv  BY DEF ArtifactIInv
<1>2. maint[p] = NoRecord /\ maint' = [maint EXCEPT ![p] = Job("recover", Unfinished)]
      /\ met' = met \cup {a \in Unfinished : Writing(a)} /\ UNCHANGED <<rec, files, write, clock, acked, raced>>
  BY DEF MaintStart
<1>3. Unfinished \in SUBSET Artifacts /\ \A a \in Unfinished : rec[a] # NoRecord  BY DEF Unfinished
<1>4. /\ maint' \in [Procs -> Jobs \cup {NoRecord}]
      /\ maint'[p] # NoRecord /\ maint'[p].pc = "recover" /\ maint'[p].a = NoRecord
      /\ Listed(p)' = Unfinished
      /\ \A q \in Procs \ {p} : maint'[q] = maint[q]
  BY <1>1, <1>2, <1>3, JobLists
<1>5. \A a \in Artifacts : /\ Maintains(p, a)' => a \in Unfinished
                           /\ \A q \in Procs \ {p} : Maintains(q, a)' => Maintains(q, a)
  BY <1>4, SomeRecord DEF Maintains, Listed
<1>6. ArtifactTypes'  BY <1>1, <1>2, <1>4 DEF ArtifactTypes
<1>7. JobInv'  BY <1>1, <1>2, <1>4 DEF JobInv, Listed
<1>8. WholeInv'  BY <1>1, <1>2, <1>4 DEF WholeInv, Reusable, Whole, WriteAt
<1>9. AloneInv'  BY <1>1, <1>2, <1>5 DEF AloneInv, Reusable, Writing
<1>10. AckedInv'
  <2>1. \A a \in acked \ met : a \notin Unfinished  BY <1>1 DEF AckedInv, Unfinished
  <2> QED  BY <1>1, <1>2, <1>4, <1>5, <2>1 DEF AckedInv, ArtifactTypes, Expired, Listed
<1> QED  BY <1>6, <1>7, <1>8, <1>9, <1>10 DEF ArtifactIInv

\* ... and goes on with the ready records past their expiry.
LEMMA CollectKeepsArtifacts ==
    ASSUME ArtifactIInv, NEW p \in Procs, MaintCollect(p)
    PROVE  ArtifactIInv'
<1>1. ArtifactTypes /\ JobInv /\ WholeInv /\ AloneInv /\ AckedInv  BY DEF ArtifactIInv
<1>2. maint' = [maint EXCEPT ![p] = Job("collect", Collectable)]
      /\ UNCHANGED <<rec, files, write, clock, acked, raced, met>>
  BY DEF MaintCollect
<1>3. Collectable \in SUBSET Artifacts /\ \A a \in Collectable : rec[a] # NoRecord
  BY DEF Collectable, Reusable
<1>4. /\ maint' \in [Procs -> Jobs \cup {NoRecord}]
      /\ maint'[p] # NoRecord /\ maint'[p].pc = "collect" /\ maint'[p].a = NoRecord
      /\ Listed(p)' = Collectable /\ \A a \in Collectable : maint'[p].list[a] = rec[a]
      /\ \A q \in Procs \ {p} : maint'[q] = maint[q]
  BY <1>1, <1>2, <1>3, JobLists
<1>5. \A a \in Artifacts : /\ Maintains(p, a)' => a \in Collectable
                           /\ \A q \in Procs \ {p} : Maintains(q, a)' => Maintains(q, a)
  BY <1>4, SomeRecord DEF Maintains, Listed
<1>6. \A a \in Collectable : Reusable(a) /\ Expired(rec[a])  BY DEF Collectable
<1>7. ArtifactTypes'  BY <1>1, <1>2, <1>4 DEF ArtifactTypes
<1>8. JobInv'  BY <1>1, <1>2, <1>4 DEF JobInv, Listed
<1>9. WholeInv'  BY <1>1, <1>2, <1>4 DEF WholeInv, Reusable, Whole, WriteAt
<1>10. AloneInv'  BY <1>1, <1>2, <1>5, <1>6 DEF AloneInv, Reusable
<1>11. AckedInv'
  BY <1>1, <1>2, <1>4, <1>5, <1>6 DEF AckedInv, ArtifactTypes, Expired, Listed
<1> QED  BY <1>7, <1>8, <1>9, <1>10, <1>11 DEF ArtifactIInv

\* A record past its expiry is written back as expired.
LEMMA ExpireKeepsArtifacts ==
    ASSUME ArtifactIInv, NEW p \in Procs, NEW x \in Artifacts, ExpireArtifact(p, x)
    PROVE  ArtifactIInv'
<1>1. ArtifactTypes /\ JobInv /\ WholeInv /\ AloneInv /\ AckedInv  BY DEF ArtifactIInv
<1>2. maint[p] # NoRecord /\ maint[p].pc = "collect" /\ x \in Listed(p) /\ UNCHANGED <<files, write, clock, acked, met>>
      /\ raced \subseteq raced' /\ raced' \subseteq raced \cup {x}
  BY DEF ExpireArtifact
<1>3. maint[p].list[x] \in Records  BY <1>1, <1>2, JobFields
<1>4. Maintains(p, x)  BY <1>2 DEF Maintains, Listed
<1>5. PICK r \in Records : rec' = [rec EXCEPT ![x] = r] /\ r.state = "expired" /\ r.expiry = maint[p].list[x].expiry
  <2> DEFINE r == [maint[p].list[x] EXCEPT !.state = "expired"]
  <2>1. "expired" \in ArtifactStates  BY DEF ArtifactStates
  <2>2. r \in Records /\ r.state = "expired" /\ r.expiry = maint[p].list[x].expiry  BY <1>3, <2>1 DEF Records
  <2>3. rec' = [rec EXCEPT ![x] = r]  BY DEF ExpireArtifact
  <2> QED  BY <2>2, <2>3
<1>6. /\ maint' \in [Procs -> Jobs \cup {NoRecord}]
      /\ maint'[p] # NoRecord /\ maint'[p].pc = "delete" /\ maint'[p].a = x
      /\ Listed(p)' = Listed(p) \ {x}
      /\ \A a \in Listed(p) \ {x} : maint'[p].list[a] = maint[p].list[a]
      /\ \A q \in Procs \ {p} : maint'[q] = maint[q]
  BY <1>1, <1>2, DropIsJob DEF ExpireArtifact
<1>7. /\ rec' \in [Artifacts -> Records \cup {NoRecord}] /\ rec'[x] = r /\ r # NoRecord
      /\ \A a \in Artifacts \ {x} : rec'[a] = rec[a]
  BY <1>1, <1>5, SomeRecord DEF ArtifactTypes
<1>8. \A a \in Artifacts, q \in Procs : Maintains(q, a)' => Maintains(q, a)
  BY <1>2, <1>4, <1>6 DEF Maintains, Listed
<1>9. ArtifactTypes'  BY <1>1, <1>2, <1>6, <1>7 DEF ArtifactTypes
<1>10. JobInv'  BY <1>1, <1>6, <1>7 DEF JobInv, Listed
<1>11. WholeInv'  BY <1>1, <1>2, <1>5, <1>6, <1>7 DEF WholeInv, Reusable, Whole, WriteAt
<1>12. AloneInv'  BY <1>1, <1>2, <1>5, <1>7, <1>8 DEF AloneInv, Reusable
<1>13. AckedInv'
  <2>1. x \in acked \ met => Expired(maint[p].list[x])  BY <1>1, <1>2, <1>4 DEF AckedInv
  <2>2. x \in acked \ met => Expired(r)  BY <1>5, <2>1 DEF Expired
  <2>3. ASSUME NEW a \in acked' \ met'
        PROVE  /\ rec'[a] # NoRecord
               /\ rec'[a].state = "ready" \/ (Expired(rec[a])' /\ rec'[a].state \in {"expired", "deleted"})
               /\ a = x => Expired(rec[a])'
    BY <1>1, <1>2, <1>5, <1>7, <2>2, <2>3 DEF AckedInv, ArtifactTypes, Expired
  <2>4. ASSUME NEW a \in acked' \ met', NEW q \in Procs, Maintains(q, a)'
        PROVE  /\ maint'[q].pc \in {"collect", "delete", "remove"}
               /\ a \in Listed(q)' => Expired(maint[q].list[a])'
               /\ maint'[q].pc = "delete" /\ maint'[q].a = a => Expired(rec[a])'
    <3>1. Maintains(q, a) /\ a \in acked \ met /\ a \in Artifacts  BY <1>1, <1>2, <1>8, <2>4 DEF ArtifactTypes
    <3>2. /\ maint[q].pc \in {"collect", "delete", "remove"}
          /\ a \in Listed(q) => Expired(maint[q].list[a])
          /\ maint[q].pc = "delete" /\ maint[q].a = a => Expired(rec[a])
      BY <1>1, <3>1 DEF AckedInv
    <3>3. CASE q = p  BY <1>2, <1>6, <2>3, <2>4, <3>1, <3>2, <3>3 DEF Expired, Listed
    <3>4. CASE q # p  BY <1>2, <1>6, <1>7, <2>3, <3>1, <3>2, <3>4 DEF Expired, Listed
    <3> QED  BY <3>3, <3>4
  <2> QED  BY <2>3, <2>4 DEF AckedInv
<1> QED  BY <1>9, <1>10, <1>11, <1>12, <1>13 DEF ArtifactIInv

\* ... then marked as deleted.
LEMMA DeleteKeepsArtifacts ==
    ASSUME ArtifactIInv, NEW p \in Procs, DeleteArtifact(p)
    PROVE  ArtifactIInv'
<1> DEFINE x == maint[p].a
<1>1. ArtifactTypes /\ JobInv /\ WholeInv /\ AloneInv /\ AckedInv  BY DEF ArtifactIInv
<1>2. maint[p] # NoRecord /\ maint[p].pc = "delete" /\ UNCHANGED <<files, write, clock, acked, met>>
      /\ raced \subseteq raced' /\ raced' \subseteq raced \cup {x}
  BY DEF DeleteArtifact
<1>3. x \in Artifacts /\ rec[x] # NoRecord /\ rec[x] \in Records  BY <1>1, <1>2 DEF JobInv, ArtifactTypes
<1>4. Maintains(p, x)  BY <1>2 DEF Maintains
<1>5. PICK r \in Records : rec' = [rec EXCEPT ![x] = r] /\ r.state = "deleted" /\ r.expiry = rec[x].expiry
  <2> DEFINE r == [rec[x] EXCEPT !.state = "deleted"]
  <2>1. "deleted" \in ArtifactStates  BY DEF ArtifactStates
  <2>2. r \in Records /\ r.state = "deleted" /\ r.expiry = rec[x].expiry  BY <1>3, <2>1 DEF Records
  <2>3. rec' = [rec EXCEPT ![x] = r]  BY <1>1, <1>3 DEF DeleteArtifact, ArtifactTypes
  <2> QED  BY <2>2, <2>3
<1>6. /\ maint' \in [Procs -> Jobs \cup {NoRecord}]
      /\ maint'[p] # NoRecord /\ maint'[p].pc = "remove" /\ maint'[p].a = x /\ maint'[p].list = maint[p].list
      /\ \A q \in Procs \ {p} : maint'[q] = maint[q]
  <2> DEFINE m == [maint[p] EXCEPT !.pc = "remove"]
  <2>1. m \in Jobs /\ m.pc = "remove" /\ m.list = maint[p].list /\ m.a = x  BY <1>1, <1>2, JobFields DEF Jobs
  <2>2. maint' = [maint EXCEPT ![p] = m]  BY <1>1 DEF DeleteArtifact, ArtifactTypes
  <2> HIDE DEF m
  <2> QED  BY <1>1, <2>1, <2>2, ArtifactJob
<1>7. /\ rec' \in [Artifacts -> Records \cup {NoRecord}] /\ rec'[x] = r /\ r # NoRecord
      /\ \A a \in Artifacts \ {x} : rec'[a] = rec[a]
  BY <1>1, <1>3, <1>5, SomeRecord DEF ArtifactTypes
<1>8. \A a \in Artifacts, q \in Procs : Maintains(q, a)' => Maintains(q, a)
  BY <1>2, <1>4, <1>6 DEF Maintains
<1>9. ArtifactTypes'  BY <1>1, <1>2, <1>3, <1>6, <1>7 DEF ArtifactTypes
<1>10. JobInv'  BY <1>1, <1>3, <1>6, <1>7 DEF JobInv, Listed
<1>11. WholeInv'  BY <1>1, <1>2, <1>3, <1>5, <1>6, <1>7 DEF WholeInv, Reusable, Whole, WriteAt
<1>12. AloneInv'  BY <1>1, <1>2, <1>5, <1>7, <1>8 DEF AloneInv, Reusable
<1>13. AckedInv'
  <2>1. x \in acked \ met => Expired(rec[x])  BY <1>1, <1>2, <1>4 DEF AckedInv
  <2>2. x \in acked \ met => Expired(r)  BY <1>5, <2>1 DEF Expired
  <2>3. ASSUME NEW a \in acked' \ met'
        PROVE  /\ rec'[a] # NoRecord
               /\ rec'[a].state = "ready" \/ (Expired(rec[a])' /\ rec'[a].state \in {"expired", "deleted"})
               /\ a = x => Expired(rec[a])'
    BY <1>1, <1>2, <1>5, <1>7, <2>2, <2>3 DEF AckedInv, ArtifactTypes, Expired
  <2>4. ASSUME NEW a \in acked' \ met', NEW q \in Procs, Maintains(q, a)'
        PROVE  /\ maint'[q].pc \in {"collect", "delete", "remove"}
               /\ a \in Listed(q)' => Expired(maint[q].list[a])'
               /\ maint'[q].pc = "delete" /\ maint'[q].a = a => Expired(rec[a])'
    <3>1. Maintains(q, a) /\ a \in acked \ met /\ a \in Artifacts  BY <1>1, <1>2, <1>8, <2>4 DEF ArtifactTypes
    <3>2. /\ maint[q].pc \in {"collect", "delete", "remove"}
          /\ a \in Listed(q) => Expired(maint[q].list[a])
          /\ maint[q].pc = "delete" /\ maint[q].a = a => Expired(rec[a])
      BY <1>1, <3>1 DEF AckedInv
    <3>3. CASE q = p  BY <1>2, <1>6, <3>1, <3>2, <3>3 DEF Expired, Listed
    <3>4. CASE q # p  BY <1>2, <1>6, <1>7, <2>3, <3>1, <3>2, <3>4 DEF Expired, Listed
    <3> QED  BY <3>3, <3>4
  <2> QED  BY <2>3, <2>4 DEF AckedInv
<1> QED  BY <1>9, <1>10, <1>11, <1>12, <1>13 DEF ArtifactIInv

\* ... and its directory is removed: who would publish it by then has met it.
LEMMA RemoveKeepsArtifacts ==
    ASSUME ArtifactIInv, NEW p \in Procs, RemoveFiles(p)
    PROVE  ArtifactIInv'
<1>1. ArtifactTypes /\ JobInv /\ WholeInv /\ AloneInv /\ AckedInv  BY DEF ArtifactIInv
<1>2. PICK x \in Artifacts : x = maint[p].a  BY <1>1 DEF JobInv, RemoveFiles
<1>3. maint[p] # NoRecord /\ maint[p].pc = "remove" /\ UNCHANGED <<rec, write, clock, acked, met>>
      /\ raced \subseteq raced' /\ raced' \subseteq raced \cup {x}
      /\ (x \notin raced' => ~Meets(p, x) /\ ~Reusable(x))
      /\ files' = [files EXCEPT ![x] = NoFiles]
      /\ maint' = [maint EXCEPT ![p].pc = "collect", ![p].a = NoRecord]
  BY <1>2 DEF RemoveFiles
<1>4. /\ maint' \in [Procs -> Jobs \cup {NoRecord}]
      /\ maint'[p] # NoRecord /\ maint'[p].pc = "collect" /\ maint'[p].a = NoRecord /\ maint'[p].list = maint[p].list
      /\ \A q \in Procs \ {p} : maint'[q] = maint[q]
  BY <1>1, <1>2, <1>3, JobMoves
<1>5. /\ files' \in [Artifacts -> [chunks : BOOLEAN, manifest : Manifests \cup {NoRecord}]]
      /\ \A a \in Artifacts \ {x} : files'[a] = files[a]
  BY <1>1, <1>2, <1>3 DEF ArtifactTypes, NoFiles
<1>6. \A a \in Artifacts, q \in Procs : Maintains(q, a)' => Maintains(q, a)
  BY <1>2, <1>3, <1>4, SomeRecord DEF Maintains
<1>7. ArtifactTypes'  BY <1>1, <1>2, <1>3, <1>4, <1>5 DEF ArtifactTypes
<1>8. JobInv'  BY <1>1, <1>2, <1>3, <1>4 DEF JobInv, Listed
<1>9. WholeInv'
  <2>1. ASSUME NEW a \in Artifacts \ raced', a # x
        PROVE  /\ Reusable(a)' => Whole(a)'
               /\ \A q \in Procs : /\ WriteAt(q, "ready")' /\ write'[q].a = a => Whole(a)'
                                   /\ maint'[q] # NoRecord /\ maint'[q].pc = "repair" /\ maint'[q].a = a => Whole(a)'
    BY <1>1, <1>2, <1>3, <1>4, <1>5, <2>1 DEF WholeInv, Reusable, Whole, WriteAt
  <2>2. ASSUME x \notin raced'
        PROVE  /\ ~Reusable(x)'
               /\ \A q \in Procs : /\ ~(WriteAt(q, "ready")' /\ write'[q].a = x)
                                   /\ ~(maint'[q] # NoRecord /\ maint'[q].pc = "repair" /\ maint'[q].a = x)
    BY <1>2, <1>3, <1>4, <2>2 DEF Reusable, WriteAt, Meets, Writing, Maintains
  <2> QED  BY <2>1, <2>2 DEF WholeInv
<1>10. AloneInv'  BY <1>1, <1>2, <1>3, <1>6 DEF AloneInv, Reusable
<1>11. AckedInv'  BY <1>1, <1>2, <1>3, <1>4, <1>6 DEF AckedInv, ArtifactTypes, Expired, Listed
<1> QED  BY <1>7, <1>8, <1>9, <1>10, <1>11 DEF ArtifactIInv

\* A job that ends and a process that dies leave the rest as it is.
LEMMA EndKeepsArtifacts ==
    ASSUME ArtifactIInv, NEW p \in Procs, MaintEnd(p) \/ Dies(p)
    PROVE  ArtifactIInv'
<1>1. ArtifactTypes /\ JobInv /\ WholeInv /\ AloneInv /\ AckedInv  BY DEF ArtifactIInv
<1>2. /\ maint' = [maint EXCEPT ![p] = NoRecord]
      /\ write' = write \/ write' = [write EXCEPT ![p] = NoRecord]
      /\ UNCHANGED <<rec, files, clock, acked, raced, met>>
  BY DEF MaintEnd, Dies
<1>3. /\ maint' \in [Procs -> Jobs \cup {NoRecord}] /\ write' \in [Procs -> Writes \cup {NoRecord}]
      /\ \A q \in Procs : /\ maint'[q] # NoRecord => maint'[q] = maint[q]
                          /\ write'[q] # NoRecord => write'[q] = write[q]
  BY <1>1, <1>2 DEF ArtifactTypes
<1>4. \A a \in Artifacts, q \in Procs : Maintains(q, a)' => Maintains(q, a)  BY <1>3 DEF Maintains
<1>5. ArtifactTypes'  BY <1>1, <1>2, <1>3 DEF ArtifactTypes
<1>6. JobInv'  BY <1>1, <1>2, <1>3 DEF JobInv, Listed
<1>7. WholeInv'  BY <1>1, <1>2, <1>3 DEF WholeInv, Reusable, Whole, WriteAt
<1>8. AloneInv'  BY <1>1, <1>2, <1>3, <1>4 DEF AloneInv, Reusable
<1>9. AckedInv'
  <2>1. \A q \in Procs, a \in Artifacts : Maintains(q, a)' => maint'[q] = maint[q]  BY <1>3 DEF Maintains
  <2> QED  BY <1>1, <1>2, <1>4, <2>1 DEF AckedInv, ArtifactTypes, Expired, Listed
<1> QED  BY <1>5, <1>6, <1>7, <1>8, <1>9 DEF ArtifactIInv

\* What was past its expiry stays past it.
LEMMA TimeKeepsArtifacts ==
    ASSUME ArtifactIInv, TimePasses
    PROVE  ArtifactIInv'
<1>1. ArtifactTypes /\ JobInv /\ WholeInv /\ AloneInv /\ AckedInv  BY DEF ArtifactIInv
<1>2. clock' \in {0, 1} /\ clock = 0 /\ clock' = 1 /\ UNCHANGED <<rec, files, write, maint, acked, raced, met>>
  BY DEF TimePasses
<1>3. ASSUME NEW r \in Records, Expired(r) PROVE Expired(r)'
  BY <1>2, <1>3 DEF Expired, Records, Expiries, Never
<1>4. ArtifactTypes'  BY <1>1, <1>2 DEF ArtifactTypes
<1>5. JobInv'  BY <1>1, <1>2 DEF JobInv, Listed
<1>6. WholeInv'  BY <1>1, <1>2 DEF WholeInv, Reusable, Whole, WriteAt
<1>7. AloneInv'  BY <1>1, <1>2 DEF AloneInv, Reusable, Maintains
<1>8. AckedInv'
  <2>1. \A a \in Artifacts : rec[a] # NoRecord /\ Expired(rec[a]) => Expired(rec[a])'
    BY <1>1, <1>2, <1>3 DEF ArtifactTypes, Expired
  <2>2. \A q \in Procs, a \in Artifacts : maint[q] # NoRecord /\ a \in Listed(q) /\ Expired(maint[q].list[a]) =>
                                           Expired(maint[q].list[a])'
    <3> SUFFICES ASSUME NEW q \in Procs, NEW a \in Artifacts, maint[q] # NoRecord, a \in Listed(q), Expired(maint[q].list[a])
                 PROVE  Expired(maint[q].list[a])'
      OBVIOUS
    <3>1. maint[q].list[a] \in Records  BY <1>1, JobFields
    <3> QED  BY <1>2, <1>3, <3>1 DEF Expired
  <2>3. \A q \in Procs, a \in Artifacts : Maintains(q, a)' = Maintains(q, a) /\ Listed(q)' = Listed(q)
    BY <1>2 DEF Maintains, Listed
  <2>4. \A q \in Procs, a \in Artifacts : Maintains(q, a) => maint[q] # NoRecord  BY DEF Maintains
  <2> QED  BY <1>1, <1>2, <2>1, <2>2, <2>3, <2>4 DEF AckedInv, ArtifactTypes
<1> QED  BY <1>4, <1>5, <1>6, <1>7, <1>8 DEF ArtifactIInv

\* A new write has its artifact for itself, or has met somebody.
LEMMA CallKeepsArtifacts ==
    ASSUME ArtifactIInv, NEW p \in Procs, NEW x \in Artifacts, WriteCall(p, x)
    PROVE  ArtifactIInv'
<1>1. ArtifactTypes /\ JobInv /\ WholeInv /\ AloneInv /\ AckedInv  BY DEF ArtifactIInv
<1>2. write[p] = NoRecord /\ UNCHANGED <<rec, files, maint, clock, raced>>
      /\ met \subseteq met' /\ (x \notin met' => ~Writing(x) /\ \A q \in Procs : ~Maintains(q, x))
  BY DEF WriteCall
<1>3. \A a \in Artifacts, q \in Procs : Maintains(q, a)' <=> Maintains(q, a)  BY <1>2 DEF Maintains
<1>4. CASE Reusable(x) /\ acked' = acked \cup {x} /\ UNCHANGED write
  <2>1. ArtifactTypes'  BY <1>1, <1>2, <1>4 DEF ArtifactTypes
  <2>2. JobInv'  BY <1>1, <1>2 DEF JobInv, Listed
  <2>3. WholeInv'  BY <1>1, <1>2, <1>4 DEF WholeInv, Reusable, Whole, WriteAt
  <2>4. AloneInv'  BY <1>1, <1>2, <1>3, <1>4 DEF AloneInv, Reusable, Writing
  <2>5. AckedInv'
    BY <1>1, <1>2, <1>3, <1>4 DEF AckedInv, ArtifactTypes, Expired, Listed, Reusable
  <2> QED  BY <2>1, <2>2, <2>3, <2>4, <2>5 DEF ArtifactIInv
<1>5. ASSUME NEW w \in Writes, w.a = x, w.pc = "pending", write' = [write EXCEPT ![p] = w],
             ~Reusable(x), acked' = acked \ {x}
      PROVE  ArtifactIInv'
  <2>0. /\ write' \in [Procs -> Writes \cup {NoRecord}] /\ write'[p] = w
        /\ \A q \in Procs \ {p} : write'[q] = write[q]
    BY <1>1, <1>5 DEF ArtifactTypes
  <2>1. ArtifactTypes'  BY <1>1, <1>2, <1>5, <2>0 DEF ArtifactTypes
  <2>2. JobInv'  BY <1>1, <1>2 DEF JobInv, Listed
  <2>3. WholeInv'  BY <1>1, <1>2, <1>5, <2>0 DEF WholeInv, Reusable, Whole, WriteAt
  <2>4. AloneInv'  BY <1>1, <1>2, <1>3, <1>5, <2>0 DEF AloneInv, Reusable, Writing
  <2>5. AckedInv'
    BY <1>1, <1>2, <1>3, <1>5 DEF AckedInv, ArtifactTypes, Expired, Listed
  <2> QED  BY <2>1, <2>2, <2>3, <2>4, <2>5 DEF ArtifactIInv
<1>6. ExpiryOf("kept") \in Expiries /\ \A life \in Lifetimes : ExpiryOf(life) \in Expiries
  BY <1>1 DEF ExpiryOf, Expiries, Never, ArtifactTypes
<1>7. CASE ~Reusable(x)
  <2>1. PICK e \in Episodes, life \in Lifetimes :
           /\ write' = [write EXCEPT ![p] = [a |-> x, pc |-> "pending", episode |-> e, expiry |-> ExpiryOf(life)]]
           /\ acked' = acked \ {x}
    BY <1>7 DEF WriteCall
  <2>2. [a |-> x, pc |-> "pending", episode |-> e, expiry |-> ExpiryOf(life)] \in Writes
    BY <1>6 DEF Writes
  <2> QED  BY <1>5, <1>7, <2>1, <2>2
<1>8. CASE Reusable(x)  BY <1>4, <1>8 DEF WriteCall
<1> QED  BY <1>7, <1>8

-----------------------------------------------------------------------------
\* An artifact that says ready has all its files, and what was given out as
\* ready stays so until its expiry, whatever dies, fails or is recovered
\* (memory/src/evidence.ts 238-357, 663-743).
THEOREM ArtifactsAlwaysHold == ArtifactSpec => []ArtifactsHold
<1>1. ArtifactInit => ArtifactIInv
  <2> SUFFICES ASSUME ArtifactInit PROVE ArtifactIInv  OBVIOUS
  <2> QED
    BY DEF ArtifactInit, ArtifactIInv, ArtifactTypes, JobInv, WholeInv, AloneInv, AckedInv, NoFiles, Reusable, WriteAt
<1>2. ArtifactIInv /\ [ArtifactNext]_artifactVars => ArtifactIInv'
  <2> SUFFICES ASSUME ArtifactIInv, [ArtifactNext]_artifactVars PROVE ArtifactIInv'  OBVIOUS
  <2>1. CASE UNCHANGED artifactVars
    BY <2>1 DEF artifactVars, ArtifactIInv, ArtifactTypes, JobInv, WholeInv, AloneInv, AckedInv, Reusable, Whole, WriteAt,
       Maintains, Listed, Expired
  <2>2. CASE TimePasses  BY <2>2, TimeKeepsArtifacts
  <2>3. ASSUME NEW p \in Procs,
               (\E a \in Artifacts : WriteCall(p, a)) \/ WriteStep(p) \/ MaintStart(p) \/ MaintStep(p) \/ Dies(p)
        PROVE  ArtifactIInv'
    <3>1. CASE \E a \in Artifacts : WriteCall(p, a)  BY <3>1, CallKeepsArtifacts
    <3>2. CASE WriteStep(p)  BY <3>2, WriteKeepsArtifacts
    <3>3. CASE MaintStart(p)  BY <3>3, StartKeepsArtifacts
    <3>4. CASE \E a \in Artifacts : Judge(p, a) \/ ExpireArtifact(p, a)
      BY <3>4, JudgeKeepsArtifacts, ExpireKeepsArtifacts
    <3>5. CASE Verdict(p)  BY <3>5, VerdictKeepsArtifacts
    <3>6. CASE MaintCollect(p)  BY <3>6, CollectKeepsArtifacts
    <3>7. CASE DeleteArtifact(p)  BY <3>7, DeleteKeepsArtifacts
    <3>8. CASE RemoveFiles(p)  BY <3>8, RemoveKeepsArtifacts
    <3>9. CASE MaintEnd(p) \/ Dies(p)  BY <3>9, EndKeepsArtifacts
    <3> QED  BY <2>3, <3>1, <3>2, <3>3, <3>4, <3>5, <3>6, <3>7, <3>8, <3>9 DEF MaintStep
  <2> QED  BY <2>1, <2>2, <2>3 DEF ArtifactNext
<1>3. ArtifactIInv => ArtifactsHold
  <2> SUFFICES ASSUME ArtifactIInv PROVE ArtifactsHold  OBVIOUS
  <2>1. ArtifactTypeOK  BY DEF ArtifactIInv, ArtifactTypes, ArtifactTypeOK, Writes
  <2>2. ReadyIsWhole  BY DEF ArtifactIInv, WholeInv, ReadyIsWhole
  <2>3. PublishedStays  BY DEF ArtifactIInv, ArtifactTypes, AckedInv, PublishedStays, Reusable
  <2> QED  BY <2>1, <2>2, <2>3 DEF ArtifactsHold
<1> QED  BY <1>1, <1>2, <1>3, PTL DEF ArtifactSpec
================================================================================
