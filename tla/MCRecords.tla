------------------------------- MODULE MCRecords -------------------------------
(***************************************************************************)
(* What is kept of documents, memories and artifacts, side by side: the       *)
(* ingest of a file (KnowledgeIngest), the memories of a namespace            *)
(* (MemoryCommit), the candidates for them (MemoryCandidates) and the recall  *)
(* of what has just been said (PendingRecall), the life of artifacts          *)
(* (ArtifactStore) and the reading of their bytes (ArtifactRange).            *)
(* They share no variable: part, chosen at the start, says which one runs.    *)
(***************************************************************************)
EXTENDS KnowledgeIngest, MemoryCandidates, MemoryCommit, ArtifactStore, TLC

CONSTANTS v1, v2, v3, c1, c2, c3
\* Three versions of a file: the first two share a chunk, the third cannot be parsed.
MCChunksOf == (v1 :> {c1, c2}) @@ (v2 :> {c2, c3}) @@ (v3 :> {})
\* Every step of an ingest, and a removal before its first write.
CutBeforeRemoval == IngestPc \cup {"removeFind", "removeChunks"}

CONSTANTS p1, p2
VARIABLE part
\* The contents of two stored memories.
MCStored == <<"x", "y">>

CONSTANTS a1, e1, e2

VARIABLES text, bytes, chunks, length, at, pages
Reading == INSTANCE ArtifactRange
    WITH MaxChars <- 4, ChunkSizes <- {3, 4, 5}, Lengths <- {1, 2, 3, 4}, Carry <- 2

CONSTANTS i1, i2
\* A proposal with its evidence: said by the user, done by the user, or seen in an episode.
Proposal(id, from, session, wording, hint, ceiling) ==
    [id |-> id, source |-> from, session |-> session, wording |-> wording,
     preference |-> TRUE, firstPerson |-> TRUE, entailed |-> TRUE, ours |-> TRUE,
     strong |-> from # "user_statement", verified |-> from = "episode_consolidation",
     hint |-> hint, ceiling |-> ceiling]
MCProposals ==
    { Proposal(1, "user_statement", 1, "x", "user", "user"),
      Proposal(2, "user_statement", 1, "y", "user", "user"),
      Proposal(3, "user_statement", 2, "y", "user", "user"),
      Proposal(4, "user_commitment", 1, "x", "project", "repository"),
      Proposal(5, "episode_consolidation", 1, "x", "user", "repository"),
      [Proposal(6, "episode_consolidation", 1, "x", "user", "repository") EXCEPT !.verified = FALSE],
      [Proposal(7, "user_statement", 2, "x", "user", "user") EXCEPT !.firstPerson = FALSE] }
VARIABLES limit, compared, standing, learning, listing, said, overlay, callbacks, today, ask, asked,
          restarts, seen, owed, crowded
Pending == INSTANCE PendingRecall
    WITH N <- 2, Graphs <- {<<{0}, {1}>>, <<{}, {1}>>}, Questions <- {{1}, {1, 2}},
        ListLimits <- {1, 2}, MaxEntries <- 1, AskLimit <- 1, EventLimit <- 1,
        candidates <- compared, status <- standing, work <- learning, day <- today

pendingVars == <<limit, compared, standing, learning, listing, said, overlay, callbacks, today, ask, asked,
                 restarts, seen, owed, crowded>>
readingVars == <<text, bytes, chunks, length, at, pages>>
all == <<part, vars, memoryVars, artifactVars, readingVars, candidateVars, pendingVars>>

Start == /\ part \in {"documents", "memories", "artifacts", "reading", "candidates", "pending"}
         /\ Init /\ MemoryInit /\ ArtifactInit /\ CandidateInit /\ Pending!Init
         /\ part # "documents" => file = v1
         /\ part # "candidates" => auto
         /\ part # "pending" => limit = 1 /\ compared = <<{}, {1}>>
         /\ IF part = "reading" THEN Reading!Init
            ELSE text = <<>> /\ bytes = <<>> /\ chunks = <<>> /\ length = 1 /\ at = 0 /\ pages = <<>>
Run == \/ /\ part = "documents" /\ Next
          /\ UNCHANGED <<part, memoryVars, artifactVars, readingVars, candidateVars, pendingVars>>
       \/ /\ part = "memories" /\ MemoryNext
          /\ UNCHANGED <<part, vars, artifactVars, readingVars, candidateVars, pendingVars>>
       \/ /\ part = "artifacts" /\ ArtifactNext
          /\ UNCHANGED <<part, vars, memoryVars, readingVars, candidateVars, pendingVars>>
       \/ /\ part = "reading" /\ Reading!NextPage
          /\ UNCHANGED <<part, vars, memoryVars, artifactVars, candidateVars, pendingVars>>
       \/ /\ part = "candidates" /\ CandidateNext
          /\ UNCHANGED <<part, vars, memoryVars, artifactVars, readingVars, pendingVars>>
       \/ /\ part = "pending" /\ Pending!Next
          /\ UNCHANGED <<part, vars, memoryVars, artifactVars, readingVars, candidateVars>>

Parts == Start /\ [][Run]_all /\ MemoryFairness

\* ArtifactRange and PendingRecall: what is read of an artifact is the range that was asked
\* for, and what is searched for is found in whatever chunks it lies; until its learning
\* ends, what was said is recalled first, and no longer.
ReadingIsTrue == /\ part = "reading" => Reading!RangeIsExact /\ Reading!PhraseIsFound
                 /\ Pending!TypeOK /\ Pending!ReadYourWrites /\ Pending!NothingInvented
                 /\ Pending!StorageTruth
                 /\ part = "pending" => Pending!ChainsShowTheirEnd
\* ArtifactRange, and docs/architecture.md 68-69: "a scope-checked UTF-8-safe byte
\* range", so no page begins or ends inside a character.
PagesAreWholeCharacters == Reading!PagesAreWholeCharacters
=============================================================================
