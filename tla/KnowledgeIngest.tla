-------------------------- MODULE KnowledgeIngest --------------------------
(***************************************************************************)
(* #ingestOne and remove of knowledge/src/service.ts for one document.     *)
(*                                                                         *)
(* The store has no transactions: an ingest is eight calls of the store,   *)
(* one step each here, and a failure (of the embedding provider, of the    *)
(* store, or of the process) may come before any of them.  What a call     *)
(* read is kept in the local state of its worker.                          *)
(*                                                                         *)
(* Abstraction: the content of the file is a version, its fingerprint and  *)
(* its set of chunks (chunkId is a hash of document, semantic key and      *)
(* text, so versions share the chunks they have in common).                *)
(***************************************************************************)
EXTENDS Naturals, FiniteSets

CONSTANTS
  Worker,      \* commands that may be in progress
  Remover,     \* those that may be removals
  Version,     \* contents the file may have
  Unparsable,  \* versions of which the parser yields no document
  Chunk,       \* chunk ids
  ChunksOf,    \* the chunks of each version
  NoVersion,   \* no fingerprint
  Overlap,     \* TRUE if commands on the same file may overlap
  CutAt,       \* the steps a failure may come before
  MaxRevision, \* bound on revisions
  MaxCuts      \* bound on failures

ASSUME WorkerAssumption == Remover \subseteq Worker

ASSUME VersionAssumption ==
  /\ ChunksOf \in [Version -> SUBSET Chunk]
  /\ Unparsable \subseteq Version
  /\ NoVersion \notin Version

ASSUME BoundAssumption ==
  Overlap \in BOOLEAN /\ MaxRevision \in Nat /\ MaxCuts \in Nat

VARIABLES
  file,     \* the version on disk
  source,   \* record of knowledge_sources_v1
  doc,      \* activeRevision of the record of knowledge_documents_v1, 0 if none
  chunk,    \* records of the knowledge vectors
  work,     \* what each worker is doing
  cuts,     \* failures so far
  served    \* history: the version last put in service, NoVersion if removed

vars == <<file, source, doc, chunk, work, cuts, served>>

Absent == [status |-> "absent", revision |-> 0]
NoSource == [state |-> "absent", fingerprint |-> NoVersion]
Idle == [pc |-> "idle", version |-> NoVersion, previous |-> 0,
         known |-> {}, stale |-> {}]

Init ==
  /\ file \in Version
  /\ source = NoSource
  /\ doc = 0
  /\ chunk = [c \in Chunk |-> Absent]
  /\ work = [w \in Worker |-> Idle]
  /\ cuts = 0
  /\ served = NoVersion

Step(w, from, to) == work[w].pc = from /\ work' = [work EXCEPT ![w].pc = to]
Done(w, from) == work[w].pc = from /\ work' = [work EXCEPT ![w] = Idle]
Chunks(w) == ChunksOf[work[w].version]
Revision(w) == work[w].previous + 1

\* Chunks C written with a status, under the revision of the ingest.
Upsert(C, status, revision) ==
  chunk' = [c \in Chunk |-> IF c \in C THEN [status |-> status, revision |-> revision]
                            ELSE chunk[c]]
Delete(C) == chunk' = [c \in Chunk |-> IF c \in C THEN Absent ELSE chunk[c]]

\* What a search may return: the filter of search() asks for status "active".
Searchable == {c \in Chunk : chunk[c].status = "active"}
Stored == {c \in Chunk : chunk[c].status # "absent"}

(***************************************************************************)
(* Ingest.                                                                 *)
(***************************************************************************)

Resolved == file

\* resolveSource reads the file; the job semaphore admits several commands.
Resolve(w) ==
  /\ work[w].pc = "idle"
  /\ Overlap \/ \A v \in Worker : work[v].pc = "idle"
  /\ work' = [work EXCEPT ![w] = [Idle EXCEPT !.pc = "readSource", !.version = Resolved]]
  /\ UNCHANGED <<file, source, doc, chunk, cuts, served>>

Unchanged(w) == source.state = "active" /\ source.fingerprint = work[w].version

ReadSource(w) ==
  /\ IF Unchanged(w) THEN Done(w, "readSource") ELSE Step(w, "readSource", "syncSource")
  /\ UNCHANGED <<file, source, doc, chunk, cuts, served>>

\* The record carries the new fingerprint before anything else is written.
SyncSource(w) ==
  /\ Step(w, "syncSource", "parse")
  /\ source' = [state |-> "syncing", fingerprint |-> work[w].version]
  /\ UNCHANGED <<file, doc, chunk, cuts, served>>

ParseFails(w) ==
  /\ work[w].version \in Unparsable
  /\ Done(w, "parse")
  /\ source' = [state |-> "failed", fingerprint |-> work[w].version]
  /\ UNCHANGED <<file, doc, chunk, cuts, served>>

\* The document is read after the parser, with its awaits, has run.
ReadDocument(w) ==
  /\ work[w].pc = "parse" /\ work[w].version \notin Unparsable
  /\ doc < MaxRevision
  /\ work' = [work EXCEPT ![w] = [@ EXCEPT !.pc = "readChunks", !.previous = doc]]
  /\ UNCHANGED <<file, source, doc, chunk, cuts, served>>

\* Chunks already stored keep their vector; the others are embedded.
ReadChunks(w) ==
  /\ work[w].pc = "readChunks"
  /\ work' = [work EXCEPT ![w] = [@ EXCEPT !.pc = "prepareDocument", !.known = Stored \cap Chunks(w)]]
  /\ UNCHANGED <<file, source, doc, chunk, cuts, served>>

\* "preparing", with the active revision it read.
PrepareDocument(w) ==
  /\ Step(w, "prepareDocument", "prepareChunks")
  /\ doc' = work[w].previous
  /\ UNCHANGED <<file, source, chunk, cuts, served>>

ToPrepareAll(w) == Chunks(w)   \* Mutant: chunks in service are prepared again
ToPrepare(w) == Chunks(w) \ work[w].known

PrepareChunks(w) ==
  /\ Step(w, "prepareChunks", "readPrevious")
  /\ Upsert(ToPrepare(w), "preparing", Revision(w))
  /\ UNCHANGED <<file, source, doc, cuts, served>>

Previous(w) == {c \in Stored : work[w].previous # 0 /\ chunk[c].revision = work[w].previous}

ReadPrevious(w) ==
  /\ work[w].pc = "readPrevious"
  /\ work' = [work EXCEPT ![w] = [@ EXCEPT !.pc = "activateDocument", !.stale = Previous(w)]]
  /\ UNCHANGED <<file, source, doc, chunk, cuts, served>>

ActivatedKept(w) == work[w].previous   \* Mutant: the active revision is not advanced
Activated(w) == Revision(w)

ActivateDocument(w) ==
  /\ Step(w, "activateDocument", "activateChunks")
  /\ doc' = Activated(w)
  /\ UNCHANGED <<file, source, chunk, cuts, served>>

ToActivate(w) == Chunks(w)

ActivateChunks(w) ==
  /\ Step(w, "activateChunks", "deleteStale")
  /\ Upsert(ToActivate(w), "active", Revision(w))
  /\ served' = work[w].version
  /\ UNCHANGED <<file, source, doc, cuts>>

ToDelete(w) == work[w].stale \ Chunks(w)

DeleteStale(w) ==
  /\ Step(w, "deleteStale", "activateSource")
  /\ Delete(ToDelete(w))
  /\ UNCHANGED <<file, source, doc, cuts, served>>

ActivateSource(w) ==
  /\ Done(w, "activateSource")
  /\ source' = [state |-> "active", fingerprint |-> work[w].version]
  /\ UNCHANGED <<file, doc, chunk, cuts, served>>

(***************************************************************************)
(* Remove.                                                                 *)
(***************************************************************************)

\* A source that is not known keeps the version NoVersion.
RemoveRead(w) ==
  /\ w \in Remover /\ work[w].pc = "idle"
  /\ Overlap \/ \A v \in Worker : work[v].pc = "idle"
  /\ work' = [work EXCEPT ![w] = [Idle EXCEPT !.pc = "removeFind",
                                              !.version = source.fingerprint]]
  /\ UNCHANGED <<file, source, doc, chunk, cuts, served>>

ToRemove == Stored

RemoveFind(w) ==
  /\ work[w].pc = "removeFind"
  /\ work' = [work EXCEPT ![w] = [@ EXCEPT !.pc = "removeChunks", !.stale = ToRemove]]
  /\ UNCHANGED <<file, source, doc, chunk, cuts, served>>

RemoveChunks(w) ==
  /\ Step(w, "removeChunks", "removeSource")
  /\ Delete(work[w].stale)
  /\ served' = NoVersion
  /\ UNCHANGED <<file, source, doc, cuts>>

\* The payload read at the start is written back with the state "removed";
\* the record of the document stays as it is.
AfterRemovalKept(w) == source   \* Mutant: the record is left as it was
AfterRemoval(w) ==
  IF work[w].version = NoVersion THEN source
  ELSE [state |-> "removed", fingerprint |-> work[w].version]

RemoveSource(w) ==
  /\ Done(w, "removeSource")
  /\ source' = AfterRemoval(w)
  /\ UNCHANGED <<file, doc, chunk, cuts, served>>

(***************************************************************************)
(* The world.                                                              *)
(***************************************************************************)

Edit == /\ \E v \in Version \ {file} : file' = v
        /\ UNCHANGED <<source, doc, chunk, work, cuts, served>>

\* A call throws or the process ends: the worker leaves what it wrote.
Cut(w) == /\ cuts < MaxCuts
          /\ work[w].pc \in CutAt
          /\ work' = [work EXCEPT ![w] = Idle]
          /\ cuts' = cuts + 1
          /\ UNCHANGED <<file, source, doc, chunk, served>>

IngestStep(w) ==
  \/ Resolve(w) \/ ReadSource(w) \/ SyncSource(w) \/ ParseFails(w)
  \/ ReadDocument(w) \/ ReadChunks(w) \/ PrepareDocument(w) \/ PrepareChunks(w)
  \/ ReadPrevious(w) \/ ActivateDocument(w) \/ ActivateChunks(w)
  \/ DeleteStale(w) \/ ActivateSource(w)

RemoveStep(w) ==
  RemoveRead(w) \/ RemoveFind(w) \/ RemoveChunks(w) \/ RemoveSource(w)

Next == Edit \/ \E w \in Worker : IngestStep(w) \/ RemoveStep(w) \/ Cut(w)
Spec == Init /\ [][Next]_vars

(***************************************************************************)
(* Properties.                                                             *)
(***************************************************************************)

SourceState == {"absent", "syncing", "failed", "active", "removed"}
IngestPc == {"readSource", "syncSource", "parse", "readChunks", "prepareDocument",
             "prepareChunks", "readPrevious", "activateDocument", "activateChunks",
             "deleteStale", "activateSource"}
RemovePc == {"removeFind", "removeChunks", "removeSource"}
Pc == {"idle"} \cup IngestPc \cup RemovePc

\* The variables keep their types.
TypeOK ==
  /\ file \in Version
  /\ source \in [state : SourceState, fingerprint : Version \cup {NoVersion}]
  /\ doc \in Nat
  /\ chunk \in [Chunk -> [status : {"absent", "preparing", "active"}, revision : Nat]]
  /\ work \in [Worker -> [pc : Pc, version : Version \cup {NoVersion}, previous : Nat,
                          known : SUBSET Chunk, stale : SUBSET Chunk]]
  /\ cuts \in Nat
  /\ served \in Version \cup {NoVersion}
  /\ \A w \in Worker : work[w].pc \in IngestPc => work[w].version \in Version

\* A document is old or new, never half: from the moment a version is in
\* service, some version is searchable with all its chunks, while the document
\* is indexed again, while chunks are shared, and after a failure at any step.
OldOrNew == served # NoVersion => ChunksOf[served] \subseteq Searchable

\* An ingest that answers "unchanged" (lines 362-366) is right: once the
\* record says active, and no removal is between its two writes, every chunk
\* of the version it names can be found.
ActiveMeansServed ==
  (source.state = "active" /\ \A w \in Worker : work[w].pc # "removeSource")
    => ChunksOf[source.fingerprint] \subseteq Searchable

Quiet == \A w \in Worker : work[w].pc = "idle"

\* When no command runs and the record says active, a search finds the chunks
\* of that version and of no other: stale chunks were found by their revision
\* and deleted (lines 535-556).  Holds for commands that run to their end, one
\* after the other; not when one is cut short and done again, nor when two
\* overlap.
NothingStale ==
  (Quiet /\ source.state = "active") => Searchable = ChunksOf[source.fingerprint]

\* Chunks are made searchable only by an ingest that has written the new active
\* revision, so a crash never leaves chunks in service that the next ingest
\* cannot tell from those of the revision before.
NeverAhead == \A c \in Searchable : chunk[c].revision <= doc

\* What is in service is a whole version, and none of it is ahead of the active revision.
ServiceIsWhole == OldOrNew /\ NeverAhead
=============================================================================
