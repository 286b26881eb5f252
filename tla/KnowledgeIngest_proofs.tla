----------------------- MODULE KnowledgeIngest_proofs -----------------------
(***************************************************************************)
(* Proofs about KnowledgeIngest for every file, every set of chunks, every *)
(* number of workers and failures, when commands do not overlap.           *)
(***************************************************************************)
EXTENDS KnowledgeIngest, TLAPS

\* Commands do not overlap.
Serial ==
  \A v, w \in Worker : work[v].pc # "idle" /\ work[w].pc # "idle" => v = w

\* Between the two writes that end it, an ingest or a removal has already
\* decided what is in service.
ServiceInv ==
  \A w \in Worker :
    /\ work[w].pc \in {"deleteStale", "activateSource"} => served = work[w].version
    /\ work[w].pc = "removeSource" => served = NoVersion

\* An ingest hides the old answer of the record before it writes anything.
SourceInv ==
  \A w \in Worker :
    /\ work[w].pc \in IngestPc \ {"readSource", "syncSource"} => source.state # "active"
    /\ work[w].pc \in RemovePc => source.fingerprint = work[w].version

\* What is in service is among the chunks the ingest found.
KnownInv ==
  \A w \in Worker :
    work[w].pc \in {"prepareDocument", "prepareChunks"}
      => Searchable \cap Chunks(w) \subseteq work[w].known

\* The active revision is the one the ingest read, then the next.
RevisionInv ==
  \A w \in Worker :
    /\ work[w].pc \in {"readChunks", "prepareDocument", "prepareChunks", "readPrevious",
                       "activateDocument"} => doc = work[w].previous
    /\ work[w].pc \in {"activateChunks", "deleteStale", "activateSource"}
         => doc = work[w].previous + 1

\* The record says active only of what is in service.
RecordInv ==
  source.state = "active" =>
    /\ source.fingerprint # NoVersion
    /\ \/ served = source.fingerprint
       \/ \E w \in Worker : work[w].pc = "removeSource"

-----------------------------------------------------------------------------
LEMMA TypeInit == Init => TypeOK
BY DEF Init, TypeOK, NoSource, Idle, Absent, Pc, SourceState, IngestPc, RemovePc

LEMMA UpsertType ==
  ASSUME TypeOK, NEW C, NEW s \in {"preparing", "active"}, NEW r \in Nat, Upsert(C, s, r)
  PROVE  chunk' \in [Chunk -> [status : {"absent", "preparing", "active"}, revision : Nat]]
BY DEF TypeOK, Upsert

LEMMA DeleteType ==
  ASSUME TypeOK, NEW C, Delete(C)
  PROVE  chunk' \in [Chunk -> [status : {"absent", "preparing", "active"}, revision : Nat]]
BY DEF TypeOK, Delete, Absent

\* The type of the local states, with the version an ingest has.
WorkType ==
  /\ work \in [Worker -> [pc : Pc, version : Version \cup {NoVersion}, previous : Nat,
                          known : SUBSET Chunk, stale : SUBSET Chunk]]
  /\ \A w \in Worker : work[w].pc \in IngestPc => work[w].version \in Version

LEMMA StepType ==
  ASSUME TypeOK, NEW w \in Worker, NEW from, NEW to \in Pc, Step(w, from, to),
         from \in IngestPc \/ to \notin IngestPc
  PROVE  WorkType'
BY DEF TypeOK, WorkType, Step

LEMMA DoneType ==
  ASSUME TypeOK, NEW w \in Worker, NEW from, Done(w, from)
  PROVE  WorkType'
BY DEF TypeOK, WorkType, Done, Idle, Pc, IngestPc

LEMMA RecordType ==
  ASSUME TypeOK, NEW w \in Worker,
         NEW r \in [pc : Pc, version : Version \cup {NoVersion}, previous : Nat,
                    known : SUBSET Chunk, stale : SUBSET Chunk],
         r.pc \in IngestPc => r.version \in Version,
         work' = [work EXCEPT ![w] = r]
  PROVE  WorkType'
BY DEF TypeOK, WorkType

LEMMA TypeStep == TypeOK /\ [Next]_vars => TypeOK'
<1> SUFFICES ASSUME TypeOK, [Next]_vars PROVE TypeOK'
  OBVIOUS
<1> USE VersionAssumption DEF SourceState
<1>pc. /\ Pc = {"idle"} \cup IngestPc \cup RemovePc
       /\ IngestPc \cap RemovePc = {} /\ "idle" \notin IngestPc
  BY DEF Pc, IngestPc, RemovePc
<1>1. CASE Edit  BY <1>1 DEF Edit, TypeOK
<1>2. ASSUME NEW w \in Worker, IngestStep(w) PROVE TypeOK'
  <2>1. CASE Resolve(w)
    BY <2>1, <1>pc DEF Resolve, Resolved, TypeOK, Idle, IngestPc
  <2>2. CASE ReadSource(w)
    <3>1. WorkType'
      BY <2>2, <1>pc, StepType, DoneType DEF ReadSource, IngestPc
    <3> QED  BY <2>2, <3>1 DEF ReadSource, TypeOK, WorkType
  <2>3. CASE SyncSource(w)
    <3>1. WorkType'
      BY <2>3, <1>pc, StepType DEF SyncSource, IngestPc
    <3>2. work[w].version \in Version
      BY <2>3 DEF SyncSource, Step, TypeOK, IngestPc
    <3> QED  BY <2>3, <3>1, <3>2 DEF SyncSource, TypeOK, WorkType
  <2>4. CASE ParseFails(w)
    <3>1. WorkType'  BY <2>4, DoneType DEF ParseFails
    <3> QED  BY <2>4, <3>1 DEF ParseFails, TypeOK, WorkType
  <2>5. CASE ReadDocument(w)
    <3>1. doc \in Nat /\ "readChunks" \in Pc  BY <1>pc DEF TypeOK, IngestPc
    <3>2. work[w].version \in Version  BY <2>5 DEF ReadDocument, TypeOK, IngestPc
    <3>3. WorkType'  BY <2>5, <3>1, <3>2, RecordType DEF ReadDocument, TypeOK
    <3> QED  BY <2>5, <3>3 DEF ReadDocument, TypeOK, WorkType
  <2>6. CASE ReadChunks(w)
    <3>1. Stored \cap Chunks(w) \in SUBSET Chunk  BY DEF Stored
    <3>2. "prepareDocument" \in Pc  BY <1>pc DEF IngestPc
    <3>3. work[w].version \in Version  BY <2>6 DEF ReadChunks, TypeOK, IngestPc
    <3>4. WorkType'  BY <2>6, <3>1, <3>2, <3>3, RecordType DEF ReadChunks, TypeOK
    <3> QED  BY <2>6, <3>4 DEF ReadChunks, TypeOK, WorkType
  <2>7. CASE PrepareDocument(w)
    <3>1. WorkType'
      BY <2>7, <1>pc, StepType DEF PrepareDocument, IngestPc
    <3> QED  BY <2>7, <3>1 DEF PrepareDocument, TypeOK, WorkType
  <2>8. CASE PrepareChunks(w)
    <3>1. WorkType'
      BY <2>8, <1>pc, StepType DEF PrepareChunks, IngestPc
    <3>2. Revision(w) \in Nat  BY DEF Revision, TypeOK
    <3>3. chunk' \in [Chunk -> [status : {"absent", "preparing", "active"}, revision : Nat]]
      BY <2>8, <3>2, UpsertType DEF PrepareChunks
    <3> QED  BY <2>8, <3>1, <3>3 DEF PrepareChunks, TypeOK, WorkType
  <2>9. CASE ReadPrevious(w)
    <3>1. Previous(w) \in SUBSET Chunk  BY DEF Previous, Stored
    <3>2. "activateDocument" \in Pc  BY <1>pc DEF IngestPc
    <3>3. work[w].version \in Version  BY <2>9 DEF ReadPrevious, TypeOK, IngestPc
    <3>4. WorkType'  BY <2>9, <3>1, <3>2, <3>3, RecordType DEF ReadPrevious, TypeOK
    <3> QED  BY <2>9, <3>4 DEF ReadPrevious, TypeOK, WorkType
  <2>10. CASE ActivateDocument(w)
    <3>1. WorkType'
      BY <2>10, <1>pc, StepType DEF ActivateDocument, IngestPc
    <3>2. Activated(w) \in Nat  BY DEF Activated, Revision, TypeOK
    <3> QED  BY <2>10, <3>1, <3>2 DEF ActivateDocument, TypeOK, WorkType
  <2>11. CASE ActivateChunks(w)
    <3>1. WorkType'
      BY <2>11, <1>pc, StepType DEF ActivateChunks, IngestPc
    <3>2. Revision(w) \in Nat  BY DEF Revision, TypeOK
    <3>3. chunk' \in [Chunk -> [status : {"absent", "preparing", "active"}, revision : Nat]]
      BY <2>11, <3>2, UpsertType DEF ActivateChunks
    <3>4. work[w].version \in Version
      BY <2>11 DEF ActivateChunks, Step, TypeOK, IngestPc
    <3> QED  BY <2>11, <3>1, <3>3, <3>4 DEF ActivateChunks, TypeOK, WorkType
  <2>12. CASE DeleteStale(w)
    <3>1. WorkType'
      BY <2>12, <1>pc, StepType DEF DeleteStale, IngestPc
    <3>2. chunk' \in [Chunk -> [status : {"absent", "preparing", "active"}, revision : Nat]]
      BY <2>12, DeleteType DEF DeleteStale
    <3> QED  BY <2>12, <3>1, <3>2 DEF DeleteStale, TypeOK, WorkType
  <2>13. CASE ActivateSource(w)
    <3>1. WorkType'  BY <2>13, DoneType DEF ActivateSource
    <3>2. work[w].version \in Version
      BY <2>13 DEF ActivateSource, Done, TypeOK, IngestPc
    <3> QED  BY <2>13, <3>1, <3>2 DEF ActivateSource, TypeOK, WorkType
  <2> QED
    BY <1>2, <2>1, <2>2, <2>3, <2>4, <2>5, <2>6, <2>7, <2>8, <2>9, <2>10, <2>11, <2>12, <2>13
       DEF IngestStep
<1>3. ASSUME NEW w \in Worker, RemoveStep(w) PROVE TypeOK'
  <2>1. CASE RemoveRead(w)
    BY <2>1, <1>pc DEF RemoveRead, TypeOK, Idle, RemovePc
  <2>2. CASE RemoveFind(w)
    <3>1. ToRemove \in SUBSET Chunk  BY DEF ToRemove, Stored
    <3>2. "removeChunks" \in Pc \ IngestPc  BY <1>pc DEF RemovePc
    <3>3. WorkType'  BY <2>2, <3>1, <3>2, RecordType DEF RemoveFind, TypeOK
    <3> QED  BY <2>2, <3>3 DEF RemoveFind, TypeOK, WorkType
  <2>3. CASE RemoveChunks(w)
    <3>1. WorkType'
      BY <2>3, <1>pc, StepType DEF RemoveChunks, RemovePc
    <3>2. chunk' \in [Chunk -> [status : {"absent", "preparing", "active"}, revision : Nat]]
      BY <2>3, DeleteType DEF RemoveChunks
    <3> QED  BY <2>3, <3>1, <3>2 DEF RemoveChunks, TypeOK, WorkType
  <2>4. CASE RemoveSource(w)
    <3>1. WorkType'  BY <2>4, DoneType DEF RemoveSource
    <3>2. work[w].version \in Version \cup {NoVersion}  BY DEF TypeOK
    <3> QED  BY <2>4, <3>1, <3>2 DEF RemoveSource, AfterRemoval, TypeOK, WorkType
  <2> QED  BY <1>3, <2>1, <2>2, <2>3, <2>4 DEF RemoveStep
<1>4. ASSUME NEW w \in Worker, Cut(w) PROVE TypeOK'
  BY <1>4, <1>pc DEF Cut, TypeOK, Idle
<1>5. CASE UNCHANGED vars  BY <1>5 DEF vars, TypeOK
<1> QED  BY <1>1, <1>2, <1>3, <1>4, <1>5 DEF Next

\* Every variable keeps its type, whether or not commands overlap.
THEOREM TypeCorrect == Spec => []TypeOK
BY TypeInit, TypeStep, PTL DEF Spec

-----------------------------------------------------------------------------
IInv ==
  /\ TypeOK
  /\ Serial
  /\ ServiceInv
  /\ SourceInv
  /\ KnownInv
  /\ RevisionInv
  /\ OldOrNew
  /\ NeverAhead
  /\ "removeSource" \notin CutAt => RecordInv

LEMMA InvInit == Init => IInv
<1> SUFFICES ASSUME Init PROVE IInv
  OBVIOUS
<1>1. TypeOK  BY TypeInit
<1>2. \A w \in Worker : work[w].pc = "idle"  BY DEF Init, Idle
<1>3. Serial /\ ServiceInv /\ SourceInv /\ KnownInv /\ RevisionInv
  BY <1>2 DEF Serial, ServiceInv, SourceInv, KnownInv, RevisionInv, IngestPc, RemovePc
<1>4. OldOrNew /\ NeverAhead /\ RecordInv
  BY DEF Init, OldOrNew, NeverAhead, RecordInv, NoSource, Absent, Searchable
<1> QED  BY <1>1, <1>3, <1>4 DEF IInv

\* A step of one worker, when no other is active: the invariant is then about
\* this worker only.
InvOf(w) ==
  /\ work[w].pc \in {"deleteStale", "activateSource"} => served = work[w].version
  /\ work[w].pc = "removeSource" => served = NoVersion
  /\ work[w].pc \in IngestPc \ {"readSource", "syncSource"} => source.state # "active"
  /\ work[w].pc \in RemovePc => source.fingerprint = work[w].version
  /\ work[w].pc \in {"prepareDocument", "prepareChunks"}
       => Searchable \cap Chunks(w) \subseteq work[w].known
  /\ work[w].pc \in {"readChunks", "prepareDocument", "prepareChunks", "readPrevious",
                      "activateDocument"} => doc = work[w].previous
  /\ work[w].pc \in {"activateChunks", "deleteStale", "activateSource"}
       => doc = work[w].previous + 1

LEMMA AloneNow ==
  ASSUME Serial, NEW w \in Worker, work[w].pc # "idle"
  PROVE  \A v \in Worker \ {w} : work[v].pc = "idle"
BY DEF Serial

LEMMA OfOne == ASSUME IInv, NEW w \in Worker PROVE InvOf(w)
BY DEF IInv, InvOf, ServiceInv, SourceInv, KnownInv, RevisionInv

LEMMA CombineNext ==
  ASSUME TypeOK', NEW w \in Worker, \A v \in Worker \ {w} : work'[v].pc = "idle",
         InvOf(w)', OldOrNew', NeverAhead', "removeSource" \notin CutAt => RecordInv'
  PROVE  IInv'
<1>1. (Serial /\ ServiceInv /\ SourceInv /\ KnownInv /\ RevisionInv)'
  BY DEF InvOf, Serial, ServiceInv, SourceInv, KnownInv, RevisionInv, IngestPc, RemovePc
<1> QED  BY <1>1 DEF IInv

LEMMA IngestKeeps ==
  ASSUME ~Overlap, IInv, TypeOK', NEW w \in Worker, IngestStep(w)
  PROVE  IInv'
<1>i. TypeOK /\ InvOf(w)
  BY OfOne DEF IInv
<1>g. OldOrNew /\ NeverAhead /\ ("removeSource" \notin CutAt => RecordInv)
  BY DEF IInv
<1> USE VersionAssumption
<1> QED
  <2>1. CASE Resolve(w)
    <3>1. \A v \in Worker \ {w} : work'[v].pc = "idle"
      BY <2>1 DEF Resolve, TypeOK
    <3>2. InvOf(w)'
      BY <2>1, <1>i DEF Resolve, Resolved, Idle, TypeOK, InvOf, IngestPc, RemovePc, Chunks, Searchable
    <3>3. OldOrNew' /\ NeverAhead'
      BY <2>1, <1>g, <1>i DEF Resolve, Resolved, Idle, OldOrNew, NeverAhead, TypeOK, InvOf, IngestPc, RemovePc, Chunks, Searchable
    <3>4. "removeSource" \notin CutAt => RecordInv'
      BY <2>1, <1>g, <1>i DEF Resolve, Resolved, Idle, RecordInv, TypeOK, InvOf, IngestPc, RemovePc, Chunks, Searchable
    <3> QED  BY <3>1, <3>2, <3>3, <3>4, CombineNext
  <2>2. CASE ReadSource(w)
    <3>1. \A v \in Worker \ {w} : work'[v].pc = "idle"
      BY <2>2, AloneNow DEF ReadSource, Step, Done, Idle, IInv, TypeOK
    <3>2. InvOf(w)'
      BY <2>2, <1>i DEF ReadSource, Step, Done, Idle, TypeOK, InvOf, IngestPc, RemovePc, Chunks, Searchable
    <3>3. OldOrNew' /\ NeverAhead'
      BY <2>2, <1>g, <1>i DEF ReadSource, Step, Done, Idle, OldOrNew, NeverAhead, TypeOK, InvOf, IngestPc, RemovePc, Chunks, Searchable
    <3>4. "removeSource" \notin CutAt => RecordInv'
      BY <2>2, <1>g, <1>i DEF ReadSource, Step, Done, Idle, RecordInv, TypeOK, InvOf, IngestPc, RemovePc, Chunks, Searchable
    <3> QED  BY <3>1, <3>2, <3>3, <3>4, CombineNext
  <2>3. CASE SyncSource(w)
    <3>1. \A v \in Worker \ {w} : work'[v].pc = "idle"
      BY <2>3, AloneNow DEF SyncSource, Step, IInv, TypeOK
    <3>2. InvOf(w)'
      BY <2>3, <1>i DEF SyncSource, Step, TypeOK, InvOf, IngestPc, RemovePc, Chunks, Searchable
    <3>3. OldOrNew' /\ NeverAhead'
      BY <2>3, <1>g, <1>i DEF SyncSource, Step, OldOrNew, NeverAhead, TypeOK, InvOf, IngestPc, RemovePc, Chunks, Searchable
    <3>4. "removeSource" \notin CutAt => RecordInv'
      BY <2>3, <1>g, <1>i DEF SyncSource, Step, RecordInv, TypeOK, InvOf, IngestPc, RemovePc, Chunks, Searchable
    <3> QED  BY <3>1, <3>2, <3>3, <3>4, CombineNext
  <2>4. CASE ParseFails(w)
    <3>1. \A v \in Worker \ {w} : work'[v].pc = "idle"
      BY <2>4, AloneNow DEF ParseFails, Done, Idle, IInv, TypeOK
    <3>2. InvOf(w)'
      BY <2>4, <1>i DEF ParseFails, Done, Idle, TypeOK, InvOf, IngestPc, RemovePc, Chunks, Searchable
    <3>3. OldOrNew' /\ NeverAhead'
      BY <2>4, <1>g, <1>i DEF ParseFails, Done, Idle, OldOrNew, NeverAhead, TypeOK, InvOf, IngestPc, RemovePc, Chunks, Searchable
    <3>4. "removeSource" \notin CutAt => RecordInv'
      BY <2>4, <1>g, <1>i DEF ParseFails, Done, Idle, RecordInv, TypeOK, InvOf, IngestPc, RemovePc, Chunks, Searchable
    <3> QED  BY <3>1, <3>2, <3>3, <3>4, CombineNext
  <2>5. CASE ReadDocument(w)
    <3>1. \A v \in Worker \ {w} : work'[v].pc = "idle"
      BY <2>5, AloneNow DEF ReadDocument, IInv, TypeOK
    <3>2. InvOf(w)'
      BY <2>5, <1>i DEF ReadDocument, TypeOK, InvOf, IngestPc, RemovePc, Chunks, Searchable
    <3>3. OldOrNew' /\ NeverAhead'
      BY <2>5, <1>g, <1>i DEF ReadDocument, OldOrNew, NeverAhead, TypeOK, InvOf, IngestPc, RemovePc, Chunks, Searchable
    <3>4. "removeSource" \notin CutAt => RecordInv'
      BY <2>5, <1>g, <1>i DEF ReadDocument, RecordInv, TypeOK, InvOf, IngestPc, RemovePc, Chunks, Searchable
    <3> QED  BY <3>1, <3>2, <3>3, <3>4, CombineNext
  <2>6. CASE ReadChunks(w)
    <3>1. \A v \in Worker \ {w} : work'[v].pc = "idle"
      BY <2>6, AloneNow DEF ReadChunks, Stored, IInv, TypeOK
    <3>2. InvOf(w)'
      BY <2>6, <1>i DEF ReadChunks, Stored, TypeOK, InvOf, IngestPc, RemovePc, Chunks, Searchable
    <3>3. OldOrNew' /\ NeverAhead'
      BY <2>6, <1>g, <1>i DEF ReadChunks, Stored, OldOrNew, NeverAhead, TypeOK, InvOf, IngestPc, RemovePc, Chunks, Searchable
    <3>4. "removeSource" \notin CutAt => RecordInv'
      BY <2>6, <1>g, <1>i DEF ReadChunks, Stored, RecordInv, TypeOK, InvOf, IngestPc, RemovePc, Chunks, Searchable
    <3> QED  BY <3>1, <3>2, <3>3, <3>4, CombineNext
  <2>7. CASE PrepareDocument(w)
    <3>1. \A v \in Worker \ {w} : work'[v].pc = "idle"
      BY <2>7, AloneNow DEF PrepareDocument, Step, IInv, TypeOK
    <3>2. InvOf(w)'
      BY <2>7, <1>i DEF PrepareDocument, Step, TypeOK, InvOf, IngestPc, RemovePc, Chunks, Searchable
    <3>3. OldOrNew' /\ NeverAhead'
      BY <2>7, <1>g, <1>i DEF PrepareDocument, Step, OldOrNew, NeverAhead, TypeOK, InvOf, IngestPc, RemovePc, Chunks, Searchable
    <3>4. "removeSource" \notin CutAt => RecordInv'
      BY <2>7, <1>g, <1>i DEF PrepareDocument, Step, RecordInv, TypeOK, InvOf, IngestPc, RemovePc, Chunks, Searchable
    <3> QED  BY <3>1, <3>2, <3>3, <3>4, CombineNext
  <2>8. CASE PrepareChunks(w)
    <3>1. \A v \in Worker \ {w} : work'[v].pc = "idle"
      BY <2>8, AloneNow DEF PrepareChunks, Step, Upsert, ToPrepare, Revision, IInv, TypeOK
    <3>2. InvOf(w)'
      BY <2>8, <1>i DEF PrepareChunks, Step, Upsert, ToPrepare, Revision, TypeOK, InvOf, IngestPc, RemovePc, Chunks, Searchable
    <3>3. OldOrNew' /\ NeverAhead'
      BY <2>8, <1>g, <1>i DEF PrepareChunks, Step, Upsert, ToPrepare, Revision, OldOrNew, NeverAhead, TypeOK, InvOf, IngestPc, RemovePc, Chunks, Searchable
    <3>4. "removeSource" \notin CutAt => RecordInv'
      BY <2>8, <1>g, <1>i DEF PrepareChunks, Step, Upsert, ToPrepare, Revision, RecordInv, TypeOK, InvOf, IngestPc, RemovePc, Chunks, Searchable
    <3> QED  BY <3>1, <3>2, <3>3, <3>4, CombineNext
  <2>9. CASE ReadPrevious(w)
    <3>1. \A v \in Worker \ {w} : work'[v].pc = "idle"
      BY <2>9, AloneNow DEF ReadPrevious, IInv, TypeOK
    <3>2. InvOf(w)'
      BY <2>9, <1>i DEF ReadPrevious, TypeOK, InvOf, IngestPc, RemovePc, Chunks, Searchable
    <3>3. OldOrNew' /\ NeverAhead'
      BY <2>9, <1>g, <1>i DEF ReadPrevious, OldOrNew, NeverAhead, TypeOK, InvOf, IngestPc, RemovePc, Chunks, Searchable
    <3>4. "removeSource" \notin CutAt => RecordInv'
      BY <2>9, <1>g, <1>i DEF ReadPrevious, RecordInv, TypeOK, InvOf, IngestPc, RemovePc, Chunks, Searchable
    <3> QED  BY <3>1, <3>2, <3>3, <3>4, CombineNext
  <2>10. CASE ActivateDocument(w)
    <3>1. \A v \in Worker \ {w} : work'[v].pc = "idle"
      BY <2>10, AloneNow DEF ActivateDocument, Step, Activated, Revision, IInv, TypeOK
    <3>2. InvOf(w)'
      BY <2>10, <1>i DEF ActivateDocument, Step, Activated, Revision, TypeOK, InvOf, IngestPc, RemovePc, Chunks, Searchable
    <3>3. OldOrNew' /\ NeverAhead'
      BY <2>10, <1>g, <1>i DEF ActivateDocument, Step, Activated, Revision, OldOrNew, NeverAhead, TypeOK, InvOf, IngestPc, RemovePc, Chunks, Searchable
    <3>4. "removeSource" \notin CutAt => RecordInv'
      BY <2>10, <1>g, <1>i DEF ActivateDocument, Step, Activated, Revision, RecordInv, TypeOK, InvOf, IngestPc, RemovePc, Chunks, Searchable
    <3> QED  BY <3>1, <3>2, <3>3, <3>4, CombineNext
  <2>11. CASE ActivateChunks(w)
    <3>1. \A v \in Worker \ {w} : work'[v].pc = "idle"
      BY <2>11, AloneNow DEF ActivateChunks, Step, Upsert, ToActivate, Revision, IInv, TypeOK
    <3>2. InvOf(w)'
      BY <2>11, <1>i DEF ActivateChunks, Step, Upsert, ToActivate, Revision, TypeOK, InvOf, IngestPc, RemovePc, Chunks, Searchable
    <3>3. OldOrNew' /\ NeverAhead'
      BY <2>11, <1>g, <1>i DEF ActivateChunks, Step, Upsert, ToActivate, Revision, OldOrNew, NeverAhead, TypeOK, InvOf, IngestPc, RemovePc, Chunks, Searchable
    <3>4. "removeSource" \notin CutAt => RecordInv'
      BY <2>11, <1>g, <1>i DEF ActivateChunks, Step, Upsert, ToActivate, Revision, RecordInv, TypeOK, InvOf, IngestPc, RemovePc, Chunks, Searchable
    <3> QED  BY <3>1, <3>2, <3>3, <3>4, CombineNext
  <2>12. CASE DeleteStale(w)
    <3>1. \A v \in Worker \ {w} : work'[v].pc = "idle"
      BY <2>12, AloneNow DEF DeleteStale, Step, Delete, ToDelete, Absent, IInv, TypeOK
    <3>2. InvOf(w)'
      BY <2>12, <1>i DEF DeleteStale, Step, Delete, ToDelete, Absent, TypeOK, InvOf, IngestPc, RemovePc, Chunks, Searchable
    <3>3. OldOrNew' /\ NeverAhead'
      BY <2>12, <1>g, <1>i DEF DeleteStale, Step, Delete, ToDelete, Absent, OldOrNew, NeverAhead, TypeOK, InvOf, IngestPc, RemovePc, Chunks, Searchable
    <3>4. "removeSource" \notin CutAt => RecordInv'
      BY <2>12, <1>g, <1>i DEF DeleteStale, Step, Delete, ToDelete, Absent, RecordInv, TypeOK, InvOf, IngestPc, RemovePc, Chunks, Searchable
    <3> QED  BY <3>1, <3>2, <3>3, <3>4, CombineNext
  <2>13. CASE ActivateSource(w)
    <3>1. \A v \in Worker \ {w} : work'[v].pc = "idle"
      BY <2>13, AloneNow DEF ActivateSource, Done, Idle, IInv, TypeOK
    <3>2. InvOf(w)'
      BY <2>13, <1>i DEF ActivateSource, Done, Idle, TypeOK, InvOf, IngestPc, RemovePc, Chunks, Searchable
    <3>3. OldOrNew' /\ NeverAhead'
      BY <2>13, <1>g, <1>i DEF ActivateSource, Done, Idle, OldOrNew, NeverAhead, TypeOK, InvOf, IngestPc, RemovePc, Chunks, Searchable
    <3>4. "removeSource" \notin CutAt => RecordInv'
      BY <2>13, <1>g, <1>i DEF ActivateSource, Done, Idle, RecordInv, TypeOK, InvOf, IngestPc, RemovePc, Chunks, Searchable
    <3> QED  BY <3>1, <3>2, <3>3, <3>4, CombineNext
  <2> QED  BY <2>1, <2>2, <2>3, <2>4, <2>5, <2>6, <2>7, <2>8, <2>9, <2>10, <2>11, <2>12, <2>13 DEF IngestStep

LEMMA RemoveKeeps ==
  ASSUME ~Overlap, IInv, TypeOK', NEW w \in Worker, RemoveStep(w)
  PROVE  IInv'
<1>i. TypeOK /\ InvOf(w)
  BY OfOne DEF IInv
<1>g. OldOrNew /\ NeverAhead /\ ("removeSource" \notin CutAt => RecordInv)
  BY DEF IInv
<1> USE VersionAssumption
<1> QED
  <2>1. CASE RemoveRead(w)
    <3>1. \A v \in Worker \ {w} : work'[v].pc = "idle"
      BY <2>1 DEF RemoveRead, TypeOK
    <3>2. InvOf(w)'
      BY <2>1, <1>i DEF RemoveRead, Idle, TypeOK, InvOf, IngestPc, RemovePc, Chunks, Searchable
    <3>3. OldOrNew' /\ NeverAhead'
      BY <2>1, <1>g, <1>i DEF RemoveRead, Idle, OldOrNew, NeverAhead, TypeOK, InvOf, IngestPc, RemovePc, Chunks, Searchable
    <3>4. "removeSource" \notin CutAt => RecordInv'
      BY <2>1, <1>g, <1>i DEF RemoveRead, Idle, RecordInv, TypeOK, InvOf, IngestPc, RemovePc, Chunks, Searchable
    <3> QED  BY <3>1, <3>2, <3>3, <3>4, CombineNext
  <2>2. CASE RemoveFind(w)
    <3>1. \A v \in Worker \ {w} : work'[v].pc = "idle"
      BY <2>2, AloneNow DEF RemoveFind, IInv, TypeOK
    <3>2. InvOf(w)'
      BY <2>2, <1>i DEF RemoveFind, TypeOK, InvOf, IngestPc, RemovePc, Chunks, Searchable
    <3>3. OldOrNew' /\ NeverAhead'
      BY <2>2, <1>g, <1>i DEF RemoveFind, OldOrNew, NeverAhead, TypeOK, InvOf, IngestPc, RemovePc, Chunks, Searchable
    <3>4. "removeSource" \notin CutAt => RecordInv'
      BY <2>2, <1>g, <1>i DEF RemoveFind, RecordInv, TypeOK, InvOf, IngestPc, RemovePc, Chunks, Searchable
    <3> QED  BY <3>1, <3>2, <3>3, <3>4, CombineNext
  <2>3. CASE RemoveChunks(w)
    <3>1. \A v \in Worker \ {w} : work'[v].pc = "idle"
      BY <2>3, AloneNow DEF RemoveChunks, Step, Delete, Absent, IInv, TypeOK
    <3>2. InvOf(w)'
      BY <2>3, <1>i DEF RemoveChunks, Step, Delete, Absent, TypeOK, InvOf, IngestPc, RemovePc, Chunks, Searchable
    <3>3. OldOrNew' /\ NeverAhead'
      BY <2>3, <1>g, <1>i DEF RemoveChunks, Step, Delete, Absent, OldOrNew, NeverAhead, TypeOK, InvOf, IngestPc, RemovePc, Chunks, Searchable
    <3>4. "removeSource" \notin CutAt => RecordInv'
      BY <2>3, <1>g, <1>i DEF RemoveChunks, Step, Delete, Absent, RecordInv, TypeOK, InvOf, IngestPc, RemovePc, Chunks, Searchable
    <3> QED  BY <3>1, <3>2, <3>3, <3>4, CombineNext
  <2>4. CASE RemoveSource(w)
    <3>1. \A v \in Worker \ {w} : work'[v].pc = "idle"
      BY <2>4, AloneNow DEF RemoveSource, Done, Idle, AfterRemoval, IInv, TypeOK
    <3>2. InvOf(w)'
      BY <2>4, <1>i DEF RemoveSource, Done, Idle, AfterRemoval, TypeOK, InvOf, IngestPc, RemovePc, Chunks, Searchable
    <3>3. OldOrNew' /\ NeverAhead'
      BY <2>4, <1>g, <1>i DEF RemoveSource, Done, Idle, AfterRemoval, OldOrNew, NeverAhead, TypeOK, InvOf, IngestPc, RemovePc, Chunks, Searchable
    <3>4. "removeSource" \notin CutAt => RecordInv'
      BY <2>4, <1>g, <1>i DEF RemoveSource, Done, Idle, AfterRemoval, RecordInv, TypeOK, InvOf, IngestPc, RemovePc, Chunks, Searchable
    <3> QED  BY <3>1, <3>2, <3>3, <3>4, CombineNext
  <2> QED  BY <2>1, <2>2, <2>3, <2>4 DEF RemoveStep

LEMMA InvStep == ASSUME ~Overlap, IInv, [Next]_vars PROVE IInv'
<1>1. TypeOK'  BY TypeStep DEF IInv
<1>2. CASE Edit
  BY <1>1, <1>2 DEF Edit, IInv, Serial, ServiceInv, SourceInv, KnownInv, RevisionInv,
     OldOrNew, NeverAhead, RecordInv, Searchable, Chunks
<1>3. ASSUME NEW w \in Worker, IngestStep(w) PROVE IInv'  BY <1>1, <1>3, IngestKeeps
<1>4. ASSUME NEW w \in Worker, RemoveStep(w) PROVE IInv'  BY <1>1, <1>4, RemoveKeeps
<1>5. ASSUME NEW w \in Worker, Cut(w) PROVE IInv'
  <2>1. work[w].pc # "idle" => \A v \in Worker \ {w} : work[v].pc = "idle"
    BY AloneNow DEF IInv
  <2>2. \A v \in Worker : work'[v] = IF v = w THEN Idle ELSE work[v]
    BY <1>5 DEF Cut, IInv, TypeOK
  <2>3. (Serial /\ ServiceInv /\ SourceInv /\ KnownInv /\ RevisionInv)'
    BY <1>5, <2>2 DEF Cut, IInv, Idle, Serial, ServiceInv, SourceInv, KnownInv, RevisionInv,
       Searchable, Chunks, IngestPc, RemovePc
  <2>4. OldOrNew' /\ NeverAhead'
    BY <1>5 DEF Cut, IInv, OldOrNew, NeverAhead, Searchable
  <2>5. ASSUME "removeSource" \notin CutAt PROVE RecordInv'
    <3>1. work[w].pc # "removeSource"  BY <1>5, <2>5 DEF Cut
    <3> QED  BY <1>5, <2>2, <2>5, <3>1 DEF Cut, IInv, RecordInv
  <2> QED  BY <1>1, <2>3, <2>4, <2>5 DEF IInv
<1>6. CASE UNCHANGED vars
  BY <1>1, <1>6 DEF vars, IInv, Serial, ServiceInv, SourceInv, KnownInv, RevisionInv,
     OldOrNew, NeverAhead, RecordInv, Searchable, Chunks
<1> QED  BY <1>2, <1>3, <1>4, <1>5, <1>6 DEF Next

-----------------------------------------------------------------------------
\* Commands that do not overlap never take a document out of service half way,
\* whatever fails (the order of the writes of #ingestOne, lines 525-556), and
\* no chunk in service is ahead of the active revision of the document.
THEOREM ServiceAlwaysWhole == ASSUME ~Overlap PROVE Spec => []ServiceIsWhole
<1>1. IInv /\ [Next]_vars => IInv'  BY InvStep
<1>2. IInv => ServiceIsWhole  BY DEF IInv, ServiceIsWhole
<1> QED  BY InvInit, <1>1, <1>2, PTL DEF Spec

\* The shortcut "unchanged" of #ingestOne (lines 362-366) is right as long as
\* no removal is cut between its two writes.
THEOREM UnchangedIsServed ==
  ASSUME ~Overlap, "removeSource" \notin CutAt PROVE Spec => []ActiveMeansServed
<1>1. IInv /\ [Next]_vars => IInv'  BY InvStep
<1>2. IInv => ActiveMeansServed  BY DEF IInv, RecordInv, OldOrNew, ActiveMeansServed
<1> QED  BY InvInit, <1>1, <1>2, PTL DEF Spec
=============================================================================
