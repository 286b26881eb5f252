\* An ingest that fails after its new revision is active, and is done again.
SPECIFICATION Parts
CHECK_DEADLOCK FALSE
CONSTANTS
  v1 = v1
  v2 = v2
  v3 = v3
  c1 = c1
  c2 = c2
  c3 = c3
  Version = {v1, v2, v3}
  Unparsable = {v3}
  Chunk = {c1, c2, c3}
  ChunksOf <- MCChunksOf
  NoVersion = NoVersion
  Worker = {w1}
  Remover = {w1}
  Overlap = FALSE
  CutAt <- CutBeforeRemoval
  MaxRevision = 4
  MaxCuts = 3
  p1 = p1
  p2 = p2
  a1 = a1
  e1 = e1
  e2 = e2
  Procs = {p1, p2}
  Artifacts = {a1}
  Episodes = {e1, e2}
  Lifetimes = {"kept", "expiring"}
  NoRecord = NoRecord
  WriteLimit = 2
  MaintLimit = 1
  FaultLimit = 1
  i1 = i1
  i2 = i2
  Observers = {i1, i2}
  Proposals <- MCProposals
  MinimumPreference = 2
  MinimumBehavior = 3
  Lifetime = 1
  ClockLimit = 1
  CallLimit = 3
  CutLimit = 1
  None = None
  Callers = {p1, p2}
  Contents = {"x", "y", "z"}
  Keys = {"k1"}
  Marks = {"tombstoned", "conflicted", "rejected"}
  Nothing = Nothing
  StoredContents <- MCStored
  CommitLimit = 2
  CrashLimit = 1
  RepairLimit = 1
INVARIANTS NothingStale
