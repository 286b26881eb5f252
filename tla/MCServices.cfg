\* Racing calls of one command, two restarts, a failure; two baselines, four drafts, a crash; three traces in batches of two; two episodes at once; two recalls by two users; a search of six hits.
SPECIFICATION Parts
CHECK_DEADLOCK FALSE
CONSTANTS
  j1 = j1
  j2 = j2
  k1 = k1
  c1 = c1
  c2 = c2
  NoKey = NoKey
  NoJob = NoJob
  Job = {j1, j2}
  Key = {k1}
  Caller = {c1, c2}
  MaxAttempts = 2
  MaxCrashes = 2
  MaxFailures = 1
  Configs = {"g1", "g2"}
  None = None
  DraftLimit = 4
  ClockLimit = 1
  RestartLimit = 1
  Jobs = {x1, x2}
  MinimumOutcomes = 1
  MinimumPercent = 66
  JobLimit = 4
  EpisodeLimit = 4
  Missing = Missing
  Nil = Nil
  t1 = t1
  t2 = t2
  t3 = t3
  m1 = m1
  o1 = o1
  o2 = o2
  x1 = x1
  x2 = x2
  p1 = p1
  Callers = {p1}
  Users = {u1, u2}
  Owner = u1
  References <- MCReferences
  TTL = 1
  TickLimit = 1
  FaultLimit = 1
  AskLimit = 2
  EditLimit = 1
  Corpus <- MCCorpus
  Contradicts <- MCContradicts
  CandidateLimit = 3
  TopK = 2
  Total = 4
  OfKnowledge = 2
  OfMemory = 2
  u1 = u1
  u2 = u2
INVARIANTS WorkIsDurable OnlyProvenServes ProceduresAreEarned RecallFailsClosed 
PROPERTIES DeadIsDeserved RecoveredIsServed EveryTraceLeaves
