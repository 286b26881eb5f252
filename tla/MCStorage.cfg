\* Three racing callers of one record; two spaces and two records; three operations of
\* two processes; two nodes; two tool calls.
SPECIFICATION Layers
CHECK_DEADLOCK FALSE
CONSTANTS
  c1 = c1
  c2 = c2
  c3 = c3
  k1 = k1
  i1 = i1
  s1 = s1
  s2 = s2
  d1 = d1
  d2 = d2
  o1 = o1
  o2 = o2
  o3 = o3
  p1 = p1
  p2 = p2
  small = small
  large = large
  Any = Any
  Clients = {c1, c2, c3}
  Keys = {k1}
  Instances = {i1}
  Owner <- OwnerV
  Kinds = {"mutate", "put"}
  Expectations <- ExpectationsV
  Spaces = {s1, s2}
  FirstSpace = s1
  First = first
  Docs = {d1, d2}
  Absent = Absent
  MaxAttempts = 2
  EditLimit = 1
  EnqueueLimit = 2
  FaultLimit = 1
  CrashLimit = 1
  UpkeepLimit = 1
  MaxRetries = 1
  CallLimit = 1
  Slots = {o1, o2, o3}
  Stores = {s1, s2}
  StoreOf <- StoreOfV
  Processes = {p1, p2}
  ProcessOf <- ProcessOfV
  Nil = Nil
  Stale = Stale
  MaxCalls = 4
  MaxFaults = 1
  Nodes = {d1, d2}
  Callers = {c1, c2}
  Present = {d1}
  Branch = {d1, d2}
  RequestLimit = 4
INVARIANTS GivesUpOnlyUnderContention  ExclusiveAndFresh GraphHolds CaptureIsTrue
PROPERTIES   MovesAreLegal 
