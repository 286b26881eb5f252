\* A model selected in a running session, and what is written to the index after it.
SPECIFICATION Parts
CONSTANTS
    MaxGen = 2
    MaxChildren = 3
    MaxNotes = 1
    MaxFailures = 1
    BacklogLimit = 2
    N = 3
    CandidatesOf <- MCCandidates
    MaxAttempts = 2
    MaxCrashes = 2
    MaxFaults = 2
    MaxRetired = 1
    MaxMishaps = 2
    s1 = s1
    s2 = s2
    Sessions = {s1, s2}
    Chats = {s1, s2}
    Prompts = {{1, 2, 3}, {3, 4, 5}, {1}, {}}
    Turns = {1, 2}
    Explicit = {{1}}
    Continuing = {{1}}
    Plans <- MCPlans
    Models = {"qwen", "bge"}
    Supported <- MCSupported
    Default <- MCDefault
    Key = "key"
    EnvKey = NoSetting
    NoSetting = NoSetting
    ActLimit = 2
    SlipLimit = 1
    LossLimit = 1
INVARIANTS IndexHoldsItsModel
CHECK_DEADLOCK FALSE
