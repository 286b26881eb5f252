\* Two branch changes, two crashes, a failed request and a backlog of two; three memories
\* and two mishaps; two sessions, two settings, one fault and one crash; two sessions of at
\* most two turns, one branch change, one fault and one restart over the shared context state.
SPECIFICATION Parts
CONSTANTS
    MaxGen = 2
    MaxChildren = 3
    MaxNotes = 1
    MaxFailures = 1
    BacklogLimit = 2
    N = 3
    CandidatesOf <- MCCandidates
    MaxAttempts = 2
    MaxCrashes = 2
    MaxFaults = 2
    MaxRetired = 1
    MaxMishaps = 2
    s1 = s1
    s2 = s2
    Sessions = {s1, s2}
    Chats = {s1, s2}
    Prompts = {{1, 2, 3}, {3, 4, 5}, {1}, {}}
    Turns = {1, 2}
    Explicit = {{1}}
    Continuing = {{1}}
    Plans <- MCPlans
    Models = {"qwen", "bge"}
    Supported <- MCSupported
    Default <- MCDefault
    Key = "key"
    EnvKey = NoSetting
    NoSetting = NoSetting
    ActLimit = 2
    SlipLimit = 1
    LossLimit = 1
INVARIANTS LinkIsSound WorkIsKept SettingsHold 
PROPERTIES SettledIsFinal RestartsConverge
CHECK_DEADLOCK FALSE
