SPECIFICATION SceneSpec
CONSTANTS
    Scenes = {"publication", "settlement", "archive", "operator"}
    Candidates <- MCCandidates
    Roster <- MCRoster  Lower <- MCLower  Decisions <- MCDecisions
    Ticks = {1}
    MinAnnounceDelay = 1  MaxPermitAttempts = 2  MaxPermitLifetime = 1  MaxPerTick = 1
    MaxOpenSlots = 2
    MaxRequests = 2  MaxTip = 1  MaxRequestTime = 2  MaxFaults = 1
    Resolvers = {r1, r2}  Results <- MCResults
    ResolutionTime = 1  ChallengeWindow = 1  ChallengeTimeout = 1  MaxTime = 3  MaxViews = 1  MaxSlips = 1
    Uploads = {u1, u2}  Evidence = {"e", "f"}  FirstHash = "e"  References <- MCReferences  KeepsFirst = TRUE  MaxBreaks = 1
    Role = "gate"  TickSlots = {1, 2}  MaxMishaps = 2
INVARIANTS   ProofsHaveClips
PROPERTIES EveryoneIsAnswered
CHECK_DEADLOCK FALSE
