SPECIFICATION FairSessionSpec
CONSTANTS
    Roster <- MCRoster
    MaxSlots = 2 MaxOpenSlots = 2 MAX_BATCH = 2
    EpochDuration = 1 SourceFinalityDelay = 1
    MinAnnounceDelay = 0 MaxPermitLifetime = 1 GateStallTimeout = 2
    Nonces = {0, 1} SourceSequences = {1,2,3,4,5,6} AnnounceDelays = {0}
    MaxTime = 4 Horizon = 3
    FreshnessThreshold = 1 UnevaluableGrace = 1 MaxPendingTime = 2
    Fills <- MCFills
    MaxFills = 1 MaxEvents = 3 MaxQueues = 2 MaxFailures = 1
 
PROPERTIES DecisionCloses OutageFreezes RefundsDrained
CHECK_DEADLOCK FALSE
