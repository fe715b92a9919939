SPECIFICATION ServicesSpec
CONSTANTS
    Scenes = {"chat", "entry", "growth", "stream", "fees", "pool"}
    \* chat
    Authors = {"a"}  Handlers = {1, 2}  MaxMessages = 1  RateLimit = 1  RateWindow = 2  SlowMode = 0
    ClaimLifetime = 1  ClaimSkew = 1  MaxLatency = 1  MaxChatTime = 2  MaxRequestsMade = 3  MaxChatLives = 2
    \* entry
    Calls = {1, 2, 3}  Versions = 2  MaxAccepts = 4
    \* growth
    People = {"a", "b", "c"}  BindCalls = {1, 2}  MaxBlock = 1  MaxBinds = 2  MaxFacts = 1
    \* stream
    Polls = {1, 2}  DegradedAfter = 1  PollInterval = 1  MaxPollLatency = 1  MaxStreamTime = 5  MaxSegments = 1
    \* fees
    Users = {"alice", "bob"}  BPS = 10  LIQUIDITY_FEE_BPS = 1  WinnerRewardBps = 1  FEE_SCALE = 60
    ShareAmounts = {1, 2, 3}  FeeAmounts = {1, 2}  MaxDeposits = 3  MaxFees = 3
    \* pool
    InitialReserves = {1, 2, 5, 8, 13}  TradeAmounts = {1, 3, 7, 11}  MaxTrades = 4
INVARIANTS ChatHolds OnlyTheOwnerOpens LiveMeansAdvancing PoolsHold
 
CHECK_DEADLOCK FALSE
