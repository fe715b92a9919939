SPECIFICATION Spec
CONSTANTS
    alice = alice  bob = bob  r1 = r1  r2 = r2  r3 = r3
    Users <- MCUsers
    Resolvers <- MCResolvers
    Evidence = {e1}
    RoomManaged = TRUE
    BPS = 10  LIQUIDITY_FEE_BPS = 1  WinnerRewardBps = 1  FEE_SCALE = 12
    EpochDuration = 1  SourceFinalityDelay = 1  MaxPendingTime = 2
    ChallengeWindow = 1  ChallengeTimeout = 1  ResolutionWindow = 1
    OpensAt = 0  INTEGRITY_BOND = 5  CHALLENGE_BOND = 2
    BuyAmounts = {10}  LiquidityAmounts = {12}  PositionAmounts = {4}
    MinimumReturns = {0}  DeadlineDelays = {4}
    SourceSequences = {1, 2, 3}  AttestedOutcomes = {}
    MaxTime = 5  SubmitUntil = 4  Horizon = 5  MaxActions = 3
INVARIANTS TypeOK HoldersAreBacked QueueNeverWedged CursorSeparates ClearedBeforeDecision
PROPERTIES IsRoomMarket
SYMMETRY Symmetric
CHECK_DEADLOCK FALSE
