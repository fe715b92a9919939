SPECIFICATION FairSpec
CONSTANTS
    alice = alice  bob = bob  r1 = r1  r2 = r2  r3 = r3
    Users = {alice}
    Resolvers <- MCTwoResolvers
    Evidence = {e1}
    RoomManaged = FALSE
    BPS = 10  LIQUIDITY_FEE_BPS = 1  WinnerRewardBps = 2  FEE_SCALE = 12
    EpochDuration = 1  SourceFinalityDelay = 1  MaxPendingTime = 1
    ChallengeWindow = 1  ChallengeTimeout = 1  ResolutionWindow = 1
    OpensAt = 0  INTEGRITY_BOND = 5  CHALLENGE_BOND = 2
    BuyAmounts = {10}  LiquidityAmounts = {12}  PositionAmounts = {}
    MinimumReturns = {0}  DeadlineDelays = {4}
    SourceSequences = {1, 2, 3}  AttestedOutcomes = {"A"}
    MaxTime = 5  SubmitUntil = 2  Horizon = 4  MaxActions = 2
INVARIANTS ResultHasQuorum ChallengeBondHeld PortfolioTellsWhatIsOwed
PROPERTIES NothingReleasedBeforeFinal MarketSettles
CHECK_DEADLOCK FALSE
