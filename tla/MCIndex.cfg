SPECIFICATION FairIndexSpec
CONSTANTS
    Markets = {"m", "n"}  Headline = "m"
    Kinds = {"create", "submit", "clear", "suspend", "close", "close slot", "challenge", "verdict", "finalize", "redeem", "adjudicate"}
    Histories <- MCHistories
    Passes = 3  Setbacks = FALSE  MaxBlocks = 7  MaxForks = 1  MaxUpsets = 2
INVARIANTS IndexTellsTheChain
PROPERTIES IndexerCatchesUp
CHECK_DEADLOCK FALSE
