SPECIFICATION FairSourceSpec
CONSTANTS
    Traders <- MCTraders  Headline <- MCHeadline  Questions <- MCQuestions
    Worths = {2}  Revised = {1}  Equity = 2  PageLimit = 2  Overlap = 1  ReconcileLookback = 1  Lag = 1
    MaxFills = 2  MaxClock = 2  MaxUpsets = 1
 
PROPERTIES LogCatchesUp
CHECK_DEADLOCK FALSE
