SPECIFICATION LiveSpec
CONSTANTS
    Scenes = {"feed", "replicas", "trade"}
    \* feed
    Slots = {0}  FirstSlots = {0}  SlotStates = {"closed"}  RoomStates = {"live"}  Retention = 2  MaxQueue = 1  SocketBuffer = 1
    MaxRequests = 2  MaxChanges = 1  MaxFrames = 3  MaxBreaks = 1
    \* replicas
    Replicas = {"r1", "r2"}  Rooms = {"a", "b"}  LeaseTtl = 1  HeadMaxAge = 1  StaleAfter = 0
    MaxHead = 1  MaxSetbacks = 1  Fragile = {"r1"}
    \* trade
    Questions = {"m1", "m2"}  Wallets = {"alice"}  OrderKinds = {"buy", "challenge"}
    MaxMoves = 1  MaxOrders = 1  MaxReads = 2  MaxSwitches = 2  MaxLosses = 1
INVARIANTS NothingMissedSilently CurrentMeansCurrent OrdersAreHonest
PROPERTIES PageConverges EveryRoomServed
CHECK_DEADLOCK FALSE
