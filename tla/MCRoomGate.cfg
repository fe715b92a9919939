SPECIFICATION Spec
CONSTANTS
    alice = alice  bob = bob
    Participants = {alice}
    MaxSlots = 2  MaxOpenSlots = 2  EpochDuration = 1  SourceFinalityDelay = 1
    MinAnnounceDelay = 0  MaxPermitLifetime = 1  GateStallTimeout = 2  MAX_BATCH = 2
    Nonces = {1, 2}  SourceSequences = {1, 2, 3}  AnnounceDelays = {0}
    ROOM_INTEGRITY_BOND = 5  INTEGRITY_CLAIM_BOND = 1
    IntegrityClaimWindow = 1  IntegrityClaimTimeout = 1  MaxClaims = 0
    MaxTime = 4  Horizon = 4
INVARIANTS OpenListExact EverySlotCanClose
PROPERTIES RoomIsSession RoomOfMarkets
CHECK_DEADLOCK FALSE
