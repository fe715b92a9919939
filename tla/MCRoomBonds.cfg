SPECIFICATION FairSpec
CONSTANTS
    alice = alice  bob = bob
    Participants <- MCParticipants
    MaxSlots = 1  MaxOpenSlots = 1  EpochDuration = 1  SourceFinalityDelay = 1
    MinAnnounceDelay = 0  MaxPermitLifetime = 1  GateStallTimeout = 1  MAX_BATCH = 1
    Nonces = {1}  SourceSequences = {1}  AnnounceDelays = {0}
    ROOM_INTEGRITY_BOND = 5  INTEGRITY_CLAIM_BOND = 2
    IntegrityClaimWindow = 1  IntegrityClaimTimeout = 1  MaxClaims = 2
    MaxTime = 5  Horizon = 2
INVARIANTS BondsAreKept
PROPERTIES BondReleasedAtEnd RoomWindsDown
CHECK_DEADLOCK FALSE
