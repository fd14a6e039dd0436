CONSTANTS
    Lens = {1, 2}
    FullPacket = 2
    MaxBytes = 5
    MaxClock = 2
    None = None
SPECIFICATION FairSpec
INVARIANTS OneAsyncWrite InOrder MessageClock ClockOfReceived
PROPERTIES SentIsDelivered
CHECK_DEADLOCK FALSE
