CONSTANTS
    SpaceSize = 16
    ClockGranularity = 1
    MinRTO = 4
    MaxRTO = 24
    MaxDelayedAck = 4
    MaxTriggerDelay = 1
    MaxUnmatched = 1
    Opening <- CloseOpening
    Sends <- CloseSends
    Acks <- CloseAcks
    Gaps = {1, 4}
    MaxPackets = 5
SPECIFICATION Spec
INVARIANT BogusMeansCorrupt
CHECK_DEADLOCK FALSE
