CONSTANTS
    SpaceSize = 16
    ClockGranularity = 1
    MinRTO = 4
    MaxRTO = 24
    MaxDelayedAck = 4
    MaxTriggerDelay = 1
    MaxUnmatched = 1
    Opening <- TimeoutOpening
    Sends <- TimeoutSends
    Acks <- TimeoutAcks
    Gaps = {1, 4, 8}
    MaxPackets = 5
SPECIFICATION Spec
INVARIANT AckEndsBackoff
CHECK_DEADLOCK FALSE
