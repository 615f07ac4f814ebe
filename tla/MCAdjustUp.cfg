CONSTANTS
    SpaceSize = 16
    ClockGranularity = 1
    MinRTO = 4
    MaxRTO = 24
    MaxDelayedAck = 4
    MaxTriggerDelay = 1
    MaxUnmatched = 1
    Opening <- CutOpening
    Sends <- CutSends
    Acks <- CutAcks
    Gaps = {1, 4}
    MaxPackets = 6
SPECIFICATION Spec
PROPERTY CorrectedDownwards
CHECK_DEADLOCK FALSE
