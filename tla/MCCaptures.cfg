CONSTANTS
    SpaceSize = 16
    ClockGranularity = 1
    MinRTO = 4
    MaxRTO = 24
    MaxDelayedAck = 4
    MaxTriggerDelay = 1
    MaxUnmatched = 1
    Opening <- AllOpening
    Sends <- AllSends
    Acks <- AllAcks
    Gaps <- AllGaps
    MaxPackets = 7
SPECIFICATION CaptureSpec
INVARIANTS TypeOK TimersFollowUnacked RecoveryMark TriggerSound MinRTTIsMin
           AckedOnce LinesOK AttemptsCounted BytesCounted BogusMeansUnseen
PROPERTIES  AckIsFinal
CHECK_DEADLOCK FALSE
