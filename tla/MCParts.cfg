CONSTANTS
    SpaceSize = 64
    ClockGranularity = 1
    MinRTO = 4
    MaxRTO = 24
    MaxDelayedAck = 4
    MaxTriggerDelay = 1
    MaxUnmatched = 1
    NumSamples = 4
    WordSize = 1024
    RateUnit = 8
    Opening <- AllSends
    Sends <- AllSends
    Acks <- AllAcks
    Gaps <- AllGaps
    MaxPackets = 11
    MaxSeqs = {0, 4}
    SeqLists <- AllSeqs
SPECIFICATION TwiceSpec
INVARIANT PartsWithinOverall
CHECK_DEADLOCK FALSE
