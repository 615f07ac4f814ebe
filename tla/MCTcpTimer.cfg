CONSTANTS
    SpaceSize = 10
    ClockGranularity = 1
    MinRTO = 4
    MaxRTO = 24
    MaxDelayedAck = 4
    RTTs = {0, 1, 5}
    MaxWindow = 2
    MaxAdvance = 1
SPECIFICATION Spec
INVARIANTS TypeOK VariationOrder Bounded
PROPERTIES StaysSeeded
CHECK_DEADLOCK FALSE
