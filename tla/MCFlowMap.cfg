CONSTANTS
    MinMSS = 2
    MaxMSS = 4
    MaxSegments = 4
    TimestampBytes = 2
    WordSize = 32
    Segments <- FileSegments
    MaxPackets = 5
SPECIFICATION Spec
INVARIANTS TypeOK SortedIntoFlows UsesPeersMSS SplitExactly
PROPERTIES BogusSenderStops
CHECK_DEADLOCK FALSE
