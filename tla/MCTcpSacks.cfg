\* Sequence numbers 0 .. 9: a window of 3 holds two blocks that do not touch, at
\* every place of the space; up to two blocks per header.
CONSTANTS
    SpaceSize = 10
    Behind = 1
    Ahead = 2
    MaxCaptured = 2
SPECIFICATION Spec
INVARIANTS TypeOK SortedAndApart SettledNumBytes HoldsWhatWasAdded
PROPERTIES ImplementsSackedBytes
CHECK_DEADLOCK FALSE
