CONSTANTS
    OptionLists <- ShortOptions
    Payloads = {0}
    OtherHeaders = {}
    Junk <- Zeros
    Frames <- MCFrames
    OtherFrames = {}
SPECIFICATION CapturedSpec
INVARIANT WhatFollowsIsNotBogus
CHECK_DEADLOCK FALSE
