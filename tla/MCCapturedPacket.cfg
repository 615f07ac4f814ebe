CONSTANTS
    OptionLists <- MCOptionLists
    Payloads = {0, 3}
    OtherHeaders <- MCOtherHeaders
    Junk <- MCJunk
    Frames <- MCFrames
    OtherFrames <- MCOtherFrames
SPECIFICATION CapturedSpec
INVARIANTS TypeOK CutIsNotBogus OptionsAsCaptured UnknownFromFirstCut SackNotOverlooked
PROPERTIES Parsed
CHECK_DEADLOCK FALSE
