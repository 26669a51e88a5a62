SPECIFICATION FairSpec
CONSTANTS
    ProcNumbers = {1}
    Procs = {1}
    MaxContent = 4
    MaxStdin <- MCStdinSizes
    Stdin <- MCStdin
    Contents <- MCContents
    Bytes <- MCBytes
    Missing = Missing
    Hole = 0
    BufferSize = 2
    AllBytes = 99
    Offsets <- MCOffsets
    Counts <- MCCounts
INVARIANTS TypeOK Undamaged ExitTellsCount WrittenAsAsked
PROPERTIES Terminates
CHECK_DEADLOCK FALSE
