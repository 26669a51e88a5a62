SPECIFICATION FairSpec
CONSTANTS
    Tools = {"iadmin", "iticket", "igroupadmin"}
    MaxLines = 3
INVARIANTS TypeOK ExitTells FourAfterFailure ReadsNoCommand
PROPERTIES Terminates
CHECK_DEADLOCK FALSE
