SPECIFICATION FairSpec
CONSTANTS
    a = a
    b = b
    r1 = r1
    r2 = r2
    r3 = r3
    u1 = u1
    u2 = u2
    Unborn = Unborn
    Gone = Gone
    Shells = {a, b}
    Rules = {r1, r2, r3}
    Users = {u1, u2}
    Lines <- MCLines
    PageSize = 2
INVARIANTS TypeOK ListsAll
PROPERTIES QueueServiceSpec OthersOnlyIfHanded ProgramsEnd
CHECK_DEADLOCK FALSE
