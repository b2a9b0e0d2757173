\* Two requests on three handles, two slots, one bundle kept in memory.
SPECIFICATION FairSpec
CONSTANTS
    c1 = c1
    c2 = c2
    h1 = h1
    h2 = h2
    h3 = h3
    Call = {c1, c2}
    Handle = {h1, h2, h3}
    Direct = Direct
    Limit = 2
    Capacity = 1
INVARIANTS
    TypeOK
    RunsOnce
    RunningStays
    ReadyIsDownloadable
    AnsweredIsRecorded
PROPERTIES
    SlotsComeFree
