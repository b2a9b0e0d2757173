\* Two catalog fixes of one chained setting: every guard sees the other fix.
SPECIFICATION FairSpec
CONSTANTS
    r1 = r1
    r2 = r2
    Runner = {r1, r2}
    Fixes = 2
    Cell <- ChainCell
    Changes <- ChainChanges
    Object = {}
    RestartOnly = {"preload"}
    Scope <- ChainScope
    Nobody = Nobody
INVARIANTS
    TypeOK
    PrecedingInEffect
    VerifiedStaysTrue
PROPERTIES
    LockComesFree
