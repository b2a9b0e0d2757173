\* Every batch of two or three of seven fixes, in every order.
SPECIFICATION FairSpec
CONSTANTS
    Fix = {1, 2, 3, 4, 5, 6, 7}
    Kind <- MCKind
    Cell = {"collector", "directory", "preload", "pgaudit", "role"}
    Changes <- MCChanges
    Chainable = {"preload"}
    RestartOnly = {"collector", "preload"}
    Depends <- MCDepends
    Rank <- MCRank
    MaxBatch = 3
INVARIANTS
    TypeOK
    VerifiedIsProven
    RollbackIsExact
    ExportIsTested
    NoLeftovers
PROPERTIES
    Answers
    KeepsPromise
