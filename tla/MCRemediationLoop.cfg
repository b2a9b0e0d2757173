\* One setting fix: every reproducible source, repeat and adaptive mode.
SPECIFICATION FairSpec
CONSTANTS
    Value = {"d", "w", "o"}
    Default = "d"
    Absent = Absent
    Wanted = "w"
    t1 = t1
    t1ws = t1ws
    t2 = t2
    t3 = t3
    Template <- MCTemplate
    Initial = t1
    Sql <- MCSql
    Literal <- MCLiteral
    Typed <- MCTyped
    MaxAlternatives = 2
    MaxAttempts = 3
INVARIANTS
    TypeOK
    VerifiedIsProven
    RollbackIsExact
    NoLeftovers
    NoSqlRepeated
    OnlyRetryableRetried
PROPERTIES
    Answers
    KeepsPromise
