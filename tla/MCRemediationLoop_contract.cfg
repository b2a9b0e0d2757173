\* Is a contract error of the apply phase always the end of the run?
SPECIFICATION Spec
CONSTANTS
    Value = {"d", "w", "o"}
    Default = "d"
    Absent = Absent
    Wanted = "w"
    t1 = t1
    t1ws = t1ws
    t2 = t2
    t3 = t3
    Template <- MCTemplate
    Initial = t1
    Sql <- MCSql
    Literal <- MCLiteral
    Typed <- MCTyped
    MaxAlternatives = 2
    MaxAttempts = 3
INVARIANT ContractTerminates
