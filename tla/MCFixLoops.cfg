\* Both fix loops over every source and environment, faults at every call.
SPECIFICATION Spec
CONSTANTS
    MaxAge = 2
    Tolerance = 1
    Sources <- MCSources
    Envs <- MCEnvs
    MaxAttempts = 2
INVARIANTS
    TypeOK
    OfferedFixVerifies
    TargetStaysUsable
    ContainersAccountedFor
PROPERTIES
    KeepsPromise
CHECK_DEADLOCK FALSE
