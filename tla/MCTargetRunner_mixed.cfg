\* Setting and object fixes in one batch.
SPECIFICATION Spec
CONSTANTS
    r1 = r1
    r2 = r2
    Runner = {r1, r2}
    Fixes = 3
    Cell <- MixedCell
    Changes <- MixedChanges
    Object = {3}
    RestartOnly = {"t"}
    Scope <- MixedScope
    Nobody = Nobody
INVARIANTS
    VerifiedStaysTrue
    OneWriter
