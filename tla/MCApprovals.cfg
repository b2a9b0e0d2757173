\* Requests of two reviewers in two threads, one crash.
SPECIFICATION Spec
CONSTANTS
    Threads = {t1, t2}
    People = {"ana", "ben"}
    Contents = {"c1", "c2"}
    MaxRequests = 3
    MaxCrashes = 1
INVARIANTS
    TypeOK
    ConfirmedProfileStays
PROPERTIES
    KeepsLedger
CHECK_DEADLOCK FALSE
