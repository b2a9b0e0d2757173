\* Is "running or was rejected" true of the handle it is said of?
SPECIFICATION Spec
CONSTANTS
    c1 = c1
    c2 = c2
    h1 = h1
    h2 = h2
    h3 = h3
    Call = {c1, c2}
    Handle = {h1, h2, h3}
    Direct = Direct
    Limit = 2
    Capacity = 1
INVARIANT RefusalIsTrue
