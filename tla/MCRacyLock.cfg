SPECIFICATION RacySpec
CONSTANTS
    Callers = {t1, t2, t3}
    Cells = {c1, c2, c3}
    Null = Null
    Calls = 2
INVARIANTS
    BorrowsAreTheValue
    OwnedOnce
PROPERTIES
    ForceReturns
