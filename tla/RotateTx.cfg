CONSTANTS
    Rot = {r1, r2, r3}
    Del = {d1}
    Old = {o1, o2}
    Nobody = Nobody
    Faulty = TRUE
SPECIFICATION FairSpec
CHECK_DEADLOCK FALSE
INVARIANTS
    WaitsAreResolved
    DeadlockExplained
PROPERTIES
    ImplementsTables
    TransactionsEnd
