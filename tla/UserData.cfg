CONSTANTS
    Req = {r1, r2}
    Config = {c1}
    NoConfig = NoConfig
    Failed = Failed
    Absent = Absent
    Faulty = TRUE
SPECIFICATION FairAuditSpec
CHECK_DEADLOCK FALSE
INVARIANTS
    TypeOK
    StaleConfigExplained
PROPERTIES
    ReplacedForgotten
    NothingLingers
