CONSTANTS
    User = {u1}
    Token = {t1, t2}
    Req = {r1, r2}
    Route = {"me", "delete_account", "sign_in"}
    NoToken = NoToken
    NoGrant = NoGrant
    SingleConn = TRUE
    Faulty = TRUE
SPECIFICATION FairAuditSpec
INVARIANTS
    OneTokenPerKind
    StaleEntriesExplained
PROPERTIES
    LingeringEnds
    RequestsEnd
