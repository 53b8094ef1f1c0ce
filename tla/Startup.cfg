CONSTANTS
    Launch = {l1, l2, l3}
    Hosted = {l1}
    Client = {web, ios}
    NoClient = NoClient
    MaxAudiences = 2
SPECIFICATION Spec
CHECK_DEADLOCK FALSE
INVARIANTS
    TwoTokensExplained
    LockedOutExplained
    SchemaComplete
    VerdictRight
