CONSTANTS
    Caller = {c1, c2, c3}
    Max = 3
    Window = 4
    Absent = Absent
    Never = Never
SPECIFICATION FairSpec
INVARIANTS
    TwiceTheLimit
    ExpiryUnderWay
PROPERTY BlockedUntilReset
