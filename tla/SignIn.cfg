CONSTANTS
    Person = {p1, p2}
    User = {u1, u2}
    Code = {k1, k2}
    Req = {r1, r2}
    NoUser = NoUser
    NoCode = NoCode
    NoPerson = NoPerson
SPECIFICATION FairSpec
INVARIANTS
    TypeOK
    OneUse
    SameAccount
    StrayUnused
PROPERTIES
    IdentityStays
    CodesEnd
