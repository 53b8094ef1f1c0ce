CONSTANTS
    Key = {k1, k2}
    MaxValue = 2
    MaxTTL = 2
    Absent = Absent
    Never = Never
SPECIFICATION FairSpec
INVARIANT TypeOK
PROPERTIES
    ImplementsKVStore
    ExpiredEvicted
