CONSTANTS
    MaxPost = 2
    Setup = {{"webhook"}, {"openclaw"}}
    Faulty = TRUE
SPECIFICATION FairSpec
CHECK_DEADLOCK FALSE
INVARIANTS
    TypeOK
    AcknowledgedArrived
PROPERTIES
    DeliveriesEnd
    OlderOnlyIfOverlapping
    ImplementsRelay
