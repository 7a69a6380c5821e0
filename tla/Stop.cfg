SPECIFICATION FairSpec
CONSTANTS
    Conns = {c1, c2, c3}
    Reasons <- TwoReasons
    CodeOf <- ReasonCode
    Registered <- TwoHooks
\* A process that has ended does nothing more.
CHECK_DEADLOCK FALSE
INVARIANTS
    HooksUnwind
PROPERTIES
    EndsCleanly
    NoNewClients
    StopsUnlessClientsStay
