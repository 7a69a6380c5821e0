SPECIFICATION Spec
CONSTANTS
    Rides <- Asking
    Pools = {p1, p2}
    Drivers = {"jashim", "kamal"}
    Passengers = {"nusrat"}
    Areas = {"Banani"}
    Tx = {t1, t2}
    Owner <- SameOwner
    Seats <- TwoSeatsEach
    Pickup <- AskingPickup
    SameWay <- AskingWay
    Method <- AskingMethod
    Price <- AskingPrices
    Capacity <- SmallFleet
    InitialBalance <- OneRideMoney
    CancelLimit = 2
    Null = Null
SYMMETRY Symmetry
INVARIANTS
    TypeOK
    OneTrip
    InStepUnlessLeftBehind
    OneActiveRideUnlessRevived
    LedgerBalances
    CancelHoldsDeadTrip
    NobodyWaitsInACircle
PROPERTIES
    LegalUnlessRevived
    ImplementsPromise
