SPECIFICATION Spec
CONSTANTS
    Rides <- ThreeRides
    Pools = {p1}
    Drivers = {"jashim"}
    Passengers = {"nusrat", "rafiq", "shirin"}
    Areas = {"Banani"}
    Tx = {t1, t2}
    Owner <- ThreeOwners
    Seats <- LastSeats
    Pickup <- OneArea
    SameWay <- EveryWay
    Method <- OneByWallet
    Price <- ThreePrices
    Capacity <- SmallFleet
    InitialBalance <- PooledMoney
    CancelLimit = 2
    Null = Null
SYMMETRY Symmetry
INVARIANTS
    NoOversell
    SeatsReconcile
    OneStory
PROPERTIES
    FareIsFinal
    ImplementsPromise
