SPECIFICATION Spec
CONSTANTS
    Rides <- TwoRides
    Pools = {p1, p2}
    Drivers = {"jashim"}
    Passengers = {"nusrat", "rafiq"}
    Areas = {"Banani"}
    Tx = {t1, t2}
    Owner <- TwoOwners
    Seats <- ThreeSeats
    Pickup <- OnePickup
    SameWay <- AllSameWay
    Method <- MixedMethods
    Price <- TwoPrices
    Capacity <- SmallFleet
    InitialBalance <- PooledMoney
    CancelLimit = 2
    Null = Null
SYMMETRY Symmetry
INVARIANTS
    OnePoolPerDriver
