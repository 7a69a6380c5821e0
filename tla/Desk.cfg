SPECIFICATION DeskSpec
CONSTANTS
    Rides <- FourRides
    Seats <- SeatsWanted
    Metres <- MetresGone
    Pickup <- PickedUp
    Bearing <- Heading
    BaseFare = 2000
    PerKm = 1500
    DiscountPct = 20
    MaxBearingDiff = 45
    Capacity = 3
    FeedLimit = 2
    CancelLimit = 2
    Window = 1
    MaxClock = 3
INVARIANTS
    DeskTypeOK
    ChargedAsQuoted
    FareWithinBounds
    Corridor
    BoardAgrees
    NoticeHolds
    Warned
PROPERTIES
    CompanyHelps
