CONSTANTS
    PageSize = 1
    Past = 1
    MaxRides = 2
    MaxFaults = 1
SPECIFICATION FairSpec
INVARIANTS AppTypeOK ReceiptIsFinal LiveRideIsFound
PROPERTIES OverStaysOver RefusedOnlyIfMoved EndIsShown
