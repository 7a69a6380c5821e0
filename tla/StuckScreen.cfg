CONSTANTS
    PageSize = 1
    Past = 1
    MaxRides = 2
    MaxFaults = 0
SPECIFICATION Spec
INVARIANTS FormComesBack
