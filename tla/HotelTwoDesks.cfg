SPECIFICATION Spec
CONSTANTS
    MaxRooms = 1
    MaxBookings = 2
    MaxUnits = 1
    Kinds = {k1}
    Capacities = {1}
    Days = {1, 2}
    Threads = {t1, t2}
    Houses <- TwoDesksHouses
SYMMETRY Symmetry
INVARIANT NeverOverbooked
