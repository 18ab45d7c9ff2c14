SPECIFICATION Spec
CONSTANTS
    MaxRooms = 2
    MaxBookings = 2
    MaxUnits = 2
    Kinds = {k1, k2}
    Capacities = {1, 2}
    Days = {1, 2}
    Threads = {t1, t2}
    Houses <- BookingHouses
SYMMETRY Symmetry
INVARIANT HotelInv
INVARIANT NeverOverbooked
INVARIANT BookingHasRoom
CHECK_DEADLOCK FALSE
