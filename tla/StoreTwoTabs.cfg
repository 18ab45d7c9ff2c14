SPECIFICATION Spec
CONSTANTS
    None = None
    Users = {u1}
    Products = {p1}
    Orders = {o1}
    Threads = {t1, t2}
    Handlers = {"create", "update_quantity", "destroy"}
    Prices = {1}
    Quantities = {1}
    MaxCarts = 2
    MaxCrashes = 0
    Shifts <- TwoTabs
INVARIANT CartWithinStock
CHECK_DEADLOCK FALSE
