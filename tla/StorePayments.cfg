SPECIFICATION Spec
CONSTANTS
    None = None
    Users = {u1}
    Products = {p1, p2}
    Orders = {o1}
    Threads = {t1, t2}
    Handlers = {"create", "cash", "checkout_momo", "ipn", "ship", "product_destroy"}
    Prices = {1}
    Quantities = {2}
    MaxCarts = 2
    MaxCrashes = 1
    Shifts <- TwoTabs
SYMMETRY Symmetry
 
 
INVARIANT LinesRefer
 
CHECK_DEADLOCK FALSE
