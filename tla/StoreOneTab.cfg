SPECIFICATION Spec
CONSTANTS
    None = None
    Users = {u1}
    Products = {p1, p2}
    Orders = {o1, o2}
    Threads = {t1, t2}
    Handlers = {"create", "update_quantity", "destroy", "cash", "checkout_momo", "product_create", "product_update", "product_destroy"}
    Prices = {1, 2}
    Quantities = {0, 2}
    MaxCarts = 2
    MaxCrashes = 1
    Shifts <- OneTab
SYMMETRY Symmetry
INVARIANT SweepsOnlyCounted
INVARIANT BilledOnce
INVARIANT AddsWithinStock
INVARIANT AmountIsLines
INVARIANT ActiveCartHasProduct
CHECK_DEADLOCK FALSE
