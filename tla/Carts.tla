-------------------------------- MODULE Carts --------------------------------
(***************************************************************************)
(* CartsController: create, update_quantity and destroy.  The checkouts of *)
(* the same controller are in module Checkout.                             *)
(***************************************************************************)
EXTENDS Shop

\* The locals of a request that changes a cart: the product, the stock that
\* set_product read, the units wanted, the create!/destroy! calls left, and
\* the row that carts_active.first returned.
VARIABLE item

Item ==
    [product : Products \cup {None}, limit : Nat, wanted : Nat, left : Nat,
     victim : CartIds \cup {0}]

NoItem == [product |-> None, limit |-> 0, wanted |-> 0, left |-> 0, victim |-> 0]

EndItem(t) == Finish(t) /\ item' = [item EXCEPT ![t] = NoItem]

\* Bound: a request is only taken while its inserts fit under MaxCarts.
IdsLeft(wanted) ==
    Cardinality(UNION {{t} \X (1..item[t].wanted) : t \in Threads}) + wanted
        <= Cardinality({c \in CartIds : carts[c].st = "none"})

-----------------------------------------------------------------------------
(***************************************************************************)
(* set_product.  A product that is not there is a 404 and changes nothing. *)
(* update_quantity refuses a quantity above the stock at once; create asks *)
(* for one unit.                                                           *)
(***************************************************************************)
FindProduct(t, h, u, p, wanted) ==
    /\ h \in {"create", "update_quantity"}
    /\ Begin(t, h, u, "count")
    /\ IdsLeft(wanted)
    /\ IsLive(p)
    /\ h = "create" => wanted = 1
    /\ h = "update_quantity" => wanted <= products[p].quantity
    /\ item' = [item EXCEPT ![t] = [NoItem EXCEPT
                   !.product = p, !.limit = products[p].quantity,
                   !.wanted = wanted]]
    /\ UNCHANGED <<tables, crashes>>

(***************************************************************************)
(* create counts the active rows of the product: at the stock it answers   *)
(* "You can't add more than ...", otherwise it inserts one row.            *)
(***************************************************************************)
AtStockOffByOne(t, n) == n > item[t].limit

AtStock(t, n) == n >= item[t].limit

CountForCreate(t) ==
    LET n == Cardinality(ActiveOf(thread[t].user, item[t].product)) IN
    /\ At(t, {"create"}, "count")
    /\ \/ AtStock(t, n) /\ EndItem(t)
       \/ /\ ~AtStock(t, n)
          /\ Goto(t, "insert")
          /\ item' = [item EXCEPT ![t].left = 1]
    /\ UNCHANGED <<tables, crashes>>

(***************************************************************************)
(* update_quantity counts once (the query cache answers the repeated count)*)
(* and then inserts or destroys the difference.                            *)
(***************************************************************************)
CountForUpdate(t) ==
    LET n == Cardinality(ActiveOf(thread[t].user, item[t].product))
        wanted == item[t].wanted IN
    /\ At(t, {"update_quantity"}, "count")
    /\ \/ /\ wanted > n
          /\ Goto(t, "insert")
          /\ item' = [item EXCEPT ![t].left = wanted - n]
       \/ /\ wanted < n
          /\ Goto(t, "first")
          /\ item' = [item EXCEPT ![t].left = n - wanted]
       \/ wanted = n /\ EndItem(t)
    /\ UNCHANGED <<tables, crashes>>

(***************************************************************************)
(* create! of one row: the next auto-increment id.  The first create! is   *)
(* validated against the product set_product loaded, which the query cache *)
(* still holds; every insert clears the cache.                             *)
(***************************************************************************)
CreateCart(t) ==
    /\ At(t, {"create", "update_quantity"}, "insert")
    /\ \E c \in CartIds :
          /\ carts[c].st = "none" /\ \A d \in CartIds : d < c => carts[d].st # "none"
          /\ carts' = [carts EXCEPT ![c] =
                [st |-> "active", user |-> thread[t].user,
                 product |-> item[t].product]]
    /\ \/ item[t].left = 1 /\ EndItem(t)
       \/ /\ item[t].left > 1
          /\ Goto(t, "validate")
          /\ item' = [item EXCEPT ![t].left = @ - 1]
    /\ UNCHANGED <<products, bills, lines, crashes>>

(***************************************************************************)
(* belongs_to :product of the next create! reads the table again; a        *)
(* missing product raises RecordInvalid and ends the request.              *)
(***************************************************************************)
ValidateCart(t) ==
    /\ At(t, {"update_quantity"}, "validate")
    /\ \/ IsLive(item[t].product) /\ Goto(t, "insert") /\ UNCHANGED item
       \/ ~IsLive(item[t].product) /\ EndItem(t)
    /\ UNCHANGED <<tables, crashes>>

(***************************************************************************)
(* carts_active.first: the active row of the lowest id.  When there is     *)
(* none left, nil.destroy! ends the request.                               *)
(***************************************************************************)
FirstCart(t) ==
    LET rows == ActiveOf(thread[t].user, item[t].product) IN
    /\ At(t, {"update_quantity"}, "first")
    /\ \/ rows = {} /\ EndItem(t)
       \/ \E c \in rows :
             /\ \A d \in rows : c <= d
             /\ Goto(t, "destroy")
             /\ item' = [item EXCEPT ![t].victim = c]
    /\ UNCHANGED <<tables, crashes>>

(***************************************************************************)
(* destroy! deletes by id, whatever became of the row; it does not raise   *)
(* when the row is already deleted.                                        *)
(***************************************************************************)
DestroyCart(t) ==
    /\ At(t, {"update_quantity"}, "destroy")
    /\ carts' = [carts EXCEPT ![item[t].victim].st = "deleted"]
    /\ \/ item[t].left = 1 /\ EndItem(t)
       \/ /\ item[t].left > 1
          /\ Goto(t, "first")
          /\ item' = [item EXCEPT ![t].left = @ - 1]
    /\ UNCHANGED <<products, bills, lines, crashes>>

(***************************************************************************)
(* destroy: one UPDATE over the customer's active rows of the product.     *)
(***************************************************************************)
RemoveCarts(u, p) ==
    /\ Serves("destroy")
    /\ MayServe(u)
    /\ ActiveOf(u, p) # {}
    /\ carts' = [c \in CartIds |->
          IF c \in ActiveOf(u, p) THEN [carts[c] EXCEPT !.st = "inactive"]
                                  ELSE carts[c]]
    /\ UNCHANGED <<products, bills, lines, thread, crashes, item>>

CartsInit == item = [t \in Threads |-> NoItem]

CartsStep(t) ==
    \/ CountForCreate(t) \/ CountForUpdate(t) \/ CreateCart(t)
    \/ ValidateCart(t) \/ FirstCart(t) \/ DestroyCart(t)

CartsNext ==
    \/ \E t \in Threads, u \in Users, p \in Products :
          \/ FindProduct(t, "create", u, p, 1)
          \/ \E q \in Quantities \cap shift.quantities : FindProduct(t, "update_quantity", u, p, q)
    \/ \E t \in Threads : CartsStep(t)
    \/ \E u \in Users, p \in Products : RemoveCarts(u, p)
=============================================================================
