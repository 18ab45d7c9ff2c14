------------------------------- MODULE Catalog -------------------------------
(***************************************************************************)
(* ProductsController: staff create, edit and destroy products while       *)
(* customers shop.                                                         *)
(***************************************************************************)
EXTENDS Shop

\* The locals of a destroy: the product, and the carts and bills whose
\* dependent rows it loaded.
VARIABLE edit

Edit ==
    [product : Products \cup {None}, carts : SUBSET CartIds, orders : SUBSET Orders]

NoEdit == [product |-> None, carts |-> {}, orders |-> {}]

NoProduct == [st |-> "new", price |-> 0, quantity |-> 0]

EndEdit(t) == Finish(t) /\ edit' = [edit EXCEPT ![t] = NoEdit]

\* Bound: the products, prices and quantities of this behaviour.
Stocked(p, price, quantity) ==
    p \in shift.products /\ price \in shift.prices /\ quantity \in shift.quantities

Live(price, quantity) == [st |-> "live", price |-> price, quantity |-> quantity]

-----------------------------------------------------------------------------
\* create: Product.new(product_params).save
CreateProduct(p, price, quantity) ==
    /\ Serves("product_create") /\ Stocked(p, price, quantity)
    /\ products[p].st = "new"
    /\ products' = [products EXCEPT ![p] = Live(price, quantity)]
    /\ UNCHANGED <<carts, bills, lines, thread, crashes, edit>>

(***************************************************************************)
(* update loads the row and then writes the columns that differ from the   *)
(* form (none when the row is gone by then); as the form may hold any      *)
(* values, that is one write of any values.                                *)
(***************************************************************************)
UpdateProduct(p, price, quantity) ==
    /\ Serves("product_update") /\ Stocked(p, price, quantity)
    /\ IsLive(p)
    /\ products' = [products EXCEPT ![p] = Live(price, quantity)]
    /\ UNCHANGED <<carts, bills, lines, thread, crashes, edit>>

\* load_and_authorize_resource and set_product of destroy.
FindForDestroy(t, p) ==
    /\ Begin(t, "product_destroy", None, "load")
    /\ IsLive(p)
    /\ edit' = [edit EXCEPT ![t].product = p]
    /\ UNCHANGED <<tables, crashes>>

(***************************************************************************)
(* destroy opens a transaction; its first SELECT fixes the snapshot from   *)
(* which dependent: :destroy reads the carts and the bill lines ...        *)
(***************************************************************************)
NoDependentCarts(p) == {}

DependentCarts(p) ==
    {c \in CartIds : carts[c].product = p /\ carts[c].st \in {"active", "inactive"}}

LoadDependents(t) ==
    LET p == edit[t].product IN
    /\ At(t, {"product_destroy"}, "load")
    /\ Goto(t, "commit")
    /\ edit' = [edit EXCEPT
          ![t].carts = DependentCarts(p),
          ![t].orders = {o \in Orders : HasLine(o, p)}]
    /\ UNCHANGED <<tables, crashes>>

(***************************************************************************)
(* ... which it deletes one by one, and then the product.  A line inserted *)
(* since the snapshot makes the foreign key refuse, and everything is      *)
(* rolled back.  No foreign key protects a cart row inserted since.        *)
(***************************************************************************)
NoForeignKey(t, p) == TRUE

ForeignKeyHolds(t, p) == \A o \in Orders : HasLine(o, p) => o \in edit[t].orders

DestroyProduct(t) ==
    LET p == edit[t].product IN
    /\ At(t, {"product_destroy"}, "commit")
    /\ \/ /\ ForeignKeyHolds(t, p)
          /\ products' = [products EXCEPT ![p].st = "gone"]
          /\ carts' = [c \in CartIds |-> IF c \in edit[t].carts
                THEN [carts[c] EXCEPT !.st = "deleted"] ELSE carts[c]]
          /\ lines' = [o \in Orders |-> IF o \in edit[t].orders
                THEN [lines[o] EXCEPT ![p] = NoLine] ELSE lines[o]]
       \/ ~ForeignKeyHolds(t, p) /\ UNCHANGED <<products, carts, lines>>
    /\ EndEdit(t)
    /\ UNCHANGED <<bills, crashes>>

CatalogInit == edit = [t \in Threads |-> NoEdit]

CatalogStep(t) == LoadDependents(t) \/ DestroyProduct(t)

CatalogNext ==
    \/ \E p \in Products, price \in Prices, quantity \in Quantities :
          CreateProduct(p, price, quantity) \/ UpdateProduct(p, price, quantity)
    \/ \E t \in Threads, p \in Products : FindForDestroy(t, p)
    \/ \E t \in Threads : CatalogStep(t)
=============================================================================
