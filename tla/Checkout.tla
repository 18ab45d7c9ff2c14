------------------------------ MODULE Checkout ------------------------------
(***************************************************************************)
(* The two checkouts: CartsController#cash, and #checkout_momo with the    *)
(* Momo::GetPaymentUrlService it calls; and the MoMo gateway as they see   *)
(* it.  Both start with the before_action total and share the order of the *)
(* writes, but cash loads the products after the bill is written, while    *)
(* the service loads them for the items it sends before the gateway call.  *)
(***************************************************************************)
EXTENDS Shop

VARIABLES
    sale,       \* the locals of a checkout
    gateway,    \* external: MoMo's view of each order
    notices     \* external: payment results MoMo (re)sends to /api/v1/bills

checkouts == {"cash", "checkout_momo"}

(***************************************************************************)
(* totalled: rows behind @total, amount: @total, counted: rows behind      *)
(* data_cart, found / prices: the loaded products, todo: those still to be *)
(* written as lines, line: the one being created.                          *)
(***************************************************************************)
Sale ==
    [totalled : SUBSET CartIds, amount : Breakdown, seen : Breakdown,
     counted : SUBSET CartIds, order : Orders \cup {None},
     found : SUBSET Products, prices : Breakdown, todo : SUBSET Products,
     line : Products \cup {None}]

NoSale ==
    [totalled |-> {}, amount |-> NoMoney, seen |-> NoMoney, counted |-> {},
     order |-> None, found |-> {}, prices |-> NoMoney, todo |-> {},
     line |-> None]

\* open: created but its payUrl not shown; payable: the customer has it.
GatewayOrder ==
    [st : {"unknown", "open", "payable", "paid", "failed"},
     amount : Breakdown, items : Breakdown]

NoOrder == [st |-> "unknown", amount |-> NoMoney, items |-> NoMoney]

Notice == [order : Orders, result : {"ok", "failed"}]

external == <<gateway, notices>>

EndSale(t) == Finish(t) /\ sale' = [sale EXCEPT ![t] = NoSale]

\* SecureRandom.hex(10) never repeats an order id.
FreshOrderReused(o) ==
    o \in shift.orders /\ gateway[o].st = "unknown" /\ \A t \in Threads : sale[t].order # o

FreshOrder(o) ==
    /\ o \in shift.orders /\ ~HasBill(o) /\ gateway[o].st = "unknown"
    /\ \A t \in Threads : sale[t].order # o

\* Bound: a checkout is only taken while there is an order id for it.
OrdersLeft ==
    Cardinality({t \in Threads : thread[t].h \in checkouts /\ sale[t].order = None})
        < Cardinality({o \in Orders : FreshOrder(o)})

-----------------------------------------------------------------------------
(***************************************************************************)
(* The before_action total: it loads the active rows ...                   *)
(***************************************************************************)
BeginCheckout(t, h, u) ==
    /\ Begin(t, h, u, "prices")
    /\ OrdersLeft
    /\ sale' = [sale EXCEPT ![t].totalled = ActiveCarts(u)]
    /\ UNCHANGED <<tables, crashes, external>>

(***************************************************************************)
(* ... then, in a second query, their products.  A row whose product is    *)
(* gone raises NoMethodError (nil.price) and ends the request.             *)
(***************************************************************************)
Total(t) ==
    LET on == ProductsOn(sale[t].totalled)
        cost(p) == products[p].price * Units(sale[t].totalled, p) IN
    /\ At(t, checkouts, "prices")
    /\ \/ /\ \A p \in on : IsLive(p)
          /\ Goto(t, "count")
          /\ sale' = [sale EXCEPT
                ![t].amount = [p \in Products |-> cost(p)],
                ![t].seen = [p \in Products |->
                                IF p \in on THEN products[p].price ELSE 0]]
       \/ (\E p \in on : ~IsLive(p)) /\ EndSale(t)
    /\ UNCHANGED <<tables, crashes, external>>

(***************************************************************************)
(* data_cart = carts.active.group(:product_id).count(:product_id), kept as *)
(* the rows it counts.                                                     *)
(***************************************************************************)
DataCartAll(u) == {c \in CartIds : carts[c].user = u}

DataCartDistinct(u) ==
    {c \in ActiveCarts(u) : \A d \in ActiveOf(u, carts[c].product) : c <= d}

DataCart(u) == ActiveCarts(u)

CountCarts(t) ==
    /\ At(t, checkouts, "count")
    /\ sale' = [sale EXCEPT ![t].counted = DataCart(thread[t].user)]
    /\ Goto(t, IF thread[t].h = "cash" THEN "bill" ELSE "load")
    /\ UNCHANGED <<tables, crashes, external>>

(***************************************************************************)
(* products = Product.where(id: data_cart.keys), when it is first          *)
(* iterated.  For the service it is the query total already made when the  *)
(* product ids are the same, so the query cache may answer it.             *)
(***************************************************************************)
LoadProducts(t) ==
    LET on == ProductsOn(sale[t].counted)
        live == {p \in on : IsLive(p)} IN
    /\ At(t, checkouts, "load")
    /\ \/ sale' = [sale EXCEPT
             ![t].found = live, ![t].todo = live,
             ![t].prices = [p \in Products |->
                               IF p \in live THEN products[p].price ELSE 0]]
       \/ /\ thread[t].h = "checkout_momo"
          /\ on = ProductsOn(sale[t].totalled)
          /\ sale' = [sale EXCEPT ![t].found = on, ![t].todo = on,
                                  ![t].prices = sale[t].seen]
    /\ Goto(t, IF thread[t].h = "cash" THEN "line" ELSE "call")
    /\ UNCHANGED <<tables, crashes, external>>

-----------------------------------------------------------------------------
(***************************************************************************)
(* The POST to MoMo's create endpoint with a fresh order id: accepted      *)
(* (resultCode 0), accepted with the answer lost (https.request raises),   *)
(* or refused or never received.  Only the first goes on to write a bill.  *)
(***************************************************************************)
ItemsOf(t) ==
    [p \in Products |-> IF p \in sale[t].found
                        THEN Units(sale[t].counted, p) ELSE 0]

CallGateway(t, o) ==
    /\ At(t, {"checkout_momo"}, "call")
    /\ FreshOrder(o)
    /\ gateway' = [gateway EXCEPT ![o] =
          [st |-> "open", amount |-> sale[t].amount, items |-> ItemsOf(t)]]
    /\ \/ Goto(t, "bill") /\ sale' = [sale EXCEPT ![t].order = o]
       \/ EndSale(t)
    /\ UNCHANGED <<tables, crashes, notices>>

GatewayRefuses(t) ==
    /\ At(t, {"checkout_momo"}, "call")
    /\ EndSale(t)
    /\ UNCHANGED <<tables, crashes, external>>

-----------------------------------------------------------------------------
(***************************************************************************)
(* Bill.create, for the order MoMo accepted or for a fresh cash order.     *)
(***************************************************************************)
CreateBill(t, o) ==
    /\ At(t, checkouts, "bill")
    /\ IF thread[t].h = "cash" THEN FreshOrder(o) ELSE o = sale[t].order
    /\ bills' = [bills EXCEPT ![o] = [NoBill EXCEPT
          !.st = IF thread[t].h = "cash" THEN "cash" ELSE "unpaid",
          !.user = thread[t].user, !.amount = sale[t].amount,
          !.rows = sale[t].counted]]
    /\ sale' = [sale EXCEPT ![t].order = o]
    /\ Goto(t, IF thread[t].h = "cash" THEN "load" ELSE "line")
    /\ UNCHANGED <<products, carts, lines, crashes, external>>

(***************************************************************************)
(* products.each: bill_products.create validates belongs_to :product with  *)
(* a fresh read.  A product gone by now leaves the line unsaved, silently. *)
(***************************************************************************)
ValidateLine(t, p) ==
    /\ At(t, checkouts, "line")
    /\ p \in sale[t].todo
    /\ \/ /\ IsLive(p)
          /\ Goto(t, "insert")
          /\ sale' = [sale EXCEPT ![t].todo = @ \ {p}, ![t].line = p]
       \/ /\ ~IsLive(p)
          /\ sale' = [sale EXCEPT ![t].todo = @ \ {p}]
          /\ UNCHANGED thread
    /\ UNCHANGED <<tables, crashes, external>>

(***************************************************************************)
(* The INSERT of the line.  When the product went away since the           *)
(* validation, the foreign key to products raises and ends the request:    *)
(* the bill stays, the carts stay active.                                  *)
(***************************************************************************)
LineUnitPrice(t, p) ==
    [quantity |-> Units(sale[t].counted, p), amount |-> sale[t].prices[p]]

Line(t, p) ==
    LET n == Units(sale[t].counted, p) IN
    [quantity |-> n, amount |-> sale[t].prices[p] * n]

InsertLine(t) ==
    LET p == sale[t].line IN
    /\ At(t, checkouts, "insert")
    /\ \/ /\ IsLive(p)
          /\ lines' = [lines EXCEPT ![sale[t].order][p] = Line(t, p)]
          /\ sale' = [sale EXCEPT ![t].line = None]
          /\ Goto(t, "line")
       \/ ~IsLive(p) /\ EndSale(t) /\ UNCHANGED lines
    /\ UNCHANGED <<products, carts, bills, crashes, external>>

(***************************************************************************)
(* carts.update_all status: :inactive, over every row of the customer.     *)
(* The cash page is then rendered; MoMo's customer still has to be         *)
(* redirected.                                                             *)
(***************************************************************************)
Deactivated(u) ==
    [c \in CartIds |-> IF c \in ActiveCarts(u)
                       THEN [carts[c] EXCEPT !.st = "inactive"] ELSE carts[c]]

AllLinesEarly(t) == TRUE

AllLines(t) == sale[t].todo = {}

SweepCarts(t) ==
    /\ At(t, checkouts, "line")
    /\ AllLines(t)
    /\ carts' = Deactivated(thread[t].user)
    /\ bills' = [bills EXCEPT ![sale[t].order].swept = TRUE]
    /\ \/ thread[t].h = "cash" /\ EndSale(t)
       \/ thread[t].h = "checkout_momo" /\ Goto(t, "redirect") /\ UNCHANGED sale
    /\ UNCHANGED <<products, lines, crashes, external>>

\* redirect_to momo["payUrl"]: from here on the customer can pay the order.
Redirect(t) ==
    /\ At(t, {"checkout_momo"}, "redirect")
    /\ gateway' = [gateway EXCEPT ![sale[t].order].st =
                       IF @ = "open" THEN "payable" ELSE @]
    /\ EndSale(t)
    /\ UNCHANGED <<tables, crashes, notices>>

-----------------------------------------------------------------------------
(***************************************************************************)
(* External: MoMo collects the money of an order whose payUrl was shown,   *)
(* or gives an order up (declined, expired); either way it notifies.       *)
(***************************************************************************)
GatewayCollects(o) ==
    /\ gateway[o].st = "payable"
    /\ gateway' = [gateway EXCEPT ![o].st = "paid"]
    /\ notices' = notices \cup {[order |-> o, result |-> "ok"]}
    /\ UNCHANGED <<tables, thread, crashes, sale>>

GatewayGivesUp(o) ==
    /\ gateway[o].st \in {"open", "payable"}
    /\ gateway' = [gateway EXCEPT ![o].st = "failed"]
    /\ notices' = notices \cup {[order |-> o, result |-> "failed"]}
    /\ UNCHANGED <<tables, thread, crashes, sale>>

CheckoutInit ==
    /\ sale = [t \in Threads |-> NoSale]
    /\ gateway = [o \in Orders |-> NoOrder]
    /\ notices = {}

CheckoutStep(t) ==
    \/ Total(t) \/ CountCarts(t) \/ LoadProducts(t)
    \/ \E o \in Orders : CallGateway(t, o) \/ CreateBill(t, o)
    \/ GatewayRefuses(t)
    \/ \E p \in Products : ValidateLine(t, p)
    \/ InsertLine(t) \/ SweepCarts(t) \/ Redirect(t)

CheckoutNext ==
    \/ \E t \in Threads, u \in Users, h \in checkouts : BeginCheckout(t, h, u)
    \/ \E t \in Threads : CheckoutStep(t)
    \/ \E o \in Orders : GatewayCollects(o) \/ GatewayGivesUp(o)
=============================================================================
