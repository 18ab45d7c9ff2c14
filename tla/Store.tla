-------------------------------- MODULE Store --------------------------------
(***************************************************************************)
(* The shop as one system: customers' carts and checkouts, the MoMo        *)
(* gateway, its notifications, staff shipping bills and editing the        *)
(* catalogue, and restarts of the web process, all interleaved.            *)
(***************************************************************************)
EXTENDS Carts, Checkout, Bills, Catalog

vars == <<tables, thread, crashes, item, sale, external, mark, edit, shift>>

\* The catalogue starts with products staff created earlier, or not yet.
Init ==
    /\ products \in [Products ->
          {NoProduct} \cup {Live(p, q) : p \in Prices, q \in Quantities}]
    /\ shift \in Shifts
    /\ \A p \in Products :
          products[p] = NoProduct \/ Stocked(p, products[p].price, products[p].quantity)
    /\ carts = [c \in CartIds |-> NoCart]
    /\ bills = [o \in Orders |-> NoBill]
    /\ lines = [o \in Orders |-> [p \in Products |-> NoLine]]
    /\ thread = [t \in Threads |-> Idle]
    /\ crashes = 0
    /\ CartsInit /\ CheckoutInit /\ BillsInit /\ CatalogInit

BillsNext ==
    \/ \E t \in Threads, n \in notices : FindBill(t, "ipn", n.order, n.result)
    \/ \E t \in Threads, o \in Orders : FindBill(t, "ship", o, "none")
    \/ \E t \in Threads : BillsStep(t)

(***************************************************************************)
(* The single Puma worker restarts: every request in flight is lost, every *)
(* committed statement stays.                                              *)
(***************************************************************************)
Crash ==
    /\ crashes < MaxCrashes
    /\ crashes' = crashes + 1
    /\ \E t \in Threads : thread[t] # Idle
    /\ thread' = [t \in Threads |-> Idle]
    /\ item' = [t \in Threads |-> NoItem]
    /\ sale' = [t \in Threads |-> NoSale]
    /\ mark' = [t \in Threads |-> NoMark]
    /\ edit' = [t \in Threads |-> NoEdit]
    /\ UNCHANGED <<tables, external>>

Next ==
    /\ \/ CartsNext /\ UNCHANGED <<sale, external, mark, edit>>
       \/ CheckoutNext /\ UNCHANGED <<item, mark, edit>>
       \/ BillsNext /\ UNCHANGED <<item, sale, external, edit>>
       \/ CatalogNext /\ UNCHANGED <<item, sale, external, mark>>
       \/ Crash
    /\ UNCHANGED shift

Spec == Init /\ [][Next]_vars

(***************************************************************************)
(* A thread that serves a request goes on with it; MoMo resends a payment  *)
(* result until it is acknowledged, and Puma's queue starves no request.   *)
(***************************************************************************)
StepOf(t) ==
    /\ \/ CartsStep(t) /\ UNCHANGED <<sale, external, mark, edit>>
       \/ CheckoutStep(t) /\ UNCHANGED <<item, mark, edit>>
       \/ BillsStep(t) /\ UNCHANGED <<item, sale, external, edit>>
       \/ CatalogStep(t) /\ UNCHANGED <<item, sale, external, mark>>
    /\ UNCHANGED shift

Redelivers(o) ==
    /\ [order |-> o, result |-> "ok"] \in notices
    /\ \E t \in Threads : FindBill(t, "ipn", o, "ok")
    /\ UNCHANGED <<item, sale, external, edit, shift>>

FairSpec ==
    /\ Spec
    /\ \A t \in Threads : WF_vars(StepOf(t))
    /\ \A o \in Orders : SF_vars(Redelivers(o))

-----------------------------------------------------------------------------
\* Every table, and the locals of every request, hold values of their type.
TypeOK ==
    /\ products \in [Products -> ProductRow]
    /\ carts \in [CartIds -> CartRow]
    /\ bills \in [Orders -> BillRow]
    /\ lines \in [Orders -> [Products -> LineRow]]
    /\ thread \in [Threads -> ThreadState]
    /\ crashes \in 0..MaxCrashes
    /\ item \in [Threads -> Item]
    /\ sale \in [Threads -> Sale]
    /\ gateway \in [Orders -> GatewayOrder]
    /\ notices \subseteq Notice
    /\ mark \in [Threads -> BillMark]
    /\ edit \in [Threads -> Edit]
    /\ shift \in Shifts

\* The bill of o agrees with what MoMo was told of the order.
BillComplete(o) ==
    /\ HasBill(o)
    /\ bills[o].amount = gateway[o].amount
    /\ \A p \in Products : gateway[o].items[p] > 0 =>
          \/ lines[o][p].quantity = gateway[o].items[p]
          \/ products[p].st = "gone"

(***************************************************************************)
(* Whatever interleaves (catalogue edits, other checkouts, restarts), an   *)
(* order whose payUrl a customer holds has its bill, for the amount MoMo   *)
(* will charge, and every item sent to MoMo is a line of the bill with     *)
(* that quantity unless its product was destroyed (GetPaymentUrlService    *)
(* writes the bill before checkout_momo redirects).                        *)
(***************************************************************************)
PayableBillComplete ==
    \A o \in Orders : gateway[o].st \in {"payable", "paid"} => BillComplete(o)

(***************************************************************************)
(* A line always belongs to a bill that exists and to a product that is    *)
(* still sold, however the destroy of a product and the lines of running   *)
(* checkouts interleave (dependent: :destroy and the two foreign keys).    *)
(***************************************************************************)
LinesRefer ==
    \A o \in Orders, p \in Products :
        HasLine(o, p) => HasBill(o) /\ products[p].st = "live"

(***************************************************************************)
(* What makes the two above inductive.  A row that was given out keeps its *)
(* product for good, and nobody works on a row that was not given out.     *)
(***************************************************************************)
RowsKept ==
    /\ \A c \in CartIds : carts[c].st # "none" =>
          carts[c].product \in Products /\ products[carts[c].product].st # "new"
    /\ \A t \in Threads :
          /\ thread[t].h \in {"create", "update_quantity"} =>
                item[t].product \in Products /\ products[item[t].product].st # "new"
          /\ item[t].victim \in CartIds => carts[item[t].victim].st # "none"
          /\ \A c \in edit[t].carts \cup sale[t].counted : carts[c].st # "none"
          /\ sale[t].found \subseteq ProductsOn(sale[t].counted)
          /\ sale[t].found # {} =>
                thread[t].h \in checkouts /\ thread[t].pc \notin {"prices", "count"}

\* The line of p is written, or its product is gone.
LineDone(t, p) ==
    \/ lines[sale[t].order][p].quantity = Units(sale[t].counted, p)
    \/ products[p].st = "gone"

(***************************************************************************)
(* ... and a checkout owns its order id: no other thread and no payment    *)
(* touches it, and what it has written so far agrees with its locals and   *)
(* with what it told the gateway.                                          *)
(***************************************************************************)
OwnsOrder(t) ==
    LET o == sale[t].order
        pc == thread[t].pc IN
    /\ \A other \in Threads \ {t} : sale[other].order # o
    /\ \/ /\ thread[t].h = "cash" /\ pc \in {"load", "line", "insert"}
          /\ gateway[o].st = "unknown"
       \/ /\ thread[t].h = "checkout_momo" /\ pc \in {"bill", "line", "insert", "redirect"}
          /\ gateway[o].st \in {"open", "failed"}
          /\ gateway[o].amount = sale[t].amount /\ gateway[o].items = ItemsOf(t)
    /\ pc = "bill" => ~HasBill(o)
    /\ pc # "bill" => HasBill(o) /\ bills[o].amount = sale[t].amount
    /\ pc \in {"line", "insert", "redirect"} =>
          \A p \in sale[t].found \ sale[t].todo :
             (pc = "insert" /\ p = sale[t].line) \/ LineDone(t, p)
    /\ pc = "redirect" => sale[t].todo = {}

\* A checkout has its order from the moment the gateway took it (MoMo) or the
\* bill is written (cash), and no line is done before the bill is.
OrderOwned(t) ==
    /\ sale[t].order # None => OwnsOrder(t)
    /\ \/ At(t, {"cash"}, "load")
       \/ At(t, checkouts, "line") \/ At(t, checkouts, "insert")
       \/ At(t, {"checkout_momo"}, "redirect") \/ At(t, {"checkout_momo"}, "bill")
       => sale[t].order # None
    /\ At(t, {"checkout_momo"}, "call") \/ At(t, {"checkout_momo"}, "bill") =>
          sale[t].todo = sale[t].found

OrdersOwned == \A t \in Threads : OrderOwned(t)

\* A notification or a shipment in flight is about a bill that exists.
MarksRefer == \A t \in Threads : mark[t].order # None => HasBill(mark[t].order)

(***************************************************************************)
(* What the ledger rests on: only a bill is shipped, a cash order is       *)
(* unknown to MoMo, and MoMo's notifications, sent or being handled, are   *)
(* about orders it knows.                                                  *)
(***************************************************************************)
OrdersKnown ==
    /\ \A o \in Orders : bills[o].shipped => HasBill(o)
    /\ \A o \in Orders : bills[o].st = "cash" => gateway[o].st = "unknown"
    /\ \A n \in notices : gateway[n.order].st # "unknown"
    /\ \A t \in Threads : thread[t].h = "ipn" =>
          mark[t].order \in Orders /\ gateway[mark[t].order].st # "unknown"

(***************************************************************************)
(* The inductive invariant: at every step of every checkout its order is   *)
(* its own, its locals describe the bill written so far, payable orders    *)
(* have complete bills, lines have their bill and product, and MoMo only   *)
(* tells of orders of its own                                              *)
(* (GetPaymentUrlService, CartsController#cash, ProductsController#destroy)*)
(***************************************************************************)
SafetyInv ==
    /\ TypeOK /\ RowsKept /\ OrdersOwned /\ MarksRefer /\ OrdersKnown
    /\ PayableBillComplete /\ LinesRefer

(***************************************************************************)
(* When a customer waits for each page, the checkout about to empty the    *)
(* cart takes no row out of it that data_cart did not count.               *)
(***************************************************************************)
SweepsOnlyCounted ==
    shift.oneTab => \A t \in Threads : At(t, checkouts, "line") =>
        ActiveCarts(thread[t].user) \subseteq sale[t].counted

(***************************************************************************)
(* When a customer waits for each page, no unit in a cart is charged by    *)
(* two checkouts that both ran to the end (cash and checkout_momo count    *)
(* only active rows and deactivate them).                                  *)
(***************************************************************************)
BilledOnce ==
    shift.oneTab => \A o1, o2 \in Orders :
        o1 # o2 /\ bills[o1].swept /\ bills[o2].swept =>
            bills[o1].rows \cap bills[o2].rows = {}

(***************************************************************************)
(* When a customer waits for each page, the rows create or update_quantity *)
(* is about to insert fit, with those in the cart, into the stock the      *)
(* request read.                                                           *)
(***************************************************************************)
AddsWithinStock ==
    shift.oneTab => \A t \in Threads : thread[t].pc \in {"insert", "validate"} /\ item[t].left > 0 =>
        Cardinality(ActiveOf(thread[t].user, item[t].product)) + item[t].left
            <= item[t].limit

(***************************************************************************)
(* "You can't add more than ... products to your cart": the active rows of *)
(* a product never outnumber its stock (while staff leave the stock        *)
(* alone).                                                                 *)
(***************************************************************************)
CartWithinStock ==
    \A u \in Users, p \in Products : products[p].st = "live" =>
        Cardinality(ActiveOf(u, p)) <= products[p].quantity

(***************************************************************************)
(* With one thread, the total of a bill whose checkout ran to the end is   *)
(* the sum of its lines, product by product, save for products destroyed   *)
(* since (total and the lines use two separate reads of the prices).       *)
(***************************************************************************)
AmountIsLines ==
    shift.oneThread => \A o \in Orders, p \in Products :
        bills[o].swept /\ products[p].st # "gone" =>
            bills[o].amount[p] = lines[o][p].amount

(***************************************************************************)
(* With one thread, no active row of a cart is left without its product,   *)
(* which would make every total, and so every checkout, raise.             *)
(***************************************************************************)
ActiveCartHasProduct ==
    shift.oneThread => \A c \in CartIds : carts[c].st = "active" => IsLive(carts[c].product)

(***************************************************************************)
(* The shop implements the ledger of its bills.                            *)
(***************************************************************************)
Ledger == INSTANCE BillLedger WITH
    Amounts <- Breakdown,
    Zero <- NoMoney,
    status <- [o \in Orders |-> bills[o].st],
    due <- [o \in Orders |-> bills[o].amount],
    taken <- {<<o, gateway[o].amount>> : o \in {x \in Orders : gateway[x].st = "paid"}},
    shipped <- {o \in Orders : bills[o].shipped}

(***************************************************************************)
(* Whatever interleaves, bills follow the ledger: MoMo only collects for a *)
(* bill that exists and exactly its amount; a notification and a staff     *)
(* save of the same bill never undo each other (partial writes).           *)
(***************************************************************************)
KeepsLedger == Ledger!Spec

(***************************************************************************)
(* A payment MoMo collected is eventually recorded as paid with its        *)
(* result, across restarts, shipping and notifications.                    *)
(***************************************************************************)
PaymentRecorded ==
    \A o \in Orders :
        gateway[o].st = "paid" ~> bills[o].st = "paid" /\ bills[o].result = "ok"
=============================================================================
