-------------------------------- MODULE Shop --------------------------------
(***************************************************************************)
(* The shop's tables and the Puma threads that serve its requests.  Every  *)
(* request is a sequence of SQL statements; a statement outside a          *)
(* transaction, and a whole create/update/destroy, commits on its own, so  *)
(* one step of a thread is one such unit and the steps of two requests     *)
(* interleave freely.                                                      *)
(***************************************************************************)
EXTENDS Naturals, FiniteSets

CONSTANTS
    Users,      \* customers
    Products,   \* rows the products table may ever hold
    Orders,     \* order ids that SecureRandom may draw
    Threads,    \* Puma threads (RAILS_MAX_THREADS)
    Handlers,   \* the request kinds that arrive in this instance
    Prices,     \* prices staff may type
    Quantities, \* stock quantities staff or customers may type
    Shifts,     \* the circumstances Init chooses from, see Shift
    MaxCarts,   \* bound: rows ever inserted into carts
    MaxCrashes, \* bound: restarts of the web process
    None        \* no customer, product or order

HandlerNames ==
    {"create", "update_quantity", "destroy", "cash", "checkout_momo", "ipn",
     "ship", "product_create", "product_update", "product_destroy"}

(***************************************************************************)
(* Whether a customer waits for a page before the next click, whether the  *)
(* process has one thread, and the products, prices, quantities and order  *)
(* ids in use.                                                             *)
(***************************************************************************)
Shift ==
    [oneTab : BOOLEAN, oneThread : BOOLEAN, products : SUBSET Products,
     prices : SUBSET Prices, quantities : SUBSET Quantities, orders : SUBSET Orders]

ASSUME ShopAssumption ==
    /\ Prices \subseteq Nat /\ Quantities \subseteq Nat
    /\ MaxCarts \in Nat /\ MaxCrashes \in Nat
    /\ Shifts \subseteq Shift
    /\ Handlers \subseteq HandlerNames
    /\ None \notin Users /\ None \notin Products /\ None \notin Orders

VARIABLES
    products,   \* the products table
    carts,      \* the carts table: one row per unit put into a cart
    bills,      \* the bills table, by order_id
    lines,      \* the bill_products table, by bill and product
    thread,     \* what each Puma thread is serving, and for whom
    crashes,    \* restarts so far
    shift       \* the member of Shifts chosen; it stays as it is

tables == <<products, carts, bills, lines>>

CartIds == 1..MaxCarts

(***************************************************************************)
(* A product that was destroyed is "gone": ids are never reused.           *)
(***************************************************************************)
ProductRow ==
    [st : {"new", "live", "gone"}, price : Nat, quantity : Nat]

(***************************************************************************)
(* "none" is an id not yet given out, "deleted" a row destroyed since; the *)
(* enum of the model is active / inactive.                                 *)
(***************************************************************************)
CartRow ==
    [st : {"none", "active", "inactive", "deleted"},
     user : Users \cup {None}, product : Products \cup {None}]

NoCart == [st |-> "none", user |-> None, product |-> None]

(***************************************************************************)
(* Money is kept per product, as the summands of the total: equal          *)
(* breakdowns have equal sums.  rows and swept are history: the cart rows  *)
(* the checkout counted, and whether it went on to empty the cart.         *)
(***************************************************************************)
Breakdown == [Products -> Nat]

NoMoney == [p \in Products |-> 0]

BillRow ==
    [st : {"none", "unpaid", "paid", "cash"}, user : Users \cup {None},
     shipped : BOOLEAN, result : {"none", "ok", "failed"},
     amount : Breakdown, rows : SUBSET CartIds, swept : BOOLEAN]

NoBill ==
    [st |-> "none", user |-> None, shipped |-> FALSE, result |-> "none",
     amount |-> NoMoney, rows |-> {}, swept |-> FALSE]

\* A line counts at least one unit, so quantity 0 means there is no row.
LineRow == [quantity : Nat, amount : Nat]

NoLine == [quantity |-> 0, amount |-> 0]

\* The statement a request is about to execute.
Statements ==
    {"idle", "count", "insert", "validate", "first", "destroy", "prices", "load",
     "call", "bill", "line", "redirect", "update", "commit"}

ThreadState ==
    [h : HandlerNames \cup {"idle"}, pc : Statements, user : Users \cup {None}]

Idle == [h |-> "idle", pc |-> "idle", user |-> None]

-----------------------------------------------------------------------------
(***************************************************************************)
(* What the queries of several controllers return.                         *)
(***************************************************************************)
HasBill(o) == bills[o].st # "none"

HasLine(o, p) == lines[o][p].quantity > 0

IsLive(p) == p \in Products /\ products[p].st = "live"

\* current_user.carts.active
ActiveCarts(u) == {c \in CartIds : carts[c].st = "active" /\ carts[c].user = u}

\* current_user.carts.active.where(product_id: p)
ActiveOf(u, p) == {c \in ActiveCarts(u) : carts[c].product = p}

\* The product ids on a set of cart rows, and how many rows each has.
ProductsOn(rows) == {p \in Products : \E c \in rows : carts[c].product = p}

Units(rows, p) == Cardinality({c \in rows : carts[c].product = p})

-----------------------------------------------------------------------------
(***************************************************************************)
(* Requests.  A thread takes a request when it is free (with one thread,   *)
(* when nothing is being served) and the handler's kind arrives in this    *)
(* instance; with one tab no customer has two requests in flight.          *)
(***************************************************************************)
MayServe(u) == shift.oneTab /\ u # None => \A t \in Threads : thread[t].user # u

Free(t) ==
    /\ thread[t].h = "idle"
    /\ shift.oneThread => \A other \in Threads : thread[other].h = "idle"

Begin(t, h, u, pc) ==
    /\ h \in Handlers
    /\ Free(t)
    /\ MayServe(u)
    /\ thread' = [thread EXCEPT ![t] = [h |-> h, pc |-> pc, user |-> u]]

\* A request of one statement is served by any free thread, within one step.
Serves(h) == h \in Handlers /\ \E t \in Threads : Free(t)

At(t, hs, pc) == thread[t].h \in hs /\ thread[t].pc = pc

Goto(t, pc) == thread' = [thread EXCEPT ![t].pc = pc]

\* The response is sent, or an exception ends the request with a 500.
Finish(t) == thread' = [thread EXCEPT ![t] = Idle]
=============================================================================
