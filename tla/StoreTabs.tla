----------------------------- MODULE StoreTabs ------------------------------
(***************************************************************************)
(* What customers who wait for each page and a server of one thread are    *)
(* promised, for any customers, products, orders, threads and bounds:      *)
(* every step of Store keeps TabInv and ThreadInv.  (shift.oneTab and      *)
(* shift.oneThread; with two tabs or two threads it does not hold.)        *)
(***************************************************************************)
EXTENDS StoreTypes

-----------------------------------------------------------------------------
(***************************************************************************)
(* Customers who wait for each page: nobody's checkout sweeps a row it did *)
(* not count, no row is billed twice, and no request puts more into a cart *)
(* than the stock it read.                                                 *)
(***************************************************************************)

\* A request of a customer knows the customer.
UserKnown(t) == thread[t].h \in adders \cup checkouts => thread[t].user \in Users

\* Only a request that adds has rows to insert, and what update_quantity
\* wants is within the stock it read.
ItemFits(t) ==
    /\ thread[t].h \notin adders => item[t].left = 0
    /\ thread[t].h = "update_quantity" => item[t].wanted <= item[t].limit

\* A checkout counts rows of its customer, and its bill, once written, names
\* both.
SaleOwn(t) ==
    /\ thread[t].h \notin checkouts => sale[t] = NoSale
    /\ \A c \in sale[t].counted : carts[c].user = thread[t].user
    /\ sale[t].order # None /\ thread[t].pc # "bill" =>
          /\ bills[sale[t].order].rows = sale[t].counted
          /\ bills[sale[t].order].user = thread[t].user

\* The rows of a bill are its customer's, and inactive once they were swept.
BillRowsOwn(o) ==
    \A c \in bills[o].rows :
        /\ carts[c].st # "none" /\ carts[c].user = bills[o].user
        /\ bills[o].swept => carts[c].st # "active"

\* No customer has two requests in flight.
OneRequest ==
    \A t1, t2 \in Threads :
        t1 # t2 /\ thread[t1].user # None => thread[t1].user # thread[t2].user

\* The statements of a checkout between data_cart and the sweep.
beforeSweep == {"bill", "load", "call", "line", "insert"}

CountsAll(t) ==
    thread[t].h \in checkouts /\ thread[t].pc \in beforeSweep =>
        ActiveCarts(thread[t].user) \subseteq sale[t].counted

\* No row that a checkout counts was on a bill before.
CountsNew(t) ==
    \A o \in Orders : bills[o].swept /\ o # sale[t].order =>
        bills[o].rows \cap sale[t].counted = {}

(***************************************************************************)
(* The inductive invariant.                                                *)
(***************************************************************************)
TabInv ==
    /\ \A t \in Threads : UserKnown(t) /\ ItemFits(t) /\ SaleOwn(t)
    /\ \A o \in Orders : BillRowsOwn(o)
    /\ shift.oneTab => OneRequest /\ \A t \in Threads : CountsAll(t) /\ CountsNew(t)
    /\ BilledOnce
    /\ AddsWithinStock

-----------------------------------------------------------------------------
(***************************************************************************)
(* What a step does to a thread.                                           *)
(***************************************************************************)
\* It goes on for the same customer, ends, or begins when nobody else is at it.
Moves(x) ==
    \/ thread'[x].h = thread[x].h /\ thread'[x].user = thread[x].user
    \/ thread'[x] = Idle
    \/ /\ thread[x].h = "idle" /\ MayServe(thread'[x].user)
       /\ thread'[x].h \in adders \cup checkouts => thread'[x].user \in Users
       /\ \A y \in Threads \ {x} : thread'[y] = thread[y]

\* Every step moves a thread in one of those ways.
LEMMA ThreadMoves ==
  ASSUME TypeOK, [Next]_vars, NEW x \in Threads
  PROVE  Moves(x)
  <1>0. thread \in [Threads -> ThreadState]
    BY DEF TypeOK
  <1>1. ASSUME NEW t \in Threads, NEW h, NEW u, NEW pc, Begin(t, h, u, pc),
               h \in adders \cup checkouts => u \in Users
        PROVE  Moves(x)
    <2>1. CASE x = t
      BY <1>0, <1>1, <2>1, Zenon DEF Begin, Free, Moves
    <2>2. CASE x # t
      BY <1>0, <1>1, <2>2 DEF Begin, Moves
    <2>3. QED
      BY <2>1, <2>2
  <1>2. ASSUME NEW t \in Threads, NEW pc, Goto(t, pc)
        PROVE  Moves(x)
    BY <1>0, <1>2 DEF Goto, ThreadState, Moves
  <1>3. ASSUME NEW t \in Threads, Finish(t)
        PROVE  Moves(x)
    BY <1>0, <1>3 DEF Finish, Moves
  <1>4. CASE UNCHANGED thread
    BY <1>4 DEF Moves
  <1>5. CASE CartsNext
    <2>1. ASSUME NEW t \in Threads, CartsStep(t)
          PROVE  Finish(t) \/ \E pc : Goto(t, pc)
      BY <2>1, Zenon DEF CartsStep, CountForCreate, CountForUpdate, CreateCart, ValidateCart,
             FirstCart, DestroyCart, EndItem
    <2>2. ASSUME NEW t \in Threads, NEW h, NEW u \in Users, NEW p, NEW q,
                 FindProduct(t, h, u, p, q)
          PROVE  Moves(x)
      BY <1>1, <2>2 DEF FindProduct
    <2>3. QED
      BY <1>2, <1>3, <1>4, <1>5, <2>1, <2>2, Zenon DEF CartsNext, RemoveCarts
  <1>6. CASE CheckoutNext
    <2>1. ASSUME NEW t \in Threads, CheckoutStep(t)
          PROVE  Finish(t) \/ (\E pc : Goto(t, pc)) \/ UNCHANGED thread
      BY <2>1, Zenon DEF CheckoutStep, Total, CountCarts, LoadProducts, CallGateway, GatewayRefuses,
             CreateBill, ValidateLine, InsertLine, SweepCarts, Redirect, EndSale
    <2>2. ASSUME NEW t \in Threads, NEW u \in Users, NEW h \in checkouts, BeginCheckout(t, h, u)
          PROVE  Moves(x)
      BY <1>1, <2>2 DEF BeginCheckout
    <2>3. QED
      BY <1>2, <1>3, <1>4, <1>6, <2>1, <2>2, Zenon DEF CheckoutNext, GatewayCollects, GatewayGivesUp
  <1>7. CASE BillsNext
    <2>1. ASSUME NEW t \in Threads, BillsStep(t)
          PROVE  Finish(t)
      BY <2>1, Zenon DEF BillsStep, UpdatePaid, UpdateShipped, EndMark
    <2>2. ASSUME NEW t \in Threads, NEW h \in {"ipn", "ship"}, NEW o, NEW r, FindBill(t, h, o, r)
          PROVE  Moves(x)
      BY <1>1, <2>2 DEF FindBill, adders, checkouts
    <2>3. QED
      BY <1>3, <1>7, <2>1, <2>2 DEF BillsNext
  <1>8. CASE CatalogNext
    <2>1. ASSUME NEW t \in Threads, CatalogStep(t)
          PROVE  Finish(t) \/ \E pc : Goto(t, pc)
      BY <2>1, Zenon DEF CatalogStep, LoadDependents, DestroyProduct, EndEdit
    <2>2. ASSUME NEW t \in Threads, NEW p, FindForDestroy(t, p)
          PROVE  Moves(x)
      BY <1>1, <2>2 DEF FindForDestroy, adders, checkouts
    <2>3. QED
      BY <1>2, <1>3, <1>4, <1>8, <2>1, <2>2, Zenon DEF CatalogNext, CreateProduct, UpdateProduct
  <1>9. CASE Crash
    BY <1>9 DEF Crash, Moves
  <1>10. QED
    BY <1>4, <1>5, <1>6, <1>7, <1>8, <1>9, Zenon DEF Next, vars

\* So customers stay known, and with one tab each has one request in flight.
LEMMA NextUsers ==
  ASSUME TypeOK, [Next]_vars, \A t \in Threads : UserKnown(t)
  PROVE  /\ \A t \in Threads : UserKnown(t)'
         /\ shift.oneTab /\ OneRequest => OneRequest'
  <1>1. ASSUME NEW t \in Threads PROVE UserKnown(t)'
    <2>1. Moves(t) /\ UserKnown(t)
      BY ThreadMoves
    <2>2. QED
      BY <2>1 DEF Moves, UserKnown, Idle, adders, checkouts
  <1>2. ASSUME shift.oneTab, OneRequest, NEW t1 \in Threads, NEW t2 \in Threads,
               t1 # t2, thread'[t1].user # None
        PROVE  thread'[t1].user # thread'[t2].user
    <2>1. Moves(t1) /\ Moves(t2)
      BY ThreadMoves
    <2>2. ASSUME NEW x \in Threads, NEW y \in Threads, x # y,
                 MayServe(thread'[x].user), thread'[y] = thread[y],
                 thread'[x].user = thread'[y].user, thread'[x].user # None
          PROVE  FALSE
      BY <1>2, <2>2 DEF MayServe
    <2>3. Idle.user = None
      BY DEF Idle
    <2>4. QED
      BY <1>2, <2>1, <2>2, <2>3, Zenon DEF Moves, OneRequest
  <1>3. QED
    BY <1>1, <1>2, Zenon DEF OneRequest

-----------------------------------------------------------------------------
(***************************************************************************)
(* What a step does to the cart rows.                                      *)
(***************************************************************************)
\* A row in use stays its customer's, and an inactive one stays inactive.
LEMMA RowsFade ==
  ASSUME TypeOK, [Next]_vars, NEW c \in CartIds, carts[c].st # "none"
  PROVE  Fades(c)
  BY CartMoves, Zenon DEF Inserts, Fades

\* A cart grows by a request of its customer only.
LEMMA CartGrows ==
  ASSUME TypeOK, [Next]_vars, NEW u,
         \A t \in Threads : thread[t].h \in adders => thread[t].user # u
  PROVE  /\ ActiveCarts(u)' \subseteq ActiveCarts(u)
         /\ \A p : ActiveOf(u, p)' \subseteq ActiveOf(u, p)
  <1>1. CASE \A c \in CartIds : Fades(c)
    BY <1>1, Zenon DEF Fades, ActiveCarts, ActiveOf
  <1>2. ASSUME NEW t \in Threads, NEW n \in CartIds, Inserts(t, n)
        PROVE  /\ ActiveCarts(u)' \subseteq ActiveCarts(u)
               /\ \A p : ActiveOf(u, p)' \subseteq ActiveOf(u, p)
    <2>1. thread[t].user # u
      BY <1>2, Zenon DEF Inserts, CreateCart, At, adders
    <2>2. carts'[n].user # u /\ \A c \in CartIds \ {n} : carts'[c] = carts[c]
      BY <1>2, <2>1 DEF Inserts
    <2>3. QED
      BY <2>2, Zenon DEF ActiveCarts, ActiveOf
  <1>3. QED
    BY <1>1, <1>2, CartMoves

-----------------------------------------------------------------------------
(***************************************************************************)
(* Whose threads a component's steps are.                                  *)
(***************************************************************************)
\* Staff and notifications leave the customers' requests alone.
LEMMA StaffThreads ==
  ASSUME TypeOK, BillsNext \/ CatalogNext, NEW x \in Threads
  PROVE  \/ thread'[x] = thread[x]
         \/ thread[x].h \notin adders \cup checkouts /\ thread'[x].h \notin adders \cup checkouts
  <1> DEFINE hs == {"idle", "ipn", "ship", "product_destroy"}
             Same == \/ thread'[x] = thread[x]
                     \/ /\ thread[x].h \notin adders \cup checkouts
                        /\ thread'[x].h \notin adders \cup checkouts
  <1>0. thread \in [Threads -> ThreadState]
    BY DEF TypeOK
  <1>1. ASSUME NEW t \in Threads, thread[t].h \in hs, NEW pc, Goto(t, pc)
        PROVE  Same
    BY <1>0, <1>1 DEF checkouts, adders, Goto, ThreadState
  <1>2. ASSUME NEW t \in Threads, NEW h \in hs, NEW u, NEW pc, Begin(t, h, u, pc)
        PROVE  Same
    BY <1>0, <1>2, Zenon DEF Begin, Free, checkouts, adders
  <1>3. ASSUME NEW t \in Threads, thread[t].h \in hs, Finish(t)
        PROVE  Same
    BY <1>0, <1>3 DEF Finish, Idle, checkouts, adders
  <1>4. "ipn" \in hs /\ "ship" \in hs /\ "product_destroy" \in hs
    OBVIOUS
  <1>5. UNCHANGED thread => Same
    OBVIOUS
  <1> HIDE DEF hs, Same
  <1>6. CASE BillsNext
    <2>1. ASSUME NEW t \in Threads, BillsStep(t)
          PROVE  thread[t].h \in hs /\ Finish(t)
      BY <1>4, <2>1, Zenon DEF BillsStep, UpdatePaid, UpdateShipped, EndMark, At
    <2>2. Same
      BY <1>2, <1>3, <1>4, <1>6, <2>1, Zenon DEF BillsNext, FindBill
    <2>3. QED
      BY <2>2 DEF Same
  <1>7. CASE CatalogNext
    <2>1. ASSUME NEW t \in Threads, CatalogStep(t)
          PROVE  thread[t].h \in hs /\ (Finish(t) \/ \E pc : Goto(t, pc))
      BY <1>4, <2>1, Zenon DEF CatalogStep, LoadDependents, DestroyProduct, EndEdit, At
    <2>2. Same
      BY <1>1, <1>2, <1>3, <1>4, <1>5, <1>7, <2>1, Zenon
         DEF CatalogNext, FindForDestroy, CreateProduct, UpdateProduct
    <2>3. QED
      BY <2>2 DEF Same
  <1>8. QED
    BY <1>6, <1>7, Zenon

-----------------------------------------------------------------------------
(***************************************************************************)
(* What a step does to a bill's rows.                                      *)
(***************************************************************************)
\* Nobody creates the bill of another checkout's order.
LEMMA CreatesOwn ==
  ASSUME OrdersOwned, NEW x \in Threads, NEW t \in Threads, NEW o, BillCreated(t, o),
         sale[x].order = o, o # None
  PROVE  t = x
  <1>1. CASE thread[t].h = "cash"
    BY <1>1, Zenon DEF BillCreated, CreateBill, FreshOrder
  <1>2. CASE thread[t].h # "cash"
    <2>1. sale[t].order = o
      BY <1>2, Zenon DEF BillCreated, CreateBill
    <2>2. QED
      BY <2>1, OrdersApart
  <1>3. QED
    BY <1>1, <1>2

-----------------------------------------------------------------------------
(***************************************************************************)
(* SaleOwn.                                                                *)
(***************************************************************************)
\* A step of a checkout keeps what it counted, unless it counts or ends.
GoesOn(t) ==
    /\ sale'[t].counted = sale[t].counted
    /\ thread'[t].h = thread[t].h /\ thread'[t].user = thread[t].user
    /\ thread'[t].pc # "bill" => sale'[t].order = sale[t].order /\ thread[t].pc # "bill"
    /\ thread'[t].pc = "bill" => sale[t].order = None
    /\ thread'[t].pc \in beforeSweep => thread[t].pc \in beforeSweep

\* The ways in which a step of a checkout treats its locals.
LEMMA CheckoutMoves ==
  ASSUME TypeOK, OrdersOwned, NEW t \in Threads, CheckoutStep(t)
  PROVE  EndSale(t) \/ CountCarts(t) \/ (\E n \in Orders : CreateBill(t, n)) \/ GoesOn(t)
  <1>0. /\ thread \in [Threads -> ThreadState] /\ sale \in [Threads -> Sale]
        /\ thread[t] \in ThreadState /\ sale[t] \in Sale
    BY DEF TypeOK
  <1>1. ASSUME Total(t), ~EndSale(t)
        PROVE  GoesOn(t)
    <2>1. \E a, s : sale' = [sale EXCEPT ![t].amount = a, ![t].seen = s]
      BY <1>1, ZenonT(40) DEF Total
    <2>2. sale'[t].counted = sale[t].counted /\ sale'[t].order = sale[t].order
      BY <1>0, <2>1 DEF Sale
    <2>3. thread' = [thread EXCEPT ![t].pc = "count"] /\ thread[t].pc = "prices"
      BY <1>1, Zenon DEF Total, Goto, At
    <2>4. QED
      BY <1>0, <2>2, <2>3 DEF GoesOn, ThreadState, beforeSweep
  <1>2. ASSUME LoadProducts(t)
        PROVE  GoesOn(t)
    <2>1. \E f, m : sale' = [sale EXCEPT ![t].found = f, ![t].todo = f, ![t].prices = m]
      BY <1>2, Zenon DEF LoadProducts
    <2>2. sale'[t].counted = sale[t].counted /\ sale'[t].order = sale[t].order
      BY <1>0, <2>1 DEF Sale
    <2>3. /\ thread' = [thread EXCEPT ![t].pc = IF thread[t].h = "cash" THEN "line" ELSE "call"]
          /\ thread[t].pc = "load"
      BY <1>2, Zenon DEF LoadProducts, Goto, At
    <2>4. QED
      BY <1>0, <2>2, <2>3 DEF GoesOn, ThreadState, beforeSweep
  <1>3. ASSUME NEW n \in Orders, CallGateway(t, n), ~EndSale(t)
        PROVE  GoesOn(t)
    <2>1. sale' = [sale EXCEPT ![t].order = n]
      BY <1>3 DEF CallGateway
    <2>2. sale'[t].counted = sale[t].counted
      BY <1>0, <2>1 DEF Sale
    <2>3. thread' = [thread EXCEPT ![t].pc = "bill"] /\ At(t, {"checkout_momo"}, "call")
      BY <1>3 DEF CallGateway, Goto
    <2>4. sale[t].order = None
      BY <2>3, Zenon DEF OrdersOwned, OrderOwned, OwnsOrder, At
    <2>5. QED
      BY <1>0, <2>2, <2>3, <2>4 DEF GoesOn, ThreadState, beforeSweep, At
  <1>4. ASSUME NEW p \in Products, ValidateLine(t, p)
        PROVE  GoesOn(t)
    <2>1. \/ sale' = [sale EXCEPT ![t].todo = @ \ {p}, ![t].line = p]
          \/ sale' = [sale EXCEPT ![t].todo = @ \ {p}]
      BY <1>4, Zenon DEF ValidateLine
    <2>2. sale'[t].counted = sale[t].counted /\ sale'[t].order = sale[t].order
      BY <1>0, <2>1 DEF Sale
    <2>3. /\ thread' = [thread EXCEPT ![t].pc = "insert"] \/ thread' = thread
          /\ thread[t].pc = "line"
      BY <1>4, Zenon DEF ValidateLine, Goto, At
    <2>4. QED
      BY <1>0, <2>2, <2>3 DEF GoesOn, ThreadState, beforeSweep
  <1>5. ASSUME InsertLine(t), ~EndSale(t)
        PROVE  GoesOn(t)
    <2>1. /\ sale' = [sale EXCEPT ![t].line = None]
          /\ thread' = [thread EXCEPT ![t].pc = "line"] /\ thread[t].pc = "insert"
      BY <1>5, Zenon DEF InsertLine, Goto, At
    <2>2. sale'[t].counted = sale[t].counted /\ sale'[t].order = sale[t].order
      BY <1>0, <2>1 DEF Sale
    <2>3. QED
      BY <1>0, <2>1, <2>2, Zenon DEF GoesOn, ThreadState, beforeSweep
  <1>6. ASSUME SweepCarts(t), ~EndSale(t)
        PROVE  GoesOn(t)
    <2>1. sale' = sale /\ thread' = [thread EXCEPT ![t].pc = "redirect"] /\ thread[t].pc = "line"
      BY <1>6, Zenon DEF SweepCarts, Goto, At
    <2>2. QED
      BY <1>0, <2>1 DEF GoesOn, ThreadState, beforeSweep
  <1>7. QED
    BY <1>1, <1>2, <1>3, <1>4, <1>5, <1>6, Zenon DEF CheckoutStep, GatewayRefuses, Redirect

\* A request that does not move keeps its part.
LEMMA SaleStays ==
  ASSUME TypeOK, RowsKept, OrdersOwned, [Next]_vars, NEW x \in Threads, SaleOwn(x),
         sale'[x] = sale[x],
         \/ thread'[x] = thread[x]
         \/ thread[x].h \notin checkouts /\ thread'[x].h \notin checkouts
  PROVE  SaleOwn(x)'
  <1>0. /\ sale[x].counted \subseteq CartIds /\ sale[x].order \in Orders \cup {None}
        /\ \A c \in sale[x].counted : carts[c].st # "none"
    BY Zenon DEF TypeOK, Sale, RowsKept
  <1>1. CASE thread[x].h \notin checkouts /\ thread'[x].h \notin checkouts
    <2>1. sale'[x] = NoSale
      BY <1>1, Zenon DEF SaleOwn
    <2>2. QED
      BY <1>1, <2>1 DEF SaleOwn, NoSale
  <1>2. CASE thread'[x] = thread[x]
    <2>1. \A c \in sale[x].counted : carts'[c].user = carts[c].user
      BY <1>0, RowsFade, Zenon DEF Fades
    <2>2. ASSUME sale[x].order # None, thread[x].pc # "bill"
          PROVE  /\ bills'[sale[x].order].rows = bills[sale[x].order].rows
                 /\ bills'[sale[x].order].user = bills[sale[x].order].user
      <3>1. PICK o \in Orders : o = sale[x].order
        BY <1>0, <2>2, Zenon
      <3>2. ASSUME NEW t \in Threads, BillCreated(t, o)
            PROVE  FALSE
        <4>1. t = x
          BY <2>2, <3>1, <3>2, CreatesOwn, Zenon
        <4>2. QED
          BY <2>2, <3>2, <4>1, Zenon DEF BillCreated, CreateBill, At
      <3>3. QED
        BY <3>1, <3>2, BillMoves, Zenon DEF BillKept, BillSwept
    <2>3. QED
      BY <1>2, <2>1, <2>2, Zenon DEF SaleOwn
  <1>3. QED
    BY <1>1, <1>2, Zenon

\* The checkout that moves keeps it too.
LEMMA SaleActs ==
  ASSUME TypeOK, RowsKept, OrdersOwned, [Next]_vars, NEW t \in Threads, SaleOwn(t),
         CheckoutStep(t)
  PROVE  SaleOwn(t)'
  <1>0. /\ sale[t].counted \subseteq CartIds /\ sale[t].order \in Orders \cup {None}
        /\ \A c \in sale[t].counted : carts[c].st # "none"
        /\ sale \in [Threads -> Sale] /\ thread \in [Threads -> ThreadState]
        /\ thread[t].h \in checkouts
    BY Zenon DEF TypeOK, Sale, RowsKept, CheckoutStep, Total, CountCarts, LoadProducts, CallGateway,
           CreateBill, GatewayRefuses, ValidateLine, InsertLine, SweepCarts, Redirect, At,
           checkouts
  <1>c. \A c \in sale[t].counted : carts'[c].user = carts[c].user
    BY <1>0, RowsFade, Zenon DEF Fades
  <1>1. CASE EndSale(t)
    <2>1. sale'[t] = NoSale
      BY <1>0, <1>1 DEF EndSale
    <2>2. QED
      BY <2>1 DEF SaleOwn, NoSale
  <1>2. CASE CountCarts(t)
    <2>1. /\ sale' = [sale EXCEPT ![t].counted = ActiveCarts(thread[t].user)]
          /\ thread[t].pc = "count" /\ UNCHANGED carts
      BY <1>2 DEF CountCarts, DataCart, At, tables
    <2>2. sale[t].order = None
      BY <2>1, Zenon DEF OrdersOwned, OrderOwned, OwnsOrder
    <2>3. sale'[t].counted = ActiveCarts(thread[t].user) /\ sale'[t].order = None
      BY <1>0, <2>1, <2>2 DEF Sale
    <2>4. thread'[t].h = thread[t].h /\ thread'[t].user = thread[t].user
      BY <1>0, <1>2, Zenon DEF CountCarts, Goto, ThreadState
    <2>5. QED
      BY <1>0, <2>1, <2>3, <2>4, Zenon DEF SaleOwn, ActiveCarts
  <1>3. ASSUME NEW n \in Orders, CreateBill(t, n)
        PROVE  SaleOwn(t)'
    <2>1. sale' = [sale EXCEPT ![t].order = n]
      BY <1>3 DEF CreateBill
    <2>2. sale'[t].counted = sale[t].counted /\ sale'[t].order = n
      BY <1>0, <2>1 DEF Sale
    <2>3. thread'[t].h = thread[t].h /\ thread'[t].user = thread[t].user
      BY <1>0, <1>3, Zenon DEF CreateBill, Goto, ThreadState
    <2>4. bills'[n].rows = sale[t].counted /\ bills'[n].user = thread[t].user
      BY <1>3, Zenon DEF CreateBill, NoBill, TypeOK
    <2>5. QED
      BY <1>0, <1>c, <2>2, <2>3, <2>4, Zenon DEF SaleOwn
  <1>4. ASSUME GoesOn(t), \A n \in Orders : ~CreateBill(t, n)
        PROVE  SaleOwn(t)'
    <2>1. ASSUME sale'[t].order # None, thread'[t].pc # "bill"
          PROVE  /\ sale'[t].order = sale[t].order /\ thread[t].pc # "bill"
                 /\ bills'[sale[t].order].rows = bills[sale[t].order].rows
                 /\ bills'[sale[t].order].user = bills[sale[t].order].user
      <3>1. sale'[t].order = sale[t].order /\ thread[t].pc # "bill"
        BY <1>4, <2>1, Zenon DEF GoesOn
      <3>2. PICK o \in Orders : o = sale[t].order
        BY <1>0, <2>1, <3>1, Zenon
      <3>3. \A x \in Threads : ~BillCreated(x, o)
        BY <1>4, <2>1, <3>1, <3>2, CreatesOwn, ZenonT(40) DEF BillCreated
      <3>4. QED
        BY <3>1, <3>2, <3>3, BillMoves, Zenon DEF BillKept, BillSwept
    <2>2. QED
      BY <1>0, <1>4, <1>c, <2>1, Zenon DEF SaleOwn, GoesOn
  <1>5. QED
    BY <1>1, <1>2, <1>3, <1>4, CheckoutMoves, Zenon

\* What a checkout counted stays its customer's.
LEMMA NextSaleOwn ==
  ASSUME TypeOK, RowsKept, OrdersOwned, [Next]_vars, NEW x \in Threads, SaleOwn(x)
  PROVE  SaleOwn(x)'
  <1>0. sale \in [Threads -> Sale] /\ thread \in [Threads -> ThreadState]
    BY DEF TypeOK
  <1>1. ASSUME CartsNext \/ BillsNext \/ CatalogNext, UNCHANGED sale
        PROVE  SaleOwn(x)'
    BY <1>1, OthersThreads, SaleStays
  <1>2. ASSUME NEW t \in Threads, NEW u \in Users, NEW h \in checkouts, BeginCheckout(t, h, u)
        PROVE  SaleOwn(x)'
    <2>1. CASE x # t
      <3>1. sale'[x] = sale[x] /\ thread'[x] = thread[x]
        BY <1>0, <1>2, <2>1, Zenon DEF BeginCheckout, Begin
      <3>2. QED
        BY <3>1, SaleStays
    <2>2. CASE x = t
      <3>1. thread[t].h = "idle" /\ thread'[t].h = h
        BY <1>0, <1>2 DEF BeginCheckout, Begin, Free
      <3>2. sale[t] = NoSale
        BY <2>2, <3>1, Zenon DEF SaleOwn, checkouts
      <3>3. sale' = [sale EXCEPT ![t].totalled = ActiveCarts(u)]
        BY <1>2 DEF BeginCheckout
      <3>4. sale'[t].counted = {} /\ sale'[t].order = None
        BY <1>0, <3>2, <3>3 DEF NoSale
      <3>5. QED
        BY <2>2, <3>1, <3>4, Zenon DEF SaleOwn
    <2>3. QED
      BY <2>1, <2>2
  <1>3. ASSUME NEW t \in Threads, CheckoutStep(t)
        PROVE  SaleOwn(x)'
    BY <1>3, SaleActs, SaleStays, CheckoutTouches, Zenon
  <1>4. CASE UNCHANGED <<thread, sale>>
    BY <1>4, SaleStays
  <1>5. CASE Crash
    BY <1>5, Zenon DEF Crash, SaleOwn, NoSale
  <1>6. QED
    BY <1>1, <1>2, <1>3, <1>4, <1>5, Zenon
       DEF Next, CheckoutNext, GatewayCollects, GatewayGivesUp, vars

-----------------------------------------------------------------------------
(***************************************************************************)
(* The rows of the bills.                                                  *)
(***************************************************************************)
LEMMA NextBillRows ==
  ASSUME TypeOK, RowsKept, RowsStable, OrdersOwned, [Next]_vars,
         \A t \in Threads : SaleOwn(t), NEW o \in Orders, BillRowsOwn(o)
  PROVE  BillRowsOwn(o)'
  <1>0. /\ carts \in [CartIds -> CartRow]
        /\ bills[o].rows \subseteq CartIds
        /\ \A t \in Threads : sale[t].counted \subseteq CartIds
        /\ \A t \in Threads : \A c \in sale[t].counted : carts[c].st # "none"
        /\ None \notin Orders
    BY ShopAssumption, Zenon DEF TypeOK, BillRow, Sale, RowsKept
  <1>1. \A c \in CartIds : carts[c].st # "none" => Fades(c) /\ carts'[c].st # "none"
    BY RowsFade, Zenon DEF RowsStable
  <1>2. CASE BillKept(o)
    BY <1>0, <1>1, <1>2, Zenon DEF BillKept, BillRowsOwn, Fades
  <1>3. ASSUME NEW t \in Threads, BillCreated(t, o)
        PROVE  BillRowsOwn(o)'
    <2>1. \A c \in sale[t].counted : carts[c].user = thread[t].user
      BY Zenon DEF SaleOwn
    <2>2. QED
      BY <1>0, <1>1, <1>3, <2>1, Zenon DEF BillCreated, BillRowsOwn, Fades
  <1>4. ASSUME NEW t \in Threads, BillSwept(t, o)
        PROVE  BillRowsOwn(o)'
    <2>1. bills[o].rows = sale[t].counted /\ bills[o].user = thread[t].user
      BY <1>0, <1>4, Zenon DEF BillSwept, SaleOwn, SweepCarts, At
    <2>2. carts' = Deactivated(thread[t].user)
      BY <1>4, Zenon DEF BillSwept, SweepCarts
    <2>3. \A c \in bills[o].rows : carts'[c].st # "active"
      BY <1>0, <2>1, <2>2, Zenon DEF Deactivated, ActiveCarts, BillRowsOwn, CartRow
    <2>4. QED
      BY <1>0, <1>1, <1>4, <2>3, ZenonT(30) DEF BillSwept, BillRowsOwn, Fades
  <1>5. QED
    BY <1>2, <1>3, <1>4, BillMoves

-----------------------------------------------------------------------------
(***************************************************************************)
(* What a checkout counts, with one tab.                                   *)
(***************************************************************************)
\* The customer of a checkout adds nothing to the cart meanwhile.
LEMMA NobodyAdds ==
  ASSUME TypeOK, OneRequest, NEW x \in Threads, thread[x].h \in checkouts, UserKnown(x)
  PROVE  \A t \in Threads : thread[t].h \in adders => thread[t].user # thread[x].user
  <1>1. thread[x].user # None /\ thread[x].h \notin adders
    BY ShopAssumption DEF UserKnown, checkouts, adders
  <1>2. QED
    BY <1>1 DEF OneRequest

\* No row joins the cart of a customer whose only request is a checkout.
LEMMA CountsStay ==
  ASSUME TypeOK, [Next]_vars, OneRequest, NEW x \in Threads, UserKnown(x), CountsAll(x),
         sale'[x].counted = sale[x].counted,
         thread'[x].h = thread[x].h /\ thread'[x].user = thread[x].user,
         thread'[x].pc \in beforeSweep => thread[x].pc \in beforeSweep
  PROVE  CountsAll(x)'
  <1>1. SUFFICES ASSUME thread'[x].h \in checkouts, thread'[x].pc \in beforeSweep
                 PROVE  ActiveCarts(thread[x].user)' \subseteq sale'[x].counted
    BY Zenon DEF CountsAll
  <1>2. PICK u : u = thread[x].user /\ \A t \in Threads : thread[t].h \in adders => thread[t].user # u
    BY <1>1, NobodyAdds, Zenon
  <1>3. ActiveCarts(u)' \subseteq ActiveCarts(u)
    BY <1>2, CartGrows, Zenon
  <1>4. ActiveCarts(u) \subseteq sale'[x].counted
    BY <1>1, <1>2, Zenon DEF CountsAll
  <1>5. QED
    BY <1>2, <1>3, <1>4, Zenon DEF ActiveCarts

\* So a checkout has counted all there is, until it sweeps.
LEMMA NextCountsAll ==
  ASSUME TypeOK, OrdersOwned, [Next]_vars, OneRequest, NEW x \in Threads, UserKnown(x), CountsAll(x)
  PROVE  CountsAll(x)'
  <1>0. sale \in [Threads -> Sale] /\ thread \in [Threads -> ThreadState]
    BY DEF TypeOK
  <1>1. CASE sale'[x] = sale[x] /\ thread'[x] = thread[x]
    BY <1>1, CountsStay, Zenon
  <1>2. CASE thread'[x].h \notin checkouts
    BY <1>2 DEF CountsAll
  <1>3. ASSUME CartsNext \/ BillsNext \/ CatalogNext, UNCHANGED sale
        PROVE  CountsAll(x)'
    BY <1>1, <1>2, <1>3, OthersThreads
  <1>4. ASSUME NEW t \in Threads, NEW u \in Users, NEW h \in checkouts, BeginCheckout(t, h, u)
        PROVE  CountsAll(x)'
    <2>1. CASE x # t
      <3>1. sale'[x] = sale[x] /\ thread'[x] = thread[x]
        BY <1>0, <1>4, <2>1, Zenon DEF BeginCheckout, Begin
      <3>2. QED
        BY <1>1, <3>1
    <2>2. CASE x = t
      <3>1. thread'[x].pc = "prices"
        BY <1>0, <1>4, <2>2 DEF BeginCheckout, Begin
      <3>2. QED
        BY <3>1 DEF CountsAll, beforeSweep
    <2>3. QED
      BY <2>1, <2>2
  <1>5. ASSUME NEW t \in Threads, CheckoutStep(t)
        PROVE  CountsAll(x)'
    <2>1. CASE x # t
      BY <1>1, <1>5, <2>1, CheckoutTouches, Zenon
    <2>2. CASE x = t
      <3>1. CASE EndSale(t)
        BY <1>0, <1>2, <2>2, <3>1, Zenon DEF EndSale, Finish, Idle, checkouts
      <3>2. CASE CountCarts(t)
        <4>1. /\ sale' = [sale EXCEPT ![t].counted = ActiveCarts(thread[t].user)]
              /\ UNCHANGED carts
          BY <3>2 DEF CountCarts, DataCart, tables
        <4>2. sale'[t].counted = ActiveCarts(thread[t].user)
          BY <1>0, <4>1 DEF Sale
        <4>3. thread'[t].user = thread[t].user
          BY <1>0, <3>2, Zenon DEF CountCarts, Goto, ThreadState
        <4>4. QED
          BY <2>2, <4>1, <4>2, <4>3, Zenon DEF CountsAll, ActiveCarts
      <3>3. ASSUME NEW n \in Orders, CreateBill(t, n)
            PROVE  CountsAll(x)'
        <4>1. sale'[t].counted = sale[t].counted
          BY <1>0, <3>3, Zenon DEF CreateBill, Sale
        <4>2. /\ thread'[t].h = thread[t].h /\ thread'[t].user = thread[t].user
              /\ thread[t].pc = "bill"
          BY <1>0, <3>3, Zenon DEF CreateBill, Goto, ThreadState, At
        <4>3. QED
          BY <2>2, <4>1, <4>2, CountsStay, Zenon DEF beforeSweep
      <3>4. CASE GoesOn(t)
        BY <2>2, <3>4, CountsStay, Zenon DEF GoesOn
      <3>5. QED
        BY <1>5, <3>1, <3>2, <3>3, <3>4, CheckoutMoves, Zenon
    <2>3. QED
      BY <2>1, <2>2
  <1>6. CASE UNCHANGED <<thread, sale>>
    BY <1>1, <1>6
  <1>7. CASE Crash
    BY <1>2, <1>7, Zenon DEF Crash, Idle, checkouts
  <1>8. QED
    BY <1>3, <1>4, <1>5, <1>6, <1>7, Zenon
       DEF Next, CheckoutNext, GatewayCollects, GatewayGivesUp, vars

\* What thread t sweeps, no other checkout has counted.
LEMMA SweepsApart ==
  ASSUME TypeOK, OneRequest, NEW x \in Threads, NEW t \in Threads, x # t,
         SaleOwn(x), SaleOwn(t), UserKnown(t), thread[t].h \in checkouts
  PROVE  sale[t].counted \cap sale[x].counted = {}
  <1>1. thread[t].user # None /\ thread[t].user # thread[x].user
    BY ShopAssumption, Zenon DEF UserKnown, OneRequest
  <1>2. QED
    BY <1>1, Zenon DEF SaleOwn

\* And it counts nothing that an earlier bill swept.
LEMMA NextCountsNew ==
  ASSUME TypeOK, RowsKept, OrdersOwned, [Next]_vars, OneRequest,
         \A t \in Threads : UserKnown(t) /\ SaleOwn(t), \A o \in Orders : BillRowsOwn(o),
         NEW x \in Threads, CountsNew(x), SaleOwn(x)'
  PROVE  CountsNew(x)'
  <1>0. /\ sale \in [Threads -> Sale] /\ thread \in [Threads -> ThreadState]
        /\ None \notin Orders
    BY ShopAssumption, Zenon DEF TypeOK
  <1>1. SUFFICES ASSUME NEW o \in Orders, bills'[o].swept, o # sale'[x].order,
                        sale'[x].counted # {}
                 PROVE  bills'[o].rows \cap sale'[x].counted = {}
    BY Zenon DEF CountsNew
  <1>2. thread'[x].h \in checkouts
    <2>1. thread'[x].h \notin checkouts => sale'[x] = NoSale
      BY ONLY SaleOwn(x)', Zenon DEF SaleOwn, checkouts
    <2>2. NoSale.counted = {}
      BY ONLY DEF NoSale
    <2>3. QED
      BY ONLY <1>1, <2>1, <2>2
  <1>3. bills'[o].rows = bills[o].rows /\ \A t \in Threads : ~BillCreated(t, o)
    BY <1>1, BillMoves, Zenon DEF BillKept, BillSwept, BillCreated
  <1>4. ASSUME sale'[x].counted = sale[x].counted, o # sale[x].order
        PROVE  bills'[o].rows \cap sale'[x].counted = {}
    <2>1. CASE bills[o].swept
      BY <1>3, <1>4, <2>1, Zenon DEF CountsNew
    <2>2. ASSUME NEW t \in Threads, BillSwept(t, o)
          PROVE  bills'[o].rows \cap sale'[x].counted = {}
      <3>1. x # t
        BY <1>4, <2>2, Zenon DEF BillSwept
      <3>2. bills[o].rows = sale[t].counted /\ thread[t].h \in checkouts
        BY <1>0, <2>2, Zenon DEF BillSwept, SweepCarts, At, SaleOwn
      <3>3. sale[t].counted \cap sale[x].counted = {}
        BY <3>1, <3>2, SweepsApart, Zenon
      <3>4. QED
        BY <1>3, <1>4, <3>2, <3>3, Zenon
    <2>3. QED
      BY <1>1, <1>3, <2>1, <2>2, BillMoves, Zenon DEF BillKept
  <1>5. CASE sale'[x] = sale[x]
    BY <1>1, <1>4, <1>5, Zenon
  <1>6. ASSUME NEW t \in Threads, NEW u \in Users, NEW h \in checkouts, BeginCheckout(t, h, u)
        PROVE  bills'[o].rows \cap sale'[x].counted = {}
    <2>1. sale'[x].counted = sale[x].counted /\ sale'[x].order = sale[x].order
      BY <1>0, <1>6, Zenon DEF BeginCheckout, Sale
    <2>2. QED
      BY <1>1, <1>4, <2>1, Zenon
  <1>7. ASSUME NEW t \in Threads, CheckoutStep(t)
        PROVE  bills'[o].rows \cap sale'[x].counted = {}
    <2>1. CASE x # t
      BY <1>5, <1>7, <2>1, CheckoutTouches, Zenon
    <2>2. CASE x = t
      <3>1. CASE EndSale(t)
        BY <1>0, <1>1, <2>2, <3>1, Zenon DEF EndSale, NoSale
      <3>2. CASE CountCarts(t)
        <4>1. /\ sale' = [sale EXCEPT ![t].counted = ActiveCarts(thread[t].user)]
              /\ UNCHANGED bills
          BY <3>2 DEF CountCarts, DataCart, tables
        <4>2. sale'[t].counted = ActiveCarts(thread[t].user)
          BY <1>0, <4>1 DEF Sale
        <4>3. \A c \in bills[o].rows : carts[c].st # "active"
          BY <1>1, <4>1, Zenon DEF BillRowsOwn
        <4>4. QED
          BY <1>3, <2>2, <4>2, <4>3, Zenon DEF ActiveCarts
      <3>3. ASSUME NEW n \in Orders, CreateBill(t, n)
            PROVE  bills'[o].rows \cap sale'[x].counted = {}
        <4>1. sale'[t].counted = sale[t].counted /\ sale'[t].order = n
          BY <1>0, <3>3, Zenon DEF CreateBill, Sale
        <4>2. sale[t].order \in {n, None}
          <5>1. CASE thread[t].h = "cash"
            BY <3>3, <5>1, Zenon DEF CreateBill, At, OrdersOwned, OrderOwned, OwnsOrder
          <5>2. CASE thread[t].h # "cash"
            BY <3>3, <5>2, Zenon DEF CreateBill
          <5>3. QED
            BY <5>1, <5>2, Zenon
        <4>3. QED
          BY <1>0, <1>1, <1>4, <2>2, <4>1, <4>2, ZenonT(40)
      <3>4. CASE GoesOn(t)
        <4>1. sale[t].order \in {sale'[t].order, None}
          BY <3>4, Zenon DEF GoesOn
        <4>2. QED
          BY <1>0, <1>1, <1>4, <2>2, <3>4, <4>1, Zenon DEF GoesOn
      <3>5. QED
        BY <1>7, <3>1, <3>2, <3>3, <3>4, CheckoutMoves, Zenon
    <2>3. QED
      BY <2>1, <2>2, Zenon
  <1>8. CASE Crash
    BY <1>2, <1>8, Zenon DEF Crash, Idle, checkouts
  <1>9. QED
    BY <1>5, <1>6, <1>7, <1>8, Zenon
       DEF Next, CheckoutNext, GatewayCollects, GatewayGivesUp, vars

\* No unit is charged by two checkouts that ran to the end, with one tab.
LEMMA NextBilledOnce ==
  ASSUME TypeOK, OrdersOwned, [Next]_vars, OneRequest,
         \A t \in Threads : UserKnown(t) /\ SaleOwn(t) /\ CountsNew(t),
         NEW o1 \in Orders, NEW o2 \in Orders, o1 # o2, bills'[o1].swept, bills'[o2].swept,
         bills[o1].swept /\ bills[o2].swept => bills[o1].rows \cap bills[o2].rows = {}
  PROVE  bills'[o1].rows \cap bills'[o2].rows = {}
  <1>1. ASSUME NEW o \in Orders, bills'[o].swept, ~bills[o].swept
        PROVE  \E t \in Threads : /\ o = sale[t].order /\ thread[t].h \in checkouts
                                  /\ bills[o].rows = sale[t].counted
    <2>1. PICK t \in Threads : BillSwept(t, o)
      BY <1>1, BillMoves, Zenon DEF BillKept, BillCreated
    <2>2. o # None
      BY ShopAssumption, Zenon
    <2>3. QED
      BY <2>1, <2>2, Zenon DEF BillSwept, SweepCarts, At, SaleOwn
  <1>2. bills'[o1].rows = bills[o1].rows /\ bills'[o2].rows = bills[o2].rows
    BY BillMoves, Zenon DEF BillKept, BillCreated, BillSwept
  <1>3. CASE bills[o1].swept /\ bills[o2].swept
    BY <1>2, <1>3, Zenon
  <1>4. CASE ~bills[o1].swept /\ bills[o2].swept
    BY <1>1, <1>2, <1>4 DEF CountsNew
  <1>5. CASE bills[o1].swept /\ ~bills[o2].swept
    BY <1>1, <1>2, <1>5 DEF CountsNew
  <1>6. CASE ~bills[o1].swept /\ ~bills[o2].swept
    <2>1. PICK t1 \in Threads : /\ o1 = sale[t1].order /\ thread[t1].h \in checkouts
                                /\ bills[o1].rows = sale[t1].counted
      BY <1>1, <1>6, Zenon
    <2>2. PICK t2 \in Threads : /\ o2 = sale[t2].order /\ thread[t2].h \in checkouts
                                /\ bills[o2].rows = sale[t2].counted
      BY <1>1, <1>6, Zenon
    <2>3. sale[t1].counted \cap sale[t2].counted = {}
      BY <2>1, <2>2, SweepsApart, Zenon
    <2>4. QED
      BY <1>2, <2>1, <2>2, <2>3, Zenon
  <1>7. QED
    BY <1>3, <1>4, <1>5, <1>6, Zenon

-----------------------------------------------------------------------------
(***************************************************************************)
(* What create and update_quantity add.                                    *)
(***************************************************************************)
\* A checkout leaves the requests that add alone.
LEMMA CheckoutThreads ==
  ASSUME TypeOK, CheckoutNext, NEW x \in Threads
  PROVE  \/ thread'[x] = thread[x]
         \/ thread[x].h \notin adders /\ thread'[x].h \notin adders
  <1> DEFINE Same == \/ thread'[x] = thread[x]
                     \/ thread[x].h \notin adders /\ thread'[x].h \notin adders
  <1>0. thread \in [Threads -> ThreadState]
    BY DEF TypeOK
  <1>1. ASSUME NEW t \in Threads, thread[t].h \in checkouts, Finish(t) \/ \E pc : Goto(t, pc)
        PROVE  Same
    BY <1>0, <1>1 DEF Finish, Goto, Idle, ThreadState, checkouts, adders
  <1>2. ASSUME NEW t \in Threads, NEW h \in checkouts, NEW u, NEW pc, Begin(t, h, u, pc)
        PROVE  Same
    BY <1>0, <1>2 DEF Begin, Free, checkouts, adders
  <1>3. UNCHANGED thread => Same
    OBVIOUS
  <1> HIDE DEF Same
  <1>4. Same
    BY <1>1, <1>2, <1>3, CheckoutGoes, Zenon
       DEF CheckoutNext, BeginCheckout, GatewayCollects, GatewayGivesUp
  <1>5. QED
    BY <1>4 DEF Same

\* What a step does to a request that adds.
LEMMA AdderMoves ==
  ASSUME TypeOK, [Next]_vars, NEW x \in Threads
  PROVE  \/ thread'[x] = thread[x] /\ item'[x] = item[x]
         \/ item'[x] = NoItem /\ thread'[x] = Idle
         \/ item'[x] = item[x] /\ thread[x].h \notin adders /\ thread'[x].h \notin adders
         \/ \E h \in adders, u \in Users, p \in Products, w \in Nat : FindProduct(x, h, u, p, w)
         \/ CartsStep(x)
  <1>0. thread \in [Threads -> ThreadState] /\ item \in [Threads -> Item]
    BY Zenon DEF TypeOK
  <1>1. CASE Crash
    BY <1>1, ZenonT(40) DEF Crash
  <1>2. CASE (CheckoutNext \/ BillsNext \/ CatalogNext) /\ UNCHANGED item
    BY <1>2, CheckoutThreads, StaffThreads, ZenonT(40)
  <1>3. CASE UNCHANGED vars
    BY <1>3 DEF vars
  <1>4. ASSUME NEW t \in Threads, x # t, NEW h, NEW u, NEW p, NEW w, FindProduct(t, h, u, p, w)
        PROVE  thread'[x] = thread[x] /\ item'[x] = item[x]
    BY <1>0, <1>4, Zenon DEF FindProduct, Begin
  <1>5. ASSUME NEW t \in Threads, x # t, CartsStep(t)
        PROVE  thread'[x] = thread[x] /\ item'[x] = item[x]
    BY <1>0, <1>5, Zenon DEF CartsStep, CountForCreate, CountForUpdate, CreateCart, ValidateCart,
                      FirstCart, DestroyCart, EndItem, Finish, Goto
  <1>6. CASE CartsNext
    <2>1. Quantities \subseteq Nat
      BY ShopAssumption
    <2>2. QED
      BY <1>4, <1>5, <1>6, <2>1, Zenon DEF CartsNext, RemoveCarts, adders
  <1>7. QED
    BY <1>1, <1>2, <1>3, <1>6, ZenonT(40) DEF Next

\* Only requests that add have something to add.
LEMMA NextItemFits ==
  ASSUME TypeOK, [Next]_vars, NEW x \in Threads, ItemFits(x)
  PROVE  ItemFits(x)'
  <1>0. /\ thread \in [Threads -> ThreadState] /\ item \in [Threads -> Item]
        /\ products \in [Products -> ProductRow]
    BY DEF TypeOK
  <1>1. ASSUME NEW h \in adders, NEW u \in Users, NEW p \in Products, NEW w \in Nat,
               FindProduct(x, h, u, p, w)
        PROVE  ItemFits(x)'
    <2>1. thread'[x].h = h
      BY <1>0, <1>1 DEF FindProduct, Begin
    <2>2. item'[x].limit = products[p].quantity /\ item'[x].wanted = w
      BY <1>0, <1>1 DEF FindProduct, NoItem
    <2>3. h = "update_quantity" => w <= products[p].quantity
      BY <1>1 DEF FindProduct
    <2>4. QED
      BY <2>1, <2>2, <2>3, Zenon DEF ItemFits
  <1>2. CASE item'[x] = NoItem /\ thread'[x] = Idle
    BY <1>2 DEF ItemFits, NoItem, Idle
  <1>3. ASSUME CartsStep(x), ~EndItem(x)
        PROVE  ItemFits(x)'
    <2>1. thread[x].h \in adders /\ \E pc : Goto(x, pc)
      BY <1>3, Zenon DEF CartsStep, CountForCreate, CountForUpdate, CreateCart, ValidateCart,
                  FirstCart, DestroyCart, At, adders
    <2>2. thread'[x].h = thread[x].h
      BY <1>0, <2>1 DEF Goto, ThreadState
    <2>3. \/ UNCHANGED item
          \/ \E n : item' = [item EXCEPT ![x].left = n]
          \/ \E n : item' = [item EXCEPT ![x].victim = n]
      BY <1>3, Zenon DEF CartsStep, CountForCreate, CountForUpdate, CreateCart, ValidateCart,
                  FirstCart, DestroyCart
    <2>4. item'[x].wanted = item[x].wanted /\ item'[x].limit = item[x].limit
      BY <1>0, <2>3 DEF Item
    <2>5. QED
      BY <2>1, <2>2, <2>4, Zenon DEF ItemFits
  <1>4. CASE EndItem(x)
    BY <1>0, <1>2, <1>4 DEF EndItem, Finish
  <1>5. CASE \/ thread'[x] = thread[x] /\ item'[x] = item[x]
             \/ item'[x] = item[x] /\ thread[x].h \notin adders /\ thread'[x].h \notin adders
    BY <1>5, Zenon DEF ItemFits, adders
  <1>6. QED
    BY <1>1, <1>2, <1>3, <1>4, <1>5, AdderMoves, Zenon

\* The rows a request is about to insert fit into the stock it read.
Fits(x) ==
    thread[x].pc \in {"insert", "validate"} /\ item[x].left > 0 =>
        Cardinality(ActiveOf(thread[x].user, item[x].product)) + item[x].left
            <= item[x].limit

\* With one tab, only the request itself adds to its customer's cart.
LEMMA OthersAddNothing ==
  ASSUME RowsCount, TypeOK, [Next]_vars, OneRequest, NEW x \in Threads, UserKnown(x),
         thread[x].h \in adders, ~CreateCart(x), NEW u, u = thread[x].user, NEW p
  PROVE  /\ ActiveOf(u, p)' \subseteq ActiveOf(u, p)
         /\ Cardinality(ActiveOf(u, p)') <= Cardinality(ActiveOf(u, p))
  <1>1. thread[x].user # None
    BY ShopAssumption, Zenon DEF UserKnown
  <1>2. ASSUME \A c \in CartIds : Fades(c)
        PROVE  ActiveOf(u, p)' \subseteq ActiveOf(u, p)
    BY <1>2, Zenon DEF Fades, ActiveOf, ActiveCarts
  <1>3. ASSUME NEW t \in Threads, NEW n \in CartIds, Inserts(t, n)
        PROVE  ActiveOf(u, p)' \subseteq ActiveOf(u, p)
    <2>1. thread[t].user # u
      BY <1>1, <1>3, Zenon DEF Inserts, OneRequest
    <2>2. carts'[n].user # u /\ \A c \in CartIds \ {n} : carts'[c] = carts[c]
      BY <1>3, <2>1 DEF Inserts
    <2>3. QED
      BY <2>2, Zenon DEF ActiveOf, ActiveCarts
  <1>4. ActiveOf(u, p)' \subseteq ActiveOf(u, p)
    BY <1>2, <1>3, CartMoves, Zenon
  <1>5. ActiveOf(u, p) \in SUBSET CartIds
    BY DEF ActiveOf, ActiveCarts
  <1>6. QED
    BY <1>4, <1>5, Zenon DEF RowsCount

\* What an adding request has left still fits the stock it read.
LEMMA NextFits ==
  ASSUME RowsCount, TypeOK, TypeOK', [Next]_vars, OneRequest, NEW x \in Threads, UserKnown(x),
     ItemFits(x),
         ItemFits(x)', Fits(x)
  PROVE  Fits(x)'
  <1>0. /\ thread \in [Threads -> ThreadState] /\ item \in [Threads -> Item]
        /\ thread[x] \in ThreadState /\ item[x] \in Item /\ item'[x] \in Item
        /\ carts \in [CartIds -> CartRow]
    BY Zenon DEF TypeOK
  <1>1. PICK u, p : u = thread[x].user /\ p = item[x].product
    OBVIOUS
  <1>2. Cardinality(ActiveOf(u, p)) \in Nat /\ Cardinality(ActiveOf(u, p)') \in Nat
    BY Zenon DEF RowsCount, ActiveOf, ActiveCarts
  <1>3. CASE thread'[x].h \notin adders
    BY <1>0, <1>3 DEF Fits, ItemFits
  <1>4. CASE thread'[x] = thread[x] /\ item'[x] = item[x]
    <2>1. CASE thread[x].h \notin adders
      BY <1>3, <1>4, <2>1, Zenon
    <2>2. CASE CreateCart(x)
      <3>1. thread'[x] # thread[x]
        <4>1. /\ thread[x].pc = "insert"
              /\ Finish(x) \/ Goto(x, "validate")
          BY <2>2, Zenon DEF CreateCart, EndItem, At
        <4>2. thread'[x].pc \in {"idle", "validate"}
          BY <1>0, <4>1 DEF Finish, Goto, Idle, ThreadState
        <4>3. QED
          BY <4>1, <4>2
      <3>2. QED
        BY <1>4, <3>1
    <2>3. CASE thread[x].h \in adders /\ ~CreateCart(x)
      <3>1. Cardinality(ActiveOf(u, p)') <= Cardinality(ActiveOf(u, p))
        BY <1>1, <2>3, OthersAddNothing, Zenon
      <3>2. item[x].left \in Nat /\ item[x].limit \in Nat
        BY <1>0, Zenon DEF Item
      <3>3. QED
        BY <1>1, <1>2, <1>4, <3>1, <3>2 DEF Fits
    <2>4. QED
      BY <2>1, <2>2, <2>3
  <1>5. CASE EndItem(x)
    BY <1>0, <1>3, <1>5, Zenon DEF EndItem, Finish, Idle, adders
  <1>6. ASSUME NEW h \in adders, NEW v \in Users, NEW q \in Products, NEW w \in Nat,
               FindProduct(x, h, v, q, w)
        PROVE  Fits(x)'
    <2>1. thread'[x].pc = "count"
      BY <1>0, <1>6, Zenon DEF FindProduct, Begin
    <2>2. QED
      BY <2>1, Zenon DEF Fits
  <1>7. ASSUME CartsStep(x), ~EndItem(x)
        PROVE  Fits(x)'
    <2>0. item[x].left \in Nat /\ item[x].limit \in Nat /\ item[x].wanted \in Nat
      BY <1>0, Zenon DEF Item
    <2>1. CASE CountForCreate(x)
      <3>1. /\ ~(Cardinality(ActiveOf(u, p)) >= item[x].limit) /\ Goto(x, "insert")
            /\ item' = [item EXCEPT ![x].left = 1] /\ UNCHANGED carts
        BY <1>1, <1>7, <2>1, Zenon DEF CountForCreate, AtStock, tables
      <3>2. /\ item'[x].left = 1 /\ item'[x].limit = item[x].limit /\ item'[x].product = p
            /\ thread'[x].user = u
        BY <1>0, <1>1, <3>1, Zenon DEF Goto, Item, ThreadState
      <3>3. ActiveOf(u, p)' = ActiveOf(u, p)
        BY <3>1 DEF ActiveOf, ActiveCarts
      <3>4. QED
        BY <1>2, <2>0, <3>1, <3>2, <3>3 DEF Fits
    <2>2. CASE CountForUpdate(x)
      <3>1. /\ thread[x].h = "update_quantity" /\ UNCHANGED carts
            /\ \/ /\ Goto(x, "first")
               \/ /\ item[x].wanted > Cardinality(ActiveOf(u, p)) /\ Goto(x, "insert")
                  /\ item' = [item EXCEPT
                        ![x].left = item[x].wanted - Cardinality(ActiveOf(u, p))]
        BY <1>1, <1>7, <2>2, Zenon DEF CountForUpdate, At, tables
      <3>2. CASE Goto(x, "first")
        BY <1>0, <3>2, Zenon DEF Goto, ThreadState, Fits
      <3>3. CASE ~Goto(x, "first")
        <4>1. /\ item'[x].left = item[x].wanted - Cardinality(ActiveOf(u, p))
              /\ item'[x].limit = item[x].limit /\ item'[x].product = p
              /\ thread'[x].user = u
          BY <1>0, <1>1, <3>1, <3>3 DEF Goto, Item, ThreadState
        <4>2. ActiveOf(u, p)' = ActiveOf(u, p)
          BY <3>1, Zenon DEF ActiveOf, ActiveCarts
        <4>3. item[x].wanted <= item[x].limit
          BY <3>1, Zenon DEF ItemFits
        <4>4. QED
          BY <1>2, <2>0, <4>1, <4>2, <4>3 DEF Fits
      <3>4. QED
        BY <3>2, <3>3
    <2>3. CASE CreateCart(x)
      <3>1. /\ thread[x].pc = "insert" /\ item[x].left > 1 /\ Goto(x, "validate")
            /\ item' = [item EXCEPT ![x].left = item[x].left - 1]
        BY <1>7, <2>3, Zenon DEF CreateCart, At
      <3>2. /\ item'[x].left = item[x].left - 1 /\ item'[x].limit = item[x].limit
            /\ item'[x].product = p /\ thread'[x].user = u
        BY <1>0, <1>1, <3>1, Zenon DEF Goto, Item, ThreadState
      <3>3. Cardinality(ActiveOf(u, p)) + item[x].left <= item[x].limit
        BY <1>1, <2>0, <3>1 DEF Fits
      <3>4. PICK c \in CartIds : carts[c].st = "none" /\ carts' = [carts EXCEPT ![c] =
                [st |-> "active", user |-> u, product |-> p]]
        BY <1>1, <2>3, Zenon DEF CreateCart
      <3>5. ActiveOf(u, p)' = ActiveOf(u, p) \cup {c} /\ c \notin ActiveOf(u, p)
        BY <1>0, <3>4, Zenon DEF ActiveOf, ActiveCarts
      <3>6. ActiveOf(u, p) \in SUBSET CartIds
        BY DEF ActiveOf, ActiveCarts
      <3>7. Cardinality(ActiveOf(u, p)') = Cardinality(ActiveOf(u, p)) + 1
        BY <3>5, <3>6 DEF RowsCount
      <3>8. QED
        BY <1>2, <2>0, <3>2, <3>3, <3>7 DEF Fits
    <2>4. CASE ValidateCart(x)
      <3>1. thread[x].pc = "validate" /\ Goto(x, "insert") /\ UNCHANGED <<item, carts>>
        BY <1>7, <2>4, Zenon DEF ValidateCart, At, tables
      <3>2. thread'[x].user = u /\ item'[x].product = p
        BY <1>0, <1>1, <3>1, Zenon DEF Goto, ThreadState
      <3>3. ActiveOf(u, p)' = ActiveOf(u, p)
        BY <3>1 DEF ActiveOf, ActiveCarts
      <3>4. QED
        BY <1>1, <3>1, <3>2, <3>3, ZenonT(40) DEF Fits
    <2>5. CASE FirstCart(x) \/ DestroyCart(x)
      <3>1. Goto(x, "destroy") \/ Goto(x, "first")
        BY <1>7, <2>5, Zenon DEF FirstCart, DestroyCart
      <3>2. QED
        BY <1>0, <3>1, Zenon DEF Goto, ThreadState, Fits
    <2>6. QED
      BY <1>7, <2>1, <2>2, <2>3, <2>4, <2>5, Zenon DEF CartsStep
  <1>8. QED
    <2>1. \/ thread'[x] = thread[x] /\ item'[x] = item[x]
          \/ thread'[x] = Idle \/ thread'[x].h \notin adders
          \/ \E h \in adders, v \in Users, q \in Products, w \in Nat : FindProduct(x, h, v, q, w)
          \/ CartsStep(x)
      BY AdderMoves, Zenon
    <2>2. Idle.h \notin adders
      BY ONLY DEF Idle, adders
    <2>3. QED
      BY ONLY <1>3, <1>4, <1>5, <1>6, <1>7, <2>1, <2>2, Zenon

-----------------------------------------------------------------------------
(***************************************************************************)
(* The invariant and what follows from it.                                 *)
(***************************************************************************)
LEMMA InitTab ==
  ASSUME Init
  PROVE  TabInv
  <1>1. ASSUME NEW t \in Threads
        PROVE  UserKnown(t) /\ ItemFits(t) /\ SaleOwn(t) /\ CountsAll(t) /\ CountsNew(t)
    BY ZenonT(40) DEF Init, CartsInit, CheckoutInit, Idle, NoItem, NoSale, UserKnown, ItemFits,
       SaleOwn,
           CountsAll, CountsNew, adders, checkouts
  <1>2. \A o \in Orders : BillRowsOwn(o) /\ ~bills[o].swept
    BY Zenon DEF Init, NoBill, BillRowsOwn
  <1>3. OneRequest
    BY Zenon DEF Init, Idle, OneRequest
  <1>4. BilledOnce
    BY <1>2 DEF BilledOnce
  <1>5. AddsWithinStock
    BY Zenon DEF Init, Idle, AddsWithinStock
  <1>6. QED
    BY <1>1, <1>2, <1>3, <1>4, <1>5 DEF TabInv

\* Every step keeps the invariant.
LEMMA NextTab ==
  ASSUME RowsCount, SafetyInv, SafetyInv', TabInv, [Next]_vars
  PROVE  TabInv'
  <1>0. /\ TypeOK /\ RowsKept /\ OrdersOwned /\ TypeOK' /\ shift' = shift
        /\ \A t \in Threads : UserKnown(t) /\ ItemFits(t) /\ SaleOwn(t)
        /\ \A o \in Orders : BillRowsOwn(o)
    BY Zenon DEF SafetyInv, TabInv, Next, vars
  <1>1. \A t \in Threads : UserKnown(t)'
    BY <1>0, NextUsers
  <1>2. \A t \in Threads : ItemFits(t)'
    BY <1>0, NextItemFits
  <1>3. \A t \in Threads : SaleOwn(t)'
    BY <1>0, NextSaleOwn
  <1>4. \A o \in Orders : BillRowsOwn(o)'
    BY <1>0, NextBillRows, StepRowsStable, Zenon
  <1>5. ASSUME shift.oneTab
        PROVE  /\ OneRequest' /\ \A t \in Threads : CountsAll(t)' /\ CountsNew(t)' /\ Fits(t)'
               /\ \A o1, o2 \in Orders : o1 # o2 /\ bills'[o1].swept /\ bills'[o2].swept =>
                     bills'[o1].rows \cap bills'[o2].rows = {}
    <2>1. /\ OneRequest /\ \A t \in Threads : CountsAll(t) /\ CountsNew(t) /\ Fits(t)
          /\ \A o1, o2 \in Orders : o1 # o2 /\ bills[o1].swept /\ bills[o2].swept =>
                bills[o1].rows \cap bills[o2].rows = {}
      BY <1>5, ZenonT(40) DEF TabInv, BilledOnce, AddsWithinStock, Fits
    <2>2. OneRequest'
      BY <1>0, <1>5, <2>1, NextUsers, Zenon
    <2>3. \A t \in Threads : CountsAll(t)'
      BY <1>0, <2>1, NextCountsAll, Zenon
    <2>4. \A t \in Threads : CountsNew(t)'
      BY <1>0, <1>3, <2>1, NextCountsNew, Zenon
    <2>5. \A t \in Threads : Fits(t)'
      BY <1>0, <1>2, <2>1, NextFits, Zenon
    <2>6. QED
      BY <1>0, <2>1, <2>2, <2>3, <2>4, <2>5, NextBilledOnce, ZenonT(40)
  <1>6. BilledOnce' /\ AddsWithinStock'
    BY <1>0, <1>5, Zenon DEF BilledOnce, AddsWithinStock, Fits
  <1>7. QED
    BY <1>0, <1>1, <1>2, <1>3, <1>4, <1>5, <1>6, ZenonT(40) DEF TabInv

-----------------------------------------------------------------------------
(***************************************************************************)
(* What one thread promises: without a request in between, the total of a  *)
(* bill is the sum of its lines, and no active row of a cart outlives its  *)
(* product.                                                                *)
(***************************************************************************)
Alone == \A t, x \in Threads : t # x => thread[t].h = "idle" \/ thread[x].h = "idle"

\* A line without units has no amount.
LinesZero ==
    \A o \in Orders, p \in Products : lines[o][p].quantity = 0 => lines[o][p].amount = 0

CostOf(rows) == [p \in Products |-> products[p].price * Units(rows, p)]

\* The lines of a checkout are written but for the products in left.
LinesWritten(t, left) ==
    \A p \in Products :
        lines[sale[t].order][p].amount = IF p \in left THEN 0 ELSE sale[t].amount[p]

\* The products a checkout loaded are those on the rows, at today's prices.
Loaded(t) ==
    /\ sale[t].found = ProductsOn(sale[t].counted) /\ sale[t].todo \subseteq sale[t].found
    /\ \A p \in sale[t].found : sale[t].prices[p] = products[p].price

Totalled(t) ==
    /\ sale[t].amount = CostOf(sale[t].totalled)
    /\ \A p \in ProductsOn(sale[t].totalled) : sale[t].seen[p] = products[p].price

(***************************************************************************)
(* Until it sweeps the cart, all that a checkout read still holds.         *)
(***************************************************************************)
SalePriced(t) ==
    /\ sale[t].totalled = ActiveCarts(thread[t].user)
    /\ thread[t].pc # "prices" => Totalled(t)
    /\ thread[t].pc \notin {"prices", "count"} => sale[t].counted = sale[t].totalled
    /\ thread[t].pc \in {"call", "line", "insert"} \/ At(t, {"checkout_momo"}, "bill") =>
          Loaded(t)
    /\ At(t, {"cash"}, "load") => LinesWritten(t, Products)
    /\ thread[t].pc = "line" => LinesWritten(t, sale[t].todo)
    /\ thread[t].pc = "insert" =>
          /\ sale[t].line \in sale[t].found \ sale[t].todo
          /\ LinesWritten(t, sale[t].todo \cup {sale[t].line})

Priced(t) ==
    /\ thread[t].h \in adders => IsLive(item[t].product)
    /\ At(t, {"product_destroy"}, "commit") =>
          edit[t].carts = DependentCarts(edit[t].product)
    /\ thread[t].h \in checkouts /\ thread[t].pc # "redirect" => SalePriced(t)

(***************************************************************************)
(* The inductive invariant.                                                *)
(***************************************************************************)
ThreadInv ==
    /\ LinesZero
    /\ shift.oneThread => Alone /\ \A t \in Threads : Priced(t)
    /\ ActiveCartHasProduct
    /\ AmountIsLines

-----------------------------------------------------------------------------
(***************************************************************************)
(* Only one request moves.                                                 *)
(***************************************************************************)
\* A step takes a request further, begins one when there is none, or
\* touches none.
LEMMA StepKinds ==
  ASSUME TypeOK, [Next]_vars
  PROVE  \/ UNCHANGED thread
         \/ \E t \in Threads : /\ thread[t].h # "idle" \/ Free(t)
                               /\ \A x \in Threads \ {t} : thread'[x] = thread[x]
         \/ \A x \in Threads : thread'[x] = Idle
  <1> DEFINE Kind == \/ UNCHANGED thread
                     \/ \E t \in Threads : /\ thread[t].h # "idle" \/ Free(t)
                                           /\ \A x \in Threads \ {t} : thread'[x] = thread[x]
                     \/ \A x \in Threads : thread'[x] = Idle
  <1>0. thread \in [Threads -> ThreadState]
    BY DEF TypeOK
  <1>1. ASSUME NEW t \in Threads, NEW h, NEW u, NEW pc, Begin(t, h, u, pc)
        PROVE  Kind
    BY <1>0, <1>1 DEF Begin
  <1>2. ASSUME NEW t \in Threads, thread[t].h # "idle",
               UNCHANGED thread \/ Finish(t) \/ \E pc : Goto(t, pc)
        PROVE  Kind
    BY <1>0, <1>2 DEF Finish, Goto
  <1>3. CASE Crash
    BY <1>3 DEF Crash
  <1>4. UNCHANGED thread => Kind
    OBVIOUS
  <1> HIDE DEF Kind
  <1>5. CASE CheckoutNext
    <2>1. ASSUME NEW t \in Threads, CheckoutStep(t)
          PROVE  thread[t].h # "idle" /\ (UNCHANGED thread \/ Finish(t) \/ \E pc : Goto(t, pc))
      BY <2>1, CheckoutGoes DEF checkouts
    <2>2. QED
      BY <1>1, <1>2, <1>4, <1>5, <2>1, Zenon
         DEF CheckoutNext, BeginCheckout, GatewayCollects, GatewayGivesUp, Kind
  <1>6. CASE CartsNext
    <2>1. ASSUME NEW t \in Threads, CartsStep(t)
          PROVE  thread[t].h # "idle" /\ (UNCHANGED thread \/ Finish(t) \/ \E pc : Goto(t, pc))
      BY <2>1, Zenon DEF CartsStep, CountForCreate, CountForUpdate, CreateCart, ValidateCart,
                  FirstCart, DestroyCart, EndItem, At
    <2>2. QED
      BY <1>1, <1>2, <1>4, <1>6, <2>1, ZenonT(40) DEF CartsNext, FindProduct, RemoveCarts, Kind
  <1>7. CASE BillsNext
    <2>1. ASSUME NEW t \in Threads, BillsStep(t)
          PROVE  thread[t].h # "idle" /\ Finish(t)
      BY <2>1, Zenon DEF BillsStep, UpdatePaid, UpdateShipped, EndMark, At
    <2>2. QED
      BY <1>1, <1>2, <1>7, <2>1, Zenon DEF BillsNext, FindBill, Kind
  <1>8. CASE CatalogNext
    <2>1. ASSUME NEW t \in Threads, CatalogStep(t)
          PROVE  thread[t].h # "idle" /\ (Finish(t) \/ \E pc : Goto(t, pc))
      BY <2>1, Zenon DEF CatalogStep, LoadDependents, DestroyProduct, EndEdit, At
    <2>2. QED
      BY <1>1, <1>2, <1>4, <1>8, <2>1, Zenon
         DEF CatalogNext, CreateProduct, UpdateProduct, FindForDestroy, Kind
  <1>9. QED
    BY <1>3, <1>4, <1>5, <1>6, <1>7, <1>8, Zenon DEF Next, vars, Kind

\* With one thread no second request begins before the first has ended.
LEMMA NextAlone ==
  ASSUME TypeOK, [Next]_vars, shift.oneThread, Alone
  PROVE  Alone'
  <1>1. CASE UNCHANGED thread
    BY <1>1 DEF Alone
  <1>2. ASSUME NEW t \in Threads, thread[t].h # "idle" \/ Free(t),
               \A x \in Threads \ {t} : thread'[x] = thread[x]
        PROVE  Alone'
    <2>1. \A x \in Threads \ {t} : thread[x].h = "idle"
      BY <1>2 DEF Alone, Free
    <2>2. QED
      BY <1>2, <2>1 DEF Alone
  <1>3. CASE \A x \in Threads : thread'[x] = Idle
    BY <1>3 DEF Alone, Idle
  <1>4. QED
    BY <1>1, <1>2, <1>3, StepKinds, Zenon

\* The request in flight after a step is the one that took it.
LEMMA Actor ==
  ASSUME Alone, shift.oneThread, NEW x \in Threads, NEW t \in Threads,
         thread'[x].h # "idle", thread[t].h # "idle" \/ Free(t),
         x # t => thread'[x] = thread[x]
  PROVE  x = t
  BY DEF Alone, Free

-----------------------------------------------------------------------------
(***************************************************************************)
(* What a request read still holds.                                        *)
(***************************************************************************)
LEMMA CartsPriced ==
  ASSUME TypeOK, Alone, shift.oneThread, NEW x \in Threads, Priced(x), thread'[x].h # "idle",
         CartsNext
  PROVE  Priced(x)'
  <1> USE DEF tables
  <1>0. thread \in [Threads -> ThreadState] /\ item \in [Threads -> Item]
    BY DEF TypeOK
  <1>1. ASSUME NEW t \in Threads, NEW h \in adders, NEW u \in Users, NEW p \in Products, NEW w,
               FindProduct(t, h, u, p, w)
        PROVE  Priced(x)'
    <2>1. x = t
      BY <1>0, <1>1, Actor, Zenon DEF FindProduct, Begin
    <2>2. thread'[x].h = h /\ item'[x].product = p /\ IsLive(p)'
      BY <1>0, <1>1, <2>1, Zenon DEF FindProduct, Begin, IsLive, NoItem
    <2>3. QED
      BY <2>2, Zenon DEF Priced, At, adders, checkouts
  <1>2. ASSUME NEW t \in Threads, CartsStep(t)
        PROVE  Priced(x)'
    <2>1. thread[t].h \in adders
      BY <1>2, Zenon DEF CartsStep, CountForCreate, CountForUpdate, CreateCart, ValidateCart,
                  FirstCart, DestroyCart, At, adders
    <2>2. Finish(t) \/ \E pc : Goto(t, pc)
      BY <1>2, Zenon DEF CartsStep, CountForCreate, CountForUpdate, CreateCart, ValidateCart,
                  FirstCart, DestroyCart, EndItem
    <2>3. x = t
      BY <1>0, <2>1, <2>2, Actor, Zenon DEF Finish, Goto, adders
    <2>4. thread'[x].h = thread[x].h
      BY <1>0, <2>2, <2>3 DEF Finish, Goto, Idle, ThreadState
    <2>5. \/ UNCHANGED item
          \/ \E n : item' = [item EXCEPT ![x].left = n]
          \/ \E n : item' = [item EXCEPT ![x].victim = n]
          \/ Finish(t)
      BY <1>2, <2>3, Zenon DEF CartsStep, CountForCreate, CountForUpdate, CreateCart, ValidateCart,
                        FirstCart, DestroyCart, EndItem
    <2>6. item'[x].product = item[x].product
      <3>1. ~Finish(t)
        BY <1>0, <2>3 DEF Finish, Idle
      <3>2. QED
        BY <1>0, <2>5, <3>1, Zenon DEF Item
    <2>7. UNCHANGED products
      BY <1>2, Zenon DEF CartsStep, CountForCreate, CountForUpdate, CreateCart, ValidateCart,
                  FirstCart, DestroyCart
    <2>8. QED
      BY <2>1, <2>3, <2>4, <2>6, <2>7, Zenon DEF Priced, IsLive, At, adders, checkouts
  <1>3. ASSUME NEW u, NEW p, RemoveCarts(u, p)
        PROVE  Priced(x)'
    BY <1>3 DEF RemoveCarts, Serves, Free
  <1>4. QED
    BY <1>1, <1>2, <1>3, Zenon DEF CartsNext, adders, Free

\* Notifications and shipping change no cart and no price.
LEMMA BillsPriced ==
  ASSUME TypeOK, Alone, shift.oneThread, NEW x \in Threads, Priced(x), thread'[x].h # "idle",
         BillsNext
  PROVE  Priced(x)'
  <1>0. thread \in [Threads -> ThreadState]
    BY DEF TypeOK
  <1>1. ASSUME NEW t \in Threads, NEW h \in {"ipn", "ship"}, NEW o, NEW r, FindBill(t, h, o, r)
        PROVE  Priced(x)'
    <2>1. x = t
      BY <1>0, <1>1, Actor, Zenon DEF FindBill, Begin
    <2>2. thread'[x].h = h
      BY <1>0, <1>1, <2>1, Zenon DEF FindBill, Begin
    <2>3. QED
      BY <2>2, Zenon DEF Priced, At, adders, checkouts
  <1>2. ASSUME NEW t \in Threads, BillsStep(t)
        PROVE  FALSE
    <2>1. thread[t].h # "idle" /\ Finish(t)
      BY <1>2, Zenon DEF BillsStep, UpdatePaid, UpdateShipped, EndMark, At
    <2>2. x = t
      BY <1>0, <2>1, Actor, Zenon DEF Finish
    <2>3. QED
      BY <1>0, <2>1, <2>2, Zenon DEF Finish, Idle
  <1>3. QED
    BY <1>1, <1>2 DEF BillsNext

\* Staff edit products only while no checkout is under way.
LEMMA CatalogPriced ==
  ASSUME TypeOK, Alone, shift.oneThread, NEW x \in Threads, Priced(x), thread'[x].h # "idle",
         CatalogNext
  PROVE  Priced(x)'
  <1> USE DEF tables
  <1>0. thread \in [Threads -> ThreadState] /\ edit \in [Threads -> Edit]
    BY DEF TypeOK
  <1>1. ASSUME NEW t \in Threads, NEW p, FindForDestroy(t, p)
        PROVE  Priced(x)'
    <2>1. x = t
      BY <1>0, <1>1, Actor DEF FindForDestroy, Begin
    <2>2. thread'[x].h = "product_destroy" /\ thread'[x].pc = "load"
      BY <1>0, <1>1, <2>1, Zenon DEF FindForDestroy, Begin
    <2>3. QED
      BY <2>2, Zenon DEF Priced, At, adders, checkouts
  <1>2. ASSUME NEW t \in Threads, LoadDependents(t)
        PROVE  Priced(x)'
    <2>1. x = t
      BY <1>0, <1>2, Actor, Zenon DEF LoadDependents, At, Goto
    <2>2. thread'[x].h = "product_destroy"
      BY <1>0, <1>2, <2>1, Zenon DEF LoadDependents, At, Goto, ThreadState
    <2>3. \E s : /\ edit' = [edit EXCEPT ![x].carts = DependentCarts(edit[x].product),
                                         ![x].orders = s]
                 /\ UNCHANGED carts
      BY <1>2, <2>1, Zenon DEF LoadDependents
    <2>4. PICK p : p = edit[x].product
      OBVIOUS
    <2>5. edit'[x].product = p /\ edit'[x].carts = DependentCarts(p) /\ UNCHANGED carts
      BY <1>0, <2>3, <2>4 DEF Edit
    <2>6. edit'[x].carts = DependentCarts(edit[x].product)'
      BY <2>5 DEF DependentCarts
    <2>7. QED
      BY <2>2, <2>6, Zenon DEF Priced, adders, checkouts
  <1>3. ASSUME NEW t \in Threads, DestroyProduct(t)
        PROVE  FALSE
    <2>1. thread[t].h # "idle" /\ Finish(t)
      BY <1>3, Zenon DEF DestroyProduct, EndEdit, At
    <2>2. x = t
      BY <1>0, <2>1, Actor, Zenon DEF Finish
    <2>3. QED
      BY <1>0, <2>1, <2>2, Zenon DEF Finish, Idle
  <1>4. ASSUME NEW p, NEW price, NEW quantity,
               CreateProduct(p, price, quantity) \/ UpdateProduct(p, price, quantity)
        PROVE  FALSE
    BY <1>4, Zenon DEF CreateProduct, UpdateProduct, Serves, Free
  <1>5. QED
    BY <1>1, <1>2, <1>3, <1>4, Zenon DEF CatalogNext, CatalogStep

\* What total and the products query returned stays true while no row changes.
LEMMA TotalStays ==
  ASSUME UNCHANGED <<products, carts>>, NEW x \in Threads,
         sale'[x].totalled = sale[x].totalled, thread'[x].user = thread[x].user
  PROVE  /\ sale[x].totalled = ActiveCarts(thread[x].user) =>
               sale'[x].totalled = ActiveCarts(thread[x].user)'
         /\ CostOf(sale[x].totalled)' = CostOf(sale[x].totalled)
         /\ ProductsOn(sale[x].totalled)' = ProductsOn(sale[x].totalled)
  BY Zenon DEF ActiveCarts, CostOf, Units, ProductsOn

\* The total still agrees with cart and prices that stay.
LEMMA SaleStaysPriced ==
  ASSUME UNCHANGED <<products, carts>>, NEW x \in Threads,
         sale'[x].totalled = sale[x].totalled, sale'[x].amount = sale[x].amount,
         sale'[x].seen = sale[x].seen, thread'[x].user = thread[x].user,
         sale[x].totalled = ActiveCarts(thread[x].user), Totalled(x)
  PROVE  sale'[x].totalled = ActiveCarts(thread[x].user)' /\ Totalled(x)'
  BY TotalStays, Zenon DEF Totalled

\* So do the products that were loaded.
LEMMA LoadedStays ==
  ASSUME UNCHANGED <<products, carts>>, NEW x \in Threads, Loaded(x),
         sale'[x].counted = sale[x].counted, sale'[x].found = sale[x].found,
         sale'[x].prices = sale[x].prices, sale'[x].todo \subseteq sale[x].todo
  PROVE  Loaded(x)'
  <1>1. ProductsOn(sale[x].counted)' = ProductsOn(sale[x].counted)
    BY DEF ProductsOn
  <1>2. QED
    BY <1>1, Zenon DEF Loaded

\* A product on none of the rows has no units.
LEMMA NoUnits ==
  ASSUME RowsCount, NEW rows, NEW p \in Products, p \notin ProductsOn(rows)
  PROVE  Units(rows, p) = 0
  <1>1. {c \in rows : carts[c].product = p} = {}
    BY DEF ProductsOn
  <1>2. QED
    BY <1>1 DEF RowsCount, Units

\* A checkout charges nothing for what is not on its rows.
LEMMA ChargesItsRows ==
  ASSUME RowsCount, TypeOK, NEW x \in Threads, Totalled(x), NEW p \in Products,
         p \notin ProductsOn(sale[x].totalled)
  PROVE  sale[x].amount[p] = 0
  <1>1. PICK rows : rows = sale[x].totalled
    OBVIOUS
  <1>2. Units(rows, p) = 0
    BY <1>1, NoUnits
  <1>3. sale[x].amount[p] = products[p].price * Units(rows, p)
    BY <1>1, Zenon DEF Totalled, CostOf
  <1>4. products[p].price \in Nat
    BY Zenon DEF TypeOK, ProductRow
  <1>5. QED
    BY <1>2, <1>3, <1>4

\* The total of the before_action.
LEMMA TotalPrices ==
  ASSUME TypeOK, NEW x \in Threads, SalePriced(x), Total(x), ~EndSale(x)
  PROVE  SalePriced(x)'
  <1> USE DEF tables
  <1>0. thread \in [Threads -> ThreadState] /\ sale \in [Threads -> Sale]
    BY DEF TypeOK
  <1>1. PICK rows : rows = sale[x].totalled
    OBVIOUS
  <1>2. /\ UNCHANGED <<products, carts>> /\ Goto(x, "count")
        /\ sale' = [sale EXCEPT
              ![x].amount = [p \in Products |-> products[p].price * Units(rows, p)],
              ![x].seen = [p \in Products |->
                              IF p \in ProductsOn(rows) THEN products[p].price ELSE 0]]
    BY <1>1, Zenon DEF Total
  <1>3. thread'[x].pc = "count" /\ thread'[x].user = thread[x].user
    BY <1>0, <1>2, Zenon DEF Goto, ThreadState
  <1>4. /\ sale'[x].totalled = rows /\ sale'[x].amount = CostOf(rows)
        /\ sale'[x].seen = [p \in Products |->
                              IF p \in ProductsOn(rows) THEN products[p].price ELSE 0]
    BY <1>0, <1>1, <1>2, Zenon DEF Sale, CostOf
  <1>5. /\ sale'[x].totalled = ActiveCarts(thread[x].user)'
        /\ CostOf(sale[x].totalled)' = CostOf(rows)
        /\ ProductsOn(sale[x].totalled)' = ProductsOn(rows)
    BY <1>1, <1>2, <1>3, <1>4, TotalStays, Zenon DEF SalePriced
  <1>6. Totalled(x)'
    <2>1. ProductsOn(rows) \subseteq Products
      BY DEF ProductsOn
    <2>2. \A p \in ProductsOn(rows) : sale'[x].seen[p] = products[p].price
      BY <1>4, <2>1
    <2>3. UNCHANGED products
      BY <1>2, Zenon
    <2>4. QED
      BY <1>4, <1>5, <2>2, <2>3, Zenon DEF Totalled
  <1>7. QED
    BY <1>3, <1>5, <1>6, Zenon DEF SalePriced, At

\* data_cart counts what was totalled.
LEMMA CountPrices ==
  ASSUME TypeOK, NEW x \in Threads, SalePriced(x), CountCarts(x)
  PROVE  SalePriced(x)'
  <1> USE DEF tables
  <1>0. thread \in [Threads -> ThreadState] /\ sale \in [Threads -> Sale]
    BY DEF TypeOK
  <1>1. /\ UNCHANGED <<products, carts>> /\ thread[x].pc = "count"
        /\ sale' = [sale EXCEPT ![x].counted = ActiveCarts(thread[x].user)]
        /\ Goto(x, IF thread[x].h = "cash" THEN "bill" ELSE "load")
    BY DEF CountCarts, DataCart, At
  <1>2. /\ thread'[x].pc \in {"bill", "load"}
        /\ thread'[x].pc = "load" => thread[x].h # "cash"
        /\ thread'[x].pc = "bill" => thread[x].h = "cash"
        /\ thread'[x].h = thread[x].h /\ thread'[x].user = thread[x].user
    BY <1>0, <1>1 DEF Goto, ThreadState
  <1>3. /\ sale'[x].totalled = sale[x].totalled /\ sale'[x].amount = sale[x].amount
        /\ sale'[x].seen = sale[x].seen /\ sale'[x].counted = sale[x].totalled
    BY <1>0, <1>1, Zenon DEF Sale, SalePriced
  <1>4. sale'[x].totalled = ActiveCarts(thread[x].user)' /\ Totalled(x)'
    BY <1>1, <1>2, <1>3, SaleStaysPriced, Zenon DEF SalePriced
  <1>5. QED
    BY <1>2, <1>3, <1>4, Zenon DEF SalePriced, At

\* Product.where finds every product counted, at the price totalled.
LEMMA LoadPrices ==
  ASSUME RowsCount, TypeOK, NEW x \in Threads, thread[x].h \in checkouts, SalePriced(x),
     LoadProducts(x),
         \A c \in CartIds : carts[c].st = "active" => IsLive(carts[c].product)
  PROVE  SalePriced(x)'
  <1> USE DEF tables
  <1>0. /\ thread \in [Threads -> ThreadState] /\ sale \in [Threads -> Sale]
        /\ sale[x] \in Sale
    BY Zenon DEF TypeOK
  <1>1. PICK on : on = ProductsOn(sale[x].counted)
    OBVIOUS
  <1>2. /\ thread[x].pc = "load" /\ sale[x].counted = sale[x].totalled
        /\ sale[x].totalled = ActiveCarts(thread[x].user) /\ Totalled(x)
    BY ZenonT(40) DEF LoadProducts, At, SalePriced
  <1>3. {p \in on : IsLive(p)} = on
    <2>1. \A c \in sale[x].counted : IsLive(carts[c].product)
      BY <1>2, Zenon DEF ActiveCarts
    <2>2. QED
      BY <1>1, <2>1, Zenon DEF ProductsOn
  <1>4. PICK pr : /\ sale' = [sale EXCEPT ![x].found = on, ![x].todo = on, ![x].prices = pr]
                  /\ \A p \in on : pr[p] = products[p].price
    <2>1. on \subseteq Products
      BY <1>1 DEF ProductsOn
    <2>2. PICK read, cached : /\ read = [p \in Products |-> IF p \in on THEN products[p].price ELSE 0]
                              /\ cached = sale[x].seen
      BY Zenon
    <2>3. \/ sale' = [sale EXCEPT ![x].found = on, ![x].todo = on, ![x].prices = read]
          \/ sale' = [sale EXCEPT ![x].found = on, ![x].todo = on, ![x].prices = cached]
      BY <1>1, <1>3, <2>2, ZenonT(40) DEF LoadProducts
    <2>4. \A p \in on : read[p] = products[p].price /\ cached[p] = products[p].price
      BY <1>1, <1>2, <2>1, <2>2, Zenon DEF Totalled
    <2>5. QED
      BY ONLY <2>3, <2>4, Zenon
  <1>5. /\ sale'[x].totalled = sale[x].totalled /\ sale'[x].amount = sale[x].amount
        /\ sale'[x].seen = sale[x].seen /\ sale'[x].counted = sale[x].counted
        /\ sale'[x].order = sale[x].order
        /\ sale'[x].found = on /\ sale'[x].todo = on /\ sale'[x].prices = pr
    BY <1>0, <1>4, Zenon DEF Sale
  <1>6. /\ thread'[x].h = thread[x].h /\ thread'[x].user = thread[x].user
        /\ thread[x].h = "cash" => thread'[x].pc = "line"
        /\ thread[x].h # "cash" => thread'[x].pc = "call"
        /\ UNCHANGED <<products, carts, lines>>
    BY <1>0, ZenonT(40) DEF LoadProducts, Goto, ThreadState
  <1>7. sale'[x].totalled = ActiveCarts(thread[x].user)' /\ Totalled(x)'
    BY <1>2, <1>5, <1>6, SaleStaysPriced, Zenon
  <1>8. Loaded(x)'
    <2>1. ProductsOn(sale[x].counted)' = on
      BY <1>1, <1>5, <1>6, Zenon DEF ProductsOn
    <2>2. QED
      BY <1>4, <1>5, <1>6, <2>1, ZenonT(40) DEF Loaded
  <1>9. thread[x].h = "cash" => LinesWritten(x, sale[x].todo)'
    <2>1. SUFFICES ASSUME thread[x].h = "cash", NEW p \in Products
                   PROVE  lines[sale[x].order][p].amount =
                             IF p \in on THEN 0 ELSE sale[x].amount[p]
      BY <1>5, <1>6, Zenon DEF LinesWritten
    <2>2. lines[sale[x].order][p].amount = 0
      BY <1>2, <2>1, Zenon DEF SalePriced, At, LinesWritten
    <2>3. p \notin on => sale[x].amount[p] = 0
      BY <1>1, <1>2, ChargesItsRows, Zenon
    <2>4. QED
      BY <2>2, <2>3, Zenon
  <1>10. QED
    BY <1>2, <1>5, <1>6, <1>7, <1>8, <1>9, Zenon DEF SalePriced, At

\* The call to MoMo.
LEMMA CallPrices ==
  ASSUME TypeOK, NEW x \in Threads, SalePriced(x), NEW o, CallGateway(x, o), ~EndSale(x)
  PROVE  SalePriced(x)'
  <1> USE DEF tables
  <1>0. thread \in [Threads -> ThreadState] /\ sale \in [Threads -> Sale]
    BY DEF TypeOK
  <1>1. /\ thread[x].pc = "call" /\ Goto(x, "bill") /\ sale' = [sale EXCEPT ![x].order = o]
        /\ UNCHANGED <<products, carts>>
    BY DEF CallGateway, At
  <1>2. /\ sale'[x].totalled = sale[x].totalled /\ sale'[x].amount = sale[x].amount
        /\ sale'[x].seen = sale[x].seen /\ sale'[x].counted = sale[x].counted
        /\ sale'[x].found = sale[x].found /\ sale'[x].todo = sale[x].todo
        /\ sale'[x].prices = sale[x].prices
    BY <1>0, <1>1 DEF Sale
  <1>3. thread'[x].user = thread[x].user /\ thread'[x].pc = "bill"
    BY <1>0, <1>1 DEF Goto, ThreadState
  <1>4. sale'[x].totalled = ActiveCarts(thread[x].user)' /\ Totalled(x)'
    BY <1>1, <1>2, <1>3, SaleStaysPriced, Zenon DEF SalePriced
  <1>5. Loaded(x)'
    BY <1>1, <1>2, LoadedStays, Zenon DEF SalePriced
  <1>6. QED
    BY <1>1, <1>2, <1>3, <1>4, <1>5, Zenon DEF SalePriced, At

\* A new bill has no lines.
LEMMA BillPrices ==
  ASSUME RowsCount, TypeOK, OrdersOwned, LinesRefer, LinesZero, NEW x \in Threads, SalePriced(x),
         NEW o \in Orders, CreateBill(x, o)
  PROVE  SalePriced(x)'
  <1> USE DEF tables
  <1>0. /\ thread \in [Threads -> ThreadState] /\ sale \in [Threads -> Sale]
        /\ lines \in [Orders -> [Products -> LineRow]]
    BY DEF TypeOK
  <1>1. /\ thread[x].pc = "bill" /\ thread[x].h \in checkouts
        /\ sale' = [sale EXCEPT ![x].order = o]
        /\ UNCHANGED <<products, carts, lines>>
    BY DEF CreateBill, At
  <1>2. /\ sale'[x].totalled = sale[x].totalled /\ sale'[x].amount = sale[x].amount
        /\ sale'[x].seen = sale[x].seen /\ sale'[x].counted = sale[x].counted
        /\ sale'[x].found = sale[x].found /\ sale'[x].todo = sale[x].todo
        /\ sale'[x].prices = sale[x].prices /\ sale'[x].order = o
    BY <1>0, <1>1 DEF Sale
  <1>3. /\ thread'[x].h = thread[x].h /\ thread'[x].user = thread[x].user
        /\ thread[x].h = "cash" => thread'[x].pc = "load"
        /\ thread[x].h # "cash" => thread'[x].pc = "line"
    BY <1>0, Zenon DEF CreateBill, Goto, ThreadState
  <1>4. sale'[x].totalled = ActiveCarts(thread[x].user)' /\ Totalled(x)'
    BY <1>1, <1>2, <1>3, SaleStaysPriced, Zenon DEF SalePriced
  <1>5. \A p \in Products : lines[o][p].amount = 0
    <2>1. ~HasBill(o)
      <3>1. CASE thread[x].h = "cash"
        BY <3>1, Zenon DEF CreateBill, FreshOrder
      <3>2. CASE thread[x].h # "cash"
        <4>1. o = sale[x].order /\ o # None
          BY <3>2, ShopAssumption, Zenon DEF CreateBill
        <4>2. QED
          BY <1>1, <4>1, Zenon DEF OrdersOwned, OrderOwned, OwnsOrder
      <3>3. QED
        BY <3>1, <3>2
    <2>2. SUFFICES ASSUME NEW p \in Products PROVE lines[o][p].quantity = 0
      BY DEF LinesZero
    <2>3. lines[o][p].quantity \in Nat
      BY <1>0 DEF LineRow
    <2>4. QED
      BY <2>1, <2>3 DEF LinesRefer, HasLine
  <1>6. CASE thread[x].h = "cash"
    <2>1. LinesWritten(x, Products)'
      BY <1>1, <1>2, <1>5, Zenon DEF LinesWritten
    <2>2. QED
      BY <1>1, <1>2, <1>3, <1>4, <1>6, <2>1, Zenon DEF SalePriced, At
  <1>7. CASE thread[x].h = "checkout_momo"
    <2>1. Loaded(x) /\ sale[x].todo = sale[x].found /\ sale[x].counted = sale[x].totalled
      BY <1>1, <1>7, Zenon DEF SalePriced, At, OrdersOwned, OrderOwned
    <2>2. Loaded(x)'
      BY <1>1, <1>2, <2>1, LoadedStays, Zenon
    <2>3. \A p \in Products \ sale[x].todo : sale[x].amount[p] = 0
      BY <1>1, <2>1, ChargesItsRows, Zenon DEF SalePriced, Loaded
    <2>4. LinesWritten(x, sale[x].todo)'
      BY <1>1, <1>2, <1>5, <2>3, ZenonT(30) DEF LinesWritten
    <2>5. QED
      BY <1>1, <1>2, <1>3, <1>4, <1>7, <2>1, <2>2, <2>4, Zenon DEF SalePriced, At
  <1>8. QED
    BY <1>1, <1>6, <1>7 DEF checkouts

\* Every product of the loop is there, so every line is valid.
LEMMA ValidatePrices ==
  ASSUME TypeOK, NEW x \in Threads, SalePriced(x), NEW p \in Products, ValidateLine(x, p),
         \A c \in CartIds : carts[c].st = "active" => IsLive(carts[c].product)
  PROVE  SalePriced(x)'
  <1> USE DEF tables
  <1>0. /\ thread \in [Threads -> ThreadState] /\ sale \in [Threads -> Sale]
    BY DEF TypeOK
  <1>1. /\ thread[x].pc = "line" /\ p \in sale[x].todo
        /\ UNCHANGED <<products, carts, lines>>
    BY Zenon DEF ValidateLine, At
  <1>2. /\ sale[x].totalled = ActiveCarts(thread[x].user) /\ Totalled(x) /\ Loaded(x)
        /\ sale[x].counted = sale[x].totalled /\ LinesWritten(x, sale[x].todo)
    BY <1>1, Zenon DEF SalePriced
  <1>3. IsLive(p)
    <2>1. \A c \in sale[x].counted : IsLive(carts[c].product)
      BY <1>2, Zenon DEF ActiveCarts
    <2>2. QED
      BY <1>1, <1>2, <2>1, Zenon DEF Loaded, ProductsOn
  <1>4. Goto(x, "insert") /\ sale' = [sale EXCEPT ![x].todo = sale[x].todo \ {p}, ![x].line = p]
    BY <1>3, Zenon DEF ValidateLine
  <1>5. /\ sale'[x].totalled = sale[x].totalled /\ sale'[x].amount = sale[x].amount
        /\ sale'[x].seen = sale[x].seen /\ sale'[x].counted = sale[x].counted
        /\ sale'[x].found = sale[x].found /\ sale'[x].todo = sale[x].todo \ {p}
        /\ sale'[x].prices = sale[x].prices /\ sale'[x].order = sale[x].order
        /\ sale'[x].line = p
    BY <1>0, <1>4, ZenonT(30) DEF Sale
  <1>6. thread'[x].user = thread[x].user /\ thread'[x].pc = "insert"
    BY <1>0, <1>4, Zenon DEF Goto, ThreadState
  <1>7. sale'[x].totalled = ActiveCarts(thread[x].user)' /\ Totalled(x)'
    BY <1>1, <1>2, <1>5, <1>6, SaleStaysPriced, Zenon
  <1>8. Loaded(x)'
    BY <1>1, <1>2, <1>5, LoadedStays, Zenon
  <1>9. LinesWritten(x, sale[x].todo \cup {sale[x].line})'
    <2>1. sale'[x].todo \cup {sale'[x].line} = sale[x].todo
      BY <1>1, <1>5, Zenon
    <2>2. QED
      BY <1>1, <1>2, <1>5, <2>1, Zenon DEF LinesWritten
  <1>10. p \in sale[x].found
    BY <1>1, <1>2, Zenon DEF Loaded
  <1>11. QED
    BY <1>2, <1>5, <1>6, <1>7, <1>8, <1>9, <1>10, Zenon DEF SalePriced, At

\* The line of a checkout is for what the total charged.
LEMMA LineIsCharge ==
  ASSUME TypeOK, NEW x \in Threads, SalePriced(x), thread[x].pc = "insert"
  PROVE  /\ sale[x].line \in Products
         /\ Line(x, sale[x].line).amount = sale[x].amount[sale[x].line]
  <1>1. PICK p, rows : p = sale[x].line /\ rows = sale[x].totalled
    OBVIOUS
  <1>2. /\ p \in sale[x].found /\ Totalled(x) /\ Loaded(x) /\ sale[x].counted = rows
    BY <1>1, Zenon DEF SalePriced
  <1>3. p \in Products
    BY <1>2, Zenon DEF TypeOK, Sale
  <1>4. sale[x].amount[p] = products[p].price * Units(rows, p)
    BY <1>1, <1>2, <1>3, Zenon DEF Totalled, CostOf
  <1>5. Line(x, p).amount = products[p].price * Units(rows, p)
    BY <1>2, Zenon DEF Line, Loaded
  <1>6. QED
    BY <1>1, <1>3, <1>4, <1>5, Zenon

\* A line written is a line less to write.
LEMMA InsertPrices ==
  ASSUME TypeOK, OrdersOwned, NEW x \in Threads, SalePriced(x), InsertLine(x), ~EndSale(x)
  PROVE  SalePriced(x)'
  <1>0. /\ thread \in [Threads -> ThreadState] /\ sale \in [Threads -> Sale]
        /\ lines \in [Orders -> [Products -> LineRow]] /\ sale[x].order \in Orders \cup {None}
    BY DEF TypeOK, Sale
  <1>1. PICK p, o : p = sale[x].line /\ o = sale[x].order
    OBVIOUS
  <1>2. /\ thread[x].pc = "insert" /\ lines' = [lines EXCEPT ![o][p] = Line(x, p)]
        /\ sale' = [sale EXCEPT ![x].line = None] /\ Goto(x, "line")
        /\ UNCHANGED <<products, carts>>
    BY <1>1, Zenon DEF InsertLine, At
  <1>3. /\ sale[x].totalled = ActiveCarts(thread[x].user) /\ Totalled(x) /\ Loaded(x)
        /\ sale[x].counted = sale[x].totalled /\ p \in sale[x].found \ sale[x].todo
        /\ LinesWritten(x, sale[x].todo \cup {p})
    BY <1>1, <1>2, Zenon DEF SalePriced
  <1>4. /\ sale'[x].totalled = sale[x].totalled /\ sale'[x].amount = sale[x].amount
        /\ sale'[x].seen = sale[x].seen /\ sale'[x].counted = sale[x].counted
        /\ sale'[x].found = sale[x].found /\ sale'[x].todo = sale[x].todo
        /\ sale'[x].prices = sale[x].prices /\ sale'[x].order = o
    BY <1>0, <1>1, <1>2, Zenon DEF Sale
  <1>5. thread'[x].user = thread[x].user /\ thread'[x].pc = "line"
    BY <1>0, <1>2, Zenon DEF Goto, ThreadState
  <1>6. sale'[x].totalled = ActiveCarts(thread[x].user)' /\ Totalled(x)'
    BY <1>2, <1>3, <1>4, <1>5, SaleStaysPriced, Zenon
  <1>7. Loaded(x)'
    BY <1>2, <1>3, <1>4, LoadedStays, Zenon
  <1>8. LinesWritten(x, sale[x].todo)'
    <2>1. o \in Orders
      BY <1>0, <1>1, <1>2, Zenon DEF OrdersOwned, OrderOwned, InsertLine, At, checkouts
    <2>2. /\ p \in Products /\ Line(x, p).amount = sale[x].amount[p]
      BY <1>1, <1>2, LineIsCharge, Zenon
    <2>3. lines'[o][p] = Line(x, p) /\ \A q \in Products \ {p} : lines'[o][q] = lines[o][q]
      BY <1>0, <1>2, <2>1, <2>2, Zenon
    <2>4. SUFFICES ASSUME NEW q \in Products
                   PROVE  lines'[o][q].amount =
                             IF q \in sale[x].todo THEN 0 ELSE sale[x].amount[q]
      BY <1>4, Zenon DEF LinesWritten
    <2>5. CASE q = p
      BY <1>3, <2>2, <2>3, <2>5, Zenon
    <2>6. CASE q # p
      BY <1>1, <1>3, <2>3, <2>6, Zenon DEF LinesWritten
    <2>7. QED
      BY <2>5, <2>6, Zenon
  <1>9. QED
    BY <1>3, <1>4, <1>5, <1>6, <1>7, <1>8, ZenonT(40) DEF SalePriced, At

\* Nothing that a checkout read changes.
LEMMA PricedStays ==
  ASSUME NEW x \in Threads, Priced(x),
         UNCHANGED <<products, carts, lines, thread, sale, item, edit>>
  PROVE  Priced(x)'
  <1>1. Totalled(x) => Totalled(x)'
    BY TotalStays, Zenon DEF Totalled
  <1>2. Loaded(x) => Loaded(x)'
    BY LoadedStays
  <1>3. \A left : LinesWritten(x, left) => LinesWritten(x, left)'
    BY Zenon DEF LinesWritten
  <1>4. /\ LinesWritten(x, sale[x].todo) => LinesWritten(x, sale[x].todo)'
        /\ LinesWritten(x, sale[x].todo \cup {sale[x].line}) =>
              LinesWritten(x, sale[x].todo \cup {sale[x].line})'
    BY Zenon DEF LinesWritten
  <1>5. SalePriced(x) => SalePriced(x)'
    BY <1>1, <1>2, <1>3, <1>4, TotalStays, ZenonT(40) DEF SalePriced, At
  <1>6. DependentCarts(edit[x].product)' = DependentCarts(edit[x].product)
    BY DEF DependentCarts
  <1>7. QED
    BY <1>5, <1>6, Zenon DEF Priced, IsLive, At

\* A checkout's own steps.
LEMMA CheckoutPriced ==
  ASSUME RowsCount, SafetyInv, LinesZero, Alone, shift.oneThread, ActiveCartHasProduct,
         NEW x \in Threads, Priced(x), thread'[x].h # "idle",
         CheckoutNext, UNCHANGED <<item, edit>>
  PROVE  Priced(x)'
  <1> USE DEF tables
  <1>0. /\ thread \in [Threads -> ThreadState] /\ sale \in [Threads -> Sale]
        /\ TypeOK /\ OrdersOwned /\ LinesRefer
        /\ \A c \in CartIds : carts[c].st = "active" => IsLive(carts[c].product)
    BY Zenon DEF SafetyInv, TypeOK, ActiveCartHasProduct
  <1>1. ASSUME NEW t \in Threads, NEW u \in Users, NEW h \in checkouts, BeginCheckout(t, h, u)
        PROVE  Priced(x)'
    <2>1. x = t
      BY <1>0, <1>1, Actor, Zenon DEF BeginCheckout, Begin
    <2>2. thread'[x].h = h /\ thread'[x].pc = "prices" /\ thread'[x].user = u
      BY <1>0, <1>1, <2>1, Zenon DEF BeginCheckout, Begin
    <2>3. sale'[x].totalled = ActiveCarts(u) /\ UNCHANGED carts
      BY <1>0, <1>1, <2>1, Zenon DEF BeginCheckout, Sale
    <2>4. sale'[x].totalled = ActiveCarts(thread[x].user)'
      BY <2>2, <2>3, Zenon DEF ActiveCarts
    <2>5. SalePriced(x)'
      BY <2>2, <2>4, Zenon DEF SalePriced, At
    <2>6. QED
      BY <2>2, <2>5, Zenon DEF Priced, At, adders, checkouts
  <1>2. ASSUME NEW t \in Threads, CheckoutStep(t)
        PROVE  Priced(x)'
    <2>1. thread[t].h \in checkouts /\ (UNCHANGED thread \/ Finish(t) \/ \E pc : Goto(t, pc))
      BY <1>2, CheckoutGoes, Zenon
    <2>2. x = t
      BY <1>0, <2>1, Actor, Zenon DEF Finish, Goto, checkouts
    <2>3. ~Finish(x) /\ thread'[x].h = thread[x].h
      BY <1>0, <2>1, <2>2 DEF Finish, Goto, Idle, ThreadState
    <2>4. ~EndSale(x)
      BY <2>3 DEF EndSale
    <2>5. SUFFICES ASSUME thread'[x].pc # "redirect" PROVE SalePriced(x)'
      BY <2>1, <2>2, <2>3, Zenon DEF Priced, At, adders, checkouts
    <2>6. CASE Redirect(x)
      BY <2>4, <2>6, Zenon DEF Redirect
    <2>7. CASE SweepCarts(x)
      <3>1. Goto(x, "redirect")
        BY <2>4, <2>7, Zenon DEF SweepCarts
      <3>2. QED
        BY <1>0, <2>5, <3>1, Zenon DEF Goto, ThreadState
    <2>8. CASE GatewayRefuses(x)
      BY <2>4, <2>8, Zenon DEF GatewayRefuses
    <2>9. ASSUME ~Redirect(x) PROVE SalePriced(x)
      <3>1. thread[x].pc # "redirect"
        BY <1>2, <2>2, <2>9, ZenonT(40)
           DEF CheckoutStep, Total, CountCarts, LoadProducts, CallGateway,
              GatewayRefuses, CreateBill, ValidateLine, InsertLine, SweepCarts, At
      <3>2. QED
        BY <2>1, <2>2, <3>1, Zenon DEF Priced
    <2>10. QED
      BY <1>0, <1>2, <2>1, <2>2, <2>4, <2>6, <2>7, <2>8, <2>9, TotalPrices, CountPrices,
         LoadPrices, CallPrices, BillPrices, ValidatePrices, InsertPrices, ZenonT(40)
            DEF CheckoutStep
  <1>3. ASSUME NEW o, GatewayCollects(o) \/ GatewayGivesUp(o)
        PROVE  Priced(x)'
    <2>1. UNCHANGED <<products, carts, bills, lines, thread, sale, item, edit>>
      BY <1>3, Zenon DEF GatewayCollects, GatewayGivesUp
    <2>2. QED
      BY <2>1, PricedStays, Zenon
  <1>4. QED
    BY <1>1, <1>2, <1>3, Zenon DEF CheckoutNext

\* Every step keeps what a request read.
LEMMA NextPriced ==
  ASSUME RowsCount, SafetyInv, LinesZero, [Next]_vars, shift.oneThread, Alone, ActiveCartHasProduct,
         NEW x \in Threads, Priced(x)
  PROVE  Priced(x)'
  <1>0. TypeOK
    BY DEF SafetyInv
  <1>1. CASE thread'[x].h = "idle"
    BY <1>1, Zenon DEF Priced, At, adders, checkouts
  <1>2. CASE Crash
    BY <1>1, <1>2, Zenon DEF Crash, Idle
  <1>3. CASE UNCHANGED vars
    BY <1>3, PricedStays DEF vars, tables
  <1>4. QED
    BY <1>0, <1>1, <1>2, <1>3, CartsPriced, CheckoutPriced, BillsPriced, CatalogPriced, Zenon
       DEF Next

-----------------------------------------------------------------------------
(***************************************************************************)
(* Rows of the tables.                                                     *)
(***************************************************************************)
\* The statements that write a line, and those that write a product.
LEMMA LinesMove ==
  ASSUME [Next]_vars
  PROVE  UNCHANGED lines \/ \E t \in Threads : InsertLine(t) \/ DestroyProduct(t)
  <1> USE DEF tables
  <1>1. ASSUME CartsNext PROVE UNCHANGED lines
    BY <1>1, Zenon DEF CartsNext, FindProduct, CartsStep, CountForCreate, CountForUpdate,
       CreateCart,
           ValidateCart, FirstCart, DestroyCart, RemoveCarts
  <1>2. ASSUME CheckoutNext PROVE UNCHANGED lines \/ \E t \in Threads : InsertLine(t)
    <2>1. ASSUME NEW t \in Threads, CheckoutStep(t) PROVE UNCHANGED lines \/ InsertLine(t)
      <3>1. \A o \in Orders : CallGateway(t, o) \/ CreateBill(t, o) => UNCHANGED lines
        BY Zenon DEF CallGateway, CreateBill
      <3>2. \A p \in Products : ValidateLine(t, p) => UNCHANGED lines
        BY Zenon DEF ValidateLine
      <3>3. Total(t) \/ CountCarts(t) \/ LoadProducts(t) \/ GatewayRefuses(t) \/ SweepCarts(t)
              \/ Redirect(t) => UNCHANGED lines
        BY ZenonT(40) DEF Total, CountCarts, LoadProducts, GatewayRefuses, SweepCarts, Redirect
      <3>4. QED
        BY <2>1, <3>1, <3>2, <3>3, Zenon DEF CheckoutStep
    <2>2. QED
      BY <1>2, <2>1, Zenon DEF CheckoutNext, BeginCheckout, GatewayCollects, GatewayGivesUp
  <1>3. ASSUME BillsNext PROVE UNCHANGED lines
    BY <1>3, Zenon DEF BillsNext, FindBill, BillsStep, UpdatePaid, UpdateShipped
  <1>4. ASSUME CatalogNext PROVE UNCHANGED lines \/ \E t \in Threads : DestroyProduct(t)
    BY <1>4, ZenonT(40) DEF CatalogNext, CatalogStep, CreateProduct, UpdateProduct, FindForDestroy,
           LoadDependents
  <1>5. ASSUME Crash \/ UNCHANGED vars PROVE UNCHANGED lines
    BY <1>5 DEF Crash, vars
  <1>6. QED
    BY <1>1, <1>2, <1>3, <1>4, <1>5, Zenon DEF Next

\* Which steps change products.
LEMMA ProductsMove ==
  ASSUME [Next]_vars
  PROVE  \/ UNCHANGED products
         \/ \E p \in Products, price \in Prices, quantity \in Quantities :
               CreateProduct(p, price, quantity) \/ UpdateProduct(p, price, quantity)
         \/ \E t \in Threads : DestroyProduct(t)
  <1> USE DEF tables
  <1>1. ASSUME CartsNext PROVE UNCHANGED products
    BY <1>1, ZenonT(40)
       DEF CartsNext, FindProduct, CartsStep, CountForCreate, CountForUpdate, CreateCart,
           ValidateCart, FirstCart, DestroyCart, RemoveCarts
  <1>2. ASSUME CheckoutNext PROVE UNCHANGED products
    <2>1. ASSUME NEW t \in Threads, CheckoutStep(t) PROVE UNCHANGED products
      <3>1. \A o \in Orders : CallGateway(t, o) \/ CreateBill(t, o) => UNCHANGED products
        BY Zenon DEF CallGateway, CreateBill
      <3>2. \A p \in Products : ValidateLine(t, p) => UNCHANGED products
        BY Zenon DEF ValidateLine
      <3>3. Total(t) \/ CountCarts(t) \/ LoadProducts(t) \/ GatewayRefuses(t) \/ SweepCarts(t)
              \/ Redirect(t) \/ InsertLine(t) => UNCHANGED products
        BY ZenonT(40)
           DEF Total, CountCarts, LoadProducts, GatewayRefuses, SweepCarts, Redirect, InsertLine
      <3>4. QED
        BY <2>1, <3>1, <3>2, <3>3, Zenon DEF CheckoutStep
    <2>2. QED
      BY <1>2, <2>1, Zenon DEF CheckoutNext, BeginCheckout, GatewayCollects, GatewayGivesUp
  <1>3. ASSUME BillsNext PROVE UNCHANGED products
    BY <1>3, Zenon DEF BillsNext, FindBill, BillsStep, UpdatePaid, UpdateShipped
  <1>4. ASSUME CatalogNext
        PROVE  \/ UNCHANGED products
               \/ \E p \in Products, price \in Prices, quantity \in Quantities :
                     CreateProduct(p, price, quantity) \/ UpdateProduct(p, price, quantity)
               \/ \E t \in Threads : DestroyProduct(t)
    BY <1>4, ZenonT(40) DEF CatalogNext, CatalogStep, FindForDestroy, LoadDependents
  <1>5. ASSUME Crash \/ UNCHANGED vars PROVE UNCHANGED products
    BY <1>5 DEF Crash, vars
  <1>6. QED
    BY <1>1, <1>2, <1>3, <1>4, <1>5 DEF Next

\* Products go one way: new, live, gone; only destroy takes the last step.
LEMMA ProductsAge ==
  ASSUME TypeOK, [Next]_vars, NEW p \in Products
  PROVE  /\ products[p].st = "gone" => products'[p].st = "gone"
         /\ IsLive(p) => IsLive(p)' \/ \E t \in Threads : DestroyProduct(t) /\ p = edit[t].product
  <1>0. products \in [Products -> ProductRow]
    BY DEF TypeOK
  <1>1. CASE UNCHANGED products
    BY <1>1 DEF IsLive
  <1>2. ASSUME NEW q \in Products, NEW price, NEW quantity,
               CreateProduct(q, price, quantity) \/ UpdateProduct(q, price, quantity)
        PROVE  \/ products[p].st = products'[p].st
               \/ products'[p].st = "live" /\ products[p].st # "gone"
    BY <1>0, <1>2 DEF CreateProduct, UpdateProduct, IsLive, Live
  <1>3. ASSUME NEW t \in Threads, DestroyProduct(t)
        PROVE  \/ products'[p] = products[p]
               \/ p = edit[t].product /\ products'[p].st = "gone"
    BY <1>0, <1>3 DEF DestroyProduct, ProductRow
  <1>4. QED
    BY <1>1, <1>2, <1>3, ProductsMove, Zenon DEF IsLive

\* An absent line has no amount.
LEMMA NextLinesZero ==
  ASSUME TypeOK, [Next]_vars, LinesZero
  PROVE  LinesZero'
  <1> USE DEF tables
  <1>0. lines \in [Orders -> [Products -> LineRow]]
    BY DEF TypeOK
  <1>1. CASE UNCHANGED lines
    BY <1>1 DEF LinesZero
  <1>2. ASSUME NEW t \in Threads, InsertLine(t)
        PROVE  LinesZero'
    <2>1. CASE UNCHANGED lines
      BY <1>1, <2>1
    <2>2. CASE ~UNCHANGED lines
      <3>1. PICK o, p : o = sale[t].order /\ p = sale[t].line
        OBVIOUS
      <3>2. p \in Products /\ lines' = [lines EXCEPT ![o][p] = Line(t, p)]
        BY <1>2, <2>2, <3>1, Zenon DEF InsertLine, IsLive
      <3>3. Line(t, p).quantity = 0 => Line(t, p).amount = 0
        <4>1. sale[t].prices[p] \in Nat
          BY <3>2, Zenon DEF TypeOK, Sale, Breakdown
        <4>2. QED
          BY <4>1 DEF Line
      <3>4. QED
        BY <1>0, <3>2, <3>3, Zenon DEF LinesZero
    <2>3. QED
      BY <2>1, <2>2
  <1>3. ASSUME NEW t \in Threads, DestroyProduct(t)
        PROVE  LinesZero'
    BY <1>0, <1>3 DEF DestroyProduct, LinesZero, NoLine
  <1>4. QED
    BY <1>1, <1>2, <1>3, LinesMove

\* A row in a cart keeps its product.
LEMMA NextCartsLive ==
  ASSUME TypeOK, [Next]_vars, \A t \in Threads : Priced(t),
         NEW c \in CartIds, carts'[c].st = "active",
         carts[c].st = "active" => IsLive(carts[c].product)
  PROVE  IsLive(carts[c].product)'
  <1>0. carts \in [CartIds -> CartRow]
    BY DEF TypeOK
  <1>1. PICK p : p = carts'[c].product
    OBVIOUS
  <1>2. CASE IsLive(p) /\ carts[c].product = p /\ carts[c].st = "active"
    <2>1. ASSUME NEW t \in Threads, DestroyProduct(t), p = edit[t].product
          PROVE  IsLive(p)'
      <3>1. c \in edit[t].carts
        BY <1>2, <2>1, Zenon DEF Priced, DestroyProduct, DependentCarts
      <3>2. CASE UNCHANGED <<products, carts>>
        BY <1>2, <3>2, Zenon DEF IsLive
      <3>3. CASE ~UNCHANGED <<products, carts>>
        <4>1. carts' = [d \in CartIds |-> IF d \in edit[t].carts
                 THEN [carts[d] EXCEPT !.st = "deleted"] ELSE carts[d]]
          BY <2>1, <3>3, Zenon DEF DestroyProduct
        <4>2. carts'[c].st = "deleted"
          BY <1>0, <3>1, <4>1, Zenon DEF CartRow
        <4>3. QED
          BY <4>2
      <3>4. QED
        BY <3>2, <3>3
    <2>2. IsLive(p)'
      BY <1>2, <2>1, ProductsAge, Zenon DEF IsLive
    <2>3. QED
      BY <1>1, <2>2, Zenon DEF IsLive
  <1>3. CASE \A d \in CartIds : Fades(d)
    BY <1>1, <1>2, <1>3, Zenon DEF Fades
  <1>4. ASSUME NEW t \in Threads, NEW n \in CartIds, Inserts(t, n)
        PROVE  IsLive(carts[c].product)'
    <2>1. CASE c = n
      <3>1. p = item[t].product /\ IsLive(p)
        BY <1>1, <1>4, <2>1 DEF Inserts, CreateCart, At, Priced, adders
      <3>2. UNCHANGED products
        BY <1>4, Zenon DEF Inserts, CreateCart
      <3>3. QED
        BY <1>1, <3>1, <3>2, Zenon DEF IsLive
    <2>2. CASE c # n
      BY <1>1, <1>2, <1>4, <2>2, Zenon DEF Inserts
    <2>3. QED
      BY <2>1, <2>2, Zenon
  <1>5. QED
    BY <1>3, <1>4, CartMoves, Zenon

\* While it writes lines, what a checkout charges is what its bill says.
LEMMA BillIsCharge ==
  ASSUME OrdersOwned, NEW t \in Threads, thread[t].h \in checkouts, thread[t].pc \in {"line",
     "insert"}
  PROVE  bills[sale[t].order].amount = sale[t].amount
  BY ZenonT(40) DEF OrdersOwned, OrderOwned, OwnsOrder, At

\* A bill whose checkout has ended keeps total and lines.
LEMMA NextAmounts ==
  ASSUME SafetyInv, [Next]_vars, \A t \in Threads : Priced(t),
         NEW o \in Orders, NEW p \in Products, bills'[o].swept, products'[p].st # "gone",
         bills[o].swept /\ products[p].st # "gone" => bills[o].amount[p] = lines[o][p].amount
  PROVE  bills'[o].amount[p] = lines'[o][p].amount
  <1> USE DEF tables
  <1>0. /\ bills \in [Orders -> BillRow] /\ lines \in [Orders -> [Products -> LineRow]]
        /\ TypeOK /\ OrdersOwned
    BY ZenonT(40) DEF SafetyInv, TypeOK
  <1>1. products[p].st # "gone"
    BY <1>0, ProductsAge, ZenonT(40)
  <1>2. bills'[o].amount = bills[o].amount
    <2>1. ASSUME NEW t \in Threads, NEW n \in Orders, CreateBill(t, n)
          PROVE  bills'[o] = bills[o] \/ ~bills'[o].swept
      BY <1>0, <2>1, Zenon DEF CreateBill, NoBill
    <2>2. ASSUME NEW t \in Threads, SweepCarts(t)
          PROVE  bills'[o].amount = bills[o].amount
      <3>1. bills' = [bills EXCEPT ![sale[t].order].swept = TRUE]
        BY <2>2, Zenon DEF SweepCarts
      <3>2. QED
        BY <1>0, <3>1 DEF BillRow
    <2>3. ASSUME NEW t \in Threads, BillsStep(t)
          PROVE  bills'[o].amount = bills[o].amount
      <3>1. PICK row : /\ bills' = [bills EXCEPT ![mark[t].order] = row]
                       /\ \/ row = Paid(t, bills[mark[t].order])
                          \/ row = Shipped(t, bills[mark[t].order])
        BY <2>3, Zenon DEF BillsStep, UpdatePaid, UpdateShipped
      <3>2. CASE o = mark[t].order
        <4>0. bills[o] \in BillRow
          BY <1>0, Zenon
        <4>1. row.amount = bills[o].amount
          BY <3>1, <3>2, <4>0, ZenonT(40) DEF BillRow, Paid, Shipped
        <4>2. bills'[o] = row
          BY <1>0, <3>1, <3>2, Zenon
        <4>3. QED
          BY <4>1, <4>2, Zenon
      <3>3. CASE o # mark[t].order
        BY <1>0, <3>1, <3>3, Zenon
      <3>4. QED
        BY <3>2, <3>3, Zenon
    <2>4. QED
      BY <2>1, <2>2, <2>3, BillWrites, Zenon
  <1>3. CASE bills[o].swept
    <2>1. ASSUME NEW t \in Threads, InsertLine(t)
          PROVE  lines'[o][p].amount = bills[o].amount[p]
      <3>1. CASE lines'[o][p] = lines[o][p]
        BY <1>1, <1>3, <3>1, Zenon
      <3>2. CASE lines'[o][p] # lines[o][p]
        <4>1. o = sale[t].order /\ p = sale[t].line /\ lines'[o][p] = Line(t, p)
          BY <1>0, <2>1, <3>2 DEF InsertLine
        <4>2. thread[t].pc = "insert" /\ thread[t].h \in checkouts
          BY <2>1, Zenon DEF InsertLine, At
        <4>3. SalePriced(t)
          BY <4>2, Zenon DEF Priced
        <4>4. QED
          BY <1>0, <4>1, <4>2, <4>3, LineIsCharge, BillIsCharge, ZenonT(40)
      <3>3. QED
        BY <3>1, <3>2, Zenon
    <2>2. ASSUME NEW t \in Threads, DestroyProduct(t)
          PROVE  lines'[o][p] = lines[o][p]
      <3>1. CASE UNCHANGED lines
        BY <3>1
      <3>2. CASE ~UNCHANGED lines
        <4>1. /\ products' = [products EXCEPT ![edit[t].product].st = "gone"]
              /\ lines' = [n \in Orders |-> IF n \in edit[t].orders
                    THEN [lines[n] EXCEPT ![edit[t].product] = NoLine] ELSE lines[n]]
          BY <2>2, <3>2, Zenon DEF DestroyProduct
        <4>2. p # edit[t].product
          BY <1>0, <4>1, Zenon DEF TypeOK, ProductRow
        <4>3. QED
          BY <1>0, <4>1, <4>2, Zenon
      <3>3. QED
        BY <3>1, <3>2, Zenon
    <2>3. lines'[o][p].amount = bills[o].amount[p]
      BY <1>1, <1>3, <2>1, <2>2, LinesMove, Zenon
    <2>4. QED
      BY <1>2, <2>3, Zenon
  <1>4. ASSUME NEW t \in Threads, SweepCarts(t), o = sale[t].order
        PROVE  bills'[o].amount[p] = lines'[o][p].amount
    <2>1. /\ thread[t].pc = "line" /\ thread[t].h \in checkouts /\ sale[t].todo = {}
          /\ UNCHANGED lines
      BY <1>4, Zenon DEF SweepCarts, AllLines, At
    <2>2. lines[o][p].amount = sale[t].amount[p]
      BY <1>4, <2>1, ZenonT(40) DEF Priced, SalePriced, LinesWritten
    <2>3. QED
      BY <1>0, <1>2, <1>4, <2>1, <2>2, BillIsCharge, ZenonT(40)
  <1>5. QED
    BY <1>0, <1>3, <1>4, BillMoves, ZenonT(40) DEF BillKept, BillCreated, BillSwept

-----------------------------------------------------------------------------
(***************************************************************************)
(* The invariant and what follows from it.                                 *)
(***************************************************************************)
LEMMA InitThread ==
  ASSUME Init
  PROVE  ThreadInv
  <1>1. LinesZero
    BY Zenon DEF Init, LinesZero, NoLine
  <1>2. Alone /\ \A t \in Threads : Priced(t)
    BY Zenon DEF Init, Idle, Alone, Priced, At, adders, checkouts
  <1>3. ActiveCartHasProduct
    BY Zenon DEF Init, NoCart, ActiveCartHasProduct
  <1>4. AmountIsLines
    BY Zenon DEF Init, NoBill, AmountIsLines
  <1>5. QED
    BY <1>1, <1>2, <1>3, <1>4 DEF ThreadInv

\* Every step keeps the invariant.
LEMMA NextThread ==
  ASSUME RowsCount, SafetyInv, ThreadInv, [Next]_vars
  PROVE  ThreadInv'
  <1>0. TypeOK /\ LinesZero /\ shift' = shift
    BY DEF SafetyInv, ThreadInv, Next, vars
  <1>1. LinesZero'
    BY <1>0, NextLinesZero
  <1>2. ASSUME shift.oneThread
        PROVE  /\ Alone' /\ \A t \in Threads : Priced(t)'
               /\ \A c \in CartIds : carts'[c].st = "active" => IsLive(carts[c].product)'
               /\ \A o \in Orders, p \in Products : bills'[o].swept /\ products'[p].st # "gone" =>
                     bills'[o].amount[p] = lines'[o][p].amount
    <2>1. /\ Alone /\ \A t \in Threads : Priced(t)
          /\ \A c \in CartIds : carts[c].st = "active" => IsLive(carts[c].product)
          /\ \A o \in Orders, p \in Products : bills[o].swept /\ products[p].st # "gone" =>
                bills[o].amount[p] = lines[o][p].amount
      BY <1>2, Zenon DEF ThreadInv, ActiveCartHasProduct, AmountIsLines
    <2>2. Alone'
      BY <1>0, <1>2, <2>1, NextAlone, Zenon
    <2>3. \A t \in Threads : Priced(t)'
      <3>1. ActiveCartHasProduct
        BY DEF ThreadInv
      <3>2. QED
        BY <1>0, <1>2, <2>1, <3>1, NextPriced, Zenon
    <2>4. \A c \in CartIds : carts'[c].st = "active" => IsLive(carts[c].product)'
      BY <1>0, <2>1, NextCartsLive, Zenon
    <2>5. \A o \in Orders, p \in Products : bills'[o].swept /\ products'[p].st # "gone" =>
             bills'[o].amount[p] = lines'[o][p].amount
      BY <2>1, NextAmounts, Zenon
    <2>6. QED
      BY <2>2, <2>3, <2>4, <2>5, Zenon
  <1>3. ActiveCartHasProduct' /\ AmountIsLines'
    BY <1>0, <1>2, Zenon DEF ActiveCartHasProduct, AmountIsLines
  <1>4. QED
    BY <1>0, <1>1, <1>2, <1>3, ZenonT(40) DEF ThreadInv
=============================================================================
