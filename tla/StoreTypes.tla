----------------------------- MODULE StoreTypes -----------------------------
(***************************************************************************)
(* Type correctness of Store, step by step, for any customers, products,   *)
(* orders, threads and bounds; and what a step of the shop does to the     *)
(* tables, which the proofs of the other modules share.                    *)
(***************************************************************************)
EXTENDS Store, TLAPS

-----------------------------------------------------------------------------
(***************************************************************************)
(* Facts about the operators.                                              *)
(***************************************************************************)

\* What counting the rows of a cart comes to: StoreTheorems proves it from
\* the library, whose theorems are not needed anywhere else.
RowsCount ==
    /\ Cardinality({}) = 0
    /\ \A S \in SUBSET CartIds :
          /\ Cardinality(S) \in Nat
          /\ \A R \in SUBSET S : Cardinality(R) <= Cardinality(S)
          /\ \A c \in CartIds \ S : Cardinality(S \cup {c}) = Cardinality(S) + 1

\* data_cart holds natural numbers.
LEMMA UnitsNat ==
  ASSUME RowsCount, NEW S \in SUBSET CartIds, NEW p
  PROVE  Units(S, p) \in Nat
  BY DEF RowsCount, Units

\* The rows a request starts from, and the empty locals, have their types.
LEMMA DefaultTypes ==
  /\ NoBill \in BillRow /\ NoCart \in CartRow /\ NoLine \in LineRow
  /\ NoProduct \in ProductRow /\ Idle \in ThreadState
  /\ NoItem \in Item /\ NoSale \in Sale /\ NoMark \in BillMark /\ NoEdit \in Edit
  /\ NoMoney \in Breakdown /\ NoOrder \in GatewayOrder
  <1>1. NoMoney \in Breakdown
    BY DEF NoMoney, Breakdown
  <1>2. NoBill \in BillRow
    BY <1>1 DEF NoBill, BillRow
  <1>3. NoCart \in CartRow /\ NoLine \in LineRow /\ NoProduct \in ProductRow
    BY DEF NoCart, CartRow, NoLine, LineRow, NoProduct, ProductRow
  <1>4. Idle \in ThreadState /\ NoItem \in Item
    BY DEF Idle, ThreadState, Statements, HandlerNames, NoItem, Item
  <1>5. NoSale \in Sale /\ NoOrder \in GatewayOrder
    BY <1>1, Zenon DEF NoSale, Sale, NoOrder, GatewayOrder
  <1>6. NoMark \in BillMark /\ NoEdit \in Edit
    BY <1>2 DEF NoMark, BillMark, NoEdit, Edit
  <1>7. QED
    BY <1>1, <1>2, <1>3, <1>4, <1>5, <1>6

\* The three things a request does with its thread keep the thread's type.
LEMMA ThreadTypes ==
  ASSUME thread \in [Threads -> ThreadState], NEW t \in Threads
  PROVE  /\ \A h \in HandlerNames, u \in Users \cup {None}, pc \in Statements :
               Begin(t, h, u, pc) => thread' \in [Threads -> ThreadState]
         /\ \A pc \in Statements : Goto(t, pc) => thread' \in [Threads -> ThreadState]
         /\ Finish(t) => thread' \in [Threads -> ThreadState]
  BY DefaultTypes DEF Begin, Goto, Finish, ThreadState

\* So do the assignments of a cart request to its locals.
LEMMA ItemTypes ==
  ASSUME item \in [Threads -> Item], NEW t \in Threads
  PROVE  /\ \A n \in Nat : [item EXCEPT ![t].left = n] \in [Threads -> Item]
         /\ \A c \in CartIds : [item EXCEPT ![t].victim = c] \in [Threads -> Item]
         /\ thread \in [Threads -> ThreadState] /\ EndItem(t) =>
               thread' \in [Threads -> ThreadState] /\ item' \in [Threads -> Item]
  <1>1. \A n \in Nat : [item EXCEPT ![t].left = n] \in [Threads -> Item]
    BY DEF Item
  <1>2. \A c \in CartIds : [item EXCEPT ![t].victim = c] \in [Threads -> Item]
    BY DEF Item
  <1>3. QED
    BY <1>1, <1>2, ThreadTypes, DefaultTypes, Zenon DEF EndItem

\* So do the assignments of a checkout to its locals ...
LEMMA SaleTypes ==
  ASSUME NEW s \in Sale
  PROVE  /\ \A rows \in SUBSET CartIds : [s EXCEPT !.totalled = rows] \in Sale
         /\ \A rows \in SUBSET CartIds : [s EXCEPT !.counted = rows] \in Sale
         /\ \A a, b \in Breakdown : [s EXCEPT !.amount = a, !.seen = b] \in Sale
         /\ \A f \in SUBSET Products, m \in Breakdown :
               [s EXCEPT !.found = f, !.todo = f, !.prices = m] \in Sale
         /\ \A o \in Orders : [s EXCEPT !.order = o] \in Sale
         /\ \A p \in Products : /\ [s EXCEPT !.todo = @ \ {p}] \in Sale
                                /\ [s EXCEPT !.todo = @ \ {p}, !.line = p] \in Sale
         /\ [s EXCEPT !.line = None] \in Sale
  <1>1. /\ \A rows \in SUBSET CartIds : [s EXCEPT !.totalled = rows] \in Sale
        /\ \A rows \in SUBSET CartIds : [s EXCEPT !.counted = rows] \in Sale
    BY Zenon DEF Sale
  <1>2. \A a, b \in Breakdown : [s EXCEPT !.amount = a, !.seen = b] \in Sale
    BY Zenon DEF Sale
  <1>3. \A f \in SUBSET Products, m \in Breakdown :
           [s EXCEPT !.found = f, !.todo = f, !.prices = m] \in Sale
    BY Zenon DEF Sale
  <1>4. \A o \in Orders : [s EXCEPT !.order = o] \in Sale
    BY DEF Sale
  <1>5. \A p \in Products : /\ [s EXCEPT !.todo = @ \ {p}] \in Sale
                            /\ [s EXCEPT !.todo = @ \ {p}, !.line = p] \in Sale
    BY Zenon DEF Sale
  <1>6. [s EXCEPT !.line = None] \in Sale
    BY DEF Sale
  <1>7. QED
    BY <1>1, <1>2, <1>3, <1>4, <1>5, <1>6, Zenon

\* ... and the single-column writes to the tables and to the gateway.
LEMMA ColumnTypes ==
  /\ \A row \in BillRow : [row EXCEPT !.swept = TRUE] \in BillRow
  /\ \A row \in ProductRow : [row EXCEPT !.st = "gone"] \in ProductRow
  /\ \A row \in CartRow, st \in {"inactive", "deleted"} : [row EXCEPT !.st = st] \in CartRow
  /\ \A g \in GatewayOrder, st \in {"payable", "paid", "failed"} :
        [g EXCEPT !.st = st] \in GatewayOrder
  <1>1. \A row \in BillRow : [row EXCEPT !.swept = TRUE] \in BillRow
    BY Zenon DEF BillRow
  <1>2. \A row \in ProductRow : [row EXCEPT !.st = "gone"] \in ProductRow
    BY DEF ProductRow
  <1>3. \A row \in CartRow, st \in {"inactive", "deleted"} : [row EXCEPT !.st = st] \in CartRow
    BY DEF CartRow
  <1>4. \A g \in GatewayOrder, st \in {"payable", "paid", "failed"} :
           [g EXCEPT !.st = st] \in GatewayOrder
    BY DEF GatewayOrder
  <1>5. QED
    BY <1>1, <1>2, <1>3, <1>4

-----------------------------------------------------------------------------
(***************************************************************************)
(* Type correctness, component by component.                               *)
(***************************************************************************)
\* The steps of CartsController outside the checkouts keep every type.
LEMMA CartsType ==
  ASSUME RowsCount, TypeOK, CartsNext, UNCHANGED <<sale, external, mark, edit, shift>>
  PROVE  TypeOK'
  <1> USE DEF TypeOK, tables, external
  <1>1. ASSUME NEW t \in Threads, NEW h \in HandlerNames, NEW u \in Users,
               NEW p \in Products, NEW q \in Nat, FindProduct(t, h, u, p, q)
        PROVE  TypeOK'
    <2>1. thread' \in [Threads -> ThreadState]
      BY <1>1, ThreadTypes, Zenon DEF FindProduct, Statements
    <2>2. item' \in [Threads -> Item]
      BY <1>1, Zenon DEF FindProduct, Item, NoItem, ProductRow
    <2>3. QED
      BY <1>1, <2>1, <2>2, Zenon DEF FindProduct
  <1>3. ASSUME NEW t \in Threads, CountForCreate(t)
        PROVE  TypeOK'
    <2>1. CASE EndItem(t)
      BY <1>3, <2>1, ItemTypes, Zenon DEF CountForCreate
    <2>2. CASE Goto(t, "insert") /\ item' = [item EXCEPT ![t].left = 1]
      BY <1>3, <2>2, ItemTypes, ThreadTypes, Zenon DEF CountForCreate, Statements
    <2>3. QED
      BY <1>3, <2>1, <2>2, Zenon DEF CountForCreate
  <1>4. ASSUME NEW t \in Threads, CountForUpdate(t)
        PROVE  TypeOK'
    <2> DEFINE n == Cardinality(ActiveOf(thread[t].user, item[t].product))
    <2>1. n \in Nat /\ item[t].wanted \in Nat
      BY Zenon DEF RowsCount, ActiveOf, ActiveCarts, Item
    <2>2. CASE EndItem(t)
      BY <1>4, <2>2, ItemTypes, Zenon DEF CountForUpdate
    <2>3. ASSUME NEW k \in Nat, NEW pc \in Statements,
                 Goto(t, pc) /\ item' = [item EXCEPT ![t].left = k]
          PROVE  TypeOK'
      BY <1>4, <2>3, ItemTypes, ThreadTypes, Zenon DEF CountForUpdate
    <2>4. CASE item[t].wanted > n
      <3>1. item[t].wanted - n \in Nat /\ "insert" \in Statements
        BY <2>1, <2>4 DEF Statements
      <3>2. Goto(t, "insert") /\ item' = [item EXCEPT ![t].left = item[t].wanted - n]
        BY <1>4, <2>1, <2>4 DEF CountForUpdate
      <3>3. QED
        BY <2>3, <3>1, <3>2, Zenon
    <2>5. CASE item[t].wanted < n
      <3>1. n - item[t].wanted \in Nat /\ "first" \in Statements
        BY <2>1, <2>5 DEF Statements
      <3>2. Goto(t, "first") /\ item' = [item EXCEPT ![t].left = n - item[t].wanted]
        BY <1>4, <2>1, <2>5 DEF CountForUpdate
      <3>3. QED
        BY <2>3, <3>1, <3>2, Zenon
    <2>6. QED
      BY <1>4, <2>2, <2>4, <2>5, Zenon DEF CountForUpdate
  <1>5. ASSUME NEW t \in Threads, CreateCart(t)
        PROVE  TypeOK'
    <2>1. carts' \in [CartIds -> CartRow]
      BY <1>5 DEF CreateCart, CartRow, ThreadState, Item
    <2>2. CASE EndItem(t)
      BY <1>5, <2>1, <2>2, ItemTypes, Zenon DEF CreateCart
    <2>3. CASE /\ item[t].left > 1 /\ Goto(t, "validate")
               /\ item' = [item EXCEPT ![t].left = @ - 1]
      <3>1. item[t].left - 1 \in Nat
        BY <2>3 DEF Item
      <3>2. QED
        BY <1>5, <2>1, <2>3, <3>1, ItemTypes, ThreadTypes, Zenon DEF CreateCart, Statements
    <2>4. QED
      BY <1>5, <2>2, <2>3, Zenon DEF CreateCart
  <1>6. ASSUME NEW t \in Threads, ValidateCart(t)
        PROVE  TypeOK'
    BY <1>6, ItemTypes, ThreadTypes, Zenon DEF ValidateCart, Statements
  <1>7. ASSUME NEW t \in Threads, FirstCart(t)
        PROVE  TypeOK'
    <2>1. CASE EndItem(t)
      BY <1>7, <2>1, ItemTypes, Zenon DEF FirstCart
    <2>2. CASE ~EndItem(t)
      <3>1. PICK c \in ActiveOf(thread[t].user, item[t].product) :
               Goto(t, "destroy") /\ item' = [item EXCEPT ![t].victim = c]
        BY <1>7, <2>2, Zenon DEF FirstCart
      <3>2. c \in CartIds /\ "destroy" \in Statements
        BY <3>1, Zenon DEF ActiveOf, ActiveCarts, Statements
      <3>3. QED
        BY <1>7, <3>1, <3>2, ItemTypes, ThreadTypes, Zenon DEF FirstCart
    <2>3. QED
      BY <2>1, <2>2, Zenon
  <1>8. ASSUME NEW t \in Threads, DestroyCart(t)
        PROVE  TypeOK'
    <2>1. carts' \in [CartIds -> CartRow]
      <3>1. carts' = [carts EXCEPT ![item[t].victim].st = "deleted"]
        BY <1>8, Zenon DEF DestroyCart
      <3>2. CASE item[t].victim \in CartIds
        BY <3>1, <3>2, ZenonT(60) DEF CartRow
      <3>3. CASE item[t].victim \notin CartIds
        BY <3>1, <3>3, Zenon
      <3>4. QED
        BY <3>2, <3>3, Zenon
    <2>2. CASE EndItem(t)
      BY <1>8, <2>1, <2>2, ItemTypes, Zenon DEF DestroyCart
    <2>3. CASE /\ item[t].left > 1 /\ Goto(t, "first")
               /\ item' = [item EXCEPT ![t].left = @ - 1]
      <3>1. item[t].left - 1 \in Nat
        BY <2>3 DEF Item
      <3>2. QED
        BY <1>8, <2>1, <2>3, <3>1, ItemTypes, ThreadTypes, Zenon DEF DestroyCart, Statements
    <2>4. QED
      BY <1>8, <2>2, <2>3, Zenon DEF DestroyCart
  <1>9. ASSUME NEW u \in Users, NEW p \in Products, RemoveCarts(u, p)
        PROVE  TypeOK'
    BY <1>9, ZenonT(40) DEF RemoveCarts, CartRow
  <1>10. QED
    BY <1>1, <1>3, <1>4, <1>5, <1>6, <1>7, <1>8, <1>9, ShopAssumption, Zenon
       DEF CartsNext, CartsStep, HandlerNames

\* The steps of the checkouts and of the gateway keep every type.
LEMMA CheckoutType ==
  ASSUME RowsCount, TypeOK, CheckoutNext, UNCHANGED <<item, mark, edit, shift>>
  PROVE  TypeOK'
  <1> USE DEF TypeOK, tables, external
  <1>0. ASSUME NEW t \in Threads, EndSale(t)
        PROVE  thread' \in [Threads -> ThreadState] /\ sale' \in [Threads -> Sale]
    BY <1>0, ThreadTypes, DefaultTypes, Zenon DEF EndSale
  <1>1. ASSUME NEW t \in Threads, NEW h \in checkouts, NEW u \in Users,
               BeginCheckout(t, h, u)
        PROVE  TypeOK'
    <2>1. thread' \in [Threads -> ThreadState]
      BY <1>1, ThreadTypes DEF BeginCheckout, checkouts, HandlerNames, Statements
    <2>2. sale' \in [Threads -> Sale]
      <3>1. ActiveCarts(u) \in SUBSET CartIds
        BY DEF ActiveCarts
      <3>2. QED
        BY <1>1, <3>1, SaleTypes, Zenon DEF BeginCheckout
    <2>3. QED
      BY <1>1, <2>1, <2>2, Zenon DEF BeginCheckout
  <1>2. ASSUME NEW t \in Threads, Total(t)
        PROVE  TypeOK'
    <2>1. CASE EndSale(t)
      BY <1>0, <1>2, <2>1, Zenon DEF Total
    <2>2. CASE ~EndSale(t)
      <3> DEFINE rows == sale[t].totalled
                 a == [p \in Products |-> products[p].price * Units(rows, p)]
                 s == [p \in Products |-> IF p \in ProductsOn(rows)
                                         THEN products[p].price ELSE 0]
      <3>1. a \in Breakdown
        BY UnitsNat DEF Sale, Breakdown, ProductRow
      <3>2. s \in Breakdown
        BY DEF Breakdown, ProductRow
      <3>3. Goto(t, "count") /\ sale' = [sale EXCEPT ![t].amount = a, ![t].seen = s]
        BY <1>2, <2>2, Zenon DEF Total
      <3>4. sale' \in [Threads -> Sale]
        <4> HIDE DEF a, s
        <4> QED BY <3>1, <3>2, <3>3, SaleTypes, Zenon
      <3>5. thread' \in [Threads -> ThreadState]
        BY <3>3, ThreadTypes, Zenon DEF Statements
      <3>6. QED
        BY <1>2, <3>4, <3>5, Zenon DEF Total
    <2>3. QED
      BY <2>1, <2>2, Zenon
  <1>3. ASSUME NEW t \in Threads, CountCarts(t)
        PROVE  TypeOK'
    <2>1. thread' \in [Threads -> ThreadState]
      BY <1>3, ThreadTypes, Zenon DEF CountCarts, Statements
    <2>2. sale' \in [Threads -> Sale]
      <3>1. DataCart(thread[t].user) \in SUBSET CartIds
        BY Zenon DEF DataCart, ActiveCarts
      <3>2. QED
        BY <1>3, <3>1, SaleTypes, Zenon DEF CountCarts
    <2>3. QED
      BY <1>3, <2>1, <2>2, Zenon DEF CountCarts
  <1>4. ASSUME NEW t \in Threads, LoadProducts(t)
        PROVE  TypeOK'
    <2>1. thread' \in [Threads -> ThreadState]
      BY <1>4, ThreadTypes, ZenonT(40) DEF LoadProducts, Statements
    <2>2. ASSUME NEW f \in SUBSET Products, NEW m \in Breakdown,
                 sale' = [sale EXCEPT ![t].found = f, ![t].todo = f, ![t].prices = m]
          PROVE  sale' \in [Threads -> Sale]
      BY <2>2, SaleTypes, ZenonT(40)
    <2>3. sale' \in [Threads -> Sale]
      <3> DEFINE on == ProductsOn(sale[t].counted)
                 live == {p \in on : IsLive(p)}
                 m == [p \in Products |-> IF p \in live THEN products[p].price ELSE 0]
      <3>1. on \in SUBSET Products /\ live \in SUBSET Products
        BY Zenon DEF ProductsOn
      <3>2. m \in Breakdown /\ sale[t].seen \in Breakdown
        BY Zenon DEF Breakdown, ProductRow, Sale
      <3>3. \/ sale' = [sale EXCEPT ![t].found = live, ![t].todo = live, ![t].prices = m]
            \/ sale' = [sale EXCEPT ![t].found = on, ![t].todo = on,
                                    ![t].prices = sale[t].seen]
        BY <1>4, Zenon DEF LoadProducts
      <3> HIDE DEF on, live, m
      <3>4. QED
        BY <2>2, <3>1, <3>2, <3>3, Zenon
    <2>4. QED
      BY <1>4, <2>1, <2>3, ZenonT(40) DEF LoadProducts
  <1>5. ASSUME NEW t \in Threads, NEW o \in Orders, CallGateway(t, o)
        PROVE  TypeOK'
    <2>1. sale[t].amount \in Breakdown /\ ItemsOf(t) \in Breakdown
      BY UnitsNat, Zenon DEF Sale, ItemsOf, Breakdown
    <2>2. gateway' \in [Orders -> GatewayOrder]
      BY <1>5, <2>1, Zenon DEF CallGateway, GatewayOrder
    <2>3. CASE EndSale(t)
      BY <1>0, <1>5, <2>2, <2>3, Zenon DEF CallGateway
    <2>4. CASE Goto(t, "bill") /\ sale' = [sale EXCEPT ![t].order = o]
      <3>1. sale' \in [Threads -> Sale]
        BY <2>4, SaleTypes, Zenon
      <3>2. thread' \in [Threads -> ThreadState]
        BY <2>4, ThreadTypes, Zenon DEF Statements
      <3>3. QED
        BY <1>5, <2>2, <3>1, <3>2, Zenon DEF CallGateway
    <2>5. QED
      BY <1>5, <2>3, <2>4, Zenon DEF CallGateway
  <1>6. ASSUME NEW t \in Threads, GatewayRefuses(t)
        PROVE  TypeOK'
    BY <1>0, <1>6, Zenon DEF GatewayRefuses
  <1>7. ASSUME NEW t \in Threads, NEW o \in Orders, CreateBill(t, o)
        PROVE  TypeOK'
    <2>1. thread' \in [Threads -> ThreadState]
      BY <1>7, ThreadTypes, Zenon DEF CreateBill, Statements
    <2>2. sale' \in [Threads -> Sale]
      BY <1>7, SaleTypes, Zenon DEF CreateBill
    <2>3. bills' \in [Orders -> BillRow]
      <3> DEFINE row == [NoBill EXCEPT
                   !.st = IF thread[t].h = "cash" THEN "cash" ELSE "unpaid",
                   !.user = thread[t].user, !.amount = sale[t].amount,
                   !.rows = sale[t].counted]
      <3>1. /\ thread[t].user \in Users \cup {None} /\ sale[t].amount \in Breakdown
            /\ sale[t].counted \in SUBSET CartIds
        BY Zenon DEF ThreadState, Sale
      <3>2. row \in BillRow
        BY <3>1, DefaultTypes, ZenonT(40) DEF NoBill, BillRow
      <3>3. bills' = [bills EXCEPT ![o] = row]
        BY <1>7, Zenon DEF CreateBill
      <3> HIDE DEF row
      <3>4. QED
        BY <3>2, <3>3
    <2>4. QED
      BY <1>7, <2>1, <2>2, <2>3, Zenon DEF CreateBill
  <1>8. ASSUME NEW t \in Threads, NEW p \in Products, ValidateLine(t, p)
        PROVE  TypeOK'
    <2>1. thread' \in [Threads -> ThreadState]
      BY <1>8, ThreadTypes, Zenon DEF ValidateLine, Statements
    <2>2. sale' \in [Threads -> Sale]
      <3>1. \/ sale' = [sale EXCEPT ![t].todo = @ \ {p}, ![t].line = p]
            \/ sale' = [sale EXCEPT ![t].todo = @ \ {p}]
        BY <1>8, Zenon DEF ValidateLine
      <3>2. CASE sale' = [sale EXCEPT ![t].todo = @ \ {p}]
        BY <3>2, SaleTypes, ZenonT(40)
      <3>3. CASE sale' = [sale EXCEPT ![t].todo = @ \ {p}, ![t].line = p]
        BY <3>3, SaleTypes, Zenon
      <3>4. QED
        BY <3>1, <3>2, <3>3, Zenon
    <2>3. QED
      BY <1>8, <2>1, <2>2, Zenon DEF ValidateLine
  <1>9. ASSUME NEW t \in Threads, InsertLine(t)
        PROVE  TypeOK'
    <2>1. CASE EndSale(t) /\ UNCHANGED lines
      BY <1>0, <1>9, <2>1, Zenon DEF InsertLine
    <2>2. CASE /\ IsLive(sale[t].line) /\ Goto(t, "line")
               /\ lines' = [lines EXCEPT ![sale[t].order][sale[t].line] =
                               Line(t, sale[t].line)]
               /\ sale' = [sale EXCEPT ![t].line = None]
      <3>1. Line(t, sale[t].line) \in LineRow
        BY <2>2, UnitsNat DEF Line, LineRow, Sale, IsLive, Breakdown
      <3>2. lines' \in [Orders -> [Products -> LineRow]]
        BY <2>2, <3>1, Zenon DEF IsLive
      <3>3. sale' \in [Threads -> Sale]
        BY <2>2, SaleTypes, Zenon
      <3>4. thread' \in [Threads -> ThreadState]
        BY <2>2, ThreadTypes, Zenon DEF Statements
      <3>5. QED
        BY <1>9, <3>2, <3>3, <3>4, Zenon DEF InsertLine
    <2>3. QED
      BY <1>9, <2>1, <2>2, Zenon DEF InsertLine
  <1>10. ASSUME NEW t \in Threads, SweepCarts(t)
         PROVE  TypeOK'
    <2>1. carts' \in [CartIds -> CartRow]
      BY <1>10, ZenonT(60) DEF SweepCarts, Deactivated, CartRow
    <2>2. bills' \in [Orders -> BillRow]
      <3>1. bills' = [bills EXCEPT ![sale[t].order].swept = TRUE]
        BY <1>10, Zenon DEF SweepCarts
      <3>2. \A o \in Orders : bills'[o] = bills[o] \/ bills'[o] = [bills[o] EXCEPT !.swept = TRUE]
        BY <3>1, Zenon
      <3>3. QED
        BY <3>1, <3>2, ColumnTypes, Zenon
    <2>3. CASE EndSale(t)
      BY <1>0, <1>10, <2>1, <2>2, <2>3, Zenon DEF SweepCarts
    <2>4. CASE Goto(t, "redirect") /\ UNCHANGED sale
      BY <1>10, <2>1, <2>2, <2>4, ThreadTypes, Zenon DEF SweepCarts, Statements
    <2>5. QED
      BY <1>10, <2>3, <2>4, Zenon DEF SweepCarts
  <1>11. ASSUME NEW t \in Threads, Redirect(t)
         PROVE  TypeOK'
    <2>1. gateway' \in [Orders -> GatewayOrder]
      <3>1. \A o \in Orders : \/ gateway'[o] = gateway[o]
                              \/ gateway'[o] = [gateway[o] EXCEPT !.st = "payable"]
        BY <1>11, Zenon DEF Redirect, GatewayOrder
      <3>2. gateway' = [o \in Orders |-> gateway'[o]]
        BY <1>11, Zenon DEF Redirect
      <3>3. \A o \in Orders : gateway'[o] \in GatewayOrder
        BY <3>1, ColumnTypes, ZenonT(60)
      <3>4. QED
        BY <3>2, <3>3
    <2>2. QED
      BY <1>0, <1>11, <2>1, Zenon DEF Redirect
  <1>12. ASSUME NEW o \in Orders, GatewayCollects(o) \/ GatewayGivesUp(o)
         PROVE  TypeOK'
    <2>1. gateway' \in [Orders -> GatewayOrder]
      <3>1. CASE GatewayCollects(o)
        BY <3>1, ColumnTypes, Zenon DEF GatewayCollects
      <3>2. CASE GatewayGivesUp(o)
        BY <3>2, ColumnTypes, Zenon DEF GatewayGivesUp
      <3>3. QED
        BY <1>12, <3>1, <3>2
    <2>2. notices' \subseteq Notice
      BY <1>12 DEF GatewayCollects, GatewayGivesUp, Notice
    <2>3. QED
      BY <1>12, <2>1, <2>2, Zenon DEF GatewayCollects, GatewayGivesUp
  <1>13. QED
    BY <1>1, <1>2, <1>3, <1>4, <1>5, <1>6, <1>7, <1>8, <1>9, <1>10, <1>11, <1>12, Zenon
       DEF CheckoutNext, CheckoutStep

\* The steps of the two bills controllers keep every type.
LEMMA BillsType ==
  ASSUME TypeOK, BillsNext, UNCHANGED <<item, sale, external, edit, shift>>
  PROVE  TypeOK'
  <1> USE DEF TypeOK, tables, external
  <1>1. ASSUME NEW t \in Threads, NEW h \in {"ipn", "ship"}, NEW o \in Orders,
               NEW r \in {"none", "ok", "failed"}, FindBill(t, h, o, r)
        PROVE  TypeOK'
    <2>1. thread' \in [Threads -> ThreadState]
      BY <1>1, ThreadTypes, SMT DEF FindBill, HandlerNames, Statements
    <2>2. mark' \in [Threads -> BillMark]
      BY <1>1, Zenon DEF FindBill, BillMark
    <2>3. QED
      BY <1>1, <2>1, <2>2, Zenon DEF FindBill
  <1>2. ASSUME NEW t \in Threads, EndMark(t)
        PROVE  thread' \in [Threads -> ThreadState] /\ mark' \in [Threads -> BillMark]
    BY <1>2, ThreadTypes, DefaultTypes, Zenon DEF EndMark
  <1>3. ASSUME NEW t \in Threads, NEW row \in BillRow
        PROVE  Paid(t, row) \in BillRow /\ Shipped(t, row) \in BillRow
    <2>1. mark[t].result \in {"none", "ok", "failed"}
      BY DEF BillMark
    <2>2. Paid(t, row) \in BillRow
      BY <2>1, Zenon DEF Paid, BillRow
    <2>3. Shipped(t, row) \in BillRow
      BY Zenon DEF Shipped, BillRow
    <2>4. QED
      BY <2>2, <2>3
  <1>4. ASSUME NEW t \in Threads, BillsStep(t)
        PROVE  TypeOK'
    <2>1. bills' \in [Orders -> BillRow]
      <3>1. \/ bills' = [bills EXCEPT ![mark[t].order] = Paid(t, @)]
            \/ bills' = [bills EXCEPT ![mark[t].order] = Shipped(t, @)]
        BY <1>4, Zenon DEF BillsStep, UpdatePaid, UpdateShipped
      <3>2. \A row \in BillRow : Paid(t, row) \in BillRow /\ Shipped(t, row) \in BillRow
        BY <1>3
      <3>3. bills \in [Orders -> BillRow]
        OBVIOUS
      <3>4. CASE bills' = [bills EXCEPT ![mark[t].order] = Paid(t, @)]
        BY ONLY <3>2, <3>3, <3>4, Zenon
      <3>5. CASE bills' = [bills EXCEPT ![mark[t].order] = Shipped(t, @)]
        BY ONLY <3>2, <3>3, <3>5, ZenonT(40)
      <3>6. QED
        BY <3>1, <3>4, <3>5, Zenon
    <2>2. QED
      BY <1>2, <1>4, <2>1, Zenon DEF BillsStep, UpdatePaid, UpdateShipped
  <1>5. QED
    BY <1>1, <1>4, Zenon DEF BillsNext, Notice

\* The steps of ProductsController keep every type.
LEMMA CatalogType ==
  ASSUME TypeOK, CatalogNext, UNCHANGED <<item, sale, external, mark, shift>>
  PROVE  TypeOK'
  <1> USE DEF TypeOK, tables, external
  <1>1. ASSUME NEW p \in Products, NEW price \in Prices, NEW q \in Quantities,
               CreateProduct(p, price, q) \/ UpdateProduct(p, price, q)
        PROVE  TypeOK'
    <2>1. Live(price, q) \in ProductRow
      BY ShopAssumption, Zenon DEF Live, ProductRow
    <2>2. QED
      BY <1>1, <2>1, ZenonT(40) DEF CreateProduct, UpdateProduct
  <1>2. ASSUME NEW t \in Threads, NEW p \in Products, FindForDestroy(t, p)
        PROVE  TypeOK'
    <2>1. thread' \in [Threads -> ThreadState]
      BY <1>2, ThreadTypes, Zenon DEF FindForDestroy, HandlerNames, Statements
    <2>2. edit' \in [Threads -> Edit]
      BY <1>2, ZenonT(40) DEF FindForDestroy, Edit
    <2>3. QED
      BY <1>2, <2>1, <2>2, Zenon DEF FindForDestroy
  <1>3. ASSUME NEW t \in Threads, LoadDependents(t)
        PROVE  TypeOK'
    <2>1. thread' \in [Threads -> ThreadState]
      BY <1>3, ThreadTypes, Zenon DEF LoadDependents, Statements
    <2>2. edit' \in [Threads -> Edit]
      BY <1>3, ZenonT(60) DEF LoadDependents, Edit, DependentCarts
    <2>3. QED
      BY <1>3, <2>1, <2>2, Zenon DEF LoadDependents
  <1>4. ASSUME NEW t \in Threads, DestroyProduct(t)
        PROVE  TypeOK'
    <2>1. thread' \in [Threads -> ThreadState] /\ edit' \in [Threads -> Edit]
      BY <1>4, ThreadTypes, DefaultTypes, Zenon DEF DestroyProduct, EndEdit
    <2>2. CASE UNCHANGED <<products, carts, lines>>
      BY <1>4, <2>1, <2>2, Zenon DEF DestroyProduct
    <2>3. CASE ForeignKeyHolds(t, edit[t].product)
      <3>0. /\ products' = [products EXCEPT ![edit[t].product].st = "gone"]
            /\ carts' = [c \in CartIds |-> IF c \in edit[t].carts
                           THEN [carts[c] EXCEPT !.st = "deleted"] ELSE carts[c]]
        BY <1>4, <2>3, Zenon DEF DestroyProduct
      <3>1. products' \in [Products -> ProductRow]
        <4>1. \A p \in Products : products'[p] \in ProductRow
          BY <3>0, ColumnTypes, Zenon
        <4>2. QED
          BY <3>0, <4>1, Zenon
      <3>2. carts' \in [CartIds -> CartRow]
        BY <3>0, ColumnTypes, Zenon
      <3>3. lines' \in [Orders -> [Products -> LineRow]]
        BY <1>4, <2>3, DefaultTypes DEF DestroyProduct
      <3>4. QED
        BY <1>4, <2>1, <3>1, <3>2, <3>3, Zenon DEF DestroyProduct
    <2>4. QED
      BY <1>4, <2>2, <2>3, Zenon DEF DestroyProduct
  <1>5. QED
    BY <1>1, <1>2, <1>3, <1>4, Zenon DEF CatalogNext, CatalogStep

-----------------------------------------------------------------------------
\* The empty tables, with a catalogue of any products, have their types.
LEMMA InitType == Init => TypeOK
  <1> SUFFICES ASSUME Init PROVE TypeOK
    OBVIOUS
  <1>0. crashes \in 0..MaxCrashes
    <2>1. crashes = 0
      BY DEF Init
    <2>2. QED
      BY <2>1, ShopAssumption
  <1>i. products \in [Products -> {NoProduct} \cup {Live(p, q) : p \in Prices, q \in Quantities}]
    BY DEF Init
  <1>1. products \in [Products -> ProductRow]
    <2>1. \A p \in Prices, q \in Quantities : Live(p, q) \in ProductRow
      BY ShopAssumption DEF Live, ProductRow
    <2>2. NoProduct \in ProductRow
      BY DefaultTypes
    <2>3. {NoProduct} \cup {Live(p, q) : p \in Prices, q \in Quantities} \subseteq ProductRow
      BY ONLY <2>1, <2>2
    <2>4. QED
      BY ONLY <1>i, <2>3
  <1>2. carts \in [CartIds -> CartRow] /\ bills \in [Orders -> BillRow]
    <2>1. carts = [c \in CartIds |-> NoCart] /\ bills = [o \in Orders |-> NoBill]
      BY Zenon DEF Init
    <2>2. QED
      BY ONLY <2>1, DefaultTypes, Zenon
  <1>3. lines \in [Orders -> [Products -> LineRow]] /\ thread \in [Threads -> ThreadState]
    <2>1. /\ lines = [o \in Orders |-> [p \in Products |-> NoLine]]
          /\ thread = [t \in Threads |-> Idle]
      BY Zenon DEF Init
    <2>2. QED
      BY ONLY <2>1, DefaultTypes, Zenon
  <1>4. /\ item \in [Threads -> Item] /\ sale \in [Threads -> Sale]
        /\ mark \in [Threads -> BillMark] /\ edit \in [Threads -> Edit]
    <2>1. /\ item = [t \in Threads |-> NoItem] /\ sale = [t \in Threads |-> NoSale]
          /\ mark = [t \in Threads |-> NoMark] /\ edit = [t \in Threads |-> NoEdit]
      BY Zenon DEF Init, CartsInit, CheckoutInit, BillsInit, CatalogInit
    <2>2. QED
      BY ONLY <2>1, DefaultTypes, Zenon
  <1>5. gateway \in [Orders -> GatewayOrder] /\ notices \subseteq Notice
    <2>1. gateway = [o \in Orders |-> NoOrder] /\ notices = {}
      BY Zenon DEF Init, CheckoutInit
    <2>2. QED
      BY ONLY <2>1, DefaultTypes, Zenon
  <1>6. shift \in Shifts
    BY DEF Init
  <1>7. QED
    BY ONLY <1>0, <1>1, <1>2, <1>3, <1>4, <1>5, <1>6 DEF TypeOK

\* No step of the shop, whatever it interleaves with, breaks a type.
LEMMA NextType ==
  ASSUME RowsCount, TypeOK, [Next]_vars
  PROVE  TypeOK'
  <1>0. UNCHANGED shift
    BY DEF Next, vars
  <1>1. CASE CartsNext /\ UNCHANGED <<sale, external, mark, edit>>
    BY <1>0, <1>1, CartsType
  <1>2. CASE CheckoutNext /\ UNCHANGED <<item, mark, edit>>
    BY <1>0, <1>2, CheckoutType
  <1>3. CASE BillsNext /\ UNCHANGED <<item, sale, external, edit>>
    BY <1>0, <1>3, BillsType
  <1>4. CASE CatalogNext /\ UNCHANGED <<item, sale, external, mark>>
    BY <1>0, <1>4, CatalogType
  <1>5. CASE Crash
    <2>1. /\ thread' \in [Threads -> ThreadState] /\ item' \in [Threads -> Item]
          /\ sale' \in [Threads -> Sale] /\ mark' \in [Threads -> BillMark]
          /\ edit' \in [Threads -> Edit]
      BY <1>5, DefaultTypes, ZenonT(40) DEF Crash
    <2>2. crashes' \in 0..MaxCrashes
      <3>1. crashes \in 0..MaxCrashes /\ crashes < MaxCrashes /\ crashes' = crashes + 1
        BY <1>5, ZenonT(40) DEF Crash, TypeOK
      <3>2. QED
        BY <3>1, ShopAssumption
    <2>3. QED
      BY <1>0, <1>5, <2>1, <2>2, ZenonT(40) DEF Crash, TypeOK, tables, external
  <1>6. CASE UNCHANGED vars
    BY <1>6, Zenon DEF vars, tables, external, TypeOK
  <1>7. QED
    BY <1>1, <1>2, <1>3, <1>4, <1>5, <1>6, Zenon DEF Next

-----------------------------------------------------------------------------
(***************************************************************************)
(* What every step leaves alone.                                           *)
(***************************************************************************)
RowsStable ==
    /\ \A c \in CartIds : carts[c].st # "none" =>
          carts'[c].st # "none" /\ carts'[c].product = carts[c].product
    /\ \A p \in Products : /\ products[p].st # "new" => products'[p].st # "new"
                           /\ products[p].st = "gone" => products'[p].st = "gone"

\* A cart row never changes its product or becomes unused again, and a
\* destroyed product never comes back (no handler writes product_id or reuses
\* an id).
LEMMA StepRowsStable ==
  ASSUME TypeOK, [Next]_vars
  PROVE  RowsStable
  <1> USE DEF tables
  <1>0. /\ products \in [Products -> ProductRow] /\ carts \in [CartIds -> CartRow]
    BY DEF TypeOK
  <1>1. CASE CartsNext
    <2>1. ASSUME NEW t \in Threads, CreateCart(t)
          PROVE  RowsStable
      BY <1>0, <2>1, Zenon DEF CreateCart, RowsStable
    <2>2. ASSUME NEW t \in Threads, DestroyCart(t)
          PROVE  RowsStable
      <3>1. carts' = [carts EXCEPT ![item[t].victim].st = "deleted"] /\ products' = products
        BY <2>2, Zenon DEF DestroyCart
      <3>2. QED
        BY <1>0, <3>1, Zenon DEF RowsStable, CartRow
    <2>3. ASSUME NEW u \in Users, NEW p \in Products, RemoveCarts(u, p)
          PROVE  RowsStable
      BY <1>0, <2>3 DEF RemoveCarts, RowsStable, CartRow
    <2>4. CASE UNCHANGED <<carts, products>>
      BY <2>4 DEF RowsStable
    <2>5. QED
      BY <1>1, <2>1, <2>2, <2>3, <2>4, Zenon
         DEF CartsNext, CartsStep, FindProduct, CountForCreate, CountForUpdate,
             ValidateCart, FirstCart
  <1>2. CASE CheckoutNext
    <2>1. ASSUME NEW t \in Threads, SweepCarts(t)
          PROVE  RowsStable
      BY <1>0, <2>1, Zenon DEF SweepCarts, Deactivated, RowsStable, CartRow
    <2>2. CASE UNCHANGED <<carts, products>>
      BY <2>2 DEF RowsStable
    <2>3. QED
      BY <1>2, <2>1, <2>2, ZenonT(60)
         DEF CheckoutNext, CheckoutStep, BeginCheckout, Total, CountCarts,
             LoadProducts, CallGateway, GatewayRefuses, CreateBill, ValidateLine,
             InsertLine, Redirect, GatewayCollects, GatewayGivesUp
  <1>3. CASE CatalogNext
    <2>1. ASSUME NEW p \in Products, NEW price, NEW q,
                 CreateProduct(p, price, q) \/ UpdateProduct(p, price, q)
          PROVE  RowsStable
      BY <1>0, <2>1 DEF CreateProduct, UpdateProduct, IsLive, Live, RowsStable
    <2>2. ASSUME NEW t \in Threads, DestroyProduct(t), ~UNCHANGED <<carts, products>>
          PROVE  RowsStable
      <3>1. /\ products' = [products EXCEPT ![edit[t].product].st = "gone"]
            /\ carts' = [c \in CartIds |-> IF c \in edit[t].carts
                           THEN [carts[c] EXCEPT !.st = "deleted"] ELSE carts[c]]
        BY <2>2, Zenon DEF DestroyProduct
      <3>2. QED
        BY <1>0, <3>1, Zenon DEF RowsStable, CartRow, ProductRow
    <2>3. CASE UNCHANGED <<carts, products>>
      BY <2>3 DEF RowsStable
    <2>4. QED
      BY <1>3, <2>1, <2>2, <2>3, Zenon
         DEF CatalogNext, CatalogStep, FindForDestroy, LoadDependents
  <1>4. CASE UNCHANGED <<carts, products>>
    BY <1>4 DEF RowsStable
  <1>5. QED
    BY <1>1, <1>2, <1>3, <1>4, Zenon
       DEF Next, BillsNext, BillsStep, FindBill, UpdatePaid, UpdateShipped, Crash, vars

\* So the units of a product on rows in use are the same before and after.
LEMMA CountsStable ==
  ASSUME RowsStable, NEW S \in SUBSET CartIds, \A c \in S : carts[c].st # "none", NEW p
  PROVE  /\ Cardinality({c \in S : carts'[c].product = p}) = Units(S, p)
         /\ (\E c \in S : carts'[c].product = p) <=> (\E c \in S : carts[c].product = p)
  <1>1. {c \in S : carts'[c].product = p} = {c \in S : carts[c].product = p}
    BY DEF RowsStable
  <1>2. QED
    BY <1>1, Zenon DEF Units, RowsStable

-----------------------------------------------------------------------------
(***************************************************************************)
(* What the statements write.                                              *)
(***************************************************************************)

\* What a step that is not of its own checkout leaves of an order: what it is for
\* and what it comes to, at MoMo and in the shop.
OrderKept(o) ==
    /\ gateway'[o].amount = gateway[o].amount /\ gateway'[o].items = gateway[o].items
    /\ \/ gateway'[o].st = gateway[o].st
       \/ gateway[o].st \in {"open", "payable"} /\ gateway'[o].st = "failed"
       \/ gateway[o].st = "payable" /\ gateway'[o].st = "paid"
    /\ bills'[o].amount = bills[o].amount
    /\ bills'[o].st # "none" <=> bills[o].st # "none"
    /\ \A p \in Products : \/ lines'[o][p].quantity = lines[o][p].quantity
                           \/ products'[p].st = "gone"

\* No two checkouts have the same order.
LEMMA OrdersApart ==
  ASSUME OrdersOwned, NEW x \in Threads, sale[x].order # None
  PROVE  \A y \in Threads \ {x} : sale[y].order # sale[x].order
  <1>1. OwnsOrder(x)
    BY DEF OrdersOwned, OrderOwned
  <1>2. QED
    BY <1>1, Zenon DEF OwnsOrder

\* They are served by threads that are not in a checkout.
LEMMA OthersThreads ==
  ASSUME TypeOK, CartsNext \/ BillsNext \/ CatalogNext, NEW x \in Threads
  PROVE  \/ thread'[x] = thread[x]
         \/ thread[x].h \notin checkouts /\ thread'[x].h \notin checkouts
  <1> DEFINE hs == {"idle", "create", "update_quantity", "ipn", "ship", "product_destroy"}
  <1>0. thread \in [Threads -> ThreadState]
    BY DEF TypeOK
  <1>2. ASSUME NEW t \in Threads, thread[t].h \in hs, NEW pc, Goto(t, pc)
        PROVE  \/ thread'[x] = thread[x]
               \/ thread[x].h \notin checkouts /\ thread'[x].h \notin checkouts
    BY <1>0, <1>2 DEF checkouts, Goto, ThreadState
  <1>3. ASSUME NEW t \in Threads, NEW h \in hs, NEW u, NEW pc, Begin(t, h, u, pc)
        PROVE  \/ thread'[x] = thread[x]
               \/ thread[x].h \notin checkouts /\ thread'[x].h \notin checkouts
    BY <1>0, <1>3, Zenon DEF Begin, Free, checkouts
  <1>4. ASSUME NEW t \in Threads, thread[t].h \in hs, Finish(t)
        PROVE  \/ thread'[x] = thread[x]
               \/ thread[x].h \notin checkouts /\ thread'[x].h \notin checkouts
    BY <1>0, <1>4, Zenon DEF Finish, Idle, checkouts
  <1> HIDE DEF hs
  <1>5. CASE CartsNext
    <2>1. "create" \in hs /\ "update_quantity" \in hs
      BY DEF hs
    <2>2. ASSUME NEW t \in Threads, CartsStep(t)
          PROVE  thread[t].h \in hs /\ (Finish(t) \/ \E pc : Goto(t, pc))
      BY <2>1, <2>2, Zenon DEF CartsStep, CountForCreate, CountForUpdate, CreateCart, ValidateCart,
             FirstCart, DestroyCart, EndItem, At
    <2>3. QED
      BY <1>2, <1>3, <1>4, <1>5, <2>1, <2>2, Zenon DEF CartsNext, FindProduct, RemoveCarts
  <1>6. CASE BillsNext
    <2>1. "ipn" \in hs /\ "ship" \in hs
      BY DEF hs
    <2>2. ASSUME NEW t \in Threads, BillsStep(t)
          PROVE  thread[t].h \in hs /\ Finish(t)
      BY <2>1, <2>2, Zenon DEF BillsStep, UpdatePaid, UpdateShipped, EndMark, At
    <2>3. QED
      BY <1>3, <1>4, <1>6, <2>1, <2>2, Zenon DEF BillsNext, FindBill
  <1>7. CASE CatalogNext
    <2>1. "product_destroy" \in hs
      BY DEF hs
    <2>2. ASSUME NEW t \in Threads, CatalogStep(t)
          PROVE  thread[t].h \in hs /\ (Finish(t) \/ \E pc : Goto(t, pc))
      BY <2>1, <2>2, Zenon DEF CatalogStep, LoadDependents, DestroyProduct, EndEdit, At
    <2>3. QED
      BY <1>2, <1>3, <1>4, <1>7, <2>1, <2>2, Zenon
         DEF CatalogNext, FindForDestroy, CreateProduct, UpdateProduct
  <1>8. QED
    BY <1>5, <1>6, <1>7

\* A checkout touches its own order or takes a fresh one, and works on its
\* own thread.
LEMMA CheckoutTouches ==
  ASSUME TypeOK, NEW t \in Threads, CheckoutStep(t)
  PROVE  /\ \A o \in Orders : o # sale[t].order /\ ~FreshOrder(o) => OrderKept(o)
         /\ \A x \in Threads \ {t} : thread'[x] = thread[x] /\ sale'[x] = sale[x]
         /\ sale'[t].order \in {sale[t].order, None} \/ FreshOrder(sale'[t].order)
  <1> USE DEF tables, external
  <1>0. /\ bills \in [Orders -> BillRow] /\ lines \in [Orders -> [Products -> LineRow]]
        /\ gateway \in [Orders -> GatewayOrder]
        /\ thread \in [Threads -> ThreadState] /\ sale \in [Threads -> Sale]
    BY DEF TypeOK
  <1>1. \A o \in Orders : o # sale[t].order /\ ~FreshOrder(o) => OrderKept(o)
    <2>1. ASSUME NEW o \in Orders, o # sale[t].order, ~FreshOrder(o)
          PROVE  gateway'[o] = gateway[o] /\ bills'[o] = bills[o] /\ lines'[o] = lines[o]
      <3>1. CASE UNCHANGED <<gateway, bills, lines>>
        BY <3>1
      <3>2. ASSUME NEW n \in Orders, CallGateway(t, n)
            PROVE  gateway'[o] = gateway[o] /\ bills'[o] = bills[o] /\ lines'[o] = lines[o]
        BY <1>0, <2>1, <3>2, Zenon DEF CallGateway
      <3>3. ASSUME NEW n \in Orders, CreateBill(t, n)
            PROVE  gateway'[o] = gateway[o] /\ bills'[o] = bills[o] /\ lines'[o] = lines[o]
        <4>1. o # n
          BY <2>1, <3>3 DEF CreateBill
        <4>2. QED
          BY <1>0, <3>3, <4>1 DEF CreateBill
      <3>4. CASE InsertLine(t)
        BY <1>0, <2>1, <3>4, Zenon DEF InsertLine
      <3>5. CASE SweepCarts(t)
        BY <1>0, <2>1, <3>5, Zenon DEF SweepCarts
      <3>6. CASE Redirect(t)
        BY <1>0, <2>1, <3>6, Zenon DEF Redirect
      <3>7. QED
        BY <3>1, <3>2, <3>3, <3>4, <3>5, <3>6, Zenon
           DEF CheckoutStep, Total, CountCarts, LoadProducts, GatewayRefuses, ValidateLine
    <2>2. QED
      BY <2>1, Zenon DEF OrderKept
  <1>2. \A x \in Threads \ {t} : thread'[x] = thread[x]
    <2>1. Finish(t) \/ (\E pc : Goto(t, pc)) \/ UNCHANGED thread
      BY Zenon DEF CheckoutStep, Total, CountCarts, LoadProducts, CallGateway, GatewayRefuses,
             CreateBill, ValidateLine, InsertLine, SweepCarts, Redirect, EndSale
    <2>2. QED
      BY <1>0, <2>1 DEF Finish, Goto
  <1>3. \/ sale'[t].order \in {sale[t].order, None}
        \/ FreshOrder(sale'[t].order)
    <2>1. CASE EndSale(t)
      BY <1>0, <2>1, Zenon DEF EndSale, NoSale
    <2>2. ASSUME NEW n \in Orders, CallGateway(t, n), ~EndSale(t)
          PROVE  FreshOrder(sale'[t].order)
      <3>1. sale'[t].order = n
        BY <1>0, <2>2, Zenon DEF CallGateway, Sale
      <3>2. QED
        BY <2>2, <3>1 DEF CallGateway
    <2>3. ASSUME NEW n \in Orders, CreateBill(t, n)
          PROVE  sale'[t].order = sale[t].order \/ FreshOrder(sale'[t].order)
      <3>1. sale'[t].order = n
        BY <1>0, <2>3, Zenon DEF CreateBill, Sale
      <3>2. QED
        BY <2>3, <3>1 DEF CreateBill
    <2>4. ASSUME ~EndSale(t), Total(t) \/ CountCarts(t)
          PROVE  sale'[t].order = sale[t].order
      <3>1. CASE Total(t)
        BY <1>0, <2>4, <3>1, Zenon DEF Total, Sale
      <3>2. CASE CountCarts(t)
        BY <1>0, <3>2 DEF CountCarts, Sale
      <3>3. QED
        BY <2>4, <3>1, <3>2
    <2>5. ASSUME LoadProducts(t)
          PROVE  sale'[t].order = sale[t].order
      <3>1. \E f, m : sale' = [sale EXCEPT ![t].found = f, ![t].todo = f, ![t].prices = m]
        BY <2>5, Zenon DEF LoadProducts
      <3>2. QED
        BY <1>0, <3>1, ZenonT(30) DEF Sale
    <2>6. ASSUME NEW p \in Products, ValidateLine(t, p)
          PROVE  sale'[t].order = sale[t].order
      <3>1. \/ sale' = [sale EXCEPT ![t].todo = @ \ {p}, ![t].line = p]
            \/ sale' = [sale EXCEPT ![t].todo = @ \ {p}]
        BY <2>6, Zenon DEF ValidateLine
      <3>2. QED
        BY <1>0, <3>1, ZenonT(30) DEF Sale
    <2>7. ASSUME ~EndSale(t), InsertLine(t) \/ SweepCarts(t)
          PROVE  sale'[t].order = sale[t].order
      <3>1. sale' = [sale EXCEPT ![t].line = None] \/ sale' = sale
        BY <2>7, Zenon DEF InsertLine, SweepCarts
      <3>2. QED
        BY <1>0, <3>1 DEF Sale
    <2>8. QED
      BY <2>1, <2>2, <2>3, <2>4, <2>5, <2>6, <2>7, Zenon DEF CheckoutStep, GatewayRefuses, Redirect
  <1>4. \A x \in Threads \ {t} : sale'[x] = sale[x]
    BY <1>0, Zenon DEF CheckoutStep, Total, CountCarts, LoadProducts, CallGateway, GatewayRefuses,
             CreateBill, ValidateLine, InsertLine, SweepCarts, Redirect, EndSale
  <1>5. QED
    BY <1>1, <1>2, <1>3, <1>4, Zenon

\* The statements that write a bill, and the calls MoMo hears of.
LEMMA BillWrites ==
  ASSUME [Next]_vars
  PROVE  \/ UNCHANGED bills
         \/ UNCHANGED external /\ \E t \in Threads :
               (\E o \in Orders : CreateBill(t, o)) \/ SweepCarts(t) \/ BillsStep(t)
  <1> USE DEF tables
  <1>1. ASSUME CartsNext PROVE UNCHANGED bills
    BY <1>1, ZenonT(40)
       DEF CartsNext, FindProduct, CartsStep, CountForCreate, CountForUpdate, CreateCart,
           ValidateCart, FirstCart, DestroyCart, RemoveCarts
  <1>2. ASSUME CatalogNext PROVE UNCHANGED bills
    BY <1>2, Zenon DEF CatalogNext, CatalogStep, CreateProduct, UpdateProduct, FindForDestroy,
           LoadDependents, DestroyProduct
  <1>3. ASSUME CheckoutNext
        PROVE  \/ UNCHANGED bills
               \/ UNCHANGED external /\ \E t \in Threads :
                     (\E o \in Orders : CreateBill(t, o)) \/ SweepCarts(t)
    <2>1. ASSUME NEW t \in Threads, CheckoutStep(t)
          PROVE  \/ UNCHANGED bills
                 \/ UNCHANGED external /\ ((\E o \in Orders : CreateBill(t, o)) \/ SweepCarts(t))
      <3>1. \A o \in Orders : CreateBill(t, o) => UNCHANGED external
        BY DEF CreateBill
      <3>2. SweepCarts(t) => UNCHANGED external
        BY Zenon DEF SweepCarts
      <3>3. \A o \in Orders : CallGateway(t, o) => UNCHANGED bills
        BY DEF CallGateway
      <3>4. \A p \in Products : ValidateLine(t, p) => UNCHANGED bills
        BY Zenon DEF ValidateLine
      <3>5. Total(t) \/ CountCarts(t) \/ LoadProducts(t) \/ GatewayRefuses(t) \/ InsertLine(t)
              \/ Redirect(t) => UNCHANGED bills
        BY ZenonT(40) DEF Total, CountCarts, LoadProducts, GatewayRefuses, InsertLine, Redirect
      <3>6. QED
        BY <2>1, <3>1, <3>2, <3>3, <3>4, <3>5 DEF CheckoutStep
    <2>2. QED
      BY <1>3, <2>1, Zenon DEF CheckoutNext, BeginCheckout, GatewayCollects, GatewayGivesUp
  <1>4. ASSUME BillsNext PROVE UNCHANGED bills \/ \E t \in Threads : BillsStep(t)
    BY <1>4, Zenon DEF BillsNext, FindBill
  <1>5. ASSUME Crash \/ UNCHANGED vars PROVE UNCHANGED bills
    BY <1>5 DEF Crash, vars
  <1>6. QED
    BY <1>1, <1>2, <1>3, <1>4, <1>5 DEF Next

\* Which steps change what MoMo holds.
LEMMA GatewayWrites ==
  ASSUME [Next]_vars
  PROVE  \/ UNCHANGED external
         \/ UNCHANGED bills /\ \E t \in Threads :
               (\E o \in Orders : CallGateway(t, o)) \/ Redirect(t)
         \/ UNCHANGED bills /\ \E o \in Orders : GatewayCollects(o) \/ GatewayGivesUp(o)
  <1> USE DEF tables
  <1>1. ASSUME CheckoutNext
        PROVE  \/ UNCHANGED external
               \/ UNCHANGED bills /\ \E t \in Threads :
                     (\E o \in Orders : CallGateway(t, o)) \/ Redirect(t)
               \/ UNCHANGED bills /\ \E o \in Orders : GatewayCollects(o) \/ GatewayGivesUp(o)
    <2>1. ASSUME NEW t \in Threads, CheckoutStep(t)
          PROVE  \/ UNCHANGED external
                 \/ UNCHANGED bills /\ ((\E o \in Orders : CallGateway(t, o)) \/ Redirect(t))
      <3>1. \A o \in Orders : CreateBill(t, o) => UNCHANGED external
        BY DEF CreateBill
      <3>2. \A p \in Products : ValidateLine(t, p) => UNCHANGED external
        BY Zenon DEF ValidateLine
      <3>3. \A o \in Orders : CallGateway(t, o) => UNCHANGED bills
        BY DEF CallGateway
      <3>4. Redirect(t) => UNCHANGED bills
        BY Zenon DEF Redirect
      <3>5. Total(t) \/ CountCarts(t) \/ LoadProducts(t) \/ GatewayRefuses(t) \/ InsertLine(t)
              \/ SweepCarts(t) => UNCHANGED external
        BY ZenonT(40) DEF Total, CountCarts, LoadProducts, GatewayRefuses, InsertLine, SweepCarts
      <3>6. QED
        BY <2>1, <3>1, <3>2, <3>3, <3>4, <3>5 DEF CheckoutStep
    <2>2. QED
      BY <1>1, <2>1, Zenon DEF CheckoutNext, BeginCheckout, GatewayCollects, GatewayGivesUp
  <1>2. QED
    BY <1>1, Zenon DEF Next, Crash, vars

adders == {"create", "update_quantity"}

\* A row may end, and keeps its customer and product.
Fades(c) ==
    /\ carts'[c].user = carts[c].user /\ carts'[c].product = carts[c].product
    /\ carts'[c].st = "active" => carts[c].st = "active"

\* Thread t inserts row n.
Inserts(t, n) ==
    /\ CreateCart(t) /\ carts[n].st = "none"
    /\ carts'[n] = [st |-> "active", user |-> thread[t].user, product |-> item[t].product]
    /\ \A c \in CartIds \ {n} : carts'[c] = carts[c]

\* The rows of the carts only fade, or one request inserts one row.
LEMMA CartMoves ==
  ASSUME TypeOK, [Next]_vars
  PROVE  \/ \A c \in CartIds : Fades(c)
         \/ \E t \in Threads, n \in CartIds : Inserts(t, n)
  <1> USE DEF tables
  <1>0. carts \in [CartIds -> CartRow]
    BY DEF TypeOK
  <1>1. CASE UNCHANGED carts
    BY <1>1 DEF Fades
  <1>2. ASSUME NEW t \in Threads, CreateCart(t)
        PROVE  \E n \in CartIds : Inserts(t, n)
    BY <1>0, <1>2, Zenon DEF CreateCart, Inserts
  <1>3. ASSUME NEW t \in Threads, DestroyCart(t), NEW c \in CartIds
        PROVE  Fades(c)
    <2>1. carts' = [carts EXCEPT ![item[t].victim].st = "deleted"]
      BY <1>3, Zenon DEF DestroyCart
    <2>2. QED
      BY <1>0, <2>1, Zenon DEF Fades, CartRow
  <1>4. ASSUME NEW u \in Users, NEW p \in Products, RemoveCarts(u, p), NEW c \in CartIds
        PROVE  Fades(c)
    BY <1>0, <1>4 DEF RemoveCarts, Fades, CartRow
  <1>5. ASSUME NEW t \in Threads, SweepCarts(t), NEW c \in CartIds
        PROVE  Fades(c)
    BY <1>0, <1>5, Zenon DEF SweepCarts, Deactivated, Fades, CartRow
  <1>6. ASSUME NEW t \in Threads, DestroyProduct(t), NEW c \in CartIds
        PROVE  Fades(c)
    BY <1>0, <1>6 DEF DestroyProduct, Fades, CartRow
  <1>7. CASE CartsNext
    BY <1>1, <1>2, <1>3, <1>4, <1>7, ZenonT(40)
       DEF CartsNext, CartsStep, FindProduct, CountForCreate, CountForUpdate, ValidateCart,
           FirstCart
  <1>8. CASE CheckoutNext
    <2>1. ASSUME NEW t \in Threads, CheckoutStep(t)
          PROVE  SweepCarts(t) \/ UNCHANGED carts
      <3>1. \A o \in Orders : CallGateway(t, o) \/ CreateBill(t, o) => UNCHANGED carts
        BY Zenon DEF CallGateway, CreateBill
      <3>2. \A p \in Products : ValidateLine(t, p) => UNCHANGED carts
        BY Zenon DEF ValidateLine
      <3>3. Total(t) \/ CountCarts(t) \/ LoadProducts(t) \/ GatewayRefuses(t) \/ InsertLine(t)
              \/ Redirect(t) => UNCHANGED carts
        BY Zenon DEF Total, CountCarts, LoadProducts, GatewayRefuses, InsertLine, Redirect
      <3>4. QED
        BY <2>1, <3>1, <3>2, <3>3 DEF CheckoutStep
    <2>2. QED
      BY <1>1, <1>5, <1>8, <2>1, Zenon
         DEF CheckoutNext, BeginCheckout, GatewayCollects, GatewayGivesUp
  <1>9. CASE CatalogNext
    BY <1>1, <1>6, <1>9, Zenon
       DEF CatalogNext, CatalogStep, CreateProduct, UpdateProduct, FindForDestroy, LoadDependents
  <1>10. CASE BillsNext
    BY <1>1, <1>10, Zenon DEF BillsNext, BillsStep, FindBill, UpdatePaid, UpdateShipped
  <1>11. QED
    BY <1>1, <1>7, <1>8, <1>9, <1>10, Zenon DEF Next, Crash, vars

\* What a step can do to a bill: nothing that counts, the insert of its checkout,
\* or the sweep that hands it its cart rows.
BillKept(o) ==
    /\ bills'[o].rows = bills[o].rows /\ bills'[o].user = bills[o].user
    /\ bills'[o].swept = bills[o].swept

BillCreated(t, o) ==
    /\ CreateBill(t, o)
    /\ bills'[o].rows = sale[t].counted /\ bills'[o].user = thread[t].user
    /\ bills'[o].swept = FALSE

BillSwept(t, o) ==
    /\ SweepCarts(t) /\ o = sale[t].order
    /\ bills'[o].rows = bills[o].rows /\ bills'[o].user = bills[o].user

\* A bill stays, is created by a checkout, or is marked when it swept the cart.
LEMMA BillMoves ==
  ASSUME TypeOK, [Next]_vars, NEW o \in Orders
  PROVE  BillKept(o) \/ \E t \in Threads : BillCreated(t, o) \/ BillSwept(t, o)
  <1>0. bills \in [Orders -> BillRow] /\ bills[o] \in BillRow
    BY DEF TypeOK
  <1>1. CASE bills'[o] = bills[o]
    BY <1>1 DEF BillKept
  <1>2. ASSUME NEW t \in Threads, NEW n \in Orders, CreateBill(t, n), bills'[o] # bills[o]
        PROVE  BillCreated(t, o)
    <2>1. o = n
      BY <1>0, <1>2, Zenon DEF CreateBill
    <2>2. /\ bills'[n].rows = sale[t].counted /\ bills'[n].user = thread[t].user
          /\ bills'[n].swept = FALSE
      BY <1>0, <1>2, Zenon DEF CreateBill, NoBill
    <2>3. QED
      BY <1>2, <2>1, <2>2 DEF BillCreated
  <1>3. ASSUME NEW t \in Threads, SweepCarts(t), bills'[o] # bills[o]
        PROVE  BillSwept(t, o)
    BY <1>0, <1>3, Zenon DEF SweepCarts, BillSwept, BillRow
  <1>4. ASSUME NEW t \in Threads, BillsStep(t)
        PROVE  BillKept(o)
    <2>1. bills'[o] \in {bills[o], Paid(t, bills[o]), Shipped(t, bills[o])}
      BY <1>0, <1>4, Zenon DEF BillsStep, UpdatePaid, UpdateShipped
    <2>2. /\ Paid(t, bills[o]).rows = bills[o].rows /\ Shipped(t, bills[o]).rows = bills[o].rows
          /\ Paid(t, bills[o]).user = bills[o].user /\ Shipped(t, bills[o]).user = bills[o].user
          /\ Paid(t, bills[o]).swept = bills[o].swept
          /\ Shipped(t, bills[o]).swept = bills[o].swept
      BY <1>0 DEF Paid, Shipped, BillRow
    <2>3. QED
      BY <2>1, <2>2, Zenon DEF BillKept
  <1>5. QED
    BY <1>1, <1>2, <1>3, <1>4, BillWrites, Zenon

\* A checkout goes on or ends.
LEMMA CheckoutGoes ==
  ASSUME NEW t \in Threads, CheckoutStep(t)
  PROVE  thread[t].h \in checkouts /\ (UNCHANGED thread \/ Finish(t) \/ \E pc : Goto(t, pc))
  <1>1. CASE Total(t) \/ CountCarts(t) \/ LoadProducts(t)
    BY <1>1, Zenon DEF Total, CountCarts, LoadProducts, EndSale, At, checkouts
  <1>2. CASE \E o \in Orders : CallGateway(t, o) \/ CreateBill(t, o)
    BY <1>2, Zenon DEF CallGateway, CreateBill, EndSale, At, checkouts
  <1>3. CASE GatewayRefuses(t) \/ \E p \in Products : ValidateLine(t, p)
    BY <1>3, Zenon DEF GatewayRefuses, ValidateLine, EndSale, At, checkouts
  <1>4. CASE InsertLine(t) \/ SweepCarts(t) \/ Redirect(t)
    BY <1>4, Zenon DEF InsertLine, SweepCarts, Redirect, EndSale, At, checkouts
  <1>5. QED
    BY <1>1, <1>2, <1>3, <1>4, Zenon DEF CheckoutStep
=============================================================================
