---------------------------- MODULE StoreSafety -----------------------------
(***************************************************************************)
(* Every step of Store keeps SafetyInv, for any customers, products,       *)
(* orders, threads and bounds.                                             *)
(***************************************************************************)
EXTENDS StoreTypes

-----------------------------------------------------------------------------
(***************************************************************************)
(* RowsKept.  Its second half, thread by thread, so that a step has to say *)
(* what it does to the locals of the thread that takes it only.            *)
(***************************************************************************)
ItemKept(t) ==
    /\ thread[t].h \in {"create", "update_quantity"} =>
          item[t].product \in Products /\ products[item[t].product].st # "new"
    /\ item[t].victim \in CartIds => carts[item[t].victim].st # "none"

EditKept(t) == \A c \in edit[t].carts : carts[c].st # "none"

SaleKept(t) ==
    /\ \A c \in sale[t].counted : carts[c].st # "none"
    /\ sale[t].found \subseteq ProductsOn(sale[t].counted)
    /\ sale[t].found # {} =>
          thread[t].h \in checkouts /\ thread[t].pc \notin {"prices", "count"}

RowKept(c) ==
    carts[c].st # "none" =>
        carts[c].product \in Products /\ products[carts[c].product].st # "new"

\* RowsKept is the conjunction of these.
LEMMA RowsKeptSplit ==
  /\ RowsKept <=> /\ \A c \in CartIds : RowKept(c)
                  /\ \A t \in Threads : ItemKept(t) /\ EditKept(t) /\ SaleKept(t)
  /\ RowsKept' <=> /\ \A c \in CartIds : RowKept(c)'
                   /\ \A t \in Threads : ItemKept(t)' /\ EditKept(t)' /\ SaleKept(t)'
  BY Zenon DEF RowsKept, RowKept, ItemKept, EditKept, SaleKept

\* A thread whose locals and statement stay as they are keeps its part.
LEMMA LocalsKept ==
  ASSUME TypeOK, RowsStable, NEW t \in Threads
  PROVE  /\ ItemKept(t) /\ item'[t] = item[t] /\ thread'[t].h = thread[t].h => ItemKept(t)'
         /\ EditKept(t) /\ edit'[t] = edit[t] => EditKept(t)'
         /\ SaleKept(t) /\ sale'[t] = sale[t] /\ thread'[t] = thread[t] => SaleKept(t)'
  <1>1. ASSUME ItemKept(t), item'[t] = item[t], thread'[t].h = thread[t].h
        PROVE  ItemKept(t)'
    <2>1. item'[t].victim \in CartIds => carts'[item'[t].victim].st # "none"
      BY <1>1, Zenon DEF ItemKept, RowsStable
    <2>2. thread'[t].h \in {"create", "update_quantity"} =>
             item'[t].product \in Products /\ products'[item'[t].product].st # "new"
      BY <1>1, Zenon DEF ItemKept, RowsStable
    <2>3. QED
      BY <2>1, <2>2, Zenon DEF ItemKept
  <1>2. EditKept(t) /\ edit'[t] = edit[t] => EditKept(t)'
    <2>1. edit[t].carts \subseteq CartIds
      BY DEF TypeOK, Edit
    <2>2. QED
      BY <2>1 DEF EditKept, RowsStable
  <1>3. SaleKept(t) /\ sale'[t] = sale[t] /\ thread'[t] = thread[t] => SaleKept(t)'
    <2>1. sale[t].counted \subseteq CartIds
      BY DEF TypeOK, Sale
    <2>2. QED
      BY <2>1 DEF SaleKept, RowsStable, ProductsOn
  <1>4. QED
    BY <1>1, <1>2, <1>3, Zenon

\* Empty locals keep it too.
LEMMA EmptyKept ==
  ASSUME NEW t \in Threads
  PROVE  /\ item'[t] = NoItem /\ thread'[t] = Idle => ItemKept(t)'
         /\ edit'[t] = NoEdit => EditKept(t)'
         /\ sale'[t] = NoSale => SaleKept(t)'
  <1>1. item'[t] = NoItem /\ thread'[t] = Idle => ItemKept(t)'
    BY DEF ItemKept, NoItem, Idle, CartIds
  <1>2. edit'[t] = NoEdit => EditKept(t)'
    BY DEF EditKept, NoEdit
  <1>3. sale'[t] = NoSale => SaleKept(t)'
    BY DEF SaleKept, NoSale
  <1>4. QED
    BY <1>1, <1>2, <1>3

\* The cart requests keep RowsKept: they insert rows of a product they found
\* and destroy rows they read.
LEMMA CartsRowsKept ==
  ASSUME TypeOK, TypeOK', RowsStable, RowsKept, CartsNext,
         UNCHANGED <<sale, external, mark, edit>>
  PROVE  RowsKept'
  <1> USE DEF tables, external
  <1>0. /\ \A c \in CartIds : RowKept(c)
        /\ \A t \in Threads : ItemKept(t) /\ EditKept(t) /\ SaleKept(t)
    BY RowsKeptSplit
  <1>a. /\ thread \in [Threads -> ThreadState] /\ item \in [Threads -> Item]
        /\ carts \in [CartIds -> CartRow]
    BY Zenon DEF TypeOK
  <1>1. ASSUME UNCHANGED carts PROVE \A c \in CartIds : RowKept(c)'
    BY <1>0, <1>1, Zenon DEF RowKept, RowsStable
  <1>2. ASSUME NEW t \in Threads,
               \A x \in Threads \ {t} : thread'[x] = thread[x] /\ item'[x] = item[x],
               ItemKept(t)',
               thread'[t] = thread[t] \/ thread[t].h \notin checkouts,
               \A c \in CartIds : RowKept(c)'
        PROVE  RowsKept'
    <2>1. \A x \in Threads : ItemKept(x)' /\ EditKept(x)'
      BY <1>0, <1>2, LocalsKept, Zenon
    <2>2. \A x \in Threads \ {t} : SaleKept(x)'
      BY <1>0, <1>2, LocalsKept, Zenon
    <2>3. SaleKept(t)'
      <3>1. CASE thread'[t] = thread[t]
        BY <1>0, <3>1, LocalsKept, Zenon
      <3>2. CASE thread[t].h \notin checkouts
        <4>1. sale'[t].found = {} /\ sale'[t] = sale[t] /\ sale[t].counted \subseteq CartIds
          BY <1>0, <3>2, Zenon DEF SaleKept, TypeOK, Sale
        <4>2. \A c \in sale'[t].counted : carts'[c].st # "none"
          BY <1>0, <4>1, Zenon DEF SaleKept, RowsStable
        <4>3. QED
          BY <4>1, <4>2 DEF SaleKept
      <3>3. QED
        BY <1>2, <3>1, <3>2
    <2>4. QED
      BY <1>2, <2>1, <2>2, <2>3, RowsKeptSplit, Zenon
  <1>3. ASSUME NEW t \in Threads, NEW h, NEW u, NEW p \in Products, NEW q,
               FindProduct(t, h, u, p, q)
        PROVE  RowsKept'
    <2>1. /\ item' = [item EXCEPT ![t] = [NoItem EXCEPT !.product = p,
                         !.limit = products[p].quantity, !.wanted = q]]
          /\ thread' = [thread EXCEPT ![t] = [h |-> h, pc |-> "count", user |-> u]]
          /\ h \in {"create", "update_quantity"} /\ thread[t].h = "idle"
          /\ products[p].st = "live" /\ UNCHANGED <<carts, products>>
      BY <1>3, Zenon DEF FindProduct, Begin, Free, IsLive
    <2>2. ItemKept(t)'
      <3>1. item'[t].product = p /\ item'[t].victim = 0
        BY <1>a, <2>1, Zenon DEF NoItem
      <3>2. QED
        BY <2>1, <3>1 DEF ItemKept, CartIds
    <2>3. QED
      BY <1>a, <1>1, <1>2, <2>1, <2>2, Zenon DEF checkouts
  <1>4. ASSUME NEW t \in Threads, thread[t].h \in {"create", "update_quantity"},
               EndItem(t), \A c \in CartIds : RowKept(c)'
        PROVE  RowsKept'
    <2>1. /\ thread'[t] = Idle /\ item'[t] = NoItem
          /\ \A x \in Threads \ {t} : thread'[x] = thread[x] /\ item'[x] = item[x]
      BY <1>a, <1>4 DEF EndItem, Finish
    <2>2. ItemKept(t)'
      BY <2>1, EmptyKept
    <2>3. thread[t].h \notin checkouts /\ thread'[t].h \notin checkouts
      BY <1>4, <2>1 DEF checkouts, Idle
    <2>4. QED
      BY <1>2, <1>4, <2>1, <2>2, <2>3, Zenon
  <1>5. ASSUME NEW t \in Threads, thread[t].h \in {"create", "update_quantity"},
               NEW pc, Goto(t, pc),
               \A x \in Threads \ {t} : item'[x] = item[x],
               item'[t].product = item[t].product,
               item'[t].victim \in CartIds => carts'[item'[t].victim].st # "none",
               \A c \in CartIds : RowKept(c)'
        PROVE  RowsKept'
    <2>1. /\ thread'[t].h = thread[t].h
          /\ \A x \in Threads \ {t} : thread'[x] = thread[x]
      BY <1>a, <1>5, Zenon DEF Goto, ThreadState
    <2>2. ItemKept(t)'
      <3>1. item[t].product \in Products /\ products[item[t].product].st # "new"
        BY <1>0, <1>5, Zenon DEF ItemKept
      <3>2. QED
        BY <1>5, <3>1, Zenon DEF ItemKept, RowsStable
    <2>3. thread[t].h \notin checkouts /\ thread'[t].h \notin checkouts
      BY <1>5, <2>1, Zenon DEF checkouts
    <2>4. QED
      BY <1>2, <1>5, <2>1, <2>2, <2>3, Zenon
  \* A change of left alone is covered by <1>5.
  <1>6. ASSUME NEW t \in Threads, thread[t].h \in {"create", "update_quantity"},
               NEW pc, Goto(t, pc), NEW n,
               item' = [item EXCEPT ![t].left = n] \/ item' = item,
               \A c \in CartIds : RowKept(c)'
        PROVE  RowsKept'
    <2>1. /\ \A x \in Threads \ {t} : item'[x] = item[x]
          /\ item'[t].product = item[t].product /\ item'[t].victim = item[t].victim
      BY <1>a, <1>6 DEF Item
    <2>2. item'[t].victim \in CartIds => carts'[item'[t].victim].st # "none"
      BY <1>0, <2>1, Zenon DEF ItemKept, RowsStable
    <2>3. QED
      BY <1>5, <1>6, <2>1, <2>2, Zenon
  <1>7. ASSUME NEW t \in Threads, CountForCreate(t) \/ CountForUpdate(t) \/ ValidateCart(t)
        PROVE  RowsKept'
    <2>1. thread[t].h \in {"create", "update_quantity"} /\ UNCHANGED carts
      BY <1>7, Zenon DEF CountForCreate, CountForUpdate, ValidateCart, At
    <2>2. \/ EndItem(t)
          \/ \E pc, n : /\ Goto(t, pc)
                        /\ item' = [item EXCEPT ![t].left = n] \/ item' = item
      BY <1>7, Zenon DEF CountForCreate, CountForUpdate, ValidateCart
    <2>3. QED
      BY <1>1, <1>4, <1>6, <2>1, <2>2
  <1>8. ASSUME NEW t \in Threads, CreateCart(t)
        PROVE  RowsKept'
    <2>1. thread[t].h \in {"create", "update_quantity"} /\ UNCHANGED products
      BY <1>8, Zenon DEF CreateCart, At
    <2>2. \A c \in CartIds : RowKept(c)'
      <3>1. item[t].product \in Products /\ products[item[t].product].st # "new"
        BY <1>0, <2>1, Zenon DEF ItemKept
      <3>2. PICK c \in CartIds : carts' = [carts EXCEPT ![c] =
               [st |-> "active", user |-> thread[t].user, product |-> item[t].product]]
        BY <1>8, Zenon DEF CreateCart
      <3>3. QED
        BY <1>0, <1>a, <2>1, <3>1, <3>2, Zenon DEF RowKept
    <2>3. \/ EndItem(t)
          \/ \E n : Goto(t, "validate") /\ item' = [item EXCEPT ![t].left = n]
      BY <1>8, Zenon DEF CreateCart
    <2>4. QED
      BY <1>4, <1>6, <2>1, <2>2, <2>3
  <1>9. ASSUME NEW t \in Threads, FirstCart(t)
        PROVE  RowsKept'
    <2>1. thread[t].h \in {"create", "update_quantity"} /\ UNCHANGED carts
      BY <1>9, Zenon DEF FirstCart, At
    <2>2. ASSUME NEW c \in ActiveOf(thread[t].user, item[t].product), Goto(t, "destroy"),
                 item' = [item EXCEPT ![t].victim = c]
          PROVE  RowsKept'
      <3>1. /\ \A x \in Threads \ {t} : item'[x] = item[x]
            /\ item'[t].product = item[t].product /\ item'[t].victim = c
        BY <1>a, <2>2 DEF Item
      <3>2. carts'[c].st # "none"
        BY <2>1, <2>2 DEF ActiveOf, ActiveCarts
      <3>3. QED
        BY <1>1, <1>5, <2>1, <2>2, <3>1, <3>2, Zenon
    <2>3. QED
      BY <1>1, <1>4, <1>9, <2>1, <2>2, Zenon DEF FirstCart
  <1>10. ASSUME NEW t \in Threads, DestroyCart(t)
         PROVE  RowsKept'
    <2>1. thread[t].h \in {"create", "update_quantity"} /\ UNCHANGED products
      BY <1>10, Zenon DEF DestroyCart, At
    <2>2. \A c \in CartIds : RowKept(c)'
      <3>1. carts' = [carts EXCEPT ![item[t].victim].st = "deleted"]
        BY <1>10, Zenon DEF DestroyCart
      <3>2. item[t].victim \in CartIds => carts[item[t].victim].st # "none"
        BY <1>0, Zenon DEF ItemKept
      <3>3. QED
        BY <1>0, <1>a, <2>1, <3>1, <3>2, ZenonT(30) DEF RowKept, CartRow
    <2>3. \/ EndItem(t)
          \/ \E n : Goto(t, "first") /\ item' = [item EXCEPT ![t].left = n]
      BY <1>10, Zenon DEF DestroyCart
    <2>4. QED
      BY <1>4, <1>6, <2>1, <2>2, <2>3
  <1>11. ASSUME NEW u \in Users, NEW p \in Products, RemoveCarts(u, p)
         PROVE  RowsKept'
    <2>1. \A c \in CartIds : RowKept(c)'
      BY <1>0, <1>a, <1>11, Zenon DEF RemoveCarts, RowKept, ActiveOf, ActiveCarts, CartRow
    <2>2. UNCHANGED <<thread, item>>
      BY <1>11 DEF RemoveCarts
    <2>3. QED
      BY <1>0, <2>1, <2>2, LocalsKept, RowsKeptSplit, Zenon
  <1>12. QED
    BY <1>3, <1>7, <1>8, <1>9, <1>10, <1>11, Zenon DEF CartsNext, CartsStep

\* The checkouts keep RowsKept: they count rows in use, and find products on
\* the rows they counted.
LEMMA CheckoutRowsKept ==
  ASSUME TypeOK, TypeOK', RowsStable, RowsKept, CheckoutNext, UNCHANGED <<item, mark, edit>>
  PROVE  RowsKept'
  <1> USE DEF tables, external
  <1>0. /\ \A c \in CartIds : RowKept(c)
        /\ \A t \in Threads : ItemKept(t) /\ EditKept(t) /\ SaleKept(t)
    BY RowsKeptSplit
  <1>a. /\ thread \in [Threads -> ThreadState] /\ sale \in [Threads -> Sale]
        /\ carts \in [CartIds -> CartRow]
    BY Zenon DEF TypeOK
  <1>1. \A c \in CartIds : RowKept(c)'
    <2>1. \A c \in CartIds : carts'[c].st # "none" => carts[c].st # "none"
      <3>1. ASSUME NEW t \in Threads, SweepCarts(t), NEW c \in CartIds, carts'[c].st # "none"
            PROVE  carts[c].st # "none"
        BY <1>a, <3>1, Zenon DEF SweepCarts, Deactivated, ActiveCarts
      <3>2. QED
        BY <3>1, ZenonT(40) DEF CheckoutNext, CheckoutStep, BeginCheckout, Total, CountCarts,
             LoadProducts, CallGateway, GatewayRefuses, CreateBill, ValidateLine,
             InsertLine, Redirect, GatewayCollects, GatewayGivesUp
    <2>2. QED
      BY <1>0, <2>1, Zenon DEF RowKept, RowsStable
  <1>2. ASSUME NEW t \in Threads,
               \A x \in Threads \ {t} : thread'[x] = thread[x] /\ sale'[x] = sale[x],
               thread'[t].h \in checkouts \cup {"idle"}, SaleKept(t)'
        PROVE  RowsKept'
    <2>1. \A x \in Threads : EditKept(x)'
      BY <1>0, LocalsKept
    <2>2. \A x \in Threads \ {t} : ItemKept(x)' /\ SaleKept(x)'
      BY <1>0, <1>2, LocalsKept, Zenon
    <2>3. ItemKept(t)'
      <3>1. item[t].victim \in CartIds => carts'[item[t].victim].st # "none"
        BY <1>0, Zenon DEF ItemKept, RowsStable
      <3>2. thread'[t].h \notin {"create", "update_quantity"}
        BY <1>2 DEF checkouts
      <3>3. QED
        BY <3>1, <3>2, Zenon DEF ItemKept
    <2>4. QED
      BY <1>1, <1>2, <2>1, <2>2, <2>3, RowsKeptSplit, Zenon
  <1>3. ASSUME NEW t \in Threads, EndSale(t) PROVE RowsKept'
    <2>1. /\ \A x \in Threads \ {t} : thread'[x] = thread[x] /\ sale'[x] = sale[x]
          /\ thread'[t] = Idle /\ sale'[t] = NoSale
      BY <1>a, <1>3 DEF EndSale, Finish
    <2>2. SaleKept(t)' /\ thread'[t].h = "idle"
      BY <2>1, EmptyKept DEF Idle
    <2>3. QED
      BY <1>2, <2>1, <2>2
  \* A step that leaves counted and found alone, and does not go back.
  <1>4. ASSUME NEW t \in Threads, NEW pc, pc # "count", Goto(t, pc) \/ UNCHANGED thread,
               thread[t].h \in checkouts,
               \A x \in Threads \ {t} : sale'[x] = sale[x],
               sale'[t].counted = sale[t].counted, sale'[t].found = sale[t].found,
               pc # "prices"
        PROVE  RowsKept'
    <2>1. /\ \A x \in Threads \ {t} : thread'[x] = thread[x]
          /\ thread'[t].h = thread[t].h
          /\ thread'[t].pc = pc \/ thread'[t].pc = thread[t].pc
      BY <1>a, <1>4 DEF Goto, ThreadState
    <2>2. sale[t].counted \subseteq CartIds
      BY <1>a DEF Sale
    <2>3. SaleKept(t)'
      <3>1. \A c \in sale'[t].counted : carts'[c].st # "none"
        BY <1>0, <1>4, <2>2, Zenon DEF SaleKept, RowsStable
      <3>2. sale'[t].found \subseteq ProductsOn(sale[t].counted)'
        BY <1>0, <1>4, <2>2 DEF SaleKept, RowsStable, ProductsOn
      <3>3. sale'[t].found # {} => thread'[t].pc \notin {"prices", "count"}
        BY <1>0, <1>4, <2>1, Zenon DEF SaleKept
      <3>4. QED
        BY <1>4, <2>1, <3>1, <3>2, <3>3, Zenon DEF SaleKept
    <2>4. QED
      BY <1>2, <1>4, <2>1, <2>3, Zenon
  <1>5. ASSUME NEW t \in Threads, NEW h \in checkouts, NEW u \in Users,
               BeginCheckout(t, h, u)
        PROVE  RowsKept'
    <2>1. /\ \A x \in Threads \ {t} : thread'[x] = thread[x] /\ sale'[x] = sale[x]
          /\ thread'[t].h = h /\ thread[t].h = "idle" /\ UNCHANGED carts
          /\ sale'[t].counted = sale[t].counted /\ sale'[t].found = sale[t].found
      BY <1>a, <1>5, Zenon DEF BeginCheckout, Begin, Free, Sale
    <2>2. sale[t].found = {}
      BY <1>0, <2>1, Zenon DEF SaleKept, checkouts
    <2>3. SaleKept(t)'
      BY <1>0, <2>1, <2>2, Zenon DEF SaleKept
    <2>4. QED
      BY <1>2, <2>1, <2>3, Zenon
  <1>6. ASSUME NEW t \in Threads, Total(t) \/ CountCarts(t)
        PROVE  RowsKept'
    <2>1. CASE EndSale(t)
      BY <1>3, <2>1
    <2>2. CASE ~EndSale(t)
      <3>1. /\ thread[t].h \in checkouts /\ thread[t].pc \in {"prices", "count"}
            /\ UNCHANGED carts /\ \E pc : Goto(t, pc)
        BY <1>6, <2>2, Zenon DEF Total, CountCarts, At
      <3>2. \A x \in Threads \ {t} : thread'[x] = thread[x] /\ sale'[x] = sale[x]
        BY <1>a, <1>6, <2>2, Zenon DEF Total, CountCarts, Goto
      <3>3. thread'[t].h = thread[t].h
        BY <1>a, <3>1 DEF Goto, ThreadState
      <3>4. sale[t].found = {}
        BY <1>0, <3>1, Zenon DEF SaleKept
      <3>5. sale'[t].found = {}
        BY <1>a, <1>6, <2>2, <3>4, ZenonT(30) DEF Total, CountCarts, Sale
      <3>6. \A c \in sale'[t].counted : carts'[c].st # "none"
        <4>1. CASE Total(t)
          <5>1. sale'[t].counted = sale[t].counted
            BY <1>a, <2>2, <4>1 DEF Total, Sale
          <5>2. QED
            BY <1>0, <3>1, <5>1, Zenon DEF SaleKept
        <4>2. CASE CountCarts(t)
          <5>1. sale'[t].counted = ActiveCarts(thread[t].user)
            BY <1>a, <4>2 DEF CountCarts, DataCart, Sale
          <5>2. QED
            BY <3>1, <5>1 DEF ActiveCarts
        <4>3. QED
          BY <1>6, <4>1, <4>2
      <3>7. SaleKept(t)'
        BY <3>5, <3>6 DEF SaleKept
      <3>8. QED
        BY <1>2, <3>1, <3>2, <3>3, <3>7, Zenon
    <2>3. QED
      BY <2>1, <2>2
  <1>7. ASSUME NEW t \in Threads, LoadProducts(t)
        PROVE  RowsKept'
    <2> DEFINE on == ProductsOn(sale[t].counted)
    <2>1. /\ thread[t].h \in checkouts /\ thread[t].pc = "load" /\ UNCHANGED carts
          /\ \E pc \in {"line", "call"} : Goto(t, pc)
      BY <1>7, Zenon DEF LoadProducts, At
    <2>2. /\ \A x \in Threads \ {t} : thread'[x] = thread[x]
          /\ thread'[t].h = thread[t].h /\ thread'[t].pc \in {"line", "call"}
      BY <1>a, <2>1 DEF Goto, ThreadState
    <2>3. PICK f \in SUBSET on : \E m :
             sale' = [sale EXCEPT ![t].found = f, ![t].todo = f, ![t].prices = m]
      <3>1. {p \in on : IsLive(p)} \in SUBSET on /\ on \in SUBSET on
        OBVIOUS
      <3> HIDE DEF on
      <3>2. QED
        BY <1>7, <3>1, Zenon DEF LoadProducts, on
    <2>4. /\ \A x \in Threads \ {t} : sale'[x] = sale[x]
          /\ sale'[t].counted = sale[t].counted /\ sale'[t].found = f
      BY <1>a, <2>3 DEF Sale
    <2>5. SaleKept(t)'
      BY <1>0, <2>1, <2>2, <2>4, Zenon DEF SaleKept, ProductsOn
    <2>6. QED
      BY <1>2, <2>1, <2>2, <2>4, <2>5, Zenon
  <1>8. ASSUME NEW t \in Threads, NEW o \in Orders, CallGateway(t, o) \/ CreateBill(t, o)
        PROVE  RowsKept'
    <2>1. CASE EndSale(t)
      BY <1>3, <2>1
    <2>2. CASE ~EndSale(t)
      <3>1. /\ sale' = [sale EXCEPT ![t].order = o] /\ thread[t].h \in checkouts
            /\ \E pc \in {"bill", "load", "line"} : Goto(t, pc)
        BY <1>8, <2>2, Zenon DEF CallGateway, CreateBill, At, checkouts
      <3>2. /\ \A x \in Threads \ {t} : sale'[x] = sale[x]
            /\ sale'[t].counted = sale[t].counted /\ sale'[t].found = sale[t].found
        BY <1>a, <3>1 DEF Sale
      <3>3. QED
        BY <1>4, <3>1, <3>2, Zenon
    <2>3. QED
      BY <2>1, <2>2
  <1>9. ASSUME NEW t \in Threads, NEW p \in Products, ValidateLine(t, p)
        PROVE  RowsKept'
    <2>1. /\ thread[t].h \in checkouts
          /\ Goto(t, "insert") \/ UNCHANGED thread
          /\ \/ sale' = [sale EXCEPT ![t].todo = @ \ {p}, ![t].line = p]
             \/ sale' = [sale EXCEPT ![t].todo = @ \ {p}]
      BY <1>9, Zenon DEF ValidateLine, At
    <2>2. /\ \A x \in Threads \ {t} : sale'[x] = sale[x]
          /\ sale'[t].counted = sale[t].counted /\ sale'[t].found = sale[t].found
      BY <1>a, <2>1 DEF Sale
    <2>3. QED
      BY <1>4, <2>1, <2>2, Zenon
  <1>10. ASSUME NEW t \in Threads,
                InsertLine(t) \/ SweepCarts(t) \/ GatewayRefuses(t) \/ Redirect(t)
         PROVE  RowsKept'
    <2>1. CASE EndSale(t)
      BY <1>3, <2>1
    <2>2. CASE ~EndSale(t)
      <3>1. /\ thread[t].h \in checkouts /\ \E pc \in {"line", "redirect"} : Goto(t, pc)
            /\ sale' = [sale EXCEPT ![t].line = None] \/ sale' = sale
        BY <1>10, <2>2, Zenon DEF InsertLine, SweepCarts, GatewayRefuses, Redirect, At
      <3>2. /\ \A x \in Threads \ {t} : sale'[x] = sale[x]
            /\ sale'[t].counted = sale[t].counted /\ sale'[t].found = sale[t].found
        BY <1>a, <3>1 DEF Sale
      <3>3. QED
        BY <1>4, <3>1, <3>2, Zenon
    <2>3. QED
      BY <2>1, <2>2
  <1>11. ASSUME NEW o \in Orders, GatewayCollects(o) \/ GatewayGivesUp(o)
         PROVE  RowsKept'
    <2>1. UNCHANGED <<thread, sale>>
      BY <1>11 DEF GatewayCollects, GatewayGivesUp
    <2>2. QED
      BY <1>0, <1>1, <2>1, LocalsKept, RowsKeptSplit, Zenon
  <1>12. QED
    BY <1>5, <1>6, <1>7, <1>8, <1>9, <1>10, <1>11, Zenon DEF CheckoutNext, CheckoutStep

\* The bills controllers and the catalogue keep RowsKept: the rows a destroy
\* of a product deletes were in use when it loaded them.
LEMMA StaffRowsKept ==
  ASSUME TypeOK, TypeOK', RowsStable, RowsKept, UNCHANGED <<item, sale>>,
         \/ BillsNext /\ UNCHANGED edit
         \/ CatalogNext
  PROVE  RowsKept'
  <1> USE DEF tables
  <1>0. /\ \A c \in CartIds : RowKept(c)
        /\ \A t \in Threads : ItemKept(t) /\ EditKept(t) /\ SaleKept(t)
    BY RowsKeptSplit
  <1>a. /\ thread \in [Threads -> ThreadState] /\ edit \in [Threads -> Edit]
        /\ carts \in [CartIds -> CartRow]
    BY Zenon DEF TypeOK
  <1> DEFINE staff == {"idle", "ipn", "ship", "product_destroy"}
  <1>1. ASSUME NEW t \in Threads, thread[t].h \in staff, thread'[t].h \in staff,
               \A x \in Threads \ {t} : thread'[x] = thread[x] /\ edit'[x] = edit[x],
               EditKept(t)', \A c \in CartIds : RowKept(c)'
        PROVE  RowsKept'
    <2>1. \A x \in Threads \ {t} : ItemKept(x)' /\ SaleKept(x)' /\ EditKept(x)'
      BY <1>0, <1>1, LocalsKept, Zenon
    <2>2. ItemKept(t)'
      BY <1>0, <1>1, Zenon DEF ItemKept, RowsStable
    <2>3. SaleKept(t)'
      <3>1. sale[t].found = {} /\ sale[t].counted \subseteq CartIds
        BY <1>0, <1>1, Zenon DEF SaleKept, checkouts, TypeOK, Sale
      <3>2. QED
        BY <1>0, <3>1, Zenon DEF SaleKept, RowsStable
    <2>4. QED
      BY <1>1, <2>1, <2>2, <2>3, RowsKeptSplit, Zenon
  <1>2. ASSUME UNCHANGED carts PROVE \A c \in CartIds : RowKept(c)'
    BY <1>0, <1>2, Zenon DEF RowKept, RowsStable
  <1>3. ASSUME NEW t \in Threads, edit'[t] = edit[t] PROVE EditKept(t)'
    BY <1>0, <1>3, LocalsKept
  <1>4. CASE BillsNext /\ UNCHANGED edit
    <2>1. ASSUME NEW t \in Threads, NEW h \in {"ipn", "ship"}, NEW o, NEW r, FindBill(t, h, o, r)
          PROVE  RowsKept'
      <3>1. /\ thread[t].h = "idle" /\ thread'[t].h = h /\ UNCHANGED carts
            /\ \A x \in Threads \ {t} : thread'[x] = thread[x]
        BY <1>a, <2>1, Zenon DEF FindBill, Begin, Free
      <3>2. QED
        BY <1>1, <1>2, <1>3, <1>4, <3>1, Zenon
    <2>2. ASSUME NEW t \in Threads, BillsStep(t)
          PROVE  RowsKept'
      <3>1. /\ thread[t].h \in {"ipn", "ship"} /\ thread'[t].h = "idle" /\ UNCHANGED carts
            /\ \A x \in Threads \ {t} : thread'[x] = thread[x]
        BY <1>a, <2>2 DEF BillsStep, UpdatePaid, UpdateShipped, EndMark, Finish, At, Idle
      <3>2. QED
        BY <1>1, <1>2, <1>3, <1>4, <3>1, Zenon
    <2>3. QED
      BY <1>4, <2>1, <2>2 DEF BillsNext
  <1>5. ASSUME NEW p \in Products, NEW price, NEW q,
               CreateProduct(p, price, q) \/ UpdateProduct(p, price, q)
        PROVE  RowsKept'
    <2>1. UNCHANGED <<carts, thread, edit>>
      BY <1>5 DEF CreateProduct, UpdateProduct
    <2>2. QED
      BY <1>0, <1>2, <2>1, LocalsKept, RowsKeptSplit, Zenon
  <1>6. ASSUME NEW t \in Threads, NEW p \in Products, FindForDestroy(t, p)
        PROVE  RowsKept'
    <2>1. /\ thread[t].h = "idle" /\ thread'[t].h = "product_destroy" /\ UNCHANGED carts
          /\ \A x \in Threads \ {t} : thread'[x] = thread[x] /\ edit'[x] = edit[x]
          /\ edit'[t].carts = edit[t].carts
      BY <1>a, <1>6, Zenon DEF FindForDestroy, Begin, Free, Edit
    <2>2. EditKept(t)'
      BY <1>0, <2>1, Zenon DEF EditKept
    <2>3. QED
      BY <1>1, <1>2, <2>1, <2>2, Zenon
  <1>7. ASSUME NEW t \in Threads, LoadDependents(t)
        PROVE  RowsKept'
    <2>1. /\ thread[t].h = "product_destroy" /\ UNCHANGED carts
          /\ \A x \in Threads \ {t} : thread'[x] = thread[x] /\ edit'[x] = edit[x]
          /\ thread'[t].h = thread[t].h
          /\ edit'[t].carts = DependentCarts(edit[t].product)
      BY <1>a, <1>7, Zenon DEF LoadDependents, Goto, At, Edit, ThreadState
    <2>2. EditKept(t)'
      BY <2>1, Zenon DEF EditKept, DependentCarts
    <2>3. QED
      BY <1>1, <1>2, <2>1, <2>2, Zenon
  <1>8. ASSUME NEW t \in Threads, DestroyProduct(t)
        PROVE  RowsKept'
    <2>1. /\ thread[t].h = "product_destroy" /\ thread'[t].h = "idle" /\ edit'[t] = NoEdit
          /\ \A x \in Threads \ {t} : thread'[x] = thread[x] /\ edit'[x] = edit[x]
      BY <1>a, <1>8, Zenon DEF DestroyProduct, EndEdit, Finish, At, Idle
    <2>2. \A c \in CartIds : carts'[c].st # "none" => carts[c].st # "none"
      <3>1. \A c \in edit[t].carts : carts[c].st # "none"
        BY <1>0 DEF EditKept
      <3>2. QED
        BY <1>8, <3>1, Zenon DEF DestroyProduct
    <2>3. \A c \in CartIds : RowKept(c)'
      BY <1>0, <2>2, Zenon DEF RowKept, RowsStable
    <2>4. QED
      BY <1>1, <2>1, <2>3, EmptyKept, Zenon
  <1>9. QED
    BY <1>4, <1>5, <1>6, <1>7, <1>8 DEF CatalogNext, CatalogStep

\* Every step of the shop keeps RowsKept.
LEMMA NextRowsKept ==
  ASSUME TypeOK, TypeOK', RowsKept, [Next]_vars
  PROVE  RowsKept'
  <1>0. RowsStable
    BY StepRowsStable
  <1>1. CASE Crash
    <2>1. \A t \in Threads : ItemKept(t)' /\ EditKept(t)' /\ SaleKept(t)'
      BY <1>1, EmptyKept, Zenon DEF Crash
    <2>2. \A c \in CartIds : RowKept(c)'
      BY <1>1, RowsKeptSplit, Zenon DEF Crash, RowKept, tables
    <2>3. QED
      BY <2>1, <2>2, RowsKeptSplit
  <1>2. CASE UNCHANGED vars
    BY <1>2 DEF vars, tables, RowsKept, ProductsOn
  <1>3. QED
    BY <1>0, <1>1, <1>2, CartsRowsKept, CheckoutRowsKept, StaffRowsKept, Zenon DEF Next

-----------------------------------------------------------------------------
(***************************************************************************)
(* What a step of one request leaves alone of another request's order.     *)
(***************************************************************************)
\* A checkout whose order is left alone still owns it.
LEMMA StillOwns ==
  ASSUME TypeOK, RowsStable, RowsKept, NEW x \in Threads, sale[x].order # None,
         OwnsOrder(x), sale'[x] = sale[x], thread'[x] = thread[x],
         OrderKept(sale[x].order), \A y \in Threads \ {x} : sale'[y].order # sale[x].order
  PROVE  OwnsOrder(x)'
  <1> DEFINE o == sale[x].order
  <1>0. /\ sale[x].counted \in SUBSET CartIds /\ o \in Orders
        /\ sale[x].found \subseteq Products
    BY Zenon DEF TypeOK, Sale
  <1>1. \A c \in sale[x].counted : carts[c].st # "none"
    BY RowsKeptSplit, Zenon DEF SaleKept
  <1>2. \A p : Units(sale[x].counted, p)' = Units(sale[x].counted, p)
    <2> SUFFICES ASSUME NEW p PROVE Units(sale[x].counted, p)' = Units(sale[x].counted, p)
      OBVIOUS
    <2>1. Cardinality({c \in sale[x].counted : carts'[c].product = p})
             = Units(sale[x].counted, p)
      BY <1>0, <1>1, CountsStable, Zenon
    <2>2. QED
      BY <2>1, Zenon DEF Units
  <1>3. ItemsOf(x)' = ItemsOf(x)
    BY <1>2, Zenon DEF ItemsOf
  <1>4. \A p \in Products : LineDone(x, p) => LineDone(x, p)'
    BY <1>0, <1>2, Zenon DEF LineDone, OrderKept, RowsStable
  <1>5. HasBill(o)' <=> HasBill(o)
    BY Zenon DEF OrderKept, HasBill
  <1>6. bills'[o].amount = bills[o].amount
    BY Zenon DEF OrderKept
  <1>7. /\ gateway'[o].amount = gateway[o].amount /\ gateway'[o].items = gateway[o].items
        /\ gateway[o].st = "unknown" => gateway'[o].st = "unknown"
        /\ gateway[o].st \in {"open", "failed"} => gateway'[o].st \in {"open", "failed"}
    BY Zenon DEF OrderKept
  <1>8. QED
    BY <1>0, <1>3, <1>4, <1>5, <1>6, <1>7, Zenon DEF OwnsOrder

\* A bill that was complete still is when its order is left alone.
LEMMA StillComplete ==
  ASSUME TypeOK, RowsStable, NEW o \in Orders, BillComplete(o), OrderKept(o)
  PROVE  BillComplete(o)'
  BY Zenon DEF BillComplete, OrderKept, HasBill, RowsStable

\* A thread that does nothing keeps its order when that is left alone.
LEMMA StillOwned ==
  ASSUME TypeOK, RowsStable, RowsKept, NEW x \in Threads, OrderOwned(x),
         sale'[x] = sale[x], thread'[x] = thread[x],
         sale[x].order # None =>
            /\ OrderKept(sale[x].order)
            /\ \A y \in Threads \ {x} : sale'[y].order # sale[x].order
  PROVE  OrderOwned(x)'
  <1>1. sale[x].order # None => OwnsOrder(x)'
    BY StillOwns, Zenon DEF OrderOwned
  <1>2. QED
    BY <1>1, Zenon DEF OrderOwned, At

\* A request without an order, that is not about to need one, is fine.
LEMMA OwnsNothing ==
  ASSUME NEW t \in Threads, sale'[t].order = None,
         \/ thread'[t].h \notin checkouts
         \/ thread'[t].pc \in {"prices", "count"}
         \/ thread'[t].h = "cash" /\ thread'[t].pc = "bill"
         \/ thread'[t].h = "checkout_momo" /\ thread'[t].pc = "load"
  PROVE  OrderOwned(t)'
  BY Zenon DEF OrderOwned, At, checkouts

-----------------------------------------------------------------------------
(***************************************************************************)
(* Requests other than checkouts.                                          *)
(***************************************************************************)
\* They leave every order alone: no bill loses its amount, and a line only
\* goes away with its product.
LEMMA OthersKeepOrders ==
  ASSUME TypeOK, TypeOK', MarksRefer,
         \/ CartsNext /\ UNCHANGED external
         \/ BillsNext /\ UNCHANGED external
         \/ CatalogNext /\ UNCHANGED external
         \/ Crash
  PROVE  \A o \in Orders : OrderKept(o)
  <1> USE DEF tables, external
  <1>0. UNCHANGED gateway
    BY DEF Crash
  <1>1. ASSUME UNCHANGED <<bills, lines>>
        PROVE  \A o \in Orders : OrderKept(o)
    BY <1>0, <1>1, Zenon DEF OrderKept
  <1>2. CASE CartsNext
    BY <1>1, <1>2, ZenonT(40) DEF CartsNext, CartsStep, FindProduct, CountForCreate, CountForUpdate,
             CreateCart, ValidateCart, FirstCart, DestroyCart, RemoveCarts
  <1>3. CASE BillsNext
    <2>1. ASSUME NEW t \in Threads, BillsStep(t)
          PROVE  \A o \in Orders : OrderKept(o)
      <3>0. bills \in [Orders -> BillRow] /\ UNCHANGED lines
        BY <2>1, Zenon DEF TypeOK, BillsStep, UpdatePaid, UpdateShipped
      <3>1. ASSUME NEW row \in BillRow
            PROVE  /\ Paid(t, row).amount = row.amount /\ Shipped(t, row).amount = row.amount
                   /\ Paid(t, row).st \in {row.st, "paid"} /\ Shipped(t, row).st = row.st
        BY DEF Paid, Shipped, BillRow
      <3>2. \A o \in Orders :
               \/ bills'[o] = bills[o]
               \/ HasBill(o) /\ bills'[o] \in {Paid(t, bills[o]), Shipped(t, bills[o])}
        <4>1. mark[t].order \in Orders => HasBill(mark[t].order)
          BY ShopAssumption, Zenon DEF MarksRefer
        <4>2. QED
          BY <2>1, <3>0, <4>1, Zenon DEF BillsStep, UpdatePaid, UpdateShipped
      <3>3. QED
        BY <1>0, <3>0, <3>1, <3>2, Zenon DEF OrderKept, HasBill
    <2>2. QED
      BY <1>1, <1>3, <2>1, Zenon DEF BillsNext, FindBill
  <1>4. CASE CatalogNext
    <2>1. ASSUME NEW t \in Threads, DestroyProduct(t), ~UNCHANGED lines
          PROVE  \A o \in Orders : OrderKept(o)
      <3> DEFINE p == edit[t].product
      <3>0. lines \in [Orders -> [Products -> LineRow]] /\ products \in [Products -> ProductRow]
        BY Zenon DEF TypeOK
      <3>1. /\ products' = [products EXCEPT ![p].st = "gone"] /\ UNCHANGED bills
            /\ lines' = [o \in Orders |-> IF o \in edit[t].orders
                          THEN [lines[o] EXCEPT ![p] = NoLine] ELSE lines[o]]
        BY <2>1, Zenon DEF DestroyProduct
      <3>2. \A o \in Orders, r \in Products :
               lines'[o][r] = lines[o][r] \/ products'[r].st = "gone"
        <4> HIDE DEF p
        <4> QED BY <3>0, <3>1 DEF ProductRow
      <3>3. QED
        BY <1>0, <3>1, <3>2, Zenon DEF OrderKept
    <2>2. QED
      BY <1>1, <1>4, <2>1, Zenon DEF CatalogNext, CatalogStep, CreateProduct, UpdateProduct,
             FindForDestroy, LoadDependents, DestroyProduct
  <1>5. QED
    BY <1>1, <1>2, <1>3, <1>4, Zenon DEF Crash

\* So the orders of the running checkouts stay theirs.
LEMMA OthersOwned ==
  ASSUME TypeOK, TypeOK', RowsStable, RowsKept, OrdersOwned, MarksRefer,
         \/ CartsNext /\ UNCHANGED <<sale, external>>
         \/ BillsNext /\ UNCHANGED <<sale, external>>
         \/ CatalogNext /\ UNCHANGED <<sale, external>>
  PROVE  OrdersOwned'
  <1>1. \A o \in Orders : OrderKept(o)
    BY OthersKeepOrders
  <1>2. ASSUME NEW x \in Threads
        PROVE  OrderOwned(x)'
    <2>0. OrderOwned(x) /\ UNCHANGED sale /\ sale[x].order \in Orders \cup {None}
      BY Zenon DEF OrdersOwned, TypeOK, Sale
    <2>1. CASE thread'[x] = thread[x]
      <3>1. sale[x].order # None => \A y \in Threads \ {x} : sale'[y].order # sale[x].order
        BY <2>0, OrdersApart
      <3>2. QED
        BY <1>1, <2>0, <2>1, <3>1, StillOwned, Zenon
    <2>2. CASE thread[x].h \notin checkouts /\ thread'[x].h \notin checkouts
      <3>1. sale[x].order = None
        BY <2>0, <2>2, Zenon DEF OrderOwned, OwnsOrder, checkouts
      <3>2. QED
        BY <2>0, <2>2, <3>1, OwnsNothing, Zenon
    <2>3. QED
      BY <2>1, <2>2, OthersThreads
  <1>3. QED
    BY <1>2 DEF OrdersOwned

\* An order that was payable before, or is left alone, stays complete.
LEMMA PayableStays ==
  ASSUME TypeOK, RowsStable, PayableBillComplete,
         \A o \in Orders : gateway[o].st \in {"payable", "paid"} => OrderKept(o),
         \A o \in Orders : gateway'[o].st \in {"payable", "paid"} =>
            gateway[o].st \in {"payable", "paid"} \/ BillComplete(o)'
  PROVE  PayableBillComplete'
  BY StillComplete DEF PayableBillComplete

-----------------------------------------------------------------------------
(***************************************************************************)
(* Checkouts.                                                              *)
(***************************************************************************)
\* So the other checkouts keep their orders, no payable order is touched, and
\* its own order stays its own.
LEMMA CheckoutApart ==
  ASSUME TypeOK, RowsStable, RowsKept, OrdersOwned, NEW t \in Threads, CheckoutStep(t)
  PROVE  /\ \A x \in Threads \ {t} : OrderOwned(x)'
         /\ \A o \in Orders : gateway[o].st \in {"payable", "paid"} => OrderKept(o)
         /\ sale'[t].order # None =>
               \A x \in Threads \ {t} : sale'[x].order # sale'[t].order
  <1>0. /\ \A x \in Threads : OrderOwned(x) /\ sale[x].order \in Orders \cup {None}
        /\ None \notin Orders
    BY ShopAssumption, Zenon DEF OrdersOwned, TypeOK, Sale
  <1>1. \A x \in Threads : sale[x].order # None =>
           \A y \in Threads \ {x} : sale[y].order # sale[x].order
    BY OrdersApart
  <1>2. ASSUME NEW x \in Threads \ {t}, sale[x].order # None
        PROVE  sale'[t].order # sale[x].order
    BY <1>0, <1>1, <1>2, CheckoutTouches DEF FreshOrder
  <1>3. ASSUME NEW x \in Threads \ {t}
        PROVE  OrderOwned(x)'
    <2>1. sale[x].order # None => OrderKept(sale[x].order)
      BY <1>0, <1>1, CheckoutTouches, Zenon DEF FreshOrder
    <2>2. sale[x].order # None => \A y \in Threads \ {x} : sale'[y].order # sale[x].order
      BY <1>1, <1>2, CheckoutTouches
    <2>3. QED
      BY <1>0, <2>1, <2>2, CheckoutTouches, StillOwned, Zenon
  <1>4. ASSUME NEW o \in Orders, gateway[o].st \in {"payable", "paid"}
        PROVE  OrderKept(o)
    <2>1. sale[t].order # o
      BY <1>0, <1>4, Zenon DEF OrderOwned, OwnsOrder
    <2>2. QED
      BY <1>4, <2>1, CheckoutTouches, Zenon DEF FreshOrder
  <1>5. ASSUME sale'[t].order # None, NEW x \in Threads \ {t}
        PROVE  sale'[x].order # sale'[t].order
    BY <1>1, <1>5, CheckoutTouches DEF FreshOrder
  <1>6. QED
    BY <1>3, <1>4, <1>5

\* A step of a checkout before it writes lines keeps its order its own.
LEMMA CheckoutOwnedEarly ==
  ASSUME TypeOK, TypeOK', RowsStable, RowsKept, OrdersOwned, NEW t \in Threads,
         \/ Total(t) \/ CountCarts(t) \/ LoadProducts(t)
         \/ \E o \in Orders : CallGateway(t, o) \/ CreateBill(t, o),
         ~EndSale(t), CheckoutStep(t)
  PROVE  OrderOwned(t)'
  <1> USE DEF tables, external
  <1>0. /\ thread \in [Threads -> ThreadState] /\ sale \in [Threads -> Sale]
        /\ bills \in [Orders -> BillRow] /\ gateway \in [Orders -> GatewayOrder]
        /\ OrderOwned(t)
    BY Zenon DEF OrdersOwned, TypeOK
  <1>1. CASE Total(t) \/ CountCarts(t)
    <2>1. sale[t].order = None
      BY <1>0, <1>1, Zenon DEF OrderOwned, OwnsOrder, Total, CountCarts, At
    <2>2. sale'[t].order = None
      <3>1. CASE Total(t)
        BY <1>0, <2>1, <3>1, Zenon DEF Total, Sale
      <3>2. CASE CountCarts(t)
        BY <1>0, <2>1, <3>2, Zenon DEF CountCarts, Sale
      <3>3. QED
        BY <1>1, <3>1, <3>2
    <2>3. \/ thread'[t].pc = "count"
          \/ thread'[t].h = "cash" /\ thread'[t].pc = "bill"
          \/ thread'[t].h = "checkout_momo" /\ thread'[t].pc = "load"
      BY <1>0, <1>1, ZenonT(30) DEF Total, CountCarts, Goto, At, checkouts, ThreadState
    <2>4. QED
      BY <2>2, <2>3, OwnsNothing, Zenon
  <1>2. CASE LoadProducts(t)
    <2>1. PICK f : \E m :
             sale' = [sale EXCEPT ![t].found = f, ![t].todo = f, ![t].prices = m]
      BY <1>2, Zenon DEF LoadProducts
    <2>2. /\ sale'[t].order = sale[t].order /\ sale'[t].amount = sale[t].amount
          /\ sale'[t].found = f /\ sale'[t].todo = f
      BY <1>0, <2>1 DEF Sale
    <2>3. /\ UNCHANGED <<bills, gateway>> /\ thread[t].pc = "load" /\ thread[t].h \in checkouts
          /\ thread'[t].h = thread[t].h
          /\ thread'[t].pc = IF thread[t].h = "cash" THEN "line" ELSE "call"
      BY <1>0, <1>2, ZenonT(60) DEF LoadProducts, Goto, At, ThreadState
    <2>4. CASE thread[t].h = "cash"
      <3>1. sale[t].order # None /\ OwnsOrder(t)
        BY <1>0, <2>3, <2>4, Zenon DEF OrderOwned, At
      <3>2. OwnsOrder(t)'
        <4>1. \A x \in Threads \ {t} : sale'[x].order # sale'[t].order
          BY <2>2, <3>1, CheckoutApart, Zenon
        <4>2. HasBill(sale[t].order)' /\ bills'[sale'[t].order].amount = sale'[t].amount
          BY <2>2, <2>3, <3>1, Zenon DEF OwnsOrder, HasBill
        <4>3. gateway'[sale'[t].order].st = "unknown"
          BY <2>2, <2>3, <2>4, <3>1, Zenon DEF OwnsOrder
        <4>4. QED
          BY <2>2, <2>3, <2>4, <4>1, <4>2, <4>3, Zenon DEF OwnsOrder, HasBill
      <3>3. QED
        BY <2>2, <2>3, <2>4, <3>1, <3>2, Zenon DEF OrderOwned, At
    <2>5. CASE thread[t].h = "checkout_momo"
      <3>1. sale[t].order = None
        BY <1>0, <2>3, <2>5, ZenonT(40) DEF OrderOwned, OwnsOrder
      <3>2. QED
        BY <2>2, <2>3, <2>5, <3>1, Zenon DEF OrderOwned, At
    <2>6. QED
      BY <2>3, <2>4, <2>5, Zenon DEF checkouts
  <1>3. ASSUME NEW o \in Orders, CallGateway(t, o)
        PROVE  OrderOwned(t)'
    <2>1. sale' = [sale EXCEPT ![t].order = o] /\ UNCHANGED <<carts, bills>>
      BY <1>3, Zenon DEF CallGateway
    <2>2. /\ sale'[t].order = o /\ sale'[t].amount = sale[t].amount
          /\ sale'[t].found = sale[t].found /\ sale'[t].todo = sale[t].todo
          /\ sale'[t].counted = sale[t].counted
      BY <1>0, <2>1 DEF Sale
    <2>3. /\ thread[t].h = "checkout_momo" /\ thread[t].pc = "call"
          /\ thread'[t].h = "checkout_momo" /\ thread'[t].pc = "bill"
      BY <1>0, <1>3, Zenon DEF CallGateway, Goto, At, ThreadState
    <2>4. /\ gateway'[o].st = "open" /\ gateway'[o].amount = sale[t].amount
          /\ gateway'[o].items = ItemsOf(t)
      BY <1>0, <1>3, Zenon DEF CallGateway
    <2>5. ItemsOf(t)' = ItemsOf(t)
      BY <2>1, <2>2 DEF ItemsOf, Units
    <2>6. ~HasBill(o)'
      BY <1>3, <2>1, Zenon DEF CallGateway, FreshOrder, HasBill
    <2>7. \A x \in Threads \ {t} : sale'[x].order # o
      BY <2>2, ShopAssumption, CheckoutApart, Zenon
    <2>8. OwnsOrder(t)'
      BY <2>2, <2>3, <2>4, <2>5, <2>6, <2>7, Zenon DEF OwnsOrder, HasBill
    <2>9. sale'[t].todo = sale'[t].found /\ sale'[t].order # None
      BY <1>0, <2>2, <2>3, ShopAssumption, Zenon DEF OrderOwned, At
    <2>10. QED
      BY <2>8, <2>9 DEF OrderOwned
  <1>4. ASSUME NEW o \in Orders, CreateBill(t, o)
        PROVE  OrderOwned(t)'
    <2>1. sale' = [sale EXCEPT ![t].order = o] /\ UNCHANGED <<carts, gateway>>
      BY <1>4, Zenon DEF CreateBill
    <2>2. /\ sale'[t].order = o /\ sale'[t].amount = sale[t].amount
          /\ sale'[t].found = sale[t].found /\ sale'[t].todo = sale[t].todo
          /\ sale'[t].counted = sale[t].counted
      BY <1>0, <2>1 DEF Sale
    <2>3. /\ thread[t].h \in checkouts /\ thread[t].pc = "bill"
          /\ thread'[t].h = thread[t].h
          /\ thread'[t].pc = IF thread[t].h = "cash" THEN "load" ELSE "line"
      BY <1>0, <1>4 DEF CreateBill, Goto, At, ThreadState
    <2>4. HasBill(o)' /\ bills'[o].amount = sale[t].amount
      BY <1>0, <1>4, Zenon DEF CreateBill, HasBill, NoBill
    <2>5. \A x \in Threads \ {t} : sale'[x].order # o
      BY <2>2, ShopAssumption, CheckoutApart, Zenon
    <2>6. CASE thread[t].h = "cash"
      <3>1. gateway'[o].st = "unknown"
        BY <1>4, <2>1, <2>6 DEF CreateBill, FreshOrder
      <3>2. OwnsOrder(t)'
        BY <2>2, <2>3, <2>4, <2>5, <2>6, <3>1, Zenon DEF OwnsOrder, HasBill
      <3>3. QED
        BY <2>2, <2>3, <2>6, <3>2, ShopAssumption, Zenon DEF OrderOwned, At
    <2>7. CASE thread[t].h = "checkout_momo"
      <3>1. o = sale[t].order /\ OwnsOrder(t) /\ sale[t].todo = sale[t].found
        BY <1>0, <1>4, <2>3, <2>7, Zenon DEF CreateBill, OrderOwned, At
      <3>2. /\ gateway'[o].st \in {"open", "failed"} /\ gateway'[o].amount = sale[t].amount
            /\ gateway'[o].items = ItemsOf(t)
        BY <2>1, <2>7, <3>1, Zenon DEF OwnsOrder
      <3>3. ItemsOf(t)' = ItemsOf(t)
        BY <2>1, <2>2 DEF ItemsOf, Units
      <3>4. OwnsOrder(t)'
        BY <2>2, <2>3, <2>4, <2>5, <2>7, <3>1, <3>2, <3>3, Zenon DEF OwnsOrder, HasBill
      <3>5. QED
        BY <2>2, <2>3, <2>7, <3>4, ShopAssumption, Zenon DEF OrderOwned, At
    <2>8. QED
      BY <2>3, <2>6, <2>7 DEF checkouts
  <1>5. QED
    BY <1>1, <1>2, <1>3, <1>4

\* Neither does a step that writes lines or empties the cart lose it: each
\* product found is still to do, done, or gone.
LEMMA CheckoutOwnedLate ==
  ASSUME TypeOK, TypeOK', RowsStable, RowsKept, OrdersOwned, NEW t \in Threads,
         (\E p \in Products : ValidateLine(t, p)) \/ InsertLine(t) \/ SweepCarts(t),
         ~EndSale(t), CheckoutStep(t)
  PROVE  OrderOwned(t)'
  <1> USE DEF tables, external
  <1>0. /\ thread \in [Threads -> ThreadState] /\ sale \in [Threads -> Sale]
        /\ bills \in [Orders -> BillRow] /\ lines \in [Orders -> [Products -> LineRow]]
        /\ OrderOwned(t)
    BY Zenon DEF OrdersOwned, TypeOK
  <1>1. thread[t].h \in checkouts /\ thread[t].pc \in {"line", "insert"} /\ UNCHANGED gateway
    BY ZenonT(40) DEF ValidateLine, InsertLine, SweepCarts, At
  <1>2. PICK o \in Orders : o = sale[t].order /\ OwnsOrder(t)
    BY <1>0, <1>1, Zenon DEF OrderOwned, At, Sale
  <1>3. /\ sale[t].counted \in SUBSET CartIds /\ sale[t].found \subseteq Products
        /\ \A c \in sale[t].counted : carts[c].st # "none"
        /\ sale[t].found \subseteq ProductsOn(sale[t].counted)
    BY <1>0, RowsKeptSplit, Zenon DEF Sale, SaleKept
  \* What remains to be shown of each of the three actions.
  <1>4. ASSUME /\ sale'[t].order = o /\ sale'[t].amount = sale[t].amount
               /\ sale'[t].counted = sale[t].counted /\ sale'[t].found = sale[t].found,
               /\ thread'[t].h = thread[t].h /\ thread'[t].pc \in {"line", "insert", "redirect"}
               /\ thread'[t].pc = "redirect" =>
                     thread[t].h = "checkout_momo" /\ sale'[t].todo = {},
               HasBill(o)', bills'[o].amount = bills[o].amount,
               \A p \in sale[t].found \ sale'[t].todo :
                  \/ thread'[t].pc = "insert" /\ p = sale'[t].line
                  \/ LineDone(t, p)'
        PROVE  OrderOwned(t)'
    <2>1. \A p : Units(sale[t].counted, p)' = Units(sale[t].counted, p)
      <3> SUFFICES ASSUME NEW p PROVE Units(sale[t].counted, p)' = Units(sale[t].counted, p)
        OBVIOUS
      <3>1. Cardinality({c \in sale[t].counted : carts'[c].product = p})
               = Units(sale[t].counted, p)
        BY <1>3, CountsStable, Zenon
      <3>2. QED
        BY <1>4, <3>1, ZenonT(40) DEF Units
    <2>2. ItemsOf(t)' = ItemsOf(t)
      BY <1>4, <2>1, Zenon DEF ItemsOf
    <2>3. \A x \in Threads \ {t} : sale'[x].order # o
      BY <1>2, <1>4, ShopAssumption, CheckoutApart, ZenonT(40)
    <2>4. bills'[o].amount = sale'[t].amount
      BY <1>1, <1>2, <1>4, ZenonT(40) DEF OwnsOrder
    <2>5. \/ /\ thread[t].h = "cash" /\ gateway'[o].st = "unknown"
          \/ /\ thread[t].h = "checkout_momo" /\ gateway'[o].st \in {"open", "failed"}
             /\ gateway'[o].amount = sale'[t].amount /\ gateway'[o].items = ItemsOf(t)'
      BY <1>1, <1>2, <1>4, <2>2, ZenonT(40) DEF OwnsOrder
    <2>6. OwnsOrder(t)'
      BY <1>4, <2>3, <2>4, <2>5, Zenon DEF OwnsOrder, HasBill
    <2>7. QED
      BY <1>2, <1>4, <2>6, ShopAssumption, ZenonT(40) DEF OrderOwned, At
  <1>5. ASSUME NEW p \in Products, ValidateLine(t, p)
        PROVE  OrderOwned(t)'
    <2>0. /\ thread[t].pc = "line" /\ p \in sale[t].todo
          /\ UNCHANGED <<bills, lines, carts, products>>
      BY <1>5, Zenon DEF ValidateLine, At
    <2>1. HasBill(o)' /\ bills'[o].amount = bills[o].amount
      BY <1>2, <2>0, ZenonT(40) DEF OwnsOrder, HasBill
    <2>2. \A q \in sale[t].found \ sale[t].todo : LineDone(t, q)
      BY <1>2, <2>0, ZenonT(40) DEF OwnsOrder
    <2>3. ASSUME IsLive(p), Goto(t, "insert"),
                 sale' = [sale EXCEPT ![t].todo = @ \ {p}, ![t].line = p]
          PROVE  OrderOwned(t)'
      <3>1. /\ sale'[t].order = o /\ sale'[t].amount = sale[t].amount
            /\ sale'[t].counted = sale[t].counted /\ sale'[t].found = sale[t].found
            /\ sale'[t].todo = sale[t].todo \ {p} /\ sale'[t].line = p
        BY <1>0, <1>2, <2>3, ZenonT(30) DEF Sale
      <3>2. thread'[t].h = thread[t].h /\ thread'[t].pc = "insert"
        BY <1>0, <2>3, Zenon DEF Goto, ThreadState
      <3>3. \A q \in Products : LineDone(t, q) => LineDone(t, q)'
        BY <1>2, <2>0, <3>1, Zenon DEF LineDone, Units
      <3>4. QED
        BY <1>3, <1>4, <2>1, <2>2, <3>1, <3>2, <3>3, Zenon
    <2>4. ASSUME ~IsLive(p), UNCHANGED thread, sale' = [sale EXCEPT ![t].todo = @ \ {p}]
          PROVE  OrderOwned(t)'
      <3>1. /\ sale'[t].order = o /\ sale'[t].amount = sale[t].amount
            /\ sale'[t].counted = sale[t].counted /\ sale'[t].found = sale[t].found
            /\ sale'[t].todo = sale[t].todo \ {p}
        BY <1>0, <1>2, <2>4, Zenon DEF Sale
      <3>2. p \in sale[t].found => products[p].st = "gone"
        <4>1. p \in sale[t].found => products[p].st # "new"
          <5>1. \A c \in CartIds : RowKept(c)
            BY RowsKeptSplit
          <5>2. QED
            BY <1>3, <5>1, Zenon DEF ProductsOn, RowKept
        <4>2. products[p].st \in {"new", "live", "gone"}
          BY Zenon DEF TypeOK, ProductRow
        <4>3. QED
          BY <2>4, <4>1, <4>2, Zenon DEF IsLive
      <3>3. \A q \in Products : LineDone(t, q) => LineDone(t, q)'
        BY <1>2, <2>0, <3>1, Zenon DEF LineDone, Units
      <3>4. p \in sale[t].found => LineDone(t, p)
        BY <3>2, Zenon DEF LineDone
      <3>5. QED
        BY <1>3, <1>4, <2>0, <2>1, <2>2, <2>4, <3>1, <3>3, <3>4, Zenon
    <2>5. QED
      BY <1>5, <2>3, <2>4, Zenon DEF ValidateLine
  <1>6. CASE InsertLine(t)
    <2>0. PICK p \in Products :
             /\ p = sale[t].line
             /\ thread[t].pc = "insert" /\ IsLive(p) /\ UNCHANGED <<bills, carts, products>>
             /\ lines' = [lines EXCEPT ![o][p] = Line(t, p)]
             /\ sale' = [sale EXCEPT ![t].line = None] /\ Goto(t, "line")
      BY <1>2, <1>6, Zenon DEF InsertLine, At, IsLive
    <2>1. HasBill(o)' /\ bills'[o].amount = bills[o].amount
      BY <1>2, <2>0, Zenon DEF OwnsOrder, HasBill
    <2>2. /\ sale'[t].order = o /\ sale'[t].amount = sale[t].amount
          /\ sale'[t].counted = sale[t].counted /\ sale'[t].found = sale[t].found
          /\ sale'[t].todo = sale[t].todo
      BY <1>0, <1>2, <2>0, Zenon DEF Sale
    <2>3. thread'[t].h = thread[t].h /\ thread'[t].pc = "line"
      BY <1>0, <2>0, Zenon DEF Goto, ThreadState
    <2>4. \A q \in sale[t].found \ sale[t].todo : q = p \/ LineDone(t, q)
      BY <1>2, <2>0, Zenon DEF OwnsOrder
    <2>5. LineDone(t, p)'
      <3>1. lines'[o][p].quantity = Units(sale[t].counted, p)
        BY <1>0, <1>2, <2>0, Zenon DEF Line, IsLive
      <3>2. QED
        BY <2>0, <2>2, <3>1, Zenon DEF LineDone, Units
    <2>6. \A q \in Products \ {p} : LineDone(t, q) => LineDone(t, q)'
      <3>1. \A q \in Products \ {p} : lines'[o][q] = lines[o][q]
        BY <1>0, <1>2, <2>0, Zenon
      <3>2. QED
        BY <2>0, <2>2, <3>1 DEF LineDone, Units
    <2>7. \A q \in sale[t].found \ sale[t].todo : LineDone(t, q)'
      BY <1>3, <2>4, <2>5, <2>6, Zenon
    <2>8. QED
      BY <1>4, <2>1, <2>2, <2>3, <2>7, Zenon
  <1>7. CASE SweepCarts(t)
    <2>0. /\ thread[t].pc = "line" /\ thread[t].h = "checkout_momo" /\ sale[t].todo = {}
          /\ Goto(t, "redirect") /\ UNCHANGED <<sale, lines, products>>
          /\ bills' = [bills EXCEPT ![o].swept = TRUE]
      BY <1>2, <1>7, Zenon DEF SweepCarts, AllLines, At
    <2>1. HasBill(o) /\ bills'[o].st = bills[o].st /\ bills'[o].amount = bills[o].amount
      BY <1>0, <1>2, <2>0 DEF OwnsOrder, BillRow
    <2>2. thread'[t].h = thread[t].h /\ thread'[t].pc = "redirect"
      BY <1>0, <2>0 DEF Goto, ThreadState
    <2>3. \A q \in sale[t].found : LineDone(t, q)
      BY <1>2, <2>0, Zenon DEF OwnsOrder
    <2>4. ASSUME NEW q \in sale[t].found
          PROVE  LineDone(t, q)'
      <3>1. Cardinality({c \in sale[t].counted : carts'[c].product = q})
               = Units(sale[t].counted, q)
        BY <1>3, CountsStable, Zenon
      <3>2. QED
        BY <2>0, <2>3, <3>1, Zenon DEF LineDone, Units
    <2>5. HasBill(o)'
      BY <2>0, <2>1 DEF HasBill
    <2>6. QED
      BY <1>2, <1>4, <2>0, <2>1, <2>2, <2>4, <2>5, Zenon
  <1>8. QED
    BY <1>5, <1>6, <1>7

\* When checkout_momo redirects, the bill of its order is complete.
LEMMA RedirectComplete ==
  ASSUME TypeOK, OrdersOwned, NEW t \in Threads, Redirect(t)
  PROVE  \A o \in Orders : gateway'[o] = gateway[o] \/ BillComplete(o)'
  <1> USE DEF tables
  <1>0. /\ sale \in [Threads -> Sale] /\ gateway \in [Orders -> GatewayOrder]
        /\ thread[t].h = "checkout_momo" /\ thread[t].pc = "redirect"
        /\ UNCHANGED <<bills, lines, products>>
    BY Zenon DEF TypeOK, Redirect, At
  <1>1. PICK o \in Orders : o = sale[t].order /\ OwnsOrder(t)
    BY <1>0, Zenon DEF OrdersOwned, OrderOwned, At, Sale
  <1>2. gateway' = [gateway EXCEPT ![o].st = IF @ = "open" THEN "payable" ELSE @]
    BY <1>1, Zenon DEF Redirect
  <1>3. gateway'[o].amount = gateway[o].amount /\ gateway'[o].items = gateway[o].items
    BY <1>0, <1>1, <1>2, Zenon DEF GatewayOrder
  <1>4. /\ HasBill(o) /\ bills[o].amount = gateway[o].amount /\ gateway[o].items = ItemsOf(t)
        /\ \A p \in sale[t].found : LineDone(t, p)
    BY <1>0, <1>1, Zenon DEF OwnsOrder
  <1>5. \A p \in Products : gateway[o].items[p] > 0 =>
           \/ lines[o][p].quantity = gateway[o].items[p]
           \/ products[p].st = "gone"
    <2> SUFFICES ASSUME NEW p \in Products, gateway[o].items[p] > 0
                 PROVE  \/ lines[o][p].quantity = gateway[o].items[p]
                        \/ products[p].st = "gone"
      BY Zenon
    <2>1. gateway[o].items[p] = IF p \in sale[t].found THEN Units(sale[t].counted, p) ELSE 0
      BY <1>4, Zenon DEF ItemsOf
    <2>2. p \in sale[t].found
      BY <2>1
    <2>3. LineDone(t, p) /\ gateway[o].items[p] = Units(sale[t].counted, p)
      BY <1>4, <2>1, <2>2, Zenon
    <2>4. QED
      BY <1>1, <2>3, Zenon DEF LineDone
  <1>6. HasBill(o)' /\ bills'[o].amount = gateway'[o].amount
    BY <1>0, <1>3, <1>4, Zenon DEF HasBill
  <1>b. \A p \in Products : gateway'[o].items[p] > 0 =>
           \/ lines'[o][p].quantity = gateway'[o].items[p]
           \/ products'[p].st = "gone"
    BY <1>0, <1>3, <1>5, Zenon
  <1>7. BillComplete(o)'
    BY <1>6, <1>b, Zenon DEF BillComplete
  <1>8. \A q \in Orders \ {o} : gateway'[q] = gateway[q]
    BY <1>0, <1>2
  <1>9. QED
    BY <1>7, <1>8

\* The checkouts and the gateway keep every order owned, and every payable
\* order complete.
LEMMA CheckoutSafe ==
  ASSUME TypeOK, TypeOK', RowsStable, RowsKept, OrdersOwned, PayableBillComplete,
         CheckoutNext
  PROVE  OrdersOwned' /\ PayableBillComplete'
  <1> USE DEF tables, external
  <1>0. /\ thread \in [Threads -> ThreadState] /\ sale \in [Threads -> Sale]
        /\ gateway \in [Orders -> GatewayOrder]
        /\ \A x \in Threads : OrderOwned(x) /\ sale[x].order \in Orders \cup {None}
    BY Zenon DEF TypeOK, OrdersOwned, Sale
  <1>1. ASSUME NEW t \in Threads, CheckoutStep(t)
        PROVE  OrdersOwned' /\ PayableBillComplete'
    <2>1. OrderOwned(t)'
      <3>1. CASE EndSale(t)
        <4>1. sale'[t].order = None /\ thread'[t].h \notin checkouts
          BY <1>0, <3>1, Zenon DEF EndSale, Finish, NoSale, Idle, checkouts
        <4>2. QED
          BY <4>1, OwnsNothing, Zenon
      <3>2. CASE ~EndSale(t)
        <4>1. \/ Total(t) \/ CountCarts(t) \/ LoadProducts(t)
              \/ \E o \in Orders : CallGateway(t, o) \/ CreateBill(t, o)
              \/ (\E p \in Products : ValidateLine(t, p)) \/ InsertLine(t) \/ SweepCarts(t)
          BY <1>1, <3>2, Zenon DEF CheckoutStep, GatewayRefuses, Redirect
        <4>2. QED
          BY <1>1, <3>2, <4>1, CheckoutOwnedEarly, CheckoutOwnedLate, Zenon
      <3>3. QED
        BY <3>1, <3>2
    <2>2. OrdersOwned'
      BY <1>1, <2>1, CheckoutApart, Zenon DEF OrdersOwned
    <2>3. ASSUME NEW o \in Orders, gateway'[o].st \in {"payable", "paid"}
          PROVE  gateway[o].st \in {"payable", "paid"} \/ BillComplete(o)'
      <3>1. CASE Redirect(t)
        BY <2>3, <3>1, RedirectComplete
      <3>2. ASSUME NEW n \in Orders, CallGateway(t, n)
            PROVE  gateway'[o].st = gateway[o].st
        <4>1. gateway'[n].st = "open" /\ \A q \in Orders \ {n} : gateway'[q] = gateway[q]
          BY <1>0, <3>2, Zenon DEF CallGateway
        <4>2. QED
          BY <2>3, <4>1
      <3>3. CASE UNCHANGED gateway
        BY <2>3, <3>3
      <3>4. QED
        BY <1>1, <2>3, <3>1, <3>2, <3>3, ZenonT(40)
           DEF CheckoutStep, Total, CountCarts, LoadProducts, GatewayRefuses, CreateBill,
               ValidateLine, InsertLine, SweepCarts
    <2>4. QED
      BY <1>1, <2>2, <2>3, CheckoutApart, PayableStays, Zenon
  <1>2. ASSUME NEW t \in Threads, NEW u \in Users, NEW h \in checkouts, BeginCheckout(t, h, u)
        PROVE  OrdersOwned' /\ PayableBillComplete'
    <2>1. /\ UNCHANGED <<bills, lines, products, gateway>> /\ thread[t].h = "idle"
          /\ thread'[t].pc = "prices"
          /\ \A x \in Threads \ {t} : thread'[x] = thread[x] /\ sale'[x] = sale[x]
          /\ sale'[t].order = sale[t].order
      BY <1>0, <1>2, Zenon DEF BeginCheckout, Begin, Free, Sale
    <2>2. \A o \in Orders : OrderKept(o)
      BY <2>1, Zenon DEF OrderKept
    <2>3. sale[t].order = None
      BY <1>0, <2>1, ZenonT(40) DEF OrderOwned, OwnsOrder
    <2>4. OrderOwned(t)'
      BY <2>1, <2>3, OwnsNothing, Zenon
    <2>5. ASSUME NEW x \in Threads \ {t} PROVE OrderOwned(x)'
      <3>1. sale[x].order # None => \A y \in Threads \ {x} : sale'[y].order # sale[x].order
        BY <2>1, OrdersApart, ZenonT(30)
      <3>2. QED
        BY <1>0, <2>1, <2>2, <3>1, StillOwned, Zenon
    <2>6. PayableBillComplete'
      BY <2>1, <2>2, PayableStays, Zenon
    <2>7. QED
      BY <2>4, <2>5, <2>6 DEF OrdersOwned
  <1>3. ASSUME NEW o \in Orders, GatewayCollects(o) \/ GatewayGivesUp(o)
        PROVE  OrdersOwned' /\ PayableBillComplete'
    <2>1. UNCHANGED <<bills, lines, products, thread, sale>>
      BY <1>3 DEF GatewayCollects, GatewayGivesUp
    <2>2. \A q \in Orders :
             /\ gateway'[q].amount = gateway[q].amount /\ gateway'[q].items = gateway[q].items
             /\ \/ gateway'[q].st = gateway[q].st
                \/ gateway[q].st \in {"open", "payable"} /\ gateway'[q].st = "failed"
                \/ gateway[q].st = "payable" /\ gateway'[q].st = "paid"
      BY <1>0, <1>3 DEF GatewayCollects, GatewayGivesUp, GatewayOrder
    <2>3. \A q \in Orders : OrderKept(q)
      BY <2>1, <2>2, Zenon DEF OrderKept
    <2>4. ASSUME NEW x \in Threads PROVE OrderOwned(x)'
      <3>1. sale[x].order # None => \A y \in Threads \ {x} : sale'[y].order # sale[x].order
        BY <2>1, OrdersApart, Zenon
      <3>2. QED
        BY <1>0, <2>1, <2>3, <3>1, StillOwned, Zenon
    <2>5. PayableBillComplete'
      BY <2>2, <2>3, PayableStays, Zenon
    <2>6. QED
      BY <2>4, <2>5 DEF OrdersOwned
  <1>4. QED
    BY <1>1, <1>2, <1>3 DEF CheckoutNext

-----------------------------------------------------------------------------
(***************************************************************************)
(* Bills stay, and so do the references to them.                           *)
(***************************************************************************)
\* No handler deletes a bill.
LEMMA BillsStay ==
  ASSUME TypeOK, TypeOK', MarksRefer, [Next]_vars, NEW o \in Orders, HasBill(o)
  PROVE  HasBill(o)'
  <1> USE DEF tables, external
  <1>0. bills \in [Orders -> BillRow]
    BY Zenon DEF TypeOK
  <1>1. CASE CheckoutNext
    <2>1. ASSUME NEW t \in Threads, NEW n \in Orders, CreateBill(t, n)
          PROVE  HasBill(o)'
      BY <1>0, <2>1, Zenon DEF CreateBill, HasBill, NoBill
    <2>2. ASSUME NEW t \in Threads, SweepCarts(t)
          PROVE  HasBill(o)'
      BY <1>0, <2>2, Zenon DEF SweepCarts, HasBill, BillRow
    <2>3. CASE UNCHANGED bills
      BY <2>3 DEF HasBill
    <2>4. QED
      BY <1>1, <2>1, <2>2, <2>3, ZenonT(40)
         DEF CheckoutNext, CheckoutStep, BeginCheckout, Total, CountCarts, LoadProducts,
             CallGateway, GatewayRefuses, ValidateLine, InsertLine, Redirect,
             GatewayCollects, GatewayGivesUp
  <1>2. CASE OrderKept(o)
    BY <1>2, Zenon DEF OrderKept, HasBill
  <1>3. CASE UNCHANGED vars
    BY <1>3 DEF vars, HasBill
  <1>4. QED
    BY <1>1, <1>2, <1>3, OthersKeepOrders, Zenon DEF Next

\* A request that updates a bill still finds it.
LEMMA NextMarksRefer ==
  ASSUME TypeOK, TypeOK', MarksRefer, [Next]_vars
  PROVE  MarksRefer'
  <1>0. mark \in [Threads -> BillMark] /\ \A t \in Threads : mark[t].order \in Orders \cup {None}
    BY Zenon DEF TypeOK, BillMark
  <1>1. ASSUME NEW x \in Threads, mark'[x].order # None
        PROVE  HasBill(mark[x].order)'
    <2>0. PICK o \in Orders : o = mark'[x].order
      BY <1>1, Zenon DEF TypeOK, BillMark
    <2>1. CASE mark'[x] = mark[x]
      <3>1. HasBill(o)
        BY <1>1, <2>0, <2>1 DEF MarksRefer
      <3>2. HasBill(o)'
        BY <3>1, BillsStay
      <3>3. QED
        BY <2>0, <3>2 DEF HasBill
    <2>2. ASSUME NEW t \in Threads, NEW h, NEW n, NEW r, FindBill(t, h, n, r), mark'[x] # mark[x]
          PROVE  HasBill(mark[x].order)'
      <3>1. mark' = [mark EXCEPT ![t] = [order |-> n, result |-> r, seen |-> bills[n]]]
        BY <2>2 DEF FindBill
      <3>2. mark'[x].order = n /\ HasBill(n) /\ UNCHANGED bills
        BY <1>0, <2>2, <3>1 DEF FindBill, tables
      <3>3. QED
        BY <3>2 DEF HasBill
    <2>3. ASSUME NEW t \in Threads, BillsStep(t), mark'[x] # mark[x]
          PROVE  FALSE
      <3>1. mark' = [mark EXCEPT ![t] = NoMark]
        BY <2>3, Zenon DEF BillsStep, UpdatePaid, UpdateShipped, EndMark
      <3>2. mark'[x] = NoMark
        BY <1>0, <2>3, <3>1
      <3>3. QED
        BY <1>1, <3>2 DEF NoMark
    <2>4. CASE Crash
      BY <1>1, <2>4 DEF Crash, NoMark
    <2>5. QED
      BY <2>1, <2>2, <2>3, <2>4, Zenon DEF Next, BillsNext, vars
  <1>2. QED
    BY <1>1 DEF MarksRefer

\* A line keeps its bill and its product: the foreign keys see to the product.
LEMMA NextLinesRefer ==
  ASSUME TypeOK, TypeOK', RowsStable, OrdersOwned, MarksRefer, LinesRefer, [Next]_vars
  PROVE  LinesRefer'
  <1> USE DEF tables, external
  <1>0. /\ lines \in [Orders -> [Products -> LineRow]] /\ products \in [Products -> ProductRow]
        /\ sale \in [Threads -> Sale]
    BY Zenon DEF TypeOK
  <1>1. ASSUME \A o \in Orders, p \in Products : HasLine(o, p)' =>
                  HasLine(o, p) /\ (products[p].st = "live" => products'[p].st = "live")
        PROVE  LinesRefer'
    BY <1>1, BillsStay DEF LinesRefer
  <1>2. ASSUME NEW t \in Threads, InsertLine(t)
        PROVE  LinesRefer'
    <2>1. CASE UNCHANGED lines
      BY <1>1, <1>2, <2>1, Zenon DEF InsertLine, HasLine
    <2>2. CASE ~UNCHANGED lines
      <3>1. PICK p \in Products :
               /\ IsLive(p) /\ UNCHANGED <<products, bills>>
               /\ lines' = [lines EXCEPT ![sale[t].order][p] = Line(t, p)]
        BY <1>2, <2>2, Zenon DEF InsertLine, IsLive
      <3>2. sale[t].order # None /\ OwnsOrder(t) /\ thread[t].pc = "insert"
        BY <1>2, Zenon DEF InsertLine, OrdersOwned, OrderOwned, At
      <3>3. PICK o \in Orders : o = sale[t].order /\ HasBill(o)
        BY <1>0, <3>2, Zenon DEF OwnsOrder, Sale
      <3>4. \A n \in Orders, q \in Products :
               (n = o /\ q = p) \/ lines'[n][q] = lines[n][q]
        BY <1>0, <3>1, <3>3, Zenon
      <3>5. QED
        BY <3>1, <3>3, <3>4, Zenon DEF LinesRefer, HasLine, HasBill, IsLive
    <2>3. QED
      BY <2>1, <2>2
  <1>3. ASSUME NEW t \in Threads, DestroyProduct(t)
        PROVE  LinesRefer'
    <2>1. CASE UNCHANGED <<products, carts, lines>>
      BY <1>1, <2>1, Zenon DEF HasLine
    <2>2. CASE ForeignKeyHolds(t, edit[t].product)
      <3>1. /\ products' = [products EXCEPT ![edit[t].product].st = "gone"]
            /\ lines' = [o \in Orders |-> IF o \in edit[t].orders
                          THEN [lines[o] EXCEPT ![edit[t].product] = NoLine] ELSE lines[o]]
        BY <1>3, <2>2, Zenon DEF DestroyProduct
      <3>2. ASSUME NEW o \in Orders, NEW p \in Products, HasLine(o, p)'
            PROVE  HasLine(o, p) /\ p # edit[t].product
        <4>1. CASE p = edit[t].product
          <5>1. o \in edit[t].orders => lines'[o][p] = NoLine
            BY <1>0, <3>1, <4>1, Zenon
          <5>2. o \notin edit[t].orders => lines'[o][p] = lines[o][p] /\ ~HasLine(o, p)
            BY <1>0, <2>2, <3>1, <4>1, Zenon DEF ForeignKeyHolds
          <5>3. QED
            BY <3>2, <5>1, <5>2 DEF HasLine, NoLine
        <4>2. CASE p # edit[t].product
          <5>1. lines'[o][p] = lines[o][p]
            BY <1>0, <3>1, <4>2, Zenon
          <5>2. QED
            BY <3>2, <4>2, <5>1 DEF HasLine
        <4>3. QED
          BY <4>1, <4>2, Zenon
      <3>3. \A p \in Products : p # edit[t].product => products'[p] = products[p]
        BY <1>0, <3>1, Zenon
      <3>4. QED
        BY <1>1, <3>2, <3>3
    <2>3. QED
      BY <1>3, <2>1, <2>2, Zenon DEF DestroyProduct
  <1>4. ASSUME NEW p \in Products, NEW price, NEW q,
               CreateProduct(p, price, q) \/ UpdateProduct(p, price, q)
        PROVE  LinesRefer'
    <2>1. /\ UNCHANGED lines
          /\ \A r \in Products : products'[r].st = "live" \/ products'[r] = products[r]
      BY <1>0, <1>4 DEF CreateProduct, UpdateProduct, Live
    <2>2. QED
      BY <1>1, <2>1, Zenon DEF HasLine
  <1>5. CASE UNCHANGED <<lines, products>>
    BY <1>1, <1>5, Zenon DEF HasLine
  <1>6. CASE CartsNext
    BY <1>5, <1>6, ZenonT(40) DEF CartsNext, CartsStep, FindProduct, CountForCreate, CountForUpdate,
             CreateCart, ValidateCart, FirstCart, DestroyCart, RemoveCarts
  <1>7. CASE CheckoutNext
    <2>1. ASSUME NEW t \in Threads, CheckoutStep(t), ~InsertLine(t)
          PROVE  UNCHANGED <<lines, products>>
      BY <2>1, Zenon DEF CheckoutStep, Total, CountCarts, LoadProducts, CallGateway, GatewayRefuses,
             CreateBill, ValidateLine, SweepCarts, Redirect
    <2>2. ASSUME NEW t \in Threads, NEW h, NEW u, BeginCheckout(t, h, u)
          PROVE  UNCHANGED <<lines, products>>
      BY <2>2 DEF BeginCheckout
    <2>3. ASSUME NEW o \in Orders, GatewayCollects(o) \/ GatewayGivesUp(o)
          PROVE  UNCHANGED <<lines, products>>
      BY <2>3, Zenon DEF GatewayCollects, GatewayGivesUp
    <2>4. QED
      BY <1>2, <1>5, <1>7, <2>1, <2>2, <2>3 DEF CheckoutNext
  <1>8. CASE BillsNext
    BY <1>5, <1>8, Zenon DEF BillsNext, FindBill, BillsStep, UpdatePaid, UpdateShipped
  <1>9. CASE CatalogNext
    BY <1>3, <1>4, <1>5, <1>9, Zenon DEF CatalogNext, CatalogStep, FindForDestroy, LoadDependents
  <1>10. QED
    BY <1>5, <1>6, <1>7, <1>8, <1>9, Zenon DEF Next, Crash, vars

-----------------------------------------------------------------------------
(***************************************************************************)
(* MoMo and the bills know the same orders.                                *)
(***************************************************************************)
\* MoMo never forgets an order, and hears of none that has a bill already.
LEMMA GatewayRemembers ==
  ASSUME TypeOK, [Next]_vars, NEW o \in Orders
  PROVE  /\ gateway'[o].st = "unknown" => gateway[o].st = "unknown"
         /\ HasBill(o) /\ gateway[o].st = "unknown" => gateway'[o].st = "unknown"
  <1>0. gateway \in [Orders -> GatewayOrder]
    BY DEF TypeOK
  <1>1. CASE UNCHANGED external
    BY <1>1 DEF external
  <1>2. ASSUME NEW t \in Threads, NEW n \in Orders, CallGateway(t, n)
        PROVE  /\ gateway'[o].st = "unknown" => gateway[o].st = "unknown"
               /\ HasBill(o) => gateway'[o] = gateway[o]
    <2>1. ~HasBill(n)
      BY <1>2 DEF CallGateway, FreshOrder
    <2>2. o # n => gateway'[o] = gateway[o]
      BY <1>0, <1>2 DEF CallGateway
    <2>3. gateway'[n].st = "open"
      BY <1>0, <1>2 DEF CallGateway
    <2>4. QED
      BY <2>1, <2>2, <2>3
  <1>3. ASSUME NEW n \in Orders, NEW s, gateway' = [gateway EXCEPT ![n].st = s],
               gateway[n].st = "unknown" <=> s = "unknown"
        PROVE  gateway'[o].st = "unknown" <=> gateway[o].st = "unknown"
    BY <1>0, <1>3 DEF GatewayOrder
  <1>4. ASSUME NEW t \in Threads, Redirect(t)
        PROVE  gateway'[o].st = "unknown" <=> gateway[o].st = "unknown"
    BY <1>0, <1>4, Zenon DEF Redirect, GatewayOrder
  <1>5. ASSUME NEW n \in Orders, GatewayCollects(n) \/ GatewayGivesUp(n)
        PROVE  gateway'[o].st = "unknown" <=> gateway[o].st = "unknown"
    BY <1>3, <1>5, Zenon DEF GatewayCollects, GatewayGivesUp
  <1>6. QED
    BY <1>1, <1>2, <1>4, <1>5, GatewayWrites, Zenon

\* Only a checkout for cash makes a cash bill, of an order MoMo never saw.
LEMMA NextCashUnknown ==
  ASSUME TypeOK, OrdersKnown, [Next]_vars, NEW o \in Orders, bills'[o].st = "cash"
  PROVE  gateway'[o].st = "unknown"
  <1>0. bills \in [Orders -> BillRow]
    BY Zenon DEF TypeOK
  <1>1. CASE bills[o].st = "cash"
    <2>1. gateway[o].st = "unknown" /\ HasBill(o)
      BY <1>1, Zenon DEF OrdersKnown, HasBill
    <2>2. QED
      BY <2>1, GatewayRemembers
  <1>2. ASSUME NEW t \in Threads, NEW n \in Orders, CreateBill(t, n), bills[o].st # "cash"
        PROVE  gateway'[o].st = "unknown"
    <2>1. o # n => bills'[o] = bills[o]
      BY <1>0, <1>2, Zenon DEF CreateBill
    <2>2. o = n
      BY <1>2, <2>1
    <2>3. bills'[n].st = IF thread[t].h = "cash" THEN "cash" ELSE "unpaid"
      BY <1>0, <1>2, Zenon DEF CreateBill, NoBill
    <2>4. thread[t].h = "cash"
      BY <2>2, <2>3
    <2>5. gateway[n].st = "unknown" /\ UNCHANGED gateway
      BY <1>2, <2>4 DEF CreateBill, FreshOrder, external
    <2>6. QED
      BY <2>2, <2>5
  <1>3. ASSUME NEW t \in Threads, SweepCarts(t)
        PROVE  bills'[o].st = bills[o].st
    BY <1>0, <1>3, Zenon DEF SweepCarts, BillRow
  <1>4. ASSUME NEW t \in Threads, BillsStep(t)
        PROVE  bills'[o].st = "paid" \/ bills'[o].st = bills[o].st
    <2>1. bills'[o] \in {bills[o], Paid(t, bills[o]), Shipped(t, bills[o])}
      BY <1>0, <1>4, Zenon DEF BillsStep, UpdatePaid, UpdateShipped
    <2>2. bills[o] \in BillRow
      BY <1>0
    <2>3. /\ Paid(t, bills[o]).st \in {"paid", bills[o].st}
          /\ Shipped(t, bills[o]).st = bills[o].st
      BY <2>2 DEF Paid, Shipped, BillRow
    <2>4. QED
      BY <2>1, <2>3, Zenon
  <1>5. QED
    BY <1>1, <1>2, <1>3, <1>4, BillWrites

\* Only a bill that is there is marked as shipped.
LEMMA NextShipped ==
  ASSUME TypeOK, MarksRefer, [Next]_vars, NEW o \in Orders, bills'[o].shipped
  PROVE  bills[o].shipped \/ HasBill(o)
  <1>0. /\ bills \in [Orders -> BillRow] /\ \A n \in Orders : bills[n] \in BillRow
        /\ None \notin Orders
    BY ShopAssumption, Zenon DEF TypeOK
  <1>1. ASSUME NEW t \in Threads, NEW n \in Orders, CreateBill(t, n)
        PROVE  bills[o].shipped
    <2>1. o # n => bills'[o] = bills[o]
      BY <1>0, <1>1, Zenon DEF CreateBill
    <2>2. bills'[n].shipped = FALSE
      BY <1>0, <1>1, Zenon DEF CreateBill, NoBill
    <2>3. QED
      BY <2>1, <2>2, Zenon
  <1>2. ASSUME NEW t \in Threads, SweepCarts(t)
        PROVE  bills[o].shipped
    BY <1>0, <1>2, Zenon DEF SweepCarts, BillRow
  <1>3. ASSUME NEW t \in Threads, UpdatePaid(t)
        PROVE  bills[o].shipped
    <2>1. bills'[o] \in {bills[o], Paid(t, bills[o])}
      BY <1>0, <1>3, Zenon DEF UpdatePaid
    <2>2. Paid(t, bills[o]).shipped = bills[o].shipped
      BY <1>0 DEF Paid, BillRow
    <2>3. QED
      BY <2>1, <2>2
  <1>4. ASSUME NEW t \in Threads, UpdateShipped(t), bills'[o] # bills[o]
        PROVE  HasBill(o)
    <2>1. o = mark[t].order
      BY <1>0, <1>4, Zenon DEF UpdateShipped
    <2>2. QED
      BY <1>0, <2>1 DEF MarksRefer
  <1>5. QED
    BY <1>1, <1>2, <1>3, <1>4, BillWrites, Zenon DEF BillsStep

\* A thread that handles a notification has been handling it, or takes one.
LEMMA NotificationsTaken ==
  ASSUME TypeOK, [Next]_vars, NEW x \in Threads, thread'[x].h = "ipn"
  PROVE  \/ thread[x].h = "ipn" /\ mark'[x] = mark[x]
         \/ \E n \in notices : mark'[x].order = n.order /\ UNCHANGED gateway
  <1>0. thread \in [Threads -> ThreadState] /\ mark \in [Threads -> BillMark]
    BY Zenon DEF TypeOK
  <1>1. ASSUME NEW t \in Threads, NEW h, NEW u, NEW pc, Begin(t, h, u, pc), h # "ipn"
        PROVE  thread[x].h = "ipn" /\ x # t
    BY <1>0, <1>1 DEF Begin
  <1>2. ASSUME NEW t \in Threads, NEW pc, Goto(t, pc)
        PROVE  thread[x].h = "ipn"
    BY <1>0, <1>2 DEF Goto, ThreadState
  <1>3. ASSUME NEW t \in Threads, Finish(t)
        PROVE  thread[x].h = "ipn" /\ x # t
    BY <1>0, <1>3, Zenon DEF Finish, Idle
  <1>4. ASSUME CartsNext, UNCHANGED mark
        PROVE  thread[x].h = "ipn" /\ mark'[x] = mark[x]
    <2>1. ASSUME NEW t \in Threads, CartsStep(t)
          PROVE  Finish(t) \/ \E pc : Goto(t, pc)
      BY <2>1, Zenon DEF CartsStep, CountForCreate, CountForUpdate, CreateCart, ValidateCart,
             FirstCart, DestroyCart, EndItem
    <2>2. QED
      BY <1>1, <1>2, <1>3, <1>4, <2>1, ZenonT(40) DEF CartsNext, FindProduct, RemoveCarts
  <1>5. ASSUME CheckoutNext, UNCHANGED mark
        PROVE  thread[x].h = "ipn" /\ mark'[x] = mark[x]
    <2>1. ASSUME NEW t \in Threads, CheckoutStep(t)
          PROVE  Finish(t) \/ (\E pc : Goto(t, pc)) \/ UNCHANGED thread
      BY <2>1, Zenon DEF CheckoutStep, Total, CountCarts, LoadProducts, CallGateway, GatewayRefuses,
             CreateBill, ValidateLine, InsertLine, SweepCarts, Redirect, EndSale
    <2>2. ASSUME NEW t \in Threads, NEW u \in Users, NEW h \in checkouts, BeginCheckout(t, h, u)
          PROVE  thread[x].h = "ipn"
      BY <1>1, <2>2 DEF BeginCheckout, checkouts
    <2>3. QED
      BY <1>2, <1>3, <1>5, <2>1, <2>2, Zenon DEF CheckoutNext, GatewayCollects, GatewayGivesUp
  <1>6. ASSUME CatalogNext, UNCHANGED mark
        PROVE  thread[x].h = "ipn" /\ mark'[x] = mark[x]
    <2>1. ASSUME NEW t \in Threads, CatalogStep(t)
          PROVE  Finish(t) \/ \E pc : Goto(t, pc)
      BY <2>1, Zenon DEF CatalogStep, LoadDependents, DestroyProduct, EndEdit
    <2>2. QED
      BY <1>1, <1>2, <1>3, <1>6, <2>1
         DEF CatalogNext, FindForDestroy, CreateProduct, UpdateProduct
  <1>7. ASSUME BillsNext, UNCHANGED external
        PROVE  \/ thread[x].h = "ipn" /\ mark'[x] = mark[x]
               \/ \E n \in notices : mark'[x].order = n.order /\ UNCHANGED gateway
    <2>1. ASSUME NEW t \in Threads, NEW n \in notices, FindBill(t, "ipn", n.order, n.result)
          PROVE  \/ thread[x].h = "ipn" /\ mark'[x] = mark[x]
                 \/ mark'[x].order = n.order /\ UNCHANGED gateway
      BY <1>0, <1>7, <2>1, ZenonT(40) DEF FindBill, Begin, external
    <2>2. ASSUME NEW t \in Threads, NEW o \in Orders, FindBill(t, "ship", o, "none")
          PROVE  thread[x].h = "ipn" /\ mark'[x] = mark[x]
      <3>1. thread[x].h = "ipn" /\ x # t
        BY <1>1, <2>2, Zenon DEF FindBill
      <3>2. QED
        BY <1>0, <2>2, <3>1, Zenon DEF FindBill
    <2>3. ASSUME NEW t \in Threads, BillsStep(t)
          PROVE  thread[x].h = "ipn" /\ mark'[x] = mark[x]
      <3>1. Finish(t) /\ mark' = [mark EXCEPT ![t] = NoMark]
        BY <2>3, ZenonT(40) DEF BillsStep, UpdatePaid, UpdateShipped, EndMark
      <3>2. QED
        BY <1>0, <1>3, <3>1
    <2>4. QED
      BY <1>7, <2>1, <2>2, <2>3, Zenon DEF BillsNext
  <1>8. CASE Crash
    BY <1>8, ZenonT(40) DEF Crash, Idle
  <1>9. CASE UNCHANGED vars
    BY <1>9, ZenonT(40) DEF vars
  <1>10. QED
    BY <1>4, <1>5, <1>6, <1>7, <1>8, <1>9, Zenon DEF Next

\* Cash orders stay unknown to MoMo, and what it tells is about its own orders.
LEMMA NextOrdersKnown ==
  ASSUME TypeOK, TypeOK', MarksRefer, OrdersKnown, [Next]_vars
  PROVE  OrdersKnown'
  <1>1. \A o \in Orders : bills'[o].st = "cash" => gateway'[o].st = "unknown"
    BY NextCashUnknown
  <1>2. ASSUME NEW n \in notices'
        PROVE  gateway'[n.order].st # "unknown"
    <2>1. CASE n \in notices
      <3>1. n.order \in Orders /\ gateway[n.order].st # "unknown"
        BY <2>1, Zenon DEF TypeOK, Notice, OrdersKnown
      <3>2. QED
        BY <3>1, GatewayRemembers
    <2>2. ASSUME NEW o \in Orders, GatewayCollects(o) \/ GatewayGivesUp(o), n \notin notices
          PROVE  gateway'[n.order].st # "unknown"
      <3>1. n.order = o
        BY <1>2, <2>2 DEF GatewayCollects, GatewayGivesUp
      <3>2. gateway[o].st # "unknown"
        BY <2>2 DEF GatewayCollects, GatewayGivesUp
      <3>3. QED
        BY <3>1, <3>2, GatewayRemembers, Zenon
    <2>3. CASE UNCHANGED notices
      BY <1>2, <2>1, <2>3
    <2>4. QED
      BY <2>1, <2>2, <2>3, GatewayWrites, Zenon DEF CallGateway, Redirect, external
  <1>3. ASSUME NEW t \in Threads, thread'[t].h = "ipn"
        PROVE  mark'[t].order \in Orders /\ gateway'[mark'[t].order].st # "unknown"
    <2>1. CASE thread[t].h = "ipn" /\ mark'[t] = mark[t]
      <3>1. mark[t].order \in Orders /\ gateway[mark[t].order].st # "unknown"
        BY <2>1, Zenon DEF OrdersKnown
      <3>2. QED
        BY <2>1, <3>1, GatewayRemembers, ZenonT(40)
    <2>2. ASSUME NEW n \in notices, mark'[t].order = n.order, UNCHANGED gateway
          PROVE  mark'[t].order \in Orders /\ gateway'[mark'[t].order].st # "unknown"
      BY <2>2, Zenon DEF TypeOK, Notice, OrdersKnown
    <2>3. QED
      BY <1>3, <2>1, <2>2, NotificationsTaken, ZenonT(40)
  <1>4. ASSUME NEW o \in Orders, bills'[o].shipped
        PROVE  HasBill(o)'
    <2>1. bills[o].shipped \/ HasBill(o)
      BY <1>4, NextShipped
    <2>2. HasBill(o)
      BY <2>1, Zenon DEF OrdersKnown
    <2>3. QED
      BY <2>2, BillsStay
  <1>5. QED
    BY <1>1, <1>2, <1>3, <1>4, ZenonT(40) DEF OrdersKnown

-----------------------------------------------------------------------------
\* With empty tables and no request in flight there is nothing to keep.
LEMMA InitSafety == Init => SafetyInv
  <1> SUFFICES ASSUME Init PROVE SafetyInv
    OBVIOUS
  <1>0. TypeOK
    BY InitType
  <1> USE DEF Init, CartsInit, CheckoutInit, BillsInit, CatalogInit
  <1>1. RowsKept
    <2>1. \A c \in CartIds : RowKept(c)
      BY Zenon DEF RowKept, NoCart
    <2>2. \A t \in Threads : ItemKept(t)
      <3>1. \A t \in Threads : item[t].victim = 0 /\ thread[t].h = "idle"
        BY Zenon DEF NoItem, Idle
      <3>2. 0 \notin CartIds
        BY DEF CartIds
      <3> HIDE DEF Init
      <3>3. QED
        BY <3>1, <3>2, Zenon DEF ItemKept
    <2>3. \A t \in Threads : EditKept(t)
      BY Zenon DEF EditKept, NoEdit
    <2>4. \A t \in Threads : SaleKept(t)
      BY ZenonT(40) DEF SaleKept, NoSale
    <2> HIDE DEF Init
    <2>5. QED
      BY <2>1, <2>2, <2>3, <2>4, RowsKeptSplit
  <1>2. OrdersOwned
    BY ZenonT(40) DEF OrdersOwned, OrderOwned, At, NoSale, Idle, checkouts
  <1>3. MarksRefer
    BY Zenon DEF MarksRefer, NoMark
  <1>4. PayableBillComplete
    BY Zenon DEF PayableBillComplete, NoOrder
  <1>5. LinesRefer
    BY DEF LinesRefer, HasLine, NoLine
  <1>6. OrdersKnown
    BY Zenon DEF OrdersKnown, HasBill, NoBill, Idle
  <1>7. QED
    BY <1>0, <1>1, <1>2, <1>3, <1>4, <1>5, <1>6, Zenon DEF SafetyInv

\* SafetyInv is inductive.
LEMMA NextSafety ==
  ASSUME RowsCount, SafetyInv, [Next]_vars
  PROVE  SafetyInv'
  <1>t. TypeOK /\ TypeOK'
    BY NextType DEF SafetyInv
  <1> USE <1>t
  <1>0. /\ RowsKept /\ OrdersOwned /\ MarksRefer /\ PayableBillComplete /\ LinesRefer
        /\ OrdersKnown /\ RowsStable
    BY StepRowsStable DEF SafetyInv
  <1>1. RowsKept' /\ MarksRefer' /\ LinesRefer' /\ OrdersKnown'
    BY <1>0, NextRowsKept, NextMarksRefer, NextLinesRefer, NextOrdersKnown, Zenon
  <1>2. OrdersOwned' /\ PayableBillComplete'
    <2>1. ASSUME \/ CartsNext /\ UNCHANGED <<sale, external>>
                 \/ BillsNext /\ UNCHANGED <<sale, external>>
                 \/ CatalogNext /\ UNCHANGED <<sale, external>>
          PROVE  OrdersOwned' /\ PayableBillComplete'
      <3>1. \A o \in Orders : OrderKept(o)
        BY <1>0, <2>1, OthersKeepOrders
      <3>2. UNCHANGED gateway
        BY <2>1 DEF external
      <3>3. QED
        BY <1>0, <2>1, <3>1, <3>2, OthersOwned, PayableStays, ZenonT(40)
    <2>2. CASE CheckoutNext
      BY <1>0, <2>2, CheckoutSafe
    <2>3. CASE Crash
      <3>1. \A o \in Orders : OrderKept(o)
        BY <1>0, <2>3, OthersKeepOrders
      <3>2. UNCHANGED gateway
        BY <2>3 DEF Crash, external
      <3>3. \A t \in Threads : OrderOwned(t)'
        <4>1. \A t \in Threads : sale'[t].order = None /\ thread'[t].h \notin checkouts
          BY <2>3, Zenon DEF Crash, NoSale, Idle, checkouts
        <4>2. QED
          BY <4>1, OwnsNothing, Zenon
      <3>4. QED
        BY <1>0, <3>1, <3>2, <3>3, PayableStays, Zenon DEF OrdersOwned
    <2>4. CASE UNCHANGED vars
      <3>1. UNCHANGED <<products, carts, bills, lines, thread, sale, gateway>>
        BY <2>4 DEF vars, tables, external
      <3>2. OrdersOwned'
        <4>1. \A o \in Orders : OrderKept(o)
          BY <3>1, ZenonT(40) DEF OrderKept
        <4>2. ASSUME NEW x \in Threads PROVE OrderOwned(x)'
          <5>1. OrderOwned(x) /\ sale[x].order \in Orders \cup {None}
            BY <1>0, Zenon DEF OrdersOwned, TypeOK, Sale
          <5>2. sale[x].order # None => \A y \in Threads \ {x} : sale'[y].order # sale[x].order
            BY <1>0, <3>1, OrdersApart, Zenon
          <5>3. QED
            BY <1>0, <3>1, <4>1, <5>1, <5>2, StillOwned, ZenonT(40)
        <4>3. QED
          BY <4>2 DEF OrdersOwned
      <3>3. PayableBillComplete'
        BY <1>0, <3>1, Zenon DEF PayableBillComplete, BillComplete, HasBill
      <3>4. QED
        BY <3>2, <3>3
    <2>5. QED
      BY <2>1, <2>2, <2>3, <2>4, Zenon DEF Next
  <1>3. QED
    BY <1>1, <1>2 DEF SafetyInv
=============================================================================
