--------------------------- MODULE StoreTheorems ----------------------------
(***************************************************************************)
(* The theorems about Store, for any customers, products, orders, threads  *)
(* and bounds: type correctness, SafetyInv and what follows from it, what  *)
(* one tab and one thread promise, and that the shop implements            *)
(* BillLedger.                                                             *)
(***************************************************************************)
EXTENDS StoreSafety, StoreTabs, FiniteSetTheorems

-----------------------------------------------------------------------------
(***************************************************************************)
(* Counting.                                                               *)
(***************************************************************************)

\* Cart ids are a finite interval, so every set of rows can be counted.
LEMMA RowsCounted == RowsCount
  <1>1. IsFiniteSet(CartIds)
    BY FS_Interval, ShopAssumption DEF CartIds
  <1>2. ASSUME NEW S \in SUBSET CartIds
        PROVE  IsFiniteSet(S) /\ Cardinality(S) \in Nat
    BY <1>1, FS_Subset, FS_CardinalityType
  <1>3. ASSUME NEW S \in SUBSET CartIds, NEW R \in SUBSET S
        PROVE  Cardinality(R) <= Cardinality(S)
    BY <1>2, FS_Subset
  <1>4. ASSUME NEW S \in SUBSET CartIds, NEW c \in CartIds \ S
        PROVE  Cardinality(S \cup {c}) = Cardinality(S) + 1
    BY <1>2, FS_AddElement
  <1>5. Cardinality({}) = 0
    BY FS_EmptySet
  <1>6. QED
    BY <1>2, <1>3, <1>4, <1>5 DEF RowsCount

-----------------------------------------------------------------------------
(***************************************************************************)
(* The invariants.                                                         *)
(***************************************************************************)

(***************************************************************************)
(* Every table and every request's locals keep their types for ever: in    *)
(* particular a checkout never takes a negative count or a price of        *)
(* nothing into a bill.                                                    *)
(***************************************************************************)
THEOREM StoreTypeCorrect == Spec => []TypeOK
  <1>1. TypeOK /\ [Next]_vars => TypeOK'
    BY NextType, RowsCounted
  <1>2. QED
    BY <1>1, InitType, PTL DEF Spec

(***************************************************************************)
(* In every behaviour of the shop, whatever its sizes, each checkout owns  *)
(* its order from the gateway call to the redirect, and what it has        *)
(* written so far agrees with what it told the gateway (GetPaymentUrl-     *)
(* Service, CartsController#cash).                                         *)
(***************************************************************************)
THEOREM StoreSafe == Spec => []SafetyInv
  <1>1. SafetyInv /\ [Next]_vars => SafetyInv'
    BY NextSafety, RowsCounted
  <1>2. QED
    BY <1>1, InitSafety, PTL DEF Spec

(***************************************************************************)
(* Hence an order a customer can pay or has paid always has its bill, for  *)
(* the amount MoMo charges, with a line for every item sent to MoMo whose  *)
(* product was not destroyed (checkout_momo redirects last).               *)
(***************************************************************************)
THEOREM PayableOrdersBilled == Spec => []PayableBillComplete
  <1>1. SafetyInv => PayableBillComplete
    BY DEF SafetyInv
  <1>2. QED
    BY <1>1, StoreSafe, PTL

(***************************************************************************)
(* Hence no line outlives its product or comes without its bill, however   *)
(* ProductsController#destroy interleaves with the checkouts.              *)
(***************************************************************************)
THEOREM LinesAlwaysRefer == Spec => []LinesRefer
  <1>1. SafetyInv => LinesRefer
    BY DEF SafetyInv
  <1>2. QED
    BY <1>1, StoreSafe, PTL

\* The invariant holds throughout.
LEMMA TabsKept == Spec => []TabInv
  <1>1. Init => TabInv
    BY InitTab
  <1>2. SafetyInv /\ SafetyInv' /\ TabInv /\ [Next]_vars => TabInv'
    BY NextTab, RowsCounted
  <1>3. Spec => []SafetyInv
    BY StoreSafe
  <1>4. QED
    BY <1>1, <1>2, <1>3, PTL DEF Spec

(***************************************************************************)
(* When a customer waits for each page, cash and checkout_momo sweep out   *)
(* of the cart only what data_cart counted, and so only what the bill      *)
(* charges: whatever the customers, products and threads, and whatever     *)
(* staff, MoMo and restarts do in between.                                 *)
(***************************************************************************)
THEOREM CheckoutSweepsCounted == Spec => []SweepsOnlyCounted
  <1>1. TabInv => SweepsOnlyCounted
    BY ZenonT(40) DEF TabInv, SweepsOnlyCounted, CountsAll, At, beforeSweep
  <1>2. QED
    BY <1>1, TabsKept, PTL

(***************************************************************************)
(* When a customer waits for each page, no unit of a cart is on two bills  *)
(* whose checkouts ran to the end (CartsController#cash,                   *)
(* GetPaymentUrlService).                                                  *)
(***************************************************************************)
THEOREM UnitsBilledOnce == Spec => []BilledOnce
  <1>1. TabInv => BilledOnce
    BY DEF TabInv
  <1>2. QED
    BY <1>1, TabsKept, PTL

(***************************************************************************)
(* When a customer waits for each page, what create and update_quantity    *)
(* are about to insert fits, with what is in the cart, into the stock the  *)
(* request read.                                                           *)
(***************************************************************************)
THEOREM AddsStayWithinStock == Spec => []AddsWithinStock
  <1>1. TabInv => AddsWithinStock
    BY DEF TabInv
  <1>2. QED
    BY <1>1, TabsKept, PTL

\* The invariant holds throughout.
LEMMA ThreadKept == Spec => []ThreadInv
  <1>1. Init => ThreadInv
    BY InitThread
  <1>2. SafetyInv /\ ThreadInv /\ [Next]_vars => ThreadInv'
    BY NextThread, RowsCounted
  <1>3. Spec => []SafetyInv
    BY StoreSafe
  <1>4. QED
    BY <1>1, <1>2, <1>3, PTL DEF Spec

(***************************************************************************)
(* With one thread, the total of a bill whose checkout ran to the end is   *)
(* the sum of its lines, product by product, but for products destroyed    *)
(* since: total reads the prices in one query and the lines use another,   *)
(* or the cached answer of the first (CartsController#total, #cash,        *)
(* GetPaymentUrlService).                                                  *)
(***************************************************************************)
THEOREM BillsAddUp == Spec => []AmountIsLines
  <1>1. ThreadInv => AmountIsLines
    BY DEF ThreadInv
  <1>2. QED
    BY <1>1, ThreadKept, PTL

(***************************************************************************)
(* With one thread, no active row of a cart is left without its product:   *)
(* the destroy of a product takes the rows with it, and no request that    *)
(* adds a row overlaps the destroy (ProductsController#destroy,            *)
(* CartsController#create and #update_quantity).                           *)
(***************************************************************************)
THEOREM CartsKeepProducts == Spec => []ActiveCartHasProduct
  <1>1. ThreadInv => ActiveCartHasProduct
    BY DEF ThreadInv
  <1>2. QED
    BY <1>1, ThreadKept, PTL

-----------------------------------------------------------------------------
(***************************************************************************)
(* Store implements BillLedger, for any customers, products, orders,       *)
(* threads and bounds: the tables start as an empty ledger, and every      *)
(* statement of every request is a step of the ledger or leaves it alone.  *)
(***************************************************************************)
\* The columns of the ledger, as the refinement mapping reads them.
LStatus == [o \in Orders |-> bills[o].st]

LDue == [o \in Orders |-> bills[o].amount]

LTaken == {<<o, gateway[o].amount>> : o \in {x \in Orders : gateway[x].st = "paid"}}

LShipped == {o \in Orders : bills[o].shipped}

\* The bill of o says what it said, as far as the ledger goes.
BillSame(o) ==
    bills'[o].st = bills[o].st /\ bills'[o].amount = bills[o].amount
        /\ bills'[o].shipped = bills[o].shipped

\* MoMo has collected for o if and only if it had.
CollectedSame(o) ==
    /\ gateway'[o].st = "paid" <=> gateway[o].st = "paid"
    /\ gateway[o].st = "paid" => gateway'[o].amount = gateway[o].amount

-----------------------------------------------------------------------------
\* Equal bills make equal columns; collected orders make what was taken.
LEMMA SameBills ==
  ASSUME TypeOK, TypeOK', \A o \in Orders : BillSame(o)
  PROVE  UNCHANGED <<LStatus, LDue, LShipped>>
  <1>1. bills \in [Orders -> BillRow] /\ bills' \in [Orders -> BillRow]
    BY DEF TypeOK
  <1>2. UNCHANGED LStatus /\ UNCHANGED LDue
    BY DEF LStatus, LDue, BillSame
  <1>3. UNCHANGED LShipped
    BY DEF LShipped, BillSame
  <1>4. QED
    BY <1>2, <1>3

\* Where no collected payment changes, neither does what the ledger took.
LEMMA SameTaken ==
  ASSUME \A o \in Orders : CollectedSame(o)
  PROVE  UNCHANGED LTaken
  BY DEF LTaken, CollectedSame

\* A step that leaves every bill and payment alone is no step of the ledger.
LEMMA Stutters ==
  ASSUME TypeOK, TypeOK', \A o \in Orders : BillSame(o) /\ CollectedSame(o)
  PROVE  UNCHANGED Ledger!vars
  <1>1. UNCHANGED <<LStatus, LDue, LShipped, LTaken>>
    BY SameBills, SameTaken
  <1>2. QED
    BY <1>1, Zenon DEF Ledger!vars, LStatus, LDue, LShipped, LTaken

\* While MoMo does nothing, what it collected stays.
LEMMA ExternalSame ==
  ASSUME UNCHANGED external
  PROVE  \A o \in Orders : CollectedSame(o)
  BY DEF external, CollectedSame

-----------------------------------------------------------------------------
(***************************************************************************)
(* The statements that write a bill.                                       *)
(***************************************************************************)
\* Bill.create opens the bill of an order that has none.
LEMMA CreateOpens ==
  ASSUME TypeOK, TypeOK', OrdersOwned, OrdersKnown,
         NEW t \in Threads, NEW n \in Orders, CreateBill(t, n)
  PROVE  Ledger!Open(n)
  <1>0. /\ bills \in [Orders -> BillRow] /\ bills' \in [Orders -> BillRow]
        /\ \A o \in Orders : bills'[o].amount \in Breakdown
    BY Zenon DEF TypeOK, BillRow
  <1>1. LStatus[n] = "none"
    <2>1. CASE thread[t].h = "cash"
      BY <2>1 DEF CreateBill, FreshOrder, HasBill, LStatus
    <2>2. CASE thread[t].h # "cash"
      <3>1. n = sale[t].order /\ At(t, {"checkout_momo"}, "bill")
        BY <2>2 DEF CreateBill, At, checkouts
      <3>2. OwnsOrder(t)
        BY <3>1 DEF OrdersOwned, OrderOwned
      <3>3. QED
        BY <3>1, <3>2, Zenon DEF OwnsOrder, At, HasBill, LStatus
    <2>3. QED
      BY <2>1, <2>2
  <1>2. /\ \A o \in Orders \ {n} : bills'[o] = bills[o]
        /\ bills'[n].st \in {"unpaid", "cash"} /\ bills'[n].shipped = FALSE
    BY <1>0, Zenon DEF CreateBill, NoBill
  <1>3. LStatus' = [LStatus EXCEPT ![n] = bills'[n].st]
    BY <1>2, Zenon DEF LStatus
  <1>4. LDue' = [LDue EXCEPT ![n] = bills'[n].amount] /\ LDue'[n] = bills'[n].amount
    BY <1>2, Zenon DEF LDue
  <1>5. LShipped' = LShipped
    <2>1. ~bills[n].shipped
      BY <1>1 DEF OrdersKnown, HasBill, LStatus
    <2>2. QED
      BY <1>0, <1>2, <2>1 DEF LShipped
  <1>6. UNCHANGED LTaken
    BY ExternalSame, SameTaken DEF CreateBill
  <1>7. QED
    BY <1>0, <1>1, <1>2, <1>3, <1>4, <1>5, <1>6, ZenonT(40)
       DEF Ledger!Open, LStatus, LDue, LTaken, LShipped

\* The sweep of the cart writes a column the ledger does not have.
LEMMA SweepStutters ==
  ASSUME TypeOK, NEW t \in Threads, SweepCarts(t), NEW o \in Orders
  PROVE  BillSame(o)
  <1>0. bills \in [Orders -> BillRow]
    BY DEF TypeOK
  <1>1. QED
    BY <1>0, ZenonT(30) DEF SweepCarts, BillSame, BillRow

\* A notification settles an unpaid bill, and changes nothing of a paid one.
LEMMA PaidSettles ==
  ASSUME TypeOK, TypeOK', MarksRefer, OrdersKnown, NEW t \in Threads, UpdatePaid(t),
         UNCHANGED external
  PROVE  (\E o \in Orders : Ledger!Settle(o)) \/ UNCHANGED Ledger!vars
  <1>0. /\ bills \in [Orders -> BillRow] /\ \A o \in Orders : bills[o] \in BillRow
        /\ \A o \in Orders : CollectedSame(o)
    BY ExternalSame DEF TypeOK
  <1>1. PICK n \in Orders : n = mark[t].order /\ bills[n].st \in {"unpaid", "paid"}
    <2>1. thread[t].h = "ipn"
      BY DEF UpdatePaid, At
    <2>2. mark[t].order \in Orders /\ gateway[mark[t].order].st # "unknown"
      BY <2>1, Zenon DEF OrdersKnown
    <2>3. bills[mark[t].order].st \notin {"none", "cash"}
      BY <2>2, ShopAssumption, Zenon DEF OrdersKnown, MarksRefer, HasBill
    <2>4. QED
      BY <1>0, <2>2, <2>3, ZenonT(30) DEF BillRow
  <1>2. bills' = [bills EXCEPT ![n] = Paid(t, bills[n])]
    BY <1>1, Zenon DEF UpdatePaid
  <1>3. /\ \A o \in Orders \ {n} : bills'[o] = bills[o]
        /\ bills'[n].amount = bills[n].amount /\ bills'[n].shipped = bills[n].shipped
        /\ bills'[n].st \in {"paid", bills[n].st}
    BY <1>0, <1>1, <1>2 DEF Paid, BillRow
  <1>4. CASE bills'[n].st = bills[n].st
    <2>1. \A o \in Orders : BillSame(o)
      BY <1>3, <1>4, Zenon DEF BillSame
    <2>2. QED
      BY <1>0, <2>1, Stutters
  <1>5. CASE bills'[n].st # bills[n].st
    <2>1. bills[n].st = "unpaid" /\ bills'[n].st = "paid"
      BY <1>1, <1>3, <1>5, Zenon
    <2>2. LStatus' = [LStatus EXCEPT ![n] = "paid"] /\ LStatus[n] = "unpaid"
      BY <1>1, <1>3, <2>1, Zenon DEF LStatus
    <2>3. UNCHANGED LDue
      BY <1>3 DEF LDue
    <2>4. UNCHANGED LShipped
      BY <1>3 DEF LShipped
    <2>5. UNCHANGED LTaken
      BY <1>0, SameTaken
    <2>6. Ledger!Settle(n)
      BY <2>2, <2>3, <2>4, <2>5, ZenonT(30) DEF Ledger!Settle, LStatus, LDue, LTaken, LShipped
    <2>7. QED
      BY <1>1, <2>6, Zenon
  <1>6. QED
    BY <1>4, <1>5

\* Staff ship a bill that exists; a second shipment changes nothing.
LEMMA ShippedShips ==
  ASSUME TypeOK, TypeOK', MarksRefer, NEW t \in Threads, UpdateShipped(t), UNCHANGED external
  PROVE  (\E o \in Orders : Ledger!Ship(o)) \/ UNCHANGED Ledger!vars
  <1>0. /\ bills \in [Orders -> BillRow] /\ \A o \in Orders : bills[o] \in BillRow
        /\ \A o \in Orders : CollectedSame(o)
    BY ExternalSame DEF TypeOK
  <1>n. PICK n \in Orders \cup {None} : n = mark[t].order
    BY DEF TypeOK, BillMark
  <1>1. bills' = [bills EXCEPT ![n] = Shipped(t, bills[n])]
    BY <1>n DEF UpdateShipped
  <1>2. \A o \in Orders \ {n} : bills'[o] = bills[o]
    BY <1>0, <1>1
  <1>3. n \in Orders => /\ bills'[n].amount = bills[n].amount /\ bills'[n].st = bills[n].st
                        /\ bills'[n].shipped \in {TRUE, bills[n].shipped}
    BY <1>0, <1>1 DEF Shipped, BillRow
  <1>4. CASE n \notin Orders \/ bills'[n].shipped = bills[n].shipped
    <2>1. \A o \in Orders : BillSame(o)
      BY <1>2, <1>3, <1>4, Zenon DEF BillSame
    <2>2. QED
      BY <1>0, <2>1, Stutters
  <1>5. CASE n \in Orders /\ bills'[n].shipped # bills[n].shipped
    <2>1. bills'[n].shipped = TRUE
      BY <1>3, <1>5, ZenonT(40)
    <2>2. LShipped' = LShipped \cup {n}
      BY <1>2, <1>5, <2>1 DEF LShipped
    <2>3. UNCHANGED LStatus /\ UNCHANGED LDue
      BY <1>2, <1>3, <1>5 DEF LStatus, LDue
    <2>4. LStatus[n] # "none"
      BY <1>n, <1>5, ShopAssumption, ZenonT(30) DEF LStatus, MarksRefer, HasBill
    <2>5. UNCHANGED LTaken
      BY <1>0, SameTaken
    <2>6. Ledger!Ship(n)
      BY <2>2, <2>3, <2>4, <2>5, ZenonT(30) DEF Ledger!Ship, LStatus, LDue, LTaken, LShipped
    <2>7. QED
      BY <1>5, <2>6
  <1>6. QED
    BY <1>4, <1>5

-----------------------------------------------------------------------------
(***************************************************************************)
(* What MoMo does.                                                         *)
(***************************************************************************)
\* Until it collects, MoMo's view of an order is not in the ledger.
LEMMA GatewayStutters ==
  ASSUME TypeOK, NEW o \in Orders,
         \/ \E t \in Threads : (\E n \in Orders : CallGateway(t, n)) \/ Redirect(t)
         \/ \E n \in Orders : GatewayGivesUp(n)
  PROVE  CollectedSame(o)
  <1>0. gateway \in [Orders -> GatewayOrder]
    BY DEF TypeOK
  <1>1. ASSUME NEW t \in Threads, NEW n \in Orders, CallGateway(t, n)
        PROVE  CollectedSame(o)
    <2>1. gateway[n].st = "unknown" /\ gateway'[n].st = "open"
      BY <1>0, <1>1, ZenonT(30) DEF CallGateway, FreshOrder
    <2>2. o # n => gateway'[o] = gateway[o]
      BY <1>0, <1>1, ZenonT(30) DEF CallGateway
    <2>3. QED
      BY <2>1, <2>2 DEF CollectedSame
  <1>2. ASSUME NEW t \in Threads, Redirect(t)
        PROVE  CollectedSame(o)
    BY <1>0, <1>2, ZenonT(30) DEF Redirect, GatewayOrder, CollectedSame
  <1>3. ASSUME NEW n \in Orders, GatewayGivesUp(n)
        PROVE  CollectedSame(o)
    BY <1>0, <1>3 DEF GatewayGivesUp, GatewayOrder, CollectedSame
  <1>4. QED
    BY <1>1, <1>2, <1>3

\* MoMo collects what the bill says: a payable order has one, and not for cash.
LEMMA CollectsDue ==
  ASSUME TypeOK, OrdersKnown, PayableBillComplete, NEW n \in Orders, GatewayCollects(n)
  PROVE  Ledger!Collect(n)
  <1>0. /\ gateway \in [Orders -> GatewayOrder]
        /\ UNCHANGED bills
        /\ gateway' = [gateway EXCEPT ![n].st = "paid"] /\ gateway[n].st = "payable"
        /\ bills[n] \in BillRow
    BY DEF TypeOK, GatewayCollects, tables
  <1>1. bills[n].st \in {"unpaid", "paid"} /\ bills[n].amount = gateway[n].amount
    <2>1. BillComplete(n)
      BY <1>0 DEF PayableBillComplete
    <2>2. QED
      BY <1>0, <2>1, Zenon DEF BillComplete, HasBill, OrdersKnown, BillRow
  <1>2. /\ \A o \in Orders \ {n} : gateway'[o] = gateway[o]
        /\ gateway'[n].st = "paid" /\ gateway'[n].amount = gateway[n].amount
    BY <1>0 DEF GatewayOrder
  <1>3. LTaken' = LTaken \cup {<<n, gateway[n].amount>>}
    BY <1>0, <1>2 DEF LTaken
  <1>4. LDue[n] = gateway[n].amount /\ LStatus[n] \in {"unpaid", "paid"}
    BY <1>1 DEF LDue, LStatus
  <1>5. UNCHANGED <<LStatus, LDue, LShipped>>
    BY <1>0 DEF LStatus, LDue, LShipped
  <1>6. QED
    BY <1>3, <1>4, <1>5, ZenonT(30) DEF Ledger!Collect, LStatus, LDue, LTaken, LShipped

-----------------------------------------------------------------------------
\* The tables start as an empty ledger.
LEMMA InitLedger == Init => Ledger!Init
  BY DEF Init, CheckoutInit, NoBill, NoOrder, Ledger!Init

\* Every step of the shop is a step of the ledger, or leaves it alone.
LEMMA NextLedger ==
  ASSUME SafetyInv, SafetyInv', [Next]_vars
  PROVE  [Ledger!Next]_(Ledger!vars)
  <1>0. /\ TypeOK /\ TypeOK' /\ OrdersOwned /\ MarksRefer /\ OrdersKnown
        /\ PayableBillComplete
    BY DEF SafetyInv
  <1>1. CASE UNCHANGED bills /\ UNCHANGED external
    <2>1. \A o \in Orders : BillSame(o) /\ CollectedSame(o)
      BY <1>1, ExternalSame DEF BillSame
    <2>2. QED
      BY <1>0, <2>1, Stutters
  <1>2. ASSUME UNCHANGED external, NEW t \in Threads,
               (\E o \in Orders : CreateBill(t, o)) \/ SweepCarts(t) \/ BillsStep(t)
        PROVE  [Ledger!Next]_(Ledger!vars)
    <2>1. ASSUME NEW o \in Orders, CreateBill(t, o)
          PROVE  Ledger!Next
      BY <1>0, <2>1, CreateOpens DEF Ledger!Next
    <2>2. CASE SweepCarts(t)
      <3>1. \A o \in Orders : BillSame(o) /\ CollectedSame(o)
        BY <1>0, <1>2, <2>2, SweepStutters, ExternalSame, ZenonT(30)
      <3>2. QED
        BY <1>0, <3>1, Stutters
    <2>3. CASE UpdatePaid(t)
      BY <1>0, <1>2, <2>3, PaidSettles DEF Ledger!Next
    <2>4. CASE UpdateShipped(t)
      BY <1>0, <1>2, <2>4, ShippedShips, ZenonT(30) DEF Ledger!Next
    <2>5. QED
      BY <1>2, <2>1, <2>2, <2>3, <2>4 DEF BillsStep
  <1>3. ASSUME UNCHANGED bills,
               \/ \E t \in Threads : (\E n \in Orders : CallGateway(t, n)) \/ Redirect(t)
               \/ \E n \in Orders : GatewayGivesUp(n)
        PROVE  [Ledger!Next]_(Ledger!vars)
    <2>1. \A o \in Orders : BillSame(o) /\ CollectedSame(o)
      BY <1>0, <1>3, GatewayStutters DEF BillSame
    <2>2. QED
      BY <1>0, <2>1, Stutters
  <1>4. ASSUME NEW n \in Orders, GatewayCollects(n)
        PROVE  Ledger!Next
    BY <1>0, <1>4, CollectsDue DEF Ledger!Next
  <1>5. QED
    BY <1>1, <1>2, <1>3, <1>4, BillWrites, GatewayWrites, ZenonT(30)

(***************************************************************************)
(* The shop implements the ledger of its bills: an order is billed once,   *)
(* MoMo collects only for a bill and exactly its amount, and paid and      *)
(* shipped are never taken back, whatever notifications, staff saves,      *)
(* checkouts and restarts interleave (Api::V1::BillsController#create,     *)
(* BillsController#update, GetPaymentUrlService).                          *)
(***************************************************************************)
THEOREM ShopKeepsLedger == Spec => KeepsLedger
  <1>1. SafetyInv /\ SafetyInv' /\ [Next]_vars => [Ledger!Next]_(Ledger!vars)
    BY NextLedger
  <1>2. QED
    BY <1>1, InitLedger, StoreSafe, PTL DEF Spec, KeepsLedger, Ledger!Spec
=============================================================================
