-------------------------------- MODULE Bills --------------------------------
(***************************************************************************)
(* What happens to a bill once it is written: MoMo's payment notification  *)
(* (Api::V1::BillsController#create) and staff marking it shipped          *)
(* (BillsController#update).  Both load the row and then save it; a save   *)
(* writes only the columns that differ from the loaded row.                *)
(***************************************************************************)
EXTENDS Shop

VARIABLE mark   \* the locals: the order, the result told, the loaded row

BillMark ==
    [order : Orders \cup {None}, result : {"none", "ok", "failed"},
     seen : BillRow]

NoMark == [order |-> None, result |-> "none", seen |-> NoBill]

EndMark(t) == Finish(t) /\ mark' = [mark EXCEPT ![t] = NoMark]

-----------------------------------------------------------------------------
\* Bill.find_by(order_id:).  An unknown order is a 404 and changes nothing.
FindBill(t, h, o, result) ==
    /\ Begin(t, h, None, "update")
    /\ HasBill(o)
    /\ mark' = [mark EXCEPT ![t] =
          [order |-> o, result |-> result, seen |-> bills[o]]]
    /\ UNCHANGED <<tables, crashes>>

PaidUnlessShipped(t, row) ==
    IF row.shipped THEN row ELSE [row EXCEPT !.st = "paid", !.result = mark[t].result]

Paid(t, row) ==
    [row EXCEPT
       !.st = IF mark[t].seen.st # "paid" THEN "paid" ELSE @,
       !.result = IF mark[t].seen.result # mark[t].result THEN mark[t].result ELSE @]

UpdatePaid(t) ==
    /\ At(t, {"ipn"}, "update")
    /\ bills' = [bills EXCEPT ![mark[t].order] = Paid(t, @)]
    /\ EndMark(t)
    /\ UNCHANGED <<products, carts, lines, crashes>>

\* @bill.update! is_shipped: true
ShippedWholeRow(t, row) == [mark[t].seen EXCEPT !.shipped = TRUE]

Shipped(t, row) ==
    [row EXCEPT !.shipped = IF ~mark[t].seen.shipped THEN TRUE ELSE @]

UpdateShipped(t) ==
    /\ At(t, {"ship"}, "update")
    /\ bills' = [bills EXCEPT ![mark[t].order] = Shipped(t, @)]
    /\ EndMark(t)
    /\ UNCHANGED <<products, carts, lines, crashes>>

BillsInit == mark = [t \in Threads |-> NoMark]

BillsStep(t) == UpdatePaid(t) \/ UpdateShipped(t)
=============================================================================
