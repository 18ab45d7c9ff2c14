----------------------------- MODULE BillLedger -----------------------------
(***************************************************************************)
(* What the shop promises about an order, with the requests abstracted     *)
(* away: a bill is opened once, for a fixed amount; money is only ever     *)
(* collected for an open bill and is exactly what it says; a bill is       *)
(* settled once, and paid, cash and shipped are never taken back.          *)
(***************************************************************************)
EXTENDS Naturals

CONSTANTS Orders, Amounts, Zero

VARIABLES status, due, taken, shipped

vars == <<status, due, taken, shipped>>

Init ==
    /\ status = [o \in Orders |-> "none"]
    /\ due = [o \in Orders |-> Zero]
    /\ taken = {}
    /\ shipped = {}

Open(o) ==
    /\ status[o] = "none"
    /\ \E s \in {"unpaid", "cash"} : status' = [status EXCEPT ![o] = s]
    /\ due'[o] \in Amounts /\ due' = [due EXCEPT ![o] = due'[o]]
    /\ UNCHANGED <<taken, shipped>>

Collect(o) ==
    /\ status[o] \in {"unpaid", "paid"}
    /\ taken' = taken \cup {<<o, due[o]>>}
    /\ UNCHANGED <<status, due, shipped>>

Settle(o) ==
    /\ status[o] = "unpaid"
    /\ status' = [status EXCEPT ![o] = "paid"]
    /\ UNCHANGED <<due, taken, shipped>>

Ship(o) ==
    /\ status[o] # "none"
    /\ shipped' = shipped \cup {o}
    /\ UNCHANGED <<status, due, taken>>

Next == \E o \in Orders : Open(o) \/ Collect(o) \/ Settle(o) \/ Ship(o)

Spec == Init /\ [][Next]_vars
=============================================================================
