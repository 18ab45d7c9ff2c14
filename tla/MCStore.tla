------------------------------- MODULE MCStore -------------------------------
(***************************************************************************)
(* Instances of Store for TLC.  Customers, products and order ids are      *)
(* interchangeable, and so are threads.                                    *)
(***************************************************************************)
EXTENDS Store, TLC

\* Everything the constants allow, with two tabs or with one.
Busy(oneTab) ==
    [oneTab |-> oneTab, oneThread |-> FALSE, products |-> Products,
     prices |-> Prices, quantities |-> Quantities, orders |-> Orders]

TwoTabs == {Busy(FALSE)}

\* One product, whose stock is edited, for a customer who waits for each page;
\* and two products, whose prices are edited, on a single thread.
OneTab ==
    {[Busy(TRUE) EXCEPT !.products = {p}, !.prices = {1}] : p \in Products}
        \cup {[Busy(TRUE) EXCEPT !.oneThread = TRUE, !.quantities = {2}, !.orders = {o}] : o \in Orders}

Symmetry ==
    Permutations(Users) \cup Permutations(Products)
        \cup Permutations(Orders) \cup Permutations(Threads)
=============================================================================
