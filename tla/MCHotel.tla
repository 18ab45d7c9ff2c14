------------------------------- MODULE MCHotel -------------------------------
(***************************************************************************)
(* Instances of Hotel for TLC.  Kinds and threads are interchangeable.     *)
(***************************************************************************)
EXTENDS Hotel, TLC

House(edits, oneDesk, oneThread) ==
    [edits |-> edits, oneDesk |-> oneDesk, oneThread |-> oneThread]

\* Two threads with staff at work, and one thread with quantities left alone.
BookingHouses == {House(TRUE, TRUE, FALSE), House(FALSE, TRUE, TRUE)}

TwoDesksHouses == {House(FALSE, FALSE, FALSE)}

Symmetry == Permutations(Kinds) \cup Permutations(Threads)
=============================================================================
