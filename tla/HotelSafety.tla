---------------------------- MODULE HotelSafety ------------------------------
(***************************************************************************)
(* The hotel for any number of rooms, bookings, units, days and threads:   *)
(* the inductive invariant HotelInv, and with it that no day is overbooked *)
(* where bookings are taken one at a time and that no booking outlives its *)
(* room where requests are.                                                *)
(***************************************************************************)
EXTENDS Hotel, FiniteSetTheorems, TLAPS

-----------------------------------------------------------------------------
(***************************************************************************)
(* Sums of quantities, counted as sets of units.                           *)
(***************************************************************************)
\* The units a set of rows may stand for are finite.
LEMMA UnitsFinite ==
  ASSUME NEW B \in SUBSET BookingIds, NEW U \in SUBSET (B \X Amounts)
  PROVE  IsFiniteSet(U) /\ Cardinality(U) \in Nat
  <1>1. IsFiniteSet(BookingIds) /\ IsFiniteSet(Amounts)
    BY FS_Interval, HotelAssumption DEF BookingIds, Amounts
  <1>2. IsFiniteSet(BookingIds \X Amounts)
    BY <1>1, FS_Product
  <1>3. U \in SUBSET (BookingIds \X Amounts)
    OBVIOUS
  <1>4. QED
    BY <1>2, <1>3, FS_Subset, FS_CardinalityType

\* Fewer units make a smaller sum.
LEMMA UnitsMonotone ==
  ASSUME NEW U \in SUBSET (BookingIds \X Amounts), NEW V \in SUBSET U
  PROVE  Cardinality(V) <= Cardinality(U)
  BY UnitsFinite, FS_Subset

\* One more row adds its quantity at most.
LEMMA UnitsOfOneMore ==
  ASSUME NEW U \in SUBSET (BookingIds \X Amounts), NEW b \in BookingIds,
         NEW n \in 0..MaxUnits
  PROVE  Cardinality(U \cup ({b} \X (1..n))) <= Cardinality(U) + n
  <1> DEFINE f == [u \in 1..n |-> <<b, u>>]
  <1>0. n \in Nat /\ MaxUnits \in Nat
    BY HotelAssumption
  <1>1. IsFiniteSet(1..n) /\ Cardinality(1..n) = n
    <2>1. 1 \in Int /\ n \in Int
      BY <1>0
    <2>2. IsFiniteSet(1..n) /\ Cardinality(1..n) = IF 1 > n THEN 0 ELSE n - 1 + 1
      BY ONLY <2>1, FS_Interval
    <2>3. QED
      BY ONLY <1>0, <2>2
  <1>2. f \in Surjection(1..n, {b} \X (1..n))
    <2>1. f \in [1..n -> {b} \X (1..n)]
      OBVIOUS
    <2>2. ASSUME NEW x \in {b} \X (1..n) PROVE \E u \in 1..n : f[u] = x
      <3>1. x[2] \in 1..n /\ x = <<b, x[2]>>
        OBVIOUS
      <3>2. QED
        BY <3>1
    <2>3. QED
      BY <2>1, <2>2, Zenon DEF Surjection
  <1>3. IsFiniteSet({b} \X (1..n)) /\ Cardinality({b} \X (1..n)) <= n
    BY <1>1, <1>2, FS_Surjection
  <1>4. /\ IsFiniteSet(U) /\ Cardinality(U) \in Nat
        /\ Cardinality({b} \X (1..n)) \in Nat
    BY <1>3, UnitsFinite, FS_CardinalityType, Zenon
  <1>5. Cardinality(U \cup ({b} \X (1..n)))
           = Cardinality(U) + Cardinality({b} \X (1..n)) - Cardinality(U \cap ({b} \X (1..n)))
    BY <1>3, <1>4, FS_Union
  <1>6. Cardinality(U \cap ({b} \X (1..n))) \in Nat
    BY <1>4, FS_Subset, FS_CardinalityType
  <1>7. QED
    BY <1>0, <1>3, <1>4, <1>5, <1>6

\* What occupies a room on a day of a stay is among the rows the query returns.
LEMMA OccupantsAreBooked ==
  ASSUME TypeOK, NEW r \in RoomIds, NEW s \in Int, NEW f \in Int, NEW day \in Days,
         Between(day, s, f)
  PROVE  Occupants(r, day) \subseteq BookedRows(r, s, f)
  <1>1. day \in Int
    BY HotelAssumption
  <1>2. \A b \in BookingIds : bookings[b].started_at \in Int /\ bookings[b].finished_at \in Int
    BY DEF TypeOK, BookingRow
  <1>3. QED
    BY <1>1, <1>2 DEF Occupants, BookedRows, BookedR, Booked, Between, LiveBookings

\* A step that adds no live row and changes no row's stay lowers every sum.
LEMMA FewerOccupants ==
  ASSUME TypeOK, TypeOK', NEW r, NEW day,
         \A b \in BookingIds : bookings'[b].st = "live" => bookings'[b] = bookings[b]
  PROVE  /\ SumQuantity(Occupants(r, day))' <= SumQuantity(Occupants(r, day))
         /\ SumQuantity(Occupants(r, day)) \in Nat /\ SumQuantity(Occupants(r, day))' \in Nat
  <1>1. /\ UnitsOf(Occupants(r, day))' \in SUBSET UnitsOf(Occupants(r, day))
        /\ UnitsOf(Occupants(r, day)) \in SUBSET (BookingIds \X Amounts)
    BY DEF UnitsOf, Occupants, LiveBookings, Amounts, BookingIds
  <1>2. QED
    BY <1>1, UnitsMonotone, UnitsFinite, Zenon DEF SumQuantity

-----------------------------------------------------------------------------
(***************************************************************************)
(* Types.                                                                  *)
(***************************************************************************)
\* The tables are empty and no request is in flight.
LEMMA InitType == Init => TypeOK
  <1> SUFFICES ASSUME Init PROVE TypeOK
    OBVIOUS
  <1> USE HotelAssumption
  <1>1. 0 \in 0..MaxRooms /\ 0 \in 0..MaxUnits
    OBVIOUS
  <1>2. QED
    BY <1>1
       DEF Init, TypeOK, RoomRow, BookingRow, Desk, Closing, NoRoom, NoBooking, NoDesk, NotClosing

\* No step breaks a type.
LEMMA NextType == TypeOK /\ [Next]_vars => TypeOK'
  <1> SUFFICES ASSUME TypeOK, [Next]_vars PROVE TypeOK'
    OBVIOUS
  <1> USE DEF TypeOK
  <1>n. NoDesk \in Desk /\ NotClosing \in Closing
    BY HotelAssumption DEF NoDesk, Desk, NotClosing, Closing
  <1>1. ASSUME NEW t \in Threads, NEW kind \in Kinds, NEW s \in Days, NEW f \in Days,
               NEW n \in Amounts, BeginBooking(t, kind, s, f, n)
        PROVE  TypeOK'
    <2>1. n \in 0..MaxUnits /\ s \in Int /\ f \in Int
      BY HotelAssumption DEF Amounts
    <2>2. \A r \in RoomIds : rooms[r].quantity \in Nat
      BY DEF RoomRow
    <2>3. QED
      BY <1>1, <2>1, <2>2, Zenon DEF BeginBooking, Desk
  <1>2. ASSUME NEW t \in Threads, CheckRoom(t) PROVE TypeOK'
    <2>1. \E d \in Desk : desk' = [desk EXCEPT ![t] = d]
      <3>1. \A todo, empty \in SUBSET RoomIds :
               [desk[t] EXCEPT !.todo = todo, !.empty = empty] \in Desk
        BY ZenonT(40) DEF Desk
      <3>2. \A r \in desk[t].todo :
               /\ desk[t].todo \ {r} \in SUBSET RoomIds
               /\ desk[t].empty \cup {r} \in SUBSET RoomIds
               /\ desk[t].empty \in SUBSET RoomIds
        BY DEF Desk
      <3>3. QED
        BY <1>2, <3>1, <3>2, Zenon DEF CheckRoom
    <2>2. QED
      BY <1>2, <2>1 DEF CheckRoom
  <1>3. ASSUME NEW t \in Threads, ValidateBooking(t) PROVE TypeOK'
    <2>1. \E d \in Desk : desk' = [desk EXCEPT ![t] = d]
      <3>1. /\ [desk[t] EXCEPT !.pc = "sold_out"] \in Desk
            /\ [desk[t] EXCEPT !.pc = "insert"] \in Desk
        BY ZenonT(40) DEF Desk
      <3>2. QED
        BY <1>3, <1>n, <3>1, Zenon DEF ValidateBooking
    <2>2. QED
      BY <1>3, <2>1 DEF ValidateBooking
  <1>4. ASSUME NEW t \in Threads, InsertBooking(t) PROVE TypeOK'
    <2>1. desk' \in [Threads -> Desk]
      BY <1>4, <1>n, Zenon DEF InsertBooking
    <2>2. RoomIds \subseteq 0..MaxRooms
      BY HotelAssumption DEF RoomIds
    <2>3. bookings' \in [BookingIds -> BookingRow]
      BY <1>4, <2>2 DEF InsertBooking, BookingRow, Desk
    <2>4. QED
      BY <1>4, <2>1, <2>3, Zenon DEF InsertBooking
  <1>5. ASSUME NEW t \in Threads, AnswerSoldOut(t) PROVE TypeOK'
    BY <1>5, <1>n DEF AnswerSoldOut
  <1>6. ASSUME NEW t \in Threads, NEW r \in RoomIds, LoadBookings(t, r) PROVE TypeOK'
    <2>1. r \in 0..MaxRooms
      BY HotelAssumption DEF RoomIds
    <2>2. QED
      BY <1>6, <2>1, Zenon DEF LoadBookings, DependentBookings, LiveBookings, Closing
  <1>7. ASSUME NEW t \in Threads, DestroyRoom(t) PROVE TypeOK'
    <2>1. \A row \in RoomRow : [row EXCEPT !.st = "gone"] \in RoomRow
      BY DEF RoomRow
    <2>2. \A row \in BookingRow : [row EXCEPT !.st = "gone"] \in BookingRow
      BY DEF BookingRow
    <2>3. rooms' \in [RoomIds -> RoomRow] /\ bookings' \in [BookingIds -> BookingRow]
      BY <1>7, <2>1, <2>2, Zenon DEF DestroyRoom
    <2>4. QED
      BY <1>7, <1>n, <2>3, Zenon DEF DestroyRoom
  <1>8. ASSUME NEW b \in BookingIds, CancelBooking(b) PROVE TypeOK'
    BY <1>8 DEF CancelBooking, BookingRow
  <1>9. ASSUME NEW r \in RoomIds, NEW kind \in Kinds, NEW q \in Capacities,
               CreateRoom(r, kind, q) \/ ImportRow(r, kind, q) \/ UpdateRoom(r, kind, q)
        PROVE  TypeOK'
    <2>1. q \in Nat
      BY HotelAssumption
    <2>2. \E row \in RoomRow : rooms' = [rooms EXCEPT ![r] = row]
      <3>1. [st |-> "live", kind |-> kind, quantity |-> q] \in RoomRow
        BY <2>1 DEF RoomRow
      <3>2. [rooms[r] EXCEPT !.kind = kind, !.quantity = q] \in RoomRow
        BY <2>1, Zenon DEF RoomRow
      <3>3. QED
        BY <1>9, <3>1, <3>2, Zenon DEF CreateRoom, ImportRow, SaveRoom, UpdateRoom
    <2>3. QED
      BY <1>9, <2>2 DEF CreateRoom, ImportRow, SaveRoom, UpdateRoom
  <1>10. CASE UNCHANGED vars
    BY <1>10 DEF vars
  <1>11. QED
    BY <1>1, <1>2, <1>3, <1>4, <1>5, <1>6, <1>7, <1>8, <1>9, <1>10, Zenon DEF Next

-----------------------------------------------------------------------------
(***************************************************************************)
(* Requests.                                                               *)
(***************************************************************************)
\* What the steps do to the locals of a booking request.
Advances(t) ==
    /\ desk[t] # NoDesk /\ UNCHANGED <<closing, house>>
    /\ \E d \in Desk :
          /\ desk' = [desk EXCEPT ![t] = d]
          /\ d.pc # "idle" \/ d = NoDesk

\* What querying the bookings of a room changes: the room is off the list of
\* those to query, and joins those with space if it fits.
LEMMA RoomChecked ==
  ASSUME TypeOK, NEW t \in Threads, CheckRoom(t)
  PROVE  \E r \in desk[t].todo :
            /\ desk' = [desk EXCEPT ![t] = desk'[t]]
            /\ desk'[t].pc = "check" /\ desk[t].pc = "check"
            /\ desk'[t].started_at = desk[t].started_at
            /\ desk'[t].finished_at = desk[t].finished_at
            /\ desk'[t].quantity = desk[t].quantity
            /\ desk'[t].rooms = desk[t].rooms
            /\ desk'[t].limit = desk[t].limit
            /\ desk'[t].todo \subseteq desk[t].todo
            /\ \/ desk'[t].empty = desk[t].empty
               \/ /\ desk'[t].empty = desk[t].empty \cup {r}
                  /\ Fits(t, r, SumQuantity(
                             BookedRows(r, desk[t].started_at, desk[t].finished_at)))
  <1>1. PICK r \in desk[t].todo :
           desk' = [desk EXCEPT ![t] = [desk[t] EXCEPT
              !.todo = desk[t].todo \ {r},
              !.empty = IF Fits(t, r, SumQuantity(
                                BookedRows(r, desk[t].started_at, desk[t].finished_at)))
                        THEN desk[t].empty \cup {r} ELSE desk[t].empty]]
    BY Zenon DEF CheckRoom
  <1> DEFINE fits == Fits(t, r, SumQuantity(
                          BookedRows(r, desk[t].started_at, desk[t].finished_at)))
             todo == desk[t].todo \ {r}
             empty == IF fits THEN desk[t].empty \cup {r} ELSE desk[t].empty
  <1>2. desk' = [desk EXCEPT ![t] = [desk[t] EXCEPT !.todo = todo, !.empty = empty]]
    BY <1>1
  <1> HIDE DEF fits
  <1>3. /\ todo \subseteq desk[t].todo
        /\ empty = desk[t].empty \/ (empty = desk[t].empty \cup {r} /\ fits)
    OBVIOUS
  <1> HIDE DEF todo, empty
  <1>4. desk'[t] = [desk[t] EXCEPT !.todo = todo, !.empty = empty] /\ desk[t] \in Desk
    BY <1>2 DEF TypeOK
  <1>5. /\ desk'[t].pc = desk[t].pc
        /\ desk'[t].started_at = desk[t].started_at
        /\ desk'[t].finished_at = desk[t].finished_at
        /\ desk'[t].quantity = desk[t].quantity
        /\ desk'[t].rooms = desk[t].rooms
        /\ desk'[t].limit = desk[t].limit
        /\ desk'[t].todo = todo
        /\ desk'[t].empty = empty
    BY <1>4 DEF Desk
  <1>6. desk[t].pc = "check" /\ desk' = [desk EXCEPT ![t] = desk'[t]]
    BY <1>2, <1>4, Zenon DEF CheckRoom
  <1>7. QED
    BY <1>3, <1>5, <1>6, Zenon DEF fits

\* Each step of a request that was begun advances it.
LEMMA RequestAdvances ==
  ASSUME TypeOK, TypeOK', NEW t \in Threads,
         CheckRoom(t) \/ ValidateBooking(t) \/ InsertBooking(t) \/ AnswerSoldOut(t)
  PROVE  Advances(t)
  <1>1. desk[t].pc # "idle" /\ desk'[t] \in Desk /\ UNCHANGED <<closing, house>>
    BY Zenon DEF CheckRoom, ValidateBooking, InsertBooking, AnswerSoldOut, TypeOK
  <1>2. desk[t] # NoDesk
    BY <1>1 DEF NoDesk
  <1>3. desk' = [desk EXCEPT ![t] = desk'[t]]
    BY Zenon DEF CheckRoom, ValidateBooking, InsertBooking, AnswerSoldOut, TypeOK
  <1>4. desk'[t].pc # "idle" \/ desk'[t] = NoDesk
    <2>1. CASE CheckRoom(t)
      BY <2>1, RoomChecked, Zenon
    <2>2. CASE ValidateBooking(t)
      BY <2>2 DEF ValidateBooking, TypeOK, Desk
    <2>3. CASE InsertBooking(t) \/ AnswerSoldOut(t)
      BY <2>3, Zenon DEF InsertBooking, AnswerSoldOut, TypeOK
    <2>4. QED
      BY <2>1, <2>2, <2>3
  <1>5. QED
    BY <1>1, <1>2, <1>3, <1>4 DEF Advances

\* Requests stay apart.
LEMMA NextApart ==
  ASSUME TypeOK, TypeOK', RequestsApart, [Next]_vars
  PROVE  RequestsApart'
  <1>1. ASSUME NEW t \in Threads, Advances(t) PROVE RequestsApart'
    BY <1>1 DEF Advances, RequestsApart, OneAtATime, Idle, TypeOK
  <1>2. ASSUME NEW t \in Threads, NEW kind, NEW s, NEW f, NEW n, BeginBooking(t, kind, s, f, n)
        PROVE  RequestsApart'
    <2>1. desk' = [desk EXCEPT ![t] = desk'[t]] /\ desk'[t].pc = "check"
      BY <1>2, Zenon DEF BeginBooking, TypeOK
    <2>2. desk'[t] # NoDesk
      BY <2>1 DEF NoDesk
    <2>3. /\ UNCHANGED <<closing, house>> /\ Idle(t)
          /\ house.oneThread => \A other \in Threads : Idle(other)
          /\ house.oneDesk => \A other \in Threads : desk[other] = NoDesk
      BY <1>2, Zenon DEF BeginBooking, Free
    <2>4. QED
      BY <2>1, <2>2, <2>3 DEF RequestsApart, OneAtATime, Idle, TypeOK
  <1>3. ASSUME NEW t \in Threads, NEW r \in RoomIds, LoadBookings(t, r) PROVE RequestsApart'
    <2>1. closing' = [closing EXCEPT ![t] = closing'[t]] /\ closing'[t].room = r
      BY <1>3 DEF LoadBookings, TypeOK
    <2>2. r # 0
      BY HotelAssumption DEF RoomIds
    <2>3. /\ UNCHANGED <<desk, house>> /\ Idle(t)
          /\ house.oneThread => \A other \in Threads : Idle(other)
      BY <1>3 DEF LoadBookings, Free
    <2>4. QED
      BY <2>1, <2>2, <2>3 DEF RequestsApart, OneAtATime, Idle, TypeOK
  <1>4. ASSUME NEW t \in Threads, DestroyRoom(t) PROVE RequestsApart'
    BY <1>4, Zenon DEF DestroyRoom, RequestsApart, OneAtATime, Idle, TypeOK
  <1>5. CASE UNCHANGED <<desk, closing, house>>
    BY <1>5, Zenon DEF RequestsApart, OneAtATime, Idle
  <1>6. QED
    BY <1>1, <1>2, <1>3, <1>4, <1>5, RequestAdvances, Zenon
       DEF Next, vars, CancelBooking, CreateRoom, ImportRow, SaveRoom, UpdateRoom

-----------------------------------------------------------------------------
(***************************************************************************)
(* Rows.                                                                   *)
(***************************************************************************)
\* The id of a room is never given out again, and a room that is live keeps
\* the quantity it had unless staff edit it.
LEMMA RoomsLast ==
  ASSUME TypeOK, TypeOK', [Next]_vars, NEW r \in RoomIds, rooms[r].st # "new"
  PROVE  /\ rooms'[r].st # "new"
         /\ ~house.edits /\ rooms'[r].st = "live" =>
               rooms[r].st = "live" /\ rooms'[r].quantity = rooms[r].quantity
         /\ rooms[r].st = "live" => \/ rooms'[r].st = "live"
                                    \/ \E t \in Threads : DestroyRoom(t)
  <1> DEFINE Goal == /\ rooms'[r].st # "new"
                     /\ ~house.edits /\ rooms'[r].st = "live" =>
                           rooms[r].st = "live" /\ rooms'[r].quantity = rooms[r].quantity
                     /\ rooms[r].st = "live" => \/ rooms'[r].st = "live"
                                                \/ \E t \in Threads : DestroyRoom(t)
  <1>1. CASE UNCHANGED rooms
    BY <1>1
  <1>2. ASSUME NEW t \in Threads, DestroyRoom(t) PROVE Goal
    BY <1>2, ZenonT(40) DEF DestroyRoom, TypeOK, RoomRow
  <1>3. ASSUME NEW x \in RoomIds, NEW kind, NEW q, SaveRoom(x, kind, q) PROVE Goal
    <2>1. rooms'[r] = rooms[r]
      BY <1>3, Zenon DEF SaveRoom, IsFirst, TypeOK
    <2>2. QED
      BY <2>1
  <1>4. ASSUME NEW x \in RoomIds, NEW kind, NEW q, UpdateRoom(x, kind, q) PROVE Goal
    BY <1>4 DEF UpdateRoom, TypeOK, RoomRow
  <1>5. QED
    BY <1>1, <1>2, <1>3, <1>4, Zenon
       DEF Next, vars, BeginBooking, CheckRoom, ValidateBooking, InsertBooking,
           AnswerSoldOut, LoadBookings, CancelBooking, CreateRoom, ImportRow

\* Only InsertBooking adds a row or changes one that stays.
LEMMA BookingsOnlyLeave ==
  ASSUME TypeOK, TypeOK', [Next]_vars, \A t \in Threads : ~InsertBooking(t)
  PROVE  \A b \in BookingIds : bookings'[b].st = "live" => bookings'[b] = bookings[b]
  <1>1. CASE UNCHANGED bookings
    BY <1>1
  <1>2. ASSUME NEW t \in Threads, DestroyRoom(t)
        PROVE  \A b \in BookingIds : bookings'[b].st = "live" => bookings'[b] = bookings[b]
    BY <1>2 DEF DestroyRoom, TypeOK, BookingRow
  <1>3. ASSUME NEW b \in BookingIds, CancelBooking(b)
        PROVE  \A c \in BookingIds : bookings'[c].st = "live" => bookings'[c] = bookings[c]
    BY <1>3 DEF CancelBooking, TypeOK, BookingRow
  <1>4. QED
    BY <1>1, <1>2, <1>3, Zenon
       DEF Next, vars, BeginBooking, CheckRoom, ValidateBooking,
           AnswerSoldOut, LoadBookings, CreateRoom, ImportRow, SaveRoom, UpdateRoom

\* A booking is inserted in a room that was found to have space, with the
\* stay of the request, and the request ends.
LEMMA BookingInserted ==
  ASSUME TypeOK, TypeOK', NEW t \in Threads, InsertBooking(t)
  PROVE  \E b \in BookingIds, r \in desk[t].empty :
            /\ IsFirst(r, desk[t].empty) /\ r \in RoomIds
            /\ bookings[b].st = "new"
            /\ bookings' = [bookings EXCEPT ![b] = bookings'[b]]
            /\ bookings'[b].st = "live" /\ bookings'[b].room = r
            /\ bookings'[b].started_at = desk[t].started_at
            /\ bookings'[b].finished_at = desk[t].finished_at
            /\ bookings'[b].quantity = desk[t].quantity
            /\ desk' = [desk EXCEPT ![t] = NoDesk]
            /\ UNCHANGED <<rooms, closing, house>>
  <1>1. PICK b \in BookingIds, r \in desk[t].empty :
          /\ IsFirst(b, {x \in BookingIds : bookings[x].st = "new"})
          /\ IsFirst(r, desk[t].empty)
          /\ bookings' = [bookings EXCEPT ![b] =
                [st |-> "live", room |-> r, started_at |-> desk[t].started_at,
                 finished_at |-> desk[t].finished_at, quantity |-> desk[t].quantity]]
    BY Zenon DEF InsertBooking
  <1>2. desk[t].empty \subseteq RoomIds /\ bookings[b].st = "new"
    BY <1>1, Zenon DEF TypeOK, Desk, IsFirst
  <1>3. bookings'[b] = [st |-> "live", room |-> r, started_at |-> desk[t].started_at,
                        finished_at |-> desk[t].finished_at, quantity |-> desk[t].quantity]
    BY <1>1, Zenon DEF TypeOK
  <1>4. bookings' = [bookings EXCEPT ![b] = bookings'[b]]
    BY <1>1, <1>3, Zenon
  <1>5. /\ bookings'[b].st = "live" /\ bookings'[b].room = r
        /\ bookings'[b].started_at = desk[t].started_at
        /\ bookings'[b].finished_at = desk[t].finished_at
        /\ bookings'[b].quantity = desk[t].quantity
    BY <1>3
  <1>6. desk' = [desk EXCEPT ![t] = NoDesk] /\ UNCHANGED <<rooms, closing, house>>
    BY Zenon DEF InsertBooking
  <1>7. QED
    BY <1>1, <1>2, <1>4, <1>5, <1>6, Zenon

\* Bookings and requests keep naming rooms that exist or existed.
LEMMA NextKnown ==
  ASSUME TypeOK, TypeOK', RoomsKnown, [Next]_vars
  PROVE  RoomsKnown'
  <1>0. house' = house
    BY ZenonT(40)
       DEF Next, vars, BeginBooking, CheckRoom, ValidateBooking, InsertBooking, AnswerSoldOut,
           LoadBookings, DestroyRoom, CancelBooking, CreateRoom, ImportRow, SaveRoom, UpdateRoom
  <1>1. ASSUME NEW b \in LiveBookings'
        PROVE  bookings'[b].room \in RoomIds /\ rooms'[bookings'[b].room].st # "new"
    <2>1. bookings'[b].room \in RoomIds /\ rooms[bookings'[b].room].st # "new"
      <3>1. ASSUME NEW t \in Threads, InsertBooking(t)
            PROVE  bookings'[b].room \in RoomIds /\ rooms[bookings'[b].room].st # "new"
        BY <1>1, <3>1, BookingInserted DEF RoomsKnown, LiveBookings, TypeOK
      <3>2. CASE \A t \in Threads : ~InsertBooking(t)
        BY <1>1, <3>2, BookingsOnlyLeave, Zenon DEF RoomsKnown, LiveBookings
      <3>3. QED
        BY <3>1, <3>2, Zenon
    <2>2. QED
      BY <2>1, RoomsLast, Zenon
  <1>2. ASSUME NEW t \in Threads
        PROVE  /\ desk'[t].todo \cup desk'[t].empty \subseteq desk'[t].rooms
               /\ \A r \in desk'[t].rooms :
                     /\ rooms[r].st # "new"
                     /\ ~house.edits /\ rooms[r].st = "live" =>
                           desk'[t].limit[r] = rooms[r].quantity
    <2> DEFINE Goal == /\ desk'[t].todo \cup desk'[t].empty \subseteq desk'[t].rooms
                       /\ \A r \in desk'[t].rooms :
                             /\ rooms[r].st # "new"
                             /\ ~house.edits /\ rooms[r].st = "live" =>
                                   desk'[t].limit[r] = rooms[r].quantity
    <2>1. CASE desk'[t] = desk[t]
      BY <2>1, Zenon DEF RoomsKnown
    <2>2. CASE desk'[t] = NoDesk
      BY <2>2 DEF NoDesk
    <2>3. ASSUME NEW kind, NEW s, NEW f, NEW n, BeginBooking(t, kind, s, f, n) PROVE Goal
      BY <2>3, Zenon DEF BeginBooking, TypeOK
    <2>4. CASE CheckRoom(t)
      BY <2>4, RoomChecked DEF RoomsKnown
    <2>5. CASE \/ desk'[t] = [desk[t] EXCEPT !.pc = "insert"]
               \/ desk'[t] = [desk[t] EXCEPT !.pc = "sold_out"]
      <3>1. /\ desk'[t].rooms = desk[t].rooms /\ desk'[t].limit = desk[t].limit
            /\ desk'[t].todo = desk[t].todo /\ desk'[t].empty = desk[t].empty
        BY <2>5 DEF TypeOK, Desk
      <3>2. QED
        BY <3>1, Zenon DEF RoomsKnown
    <2>6. CASE UNCHANGED desk
      BY <2>6, <2>1, Zenon
    <2>7. ASSUME NEW u \in Threads, u # t, desk' = [desk EXCEPT ![u] = desk'[u]] PROVE Goal
      BY <2>1, <2>7, Zenon DEF TypeOK
    <2>8. ASSUME NEW u \in Threads, ValidateBooking(u) PROVE Goal
      <3>1. CASE u = t
        BY <2>2, <2>5, <2>8, <3>1, Zenon DEF ValidateBooking, TypeOK
      <3>2. CASE u # t
        BY <2>1, <2>8, <3>2, Zenon DEF ValidateBooking, TypeOK
      <3>3. QED
        BY <3>1, <3>2, Zenon
    <2>9. ASSUME NEW u \in Threads, InsertBooking(u) \/ AnswerSoldOut(u) PROVE Goal
      BY <2>1, <2>2, <2>9, Zenon DEF InsertBooking, AnswerSoldOut, TypeOK
    <2>10. ASSUME NEW u \in Threads, CheckRoom(u) PROVE Goal
      BY <2>4, <2>7, <2>10, RoomChecked, Zenon
    <2>11. ASSUME NEW u \in Threads, NEW kind, NEW s, NEW f, NEW n,
                  BeginBooking(u, kind, s, f, n)
           PROVE  Goal
      <3>1. u # t => desk'[t] = desk[t]
        BY <2>11, Zenon DEF BeginBooking, TypeOK
      <3>2. QED
        BY <2>1, <2>3, <2>11, <3>1, Zenon
    <2>12. QED
      BY <2>6, <2>8, <2>9, <2>10, <2>11, Zenon
         DEF Next, vars, LoadBookings, DestroyRoom, CancelBooking, CreateRoom, ImportRow,
             SaveRoom, UpdateRoom
  <1>3. ASSUME NEW t \in Threads PROVE desk'[t].rooms \subseteq RoomIds
    BY DEF TypeOK, Desk
  <1>4. QED
    BY <1>0, <1>1, <1>2, <1>3, RoomsLast, Zenon DEF RoomsKnown

\* With one thread, what a request read stays so.
LEMMA NextStale ==
  ASSUME TypeOK, TypeOK', RequestsApart, RoomsKnown, NothingStale, [Next]_vars
  PROVE  NothingStale'
  <1>0. house' = house
    BY Zenon DEF Next, vars, BeginBooking, CheckRoom, ValidateBooking, InsertBooking, AnswerSoldOut,
           LoadBookings, DestroyRoom, CancelBooking, CreateRoom, ImportRow, SaveRoom, UpdateRoom
  <1> SUFFICES ASSUME house.oneThread, NEW t \in Threads
               PROVE  /\ desk'[t].pc = "insert" => \A r \in desk'[t].empty :
                            IsFirst(r, desk'[t].empty) => rooms'[r].st = "live"
                      /\ closing'[t].room # 0 =>
                            DependentBookings(closing[t].room)' \subseteq closing'[t].bookings
    BY <1>0, Zenon DEF NothingStale
  <1>1. ASSUME desk'[t].pc = "insert", NEW r \in desk'[t].empty, IsFirst(r, desk'[t].empty)
        PROVE  rooms'[r].st = "live"
    <2>0. r \in RoomIds
      BY DEF TypeOK, Desk
    <2>1. CASE desk'[t] = desk[t]
      <3>1. rooms[r].st = "live" /\ desk[t] # NoDesk
        BY <1>1, <2>1 DEF NothingStale, NoDesk
      <3>2. ASSUME NEW u \in Threads, DestroyRoom(u) PROVE FALSE
        <4>1. closing[u].room # 0
          BY <3>2, Zenon DEF DestroyRoom
        <4>2. closing[u] # NotClosing
          BY <4>1 DEF NotClosing
        <4>3. QED
          BY <3>1, <4>2 DEF RequestsApart, Idle
      <3>3. QED
        BY <2>0, <3>1, <3>2, RoomsLast, Zenon
    <2>2. CASE ValidateBooking(t)
      <3>1. /\ desk'[t].pc = "insert" /\ desk[t].pc # "insert"
            /\ \/ desk'[t] = [desk[t] EXCEPT !.pc = "sold_out"]
               \/ \E x \in desk[t].empty :
                     /\ IsFirst(x, desk[t].empty)
                     /\ desk'[t] = IF rooms[x].st = "live" THEN [desk[t] EXCEPT !.pc = "insert"]
                                                           ELSE NoDesk
            /\ rooms' = rooms
        BY <1>1, <2>2, Zenon DEF ValidateBooking, TypeOK
      <3>2. [desk[t] EXCEPT !.pc = "sold_out"].pc # "insert" /\ NoDesk.pc # "insert"
        BY DEF TypeOK, Desk, NoDesk
      <3>3. PICK x \in desk[t].empty :
               /\ IsFirst(x, desk[t].empty)
               /\ rooms[x].st = "live" /\ desk'[t] = [desk[t] EXCEPT !.pc = "insert"]
        BY <3>1, <3>2, Zenon
      <3>4. desk'[t].empty = desk[t].empty /\ desk[t].empty \subseteq RoomIds
        BY <3>3 DEF TypeOK, Desk
      <3>5. x = r
        BY <1>1, <3>3, <3>4, HotelAssumption DEF IsFirst, RoomIds
      <3>6. QED
        BY <3>1, <3>3, <3>5, Zenon
    <2>3. desk'[t] = desk[t] \/ ValidateBooking(t)
      <3>1. ASSUME NEW u \in Threads, InsertBooking(u) \/ AnswerSoldOut(u)
            PROVE  desk'[t] = desk[t]
        BY <1>1, <3>1 DEF InsertBooking, AnswerSoldOut, TypeOK, NoDesk
      <3>2. ASSUME NEW u \in Threads, CheckRoom(u) PROVE desk'[t] = desk[t]
        BY <1>1, <3>2, RoomChecked, Zenon DEF TypeOK
      <3>3. ASSUME NEW u \in Threads, NEW kind, NEW s, NEW f, NEW n,
                   BeginBooking(u, kind, s, f, n)
            PROVE  desk'[t] = desk[t]
        BY <1>1, <3>3, Zenon DEF BeginBooking, TypeOK
      <3>4. ASSUME NEW u \in Threads, ValidateBooking(u), u # t PROVE desk'[t] = desk[t]
        BY <3>4, Zenon DEF ValidateBooking, TypeOK
      <3>5. QED
        BY <3>1, <3>2, <3>3, <3>4, ZenonT(40)
           DEF Next, vars, LoadBookings, DestroyRoom, CancelBooking, CreateRoom, ImportRow,
               SaveRoom, UpdateRoom
    <2>4. QED
      BY <2>1, <2>2, <2>3
  <1>2. ASSUME closing'[t].room # 0
        PROVE  DependentBookings(closing[t].room)' \subseteq closing'[t].bookings
    <2>1. CASE closing'[t] = closing[t]
      <3>1. closing[t].room # 0 /\ closing[t] # NotClosing
        BY <1>2, <2>1 DEF NotClosing
      <3>2. ASSUME NEW u \in Threads, InsertBooking(u) PROVE FALSE
        <4>1. desk[u].pc = "insert"
          BY <3>2, Zenon DEF InsertBooking
        <4>2. desk[u] # NoDesk
          BY <4>1 DEF NoDesk
        <4>3. QED
          BY <3>1, <4>2 DEF RequestsApart, Idle
      <3>3. DependentBookings(closing[t].room)' \subseteq DependentBookings(closing[t].room)
        BY <2>1, <3>2, BookingsOnlyLeave DEF DependentBookings, LiveBookings
      <3>4. QED
        BY <2>1, <3>1, <3>3, Zenon DEF NothingStale
    <2>2. ASSUME NEW r \in RoomIds, LoadBookings(t, r)
          PROVE  DependentBookings(closing[t].room)' \subseteq closing'[t].bookings
      <3>1. closing'[t].room = r /\ closing'[t].bookings = DependentBookings(r)
        BY <2>2 DEF LoadBookings, TypeOK
      <3>2. DependentBookings(closing[t].room)' = DependentBookings(r)
        BY <2>2, <3>1, Zenon DEF LoadBookings, DependentBookings, LiveBookings
      <3>3. QED
        BY <3>1, <3>2
    <2>3. closing'[t] = closing[t] \/ \E r \in RoomIds : LoadBookings(t, r)
      <3>1. ASSUME NEW u \in Threads, DestroyRoom(u) PROVE closing'[t] = closing[t]
        BY <1>2, <3>1, Zenon DEF DestroyRoom, TypeOK, NotClosing
      <3>2. ASSUME NEW u \in Threads, NEW r \in RoomIds, LoadBookings(u, r), u # t
            PROVE  closing'[t] = closing[t]
        BY <3>2, Zenon DEF LoadBookings, TypeOK
      <3>3. QED
        BY <3>1, <3>2, Zenon
           DEF Next, vars, BeginBooking, CheckRoom, ValidateBooking, InsertBooking,
               AnswerSoldOut, CancelBooking, CreateRoom, ImportRow, SaveRoom, UpdateRoom
    <2>4. QED
      BY <2>1, <2>2, <2>3
  <1>3. QED
    BY <1>1, <1>2, Zenon

-----------------------------------------------------------------------------
(***************************************************************************)
(* Sums.                                                                   *)
(***************************************************************************)
\* What a step leaves of the rooms a request holds to be empty: none, the ones
\* it held, or those and a room whose bookings were just found to leave space.
Holds(t) ==
    \/ desk'[t].empty = {}
    \/ /\ desk'[t].started_at = desk[t].started_at
       /\ desk'[t].finished_at = desk[t].finished_at
       /\ desk'[t].quantity = desk[t].quantity
       /\ desk'[t].limit = desk[t].limit
       /\ \/ desk'[t].empty = desk[t].empty
          \/ \E r \in desk[t].todo :
                /\ desk'[t].empty = desk[t].empty \cup {r}
                /\ Fits(t, r, SumQuantity(
                           BookedRows(r, desk[t].started_at, desk[t].finished_at)))

\* Every step leaves every request so; an insertion ends the request it is part
\* of, and where bookings are taken one at a time there is no other.
LEMMA RequestHolds ==
  ASSUME TypeOK, TypeOK', RequestsApart, OneAtATime, [Next]_vars, NEW t \in Threads
  PROVE  /\ Holds(t)
         /\ (\E u \in Threads : InsertBooking(u)) => desk'[t].empty = {}
  <1>0. NoDesk.empty = {}
    BY DEF NoDesk
  <1>1. ASSUME desk'[t] = desk[t] PROVE Holds(t)
    BY <1>1 DEF Holds
  <1>2. ASSUME desk'[t] = NoDesk PROVE Holds(t)
    BY <1>0, <1>2, Zenon DEF Holds
  <1>3. ASSUME NEW u \in Threads, NEW kind, NEW s, NEW f, NEW n, BeginBooking(u, kind, s, f, n)
        PROVE  Holds(t)
    <2>1. CASE u = t
      BY <1>3, <2>1, Zenon DEF BeginBooking, TypeOK, Holds
    <2>2. CASE u # t
      BY <1>1, <1>3, <2>2, Zenon DEF BeginBooking, TypeOK
    <2>3. QED
      BY <2>1, <2>2
  <1>4. ASSUME NEW u \in Threads, CheckRoom(u) PROVE Holds(t)
    <2>1. CASE u = t
      BY <1>4, <2>1, RoomChecked, Zenon DEF Holds
    <2>2. CASE u # t
      BY <1>1, <1>4, <2>2, RoomChecked, Zenon DEF TypeOK
    <2>3. QED
      BY <2>1, <2>2
  <1>5. ASSUME NEW u \in Threads, ValidateBooking(u) PROVE Holds(t)
    <2>1. CASE \/ desk'[t] = [desk[t] EXCEPT !.pc = "insert"]
               \/ desk'[t] = [desk[t] EXCEPT !.pc = "sold_out"]
      BY <2>1 DEF TypeOK, Desk, Holds
    <2>2. CASE u # t
      BY <1>1, <1>5, <2>2, Zenon DEF ValidateBooking, TypeOK
    <2>3. CASE u = t
      BY <1>2, <1>5, <2>1, <2>3, Zenon DEF ValidateBooking, TypeOK
    <2>4. QED
      BY <2>2, <2>3
  <1>6. ASSUME NEW u \in Threads, InsertBooking(u) PROVE desk'[t] = NoDesk
    <2>1. desk' = [desk EXCEPT ![u] = NoDesk] /\ desk[u].pc = "insert"
      BY <1>6, Zenon DEF InsertBooking
    <2>2. desk[u] # NoDesk
      BY <2>1 DEF NoDesk
    <2>3. desk[t] = NoDesk \/ t = u
      BY <2>2 DEF RequestsApart
    <2>4. QED
      BY <2>1, <2>3 DEF TypeOK
  <1>7. ASSUME NEW u \in Threads, AnswerSoldOut(u) PROVE Holds(t)
    BY <1>1, <1>2, <1>7 DEF AnswerSoldOut, TypeOK
  <1>8. ASSUME UNCHANGED desk PROVE Holds(t)
    BY <1>1, <1>8
  <1>9. Holds(t)
    BY <1>2, <1>3, <1>4, <1>5, <1>6, <1>7, <1>8, Zenon
       DEF Next, vars, LoadBookings, DestroyRoom, CancelBooking, CreateRoom, ImportRow,
           SaveRoom, UpdateRoom
  <1>10. QED
    BY <1>0, <1>6, <1>9

\* A room that was found to have space keeps it until the booking is made.
LEMMA NextFits ==
  ASSUME TypeOK, TypeOK', RequestsApart, BookingFits, [Next]_vars
  PROVE  BookingFits'
  <1>0. house' = house
    BY Zenon DEF Next, vars, BeginBooking, CheckRoom, ValidateBooking, InsertBooking, AnswerSoldOut,
           LoadBookings, DestroyRoom, CancelBooking, CreateRoom, ImportRow, SaveRoom, UpdateRoom
  <1> SUFFICES ASSUME OneAtATime, NEW t \in Threads, NEW r \in desk'[t].empty, NEW day \in Days,
                      Between(day, desk'[t].started_at, desk'[t].finished_at)
               PROVE  SumQuantity(Occupants(r, day))' + desk'[t].quantity <= desk'[t].limit[r]
    BY <1>0, Zenon DEF BookingFits, OneAtATime
  <1>1. Holds(t) /\ \A u \in Threads : ~InsertBooking(u)
    BY RequestHolds
  <1>2. /\ SumQuantity(Occupants(r, day))' <= SumQuantity(Occupants(r, day))
        /\ SumQuantity(Occupants(r, day)) \in Nat /\ SumQuantity(Occupants(r, day))' \in Nat
    BY <1>1, BookingsOnlyLeave, FewerOccupants, Zenon
  <1>3. /\ r \in RoomIds /\ desk[t].started_at \in Int /\ desk[t].finished_at \in Int
        /\ desk[t].quantity \in 0..MaxUnits /\ desk[t].limit[r] \in Nat
    BY DEF TypeOK, Desk
  <1>4. /\ Between(day, desk[t].started_at, desk[t].finished_at)
        /\ desk'[t].quantity = desk[t].quantity /\ desk'[t].limit = desk[t].limit
        /\ \/ r \in desk[t].empty
           \/ Fits(t, r, SumQuantity(BookedRows(r, desk[t].started_at, desk[t].finished_at)))
    BY <1>1, Zenon DEF Holds
  <1>5. SumQuantity(Occupants(r, day)) + desk[t].quantity <= desk[t].limit[r]
    <2>1. CASE r \in desk[t].empty
      BY <1>4, <2>1, Zenon DEF BookingFits
    <2>2. CASE Fits(t, r, SumQuantity(BookedRows(r, desk[t].started_at, desk[t].finished_at)))
      <3> DEFINE rows == BookedRows(r, desk[t].started_at, desk[t].finished_at)
      <3>1. Occupants(r, day) \subseteq rows
        BY <1>3, <1>4, OccupantsAreBooked, Zenon
      <3>2. /\ UnitsOf(rows) \in SUBSET (BookingIds \X Amounts)
            /\ UnitsOf(Occupants(r, day)) \in SUBSET UnitsOf(rows)
        BY <3>1, Zenon DEF UnitsOf, BookedRows, LiveBookings
      <3>3. SumQuantity(Occupants(r, day)) <= SumQuantity(rows) /\ SumQuantity(rows) \in Nat
        BY <3>2, UnitsMonotone, UnitsFinite, Zenon DEF SumQuantity
      <3>4. SumQuantity(rows) + desk[t].quantity <= desk[t].limit[r]
        BY <2>2, Zenon DEF Fits
      <3> HIDE DEF rows
      <3>5. QED
        BY <1>2, <1>3, <3>3, <3>4, HotelAssumption
    <2>3. QED
      BY <1>4, <2>1, <2>2, Zenon
  <1>6. QED
    BY <1>2, <1>3, <1>4, <1>5, HotelAssumption

\* No day is overbooked by a step: an insertion takes the space that was found,
\* and a room that is new has no bookings.
LEMMA NextNotOverbooked ==
  ASSUME TypeOK, TypeOK', RoomsKnown, BookingFits, OneAtATime => NeverOverbooked, [Next]_vars
  PROVE  (OneAtATime => NeverOverbooked)'
  <1>0. house' = house
    BY Zenon DEF Next, vars, BeginBooking, CheckRoom, ValidateBooking, InsertBooking, AnswerSoldOut,
           LoadBookings, DestroyRoom, CancelBooking, CreateRoom, ImportRow, SaveRoom, UpdateRoom
  <1> SUFFICES ASSUME OneAtATime, ~house.edits, NEW r \in RoomIds, NEW day \in Days,
                      rooms'[r].st = "live"
               PROVE  SumQuantity(Occupants(r, day))' <= rooms'[r].quantity
    BY <1>0 DEF NeverOverbooked, OneAtATime
  <1> DEFINE sum == SumQuantity(Occupants(r, day))
  <1>1. /\ UnitsOf(Occupants(r, day)) \in SUBSET (BookingIds \X Amounts)
        /\ UnitsOf(Occupants(r, day))' \in SUBSET (BookingIds \X Amounts)
    BY Zenon DEF UnitsOf, Occupants, LiveBookings, BookingIds, Amounts
  <1>2. sum \in Nat /\ sum' \in Nat
    BY <1>1, UnitsFinite DEF SumQuantity
  <1>3. rooms[r].quantity \in Nat /\ rooms'[r].quantity \in Nat
    BY DEF TypeOK, RoomRow
  <1>4. rooms[r].st = "live" => sum <= rooms[r].quantity
    BY DEF NeverOverbooked
  <1>5. ASSUME NEW t \in Threads, InsertBooking(t) PROVE sum' <= rooms'[r].quantity
    <2>1. PICK b \in BookingIds, x \in desk[t].empty :
            /\ IsFirst(x, desk[t].empty) /\ x \in RoomIds
            /\ bookings[b].st = "new"
            /\ bookings' = [bookings EXCEPT ![b] = bookings'[b]]
            /\ bookings'[b].st = "live" /\ bookings'[b].room = x
            /\ bookings'[b].started_at = desk[t].started_at
            /\ bookings'[b].finished_at = desk[t].finished_at
            /\ bookings'[b].quantity = desk[t].quantity
            /\ rooms' = rooms
      BY <1>5, BookingInserted, Zenon
    <2>2. desk[t].quantity \in 0..MaxUnits
      BY Zenon DEF TypeOK, Desk
    <2>3. \A c \in BookingIds \ {b} : bookings'[c] = bookings[c]
      BY <2>1, Zenon DEF TypeOK
    <2>4. CASE x = r /\ Between(day, desk[t].started_at, desk[t].finished_at)
      <3>1. UnitsOf(Occupants(r, day))'
               \subseteq UnitsOf(Occupants(r, day)) \cup ({b} \X (1..desk[t].quantity))
        BY <2>1, <2>2, <2>3, HotelAssumption DEF UnitsOf, Occupants, LiveBookings, Amounts
      <3>2. {b} \X (1..desk[t].quantity) \in SUBSET (BookingIds \X Amounts)
        BY <2>2, HotelAssumption DEF Amounts
      <3>3. Cardinality(UnitsOf(Occupants(r, day)) \cup ({b} \X (1..desk[t].quantity)))
               <= sum + desk[t].quantity
        BY <1>1, <2>2, UnitsOfOneMore, Zenon DEF SumQuantity
      <3>4. sum' <= Cardinality(UnitsOf(Occupants(r, day)) \cup ({b} \X (1..desk[t].quantity)))
        BY <1>1, <3>1, <3>2, UnitsMonotone, Zenon DEF SumQuantity
      <3>5. Cardinality(UnitsOf(Occupants(r, day)) \cup ({b} \X (1..desk[t].quantity))) \in Nat
        BY <1>1, <3>2, UnitsFinite, Zenon
      <3>6. sum + desk[t].quantity <= desk[t].limit[r]
        BY <2>4, Zenon DEF BookingFits
      <3>7. desk[t].limit[r] = rooms[r].quantity
        BY <2>1, <2>4, Zenon DEF RoomsKnown
      <3>8. QED
        BY <1>2, <1>3, <2>1, <2>2, <3>3, <3>4, <3>5, <3>6, <3>7, HotelAssumption
    <2>5. CASE ~(x = r /\ Between(day, desk[t].started_at, desk[t].finished_at))
      <3>1. Occupants(r, day)' \subseteq Occupants(r, day) \ {b}
        BY <2>1, <2>3, <2>5, Zenon DEF Occupants, LiveBookings
      <3>2. UnitsOf(Occupants(r, day))' \in SUBSET UnitsOf(Occupants(r, day))
        BY <2>3, <3>1, Zenon DEF UnitsOf, Occupants, LiveBookings
      <3>3. sum' <= sum
        BY <1>1, <3>2, UnitsMonotone DEF SumQuantity
      <3>4. QED
        BY <1>2, <1>3, <1>4, <2>1, <3>3
    <2>6. QED
      BY <2>4, <2>5
  <1>6. ASSUME \A t \in Threads : ~InsertBooking(t) PROVE sum' <= rooms'[r].quantity
    <2>1. \A b \in BookingIds : bookings'[b].st = "live" => bookings'[b] = bookings[b]
      BY <1>6, BookingsOnlyLeave
    <2>2. CASE rooms[r].st = "new"
      <3>1. Occupants(r, day)' = {}
        BY <2>1, <2>2 DEF Occupants, LiveBookings, RoomsKnown
      <3>2. UnitsOf(Occupants(r, day))' = {}
        BY <3>1 DEF UnitsOf
      <3>3. sum' = 0
        BY <3>2, FS_EmptySet DEF SumQuantity
      <3>4. QED
        BY <1>3, <3>3
    <2>3. CASE rooms[r].st # "new"
      <3>1. rooms[r].st = "live" /\ rooms'[r].quantity = rooms[r].quantity
        BY <2>3, RoomsLast, Zenon
      <3>2. sum' <= sum
        BY <2>1, FewerOccupants
      <3>3. QED
        BY <1>2, <1>3, <1>4, <3>1, <3>2
    <2>4. QED
      BY <2>2, <2>3
  <1>7. QED
    BY <1>5, <1>6

\* No booking outlives its room: one is inserted in a room that is still there,
\* and a room leaves with its bookings.
LEMMA NextHasRoom ==
  ASSUME TypeOK, TypeOK', RoomsKnown, NothingStale, BookingHasRoom, [Next]_vars
  PROVE  BookingHasRoom'
  <1>0. house' = house
    BY Zenon DEF Next, vars, BeginBooking, CheckRoom, ValidateBooking, InsertBooking, AnswerSoldOut,
           LoadBookings, DestroyRoom, CancelBooking, CreateRoom, ImportRow, SaveRoom, UpdateRoom
  <1> SUFFICES ASSUME house.oneThread, NEW b \in BookingIds, bookings'[b].st = "live"
               PROVE  rooms'[bookings'[b].room].st = "live"
    BY <1>0, Zenon DEF BookingHasRoom, LiveBookings
  <1>1. ASSUME NEW t \in Threads, InsertBooking(t) PROVE rooms'[bookings'[b].room].st = "live"
    <2>1. PICK c \in BookingIds, x \in desk[t].empty :
            /\ IsFirst(x, desk[t].empty) /\ x \in RoomIds
            /\ bookings' = [bookings EXCEPT ![c] = bookings'[c]]
            /\ bookings'[c].room = x
            /\ rooms' = rooms
      BY <1>1, BookingInserted
    <2>2. desk[t].pc = "insert"
      BY <1>1, Zenon DEF InsertBooking
    <2>3. rooms[x].st = "live"
      BY <2>1, <2>2, Zenon DEF NothingStale
    <2>4. CASE b = c
      BY <2>1, <2>3, <2>4, Zenon
    <2>5. CASE b # c
      <3>1. bookings'[b] = bookings[b]
        BY <2>1, <2>5 DEF TypeOK
      <3>2. QED
        BY <2>1, <3>1, Zenon DEF BookingHasRoom, LiveBookings
    <2>6. QED
      BY <2>4, <2>5, Zenon
  <1>2. ASSUME \A t \in Threads : ~InsertBooking(t)
        PROVE  rooms'[bookings'[b].room].st = "live"
    <2>1. bookings'[b] = bookings[b]
      BY <1>2, BookingsOnlyLeave
    <2>2. bookings[b].room \in RoomIds /\ rooms[bookings[b].room].st = "live"
      BY <2>1, Zenon DEF BookingHasRoom, LiveBookings, RoomsKnown
    <2>3. ASSUME NEW t \in Threads, DestroyRoom(t) PROVE rooms'[bookings'[b].room].st = "live"
      <3>1. b \notin closing[t].bookings
        <4>1. SUFFICES ASSUME b \in closing[t].bookings PROVE FALSE
          OBVIOUS
        <4>2. bookings'[b] = [bookings[b] EXCEPT !.st = "gone"]
          BY <2>3, <4>1, Zenon DEF DestroyRoom
        <4>3. bookings'[b].st = "gone"
          BY <4>2 DEF TypeOK, BookingRow
        <4>4. QED
          BY <4>3
      <3>2. closing[t].room # 0
        BY <2>3, Zenon DEF DestroyRoom
      <3>3. closing[t].room # bookings[b].room
        BY <2>1, <3>1, <3>2, Zenon DEF NothingStale, DependentBookings, LiveBookings
      <3>4. rooms'[bookings[b].room] = rooms[bookings[b].room]
        BY <2>2, <2>3, <3>3, Zenon DEF DestroyRoom, TypeOK
      <3>5. QED
        BY <2>1, <2>2, <3>4, Zenon
    <2>4. QED
      BY <2>1, <2>2, <2>3, RoomsLast, Zenon
  <1>3. QED
    BY <1>1, <1>2, Zenon

-----------------------------------------------------------------------------
(***************************************************************************)
(* The invariant.                                                          *)
(***************************************************************************)
\* An empty hotel satisfies it.
LEMMA InitInv == Init => HotelInv
  <1> SUFFICES ASSUME Init PROVE HotelInv
    OBVIOUS
  <1>1. TypeOK
    BY InitType
  <1>2. LiveBookings = {}
    BY DEF Init, LiveBookings, NoBooking
  <1>3. \A t \in Threads : desk[t] = NoDesk /\ closing[t] = NotClosing
    BY DEF Init
  <1>4. /\ NoDesk.pc = "idle" /\ NoDesk.todo = {} /\ NoDesk.empty = {} /\ NoDesk.rooms = {}
        /\ NotClosing.room = 0
    BY DEF NoDesk, NotClosing
  <1>5. \A r \in RoomIds : rooms[r].st = "new"
    BY DEF Init, NoRoom
  <1>6. RequestsApart
    BY <1>3 DEF RequestsApart, Idle
  <1>7. RoomsKnown
    BY <1>2, <1>3, <1>4 DEF RoomsKnown
  <1>8. NothingStale
    BY <1>3, <1>4 DEF NothingStale
  <1>9. BookingFits
    BY <1>3, <1>4 DEF BookingFits
  <1>10. NeverOverbooked
    BY <1>5 DEF NeverOverbooked
  <1>11. BookingHasRoom
    BY <1>2 DEF BookingHasRoom
  <1>12. QED
    BY <1>1, <1>6, <1>7, <1>8, <1>9, <1>10, <1>11 DEF HotelInv

\* Every step preserves it.
LEMMA NextInv == HotelInv /\ [Next]_vars => HotelInv'
  <1> SUFFICES ASSUME HotelInv, [Next]_vars PROVE HotelInv'
    OBVIOUS
  <1> USE DEF HotelInv
  <1>1. TypeOK'
    BY NextType
  <1>2. RequestsApart' /\ RoomsKnown' /\ NothingStale'
    BY <1>1, NextApart, NextKnown, NextStale
  <1>3. BookingFits' /\ BookingHasRoom'
    BY <1>1, NextFits, NextHasRoom
  <1>4. (OneAtATime => NeverOverbooked)'
    BY <1>1, NextNotOverbooked
  <1>5. QED
    BY <1>1, <1>2, <1>3, <1>4

(***************************************************************************)
(* HotelInv holds throughout, for any number of rooms, bookings, units,    *)
(* days and Puma threads.                                                  *)
(***************************************************************************)
THEOREM HotelSafe == Spec => []HotelInv
  BY InitInv, NextInv, PTL DEF Spec

(***************************************************************************)
(* Where BookingsController#create runs for one guest at a time and staff  *)
(* leave quantities alone, no day has more rooms booked than the row       *)
(* stands for, although the scopes of the query drop the room condition    *)
(* and rooms come and go and bookings are cancelled meanwhile.             *)
(***************************************************************************)
THEOREM NeverOverbookedOneAtATime == Spec => [](OneAtATime => NeverOverbooked)
  <1>1. HotelInv => (OneAtATime => NeverOverbooked)
    BY DEF HotelInv
  <1>2. QED
    BY <1>1, HotelSafe, PTL

(***************************************************************************)
(* With one thread no booking outlives its room, although no foreign key   *)
(* ties them (RoomsController#destroy, dependent: :destroy).               *)
(***************************************************************************)
THEOREM BookingsKeepRooms == Spec => []BookingHasRoom
  <1>1. HotelInv => BookingHasRoom
    BY DEF HotelInv
  <1>2. QED
    BY <1>1, HotelSafe, PTL
=============================================================================
