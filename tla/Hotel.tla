-------------------------------- MODULE Hotel --------------------------------
(***************************************************************************)
(* The pet hotel: rooms (a row stands for a number of equal rooms) and     *)
(* their bookings.  BookingsController, RoomsController and the scopes of  *)
(* the Booking model; the requests interleave as in module Shop.           *)
(***************************************************************************)
EXTENDS Integers, FiniteSets

CONSTANTS
    MaxRooms,    \* bound: rows ever inserted into rooms
    MaxBookings, \* bound: rows ever inserted into bookings
    MaxUnits,    \* bound: rooms one booking may ask for
    Kinds,       \* a room's r_type and weight class
    Capacities,  \* quantities staff may give a room row
    Days,        \* the days stays may start and finish
    Threads,     \* Puma threads
    Houses       \* the circumstances Init chooses from

ASSUME HotelAssumption ==
    /\ MaxRooms \in Nat /\ MaxBookings \in Nat /\ MaxUnits \in Nat
    /\ Capacities \subseteq Nat
    /\ Days \subseteq Int
    /\ \A h \in Houses :
          /\ h.edits \in BOOLEAN      \* staff change quantities while guests book
          /\ h.oneDesk \in BOOLEAN    \* bookings never overlap in time
          /\ h.oneThread \in BOOLEAN  \* nor does any other request

VARIABLES
    rooms,      \* the rooms table
    bookings,   \* the bookings table
    desk,       \* the locals of each booking request
    closing,    \* the locals of each room destroy
    house       \* the member of Houses chosen

vars == <<rooms, bookings, desk, closing, house>>

RoomIds == 1..MaxRooms
BookingIds == 1..MaxBookings
Amounts == 1..MaxUnits

\* A row: "new" ids are not yet given out, "gone" rows are deleted.
RoomRow == [st : {"new", "live", "gone"}, kind : Kinds \cup {"none"}, quantity : Nat]

NoRoom == [st |-> "new", kind |-> "none", quantity |-> 0]

BookingRow ==
    [st : {"new", "live", "gone"}, room : 0..MaxRooms, started_at : Int,
     finished_at : Int, quantity : 0..MaxUnits]

NoBooking ==
    [st |-> "new", room |-> 0, started_at |-> 0, finished_at |-> 0, quantity |-> 0]

\* A booking request: the rooms it found with their quantities, those it has
\* still to query and those with space.
Desk ==
    [pc : {"idle", "check", "insert", "sold_out"}, started_at : Int,
     finished_at : Int, quantity : 0..MaxUnits, rooms : SUBSET RoomIds,
     limit : [RoomIds -> Nat], todo : SUBSET RoomIds, empty : SUBSET RoomIds]

NoDesk ==
    [pc |-> "idle", started_at |-> 0, finished_at |-> 0, quantity |-> 0,
     rooms |-> {}, limit |-> [r \in RoomIds |-> 0], todo |-> {}, empty |-> {}]

Closing == [room : 0..MaxRooms, bookings : SUBSET BookingIds]

NotClosing == [room |-> 0, bookings |-> {}]

Idle(t) == desk[t] = NoDesk /\ closing[t] = NotClosing

Free(t) == Idle(t) /\ (house.oneThread => \A other \in Threads : Idle(other))

\* A request of one statement is served by any free thread, within one step.
ThreadFree == \E t \in Threads : Free(t)

IsFirst(x, S) == x \in S /\ \A y \in S : x <= y

LiveBookings == {b \in BookingIds : bookings[b].st = "live"}

-----------------------------------------------------------------------------
(***************************************************************************)
(* where(room_id: r).booked_r(s, f).  The scopes combine four BETWEENs     *)
(* with or; in the two that are written Booking.where(...) Rails drops the *)
(* relation the scope is called on, so those two match any room's rows.    *)
(***************************************************************************)
Between(x, lo, hi) == lo <= x /\ x <= hi

BookedStrict(row, r, s, f) ==
    row.room = r /\ row.started_at < f /\ s < row.finished_at

Booked(row, r, s, f) ==
    \/ row.room = r /\ Between(row.started_at, s, f)
    \/ Between(row.finished_at, s, f)

BookedR(row, r, s, f) ==
    \/ row.room = r /\ Between(s, row.started_at, row.finished_at)
    \/ Between(f, row.started_at, row.finished_at)
    \/ Booked(row, r, s, f)

\* sum(:quantity), as the number of units the rows stand for.
UnitsOf(B) == {u \in B \X Amounts : u[2] <= bookings[u[1]].quantity}

SumQuantity(B) == Cardinality(UnitsOf(B))

BookedRows(r, s, f) == {b \in LiveBookings : BookedR(bookings[b], r, s, f)}

-----------------------------------------------------------------------------
(***************************************************************************)
(* create: load the rooms of the kind, then query each room's bookings ... *)
(***************************************************************************)
BeginBooking(t, kind, s, f, n) ==
    LET found == {r \in RoomIds : rooms[r].st = "live" /\ rooms[r].kind = kind} IN
    /\ Free(t)
    /\ house.oneDesk => \A other \in Threads : desk[other] = NoDesk
    /\ Cardinality({x \in Threads : desk[x] # NoDesk})
          < Cardinality({b \in BookingIds : bookings[b].st = "new"})
    /\ desk' = [desk EXCEPT ![t] =
          [pc |-> "check", started_at |-> s, finished_at |-> f, quantity |-> n,
           rooms |-> found,
           limit |-> [r \in RoomIds |-> IF r \in found THEN rooms[r].quantity ELSE 0],
           todo |-> found, empty |-> {}]]
    /\ UNCHANGED <<rooms, bookings, closing, house>>

(***************************************************************************)
(* ... one room after the other, keeping those with space ...              *)
(***************************************************************************)
FitsOffByOne(t, r, sum) == sum < desk[t].limit[r]

Fits(t, r, sum) == sum + desk[t].quantity <= desk[t].limit[r]

CheckRoom(t) ==
    LET d == desk[t] IN
    /\ d.pc = "check"
    /\ \E r \in d.todo :
          /\ IsFirst(r, d.todo)
          /\ desk' = [desk EXCEPT ![t] = [d EXCEPT
                !.todo = d.todo \ {r},
                !.empty = IF Fits(t, r, SumQuantity(
                                  BookedRows(r, d.started_at, d.finished_at)))
                          THEN d.empty \cup {r} ELSE d.empty]]
    /\ UNCHANGED <<rooms, bookings, closing, house>>

(***************************************************************************)
(* ... and create! in the first of them, whose belongs_to :room is         *)
(* validated first (RecordInvalid ends the request); or the "sold out"     *)
(* notice.                                                                 *)
(***************************************************************************)
ValidateBooking(t) ==
    /\ desk[t].pc = "check" /\ desk[t].todo = {}
    /\ \/ /\ desk[t].empty = {}
          /\ desk' = [desk EXCEPT ![t].pc = "sold_out"]
       \/ \E r \in desk[t].empty :
             /\ IsFirst(r, desk[t].empty)
             /\ desk' = [desk EXCEPT ![t] =
                   IF rooms[r].st = "live" THEN [@ EXCEPT !.pc = "insert"] ELSE NoDesk]
    /\ UNCHANGED <<rooms, bookings, closing, house>>

InsertBooking(t) ==
    /\ desk[t].pc = "insert"
    /\ \E b \in BookingIds, r \in desk[t].empty :
          /\ IsFirst(b, {x \in BookingIds : bookings[x].st = "new"})
          /\ IsFirst(r, desk[t].empty)
          /\ bookings' = [bookings EXCEPT ![b] =
                [st |-> "live", room |-> r, started_at |-> desk[t].started_at,
                 finished_at |-> desk[t].finished_at, quantity |-> desk[t].quantity]]
    /\ desk' = [desk EXCEPT ![t] = NoDesk]
    /\ UNCHANGED <<rooms, closing, house>>

\* The page with the "sold out" notice is rendered.
AnswerSoldOut(t) ==
    /\ desk[t].pc = "sold_out"
    /\ desk' = [desk EXCEPT ![t] = NoDesk]
    /\ UNCHANGED <<rooms, bookings, closing, house>>

\* BookingsController#destroy: cancel by id.
CancelBooking(b) ==
    /\ ThreadFree
    /\ bookings[b].st = "live"
    /\ bookings' = [bookings EXCEPT ![b].st = "gone"]
    /\ UNCHANGED <<rooms, desk, closing, house>>

-----------------------------------------------------------------------------
\* room.save of a new row.
SaveRoom(r, kind, quantity) ==
    /\ ThreadFree
    /\ IsFirst(r, {x \in RoomIds : rooms[x].st = "new"})
    /\ rooms' = [rooms EXCEPT ![r] =
          [st |-> "live", kind |-> kind, quantity |-> quantity]]
    /\ UNCHANGED <<bookings, desk, closing, house>>

\* RoomsController#create
CreateRoom(r, kind, quantity) == SaveRoom(r, kind, quantity)

(***************************************************************************)
(* import saves the rows of a sheet one by one, each in a transaction of   *)
(* its own; a row that raises ends it and the rows before stay.            *)
(***************************************************************************)
ImportRow(r, kind, quantity) == SaveRoom(r, kind, quantity)

(***************************************************************************)
(* update loads the row and writes the columns that differ from the form;  *)
(* as the form may hold any values, that is one write of any values.       *)
(***************************************************************************)
UpdateRoom(r, kind, quantity) ==
    /\ house.edits /\ ThreadFree
    /\ rooms[r].st = "live"
    /\ rooms' = [rooms EXCEPT ![r].kind = kind, ![r].quantity = quantity]
    /\ UNCHANGED <<bookings, desk, closing, house>>

(***************************************************************************)
(* destroy: dependent: :destroy loads the bookings of the room in the      *)
(* transaction that then deletes them and the room.  There is no foreign   *)
(* key: a booking inserted in between stays.                               *)
(***************************************************************************)
NoDependentBookings(r) == {}

DependentBookings(r) == {b \in LiveBookings : bookings[b].room = r}

LoadBookings(t, r) ==
    /\ Free(t)
    /\ rooms[r].st = "live"
    /\ closing' = [closing EXCEPT ![t] = [room |-> r, bookings |-> DependentBookings(r)]]
    /\ UNCHANGED <<rooms, bookings, desk, house>>

DestroyRoom(t) ==
    /\ closing[t].room # 0
    /\ rooms' = [rooms EXCEPT ![closing[t].room].st = "gone"]
    /\ bookings' = [b \in BookingIds |-> IF b \in closing[t].bookings
          THEN [bookings[b] EXCEPT !.st = "gone"] ELSE bookings[b]]
    /\ closing' = [closing EXCEPT ![t] = NotClosing]
    /\ UNCHANGED <<desk, house>>

-----------------------------------------------------------------------------
Init ==
    /\ house \in Houses
    /\ rooms = [r \in RoomIds |-> NoRoom]
    /\ bookings = [b \in BookingIds |-> NoBooking]
    /\ desk = [t \in Threads |-> NoDesk]
    /\ closing = [t \in Threads |-> NotClosing]

Next ==
    \/ \E t \in Threads :
          \/ \E kind \in Kinds, s, f \in Days, n \in Amounts : BeginBooking(t, kind, s, f, n)
          \/ CheckRoom(t) \/ ValidateBooking(t) \/ InsertBooking(t) \/ AnswerSoldOut(t)
          \/ \E r \in RoomIds : LoadBookings(t, r)
          \/ DestroyRoom(t)
    \/ \E b \in BookingIds : CancelBooking(b)
    \/ \E r \in RoomIds, kind \in Kinds, q \in Capacities :
          CreateRoom(r, kind, q) \/ ImportRow(r, kind, q) \/ UpdateRoom(r, kind, q)

Spec == Init /\ [][Next]_vars

-----------------------------------------------------------------------------
\* The rows of both tables, and the locals of every request, have their types.
TypeOK ==
    /\ rooms \in [RoomIds -> RoomRow]
    /\ bookings \in [BookingIds -> BookingRow]
    /\ desk \in [Threads -> Desk]
    /\ closing \in [Threads -> Closing]
    /\ house \in Houses

\* No two bookings are in the making at once.
OneAtATime == house.oneDesk \/ house.oneThread

\* The bookings of a room that keep it occupied on a day.
Occupants(r, day) ==
    {b \in LiveBookings : /\ bookings[b].room = r
                          /\ Between(day, bookings[b].started_at, bookings[b].finished_at)}

(***************************************************************************)
(* Where bookings are taken one at a time, and whatever staff and          *)
(* cancellations do meanwhile, a room BookingsController#create holds to   *)
(* be empty has space for the whole stay, on every day of it, within the   *)
(* quantity the request read.                                              *)
(***************************************************************************)
BookingFits ==
    OneAtATime => \A t \in Threads : \A r \in desk[t].empty, day \in Days :
        Between(day, desk[t].started_at, desk[t].finished_at) =>
            SumQuantity(Occupants(r, day)) + desk[t].quantity <= desk[t].limit[r]

(***************************************************************************)
(* "The room you selected is sold out": while staff leave the quantities   *)
(* alone, no day ever has more rooms booked than the row stands for.       *)
(***************************************************************************)
NeverOverbooked ==
    ~house.edits => \A r \in RoomIds, day \in Days : rooms[r].st = "live" =>
        SumQuantity(Occupants(r, day)) <= rooms[r].quantity

(***************************************************************************)
(* With one thread no booking outlives its room (bookings/index and the    *)
(* booking list read booking.room).                                        *)
(***************************************************************************)
BookingHasRoom ==
    house.oneThread => \A b \in LiveBookings : rooms[bookings[b].room].st = "live"

\* A thread serves one request, and requests overlap only as far as they may.
RequestsApart ==
    /\ \A t \in Threads :
          /\ desk[t].pc = "idle" => desk[t] = NoDesk
          /\ closing[t].room = 0 => closing[t] = NotClosing
          /\ desk[t] = NoDesk \/ closing[t] = NotClosing
    /\ OneAtATime => \A t, u \in Threads : desk[t] # NoDesk /\ desk[u] # NoDesk => t = u
    /\ house.oneThread => \A t, u \in Threads : ~Idle(t) /\ ~Idle(u) => t = u

\* Bookings and requests name rooms that exist or existed, and the quantity a
\* request read is still the room's, unless staff may change it.
RoomsKnown ==
    /\ \A b \in LiveBookings :
          bookings[b].room \in RoomIds /\ rooms[bookings[b].room].st # "new"
    /\ \A t \in Threads :
          /\ desk[t].todo \cup desk[t].empty \subseteq desk[t].rooms
          /\ \A r \in desk[t].rooms :
                /\ rooms[r].st # "new"
                /\ ~house.edits /\ rooms[r].st = "live" =>
                      desk[t].limit[r] = rooms[r].quantity

\* With one thread, what a request read is still so: the room of a booking
\* that was validated, and the bookings of a room about to be deleted.
NothingStale ==
    house.oneThread => \A t \in Threads :
        /\ desk[t].pc = "insert" => \A r \in desk[t].empty :
              IsFirst(r, desk[t].empty) => rooms[r].st = "live"
        /\ closing[t].room # 0 =>
              DependentBookings(closing[t].room) \subseteq closing[t].bookings

(***************************************************************************)
(* The inductive invariant of the hotel: the three properties above and    *)
(* what they rest on, that requests stay apart as far as the circumstances *)
(* say, name rooms that exist, and hold nothing stale where nothing else   *)
(* runs (BookingsController#create, RoomsController#destroy).              *)
(***************************************************************************)
HotelInv ==
    /\ TypeOK /\ RequestsApart /\ RoomsKnown /\ NothingStale
    /\ BookingFits /\ (OneAtATime => NeverOverbooked) /\ BookingHasRoom
=============================================================================
