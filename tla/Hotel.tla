-------------------------------- MODULE Hotel --------------------------------
(***************************************************************************)
(* The hotel application: a frontend that stores hotels, searches them and *)
(* books rooms by calling the user, search, rate, reservation and profile  *)
(* services one after the other, each with a Redis of its own.  A service  *)
(* that changes a value reads it, computes and writes it back, with no     *)
(* lock and no transaction; the frontend stops at the first call that      *)
(* fails and undoes nothing.                                               *)
(*                                                                         *)
(* Source: src/hotelApp/internal/hotel/{frontend, reservation, search,     *)
(* rate, profile, user}.go.  A step of a request is one access to a Redis. *)
(* A call that fails after its effect is Fail at the next step.  Dates are *)
(* numbers: the strings compare as their days do.  A profile's text and a  *)
(* rate's price are left out: only the keys that exist matter.             *)
(***************************************************************************)
EXTENDS Integers, Sequences, FiniteSets, Functions, StateStore

CONSTANTS
  Requests,   \* slots for requests in flight; a finished slot is reused
  Hotels, Locations, Customers, Passwords,
  Capacities, \* the capacities hotels are stored with
  Bookings,   \* what customers ask for
  Limit       \* entries a list keeps (10 in the code)

ASSUME HotelAssumption ==
  /\ Bookings \subseteq [customer : Customers, hotel : Hotels, in : Int, out : Int, rooms : Nat]
  /\ \A b \in Bookings : b.in <= b.out
  /\ Capacities \subseteq Nat
  /\ Limit \in Nat \ {0}
  /\ Hotels # {} /\ Locations # {} /\ Bookings # {} /\ Capacities # {}

VARIABLES
  users,    \* user: the passwords
  listed,   \* search: the hotels of each location
  rates,    \* rate: the hotels that have one
  avail,    \* reservation: capacity and reservations of each hotel
  profiles, \* profile: the hotels that have one
  req,      \* the requests in flight
  broken    \* hotels a StoreHotel has failed on, for the properties alone

vars == <<users, listed, rates, avail, profiles, req, broken>>

Availability == [capacity : Capacities, reservations : Seq(Bookings)]

Step == {"idle", "reserve", "book", "list", "rate", "avail", "profile", "rates", "free",
         "profiles"}

\* pc: the access that comes next; next, found: the value a write will store; todo, found:
\* what a loop has still to read, has kept; stale (for the properties alone): what a write
\* will store was computed from a value that has been overwritten since.
Request == [pc : Step, hotel : Hotels, place : Locations, booking : Bookings,
            next : Availability, todo : Seq(Hotels), found : Seq(Hotels), stale : BOOLEAN]

Idle == [pc |-> "idle", hotel |-> CHOOSE h \in Hotels : TRUE,
         place |-> CHOOSE l \in Locations : TRUE, booking |-> CHOOSE b \in Bookings : TRUE,
         next |-> [capacity |-> CHOOSE c \in Capacities : TRUE, reservations |-> <<>>],
         todo |-> <<>>, found |-> <<>>, stale |-> FALSE]

At(r, step) == req[r].pc = step
Become(r, x) == req' = [req EXCEPT ![r] = x]

\* Request r becomes x by a write that overtakes those of S.
Overtake(r, x, S) ==
  req' = [q \in Requests |-> IF q = r THEN x
                             ELSE IF q \in S THEN [req[q] EXCEPT !.stale = TRUE] ELSE req[q]]

\* A full list loses its oldest entry.
Push(list, x) == Append(IF Len(list) >= Limit THEN Tail(list) ELSE list, x)

DatesIntersect(a, b) == ~(b.in > a.out \/ a.in > b.out)

\* Mutant: the rooms asked for are not counted.
FitsIgnoringRooms(a, b) ==
  Cardinality({i \in DOMAIN a.reservations : DatesIntersect(b, a.reservations[i])})
    <= a.capacity

\* checkAvailability: reservations count one each, whatever their number of rooms.
Fits(a, b) ==
  Cardinality({i \in DOMAIN a.reservations : DatesIntersect(b, a.reservations[i])}) + b.rooms
    <= a.capacity

Init ==
  /\ users = Empty /\ listed = Empty /\ avail = Empty
  /\ rates = {} /\ profiles = {} /\ broken = {}
  /\ req = [r \in Requests |-> Idle]
-----------------------------------------------------------------------------
(* User.                                                                   *)

\* A name that is taken is overwritten.
RegisterUser(u, w) ==
  /\ users' = SetState(users, u, w)
  /\ UNCHANGED <<listed, rates, avail, profiles, req, broken>>
-----------------------------------------------------------------------------
(* FrontendReservation: Login, then MakeReservation.                       *)

\* Without the password the answer is false and nothing changes.
FrontendReservation(r, b, w) ==
  /\ At(r, "idle")
  /\ Found(users, b.customer) /\ users[b.customer] = w
  /\ Become(r, [Idle EXCEPT !.pc = "reserve", !.hotel = b.hotel, !.booking = b])
  /\ UNCHANGED <<users, listed, rates, avail, profiles, broken>>

\* Mutant: the room is promised without a look at the reservations.
ReadUnchecked(r) ==
  LET h == req[r].hotel IN
  /\ At(r, "reserve")
  /\ Found(avail, h)
  /\ Become(r, [req[r] EXCEPT !.pc = "book",
                   !.next = [avail[h] EXCEPT !.reservations = Push(@, req[r].booking)]])
  /\ UNCHANGED <<users, listed, rates, avail, profiles, broken>>

ReadAvailability(r) ==
  LET h == req[r].hotel  b == req[r].booking
      a == avail[h] IN
  /\ At(r, "reserve")
  /\ Found(avail, h)
  /\ Become(r, IF Fits(a, b)
               THEN [req[r] EXCEPT !.pc = "book",
                                   !.next = [a EXCEPT !.reservations = Push(@, b)]]
               ELSE Idle)
  /\ UNCHANGED <<users, listed, rates, avail, profiles, broken>>

Booking(h) == {q \in Requests : At(q, "book") /\ req[q].hotel = h}

WriteAvailability(r) ==
  /\ At(r, "book")
  /\ avail' = SetState(avail, req[r].hotel, req[r].next)
  /\ Overtake(r, Idle, Booking(req[r].hotel))
  /\ UNCHANGED <<users, listed, rates, profiles, broken>>
-----------------------------------------------------------------------------
(* StoreHotel: StoreHotelLocation, StoreRate, AddHotelAvailability,        *)
(* StoreProfile.                                                           *)

\* getHotelIdsForLocation: a key that is missing, or cannot be read, is the empty list.
Listed(l) == IF Found(listed, l) THEN listed[l] ELSE <<>>

StoreHotel(r, h, l, c) ==
  /\ At(r, "idle")
  /\ \E ids \in {Listed(l), <<>>} :
       Become(r, [Idle EXCEPT !.pc = "list", !.hotel = h, !.place = l, !.next.capacity = c,
                              !.found = Push(ids, h)])
  /\ UNCHANGED <<users, listed, rates, avail, profiles, broken>>

Listing(r) == [req[r] EXCEPT !.pc = "rate", !.found = <<>>, !.stale = FALSE]

\* The error of the write is ignored: the frontend goes on although nothing was listed.
WriteLocation(r) ==
  /\ At(r, "list")
  /\ \/ /\ listed' = SetState(listed, req[r].place, req[r].found)
        /\ Overtake(r, Listing(r), {q \in Requests : At(q, "list") /\ req[q].place = req[r].place})
     \/ /\ UNCHANGED listed
        /\ Become(r, Listing(r))
  /\ UNCHANGED <<users, rates, avail, profiles, broken>>

\* Mutant: the store goes on when the rate could not be written.
StoreRateIgnored(r) ==
  /\ At(r, "rate")
  /\ rates' \in {rates, rates \union {req[r].hotel}}
  /\ Become(r, [req[r] EXCEPT !.pc = "avail"])
  /\ UNCHANGED <<users, listed, avail, profiles, broken>>

StoreRate(r) ==
  /\ At(r, "rate")
  /\ rates' = rates \union {req[r].hotel}
  /\ Become(r, [req[r] EXCEPT !.pc = "avail"])
  /\ UNCHANGED <<users, listed, avail, profiles, broken>>

\* The reservations of a hotel that is stored again are gone.
AddHotelAvailability(r) ==
  /\ At(r, "avail")
  /\ avail' = SetState(avail, req[r].hotel, req[r].next)
  /\ Overtake(r, [req[r] EXCEPT !.pc = "profile"], Booking(req[r].hotel))
  /\ UNCHANGED <<users, listed, rates, profiles, broken>>

StoreProfile(r) ==
  /\ At(r, "profile")
  /\ profiles' = profiles \union {req[r].hotel}
  /\ broken' = broken \ {req[r].hotel}
  /\ Become(r, Idle)
  /\ UNCHANGED <<users, listed, rates, avail>>
-----------------------------------------------------------------------------
(* SearchHotels: Nearby with GetRates, CheckAvailability, GetProfiles.     *)

SearchHotels(r, l, b) ==
  /\ At(r, "idle")
  /\ \E ids \in {Listed(l), <<>>} :
       Become(r, [Idle EXCEPT !.pc = "rates", !.place = l, !.booking = b,
                              !.todo = ids])
  /\ UNCHANGED <<users, listed, rates, avail, profiles, broken>>

\* The loop of GetRates and that of CheckAvailability take the hotels one by one.
Keep(r, kept) ==
  Become(r, [req[r] EXCEPT !.todo = Tail(@),
                           !.found = IF kept THEN Append(@, Head(req[r].todo)) ELSE @])

GetRates(r) ==
  /\ At(r, "rates")
  /\ IF req[r].todo = <<>>
     THEN Become(r, [req[r] EXCEPT !.pc = "free", !.todo = req[r].found, !.found = <<>>])
     ELSE Head(req[r].todo) \in rates /\ Keep(r, TRUE)
  /\ UNCHANGED <<users, listed, rates, avail, profiles, broken>>

CheckAvailability(r) ==
  LET h == Head(req[r].todo) IN
  /\ At(r, "free")
  /\ IF req[r].todo = <<>>
     THEN Become(r, [req[r] EXCEPT !.pc = "profiles"])
     ELSE Found(avail, h) /\ Keep(r, Fits(avail[h], [req[r].booking EXCEPT !.rooms = 1]))
  /\ UNCHANGED <<users, listed, rates, avail, profiles, broken>>

\* A hotel that has no profile is answered with an empty one.
GetProfiles(r) ==
  /\ At(r, "profiles")
  /\ Become(r, Idle)
  /\ UNCHANGED <<users, listed, rates, avail, profiles, broken>>
-----------------------------------------------------------------------------
Storing(r) == req[r].pc \in {"list", "rate", "avail", "profile"}

\* The call in progress is refused or its access fails, or the key it reads is missing; the
\* frontend gives up, and answers false instead of the error when it was booking.
Fail(r) ==
  /\ ~At(r, "idle")
  /\ broken' = IF Storing(r) THEN broken \union {req[r].hotel} ELSE broken
  /\ Become(r, Idle)
  /\ UNCHANGED <<users, listed, rates, avail, profiles>>

Reserve(r) ==
  \/ \E b \in Bookings, w \in Passwords : FrontendReservation(r, b, w)
  \/ ReadAvailability(r) \/ WriteAvailability(r)

Store(r) ==
  \/ \E h \in Hotels, l \in Locations, c \in Capacities : StoreHotel(r, h, l, c)
  \/ WriteLocation(r) \/ StoreRate(r) \/ AddHotelAvailability(r) \/ StoreProfile(r)

Search(r) ==
  \/ \E l \in Locations, b \in Bookings : SearchHotels(r, l, b)
  \/ GetRates(r) \/ CheckAvailability(r) \/ GetProfiles(r)

Next ==
  \/ \E u \in Customers, w \in Passwords : RegisterUser(u, w)
  \/ \E r \in Requests : Reserve(r) \/ Store(r) \/ Search(r) \/ Fail(r)

Spec == Init /\ [][Next]_vars
-----------------------------------------------------------------------------
TypeOK ==
  /\ DOMAIN users \subseteq Customers
  /\ \A u \in DOMAIN users : users[u] \in Passwords
  /\ DOMAIN listed \subseteq Locations
  /\ \A l \in DOMAIN listed : listed[l] \in Seq(Hotels) /\ Len(listed[l]) <= Limit
  /\ DOMAIN avail \subseteq Hotels
  /\ \A h \in DOMAIN avail : avail[h] \in Availability /\ Len(avail[h].reservations) <= Limit
  /\ rates \subseteq Hotels /\ profiles \subseteq Hotels /\ broken \subseteq Hotels
  /\ req \in [Requests -> Request]

\* Each reservation of a list fitted in beside the ones that precede it there.
FittedInTurn(a) ==
  \A i \in DOMAIN a.reservations :
    Cardinality({j \in 1..(i - 1) : DatesIntersect(a.reservations[i], a.reservations[j])})
      + a.reservations[i].rooms <= a.capacity

\* However bookings and stores of a hotel overlap, and although the one written last discards
\* what the others wrote, a stored list is one that bookings made in turn could have left.
SerialReservations ==
  /\ \A h \in DOMAIN avail : FittedInTurn(avail[h])
  /\ \A r \in Requests : At(r, "book") => FittedInTurn(req[r].next)

\* A booking that no other write to its hotel overtook is atomic: it was checked against the
\* reservations its write extends, and the write loses at most the oldest of a full list.
AtomicUnlessOvertaken ==
  \A r \in Requests :
    At(r, "book") /\ ~req[r].stale =>
      LET a == avail[req[r].hotel] IN
      /\ Found(avail, req[r].hotel) /\ Fits(a, req[r].booking)
      /\ req[r].next = [a EXCEPT !.reservations = Push(@, req[r].booking)]

Whole(h) == h \in rates /\ h \in DOMAIN avail /\ h \in profiles

\* A hotel that a location lists, that a search has found there or that a store is about to
\* write back has its rate, availability and profile, unless a store of it is under way or
\* has failed: only then can a search of its location fail for want of them.
ListedIsWhole ==
  \A h \in UNION ({Range(listed[l]) : l \in DOMAIN listed}
                  \union {Range(req[r].todo) \union Range(req[r].found) : r \in Requests}) :
    Whole(h) \/ h \in broken \/ \E r \in Requests : Storing(r) /\ req[r].hotel = h

=============================================================================
