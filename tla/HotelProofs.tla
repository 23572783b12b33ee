----------------------------- MODULE HotelProofs -----------------------------
(***************************************************************************)
(* Proofs about Hotel, for any hotels, bookings, requests and Limit.       *)
(***************************************************************************)
EXTENDS Hotel, FiniteSetTheorems, TLAPS

\* A list shorter than Limit grows at its end.
LEMMA PushShort ==
  ASSUME NEW S, NEW s \in Seq(S), Len(s) < Limit, NEW x \in S
  PROVE  /\ Push(s, x) \in Seq(S)
         /\ Len(Push(s, x)) = Len(s) + 1
         /\ Push(s, x)[Len(s) + 1] = x
         /\ \A i \in 1..Len(s) : Push(s, x)[i] = s[i]
  BY HotelAssumption DEF Push

\* A full list moves on by one.
LEMMA PushFull ==
  ASSUME NEW S, NEW s \in Seq(S), Len(s) = Limit, NEW x \in S
  PROVE  /\ Push(s, x) \in Seq(S)
         /\ Len(Push(s, x)) = Len(s)
         /\ Push(s, x)[Len(s)] = x
         /\ \A i \in 1..(Len(s) - 1) : Push(s, x)[i] = s[i + 1]
  <1> DEFINE t == Tail(s)
  <1>1. Limit \in Nat \ {0} /\ s # <<>> /\ Push(s, x) = Append(t, x)
    BY HotelAssumption DEF Push
  <1>2. /\ t \in Seq(S) /\ Len(t) = Len(s) - 1
        /\ \A i \in 1..(Len(s) - 1) : t[i] = s[i + 1]
    BY <1>1
  <1> HIDE DEF t
  <1> QED
    BY <1>1, <1>2

LEMMA PushType ==
  ASSUME NEW S, NEW s \in Seq(S), Len(s) <= Limit, NEW x \in S
  PROVE  Push(s, x) \in Seq(S) /\ Len(Push(s, x)) <= Limit
  <1> Limit \in Nat
    BY HotelAssumption
  <1>1. CASE Len(s) < Limit
    BY <1>1, PushShort
  <1>2. CASE Len(s) = Limit
    BY <1>2, PushFull
  <1> QED
    BY <1>1, <1>2

LEMMA UpTo ==
  ASSUME NEW n \in Nat, NEW k \in Nat, n <= k
  PROVE  n < k \/ n = k
  OBVIOUS

LEMMA PushRange ==
  ASSUME NEW S, NEW s \in Seq(S), Len(s) <= Limit, NEW x \in S
  PROVE  Range(Push(s, x)) \subseteq Range(s) \union {x}
  <1> DEFINE p == Push(s, x)
  <1>1. Limit \in Nat /\ p \in Seq(S) /\ Len(s) \in Nat /\ DOMAIN s = 1..Len(s)
        /\ DOMAIN p = 1..Len(p)
    BY HotelAssumption, PushType
  <1> SUFFICES ASSUME NEW i \in DOMAIN p, p[i] # x
               PROVE  \E j \in DOMAIN s : p[i] = s[j]
    BY DEF Range
  <1>2. CASE Len(s) < Limit
    <2>1. Len(p) = Len(s) + 1 /\ p[Len(s) + 1] = x /\ \A k \in 1..Len(s) : p[k] = s[k]
      BY <1>2, PushShort
    <2> HIDE DEF p
    <2>2. i \in DOMAIN s
      BY <1>1, <2>1
    <2> QED
      BY <1>1, <2>1, <2>2
  <1>3. CASE Len(s) = Limit
    <2>1. Len(p) = Len(s) /\ p[Len(s)] = x /\ \A k \in 1..(Len(s) - 1) : p[k] = s[k + 1]
      BY <1>3, PushFull
    <2> HIDE DEF p
    <2>2. i \in 1..(Len(s) - 1) /\ i + 1 \in DOMAIN s
      BY <1>1, <2>1
    <2>3. p[i] = s[i + 1]
      BY <2>1, <2>2
    <2> QED
      BY <2>2, <2>3
  <1>4. Len(s) < Limit \/ Len(s) = Limit
    BY <1>1, UpTo, Zenon
  <1> HIDE DEF p
  <1> QED
    BY <1>2, <1>3, <1>4

\* Moving on by one counts no more.
LEMMA ShiftCount ==
  ASSUME NEW n \in Nat, NEW T \in SUBSET (1..(n + 1))
  PROVE  Cardinality({j \in 1..n : j + 1 \in T}) <= Cardinality(T)
  <1> DEFINE S == {j \in 1..n : j + 1 \in T}
             f == [j \in S |-> j + 1]
  <1>1. IsFiniteSet(T)
    <2>1. IsFiniteSet(1..(n + 1))
      BY FS_Interval
    <2> QED
      BY <2>1, FS_Subset
  <1>2. f \in Injection(S, T)
    BY DEF Injection, IsInjective
  <1> QED
    BY <1>1, <1>2, FS_Injection

LEMMA SumBound ==
  ASSUME NEW x \in Nat, NEW y \in Nat, NEW z \in Nat, NEW k \in Nat, x <= y, y + z <= k
  PROVE  x + z <= k
  OBVIOUS

\* The reservations of s before place i that meet the dates of b.
Meeting(s, b, i) == {j \in 1..(i - 1) : DatesIntersect(b, s[j])}

LEMMA MeetingFinite ==
  ASSUME NEW s, NEW b, NEW i \in Int
  PROVE  Meeting(s, b, i) \in SUBSET (1..(i - 1)) /\ IsFiniteSet(Meeting(s, b, i))
         /\ Cardinality(Meeting(s, b, i)) \in Nat
  <1>1. Meeting(s, b, i) \in SUBSET (1..(i - 1))
    BY DEF Meeting
  <1>2. IsFiniteSet(1..(i - 1))
    BY FS_Interval
  <1> QED
    BY <1>1, <1>2, FS_Subset, FS_CardinalityType

\* FittedInTurn of a list and a capacity.
InTurn(s, k) == \A i \in DOMAIN s : Cardinality(Meeting(s, s[i], i)) + s[i].rooms <= k

\* A booking that fits beside the others keeps the list one of bookings made in turn, also
\* when the oldest one makes room for it.
LEMMA PushInTurn ==
  ASSUME NEW s \in Seq(Bookings), Len(s) <= Limit, NEW k \in Nat, InTurn(s, k),
         NEW b \in Bookings, Cardinality(Meeting(s, b, Len(s) + 1)) + b.rooms <= k
  PROVE  InTurn(Push(s, b), k)
  <1> DEFINE n == Len(s)
             p == Push(s, b)
  <1>1. n \in Nat /\ Limit \in Nat \ {0} /\ DOMAIN s = 1..n
        /\ \A d \in Bookings : d.rooms \in Nat
    BY HotelAssumption
  <1>2. \A i \in 1..n : Cardinality(Meeting(s, s[i], i)) + s[i].rooms <= k
    BY <1>1 DEF InTurn
  <1> SUFFICES ASSUME NEW i \in DOMAIN p
               PROVE  Cardinality(Meeting(p, p[i], i)) + p[i].rooms <= k
    BY DEF InTurn
  <1>3. CASE n < Limit
    <2>1. /\ p \in Seq(Bookings) /\ Len(p) = n + 1 /\ p[n + 1] = b
          /\ \A j \in 1..n : p[j] = s[j]
      BY <1>3, PushShort
    <2> HIDE DEF p
    <2>2. i \in 1..(n + 1)
      BY <2>1
    <2>3. Meeting(p, p[i], i) = Meeting(s, p[i], i)
      BY <1>1, <2>1, <2>2 DEF Meeting
    <2> QED
      BY <1>1, <1>2, <2>1, <2>2, <2>3
  <1>4. CASE n = Limit
    <2>1. /\ p \in Seq(Bookings) /\ Len(p) = n /\ p[n] = b
          /\ \A j \in 1..(n - 1) : p[j] = s[j + 1]
      BY <1>4, PushFull
    <2> HIDE DEF p
    <2>2. i \in 1..n
      BY <2>1
    <2> DEFINE T == Meeting(s, p[i], i + 1)
    <2>3. T \in SUBSET (1..((i - 1) + 1)) /\ Cardinality(T) \in Nat
      BY <2>2, MeetingFinite
    <2>4. Meeting(p, p[i], i) = {j \in 1..(i - 1) : j + 1 \in T}
      BY <1>1, <2>1, <2>2 DEF Meeting
    <2>5. Cardinality(Meeting(p, p[i], i)) <= Cardinality(T)
      BY <2>2, <2>3, <2>4, ShiftCount
    <2>6. Cardinality(Meeting(p, p[i], i)) \in Nat /\ p[i] \in Bookings
      BY <2>1, <2>2, MeetingFinite
    <2>7. Cardinality(T) + p[i].rooms <= k
      <3>1. CASE i = n
        BY <2>1, <3>1
      <3>2. CASE i # n
        <4>1. p[i] = s[i + 1] /\ i + 1 \in 1..n
          BY <2>1, <2>2, <3>2, <1>1
        <4> QED
          BY <1>2, <4>1
      <3> QED
        BY <3>1, <3>2
    <2>8. p[i].rooms \in Nat
      BY <1>1, <2>6
    <2> HIDE DEF T
    <2> QED
      BY <2>3, <2>5, <2>6, <2>7, <2>8, SumBound
  <1>5. n < Limit \/ n = Limit
    <2>1. Limit \in Nat
      BY <1>1
    <2> QED
      BY <1>1, <2>1, UpTo, Zenon
  <1> HIDE DEF p, n
  <1> QED
    BY <1>3, <1>4, <1>5

\* ReadAvailability computes such a list.
LEMMA PushFits ==
  ASSUME NEW a \in Availability, Len(a.reservations) <= Limit, FittedInTurn(a),
         NEW b \in Bookings, Fits(a, b)
  PROVE  FittedInTurn([a EXCEPT !.reservations = Push(@, b)])
  <1>1. PICK s \in Seq(Bookings), k \in Nat :
          s = a.reservations /\ k = a.capacity /\ a = [capacity |-> k, reservations |-> s]
    BY HotelAssumption DEF Availability
  <1>2. [a EXCEPT !.reservations = Push(@, b)] = [capacity |-> k, reservations |-> Push(s, b)]
    BY <1>1
  <1>3. DOMAIN s = 1..Len(s) /\ Len(s) = (Len(s) + 1) - 1
    BY <1>1
  <1>4. InTurn(s, k)
    BY <1>1 DEF FittedInTurn, InTurn, Meeting
  <1>5. Cardinality(Meeting(s, b, Len(s) + 1)) + b.rooms <= k
    BY <1>1, <1>3 DEF Fits, Meeting
  <1>6. InTurn(Push(s, b), k)
    BY <1>1, <1>4, <1>5, PushInTurn
  <1> QED
    BY <1>2, <1>6 DEF FittedInTurn, InTurn, Meeting
-----------------------------------------------------------------------------
(* The inductive invariant of the bookings, request by request: lists stay *)
(* short, what a request will write back is a list of bookings made in     *)
(* turn, and AtomicUnlessOvertaken.                                        *)

GoodAvailability(a) == a \in Availability /\ Len(a.reservations) <= Limit /\ FittedInTurn(a)

Good(x) ==
  /\ x \in Request
  /\ x.pc = "list" => Len(x.found) <= Limit
  /\ GoodAvailability(x.next)

\* AtomicUnlessOvertaken of one request.
Atomic(x, av) ==
  x.pc = "book" /\ ~x.stale =>
    /\ Found(av, x.hotel) /\ Fits(av[x.hotel], x.booking)
    /\ x.next = [av[x.hotel] EXCEPT !.reservations = Push(@, x.booking)]

ReqInv ==
  /\ req \in [Requests -> Request]
  /\ \A r \in Requests : Good(req[r]) /\ Atomic(req[r], avail)

StoreInv ==
  /\ DOMAIN users \subseteq Customers
  /\ \A u \in DOMAIN users : users[u] \in Passwords
  /\ DOMAIN listed \subseteq Locations
  /\ \A l \in DOMAIN listed : listed[l] \in Seq(Hotels) /\ Len(listed[l]) <= Limit
  /\ DOMAIN avail \subseteq Hotels
  /\ \A h \in DOMAIN avail : GoodAvailability(avail[h])
  /\ rates \subseteq Hotels /\ profiles \subseteq Hotels /\ broken \subseteq Hotels

IInv == StoreInv /\ ReqInv

LEMMA Strengthens == IInv => TypeOK /\ SerialReservations /\ AtomicUnlessOvertaken
  BY DEF IInv, StoreInv, ReqInv, TypeOK, SerialReservations, AtomicUnlessOvertaken, Good,
         GoodAvailability, Atomic, At

\* A list nobody has reserved anything in.
LEMMA EmptyIsGood ==
  ASSUME NEW c \in Capacities
  PROVE  GoodAvailability([capacity |-> c, reservations |-> <<>>])
  <1> DEFINE a == [capacity |-> c, reservations |-> <<>>]
  <1>1. a \in Availability /\ a.reservations = <<>>
    BY DEF Availability
  <1>2. DOMAIN a.reservations = {} /\ Len(a.reservations) = 0
    BY <1>1
  <1>3. Len(a.reservations) <= Limit
    BY <1>2, HotelAssumption
  <1> HIDE DEF a
  <1>4. FittedInTurn(a)
    BY <1>2, Zenon DEF FittedInTurn
  <1>5. GoodAvailability(a)
    BY <1>1, <1>3, <1>4 DEF GoodAvailability
  <1> QED
    BY <1>5 DEF a

LEMMA IdleIsGood == Good(Idle) /\ \A av : Atomic(Idle, av)
  <1>1. Idle \in Request
    BY HotelAssumption DEF Idle, Request, Step, Availability
  <1>2. GoodAvailability(Idle.next)
    BY EmptyIsGood, HotelAssumption DEF Idle
  <1>3. Idle.pc = "idle"
    BY DEF Idle
  <1> QED
    BY <1>1, <1>2, <1>3 DEF Good, Atomic

LEMMA InitInv == Init => IInv
  BY IdleIsGood DEF Init, IInv, StoreInv, ReqInv, Good, Empty

\* A request that is only overtaken stays good, and promises nothing.
LEMMA StaleIsGood ==
  ASSUME NEW x, Good(x)
  PROVE  LET y == [x EXCEPT !.stale = TRUE] IN Good(y) /\ \A av : Atomic(y, av)
  <1> DEFINE y == [x EXCEPT !.stale = TRUE]
  <1>1. y \in Request /\ y.pc = x.pc /\ y.found = x.found /\ y.next = x.next /\ y.stale
    BY DEF Good, Request
  <1> HIDE DEF y
  <1>2. Good(y) /\ \A av : Atomic(y, av)
    BY <1>1 DEF Good, Atomic
  <1> QED
    BY <1>2 DEF y

\* What a step may do to the requests: one becomes x, others are overtaken, and those about
\* to write a booking that are not overtaken still see the hotel they saw.
LEMMA OvertakeKeeps ==
  ASSUME ReqInv, NEW r \in Requests, NEW x, Good(x), Atomic(x, avail'), NEW S,
         Overtake(r, x, S),
         \A q \in Requests : req[q].pc = "book" /\ q \notin S =>
           LET h == req[q].hotel IN
           Found(avail, h) => Found(avail', h) /\ avail'[h] = avail[h]
  PROVE  ReqInv'
  <1>1. \A q \in Requests : Good(req'[q]) /\ Atomic(req'[q], avail')
    <2> SUFFICES ASSUME NEW q \in Requests PROVE Good(req'[q]) /\ Atomic(req'[q], avail')
      OBVIOUS
    <2>1. Good(req[q]) /\ Atomic(req[q], avail)
      BY DEF ReqInv
    <2>2. CASE q = r
      BY <2>2 DEF Overtake
    <2>3. CASE q # r /\ q \in S
      <3>1. req'[q] = [req[q] EXCEPT !.stale = TRUE]
        BY <2>3 DEF Overtake
      <3> QED
        BY <2>1, <3>1, StaleIsGood
    <2>4. CASE q # r /\ q \notin S
      <3>1. req'[q] = req[q]
        BY <2>4 DEF Overtake
      <3> QED
        BY <2>1, <2>4, <3>1 DEF Atomic
    <2> QED
      BY <2>2, <2>3, <2>4
  <1>2. req' \in [Requests -> Request]
    <2>1. \A q \in Requests : req'[q] \in Request
      BY <1>1 DEF Good
    <2> QED
      BY <2>1 DEF Overtake
  <1> QED
    BY <1>1, <1>2 DEF ReqInv

LEMMA BecomeKeeps ==
  ASSUME ReqInv, NEW r \in Requests, NEW x, Good(x), Atomic(x, avail), Become(r, x),
         UNCHANGED avail
  PROVE  ReqInv'
  <1>1. Overtake(r, x, {})
    BY DEF ReqInv, Become, Overtake
  <1> QED
    BY <1>1, OvertakeKeeps

LEMMA SetGood ==
  ASSUME StoreInv, NEW h \in Hotels, NEW a, GoodAvailability(a),
         avail' = SetState(avail, h, a)
  PROVE  /\ DOMAIN avail' \subseteq Hotels
         /\ \A g \in DOMAIN avail' : GoodAvailability(avail'[g])
         /\ \A g : g # h /\ Found(avail, g) => Found(avail', g) /\ avail'[g] = avail[g]
  BY DEF StoreInv, SetState, Found

LEMMA ReadKeeps ==
  ASSUME IInv, NEW r \in Requests, ReadAvailability(r)
  PROVE  IInv'
  <1> DEFINE h == req[r].hotel
             b == req[r].booking
             a == avail[h]
  <1>c. PICK c : c = [a EXCEPT !.reservations = Push(@, b)]
    OBVIOUS
  <1>1. /\ Found(avail, h)
        /\ Become(r, IF Fits(a, b) THEN [req[r] EXCEPT !.pc = "book", !.next = c] ELSE Idle)
        /\ UNCHANGED <<users, listed, rates, avail, profiles, broken>>
    BY <1>c DEF ReadAvailability
  <1>2. Good(req[r]) /\ b \in Bookings /\ ReqInv /\ StoreInv
    BY DEF IInv, ReqInv, Good, Request
  <1>3. GoodAvailability(a)
    BY <1>1, <1>2 DEF StoreInv, Found
  <1>4. StoreInv'
    BY <1>1, <1>2 DEF StoreInv
  <1>5. CASE Fits(a, b)
    <2>x. PICK x : x = [req[r] EXCEPT !.pc = "book", !.next = c]
      OBVIOUS
    <2>1. /\ a = [capacity |-> a.capacity, reservations |-> a.reservations]
          /\ a.reservations \in Seq(Bookings) /\ Len(a.reservations) <= Limit
          /\ a.capacity \in Capacities
      BY <1>3 DEF GoodAvailability, Availability
    <2>2. /\ c.reservations = Push(a.reservations, b)
          /\ c = [capacity |-> a.capacity, reservations |-> Push(a.reservations, b)]
      BY <1>c, <2>1
    <2>3. Push(a.reservations, b) \in Seq(Bookings) /\ Len(Push(a.reservations, b)) <= Limit
      BY <1>2, <2>1, PushType
    <2>4. c \in Availability /\ Len(c.reservations) <= Limit
      BY <2>1, <2>2, <2>3 DEF Availability
    <2>5. FittedInTurn(c)
      BY <1>2, <1>c, <1>3, <1>5, PushFits DEF GoodAvailability
    <2>6. GoodAvailability(c)
      BY <2>4, <2>5 DEF GoodAvailability
    <2>7. Good(x) /\ x.pc = "book" /\ x.next = c /\ x.hotel = h /\ x.booking = b
      <3>1. req[r] \in Request /\ c \in Availability
        BY <1>2, <2>4 DEF Good
      <3>2. /\ x \in Request /\ x.pc = "book" /\ x.next = c
            /\ x.hotel = h /\ x.booking = b
        BY <2>x, <3>1 DEF Request, Step
      <3> QED
        BY <2>6, <3>2 DEF Good
    <2>8. Atomic(x, avail)
      BY <1>1, <1>c, <1>5, <2>7 DEF Atomic
    <2>9. Become(r, x) /\ UNCHANGED avail
      BY <1>1, <1>5, <2>x
    <2> QED
      BY <1>2, <1>4, <2>7, <2>8, <2>9, BecomeKeeps DEF IInv
  <1>6. CASE ~Fits(a, b)
    <2>1. Become(r, Idle) /\ UNCHANGED avail
      BY <1>1, <1>6
    <2> QED
      BY <1>2, <1>4, <2>1, IdleIsGood, BecomeKeeps DEF IInv
  <1> QED
    BY <1>5, <1>6

\* A write to a hotel's availability, by a booking or a store.
LEMMA WriteKeeps ==
  ASSUME IInv, NEW r \in Requests, NEW x, Good(x), x.pc # "book",
         avail' = SetState(avail, req[r].hotel, req[r].next),
         Overtake(r, x, Booking(req[r].hotel)),
         UNCHANGED <<users, listed, rates, profiles, broken>>
  PROVE  IInv'
  <1> DEFINE h == req[r].hotel
  <1>1. h \in Hotels /\ GoodAvailability(req[r].next) /\ StoreInv /\ ReqInv
    BY DEF IInv, ReqInv, Good, Request
  <1>2. /\ DOMAIN avail' \subseteq Hotels
        /\ \A g \in DOMAIN avail' : GoodAvailability(avail'[g])
        /\ \A g : g # h /\ Found(avail, g) => Found(avail', g) /\ avail'[g] = avail[g]
    BY <1>1, SetGood
  <1>3. StoreInv'
    BY <1>1, <1>2 DEF StoreInv
  <1>4. \A q \in Requests : req[q].pc = "book" /\ q \notin Booking(h) =>
          LET g == req[q].hotel IN
          Found(avail, g) => Found(avail', g) /\ avail'[g] = avail[g]
    BY <1>2 DEF Booking, At
  <1>5. Atomic(x, avail')
    BY DEF Atomic
  <1>6. ReqInv'
    BY <1>1, <1>4, <1>5, OvertakeKeeps
  <1> QED
    BY <1>3, <1>6 DEF IInv

\* A request that becomes one whose next list is the same or empty.
LEMMA StepIsGood ==
  ASSUME NEW x, Good(x), NEW pc \in Step, NEW y \in Request, y.pc = pc, pc # "book",
         pc = "list" => Len(y.found) <= Limit, y.next = x.next
  PROVE  Good(y) /\ \A av : Atomic(y, av)
  BY DEF Good, Atomic

LEMMA FailKeeps ==
  ASSUME IInv, NEW r \in Requests, Fail(r)
  PROVE  IInv'
  <1>1. ReqInv /\ StoreInv /\ req[r].hotel \in Hotels
    BY DEF IInv, ReqInv, Good, Request
  <1>2. StoreInv'
    BY <1>1 DEF StoreInv, Fail
  <1>3. ReqInv'
    BY <1>1, IdleIsGood, BecomeKeeps DEF Fail
  <1> QED
    BY <1>2, <1>3 DEF IInv

LEMMA BookKeeps ==
  ASSUME IInv, NEW r \in Requests, Reserve(r)
  PROVE  IInv'
  <1>1. ReqInv /\ StoreInv
    BY DEF IInv
  <1>2. CASE \E b \in Bookings, w \in Passwords : FrontendReservation(r, b, w)
    <2>1. PICK b \in Bookings, w \in Passwords : FrontendReservation(r, b, w)
      BY <1>2
    <2> DEFINE y == [Idle EXCEPT !.pc = "reserve", !.hotel = b.hotel, !.booking = b]
    <2>2. b.hotel \in Hotels /\ Idle \in Request
      BY HotelAssumption, IdleIsGood DEF Good
    <2>3. y \in Request /\ y.pc = "reserve" /\ y.next = Idle.next /\ y.pc \in Step
      BY <2>2 DEF Request, Step
    <2>4. Become(r, y) /\ UNCHANGED <<users, listed, rates, avail, profiles, broken>>
      BY <2>1 DEF FrontendReservation
    <2> HIDE DEF y
    <2>5. Good(y) /\ Atomic(y, avail)
      BY <2>3, IdleIsGood, StepIsGood
    <2>6. ReqInv' /\ StoreInv'
      BY <1>1, <2>4, <2>5, BecomeKeeps DEF StoreInv
    <2> QED
      BY <2>6 DEF IInv
  <1>3. CASE ReadAvailability(r)
    BY <1>3, ReadKeeps
  <1>4. CASE WriteAvailability(r)
    <2>1. Good(Idle) /\ Idle.pc # "book"
      BY IdleIsGood DEF Idle
    <2> QED
      BY <1>4, <2>1, WriteKeeps DEF WriteAvailability
  <1> QED
    BY <1>2, <1>3, <1>4 DEF Reserve

LEMMA ListedType ==
  ASSUME StoreInv, NEW l, NEW ids \in {Listed(l), <<>>}
  PROVE  ids \in Seq(Hotels) /\ Len(ids) <= Limit
  <1>1. CASE ids = <<>>
    BY <1>1, HotelAssumption
  <1>2. CASE Found(listed, l) /\ ids = listed[l]
    BY <1>2 DEF Found, StoreInv
  <1> QED
    BY <1>1, <1>2 DEF Listed

LEMMA StoreKeeps ==
  ASSUME IInv, NEW r \in Requests, Store(r)
  PROVE  IInv'
  <1>1. /\ ReqInv /\ StoreInv /\ Good(req[r])
        /\ req[r] \in Request /\ req[r].hotel \in Hotels
    BY DEF IInv, ReqInv, Good, Request
  <1>2. CASE \E h \in Hotels, l \in Locations, c \in Capacities : StoreHotel(r, h, l, c)
    <2>1. PICK h \in Hotels, l \in Locations, c \in Capacities : StoreHotel(r, h, l, c)
      BY <1>2
    <2>2. PICK ids \in {Listed(l), <<>>} :
            Become(r, [Idle EXCEPT !.pc = "list", !.hotel = h, !.place = l,
                                   !.next.capacity = c, !.found = Push(ids, h)])
      BY <2>1 DEF StoreHotel
    <2>3. Push(ids, h) \in Seq(Hotels) /\ Len(Push(ids, h)) <= Limit
      BY <1>1, ListedType, PushType
    <2> DEFINE y == [Idle EXCEPT !.pc = "list", !.hotel = h, !.place = l,
                                 !.next.capacity = c, !.found = Push(ids, h)]
               a == [capacity |-> c, reservations |-> <<>>]
    <2>4. GoodAvailability(a) /\ a \in Availability
      BY EmptyIsGood DEF GoodAvailability
    <2>5. Idle \in Request /\ [Idle.next EXCEPT !.capacity = c] = a
      BY IdleIsGood DEF Good, Idle
    <2>6. /\ y \in Request /\ y.pc = "list" /\ y.found = Push(ids, h)
          /\ y.next = [Idle.next EXCEPT !.capacity = c]
      BY <2>3, <2>4, <2>5 DEF Request, Step
    <2> HIDE DEF y, a
    <2>7. Good(y) /\ Atomic(y, avail)
      BY <2>3, <2>4, <2>5, <2>6 DEF Good, Atomic
    <2>8. Become(r, y) /\ UNCHANGED <<users, listed, rates, avail, profiles, broken>>
      BY <2>1, <2>2 DEF StoreHotel, y
    <2>9. ReqInv' /\ StoreInv'
      BY <1>1, <2>7, <2>8, BecomeKeeps DEF StoreInv
    <2> QED
      BY <2>9 DEF IInv
  <1>3. CASE WriteLocation(r)
    <2> DEFINE y == Listing(r)
               S == {q \in Requests : At(q, "list") /\ req[q].place = req[r].place}
    <2>1. y \in Request /\ y.pc = "rate" /\ y.next = req[r].next
      <3>1. <<>> \in Seq(Hotels)
        OBVIOUS
      <3> QED
        BY <1>1, <3>1 DEF Listing, Request, Step
    <2>2. Good(y) /\ Atomic(y, avail)
      <3> HIDE DEF y
      <3> QED
        BY <1>1, <2>1, StepIsGood DEF Step
    <2>3. UNCHANGED <<users, rates, avail, profiles, broken>>
      BY <1>3 DEF WriteLocation
    <2>4. req[r].found \in Seq(Hotels) /\ Len(req[r].found) <= Limit /\ req[r].place \in Locations
      BY <1>1, <1>3 DEF WriteLocation, At, Good, Request
    <2>5. CASE listed' = SetState(listed, req[r].place, req[r].found) /\ Overtake(r, y, S)
      <3>1. StoreInv'
        BY <1>1, <2>3, <2>4, <2>5 DEF StoreInv, SetState
      <3>2. ReqInv'
        <4> HIDE DEF y, S
        <4> QED
          BY <1>1, <2>2, <2>3, <2>5, OvertakeKeeps
      <3> QED
        BY <3>1, <3>2 DEF IInv
    <2>6. CASE UNCHANGED listed /\ Become(r, y)
      <3> HIDE DEF y
      <3>1. ReqInv' /\ StoreInv'
        BY <1>1, <2>2, <2>3, <2>6, BecomeKeeps DEF StoreInv
      <3> QED
        BY <3>1 DEF IInv
    <2> QED
      BY <1>3, <2>5, <2>6 DEF WriteLocation
  <1>4. CASE StoreRate(r)
    <2> DEFINE y == [req[r] EXCEPT !.pc = "avail"]
    <2>1. y \in Request /\ y.pc = "avail" /\ y.next = req[r].next
      BY <1>1 DEF Request, Step
    <2>2. /\ Become(r, y) /\ rates' = rates \union {req[r].hotel}
          /\ UNCHANGED <<users, listed, avail, profiles, broken>>
      BY <1>4 DEF StoreRate
    <2> HIDE DEF y
    <2>3. Good(y) /\ Atomic(y, avail)
      BY <1>1, <2>1, StepIsGood DEF Step
    <2>4. ReqInv' /\ StoreInv'
      BY <1>1, <2>2, <2>3, BecomeKeeps DEF StoreInv
    <2> QED
      BY <2>4 DEF IInv
  <1>5. CASE AddHotelAvailability(r)
    <2> DEFINE y == [req[r] EXCEPT !.pc = "profile"]
    <2>1. y \in Request /\ y.pc = "profile" /\ y.next = req[r].next
      BY <1>1 DEF Request, Step
    <2>2. /\ Overtake(r, y, Booking(req[r].hotel))
          /\ avail' = SetState(avail, req[r].hotel, req[r].next)
          /\ UNCHANGED <<users, listed, rates, profiles, broken>>
      BY <1>5 DEF AddHotelAvailability
    <2> HIDE DEF y
    <2>3. Good(y) /\ y.pc # "book"
      BY <1>1, <2>1, StepIsGood DEF Step
    <2> QED
      BY <2>2, <2>3, WriteKeeps
  <1>6. CASE StoreProfile(r)
    <2>1. ReqInv' /\ StoreInv'
      BY <1>1, <1>6, IdleIsGood, BecomeKeeps DEF StoreInv, StoreProfile
    <2> QED
      BY <2>1 DEF IInv
  <1> QED
    BY <1>2, <1>3, <1>4, <1>5, <1>6 DEF Store

LEMMA SearchKeeps ==
  ASSUME IInv, NEW r \in Requests, Search(r)
  PROVE  IInv'
  <1>1. /\ ReqInv /\ StoreInv /\ Good(req[r]) /\ req[r] \in Request
        /\ Idle \in Request
    BY IdleIsGood DEF IInv, ReqInv, Good
  <1>2. ASSUME NEW pc \in {"rates", "free", "profiles"}, NEW x, Good(x), NEW y \in Request,
               y.pc = pc, y.next = x.next, Become(r, y),
               UNCHANGED <<users, listed, rates, avail, profiles, broken>>
        PROVE  IInv'
    <2>1. Good(y) /\ Atomic(y, avail)
      BY <1>2, StepIsGood DEF Step
    <2>2. ReqInv' /\ StoreInv'
      BY <1>1, <1>2, <2>1, BecomeKeeps DEF StoreInv
    <2> QED
      BY <2>2 DEF IInv
  <1>3. CASE \E l \in Locations, b \in Bookings : SearchHotels(r, l, b)
    <2>1. PICK l \in Locations, b \in Bookings : SearchHotels(r, l, b)
      BY <1>3
    <2>2. PICK ids \in {Listed(l), <<>>} :
            Become(r, [Idle EXCEPT !.pc = "rates", !.place = l, !.booking = b, !.todo = ids])
      BY <2>1 DEF SearchHotels
    <2> DEFINE y == [Idle EXCEPT !.pc = "rates", !.place = l, !.booking = b, !.todo = ids]
    <2>3. ids \in Seq(Hotels)
      BY <1>1, ListedType
    <2>4. y \in Request /\ y.pc = "rates" /\ y.next = Idle.next
      BY <1>1, <2>3 DEF Request, Step
    <2>5. Become(r, y) /\ UNCHANGED <<users, listed, rates, avail, profiles, broken>>
      BY <2>1, <2>2 DEF SearchHotels
    <2> HIDE DEF y
    <2> QED
      BY <1>2, <2>4, <2>5, IdleIsGood
  <1>4. ASSUME NEW kept \in BOOLEAN, Keep(r, kept), req[r].todo # <<>>,
               req[r].pc \in {"rates", "free"},
               UNCHANGED <<users, listed, rates, avail, profiles, broken>>
        PROVE  IInv'
    <2> DEFINE y == [req[r] EXCEPT !.todo = Tail(@),
                       !.found = IF kept THEN Append(@, Head(req[r].todo)) ELSE @]
    <2>1. req[r].todo \in Seq(Hotels) /\ req[r].found \in Seq(Hotels)
      BY <1>1 DEF Request
    <2>2. /\ Tail(req[r].todo) \in Seq(Hotels)
          /\ Append(req[r].found, Head(req[r].todo)) \in Seq(Hotels)
      BY <1>4, <2>1
    <2>3. y \in Request /\ y.pc = req[r].pc /\ y.next = req[r].next
      BY <1>1, <2>1, <2>2 DEF Request
    <2>4. Become(r, y)
      BY <1>4 DEF Keep
    <2> HIDE DEF y
    <2> QED
      BY <1>1, <1>2, <1>4, <2>3, <2>4
  <1>5. CASE GetRates(r)
    <2>1. CASE req[r].todo = <<>>
      <3> DEFINE y == [req[r] EXCEPT !.pc = "free", !.todo = req[r].found, !.found = <<>>]
      <3>1. <<>> \in Seq(Hotels) /\ req[r].found \in Seq(Hotels)
        BY <1>1 DEF Request
      <3>2. y \in Request /\ y.pc = "free" /\ y.next = req[r].next
        BY <1>1, <3>1 DEF Request, Step
      <3>3. Become(r, y) /\ UNCHANGED <<users, listed, rates, avail, profiles, broken>>
        BY <1>5, <2>1 DEF GetRates
      <3> HIDE DEF y
      <3> QED
        BY <1>1, <1>2, <3>2, <3>3
    <2>2. CASE req[r].todo # <<>>
      BY <1>4, <1>5, <2>2 DEF GetRates, At
    <2> QED
      BY <2>1, <2>2
  <1>6. CASE CheckAvailability(r)
    <2>1. CASE req[r].todo = <<>>
      <3> DEFINE y == [req[r] EXCEPT !.pc = "profiles"]
      <3>1. y \in Request /\ y.pc = "profiles" /\ y.next = req[r].next
        BY <1>1 DEF Request, Step
      <3>2. Become(r, y) /\ UNCHANGED <<users, listed, rates, avail, profiles, broken>>
        BY <1>6, <2>1 DEF CheckAvailability
      <3> HIDE DEF y
      <3> QED
        BY <1>1, <1>2, <3>1, <3>2
    <2>2. CASE req[r].todo # <<>>
      <3> DEFINE kept == Fits(avail[Head(req[r].todo)], [req[r].booking EXCEPT !.rooms = 1])
      <3>1. kept \in BOOLEAN
        BY DEF Fits
      <3>2. /\ Keep(r, kept) /\ req[r].pc = "free"
            /\ UNCHANGED <<users, listed, rates, avail, profiles, broken>>
        BY <1>6, <2>2 DEF CheckAvailability, At
      <3> HIDE DEF kept
      <3> QED
        BY <1>4, <2>2, <3>1, <3>2
    <2> QED
      BY <2>1, <2>2
  <1>7. CASE GetProfiles(r)
    <2>1. ReqInv' /\ StoreInv'
      BY <1>1, <1>7, IdleIsGood, BecomeKeeps DEF StoreInv, GetProfiles
    <2> QED
      BY <2>1 DEF IInv
  <1> QED
    BY <1>3, <1>5, <1>6, <1>7 DEF Search

\* The invariant of the bookings is inductive.
THEOREM Inductive == Spec => []IInv
  <1>1. IInv /\ [Next]_vars => IInv'
    <2> SUFFICES ASSUME IInv, [Next]_vars PROVE IInv'
      OBVIOUS
    <2>1. CASE UNCHANGED vars
      <3>1. StoreInv' /\ ReqInv'
        BY <2>1 DEF IInv, vars, StoreInv, ReqInv
      <3> QED
        BY <3>1 DEF IInv
    <2>2. ASSUME NEW u \in Customers, NEW w \in Passwords, RegisterUser(u, w)
          PROVE  IInv'
      <3>1. StoreInv' /\ ReqInv'
        BY <2>2 DEF IInv, RegisterUser, StoreInv, ReqInv, SetState
      <3> QED
        BY <3>1 DEF IInv
    <2> QED
      BY <2>1, <2>2, BookKeeps, StoreKeeps, SearchKeeps, FailKeeps DEF Next
  <1> QED
    BY <1>1, InitInv, PTL DEF Spec

\* The stores and the requests keep their types, for any number of requests.
THEOREM HotelTypes == Spec => []TypeOK
  BY Inductive, Strengthens, PTL

\* However bookings and stores overlap, what a hotel keeps, and what a booking is about to
\* write back, is a list that bookings made in turn could have left.
THEOREM Serial == Spec => []SerialReservations
  BY Inductive, Strengthens, PTL

\* MakeReservation is atomic when no write to its hotel comes between its read and its write.
THEOREM BookingAtomic == Spec => []AtomicUnlessOvertaken
  BY Inductive, Strengthens, PTL
-----------------------------------------------------------------------------
(* ListedIsWhole: a store passes through its services in order, so that    *)
(* what it has behind it tells what it has still to write.                 *)

\* A hotel is on a list, or on its way to or from one.
OnList(h) ==
  \/ \E l \in DOMAIN listed : h \in Range(listed[l])
  \/ \E r \in Requests : h \in Range(req[r].todo) \union Range(req[r].found)

Tracked(h) == Whole(h) \/ h \in broken \/ \E r \in Requests : Storing(r) /\ req[r].hotel = h

Behind(r) ==
  /\ At(r, "avail") => req[r].hotel \in rates
  /\ At(r, "profile") => req[r].hotel \in rates /\ req[r].hotel \in DOMAIN avail

WholeInv == (\A r \in Requests : Behind(r)) /\ \A h : OnList(h) => Tracked(h)

LEMMA WholeStrengthens == WholeInv => ListedIsWhole
  BY DEF WholeInv, ListedIsWhole, OnList, Tracked

LEMMA EmptyRange == Range(<<>>) = {}
  <1>1. DOMAIN <<>> = {}
    OBVIOUS
  <1> QED
    BY <1>1, Zenon DEF Range

LEMMA TailRange ==
  ASSUME NEW S, NEW s \in Seq(S), s # <<>>
  PROVE  Range(Tail(s)) \subseteq Range(s) /\ Head(s) \in Range(s)
  <1>1. /\ Tail(s) \in Seq(S) /\ Len(Tail(s)) = Len(s) - 1 /\ Len(s) \in Nat \ {0}
        /\ DOMAIN s = 1..Len(s) /\ DOMAIN Tail(s) = 1..(Len(s) - 1)
        /\ \A i \in 1..(Len(s) - 1) : Tail(s)[i] = s[i + 1]
        /\ Head(s) = s[1]
    OBVIOUS
  <1>2. \A i \in DOMAIN Tail(s) : \E j \in DOMAIN s : Tail(s)[i] = s[j]
    <2> TAKE i \in DOMAIN Tail(s)
    <2>1. i + 1 \in DOMAIN s /\ Tail(s)[i] = s[i + 1]
      BY <1>1
    <2> QED
      BY <2>1, Zenon
  <1>3. 1 \in DOMAIN s
    BY <1>1
  <1> QED
    BY <1>1, <1>2, <1>3, Zenon DEF Range

LEMMA AppendRange ==
  ASSUME NEW S, NEW s \in Seq(S), NEW x \in S
  PROVE  Range(Append(s, x)) \subseteq Range(s) \union {x}
  <1> DEFINE t == Append(s, x)
  <1>1. /\ DOMAIN s = 1..Len(s) /\ DOMAIN t = 1..(Len(s) + 1) /\ Len(s) \in Nat
        /\ t[Len(s) + 1] = x /\ \A i \in 1..Len(s) : t[i] = s[i]
    OBVIOUS
  <1> HIDE DEF t
  <1>2. \A i \in DOMAIN t : t[i] = x \/ (i \in DOMAIN s /\ t[i] = s[i])
    BY <1>1
  <1> QED
    BY <1>2, Zenon DEF Range, t

\* What a step may do: one request becomes x, of the others at most stale changes, and
\* nothing that is stored disappears.
LEMMA StepKeepsWhole ==
  ASSUME WholeInv, req \in [Requests -> Request], NEW r \in Requests, NEW x, NEW S,
         Overtake(r, x, S),
         rates \subseteq rates', DOMAIN avail \subseteq DOMAIN avail',
         profiles \subseteq profiles',
         x.pc = "avail" => x.hotel \in rates',
         x.pc = "profile" => x.hotel \in rates' /\ x.hotel \in DOMAIN avail',
         \A l \in DOMAIN listed' : \A h \in Range(listed'[l]) : OnList(h),
         \A h \in Range(x.todo) \union Range(x.found) :
           OnList(h) \/ (x.pc = "list" /\ h = x.hotel),
         \A h \in broken : h \in broken' \union (rates' \intersect DOMAIN avail' \intersect profiles'),
         Storing(r) =>
           \/ x.pc \in {"list", "rate", "avail", "profile"} /\ x.hotel = req[r].hotel
           \/ req[r].hotel \in broken' \union (rates' \intersect DOMAIN avail' \intersect profiles')
  PROVE  WholeInv'
  <1>1. \A q \in Requests \ {r} :
          /\ req'[q].pc = req[q].pc /\ req'[q].hotel = req[q].hotel
          /\ req'[q].todo = req[q].todo /\ req'[q].found = req[q].found
    BY DEF Overtake, Request
  <1>2. req'[r] = x
    BY DEF Overtake
  <1>3. \A q \in Requests : Behind(q)'
    BY <1>1, <1>2 DEF WholeInv, Behind, At
  <1>4. \A h : Tracked(h) => Tracked(h)'
    <2> SUFFICES ASSUME NEW h, Tracked(h) PROVE Tracked(h)'
      OBVIOUS
    <2>1. CASE Whole(h)
      BY <2>1 DEF Whole, Tracked
    <2>2. CASE h \in broken
      BY <2>2 DEF Tracked, Whole
    <2>3. ASSUME NEW q \in Requests, Storing(q), req[q].hotel = h PROVE Tracked(h)'
      <3>1. CASE q = r
        BY <1>2, <2>3, <3>1 DEF Storing, Whole, Tracked
      <3>2. CASE q # r
        BY <1>1, <2>3, <3>2 DEF Storing, Tracked
      <3> QED
        BY <3>1, <3>2
    <2> QED
      BY <2>1, <2>2, <2>3 DEF Tracked
  <1>5. \A h : OnList(h)' => OnList(h) \/ (x.pc = "list" /\ h = x.hotel)
    BY <1>1, <1>2 DEF OnList
  <1>6. x.pc = "list" => Tracked(x.hotel)'
    BY <1>2 DEF Tracked, Storing
  <1> QED
    BY <1>3, <1>4, <1>5, <1>6 DEF WholeInv

\* The same of a step that leaves the others as they are.
LEMMA BecomeKeepsWhole ==
  ASSUME WholeInv, req \in [Requests -> Request], NEW r \in Requests, NEW x,
         Become(r, x), UNCHANGED <<listed, avail, profiles>>,
         rates \subseteq rates', broken \subseteq broken',
         x.pc = "avail" => x.hotel \in rates',
         x.pc # "profile",
         \A h \in Range(x.todo) \union Range(x.found) :
           OnList(h) \/ (x.pc = "list" /\ h = x.hotel),
         Storing(r) => \/ x.pc \in {"list", "rate", "avail", "profile"} /\ x.hotel = req[r].hotel
                       \/ req[r].hotel \in broken'
  PROVE  WholeInv'
  <1>1. Overtake(r, x, {})
    BY DEF Become, Overtake
  <1>2. \A l \in DOMAIN listed' : \A h \in Range(listed'[l]) : OnList(h)
    BY DEF OnList
  <1> QED
    BY <1>1, <1>2, StepKeepsWhole

LEMMA IdleIsEmpty ==
  Idle.pc = "idle" /\ Idle.todo = <<>> /\ Idle.found = <<>> /\ Range(Idle.todo) = {}
  /\ Range(Idle.found) = {}
  BY EmptyRange DEF Idle

LEMMA ListedOnList ==
  ASSUME NEW l, NEW ids \in {Listed(l), <<>>}, NEW h \in Range(ids)
  PROVE  OnList(h)
  BY EmptyRange DEF Listed, Found, OnList

LEMMA StoreWhole ==
  ASSUME IInv, WholeInv, NEW r \in Requests, Store(r)
  PROVE  WholeInv'
  <1>1. /\ req \in [Requests -> Request] /\ StoreInv
        /\ req[r] \in Request /\ Idle \in Request
    BY IdleIsGood DEF IInv, ReqInv, Good
  <1>2. \A h \in Range(req[r].todo) \union Range(req[r].found) : OnList(h)
    BY DEF OnList
  <1>3. \A l \in DOMAIN listed : \A h \in Range(listed[l]) : OnList(h)
    BY DEF OnList
  <1>4. CASE \E h \in Hotels, l \in Locations, c \in Capacities : StoreHotel(r, h, l, c)
    <2>1. PICK h \in Hotels, l \in Locations, c \in Capacities : StoreHotel(r, h, l, c)
      BY <1>4
    <2>2. PICK ids \in {Listed(l), <<>>} :
            Become(r, [Idle EXCEPT !.pc = "list", !.hotel = h, !.place = l,
                                   !.next.capacity = c, !.found = Push(ids, h)])
      BY <2>1 DEF StoreHotel
    <2> DEFINE y == [Idle EXCEPT !.pc = "list", !.hotel = h, !.place = l,
                                 !.next.capacity = c, !.found = Push(ids, h)]
    <2>3. y.pc = "list" /\ y.hotel = h /\ y.todo = Idle.todo /\ y.found = Push(ids, h)
      BY <1>1 DEF Request
    <2>4. Become(r, y) /\ UNCHANGED <<listed, rates, avail, profiles, broken>> /\ ~Storing(r)
      BY <2>1, <2>2 DEF StoreHotel, Storing, At
    <2> HIDE DEF y
    <2>5. Range(Push(ids, h)) \subseteq Range(ids) \union {h}
      BY <1>1, ListedType, PushRange
    <2>6. \A g \in Range(y.todo) \union Range(y.found) : OnList(g) \/ g = y.hotel
      BY <2>3, <2>5, IdleIsEmpty, ListedOnList
    <2> QED
      BY <1>1, <2>3, <2>4, <2>6, BecomeKeepsWhole
  <1>5. CASE WriteLocation(r)
    <2> DEFINE y == Listing(r)
               S == {q \in Requests : At(q, "list") /\ req[q].place = req[r].place}
    <2>1. /\ y.pc = "rate" /\ y.hotel = req[r].hotel /\ y.todo = req[r].todo
          /\ y.found = <<>>
      BY <1>1 DEF Listing, Request
    <2>2. UNCHANGED <<rates, avail, profiles, broken>>
      BY <1>5 DEF WriteLocation
    <2>3. PICK T : Overtake(r, y, T)
      <3>1. CASE Overtake(r, y, S)
        BY <3>1
      <3>2. CASE Become(r, y)
        <4>1. Overtake(r, y, {})
          BY <1>1, <3>2 DEF Become, Overtake
        <4> QED
          BY <4>1
      <3> QED
        BY <1>5, <3>1, <3>2 DEF WriteLocation
    <2>4. \A l \in DOMAIN listed' : \A h \in Range(listed'[l]) : OnList(h)
      BY <1>2, <1>3, <1>5 DEF WriteLocation, SetState
    <2> HIDE DEF y, S
    <2>5. \A h \in Range(y.todo) \union Range(y.found) : OnList(h)
      BY <1>2, <2>1, EmptyRange
    <2> QED
      BY <1>1, <2>1, <2>2, <2>3, <2>4, <2>5, StepKeepsWhole
  <1>6. CASE StoreRate(r)
    <2> DEFINE y == [req[r] EXCEPT !.pc = "avail"]
    <2>1. /\ y.pc = "avail" /\ y.hotel = req[r].hotel /\ y.todo = req[r].todo
          /\ y.found = req[r].found
      BY <1>1 DEF Request
    <2>2. /\ Become(r, y) /\ rates' = rates \union {req[r].hotel}
          /\ UNCHANGED <<listed, avail, profiles, broken>>
      BY <1>6 DEF StoreRate
    <2> HIDE DEF y
    <2> QED
      BY <1>1, <1>2, <2>1, <2>2, BecomeKeepsWhole
  <1>7. CASE AddHotelAvailability(r)
    <2> DEFINE y == [req[r] EXCEPT !.pc = "profile"]
    <2>1. /\ y.pc = "profile" /\ y.hotel = req[r].hotel /\ y.todo = req[r].todo
          /\ y.found = req[r].found
      BY <1>1 DEF Request
    <2>2. /\ Overtake(r, y, Booking(req[r].hotel)) /\ At(r, "avail")
          /\ DOMAIN avail' = DOMAIN avail \union {req[r].hotel}
          /\ UNCHANGED <<listed, rates, profiles, broken>>
      BY <1>7 DEF AddHotelAvailability, SetState
    <2> HIDE DEF y
    <2>3. req[r].hotel \in rates
      BY <2>2 DEF WholeInv, Behind
    <2> QED
      BY <1>1, <1>2, <1>3, <2>1, <2>2, <2>3, StepKeepsWhole
  <1>8. CASE StoreProfile(r)
    <2>1. /\ Become(r, Idle) /\ At(r, "profile")
          /\ profiles' = profiles \union {req[r].hotel}
          /\ broken' = broken \ {req[r].hotel}
          /\ UNCHANGED <<listed, rates, avail>>
      BY <1>8 DEF StoreProfile
    <2>2. req[r].hotel \in rates' \intersect DOMAIN avail' \intersect profiles'
      BY <2>1 DEF WholeInv, Behind
    <2>3. Overtake(r, Idle, {})
      BY <1>1, <2>1 DEF Become, Overtake
    <2> QED
      BY <1>1, <1>3, <2>1, <2>2, <2>3, IdleIsEmpty, StepKeepsWhole
  <1> QED
    BY <1>4, <1>5, <1>6, <1>7, <1>8 DEF Store

LEMMA OtherWhole ==
  ASSUME IInv, WholeInv, NEW r \in Requests, Reserve(r) \/ Search(r) \/ Fail(r)
  PROVE  WholeInv'
  <1>1. /\ req \in [Requests -> Request] /\ StoreInv
        /\ req[r] \in Request /\ Idle \in Request
    BY IdleIsGood DEF IInv, ReqInv, Good
  <1>2. \A h \in Range(req[r].todo) \union Range(req[r].found) : OnList(h)
    BY DEF OnList
  \* Such a request lists nothing that is not listed already, and no store is in its slot.
  <1>3. ASSUME NEW x, Become(r, x), UNCHANGED <<listed, rates, avail, profiles, broken>>,
               ~Storing(r), x.pc \notin {"list", "avail", "profile"},
               \A h \in Range(x.todo) \union Range(x.found) : OnList(h)
        PROVE  WholeInv'
    BY <1>1, <1>3, BecomeKeepsWhole
  <1>4. CASE Fail(r)
    <2>1. /\ Become(r, Idle) /\ UNCHANGED <<users, listed, rates, avail, profiles>>
          /\ broken \subseteq broken' /\ (Storing(r) => req[r].hotel \in broken')
      BY <1>4 DEF Fail
    <2> QED
      BY <1>1, <2>1, IdleIsEmpty, BecomeKeepsWhole
  <1>5. CASE \E b \in Bookings, w \in Passwords : FrontendReservation(r, b, w)
    <2>1. PICK b \in Bookings, w \in Passwords : FrontendReservation(r, b, w)
      BY <1>5
    <2> DEFINE y == [Idle EXCEPT !.pc = "reserve", !.hotel = b.hotel, !.booking = b]
    <2>2. y.pc = "reserve" /\ y.todo = Idle.todo /\ y.found = Idle.found
      BY <1>1 DEF Request
    <2>3. /\ Become(r, y) /\ UNCHANGED <<listed, rates, avail, profiles, broken>>
          /\ ~Storing(r)
      BY <2>1 DEF FrontendReservation, Storing, At
    <2> HIDE DEF y
    <2> QED
      BY <1>3, <2>2, <2>3, IdleIsEmpty
  <1>6. CASE ReadAvailability(r)
    <2> DEFINE h == req[r].hotel
               y == [req[r] EXCEPT !.pc = "book",
                       !.next = [avail[h] EXCEPT !.reservations = Push(@, req[r].booking)]]
               x == IF Fits(avail[h], req[r].booking) THEN y ELSE Idle
    <2>1. y.pc = "book" /\ y.todo = req[r].todo /\ y.found = req[r].found
      BY <1>1 DEF Request
    <2>2. /\ Become(r, x) /\ UNCHANGED <<listed, rates, avail, profiles, broken>>
          /\ ~Storing(r)
      BY <1>6 DEF ReadAvailability, Storing, At
    <2> HIDE DEF y
    <2>3. \/ x.pc = "book" /\ x.todo = req[r].todo /\ x.found = req[r].found
          \/ x = Idle
      BY <2>1
    <2> HIDE DEF x
    <2> QED
      BY <1>2, <1>3, <2>2, <2>3, IdleIsEmpty
  <1>7. CASE WriteAvailability(r)
    <2>1. /\ Overtake(r, Idle, Booking(req[r].hotel)) /\ ~Storing(r)
          /\ DOMAIN avail' = DOMAIN avail \union {req[r].hotel}
          /\ UNCHANGED <<listed, rates, profiles, broken>>
      BY <1>7 DEF WriteAvailability, SetState, Storing, At
    <2>2. \A l \in DOMAIN listed' : \A h \in Range(listed'[l]) : OnList(h)
      BY <2>1 DEF OnList
    <2> QED
      BY <1>1, <2>1, <2>2, IdleIsEmpty, StepKeepsWhole
  <1>8. CASE \E l \in Locations, b \in Bookings : SearchHotels(r, l, b)
    <2>1. PICK l \in Locations, b \in Bookings : SearchHotels(r, l, b)
      BY <1>8
    <2>2. PICK ids \in {Listed(l), <<>>} :
            Become(r, [Idle EXCEPT !.pc = "rates", !.place = l, !.booking = b, !.todo = ids])
      BY <2>1 DEF SearchHotels
    <2> DEFINE y == [Idle EXCEPT !.pc = "rates", !.place = l, !.booking = b, !.todo = ids]
    <2>3. y.pc = "rates" /\ y.todo = ids /\ y.found = Idle.found
      BY <1>1 DEF Request
    <2>4. /\ Become(r, y) /\ UNCHANGED <<listed, rates, avail, profiles, broken>>
          /\ ~Storing(r)
      BY <2>1, <2>2 DEF SearchHotels, Storing, At
    <2> HIDE DEF y
    <2>5. \A h \in Range(ids) : OnList(h)
      BY ListedOnList
    <2> QED
      BY <1>3, <2>3, <2>4, <2>5, IdleIsEmpty
  <1>9. ASSUME NEW kept, Keep(r, kept), req[r].todo # <<>>, req[r].pc \in {"rates", "free"},
               UNCHANGED <<listed, rates, avail, profiles, broken>>
        PROVE  WholeInv'
    <2> DEFINE y == [req[r] EXCEPT !.todo = Tail(@),
                       !.found = IF kept THEN Append(@, Head(req[r].todo)) ELSE @]
    <2>1. req[r].todo \in Seq(Hotels) /\ req[r].found \in Seq(Hotels)
      BY <1>1 DEF Request
    <2>2. /\ Range(Tail(req[r].todo)) \subseteq Range(req[r].todo)
          /\ Head(req[r].todo) \in Range(req[r].todo)
      BY <1>9, <2>1, TailRange
    <2>3. Head(req[r].todo) \in Hotels
      BY <1>9, <2>1
    <2>4. Range(Append(req[r].found, Head(req[r].todo)))
            \subseteq Range(req[r].found) \union {Head(req[r].todo)}
      BY <2>1, <2>3, AppendRange
    <2>5. /\ y.pc = req[r].pc /\ y.todo = Tail(req[r].todo)
          /\ y.found = req[r].found \/ y.found = Append(req[r].found, Head(req[r].todo))
      BY <1>1 DEF Request
    <2>6. Become(r, y) /\ ~Storing(r)
      BY <1>9 DEF Keep, Storing
    <2> HIDE DEF y
    <2>7. \A h \in Range(y.todo) \union Range(y.found) : OnList(h)
      BY <1>2, <2>2, <2>4, <2>5
    <2> QED
      BY <1>3, <1>9, <2>5, <2>6, <2>7
  <1>10. CASE GetRates(r)
    <2>1. CASE req[r].todo = <<>>
      <3> DEFINE y == [req[r] EXCEPT !.pc = "free", !.todo = req[r].found, !.found = <<>>]
      <3>1. y.pc = "free" /\ y.todo = req[r].found /\ y.found = <<>>
        BY <1>1 DEF Request
      <3>2. /\ Become(r, y) /\ UNCHANGED <<listed, rates, avail, profiles, broken>>
            /\ ~Storing(r)
        BY <1>10, <2>1 DEF GetRates, Storing, At
      <3> HIDE DEF y
      <3> QED
        BY <1>2, <1>3, <3>1, <3>2, EmptyRange
    <2>2. CASE req[r].todo # <<>>
      BY <1>9, <1>10, <2>2 DEF GetRates, At
    <2> QED
      BY <2>1, <2>2
  <1>11. CASE CheckAvailability(r)
    <2>1. CASE req[r].todo = <<>>
      <3> DEFINE y == [req[r] EXCEPT !.pc = "profiles"]
      <3>1. y.pc = "profiles" /\ y.todo = req[r].todo /\ y.found = req[r].found
        BY <1>1 DEF Request
      <3>2. /\ Become(r, y) /\ UNCHANGED <<listed, rates, avail, profiles, broken>>
            /\ ~Storing(r)
        BY <1>11, <2>1 DEF CheckAvailability, Storing, At
      <3> HIDE DEF y
      <3> QED
        BY <1>2, <1>3, <3>1, <3>2
    <2>2. CASE req[r].todo # <<>>
      BY <1>9, <1>11, <2>2 DEF CheckAvailability, At
    <2> QED
      BY <2>1, <2>2
  <1>12. CASE GetProfiles(r)
    <2>1. /\ Become(r, Idle) /\ UNCHANGED <<listed, rates, avail, profiles, broken>>
          /\ ~Storing(r)
      BY <1>12 DEF GetProfiles, Storing, At
    <2> QED
      BY <1>3, <2>1, IdleIsEmpty
  <1> QED
    BY <1>4, <1>5, <1>6, <1>7, <1>8, <1>10, <1>11, <1>12 DEF Reserve, Search

\* Whatever requests overlap or fail, a hotel that is listed is stored in every service, being
\* stored, or was left behind by a store that failed.
THEOREM ListedHotelsAreWhole == Spec => []ListedIsWhole
  <1>1. Init => WholeInv
    <2> SUFFICES ASSUME Init PROVE WholeInv
      OBVIOUS
    <2>1. \A h : ~OnList(h)
      BY IdleIsEmpty DEF Init, OnList, Empty
    <2>2. \A r \in Requests : Behind(r)
      BY IdleIsEmpty DEF Init, Behind, At
    <2> QED
      BY <2>1, <2>2 DEF WholeInv
  <1>2. IInv /\ WholeInv /\ [Next]_vars => WholeInv'
    <2> SUFFICES ASSUME IInv, WholeInv, [Next]_vars PROVE WholeInv'
      OBVIOUS
    <2>1. CASE UNCHANGED <<listed, rates, avail, profiles, req, broken>>
      BY <2>1 DEF WholeInv, Behind, At, OnList, Tracked, Whole, Storing
    <2>2. CASE \E r \in Requests : Reserve(r) \/ Store(r) \/ Search(r) \/ Fail(r)
      BY <2>2, StoreWhole, OtherWhole
    <2> QED
      BY <2>1, <2>2 DEF Next, vars, RegisterUser
  <1> QED
    BY <1>1, <1>2, Inductive, WholeStrengthens, PTL DEF Spec
=============================================================================
