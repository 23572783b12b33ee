CONSTANTS
  Requests = {r1, r2}
  Hotels = {"h1"}
  Locations = {l1}
  Customers = {"c1"}
  Passwords = {w1}
  Capacities = {1, 2}
  Bookings <- Stays
  Limit = 2
SPECIFICATION Spec
SYMMETRY Sym
INVARIANTS SerialReservations AtomicUnlessOvertaken ListedIsWhole
