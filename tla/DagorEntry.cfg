CONSTANTS
  Bmax = 3
  Umax = 2
  Users = {u1, u2}
  Methods = {m1}
  BusinessMap <- Business
  Services = {"s"}
  Route <- CallsTwice
  Entry = "entry"
  Levels <- TwoLevels
  Calls = {c1, c2}
SPECIFICATION FairEntrySpec
INVARIANTS OnePriority WithinReach
PROPERTIES Reopens
