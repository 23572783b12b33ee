CONSTANTS
  Requests = {r1, r2}
  Users = {"u1", "u2"}
  Authors = {"u1"}
  Follows <- Mutual
  Posts = {p1, p2, p3}
  Batches = {0, 2}
  Limit = 3
  MaxAsked = 2
SPECIFICATION Spec
CONSTRAINT FewSteps
SYMMETRY Sym
INVARIANTS TypeOK FollowSymmetric DeliveredIsKept AuthorFirst StoredBeforeShown
