SPECIFICATION Spec
CONSTANTS
  Wanted = 2
  Total = 1
  Clients = {c1, c2, c3}
  Nobody = Nobody
INVARIANT SessionsWithinTotal
