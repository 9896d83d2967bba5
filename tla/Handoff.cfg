SPECIFICATION FairSpec
CONSTANTS
  Wanted = 2
  Total = 2
  Clients = {c1, c2, c3}
  Nobody = Nobody
INVARIANTS ConnectionInOnePlace NoneLeftBehind SessionsWithinTotal DealtInTurn
PROPERTIES HandedIsTaken EndedIsReaped StopsAll
