SPECIFICATION FairSpec
CONSTANTS
  g1 = g1  g2 = g2  w1 = w1  o1 = o1  o2 = o2  c1 = c1  c2 = c2
  Grants = {g1}
  Works = {w1}
  Ops = {o1, o2}
  NoOp = NoOp
  NoEnd = NoEnd
  WorkOf <- OneWork
  RevokedSortsLast <- NoTies
  Callers = {c1, c2}
  Persistent = {c1}
  Skew <- Apart
  Seeds <- OneSeed
  NewScopes <- Narrower
  RevocableUses = {"fine_tuning"}
  MaxClock = 2
  MaxCrashes = 1
PROPERTY ImplementsPromise
PROPERTY OwedIsDelivered
