SPECIFICATION Spec
CONSTANTS
  g1 = g1  g2 = g2  g3 = g3  w1 = w1  w2 = w2  p1 = p1  p2 = p2
  i1 = i1  o1 = o1  o2 = o2
  Grants = {g1, g2, g3}
  Works = {w1, w2}
  Ops = {o1, o2}
  NoOp = NoOp
  NoEnd = NoEnd
  WorkOf <- TwoWorks
  RevokedSortsLast <- NoTies
  Incidents = {i1}
  Requests = {1}
  Principals = {p1, p2}
  HolderOf <- Separate
  AutomatedForbidden = {w1}
  OpOf <- IncidentOp
  Genesis = Genesis
  Accesses <- OldAndNew
  Buyers <- Readers
  Readings <- SomeUses
  Seeds <- Training
  NewScopes <- Reading
  Lag = 1
  MaxClock = 4
  MaxFailures = 1
CHECK_DEADLOCK FALSE
INVARIANT TypeOK
INVARIANT RecordIsTrue
INVARIANT FindingStands
INVARIANT LateRequestRefused
