SPECIFICATION Spec
CONSTANTS
  g1 = g1  g2 = g2  w1 = w1  o1 = o1  o2 = o2  c1 = c1  c2 = c2
  Grants = {g1, g2}
  Works = {w1}
  Ops = {o1}
  NoOp = NoOp
  NoEnd = NoEnd
  WorkOf <- OneWork
  RevokedSortsLast <- NoTies
  Callers = {c1, c2}
  Persistent = {c1, c2}
  Skew <- InSync
  Seeds <- TwoSeeds
  NewScopes <- Narrower
  RevocableUses = {"training", "fine_tuning"}
  MaxClock = 2
  MaxCrashes = 1
INVARIANT TypeOK
INVARIANT EffectsAgree
INVARIANT ReportIsTrue
INVARIANT RevocationHolds
PROPERTY EndsWhatItSelected
SYMMETRY Symm
