SPECIFICATION Spec
CONSTANTS
  w1 = w1  w2 = w2  ann = ann  bob = bob  p1 = p1  c1 = c1
  Requests = {r1, r2}
  Queries <- Visits
  Addresses = {"x", "y", "z"}
  FrontDoorIp = "front_door"
  WorkIds = {w1, w2}
  seed_corpus <- Seed
  Registered <- Legacy
  Registrations <- Rows
  MaxHopRecords = 1
CHECK_DEADLOCK FALSE
INVARIANT TypeOK
INVARIANT AuditCountsVisitors
INVARIANT PublishedFiguresStand
INVARIANT ManifestIsHonest
PROPERTY RobotsFirstIsTrue
PROPERTY EveryVisitIsAnswered
