SPECIFICATION Spec
CONSTANTS
  r1 = r1
  r2 = r2
  r3 = r3
  r4 = r4
  NamedWorks <- Named
  MayBe <- Plays
  MaxFaults = 1
  Instances = {i1, i2}
  Requests = {r1, r2, r3, r4}
  Nobody = Nobody
  Cached = {known}
  Uncached = {words}
  Interpretations <- SomeReadings
  RecordedReading <- Recorded
  Claims <- SomeClaims
  RevocableUses <- SomeUses
  MAX_SESSIONS_PER_IP_PER_HOUR = 2
  MAX_SIGNATURES_PER_SESSION = 1
  MAX_WORKS_PER_SESSION = 2
  MAX_INTERPRETS_PER_SESSION = 1
SYMMETRY Symmetric
CHECK_DEADLOCK FALSE
INVARIANT TypeOK
INVARIANT RegistryKeepsClaims
INVARIANT ClosedOfferStaysClosed
INVARIANT GrantedIsHeld
