SPECIFICATION Spec
CONSTANTS
  w1 = w1  w2 = w2  ann = ann  bob = bob  acme = acme
  Requests = {r1, r2, r3}
  WorkIds = {w1, w2}
  Principals = {ann, bob, acme}
  Nobody = Nobody
  Keys <- KeyIds
  credentials <- Records
  Seeds <- Registered
  Calls <- SomeCalls
  InternalCalls <- Strays
  MAX_CLOCK_SKEW_SECONDS = 1
CHECK_DEADLOCK FALSE
INVARIANT NothingInitiatedIfUnavailable
