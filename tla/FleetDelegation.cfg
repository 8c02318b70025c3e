SPECIFICATION Spec
CONSTANTS
  Runs = {r1, r2, r3}
  MaxStamp = 7
  ClocksAgree = FALSE
CHECK_DEADLOCK FALSE
INVARIANT TypeOK
INVARIANT AbandonedIsDeregistered
INVARIANT DiscoveryIsExplained
