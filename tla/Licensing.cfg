SPECIFICATION Spec
CONSTANTS
  Regions = {"US", "EU"}
  Last = 4
  NoEnd = NoEnd
  NoScope = NoScope
  NoDeal = NoDeal
  NoAnswer = NoAnswer
  Policies <- SomePolicies
  Proposals <- SomeProposals
  Requests <- SomeRequests
  Standing <- Granted
  MaxGrants = 2
CHECK_DEADLOCK FALSE
INVARIANT TypeOK
INVARIANT PermitsIsContainment
INVARIANT OfferWithinCeiling
INVARIANT NegotiationConverges
