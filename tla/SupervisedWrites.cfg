SPECIFICATION FairSpec
CONSTANTS
  a1 = a1  d1 = d1  d2 = d2
  Agents = {a1}
  Tasks = {1, 2, 3}
  AgentOf <- OneAgent
  Docs = {d1, d2}
  WritesOf <- Documents
  Deadline = 1
  Grace = 1
  FailureThreshold = 2
  MaxTime = 4
CHECK_DEADLOCK FALSE
INVARIANT TypeOK
INVARIANT FenceFollowsCall
INVARIANT OutcomesAreTrue
INVARIANT BreakerCountsFailures
PROPERTY LateWorkerHarmless
PROPERTY CallerIsAnswered
PROPERTY EveryLeaseEnds
