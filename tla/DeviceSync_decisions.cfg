SPECIFICATION Spec
CONSTANTS
  p = p
  l = l
  Jobs = {l}
  PrintedJobs = {}
  CreatedAt <- MCCreatedAt
  Approvals = {1, 2}
  JobOf <- MCJobOf
  ActionOf <- MCActionOf
  Contested = {l}
  HasRelay = TRUE
  BatchSize = 1
  MaxInbox = 1
  MaxOutbox = 2
  MaxFaults = 1
  Missing = Missing
  NoJob = NoJob
INVARIANTS NoDecisionLost OnlyRelayReorders
PROPERTY DocumentFirst
