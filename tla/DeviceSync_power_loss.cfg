SPECIFICATION Spec
CONSTANTS
  p = p
  l = l
  Jobs = {p}
  PrintedJobs = {p}
  CreatedAt <- MCCreatedAt
  Approvals = {3}
  JobOf <- MCJobOf
  ActionOf <- MCActionOf
  Contested = {}
  HasRelay = FALSE
  BatchSize = 1
  MaxInbox = 1
  MaxOutbox = 1
  MaxFaults = 1
  Missing = Missing
  NoJob = NoJob
INVARIANT PowerLossKeepsDecisions
