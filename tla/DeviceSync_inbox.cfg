SPECIFICATION FairSpec
CONSTANTS
  p = p
  l = l
  Jobs = {p, l}
  PrintedJobs = {p}
  CreatedAt <- MCCreatedAt
  Approvals = {1}
  JobOf <- MCJobOf
  ActionOf <- MCActionOf
  Contested = {p}
  HasRelay = FALSE
  BatchSize = 1
  MaxInbox = 1
  MaxOutbox = 1
  MaxFaults = 1
  Missing = Missing
  NoJob = NoJob
INVARIANTS TypeOK LossIsAccounted InboxIsReadable
PROPERTY DecisionArrives
