SPECIFICATION Spec
CONSTANTS
  p = p
  l = l
  Jobs = {l}
  PrintedJobs = {}
  CreatedAt <- MCCreatedAt
  Approvals = {1}
  JobOf <- MCJobOf
  ActionOf <- MCActionOf
  Contested = {}
  HasRelay = FALSE
  BatchSize = 1
  MaxInbox = 1
  MaxOutbox = 1
  MaxFaults = 0
  Missing = Missing
  NoJob = NoJob
INVARIANT UploadsAreReadable
