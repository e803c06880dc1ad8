SPECIFICATION FairSpec
CONSTANTS
  h1 = h1
  h2 = h2
  main = main
  pA = pA
  pB = pB
  del = del
  adm = adm
  pl = pl
  jx = jx
  jl = jl
  Approvals = {pA, pl}
  AdminApprovals = {}
  Jobs = {jx, jl}
  LocalJobs = {jl}
  UploadedJobs = {}
  Purgeable = {}
  Handlers = {h1}
  Main = main
  JobOf <- MCJobOf
  ActionOf <- MCActionOf
  MaxCrashes = 1
  None = None
  Void = Void
PROPERTY RestartSettlesRecorded
