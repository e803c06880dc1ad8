SPECIFICATION Spec
CONSTANTS
  h1 = h1
  h2 = h2
  main = main
  pA = pA
  pB = pB
  del = del
  adm = adm
  pl = pl
  jx = jx
  jl = jl
  Approvals = {pA}
  AdminApprovals = {}
  Jobs = {jx}
  LocalJobs = {}
  UploadedJobs = {}
  Purgeable = {}
  Handlers = {h1, h2}
  Main = main
  JobOf <- MCJobOf
  ActionOf <- MCActionOf
  MaxCrashes = 0
  None = None
  Void = Void
INVARIANT RetriesNeverDuplicatePrints
