SPECIFICATION FairSpec
CONSTANTS
  h1 = h1
  h2 = h2
  main = main
  pA = pA
  pB = pB
  del = del
  adm = adm
  pl = pl
  jx = jx
  jl = jl
  Approvals = {pA, del, adm}
  AdminApprovals = {adm}
  Jobs = {jx}
  LocalJobs = {}
  UploadedJobs = {}
  Purgeable = {jx}
  Handlers = {h1}
  Main = main
  JobOf <- MCJobOf
  ActionOf <- MCActionOf
  MaxCrashes = 2
  None = None
  Void = Void
PROPERTY RecordedIsSettled
