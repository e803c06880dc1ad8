SPECIFICATION Spec
CONSTANTS
  h1 = h1
  h2 = h2
  main = main
  pA = pA
  pB = pB
  del = del
  adm = adm
  pl = pl
  jx = jx
  jl = jl
  Approvals = {pA, pB}
  AdminApprovals = {}
  Jobs = {jx}
  LocalJobs = {}
  UploadedJobs = {jx}
  Purgeable = {jx}
  Handlers = {h1, h2}
  Main = main
  JobOf <- MCJobOf
  ActionOf <- MCActionOf
  MaxCrashes = 1
  None = None
  Void = Void
INVARIANTS TypeOK OneWinner  DuplicateNeedsCrashOrOverlap
PROPERTIES AnswerIsFinal 
SYMMETRY InstanceSymmetry
