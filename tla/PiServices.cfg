CONSTANTS
  Posters = {p1, p2}
  Starter = main
  Pollers = {t1, t2}
  NoPoller = NoPoller
  Free = Free
  Texts = {x}
  Text = x
  Empty = Empty
  Torn = Torn
  Posts <- MCPosts
  Printers = {s1}
  Uploaders = {u1, u2}
  UploadIds = {job1}
  Docs <- MCDocs
  UploadOf <- MCUploadOf
  MaxPages = 2
  MaxStrips = 2
  MintBound = 1
  Editors = {e1, e2}
  Home = home
  Ssids = {home, guest}
  Passwords = {"good", "bad"}
  OwnNetwork <- MCOwnNetwork
  NoBody = NoBody
  MaxCalendars = 1
  MaxNetworks = 2
  EditBound = 4
  Devices = {d1}
  Admins = {a1, a2}
  Requests = {r1}
  Completions = {c1}
  TimerFields = {"work_minutes", "break_minutes"}
  Minutes = {5, 25}
  DefaultMinutes = 25
  TaskBound = 2
  TokenBound = 2
SPECIFICATION MCSpec
INVARIANTS
  PiTypeOK
  OnePoller PollerFollowsSettings 
  RowsAreBacked OrphansNeedAFault AnsweredIsStored
  ListsFitTheDevice OwnNetworkSurvives
  RevokeIsFinal DoneWasMeant PomodoroKeepsFields
PROPERTIES
  StopIsHonoured 
CHECK_DEADLOCK FALSE
