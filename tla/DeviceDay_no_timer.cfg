CONSTANTS
  Base = 4
  MinSleep = 1
  Leads = {1, 2}
  WorkTime = 2
  BreakTime = 1
  LongBreakTime = 2
  UntilLongBreak = 2
  Checkpoint = 1
  MaxCatchUp = 5
  Epoch = 20
  Horizon = 25
  SyncTime = 1
  PowerCuts = 1
  Occurrences <- MCOccurrences
  NoTime = NoTime
  Docs = {a, b, c}
  Wide = a
  Pages <- MCPages
  WidePages <- MCWidePages
  MaxInbox = 2
  MaxOutbox = 1
  NoDoc = NoDoc
  MaxSessions = 2
  HoursPerDay = 24
  Lookahead = 40
  MaxEvents = 42
  MaxOverrides = 1
  Feeds <- MCFeeds
  HeaderBytes = 56
  MetadataBytes = 256
  EntryBytes = 16
  PageHeaderBytes = 22
  Documents <- MCDocuments
  PanelWidth = 16
  PanelHeight = 3
  BulkChunk = 4
  MaxRow = 4
  Cuts = {0, 1, 3, 7, 30, 45, 400}
SPECIFICATION MCSpec
SYMMETRY MCSymmetry
INVARIANT AlwaysArmsTheTimer
CHECK_DEADLOCK FALSE
