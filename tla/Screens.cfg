SPECIFICATION Spec
CONSTANTS
  MaxKits = 1
  MaxCeremony = 2
  MaxEdits = 2
  MaxRemote = 1
  RemoteItems = {"email"}
  MaxForms = 1
  Ids = {e1, e2}
  MaxVersions = 1
  MaxCalls = 2
  MaxCommands = 3
  Tags = {"t1", "t2", "t3"}
  Names = {"n1", "n2", "n3"}
  MaxTagCommands = 2
  MaxToggles = 2
  MaxRequests = 2
  MaxLocks = 1
  MaxFetches = 1
  MaxLoops = 4
  MaxAttempts = 4
  Slots = {s1, s2}
  MaxReviews = 2
  MaxSessions = 2
  MaxAnswers = 2
  Texts = {"a", "b"}
  MaxCopies = 3
  MaxSends = 1
  MaxUnlocks = 2
  Atts = {"a1", "a2", "a3"}
  SmallAtts = {"a1"}
  MaxReads = 2
  MaxPicks = 1
  Devices = {"d1", "d2"}
  Addrs = {"p", "q"}
  MaxClicks = 2
  MaxMounts = 2
  MaxMoves = 1
  Peers = {"d1"}
  MaxLoads = 4
  MaxVisits = 2
  Cameras = 2
  MaxStarts = 4
  MaxOpenings = 2
  MaxFiles = 1
  Accounts = {"a"}
  MaxChanges = 1
  MaxSweeps = 2
  MaxRenders = 2
  MaxOpens = 2
  MaxContents = 3
  MaxAudits = 4
  MaxParses = 2
  MaxImports = 2
  MaxOthers = 1
  MaxRecords = 2
  MaxCreated = 2
  MaxMountings = 4
  Options = {"plain", "rule", "other"}
  Sites = {"s"}
  MaxMakes = 3
  Secrets = {"s", "u"}
  MaxPeriods = 3
  MaxAsked = 3
  HistoryVersions = {"a", "b"}
  MaxRevisions = 3
  MaxHistoryCalls = 2
  MetaKeys = {"k", "l"}
  MetaValues = {"a", "b"}
  MaxSets = 2
  MaxForeign = 1
  MaxRuns = 2
  MaxRows = 3
  MaxNow = 6
  Dates = {0, 3}
  MaxTouches = 1
  MaxViews = 1
  Operations = {"o1", "o2", "o3"}
  MaxListed = 2
  MaxEvents = 3
  MaxLogins = 2
  SyncVaults = {"v", "w"}
  MaxEffects = 3
  MaxOpened = 2
  MaxScans = 2
  Viewports = {500, 790, 1600}
  Positions = {0, 200, 701}
  StoredWidths = {0, 219, 900}
  MaxDrags = 2
  ShownEntries = {"a", "b"}
  MaxPushed = 6
SYMMETRY Symmetry
INVARIANTS
  KitsCount
  FormExact
  ListExact
  ArrangedExact
  
  BackgroundSync
  LockStopsLogin
  ReviewExact
  ClipboardExact
  DetailExact
  SyncsAsAsked
  ScannerStops
  ChecksCurrent
  ImportedOnce
  
  
  MetadataKept
  PanelsFit
CHECK_DEADLOCK FALSE
