CONSTANTS
  a = a
  b = b
  c = c
  Parts = {"ledger", "outbox", "inbox", "control", "policy", "table", "daemon", "agree", "timeline", "layout", "config", "rules"}
  Screens = {a, b}
  Buffers = {a, b}
  MaxFrames = 2
  MaxSends = 5
  SocketRoom = 3
  OutboxRoom = 4
  MaxFramesSent = 4
  MaxWaits = 2
  Displays = {a, b}
  Controls = {c}
  MaxRequests = 2
  MaxCrashes = 2
  Monitors = {a, b}
  Clone = Clone
  Contributions <- SomeContributions
  MaxDelays <- SomeDelays
  MaxLate <- SomeLate
  Outputs = {a, b}
  KeyOf <- Keyed
  MaxRoutes = 3
  Daemons = {a, b}
  MaxEdits = 2
  Windows = {1, 2}
  Peers = {1, 2}
  Offers <- SomeOffers
  Adverts <- SomeAdverts
  Importable <- SomeImports
  Device <- Gpu
  MaxInstances = 2
  MaxPoints = 3
  MaxFaults = 1
  Panels = {a, b}
  Sizes <- SomeSizes
  Wishes <- SomeWishes
  Mounted = {0, 1}
  MaxLaid = 4
  Boards = {a, b}
  Payloads <- SomePayloads
  Files <- SomeFiles
  MaxAsked = 4
  Watched = {a, b}
  WindowReports <- SomeReports
  RuleBooks <- SomeBooks
  DisplayKeys = {"", "A", "B"}
  Lower <- SomeNames
  MaxJudged = 4
SPECIFICATION PartsSafety
INVARIANTS
  ReleasesKept
  ClientServed
  PlaybackFollowsWindows
  DisplaysShowWallpapers
  DaemonsKeepSettings
  BuffersAgreed
  TimelineTells
PROPERTIES
  AckIsCurrent
CHECK_DEADLOCK FALSE
