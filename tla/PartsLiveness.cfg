CONSTANTS
  a = a
  b = b
  c = c
  Parts = {"ledger", "outbox", "control", "table", "kde", "helper", "surface", "outputs", "video", "agree"}
  Screens = {a, b}
  Buffers = {a}
  MaxFrames = 2
  MaxSends = 5
  SocketRoom = 3
  OutboxRoom = 4
  Displays = {a, b}
  Controls = {}
  MaxRequests = 2
  MaxCrashes = 1
  Outputs = {a, b}
  KeyOf <- Keyed
  MaxRoutes = 3
  MaxPools = 2
  MaxArrivals = 1
  MaxRuns = 2
  MaxHelpers = 2
  MaxDials = 2
  MaxInputs = 1
  MaxPosts = 1
  MaxBounds = 1
  MaxSlots = 2
  MaxPlugs = 2
  MaxTurns = 0
  MaxTransports = 3
  Length = 1
  MaxOrders = 1
  MaxStalls = 1
  MaxMisses = 0
  Windows = {1, 2}
  Peers = {1}
  Offers <- OneOffer
  Adverts <- TwoAdverts
  Importable <- TwoImports
  Device <- Gpu
SPECIFICATION PartsLive
PROPERTIES
  TrafficMoves
  RequestsSettle
  RetiredPoolsGo
  ReportsArrive
  LayerShellProceeds
  VideoKeepsShowing
  AgreementFound
CHECK_DEADLOCK FALSE
