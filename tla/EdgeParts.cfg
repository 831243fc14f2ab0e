CONSTANTS
  a = a
  b = b
  c = c
  Parts = {"ring", "kde", "helper", "gnome", "surface", "outputs", "video", "web", "scene"}
  Slots = 3
  MaxShadows = 3
  MaxPools = 2
  MaxArrivals = 2
  MaxRuns = 2
  MaxHelpers = 3
  MaxDials = 3
  MaxInputs = 2
  MaxBinds = 2
  MaxShown = 3
  MaxSessions = 2
  MaxPosts = 3
  MaxBounds = 2
  MaxSlots = 2
  MaxPlugs = 3
  MaxTurns = 1
  MaxTransports = 3
  Length = 2
  MaxOrders = 2
  MaxStalls = 1
  MaxMisses = 1
  MaxSettings = 2
  MaxDeaths = 1
  MaxOrdered = 3
  MaxRewrites = 2
  CacheLimit = 2
SPECIFICATION PartsSafety
INVARIANTS
  ImagesAreKept
  GnomeAgrees
  LayerShellAgrees
  WebObeys
  NativeWorkersObey
CHECK_DEADLOCK FALSE
