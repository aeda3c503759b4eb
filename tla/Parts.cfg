CONSTANTS
  Hours = {0, 24}
  DayOf <- MCDayOf
  Recent = {1}
  VesselHours = {24}
  Held = {0}
  Inserts = 2
  Deletes = 1
  Faults = 2
  Events = 2
  LoadDays = {1, 2}
  Replays = 1
  Upsets = 1
  ConvertDays = {1, 2}
  PerDay = 2
  Rollbacks = 1
  Halts = 2
  Payloads = {"k1", "k2"}
  Window = 2
  PruneAge = 3
  PruneEvery = 2
  Skew = 1
  ReplayAge = 2
  Last = 3
  Arrivals = 3
  Boots = 2
  Keys = {"k1"}
  Udp = {}
  Chosen = {"n1"}
  Locked = {}
  Vessels = {"v1"}
  Changes = 1
  MaxTS = 2
  Mints = {"m1", "m2"}
  Refreshes = 1
  Crashes = 1
  Streams = {"c1", "c2", "c3"}
  Addresses = {"a1"}
  Stations = {"s1"}
  AnonConns = 1
  PersonalConns = 1
  FeederConns = 2
  AddrMax = 2
  Whole = {"fcc"}
  Requests <- MCRequests
  Hulls <- MCVessels
  Services = {"fishing"}
  Outgrown = {"fishing"}
  Years = {1}
  Ships <- MCShips
  Canadians <- MCCanadians
  MinRows = 1
  Week = 1
  Recheck = 1
  InARow = 3
  Budget = 3
  Bad = {2}
  Horizon = 1
  Misses = 1
  Publications = 1
  Reboots = 1
  Boats = {"b1"}
  CacheAge = 0
  AreaAge = 1
  LastClock = 2
  Reports = 2
  Heards = {"s1", "s2"}
  CellsMax = 1
  Share = 1
  Visitors = {"v1", "v2"}
  Edits = 1
  NetLoads = 2
  Sensors = {"s1"}
  RingHours = 3
  LastHour = 6
  Sightings = 3
  Exits = 2
  Masts = {"s1"}
  OwnShips = {"o1","o2"}
  OwnSettle = 1
  Forget = 2
  LastTick = 3
  Sendings = 2
  Restarts = 1
  Hulks = {"v1"}
  Fields = {"f1", "f2"}
  DayLength = 2
  BadAge = 2
  MaxStatics = 1
  LastMoment = 4
  Copies = 2
  Troubles = 1
  Inputs <- MCInputs
  HourTicks = 2
  DayHours = 1
  Warmup = 1
  Received = 3
  Queued = 2
  RawStops = 1
  Publishes = {"p1", "p2", "p3"}
  Exactly = {"p1", "p2"}
  PacketIds = {1, 2}
  Wire = 3
  Resends = 2
  Breaks = 1
SPECIFICATION Spec
CHECK_DEADLOCK FALSE
INVARIANTS ReadOnce EveryChangeIsOwed LoadsSettle ServedOnce SlotsMatchStreams RingsCountTheirHours StatesAreKept ReplayIsLive AckedIsTakenOnce
PROPERTIES ReadsOnlyAdvance SeriesCatchesUpHere CopiesCarryVerdict AcceptedOnce SignedStaysSigned DueIsServedHere  CoverageFollowsTheLoad OwnWasAlone
