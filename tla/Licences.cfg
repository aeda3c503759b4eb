CONSTANTS
  Whole = {"fcc"}
  Requests <- MCRequests
  Hulls <- MCVessels
  Services = {"fishing"}
  Outgrown = {"fishing"}
  Years = {1}
  Ships <- MCShips
  Canadians <- MCCanadians
  MinRows = 1
  Week = 2
  Recheck = 1
  InARow = 3
  Budget = 3
  Bad = {2}
  Horizon = 2
  Misses = 1
  Publications = 1
  Reboots = 1
SPECIFICATION RegistersSpec
CHECK_DEADLOCK FALSE
INVARIANTS LicencesReachTheListing
