SPECIFICATION PaydaysAloneSpec
CONSTANTS
  Accounts = {a1, a2}
  NoOne = NoOne
  Slots = {1, 2}
  MaxLoads = 1
  MaxShellFaults = 1
  MaxChanges = 1
  MaxSaves = 1
  NrPaydays = 3
  MaxOthers = 1
  Suggested = {"food"}
  Bills = {"rent"}
  NoName = "none"
  MaxTaps = 2
  MaxArrivals = 1
  MaxOpens = 2
  MaxSent = 2
  MaxRequests = 2
  MaxTicks = 2
  Flexible = {"food"}
  First = "food"
  NoCat = "none"
  MaxAmount = 1
  MaxEntered = 2
  MaxRefreshes = 1
  Size = 5
  StartSize = 2
  MaxTime = 3
INVARIANT WagePaidOnce
CHECK_DEADLOCK FALSE
