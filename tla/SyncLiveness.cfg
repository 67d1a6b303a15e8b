SPECIFICATION FairSpec
CONSTANTS
  Transactions = {1}
  Categories = {}
  Banks = {}
  Amounts = {5}
  MaxSkew = 1
  BatchSize = 1
  PageSize = 1
  Null = Null
  Devices = {d1}
  Tabs = {t1}
  DeviceOf <- OneDevice
  SkewOf <- NoSkew
  CategoryOf <- NoCategory
  StartTime = 1
  MaxTime = 2
  MaxEdits = 2
  MaxPushes = 3
  MaxPages = 3
  MaxFaults = 1
PROPERTIES CycleEnds PendingIsAnswered
