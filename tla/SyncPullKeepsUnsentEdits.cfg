SPECIFICATION Spec
CONSTANTS
  Transactions = {1}
  Categories = {}
  Banks = {}
  Amounts = {5}
  MaxSkew = 1
  BatchSize = 1
  PageSize = 1
  Null = Null
  Devices = {d1}
  Tabs = {t1}
  DeviceOf <- OneDevice
  SkewOf <- NoSkew
  CategoryOf <- NoCategory
  StartTime = 1
  MaxTime = 2
  MaxEdits = 2
  MaxPushes = 2
  MaxPages = 3
  MaxFaults = 0
PROPERTIES PullKeepsUnsentEdits
