SPECIFICATION Spec
CONSTANTS
  Transactions = {1}
  Categories = {2, 3}
  Banks = {3}
  Amounts = {5}
  MaxSkew = 1
  BatchSize = 1
  PageSize = 1
  Null = Null
  Devices = {d1}
  Tabs = {t1}
  DeviceOf <- OneDevice
  SkewOf <- NoSkew
  CategoryOf <- FirstCategory
  StartTime = 1
  MaxTime = 2
  MaxEdits = 3
  MaxPushes = 2
  MaxPages = 3
  MaxFaults = 1
INVARIANTS NoDanglingReference SyncedCategoryIsStored
