SPECIFICATION StockedSpec
CONSTANTS
  Transactions = {1}
  Categories = {}
  Banks = {}
  Amounts = {5}
  MaxSkew = 1
  BatchSize = 1
  PageSize = 1
  Null = Null
  Devices = {d1}
  Tabs = {t1, t2}
  DeviceOf <- OneDevice
  SkewOf <- NoSkew
  CategoryOf <- NoCategory
  StartTime = 1
  MaxTime = 1
  MaxEdits = 3
  MaxPushes = 3
  MaxPages = 3
  MaxFaults = 0
SYMMETRY TabSymmetry
INVARIANTS PushBeforePull
PROPERTIES TombstoneFinal
