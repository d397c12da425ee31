SPECIFICATION MCSpec
CONSTANTS
  d1 = d1
  t1 = t1
  w1 = w1
  w2 = w2
  e1 = e1
  k1 = k1
  v1 = v1
  v2 = v2
  Names = {"Admin", "bob"}
  Protected = {"Admin"}
  Founders = {"Admin"}
  Workers = {w1, w2}
  MaxRequests = 3
  MaxGen = 2
  Devices = {d1}
  TokenIds = {t1}
  Phones = {e1}
  MaxUses = 1
  MaxVersions = 2
  Ids = {1, 2}
  Keys = {k1}
  Values = {v1, v2}
  Nothing = "nothing"
  Audiences <- Audience
  MaxTime = 3
  MaxSaves = 3
  a1 = a1
  b1 = b1
  b2 = b2
  Slots = {}
  Unknown = Unknown
  MaxSerial = 2
  MaxCrashes = 1
  Callers = {1, 2}
  MaxLinks = 1
  MaxRenewals = 1
  MaxFaults = 1
  BuiltIn = {b1, b2}
  PausedFirst = {b2}
  Admins = {a1}
  MaxOneOffs = 0
  MaxTicks = 0
SYMMETRY Alike
INVARIANT DeviceHasTheRest
CHECK_DEADLOCK FALSE
