SPECIFICATION FairClearSpec
CONSTANTS
  c1 = c1
  c2 = c2
  d1 = d1
  r1 = r1
  r2 = r2
  Conns = {c1, c2}
  Devices = {d1}
  DeviceOf <- OneDevice
  MaxRestarts = 1
  Requests = {r1, r2}
INVARIANT CommandsAreKept
PROPERTY WaitsOnlyForDevice
CHECK_DEADLOCK FALSE
