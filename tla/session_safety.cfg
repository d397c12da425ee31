SPECIFICATION Spec
CONSTANTS
  c1 = c1
  c2 = c2
  c3 = c3
  d1 = d1
  g1 = g1
  g2 = g2
  Conns = {c1, c2}
  Devices = {d1}
  DeviceOf <- OneDevice
  TransportOf <- MixedTransport
  Relays = {}
  Memberships = {g1, g2}
  Enabled = {g1}
  MaxRestarts = 1
  MaxRequests = 0
INVARIANT CompetingConsumersAreTransient
INVARIANT StepsAsideOnlyForAnother
CHECK_DEADLOCK FALSE
