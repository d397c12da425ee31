SPECIFICATION FairSpec
CONSTANTS
  c1 = c1
  c2 = c2
  c3 = c3
  d1 = d1
  g1 = g1
  g2 = g2
  Conns = {c1, c2}
  Devices = {d1}
  DeviceOf <- OneDevice
  TransportOf <- AllSsl
  Relays = {c2}
  Memberships = {g1, g2}
  Enabled = {g1}
  MaxRestarts = 0
  MaxRequests = 1
PROPERTY GoneDeviceNotConnected
PROPERTY ImplementsLink
CHECK_DEADLOCK FALSE
