SPECIFICATION MCFairSpec
CONSTANTS
  c1 = c1
  c2 = c2
  c3 = c3
  s1 = s1
  s2 = s2
  d1 = d1
  d2 = d2
  r1 = r1
  r2 = r2
  k1 = k1
  k2 = k2
  NoDevice = NoDevice
  NoCert = NoCert
  NoRequest = NoRequest
  Certs = {c1, c2, c3}
  Legacy = {c1, c3}
  Serials = {s1, s2}
  SerialOf <- Serial3
  Devices = {d1, d2}
  DeviceOf <- DeviceMissing
  Requests = {r1, r2}
  Conns = {k1}
  CertOf <- UseBoth
  BrokerKeepsUp = TRUE
  a1 = a1
  a2 = a2
  p = p
  P = P
  Q = Q
  n1 = n1
  n2 = n2
  Nobody = Nobody
  NoCa = NoCa
  NoPolicy = NoPolicy
  Admins = {a1, a2}
  Cas = {p}
  Names = {P, Q}
  DefaultName = P
  Nicks = {n1, n2}
  Drafts <- Editor
  Replies = {"ok", "refused", "late", "ignored"}
  MaxNodes = 1
  Tunings = {FALSE}
PROPERTY KickedSessionsEnd
INVARIANT RevokedIsRefused
PROPERTY Implements
PROPERTY BridgesStay
CHECK_DEADLOCK FALSE
