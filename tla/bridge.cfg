SPECIFICATION FairSpec
CONSTANTS
  A = A
  B = B
  C = C
  u1 = u1
  u2 = u2
  x = x
  y = y
  z = z
  d = d
  g = g
  h = h
  Anon = Anon
  NoServer = NoServer
  Servers = {A, B}
  Uids = {u1, u2}
  HomesOf <- Roaming
  Cots = {x, z, d}
  SenderOf <- Senders
  Groups = {Anon, g, h}
  KeysOf <- OneGroup
  Spaced = TRUE
  MaxBreaks = 1
INVARIANT NotHandedBack
INVARIANT OwnTrafficIsNotRemote
INVARIANT GuardsSwallowOnlyAfterLoss
PROPERTY EventsArrive
CHECK_DEADLOCK FALSE
