SPECIFICATION MCSpec
CONSTANTS
  m1 = m1
  u1 = u1
  u2 = u2
  c1 = c1
  c2 = c2
  r1 = r1
  r2 = r2
  i1 = i1
  i2 = i2
  i3 = i3
  n1 = n1
  n2 = n2
  d1 = d1
  d2 = d2
  alpha = alpha
  NoUser = NoUser
  Msgs = {m1}
  TeamMsgs = {m1}
  Users = {u1, u2}
  Conns = {c1, c2}
  RxGrace = 0
  UserTimeout = 0
  Keep = 0
  MaxTime = 1
  MaxLag = 0
  MaxChanges = 1
  Overlap = TRUE
  ChannelLags = FALSE
  DbFails = TRUE
  Radios = {r1, r2}
  Uids = {u2}
  PluginOf <- PluginAtR2
  NoUid = NoUid
  Ids = {i1, i2, i3}
  NoId = NoId
  Short = {i3}
  Streams = {c1, c2}
  MaxPackets = 2
  MaxStarts = 2
  MaxCount = 3
  MaxLives = 2
  MaxErrors = 2
  Inodes = {n1, n2}
  Live = Live
  Backup = Backup
  Limit = 3
  MaxLines = 2
  MaxTexts = 3
  Remote = {d1}
  Local = {d2}
  Callsigns = {alpha}
  Nothing = Nothing
  MaxAccounts = 3
  MaxFails = 1
SYMMETRY AlikeInTraffic
INVARIANT BacklogForItsUser
INVARIANT RepliesFindTheirDevice
INVARIANT CountedOnce
INVARIANT PassedWasShown
INVARIANT AccountHasItsDevice
CHECK_DEADLOCK FALSE
