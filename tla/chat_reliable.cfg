SPECIFICATION MCSpec
CONSTANTS
  m1 = m1
  m2 = m2
  u1 = u1
  u2 = u2
  c1 = c1
  c2 = c2
  c3 = c3
  NoUser = NoUser
  Msgs = {m1, m2}
  TeamMsgs = {}
  Users = {}
  Conns = {c1, c2}
  RxGrace = 1
  UserTimeout = 2
  Keep = 2
  MaxTime = 3
  MaxLag = 1
  MaxChanges = 0
  Overlap = FALSE
  ChannelLags = FALSE
  DbFails = FALSE
INVARIANT DeliveredIsNotLost
PROPERTY BacklogBeforeLive
PROPERTY NeverResentAfterStamp
CHECK_DEADLOCK FALSE
