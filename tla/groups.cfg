SPECIFICATION Spec
CONSTANTS
    u1 = u1
    u2 = u2
    g1 = g1
    g2 = g2
    i1 = i1
    w1 = w1
    w2 = w2
    Users = {u1, u2}
    Owners = {u1}
    Named = {g1}
    Anon = Anon
    Items = {i1}
    Policies <- Settings
    Given = {"later"}
    Admins = {w1}
    MaxChanges = 2
    MaxListed = 1
INVARIANT BoundOnlyWhileMember
PROPERTY LockedStaysFrozen
CHECK_DEADLOCK FALSE
