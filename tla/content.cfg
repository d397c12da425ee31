SPECIFICATION MCSpec
CONSTANTS
    d1 = d1
    a = a
    b = b
    c = c
    f1 = f1
    f2 = f2
    i1 = i1
    Nothing = Nothing
    Top = Top
    Devices = {d1}
    Layers = {a, b, c}
    Requests = {1}
    Editors = {1}
    Files = {f1}
    Items = {i1}
    Writers = {1}
    MaxLog = 3
    MaxRows = 2
    MaxMoved = 2
    h = h
    u1 = u1
    u2 = u2
    u3 = u3
    x1 = x1
    x2 = x2
    q1 = q1
    q2 = q2
    p1 = p1
    p2 = p2
    path = path
    s1 = s1
    s2 = s2
    v1 = v1
    v2 = v2
    web = web
    tak = tak
    Scripts <- Traffic
    KeepOf <- OneTick
    Lag = 0
    Batch = 2
    MaxClock = 3
    MaxCrashes = 1
    Packages = {h}
    Uploads = {u1, u2, u3}
    Removals = {x1, x2}
    MaxFails = 1
    Editing = {q1, q2}
    Profiles = {p1, p2}
    NoProfile = Nothing
    Paths = {path}
    MaxNames = 4
    MaxBreaks = 1
    StreamPaths = {s1, s2}
    FeedIds = {i1}
    Viewers = {v1, v2}
    InGroup = {v1}
    Callers = {web, tak}
    FeedEditors = {tak}
    MaxAsks = 3
SYMMETRY Alike
CONSTRAINT Few
INVARIANT ItemIsInLog
INVARIANT NothingWithoutMission
PROPERTY IsALayerTree
PROPERTY FreshStays
INVARIANT RowHasItsFile
INVARIANT FileHasItsBytes
INVARIANT UidNamesOneFeed
CHECK_DEADLOCK FALSE
