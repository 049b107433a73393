SPECIFICATION MCSpec
CONSTANTS
    Handlers = {h1, h2}
    Nothing = Nothing
    Clients = {c1, c2}
    Stocks = {s1}
    Jobs = {j1, j2}
    Announcements <- MCAnnouncements
    MaxFailures = 2
    MaxQueue = 1
    c1 = c1
    c2 = c2
    s1 = s1
    j1 = j1
    j2 = j2
INVARIANTS
    TypeOK
    ContextAgrees
    ReferencesExist
    ShownUnlessFailed
PROPERTIES
    FinishedIsShown
CHECK_DEADLOCK FALSE
