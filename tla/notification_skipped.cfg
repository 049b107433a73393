SPECIFICATION MCAheadSpec
CONSTANTS
    Handlers = {h1, h2}
    Nothing = Nothing
    Clients = {c1, c2}
    Jobs = {j1, j2}
    Announcements <- MCAheadAnnouncements
    MaxFailures = 0
    MaxQueue = 1
    TicksPerDay = 3
    MaxClock = 9
    c1 = c1
    c2 = c2
    j1 = j1
    j2 = j2
CHECK_DEADLOCK FALSE
INVARIANT
    ScheduledIsNotified
