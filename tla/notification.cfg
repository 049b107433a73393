SPECIFICATION MCSpec
CONSTANTS
    Handlers = {h1, h2}
    Nothing = Nothing
    Clients = {c1, c2}
    Jobs = {j1, j2}
    Announcements <- MCAnnouncements
    MaxFailures = 1
    MaxQueue = 1
    TicksPerDay = 2
    MaxClock = 4
    c1 = c1
    c2 = c2
    j1 = j1
    j2 = j2
INVARIANTS
    TypeOK
    RemovedForAReason
    NotifiedOncePerFailure
    DayIsAnnouncedInTime
PROPERTIES
    RemindedOnTheDay
    DueIsNotified
CHECK_DEADLOCK FALSE
