SPECIFICATION MCSpec
CONSTANTS
    TicksPerDay <- MCTicksPerDay
    AvailableWorkstations = 2
    JobIds = {j1, j2}
    Tickers = {msft, ibm}
    Requests = {1, 2, 3}
    Dates = {d1, d2}
    Commands <- MCCommands
    NoRequest = NoRequest
    NoSlot = NoSlot
    j1 = j1
    j2 = j2
    msft = msft
    ibm = ibm
    d1 = d1
    d2 = d2
INVARIANTS
    TypeOK
    VersionCountsEvents
    EventsAdmissible
    StockOverlapIsEnclosure
    RefusedLeavesNoTrace
    PublishedIsStored
    UnpublishedWasInterrupted
    PublishedOnceInOrder
    ReplayAgrees
PROPERTIES
    ImplementsLedger
    EveryRequestAnswered
