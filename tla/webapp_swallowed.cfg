SPECIFICATION MCRaceSpec
CHECK_DEADLOCK FALSE
CONSTANTS
    TicksPerDay <- MCTicksPerDay
    AvailableWorkstations = 2
    Forms = {f1, f2}
    MaxAttempts = 2
    MaxFailures = 0
    Entries <- MCRaceEntries
    Requests <- MCAttempts
    Posts <- MCAttempts
    JobIds <- MCAttempts
    Keys <- MCKeys
    Commands <- MCCommands
    Tickers = {msft, ibm}
    Dates = {d1}
    NoRequest = NoRequest
    f1 = f1
    f2 = f2
    msft = msft
    ibm = ibm
    d1 = d1
INVARIANT
    ShownIsPlanned
