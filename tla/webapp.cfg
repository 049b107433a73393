SPECIFICATION MCSpec
CHECK_DEADLOCK FALSE
CONSTANTS
    TicksPerDay <- MCTicksPerDay
    AvailableWorkstations = 2
    Forms = {f1, f2}
    MaxAttempts = 2
    MaxFailures = 2
    Entries <- MCEntries
    Requests <- MCAttempts
    Posts <- MCAttempts
    JobIds <- MCAttempts
    Keys <- MCKeys
    Commands <- MCCommands
    Tickers = {msft, ibm}
    Dates = {d1}
    NoRequest = NoRequest
    f1 = f1
    f2 = f2
    msft = msft
    ibm = ibm
    d1 = d1
INVARIANTS
    WebTypeOK
    FormActsOnce
    PagesTellTheTruth
PROPERTIES
    SilenceIsFinal
    FinishFollowsPlan
