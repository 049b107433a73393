SPECIFICATION MCSpec
CONSTANTS
    Handlers = {h1, h2}
    Nothing = Nothing
    Clients = {c1, c2}
    Jobs = {j1, j2, j3}
    Announcements <- MCOneClientPlans
    Cost <- MCAlikeCost
    MaxJobsPerInvoice = 2
    MaxAmount = 10
    MaxFailures = 0
    MaxQueue = 1
    c1 = c1
    c2 = c2
    j1 = j1
    j2 = j2
    j3 = j3
PROPERTY
    CompletedIsInvoiced
