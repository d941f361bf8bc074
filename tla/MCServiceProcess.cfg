SPECIFICATION Spec
CONSTANTS
    k1 = k1  k2 = k2  h1 = h1  h2 = h2  h3 = h3  i1 = i1  i2 = i2  ui = ui  uh = uh  sd = sd  ux = ux
    Keys = {k1, k2}
    Writers = {h1, h2, h3, i1, i2, ui, uh, sd, ux}
    Flushers = {h3, "final"}
    IpcRequests = {i1, i2, ui, sd, ux}
    HttpRequests = {h1, h2, h3, uh}
    Method <- MCMethod
    Key <- MCKey
    Trusted = {h1, h2, h3, i1, i2, sd}
    QueueCapacity = 2
    BatchLimit = 2
    MaxRows = 1
    BootLegacy <- MCBootLegacy
    MaxFaults = 1
    MaxConnections = 1
    Scenarios <- MCScenarios
INVARIANTS StoresDurable ShutdownAnswered
 
CHECK_DEADLOCK FALSE
