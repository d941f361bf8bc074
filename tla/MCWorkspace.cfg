SPECIFICATION Spec
CONSTANTS
    sa = sa  sb = sb  r1 = r1  r2 = r2  n1 = n1  n2 = n2  n3 = n3  i1 = i1  i2 = i2
    b1 = b1  b2 = b2  b3 = b3  m1 = m1  p1 = p1  k1 = k1  k2 = k2  x1 = x1  x2 = x2
    Sheets = {sa, sb}
    FirstSheet = sa
    ClientRows = {r1, r2}
    Lookup <- MCLookup
    Batches <- MCBatches
    MaxSelection = 2
    Documents <- MCDocuments
    NoRecord = NoRecord
    NoRow = NoRow
    Jobs = {1}
    Sources = {b1, b2, b3, m1}
    BagAnswers <- MCBagAnswers
    ManifestAnswers <- MCManifestAnswers
    NotFound = NotFound
    Requests <- MCRequests
    MaxSources = 2
    MaxItems = 3
    MaxAttempts = 2
    Scopes = {p1}
    Keys = {k1, k2}
    Drafts <- MCDrafts
    Workers = 1
    MaxPreviews = 2
    MaxExecuting = 1
    NoKey = NoKey
    NoRun = NoRun
    Scenarios <- MCScenarios
    MaxFaults = 1
INVARIANTS  NothingForeign
PROPERTIES ListsKept BagsLand WorkEnds
CHECK_DEADLOCK FALSE
