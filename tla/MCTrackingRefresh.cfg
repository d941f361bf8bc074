SPECIFICATION Spec
CONSTANTS
    r1 = r1  r2 = r2  r3 = r3  sA = sA  sB = sB  lA = lA  lB = lB
    RowIds = {r1, r2}
    Sheets = {sA, sB}
    Lookups = {lA, lB}
    Documents <- MCDocuments
    BootRows <- TwoLookups
    EngineSlots = 1
    HostSlots = 1
    MaxGen = 2
    MaxFaults = 2
    NoRow = NoRow
    NoRecord = NoRecord
INVARIANTS RecordMatchesLookup NoStrandedRow CountsAgree RefreshReported
PROPERTIES LateResultsIgnored NoCrossDocumentWrite RowsSettle
