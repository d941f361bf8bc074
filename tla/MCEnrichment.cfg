SPECIFICATION Spec
CONSTANTS
    s1 = s1  s2 = s2  b1 = b1  b2 = b2  f1 = f1  f2 = f2
    t1 = t1  t2 = t2  t3 = t3  t4 = t4  l1 = l1  m1 = m1  m2 = m2  m3 = m3
    Nobody = Nobody
    Shipments = {s1, s2}
    MaxContacts = 1
    BootContacts <- MCBootContacts
    Bags = {b1, b2}
    MaxRoutes = 1
    BootRoutes <- MCAllRoutes
    Manifests = {f1, f2}
    MaxSnapshots = 1
    ContactPages <- MCContactPages
    Labels <- MCLabels
    Lists <- MCLists
    PrintPages <- MCPrintPages
    MaxBags = 2
    Asked <- MCAsked
    MaxAttempts = 3
    Clocks <- MCClocks
    Decimals <- MCDecimals
    DeliveredNotes <- MCDeliveredNotes
    FailedNotes <- MCFailedNotes
    AgainNotes <- MCAgainNotes
    TimeOf <- MCTimeOf
    KoliOf <- MCKoliOf
    MaxRows = 6
    MaxItems = 3
    Trackings = {t1, t2, t3, t4}
    BagLookups = {l1}
    ManifestLookups = {m1, m2, m3}
    Shipment <- MCShipment
    BagsOf <- MCBagsOf
    Bag <- MCBag
    Manifest <- MCManifest
    Primary <- MCPrimary
    Scenarios <- MCScenarios
    MaxRouteTasks = 1
    Forced = {t1, l1, m1}
    MaxRestarts = 1
INVARIANTS SourceTruthful OneAcquisition ManifestIndexed AnswerEarned PageRead
PROPERTIES  RequestsAnswered
CHECK_DEADLOCK FALSE
