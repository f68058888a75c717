CONSTANTS
    a1 = a1
    a2 = a2
    d1 = d1
    f1 = f1
    f2 = f2
    g1 = g1
    o1 = o1
    Handlers = {a1, a2}
    MaxId = 5
    Kinds = {"escpos", "cups"}
    Queued = {"cups"}
    Names = {"front"}
    Imported = {"printers"}
    Printers0 = 2
    None = None
    MaxRequests = 3
    Devices = {d1, a1, a2}
    Ours = d1
    MemberTypes = {"escpos_network", "zpl_network", "ipp_network"}
    EditTypes = {"zpl_network", "pool"}
    Drafts = {{"text", "qr"}, {"code128"}, {"upc", "image", "pulse", "cut"}, {"other"}}
    CopyCounts = {2}
    Absent = Absent
    MaxTries = 2
    MaxEdits = 1
    MaxReprints = 1
    Members = {d1, f1, f2}
    Rosters <- PoolRosters
    Dispatchers = {a1, a2}
    MaxDispatches = 4
    MaxFlaps = 1
    MaxPoolEdits = 1
    MaxPrinterId = 2
    Heartbeats = {a1, a2}
    Threshold = 1
    MaxTicks = 2
    MaxOutages = 2
    MaxChanges = 1
    Clients = {a1, a2}
    Limit = 2
    Window = 2
    MaxClock = 4
    MaxChecks = 6
    Files = {f1, f2}
    Escaped = {f2}
    Stores = {a1, a2}
    AssetDocuments = {g1, o1}
    AssetFormats = {g1}
    NoAsset = NoAsset
    MaxUploads = 2
    MaxRemovals = 2
    MaxSaves = 2
SPECIFICATION PrintersSpec
SYMMETRY Interchangeable
VIEW Moving
INVARIANTS PrintersTypeOK JobsKeepTheirPrinter FailsForAReason DoneIsTheRequest TurnsAreEven FindsAReachable OneAlertPerOutage AlertMeansOutage LimitHolds
PROPERTIES TablesAsPromised OnlyRacesMixParams OnlyRacesStaleCaps ImportMakesNoTwins ChangesAreAudited FormatsKeepTheirFiles
CHECK_DEADLOCK FALSE
