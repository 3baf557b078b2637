SPECIFICATION SurfaceSpec
CONSTANTS
    Requests = {r1, r2}
    k1 = k1
    k2 = k2
    Kids = {k1, k2}
    Tokens <- MCTokens
    Nobody = Nobody
    NoMoment = NoMoment
    Ttl = 1
    StaleMax = 1
    Cooldown = 2
    Limit = 1
    Window = 2
    LastMoment = 2
    MaxStarts = 3
    MaxEvents = 2
    small = small
    large = large
    Uploads = {mpu}
    Callers = {c1, c2, reaper}
    Reaper = reaper
    Numbers = {1, 2}
    Bodies = {small, large}
    SizeOf <- MCSizes
    Missing = Missing
    Gone = Gone
    QuotaBytes = 5
    Abandon = 0
    LastHour = 1
    MaxPuts = 2
    MaxCalls = 2
    MaxFailures = 1
    Rows = {1, 2, 3}
    Places = {1, 2}
    Filters = {"f", "g"}
    Matches <- MCMatches
    Surfaces = {"children", "search", "trash", "tags", "users", "s3", "feed"}
    Limits = {0, 1, 2}
    NoCursor = NoCursor
    NoPlace = NoPlace
    MaxChanges = 2
    PlainSizes = {0, 1, 2, 4, 5}
    FrameSizes = {2, 3}
    Chunks = {1, 4}
    HeaderCells = 2
    FrameOverhead = 2
    Absence = Absence
    Editors = {e1, e2}
    Labelled = {n1}
    Tags = {ta, tb, tc}
    MetaKeys = {ka, kb}
    Values = {va}
    Unheld = Unheld
    MaxTags = 2
    MaxPairs = 1
    MaxEdits = 2
SYMMETRY RequestSymmetry
INVARIANTS WithdrawnKeyRefused RefetchesBounded FreshMeansActive
INVARIANTS AssembledAsListed AcknowledgedPartsKept ChargeNeverAhead
INVARIANTS WalkComplete OnlyTrueBytes IntactIsReadable
INVARIANTS AnswersHold InventoryAgrees
CHECK_DEADLOCK FALSE
