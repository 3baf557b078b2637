SPECIFICATION GwSpec
CONSTANTS
    alice = alice
    rootA = rootA
    Users = {alice}
    RootOf <- OneRoot
    Ids = {n1, n2, n3}
    NoParent = NoParent
    Names = {x, Reserved}
    RootName = RootName
    Reserved = Reserved
    Sizes = {1}
    Quota <- OneQuota
    Admins = {}
    Shares <- NoShares
    Transferees = {}
    MaxDepth = 3
    PageSize = 5
    Retention = 2
    PurgeBudget = 2
    SweepBatch = 0
    MaxDeletes = 2
    MaxStrays = 0
    MaxPath = 2
    MaxBatch = 2
    NoAnswer = NoAnswer
SYMMETRY IdSymmetry
INVARIANTS CountersExact ObjectsReferenced WrittenIsFound SharedViewExact OwnViewExact
