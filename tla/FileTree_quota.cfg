SPECIFICATION Spec
CONSTANTS
    alice = alice
    rootA = rootA
    bob = bob
    rootB = rootB
    Users = {alice, bob}
    RootOf <- TwoRoots
    Ids = {n1, n2, n3}
    NoParent = NoParent
    Names = {x}
    RootName = RootName
    Reserved = Reserved
    Sizes = {1}
    Quota <- TwoQuotas
    Admins = {}
    Shares <- BobOwnsAlice
    Transferees = {}
    MaxDepth = 3
    PageSize = 5
    Retention = 2
    PurgeBudget = 1
    SweepBatch = 2
    MaxDeletes = 2
    MaxStrays = 1
SYMMETRY IdSymmetry
INVARIANTS StoredWithinQuota
