SPECIFICATION Spec
CONSTANTS
    alice = alice
    rootA = rootA
    bob = bob
    rootB = rootB
    Users = {alice, bob}
    RootOf <- TwoRoots
    Ids = {n1, n2, n3}
    NoParent = NoParent
    Names = {x}
    RootName = RootName
    Reserved = Reserved
    Sizes = {}
    Quota <- TwoQuotas
    Admins = {bob}
    Shares <- BobOwnsAlice
    Transferees = {bob}
    MaxDepth = 3
    PageSize = 5
    Retention = 1
    PurgeBudget = 1
    SweepBatch = 2
    MaxDeletes = 2
    MaxStrays = 0
SYMMETRY IdSymmetry
INVARIANTS Rooted TrashNested SiblingNamesUnique
PROPERTIES LiveRowsSurvive OneDeletionRestored
