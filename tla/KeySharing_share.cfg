SPECIFICATION Spec
CONSTANTS
    Users = {alice, bob}
    Files = {f1, f2}
    Docs = folder
    Creator = alice
    Roles = {"owner"}
    Threshold = 1
    Retention = 2
    MaxRequests = 6
CHECK_DEADLOCK FALSE
INVARIANTS OneGrantEach PlaintextHasNoKeys
PROPERTIES ActivationComplete KeysOnlyForEntitled DeferredSharesSettle
