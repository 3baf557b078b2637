SPECIFICATION OverlapSpec
CONSTANTS
    Txns = {t1, t2}
    Keys = {k}
    Links = {l}
    Sources = {a1, a2}
    Absent = Absent
    Nil = Nil
    Quotas = {1}
    DefaultQuota = 0
    PresignedUntil = 0
    LinkExpires = 3
    GuessLimit = 2
    GuessWindow = 2
    LastTick = 3
    MaxRequests = 5
    r1 = r1
    r2 = r2
    p1 = p1
    p2 = p2
    Readers = {r1, r2}
    Processes = {p1, p2}
    ProcessOf <- BothInOne
    Owner = p2
    None = None
    MaxChanges = 2
    MaxOutages = 1
    Requests = {q1, q2}
    Ids = {n1, n2, n3}
    Root = root
    NoParent = NoParent
    Names = {x, y}
    Destinations = {n1}
    MaxDepth = 4
    MaxStart = 2
INVARIANTS ProvisionedOnce GuessesBounded CountNeverAhead
PROPERTIES TransactionsEnd
INVARIANTS OneLoadPerProcess TreeAcyclic
PROPERTIES WaitersServed StaleAllowEnds
PROPERTIES DeletionsKept RequestsEnd
CHECK_DEADLOCK FALSE
