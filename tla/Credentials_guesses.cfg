SPECIFICATION CredSpec
CONSTANTS
    Txns = {t1}
    Keys = {}
    Links = {l}
    Sources = {a1, a2}
    Absent = Absent
    Nil = Nil
    Quotas = {1}
    DefaultQuota = 0
    PresignedUntil = 0
    LinkExpires = 3
    GuessLimit = 2
    GuessWindow = 2
    LastTick = 3
    MaxRequests = 5
INVARIANTS GuessesPerLink
CHECK_DEADLOCK FALSE
