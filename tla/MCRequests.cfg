SPECIFICATION SideBySide
CONSTANTS
    None = None  f1 = f1  f2 = f2  w1 = w1  w2 = w2  a = a  b = b  c = c
    Families = {f1, f2}
    Workers = {w1, w2}
    MaxFamilies = 1
    RevokeOldest = TRUE
    MaxGen = 2
    MaxVersion = 2
    MaxFaults = 1
    Claims = {f1, f2}
    Periods = {0, 1}
    Costs = {2}
    Limit = 2
    Burst = 1
    Slots = 1
    MaxAttempts = 2
    MaxTries = 2
    MaxQuotaFaults = 1
    Requests = {a, b, c}
    Claimless = {b}
    Unlimited = {c}
    Caps = {1, 2}
    BindingLimit = 1
    MaxWaiting = 1
    MaxSlotFaults = 1
    MaxSleeps = 1
    NoRequest = NoRequest
SYMMETRY Symmetric
CHECK_DEADLOCK FALSE
INVARIANTS
    SessionSafety
    QuotaSafety
    AdmissionSafety
PROPERTIES
    RevokedFamilyIsDead
