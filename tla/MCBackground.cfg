SPECIFICATION SideBySide
CONSTANTS
    t1 = t1  t2 = t2  w1 = w1  w2 = w2  op = op  money = money  usage = usage  mirror = mirror  persister = persister  audits = audits
    Tokens = {t1, t2}
    Requests = {w1, w2}
    Operators = {t1, t2}
    Nobody = Nobody
    MaxEdits = 1
    Ops = {t1, t2}
    Workers = {w1, w2}
    None = None
    MaxFaults = 2
    Rows = {money, usage, mirror}
    Kind <- ThreeKinds
    Poison = {mirror}
    QueueWorkers = {w1, w2, op}
    Manual = {op}
    OwnerOf <- SameName
    Leases <- FourLeases
    MaxAttempts = 2
    QuarantinePoison = TRUE
    MaxQueueFaults = 1
    NoHolder = NoHolder
    MediaWorkers = {w1, w2}
    Decisions = {"attach", "release", "close", "charge"}
    MaxMediaFaults = 3
    MaxDefers = 1
    NoOwner = NoOwner
    Refreshers = {w1, w2}
    NoRefresher = NoRefresher
    Cap = 1
    MaxTries = 1
    MaxVersion = 3
    MaxToken = 3
    MaxRefreshFaults = 1
    Events = {t1, t2, op}
    Handlers = {persister, audits}
    Wirings <- BothWirings
    Entries = {w1, w2, op, t1, t2}
    Priority = {w1, w2, op}
    SinkRoom <- Room21
    BatchSize = 2
SYMMETRY Symmetric
CHECK_DEADLOCK FALSE
INVARIANTS
    ConfirmSafety
    RecoverySafety
    QueueSafety
    BusSafety
    SinkSafety
    MediaSafety
    RefreshSafety
PROPERTIES
    FactsStand
