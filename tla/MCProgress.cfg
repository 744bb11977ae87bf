SPECIFICATION FairSideBySide
CONSTANTS
    money = money  poison = poison  w1 = w1  w2 = w2  r1 = r1  r2 = r2
    Rows = {money, poison}
    Kind <- TwoKinds
    Poison = {poison}
    QueueWorkers = {w1, w2}
    Manual = {}
    OwnerOf <- SameName
    Leases <- FourLeases
    MaxAttempts = 2
    QuarantinePoison = FALSE
    MaxQueueFaults = 1
    NoHolder = NoHolder
    None = None
PROPERTIES
    RowsAreDecided
    LimitsAreReturned
    OutagesEnd
CHECK_DEADLOCK FALSE
