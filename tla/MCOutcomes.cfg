SPECIFICATION FairSideBySide
CONSTANTS
    t1 = t1  s1 = s1  c1 = c1  c2 = c2  basic = basic  other = other
    Orders = {t1, s1}
    Kind <- PayKind
    Amount <- PayAmount
    Keys = {}
    Callers = {c1, c2}
    MaxPending = 0
    DailyLimit = 0
    EarlyStamps = TRUE
    MaxSpent = 0
    MaxFaults = 1
    MaxFlips = 1
    None = None
PROPERTIES
    MoneyIsDecided
    TasksEnd
CHECK_DEADLOCK FALSE
