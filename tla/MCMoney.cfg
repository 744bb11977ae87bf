SPECIFICATION SideBySide
CONSTANTS
    None = None  NoKey = NoKey
    t1 = t1  t2 = t2  s1 = s1  k1 = k1  k2 = k2
    u1 = u1  u2 = u2  v1 = v1  v2 = v2  r1 = r1  w1 = w1  w2 = w2
    shared = shared  granting = granting
    basic = basic  other = other  o1 = o1  o2 = o2
    Orders <- PayOrders  Kind <- PayKind  Amount <- PayAmount
    Keys = {k1}
    Users <- CodeUsers  Vouchers <- Codes  VoucherKeys = {k1}
    Subscriptions = {granting}  SingleUse = {shared}
    MaxRedemptions <- CodeMax  Value <- CodeValue
    Workers = {w1, w2}
    AdjustUsers = {u1, u2}  PlatformUsers = {u2}  Tenant = Tenant
    Adjustments <- ByHand  Clerks = {w1, w2}  NoAdjustment = NoAdjustment
    MaxUsed = 1
    MaxAdjustFaults = 0
    Callers = {w1, w2}
    MaxPending = 1
    DailyLimit = 2
    EarlyStamps = FALSE
    MaxSpent = 1
    MaxFaults = 0
    MaxFlips = 1
SYMMETRY Symmetric
CHECK_DEADLOCK FALSE
INVARIANTS
    PaymentSafety
    AdjustmentSafety
    VoucherSafety
    SubscriptionSafety
PROPERTIES
    DecisionsStand
