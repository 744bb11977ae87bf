SPECIFICATION LedgerSpec
CONSTANTS
    c1 = c1  c2 = c2  u1 = u1  u2 = u2  s1 = s1  s2 = s2  s3 = s3  a1 = a1
    Claims = {c1}
    Users = {u1}
    Wallets = {u1}
    UserOf <- MCUserOf
    InitialBalance <- MCInitialBalance
    Operational = {}
    Mandatory = {c1}
    Slots = {s1, s2}
    Accounts = {a1}
    Cap <- MCCap
    Costs = {1, 2}
    MaxSeq = 2
    Replayers = 2
    NoSlot = NoSlot
SYMMETRY Symmetry
INVARIANTS
    CommittedAttemptHasUsage
CHECK_DEADLOCK FALSE
