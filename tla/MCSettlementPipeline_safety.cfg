SPECIFICATION PipelineSpec
CONSTANTS
    c1 = c1  u1 = u1  r1 = r1  r2 = r2  s1 = s1  s2 = s2  a1 = a1
    Claims = {c1}
    Users = {u1}
    Wallets = {u1}
    UserOf <- MCUserOf
    InitialBalance <- MCInitialBalance
    Operational = {}
    Mandatory = {c1}
    Slots = {s1, s2}
    Accounts = {a1}
    Cap <- MCCap
    Costs = {1}
    MaxSeq = 2
    Replayers = 1
    NoSlot = NoSlot
    Requests = {r1, r2}
    ClaimOf <- MCClaimOf
    RetryBudget = 2
    MaxFaults = 2
    IntentBatch = 1
    LeaseOutlivesAttempt = TRUE
    SweepIsPrompt = TRUE
SYMMETRY Symmetry
INVARIANTS
    DeliveredNeverAborted
    PipelineSafety
CHECK_DEADLOCK FALSE
