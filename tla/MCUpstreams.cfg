SPECIFICATION SideBySide
CONSTANTS
    g1 = g1  g2 = g2  g3 = g3  q1 = q1  q2 = q2  r1 = r1  r2 = r2
    Callers = {g1, g2, g3}
    FailureThreshold = 2
    HalfOpenMaxProbes = 2
    HalfOpenSuccessesToClose = 3
    MaxFailures = 4
    MaxOverrides = 2
    Requests = {q1, q2}
    Classes = {"success", "channel_error", "upstream_5xx", "ban"}
    MinSamples = 1
    RampMinSamples = 1
    Window = 2
    MinObservation = 1
    RampMin = 1
    RampMax = 2
    Cooldown = 1
    CreditsCooldown = 2
    BanCooldown = 2
    MaxForced = 2
    MaxLevel = 2
    MaxVersion = 2
    MaxOps = 1
    MaxFaults = 0
SYMMETRY Symmetric
CHECK_DEADLOCK FALSE
INVARIANTS
    BreakerSafety
    LaneSafety
PROPERTIES
    HealthKeepsOrder
    DisableStands
