SPECIFICATION MCSpec
CONSTANTS
    s1 = s1
    s2 = s2
    s3 = s3
    q1 = q1
    u4 = u4
    o1 = o1
    v1 = v1
    h1 = h1
    e1 = e1
    g1 = g1
    Windows = {w1, w2, w3}
    Monitors = {m1, m2}
    Requests = {r1, r2}
    MaxWindows = 1
    MaxDuration = 1
    MaxTime = 2
    MaxVersion = 2
    MaxFaults = 1
    Calls = {c1}
    Triggers = {t1}
    Outcomes = {"UP", "DOWN"}
    BatchSize = 1
    MaxConcurrentChecks = 1
    MaxRetries = 1
    Streams = {s1, s2, s3}
    Script <- MCScript
    Clients = {k1, k2}
    SendCap = 1
    MaxRestarts = 1
    MaxErrors = 1
    Users = {u1, u2, u3, u4}
    Founder = u1
    MaxInvites = 3
    TeamRequests = {q1, q2}
    MaxPendingInvites = 1
    UserLimit = 3
    MaxTeamFaults = 1
    Orders = {o1, o2}
    Serving = {v1, v2}
    MaxBillingFaults = 1
    Hooks = {h1, h2}
    Alerts = {e1, e2}
    PoolWorkers = {p1}
    JobCapacity = 1
    FailureLimit = 1
    WebhookLimit = 2
    HookCalls = {b1}
    MaxHookFaults = 1
    MaxCrashes = 1
    Results = {g1, g2}
    AlertCalls = {y1}
    MaxAlerts = 3
    MaxFailing = 1
    FlapThreshold = 1
    MaxAlertFaults = 1
    TemplateIds = {x1, x2, x3}
    SystemTemplates = {x3}
    Editors = {z1, z2}
    Conns = {l1, l2, l3}
    Callers = {a1, a2}
    MaxConns = 1
    MaxIdleConns = 1
    l1 = l1
INVARIANTS
    LimitBound
    StoppedMeansIdle
    NoSendOnClosed
    ProjectionCurrent
    PendingBound
    OutcomeRecorded
    PaidSettled
    ConnsAccounted
PROPERTIES
    WindowLifecycle
    WindowsEnd
    DueChecked
    HubAdvances
    AlertsSettled
    AlertsClear
    DefaultKept
CHECK_DEADLOCK FALSE
