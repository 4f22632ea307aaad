SPECIFICATION ServicesSpec
CONSTANTS
    Conns = {k1, k2}
    RoomNames = {ra, rb}
    MaxRooms = 1
    OutboundBuffer = 1
    MaxPublishes = 2
    MessageBurst = 3
    ByteBurst = 4
    ByteRate = 2
    MaxViolations = 3
    Streams = {e1, e2}
    Topics = {ta, tb}
    StreamBuffer = 1
    MaxEvents = 3
    ExportRows = 5
    ChunkRecords = 2
    Readahead = 1
    Kids = {t1, t2, t3}
    GateLimit = 2
    Calls = {a1, a2, a3}
    Capacity = 2
    MaxExecutors = 2
    CacheCallers = {c1, c2}
    CacheKeys = {p1, p2}
    CacheTtl = 1
    CacheSize = 1
    CallAttempts = 2
    MaxFacts = 1
    MaxCacheTime = 1
    Uses <- TwoServers
    Pollers = {q1, q2}
    ReportTtl = 1
    ProbeTimeout = 1
    MaxHealthTime = 2
    Workers = {w1, w2}
    Rows = {ra, rb}
    NoWorker = nobody
    WorkAttempts = 2
    MaxWorks = 2
    MaxVersion = 3
    Writers = {w1, w2}
    MaxToken = 4
    Grants = {g1, g2}
    AuthRequests = {q1, q2}
    MaxTokens = 3
    Tenants = {ta, tb}
    NoTenant = notenant
    Requests = {q1, q2}
    Pool = {p1, p2}
    Payers = {y1}
    Orders = {o1}
    Price = 20
    Part = 5
    Exponent = 2
    MaxSends = 3
    Tolerance = 1
    GuardTtl = 3
    SendAttempts = 2
    ClaimLatency = 0
    Receivers = {v1, v2}
    MaxWebTime = 3
    ObjectKeys = {k1}
    OwnerOf <- OneOwner
    Datas = {d1, d2}
    PutThreads = {p1, p2}
    NoData = nothing
    Replicas = {r1, r2}
    MaxEdits = 2
    EventRows = {w1}
    NoRow = norow
    MaxBoots = 2
    Visitors = {v1}
    WelcomeTasks = {t1, t2, t3}
    MaxRetries = 1
    MailAttempts = 2
    MaxDispatches = 2
    MaxDeaths = 1
INVARIANTS
    ServicesTypeOK
    DeliveryIsHonest
    DataIsKept
    AccessIsBounded
    WorkIsOwned
    AnswersAreRecent
    EffectsHappenOnce
    EventsSurvive
CHECK_DEADLOCK FALSE
