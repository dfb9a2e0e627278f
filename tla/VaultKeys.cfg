SPECIFICATION Spec
CONSTANTS
    c1 = c1
    c2 = c2
    c3 = c3
    p1 = p1
    p2 = p2
    r1 = r1
    r2 = r2
    d1 = d1
    d2 = d2
    Callers = {c1, c2, c3}
    Proxies = {p1, p2}
    Home <- MCHome
    Fresh = {k1, k2, k3}
    LegacyKey = k0
    None = None
    Runs = {r1, r2}
    Lost = {x, y}
    Readers = {d1, d2}
    RunOf <- MCRunOf
    Ttl = 2
    Timeout = 1
    MaxMissing = 1
    Never = Never
    Interval = 3
    Threshold = 12
    Period = 16
    MaxCheck = 1
    NoKey = NoKey
    Threads = {t1, t2}
    Budget = 2
    MaxKey = 2
    MaxUsed = 4
INVARIANTS
    OneKeyForever
    SealedKeysResolve
    MissesExpire
    
PROPERTIES
    ImplementsLifetime
SYMMETRY Interchangeable
CHECK_DEADLOCK FALSE
