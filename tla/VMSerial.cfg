SPECIFICATION Spec
CONSTANTS
    Procs = {p1, p2, p3}
    Agents = {a1}
    Disks = {d1, d2}
    IPs = {i1, i2}
    Foreign = {}
    Serialised = TRUE
    MaxEvents = 1
    Creators <- MCCreators
    ContextOf <- MCContextOf
    NoIP = NoIP
    Metas = {NoMeta}
    NoMeta = NoMeta
    Down = Down
    NoPod = NoPod
    CreateVM = CreateVM
    NoRequest = NoRequest
    NoCall = NoCall
CHECK_DEADLOCK FALSE
SYMMETRY Sym
INVARIANTS DisagreeOnlyAfterFailure AddressKept
PROPERTIES ImplementsAttachedDisks
