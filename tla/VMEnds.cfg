SPECIFICATION FairSpec
CONSTANTS
    Procs = {p1, p2}
    Agents = {a1}
    Disks = {d1}
    IPs = {i1}
    Foreign = {}
    Serialised = FALSE
    MaxEvents = 1
    Creators <- MCCreators
    ContextOf <- MCContextOf
    NoIP = NoIP
    Metas = {NoMeta}
    NoMeta = NoMeta
    Down = Down
    NoPod = NoPod
    CreateVM = CreateVM
    NoRequest = NoRequest
    NoCall = NoCall
CHECK_DEADLOCK FALSE
PROPERTIES EveryCallEnds
