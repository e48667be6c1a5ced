SPECIFICATION Spec
CONSTANTS
    Procs = {p1, p2}
    Agents = {a1}
    Disks = {d1, d2, d3}
    IPs = {i1, i2}
    Foreign = {d3}
    Serialised = FALSE
    MaxEvents = 3
    Creators <- MCCreators
    ContextOf <- MCContextOf
    NoIP = NoIP
    Metas = {NoMeta}
    NoMeta = NoMeta
    Down = Down
    NoPod = NoPod
    CreateVM = CreateVM
    NoRequest = NoRequest
    NoCall = NoCall
CHECK_DEADLOCK FALSE
SYMMETRY Sym
INVARIANTS TypeOK WindowExclusive IdleWatchIsRight NoSilentLoss NoForeignDisk
PROPERTIES UpdatesAreAtomic SuccessIsOwnPod
