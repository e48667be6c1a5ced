SPECIFICATION CallsSpec
CONSTANTS
    Procs = {p1, p2}
    Others = {o1, o2}
    Agents = {a1}
    Disks = {d1, d2}
    IPs = {i1}
    Metas = {NoMeta, m1}
    NoMeta = NoMeta
    Serialised = FALSE
    MaxEvents = 1
    Creators <- MCCreators
    ContextOf <- MCContextOf
    NoIP = NoIP
    NoPod = NoPod
    CreateVM = CreateVM
    NoRequest = NoRequest
    NoCall = NoCall
    Invalid = Invalid
    NotAsked = NotAsked
    NotSeen = NotSeen
    MaxAbandoned = 1
    MaxCalls = 3
CHECK_DEADLOCK FALSE
SYMMETRY Sym
INVARIANTS CallsTypeOK DeletedVMReturnsOnlyFromWindow PodKeepsItsSettings AbsenceIsFinal MetadataLostOnlyByOverlap
PROPERTIES DiskListsAreRight
