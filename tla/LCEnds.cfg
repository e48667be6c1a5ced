SPECIFICATION FairSpec
CONSTANTS
    Procs = {p1, p2}
    Agents = {a1, a2}
    n1 = n1
    n2 = n2
    Names = {n1, n2}
    CloudProps <- EveryProps
    Namespace = ns
    NoRequest = NoRequest
    NoCall = NoCall
    Serialised = FALSE
CHECK_DEADLOCK FALSE
PROPERTIES EveryCallEnds
