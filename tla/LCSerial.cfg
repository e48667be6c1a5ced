SPECIFICATION Spec
CONSTANTS
    Procs = {p1, p2, p3}
    Agents = {a1, a2}
    n1 = n1
    n2 = n2
    Names = {n1, n2}
    CloudProps <- EveryProps
    Namespace = ns
    NoRequest = NoRequest
    NoCall = NoCall
    Serialised = TRUE
CHECK_DEADLOCK FALSE
SYMMETRY Sym
INVARIANTS TypeOK PodHasItsSettings CreateIsComplete DeleteIsComplete DeleteIsNotRefused
PROPERTIES DeletionIsolated
