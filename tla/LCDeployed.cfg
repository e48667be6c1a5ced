SPECIFICATION FairSpec
CONSTANTS
    Procs = {p1, p2}
    Agents = {a1}
    n1 = n1
    n2 = n2
    Names = {n1, n2}
    CloudProps <- DeployedProps
    Namespace = ns
    NoRequest = NoRequest
    NoCall = NoCall
    Serialised = TRUE
CHECK_DEADLOCK FALSE
PROPERTIES DeletedVMGoes
