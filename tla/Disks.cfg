SPECIFICATION Spec
CONSTANTS
    Procs = {p1, p2, p3}
    IDs = {x1, x2}
    Existing = {x1}
    IdKey = diskid
    t1 = t1
    t2 = t2
    v1 = v1
    x2 = x2
    Tags = {t1, t2}
    Values = {v1}
    Bad = Bad
    Absent = Absent
    Metadata <- MCMetadata
    NoClaim = NoClaim
    NoRequest = NoRequest
    MaxVersion = 3
CHECK_DEADLOCK FALSE
SYMMETRY Sym
INVARIANTS TypeOK BindingIsNoticed CreatedDiskIsBound DeletedStaysDeleted
PROPERTIES MetadataKeepsTheRest HasDiskIsRight
