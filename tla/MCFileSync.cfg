SPECIFICATION FairSpec
CONSTANTS
    People = {ann, ben}
    Conns = {c1, c2}
    Owner <- MCApart
    Paths = {f1, f2}
    Ttl = 1
    None = None
INVARIANTS
    TypeOK
    LeaseCoversEdit
    NoOrphanLeases
PROPERTIES
    Leases
    EditsSettle
    GoneLetGo
