SPECIFICATION FairSpec
CONSTANTS
    Conns = {h, g}
    HostConns = {h}
    Desks = {"admin"}
    Timers = {t1}
    Graced = TRUE
    None = None
INVARIANTS
    TypeOK
    ArmedMeansEmpty
    EmptyIsWatched
PROPERTIES
    EmptySessionEnds
    EndReachesEveryone
