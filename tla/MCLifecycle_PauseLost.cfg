SPECIFICATION Spec
CONSTANTS
    Conns = {h, g}
    HostConns = {h}
    Desks = {}
    Timers = {t1, t2}
    Graced = TRUE
    None = None
INVARIANT
    PausedIsEnforced
