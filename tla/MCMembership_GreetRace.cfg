SPECIFICATION Spec
CONSTANTS
    Host = Host
    Guests = {g1}
    Conns = {c1, c2}
    Owner <- MCOwner
    Tasks = {t1}
    None = None
INVARIANT
    ApprovalReachesSocket
