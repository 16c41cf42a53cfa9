SPECIFICATION MCSpec
CONSTANTS
    Keys = {k1, k2, k3}
    Slots = {s1, s2}
    Window = 2
    MaxKeys = 1
    Guests = {g1, g2, g3}
    Requests = {r1, r2}
    Caps = {1, 2}
    Nobody = Nobody
    Sessions = {a1, a2, a3}
    Codes = {c1, c2, c3}
    Drawers = {d1, d2}
    NoRow = NoRow
    Tasks = {t1, t2}
    Users = {u1, u2, u3}
    Changes = {x1, x2}
    NoUser = NoUser
    b1 = b1
    b2 = b2
    b3 = b3
    one = one
    two = two
    Builds = {b1, b2, b3}
    Versions = {one, two}
    Version <- MCVersion
    Writers = {"server", "script"}
    Senders = {w1, w2, w3}
    Viewers = {v1}
    Keep = 2
    MaxId = 4
SYMMETRY Sameness
INVARIANTS
    TypesOK
    SeatsBounded
    KnockHeard
    OneEditLate
    RolesAgree
    SomebodyInCharge
    UndisturbedHolds
    RowsBounded
    NothingMissed
    OnlyTheseBlock
PROPERTIES
    LimitKept
    TableBounded
    TrimIsExact
    KeepsPromise
