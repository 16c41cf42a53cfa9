SPECIFICATION CodesSpec
CONSTANTS
    Sessions = {a1, a2, a3}
    Codes = {c1, c2, c3}
    Drawers = {d1, d2}
    NoRow = NoRow
PROPERTIES
    NeverRecycled
