SPECIFICATION FairSpec
CONSTANTS
    Names = {a, b}
    Uploads = {u1, u2}
    Detaches = {d1}
    Cap = 1
    Restarts = 1
    None = None
INVARIANTS
    TypeOK
    OvershootBounded
    LossExplained
PROPERTIES
    DeletedForGood
    DeadLeaveNothing
    OrphansGo
