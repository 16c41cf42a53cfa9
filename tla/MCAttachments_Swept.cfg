SPECIFICATION Spec
CONSTANTS
    Names = {a, b}
    Uploads = {u1}
    Detaches = {d1}
    Cap = 1
    Restarts = 0
    None = None
PROPERTY
    SweptHadNoRow
