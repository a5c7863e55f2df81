SPECIFICATION Spec
CONSTANTS
    Proc = {p, q}
    phys_limit = 12
    PagesPerByte = 4
    Usable <- McUsable
    Bitmap = {1}
    Reclaimable <- McReclaimable
    Garbage = {12, 13}
    MaxSize = 2
    Nothing = Nothing
INVARIANTS
    NoSharing
CHECK_DEADLOCK FALSE
