SPECIFICATION Spec
CONSTANTS
    NULL = NULL
    CPU = {p, q}
    KLOG_BUFF_LEN = 16
    term_width = 6
    term_height = 2
    Texts <- TaskTexts
    PanicTexts <- TextsOfPanic
    LogMax = 2
    Panickers = {p, q}
INVARIANTS
    RingHoldsTail
    DrawsAlone
    FrameIsTail
PROPERTIES
    PanicShown
    LogShown
CHECK_DEADLOCK FALSE
