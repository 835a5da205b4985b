SPECIFICATION DlqSpec
CONSTANTS
    Messages = {m1, m2}
    Passes = {p1}
    Limits = {0}
    MaxRetries = 0
    MayClear = FALSE
CHECK_DEADLOCK FALSE
INVARIANT FailedMessagesKept
