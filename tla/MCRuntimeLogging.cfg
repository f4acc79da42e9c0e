\* Three threads that log, one of them a warning, and three calls of configure() or
\* stop(), on a queue of one; fair listeners and callers.
SPECIFICATION FairSpec
CONSTANTS
    Record = {r1, r2, w1}
    Warning = {w1}
    Call = {c1, c2, c3}
    QueueSize = 1
    NoOne = NoOne
    Sentinel = Sentinel
INVARIANTS ListenerInv WarningsSurvive
PROPERTY QueuedIsWritten
CHECK_DEADLOCK FALSE
