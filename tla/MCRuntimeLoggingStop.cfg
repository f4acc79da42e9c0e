\* stop() finds the queue full and, a moment later, empty.
SPECIFICATION FairSpec
CONSTANTS
    Record = {r1}
    Warning = {}
    Call = {c1, c2}
    QueueSize = 1
    NoOne = NoOne
    Sentinel = Sentinel
PROPERTY StopReturns
CHECK_DEADLOCK FALSE
