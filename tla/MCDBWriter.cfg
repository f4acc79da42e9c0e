\* Two log calls, two metadata calls and one flush on a queue of two, one place of
\* it reserved; the policy may be set again, to zero and to more than the queue was built for.
SPECIFICATION FairSpec
CONSTANTS
    LowCalls = {l1, l2}
    HighCalls = {h1, h2}
    Flushers = {f1}
    InitLimit = 1
    Reserve = 1
    PolicySizes = {0, 2}
    SqlCanFail = TRUE
    NoTask = NoTask
    Sentinel = Sentinel
INVARIANTS TypeOK SlotAccounting AllowanceKept CloseDrains
PROPERTIES FlushIsBarrier ImplementsLog MetadataWritten FlushReturns
CHECK_DEADLOCK FALSE
