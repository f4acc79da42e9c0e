\* Three clients on two entries; three failures in a window of three ticks block.
SPECIFICATION Spec
CONSTANTS
    Client = {c1, c2, c3}
    Limit = 3
    Window = 3
    MaxEntries = 2
    Watched = c1
INVARIANT ThrottleInv
PROPERTIES EvictsLeastRecent BlockEnds
