\* Two hints, two callers, two futures at a time on a pool of one thread, one shutdown or clearing.
SPECIFICATION PreloadSpec
CONSTANTS
    Hint = {h1, h2}
    Caller = {c1, c2}
    Future = {f1, f2}
    Workers = 1
    MaxStops = 1
INVARIANT PreloadInv
PROPERTIES EventuallyCached
