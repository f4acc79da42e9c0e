\* Every class of status; streams of six bytes in chunks of up to three, events of three.
SPECIFICATION Spec
CONSTANTS
    Status = {200, 302, 400, 401, 403, 404, 408, 409, 418, 429, 503, 520}
    MaxRetries = 3
    MaxEvent = 3
    MaxBody = 6
    MaxChunk = 3
INVARIANTS CallInv RelayIsFaithful MemoryBounded
PROPERTIES RefusedForSize ClientReleased
