\* Up to two candidates; every category, event and failure at every await.  Fair event
\* loop and clock, but candidates may stay silent for ever.
SPECIFICATION FairSpec
CONSTANT MaxAttempts = 2
INVARIANTS RequestInv  SuccessMeansTerminated
PROPERTIES NoReplay 
CHECK_DEADLOCK FALSE
