\* Two callers overlap in every way (hit, join, overtake); two changes let one
\* account replacement meet a refresh or a hard failure.  Last-good data may be
\* published one tick before it is too old and then answers for Retry = 2 ticks.
SPECIFICATION FairSpec
CONSTANTS
  Callers = {c1, c2}
  Ttl = 2
  MaxStale = 3
  Retry = 2
  MaxTime = 4
  MaxEpoch = 2
  None = None
INVARIANTS TypeOK NothingRetired FreshIsNew OneFetchPerVersion
PROPERTIES StaleIsBounded EveryGetReturns
