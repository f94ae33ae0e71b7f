SPECIFICATION FairSpec
CONSTANTS
  l1 = l1
  l2 = l2
  title = title
  Lookups <- TwoLookups
  QueryOf <- OneQuery
  MaxEvents = 2
  MaxChanges = 1
CHECK_DEADLOCK FALSE
INVARIANTS
  ClientOK
PROPERTIES
  CacheOnlyOffline
  KeepsPromise
  EveryLookupAnswered
