SPECIFICATION FairSpec
CONSTANTS
  Request = {r1, r2}
  Writer = {w1, w2}
  Publisher = {p1}
  MaxCrashes = 1
  NoOne = NoOne
  NoRequest = NoRequest
INVARIANTS TypeOK AppliedOnce OutboxInOrder
PROPERTIES ImplementsVersionedStore EventsPublishedUnlessOrphaned
CHECK_DEADLOCK FALSE
