\* Two producers, two consumers, a queue of one or two items.
CONSTANTS
  Producers = {p1, p2}
  Consumers = {c1, c2}
  Owner = owner
  Profiles <- MCProfiles
  Sizes = {1, 2}
  Quota <- MCQuota
  p1 = p1
  p2 = p2
  MaxBatch = 2
SPECIFICATION FairSpec
INVARIANTS
  TypeOK
  NoLostWakeup
  CloseReachesEveryWaiter
  InOrderExactlyOnce
PROPERTIES
  ImplementsChannel
  Drains
  CloseReleasesEveryone
CHECK_DEADLOCK TRUE
