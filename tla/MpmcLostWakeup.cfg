\* A program that uses front() and the bulk pops: the wake-ups no longer match.
CONSTANTS
  Producers = {p1, p2}
  Consumers = {c1, c2}
  Owner = owner
  Profiles <- BulkProfiles
  Sizes = {1, 2}
  Quota <- MCQuota
  p1 = p1
  p2 = p2
  MaxBatch = 2
SPECIFICATION Spec
INVARIANT BlocksOnlyWhenFullOrEmpty
