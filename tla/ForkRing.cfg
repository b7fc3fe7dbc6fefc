SPECIFICATION FairSpec
CONSTANTS
  c1 = c1
  c2 = c2
  c3 = c3
  CPUs = {c1, c2, c3}
  Capacity = 2
  MaxForks = 5
INVARIANTS TypeOK RecordsWhole
PROPERTIES ImplementsStream ReservedIsRead
