SPECIFICATION Spec
CONSTANTS
  t1 = t1
  t2 = t2
  t3 = t3
  c1 = c1
  c2 = c2
  Threads = {t1, t2, t3}
  CPUs = {c1, c2}
  MaxEntries = 2
  MaxActive = 2
  Answers <- SomeAnswers
  MaxCalls <- TwoOneOne
SYMMETRY Perms
INVARIANTS TypeOK EventOfOneReceive OnlyStoredReported EntryEndsWithReceive StoredReceiveReported
