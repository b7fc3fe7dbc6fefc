SPECIFICATION Spec
CONSTANTS
  t1 = t1
  t2 = t2
  t3 = t3
  e1 = e1
  e2 = e2
  e3 = e3
  Threads = {t1, t2, t3}
  NumCPUs = 3
  Elements = {e1, e2, e3}
  PerfEntries = 2
  MaxCalls = 4
SYMMETRY Perms
INVARIANTS EventOfOneCall LostForAReason
