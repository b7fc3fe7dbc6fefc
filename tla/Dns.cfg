SPECIFICATION Spec
CONSTANTS
  t1 = t1
  t2 = t2
  t3 = t3
  p1 = p1
  p2 = p2
  Threads = {t1, t2, t3}
  Procs = {p1, p2}
  ProcOf <- TwoAndOne
  MaxEntries = 1
  MaxCalls <- OneOneMore
  MaxKills = 1
SYMMETRY Perms
INVARIANTS TypeOK TrackedCallPaired UntrackedEventStale TrackedCallReported EntriesEndWithCall
