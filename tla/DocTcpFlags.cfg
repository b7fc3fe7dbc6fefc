SPECIFICATION AttachedSpec
CONSTANTS
  s1 = s1
  s2 = s2
  Socks <- TwoSocks
  Pids = {1}
  MaxEntries = 1
  MaxConns = 1
  MaxTotal = 2
  MaxMisses = 0
INVARIANT FlagsTellDirection
