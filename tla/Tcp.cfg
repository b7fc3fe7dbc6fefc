SPECIFICATION Spec
CONSTANTS
  s1 = s1
  s2 = s2
  Socks <- TwoSocks
  Pids = {1}
  MaxEntries = 1
  MaxConns = 3
  MaxTotal = 3
  MaxMisses = 1
SYMMETRY SockSymmetry
INVARIANTS TypeOK InboundEventsExact OutboundEventsExact NoRecordOutlives OneEventPerRecord SeenIsReported
