SPECIFICATION Spec
CONSTANTS
  Receivers = {c1}
  Conn = c1
  MaxSeq = 3
  MaxInFlight = 2
  MaxLate = 2
  MaxInstances = 2
INVARIANTS
  HonestPeers
  ShownContiguous
  NotStranded
