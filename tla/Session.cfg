SPECIFICATION Spec
CONSTANTS
  Ops = {o1, o2}
  Turns = {u1, u2}
  Callers = {c1, c2}
  NoCloud = NoCloud
  NoTurn = NoTurn
  SequenceEnds = TRUE
SYMMETRY Symmetry
INVARIANTS
  OneStartPerTurn
  ShownIsCommitted
  SnapshotMatchesEvents
  ActiveTurnIsAttended
  SessionInv
PROPERTIES
  TerminalPublishedOnce
  StoppedIsFrozen
