SPECIFICATION FairSpec
CONSTANTS
  Ops = {o1, o2}
  Turns = {u1, u2}
  Callers = {c1}
  NoCloud = NoCloud
  NoTurn = NoTurn
  SequenceEnds = FALSE

PROPERTIES
  EqualProjectionIsNoOp
