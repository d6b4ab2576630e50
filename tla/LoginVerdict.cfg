SPECIFICATION Spec
CONSTANTS
  Ops = {o1, o2}
  NoOp = NoOp
INVARIANTS
  VerdictIsAccepted
