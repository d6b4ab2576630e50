SPECIFICATION FairSpec
CONSTANTS
  Ops = {o1, o2}
  NoOp = NoOp
INVARIANTS
  LoginUnderLease
  LoginInv
PROPERTIES
  NoRetryWhileUnknown
  VerdictAfterDeath
  LoginEnds
