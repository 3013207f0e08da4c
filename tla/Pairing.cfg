SPECIFICATION Spec
CONSTANTS
  Proc = {p, q}
  Token = {t, u}
  Device = {phone, tablet}
  Lifetime = 2
  MaxTime = 3
  MaxReadFailures = 1
  MaxCommitFailures = 1
  MaxUses = 2
SYMMETRY Symmetry
INVARIANTS SingleUse TokenKept RegistryExact
CHECK_DEADLOCK FALSE
