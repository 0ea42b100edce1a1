SPECIFICATION PolicySpec
CONSTANTS
  Texts = {t1, t2, empty}
  Valid = {t1, t2}
  Keys = {k1, k2}
  NoKey = NoKey
  NoSig = NoSig
  MaxEdits = 3
  MaxLoads = 2
SYMMETRY Symmetry
INVARIANTS
  QuietLoadIsSigned
  GoodPolicyLoads
CHECK_DEADLOCK FALSE
