SPECIFICATION HistorySpec
CONSTANTS
  Callers = {p1, p2}
  Token = {t1, t2, t3, t4, t5, t6}
  NoToken = NoToken
  Never = Never
  LoginBackoff <- NoBackoff
  Forget = 0
  ExpiryLimit = 1
  Faults = {"error","lost"}
SYMMETRY CallerSymmetry
INVARIANTS TypeOK TokenIsStored DroppedNeverReturns
PROPERTIES OnlyStaleRefusalsDrop KeepsSessions
ACTION_CONSTRAINT AtOnce
