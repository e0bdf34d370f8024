SPECIFICATION TakeoversSpec
CONSTANTS
  Callers = {p1, p2}
  Token = {t1, t2, t3, t4, t5, t6}
  NoToken = NoToken
  Never = Never
  LoginBackoff <- CoarseBackoff
  Forget = 1
  ExpiryLimit = 1
  Faults = {}
SYMMETRY CallerSymmetry
PROPERTIES TakeoversAreReal
