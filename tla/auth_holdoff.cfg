SPECIFICATION HistorySpec
CONSTANTS
  Callers = {p1}
  Token = {t1, t2, t3}
  NoToken = NoToken
  Never = Never
  LoginBackoff <- FineBackoff
  Forget = 2
  ExpiryLimit = 1
  Faults = {}
PROPERTIES HoldOffRespected
