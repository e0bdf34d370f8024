SPECIFICATION BudgetSpec
CONSTANTS
  Callers = {p1}
  Token = {t1, t2, t3}
  NoToken = NoToken
  Never = Never
  LoginBackoff <- FineBackoff
  Forget = 3
  ExpiryLimit = 2
  Faults = {"error","rejected","lost"}
INVARIANTS ExpiryBudget
PROPERTIES ReclaimsSpaced AcceptedSessionKept HonoursContract SessionRegained
