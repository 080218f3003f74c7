\* As failover_shield, but clients may leave while their request is being served.
SPECIFICATION Spec
CONSTANTS
  r1 = r1
  r2 = r2
  Requests <- MCRequests
  Dialect <- MCDialect
  IdOf <- MCIdOf
  KiroErrors <- MCKiroErrors
  GoodAccounts <- LastAccount
  TransportCodes = {504}
  N = 3
  Base = 1
  Cap = 2
  MaxFails = 2
  MaxInt = 127
  Probing = FALSE
  Disconnects = TRUE
INVARIANT OnlyAccountErrorsQuarantine
