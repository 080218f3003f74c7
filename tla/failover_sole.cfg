\* One account and two concurrent requests; every error Kiro answers with, and
\* failures up to the fourth, where the window has reached its cap.
SPECIFICATION Spec
CONSTANTS
  r1 = r1
  r2 = r2
  Requests <- MCRequests
  Dialect <- MCDialect
  IdOf <- MCIdOf
  KiroErrors <- AllKiroErrors
  GoodAccounts <- NoAccounts
  TransportCodes = {502, 504}
  N = 1
  Base = 2
  Cap = 5
  MaxFails = 4
  MaxInt = 127
  Probing = TRUE
  Disconnects = TRUE
INVARIANTS
  WindowFormula
PROPERTIES
  SoleAccountSpeaks
