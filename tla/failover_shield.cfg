\* Three accounts, the last of them always healthy upstream; two concurrent
\* requests whose clients stay; probabilistic retries on.
SPECIFICATION Spec
CONSTANTS
  r1 = r1
  r2 = r2
  Requests <- MCRequests
  Dialect <- MCDialect
  IdOf <- MCIdOf
  KiroErrors <- MCKiroErrors
  GoodAccounts <- LastAccount
  TransportCodes = {504}
  N = 3
  Base = 1
  Cap = 2
  MaxFails = 2
  MaxInt = 127
  Probing = TRUE
  Disconnects = FALSE
INVARIANTS
  TypeOK
  GoodAccountShields
PROPERTIES
  ContractSpec
  GivesUpOnlyWhenNoneLeft
  BlamesTheAccountTried
  StartsWithLastSuccess
