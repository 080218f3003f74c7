\* Two accounts that may both fail and two concurrent requests whose clients may
\* leave at any point; no probabilistic retry, so a quarantine is strict.
SPECIFICATION FairSpec
CONSTANTS
  r1 = r1
  r2 = r2
  Requests <- MCRequests
  Dialect <- MCDialect
  IdOf <- MCIdOf
  KiroErrors <- FatalError
  GoodAccounts <- NoAccounts
  TransportCodes = {504}
  N = 2
  Base = 1
  Cap = 2
  MaxFails = 2
  MaxInt = 127
  Probing = FALSE
  Disconnects = TRUE
PROPERTIES
  NoEarlyRelease
  EveryRequestAnswered
  QuarantineEnds
