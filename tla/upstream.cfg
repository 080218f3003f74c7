\* Two goroutines, one of them streaming, on one account with kiro-cli credentials,
\* which kiro-cli itself refreshes too; replies of the identity service get lost.
SPECIFICATION FairSpec
CONSTANTS
  c1 = c1
  c2 = c2
  Callers <- MCCallers
  Streaming <- OneStreams
  Nobody = Nobody
  KiroCLI = TRUE
  Outsider = TRUE
  LossyReplies = TRUE
  MaxIssued = 2
  MaxRetries = 2
  FirstTokenMaxRetries = 2
INVARIANTS
  TypeOK
  PresentsNewestRefreshToken
PROPERTIES
  TokenNeverRegresses
  OneRefreshPerExpiry
  EveryCallEnds
