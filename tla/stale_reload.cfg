\* As upstream: the second attempt after a reload of the database.
SPECIFICATION Spec
CONSTANTS
  c1 = c1
  c2 = c2
  Callers <- MCCallers
  Streaming <- OneStreams
  Nobody = Nobody
  KiroCLI = TRUE
  Outsider = TRUE
  LossyReplies = TRUE
  MaxIssued = 2
  MaxRetries = 2
  FirstTokenMaxRetries = 2
INVARIANT RetryPresentsReloadedToken
