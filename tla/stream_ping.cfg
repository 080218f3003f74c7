\* Short streams, with a pinger that ticks twice at any point.
SPECIFICATION Spec
CONSTANTS
  OpenTags <- MCOpenTags
  Blanks <- MCBlanks
  Items <- MCItems
  Handlings = {"as_reasoning_content", "pass"}
  MaxItems = 2
  MaxTicks = 2
INVARIANTS TypeOK
PROPERTIES StreamsAMessage NothingAfterReturn HandlerReturns
\* A handler that has returned is at its end.
CHECK_DEADLOCK FALSE
