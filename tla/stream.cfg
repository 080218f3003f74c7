\* Every stream of four objects, in every mode, for both dialects; the pinger is idle.
SPECIFICATION Spec
CONSTANTS
  OpenTags <- MCOpenTags
  Blanks <- MCBlanks
  Items <- MCItems
  Handlings = {"as_reasoning_content", "remove", "pass", "strip_tags"}
  MaxItems = 4
  MaxTicks = 0
INVARIANTS TextReassembled ToolCallsOnce ReasonMatchesReply RecordsMatchReply
PROPERTIES StreamsAMessage
\* A handler that has returned is at its end.
CHECK_DEADLOCK FALSE
