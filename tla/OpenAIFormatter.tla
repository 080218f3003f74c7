-------------------------- MODULE OpenAIFormatter --------------------------
(***************************************************************************)
(* The formatter of internal/streamingopenai: from the events of the       *)
(* pipeline to chunks of a chat completion.  Text is sent as it comes,     *)
(* tool calls are held until the end.                                      *)
(***************************************************************************)
EXTENDS EventParser

NewFormatter(handling) ==
  [handling |-> IF handling = "as_reasoning_content" THEN "AsReasoningContent" ELSE "AsContent",
   fullContent |-> <<>>, toolCallsFromStream |-> <<>>, creditsUsed |-> FALSE,
   receivedContextUsage |-> FALSE, refused |-> FALSE, truncatedTools |-> {},
   contentWasTruncated |-> FALSE, out |-> <<>>]

-----------------------------------------------------------------------------
ContentChunk(text)     == [type |-> "content", text |-> text]
ReasoningChunk(text)   == [type |-> "reasoning_content", text |-> text]
ToolCallsChunk(calls)  == [type |-> "tool_calls", calls |-> calls]
FinalChunk(reason)     == [type |-> "finish", reason |-> reason]
Done                   == [type |-> "done"]

Emit(f, event) == [f EXCEPT !.out = Append(@, event)]

EmitThinkingChunk(f, text) ==
  Emit(f, IF f.handling = "AsReasoningContent" THEN ReasoningChunk(text) ELSE ContentChunk(text))

\* json.Marshal spells the arguments without the spaces of json.dumps.
ToolUseToOpenAI(call) == [call EXCEPT !.spelling = "compact"]

\* Signatures and encrypted reasoning have no place in this dialect.
Handle(f, event) ==
  CASE event.kind = "content" ->
         Emit([f EXCEPT !.fullContent = @ \o event.text], ContentChunk(event.text))
    [] event.kind \in {"thinking", "native_thinking"} -> EmitThinkingChunk(f, event.text)
    [] event.kind = "tool_use" ->
         [f EXCEPT !.toolCallsFromStream = Append(@, ToolUseToOpenAI(event.call)),
                   !.truncatedTools = IF event.call.truncated THEN @ \union {event.call.id} ELSE @]
    [] event.kind = "usage"         -> [f EXCEPT !.creditsUsed = TRUE]
    [] event.kind = "context_usage" -> [f EXCEPT !.receivedContextUsage = TRUE]
    [] event.kind = "refusal"       -> [f EXCEPT !.refused = TRUE]
    [] event.kind \in {"thinking_signature", "redacted_thinking", "error"} -> f

-----------------------------------------------------------------------------
AllToolCalls(f) ==
  DeduplicateToolCalls(f.toolCallsFromStream \o ParseBracketToolCalls(f.fullContent))

\* Fault: the calls written in the text are not counted.
IsTruncatedByStreamCalls(f) ==
  /\ ~f.refused /\ ~f.creditsUsed /\ ~f.receivedContextUsage
  /\ f.fullContent # <<>> /\ f.toolCallsFromStream = <<>>

IsTruncated(f) ==
  /\ ~f.refused /\ ~f.creditsUsed /\ ~f.receivedContextUsage
  /\ f.fullContent # <<>> /\ AllToolCalls(f) = <<>>

FinishReason(f) ==
  IF f.refused THEN "content_filter"
  ELSE IF IsTruncated(f) THEN "length"
  ELSE IF AllToolCalls(f) # <<>> THEN "tool_calls"
  ELSE "stop"

Finish(f) ==
  LET calls == AllToolCalls(f)
      g     == IF calls = <<>> THEN f ELSE Emit(f, ToolCallsChunk(calls))
  IN  Emit(Emit([g EXCEPT !.contentWasTruncated = IsTruncated(f)], FinalChunk(FinishReason(f))),
           Done)

\* What the handler asks after Finish.
ContentWasTruncated(f) == f.contentWasTruncated
=============================================================================
