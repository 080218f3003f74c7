------------------------- MODULE AnthropicFormatter -------------------------
(***************************************************************************)
(* The formatter of internal/streaminganthropic: from the events of the    *)
(* pipeline to the SSE events of an Anthropic message, whose content is a  *)
(* list of numbered blocks.  An operator takes a formatter and returns the *)
(* one after the call; out collects what the call writes.                  *)
(***************************************************************************)
EXTENDS EventParser

NewFormatter(handling) ==
  [handling |-> IF handling = "as_reasoning_content" THEN "AsReasoningContent" ELSE "Strip",
   current |-> 0, thinkingOpen |-> FALSE, thinkingAt |-> 0, textOpen |-> FALSE, textAt |-> 0,
   fullContent |-> <<>>, toolBlockCount |-> 0, receivedContextUsage |-> FALSE,
   refused |-> FALSE, truncatedTools |-> {}, out |-> <<>>]

-----------------------------------------------------------------------------
\* The SSE events.
MessageStart == [type |-> "message_start"]
BlockStart(index, kind, call) ==
  [type |-> "content_block_start", index |-> index, kind |-> kind, call |-> call]
TextDelta(index, text)  == [type |-> "content_block_delta", index |-> index, text |-> text]
\* The input of a call comes in one delta, after a start with an empty input.
InputJSONDelta(index, arguments) ==
  [type |-> "input_json_delta", index |-> index, arguments |-> arguments]
SignatureDelta(index)   == [type |-> "signature_delta", index |-> index]
BlockStop(index)        == [type |-> "content_block_stop", index |-> index]
MessageDelta(reason)    == [type |-> "message_delta", reason |-> reason]
MessageStop             == [type |-> "message_stop"]

Emit(f, event) == [f EXCEPT !.out = Append(@, event)]

EmitMessageStart(f) == Emit(f, MessageStart)

-----------------------------------------------------------------------------
(* The indices of the blocks.  The running index moves on when a block is  *)
(* closed, so that two open blocks would have the same one.                *)

CloseThinking(f) ==
  IF f.thinkingOpen
  THEN Emit([f EXCEPT !.thinkingOpen = FALSE, !.current = @ + 1], BlockStop(f.thinkingAt))
  ELSE f

CloseText(f) ==
  IF f.textOpen
  THEN Emit([f EXCEPT !.textOpen = FALSE, !.current = @ + 1], BlockStop(f.textAt))
  ELSE f

OpenThinking(f) ==
  IF f.thinkingOpen THEN f
  ELSE Emit([f EXCEPT !.thinkingOpen = TRUE, !.thinkingAt = f.current],
            BlockStart(f.current, "thinking", <<>>))

OpenText(f) ==
  IF f.textOpen THEN f
  ELSE Emit([f EXCEPT !.textOpen = TRUE, !.textAt = f.current],
            BlockStart(f.current, "text", <<>>))

CloseOpenBlocks(f) == CloseText(CloseThinking(f))

\* A block that is opened and closed by one call.
ReserveToolBlock(f) == [f EXCEPT !.current = @ + 1]

-----------------------------------------------------------------------------
HandleContent(f, text) ==
  LET g == OpenText(CloseThinking([f EXCEPT !.fullContent = @ \o text]))
  IN  Emit(g, TextDelta(g.textAt, text))

\* An open text block is left open: the thinking parser gives no thinking
\* after content.
HandleThinking(f, text) ==
  LET g == OpenThinking(f)
  IN  IF f.handling = "Strip" THEN f ELSE Emit(g, TextDelta(g.thinkingAt, text))

EmitToolUseBlock(f, call) ==
  LET g     == ReserveToolBlock(f)
      empty == [call EXCEPT !.arguments = "{}"]
  IN  [g EXCEPT !.out = @ \o <<BlockStart(f.current, "tool_use", <<empty>>),
                               InputJSONDelta(f.current, call.arguments),
                               BlockStop(f.current)>>,
                !.toolBlockCount = @ + 1]

HandleToolUse(f, call) ==
  EmitToolUseBlock([CloseOpenBlocks(f) EXCEPT
                      !.truncatedTools = IF call.truncated THEN @ \union {call.id} ELSE @],
                   call)

\* Native reasoning may come after text, and closes it.
OpenNativeThinking(f) == IF f.thinkingOpen THEN f ELSE OpenThinking(CloseText(f))

HandleNativeThinking(f, text) ==
  LET g == OpenNativeThinking(f)
  IN  IF f.handling = "Strip" THEN HandleThinking(f, text)
      ELSE Emit(g, TextDelta(g.thinkingAt, text))

HandleThinkingSignature(f) ==
  LET g == OpenNativeThinking(f)
  IN  IF f.handling = "Strip" THEN f ELSE CloseThinking(Emit(g, SignatureDelta(g.thinkingAt)))

HandleRedactedThinking(f) ==
  LET g == CloseOpenBlocks(f)
  IN  IF f.handling = "Strip" THEN f
      ELSE [ReserveToolBlock(g) EXCEPT
              !.out = @ \o <<BlockStart(g.current, "redacted_thinking", <<>>),
                             BlockStop(g.current)>>]

\* The cache counters of a usage event and the diagnosis of an error event
\* change nothing that is kept here.
Handle(f, event) ==
  CASE event.kind = "content"            -> HandleContent(f, event.text)
    [] event.kind = "thinking"           -> HandleThinking(f, event.text)
    [] event.kind = "tool_use"           -> HandleToolUse(f, event.call)
    [] event.kind = "context_usage"      -> [f EXCEPT !.receivedContextUsage = TRUE]
    [] event.kind = "refusal"            -> [f EXCEPT !.refused = TRUE]
    [] event.kind = "native_thinking"    -> HandleNativeThinking(f, event.text)
    [] event.kind = "thinking_signature" -> HandleThinkingSignature(f)
    [] event.kind = "redacted_thinking"  -> HandleRedactedThinking(f)
    [] event.kind \in {"usage", "error"} -> f

-----------------------------------------------------------------------------
ContentWasTruncated(f) ==
  ~f.refused /\ ~f.receivedContextUsage /\ f.fullContent # <<>> /\ f.toolBlockCount = 0

\* Fault: tool calls do not count when the end of the stream is judged.
StopReasonWithoutCalls(f) ==
  IF f.refused THEN "refusal"
  ELSE IF ~f.receivedContextUsage /\ f.fullContent # <<>> THEN "max_tokens"
  ELSE IF f.toolBlockCount > 0 THEN "tool_use"
  ELSE "end_turn"

StopReason(f) ==
  IF f.refused THEN "refusal"
  ELSE IF ContentWasTruncated(f) THEN "max_tokens"
  ELSE IF f.toolBlockCount > 0 THEN "tool_use"
  ELSE "end_turn"

\* The calls written in the text are added to those of the stream as they are.
Finish(f) ==
  LET calls == ParseBracketToolCalls(f.fullContent)
      g     == IF calls = <<>> THEN f ELSE FoldLeft(EmitToolUseBlock, CloseOpenBlocks(f), calls)
      h     == CloseOpenBlocks(g)
  IN  Emit(Emit(h, MessageDelta(StopReason(h))), MessageStop)
=============================================================================
