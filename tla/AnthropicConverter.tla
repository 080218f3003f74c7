--------------------------- MODULE AnthropicConverter ---------------------------
(***************************************************************************)
(* From a Messages API request to the unified one                          *)
(* (internal/convertersanthropic).                                         *)
(***************************************************************************)
EXTENDS PayloadTrim

\* Results count only with the id of the call they answer.
ExtractToolResultsFromAnthropicContent(content) ==
  LET blocks == SelectSeq(OfType(content, "tool_result"), LAMBDA b : b.id # "")
  IN  [i \in DOMAIN blocks |->
         [id |-> blocks[i].id,
          text |-> OrEmptyResult(ExtractTextContent(blocks[i].content))]]

\* Images count wherever they are, in results without an id too.
ExtractImagesFromToolResults(content) ==
  LET blocks == OfType(content, "tool_result")
  IN  FlattenSeq([i \in DOMAIN blocks |-> ExtractImagesFromContent(blocks[i].content)])

ExtractToolUsesFromAnthropicContent(content) ==
  LET blocks == SelectSeq(OfType(content, "tool_use"), LAMBDA b : b.id # "" /\ b.name # "")
  IN  [i \in DOMAIN blocks |->
         [id |-> blocks[i].id, arguments |-> blocks[i].input, object |-> TRUE]]

ConvertAnthropicMessage(msg) ==
  LET unified == Message(msg.role, ExtractTextContent(msg.content))
  IN  CASE msg.role = "assistant" ->
             [unified EXCEPT !.calls = ExtractToolUsesFromAnthropicContent(msg.content)]
        [] msg.role = "user" ->
             [unified EXCEPT
                !.results = ExtractToolResultsFromAnthropicContent(msg.content),
                !.images  = ExtractImagesFromContent(msg.content)
                              \o ExtractImagesFromToolResults(msg.content)]
        [] OTHER -> unified

ConvertAnthropicMessages(msgs) ==
  [i \in DOMAIN msgs |-> ConvertAnthropicMessage(msgs[i])]

-----------------------------------------------------------------------------
\* What Kiro can be given back: reasoning with a signature of its own, or its
\* redacted form, but nothing the gateway signed for a fake one.
kiroReasoningContent(block) ==
  \/ block.type = "thinking" /\ block.signature = "kiro"
  \/ block.type = "redacted_thinking" /\ block.of # ""

FirstReasoning(content) ==
  LET signed == SelectSeq(content, kiroReasoningContent)
  IN  IF signed = <<>> THEN NoReasoning ELSE Head(signed).of

\* The turn in progress starts at the last message of the user that answers no
\* call.
StartsTurn(msg) == msg.role = "user" /\ OfType(msg.content, "tool_result") = <<>>

\* Fault: the turn starts at the last message of the user, whatever it holds.
TurnStartAtAnyUser(msgs) ==
  LET starts == {i \in DOMAIN msgs : msgs[i].role = "user"}
  IN  IF starts = {} THEN 1 ELSE Max(starts)

TurnStart(msgs) ==
  LET starts == {i \in DOMAIN msgs : StartsTurn(msgs[i])}
  IN  IF starts = {} THEN 1 ELSE Max(starts)

attachNativeReasoning(msgs, unified, model) ==
  [i \in DOMAIN unified |->
     IF /\ model \in NativeModels /\ ModelCaps.thinkingTypes # <<>>
        /\ i >= TurnStart(msgs) /\ msgs[i].role = "assistant"
     THEN [unified[i] EXCEPT !.reasoning = FirstReasoning(msgs[i].content)]
     ELSE unified[i]]

\* Reasoning is on unless the client turns it off; "adaptive" is no type the
\* gateway knows for the fake one.
ExtractThinkingConfigFromAnthropic(req) ==
  [enabled |-> req.thinking # "disabled",
   budget  |-> IF req.thinking = "enabled" THEN req.budget ELSE DefaultBudget]

AnthropicToKiro(req, limit) ==
  KiroBody([messages |-> attachNativeReasoning(req.messages,
                           ConvertAnthropicMessages(req.messages), req.model),
            system   |-> req.system,
            tools    |-> req.tools,
            model    |-> req.model,
            thinking |-> ExtractThinkingConfigFromAnthropic(req),
            asked    |-> [thinking |-> req.thinking, display |-> req.display,
                          effort |-> req.effort]],
           limit)
=============================================================================
