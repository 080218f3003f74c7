---------------------------- MODULE OpenAIConverter ----------------------------
(***************************************************************************)
(* From a Chat Completions request to the unified one                      *)
(* (internal/convertersopenai).                                            *)
(***************************************************************************)
EXTENDS AnthropicConverter

\* A user's content may hold tool_result blocks too, with an id or without.
extractToolResultsFromOpenAI(content) ==
  LET blocks == OfType(content, "tool_result")
  IN  [i \in DOMAIN blocks |->
         [id |-> blocks[i].id,
          text |-> OrEmptyResult(ExtractTextContent(blocks[i].content))]]

ConvertOpenAIMessage(msg) ==
  LET unified == Message(msg.role, ExtractTextContent(msg.content))
  IN  CASE msg.role = "assistant" -> [unified EXCEPT !.calls = msg.calls]
        [] msg.role = "user" ->
             [unified EXCEPT !.results = extractToolResultsFromOpenAI(msg.content),
                             !.images  = ExtractImagesFromContent(msg.content)]
        [] OTHER -> unified

\* Messages of role "tool" wait for the next message of another role, or for
\* the end, to become the results of one message of the user.
NoPending == Message("user", <<>>)

Pending(state, msg) ==
  [state EXCEPT
     !.pending.results = Append(@, [id |-> msg.id,
                                    text |-> OrEmptyResult(ExtractTextContent(msg.content))]),
     !.pending.images  = @ \o ExtractImagesFromContent(msg.content)]

flushPending(state) ==
  IF state.pending.results = <<>> THEN state
  ELSE [out |-> Append(state.out, state.pending), pending |-> NoPending]

\* The messages of role "system" have been taken out by then.
Step(state, msg) ==
  CASE msg.role = "system" -> state
    [] msg.role = "tool"   -> Pending(state, msg)
    [] OTHER               -> [flushPending(state) EXCEPT
                                 !.out = Append(@, ConvertOpenAIMessage(msg))]

SystemPrompt(msgs) ==
  LET system == SelectSeq(msgs, LAMBDA m : m.role = "system")
  IN  FlattenSeq([i \in DOMAIN system |-> ExtractTextContent(system[i].content)])

ConvertOpenAIMessagesToUnified(msgs) ==
  flushPending(FoldLeft(Step, [out |-> <<>>, pending |-> NoPending], msgs)).out

-----------------------------------------------------------------------------
Percent == [minimal |-> 10, low |-> 20, medium |-> 50, high |-> 80, xhigh |-> 95]

\* An effort the table does not have makes the conversion panic; "" stands for
\* a request without one.
KnownEffort(effort) == effort \in {"", "none"} \cup DOMAIN Percent

ReasoningEffortToBudget(maxTokens, effort) == (maxTokens * Percent[effort]) \div 100

ExtractThinkingConfigFromOpenAI(req) ==
  [enabled |-> req.effort # "none",
   budget  |-> IF req.effort \in {"", "none"} THEN DefaultBudget
               ELSE ReasoningEffortToBudget(
                      IF req.maxTokens = 0 THEN 4096 ELSE req.maxTokens, req.effort)]

nativeReasoningRequest(req) ==
  [thinking |-> CASE req.effort = ""     -> ""
                  [] req.effort = "none" -> "disabled"
                  [] OTHER               -> "adaptive",
   display  |-> "",
   effort   |-> req.effort]

\* Tools of a type other than "function" are dropped.
ConvertOpenAIToolsToUnified(tools) == OfType(tools, "function")

OpenAIToKiro(req, limit) ==
  KiroBody([messages |-> ConvertOpenAIMessagesToUnified(req.messages),
            system   |-> SystemPrompt(req.messages),
            tools    |-> ConvertOpenAIToolsToUnified(req.tools),
            model    |-> req.model,
            thinking |-> ExtractThinkingConfigFromOpenAI(req),
            asked    |-> nativeReasoningRequest(req)], limit)

-----------------------------------------------------------------------------
\* What either handler makes of a request, and whether it can.
ToKiro(req, limit) ==
  IF req.dialect = "anthropic" THEN AnthropicToKiro(req, limit)
  ELSE OpenAIToKiro(req, limit)

UnifiedMessages(req) ==
  IF req.dialect = "anthropic" THEN ConvertAnthropicMessages(req.messages)
  ELSE ConvertOpenAIMessagesToUnified(req.messages)

UnifiedTools(req) ==
  IF req.dialect = "anthropic" THEN req.tools ELSE ConvertOpenAIToolsToUnified(req.tools)

Panics(req) ==
  \/ req.dialect = "openai" /\ ~KnownEffort(req.effort)
  \/ ~ValidToolNames(UnifiedTools(req))
  \/ UnifiedMessages(req) = <<>>
=============================================================================
