------------------------------ MODULE KiroPayload ------------------------------
(***************************************************************************)
(* The request body sent to Kiro (internal/converterscore: payload.go,     *)
(* payloadtrim.go, tools.go, thinking.go, fakereasoning_models.go, and     *)
(* RequestFields of internal/modelcaps).                                   *)
(***************************************************************************)
EXTENDS Normalize

CONSTANTS
  FakeReasoningEnabled, FakeReasoningModels,
  FakeReasoningMaxTokens, FakeReasoningBudgetCap,
  TruncationRecoveryEnabled,
  LimitToolDescriptions,      \* ToolDescriptionMaxLength > 0
  NativeModels,               \* the models whose capabilities Kiro has told
  ModelCaps,                  \* and what they are
  DefaultBudget               \* no budget asked for

\* A model that reasons by itself gets no fake reasoning.
fakeReasoningAppliesTo(model) ==
  FakeReasoningEnabled /\ model \notin NativeModels /\ model \in FakeReasoningModels

-----------------------------------------------------------------------------
\* Tools: a description over the limit moves to the system prompt.
TooLong(tool) == LimitToolDescriptions /\ tool.description = "long"

ToolDocumentation(tools) ==
  LET long == SelectSeq(tools, TooLong)
  IN  [i \in DOMAIN long |-> <<"documentation", long[i].name>>]

ProcessedTools(tools) ==
  [i \in DOMAIN tools |->
     IF TooLong(tools[i]) THEN [tools[i] EXCEPT !.description = "reference"]
     ELSE tools[i]]

\* A name over 64 characters makes the conversion panic.
ValidToolNames(tools) == \A i \in DOMAIN tools : tools[i].fits

\* The system prompt, the documentation and the two notes for the model.
FullSystemPrompt(u) ==
  u.system \o ToolDocumentation(u.tools)
    \o (IF fakeReasoningAppliesTo(u.model) THEN << <<"note", "thinking">> >> ELSE <<>>)
    \o (IF TruncationRecoveryEnabled THEN << <<"note", "truncation">> >> ELSE <<>>)

InjectThinkingTags(content, thinking) ==
  LET asked == IF thinking.budget = DefaultBudget THEN FakeReasoningMaxTokens
               ELSE thinking.budget
      budget == IF FakeReasoningBudgetCap > 0 /\ asked > FakeReasoningBudgetCap
                THEN FakeReasoningBudgetCap ELSE asked
  IN  IF thinking.enabled THEN << <<"thinking tags", budget>> >> \o content ELSE content

-----------------------------------------------------------------------------
\* The entries of the history.
UserEntry(content, images, results) ==
  [by |-> "user", content |-> content, images |-> images, results |-> results,
   uses |-> <<>>, reasoning |-> NoReasoning]

AssistantEntry(content, uses, reasoning) ==
  [by |-> "assistant", content |-> content, images |-> <<>>, results |-> <<>>,
   uses |-> uses, reasoning |-> reasoning]

Entry(msg) ==
  IF msg.role = "user"
  THEN UserEntry(OrPlaceholder(msg.text), msg.images,
                 ConvertToolResultsToKiroFormat(msg.results))
  ELSE AssistantEntry(OrPlaceholder(msg.text), ExtractToolUsesFromMessage(msg),
                      msg.reasoning)

BuildKiroHistory(msgs) == [i \in DOMAIN msgs |-> Entry(msgs[i])]

\* What Kiro may be told: without tools there must be no calls and no results.
PreparedMessages(u) ==
  Normalized(IF u.tools = <<>> THEN StripAllToolContent(u.messages)
             ELSE EnsureAssistantBeforeToolResults(u.messages))

\* Fault: it goes before the current message.
SystemPromptLast(system, msgs) == [msgs EXCEPT ![Len(msgs)].text = system \o @]

\* The system prompt goes before the first text there is.
WithSystemPrompt(system, msgs) == [msgs EXCEPT ![1].text = system \o @]

\* Everything before the last message is history; when the last one is the
\* assistant's, its text follows as history, and its calls and reasoning go.
KiroHistory(msgs) ==
  LET current == Last(msgs)
  IN  BuildKiroHistory(Front(msgs))
        \o IF current.role = "assistant"
           THEN <<AssistantEntry(current.text, <<>>, NoReasoning)>> ELSE <<>>

CurrentContent(u, current) ==
  IF current.role = "assistant" THEN Placeholder
  ELSE InjectThinkingTags(OrPlaceholder(current.text),
         [u.thinking EXCEPT !.enabled = @ /\ fakeReasoningAppliesTo(u.model)])

UntrimmedPayload(u) ==
  LET msgs    == WithSystemPrompt(FullSystemPrompt(u), PreparedMessages(u))
      current == Last(msgs)
  IN  [history |-> KiroHistory(msgs),
       content |-> CurrentContent(u, current),
       images  |-> current.images,
       results |-> ConvertToolResultsToKiroFormat(current.results),
       tools   |-> ProcessedTools(u.tools)]
=============================================================================
