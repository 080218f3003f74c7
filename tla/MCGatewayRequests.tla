-------------------------- MODULE MCGatewayRequests --------------------------
(***************************************************************************)
(* Bodies and scenarios for the model checking of GatewayRequests.         *)
(***************************************************************************)
EXTENDS RequestProperties

CONSTANTS r1, r2

Digit == <<"1", "2", "3", "4", "5", "6", "7">>

Text(i)   == << <<"text", Digit[i]>> >>
Output(i) == << <<"output", Digit[i]>> >>
Call(i)   == "call" \o Digit[i]

Msg(role, content) ==
  [role |-> role, content |-> content, calls |-> <<>>, id |-> "", string |-> TRUE]

Say(i)       == TextBlock(Text(i))
Use(i)       == [type |-> "tool_use", id |-> Call(i), name |-> "tool", input |-> "input"]
Result(i, k) == [type |-> "tool_result", id |-> Call(k), content |-> <<TextBlock(Output(i))>>]
NoOutput(k)  == [type |-> "tool_result", id |-> Call(k), content |-> <<>>]
Picture(i)   == [type |-> "image", source |-> "base64", data |-> Digit[i]]
Link(i)      == [type |-> "image", source |-> "url", data |-> Digit[i]]
Think(i, by) == [type |-> "thinking", signature |-> by, of |-> Digit[i]]

\* The i-th message of an Anthropic conversation.
Before(i) == IF i = 1 THEN 1 ELSE i - 1

Anthropic(shape, i) ==
  CASE shape = "ask"      -> Msg("user", <<Say(i), Picture(i), Link(i)>>)
    [] shape = "answer"   -> Msg("user", <<Result(i, Before(i))>>)
    [] shape = "mistake"  -> Msg("user", <<Result(i, i), Say(i)>>)
    [] shape = "empty"    -> Msg("user", <<>>)
    [] shape = "note"     -> Msg("system", <<Say(i)>>)
    [] shape = "say"      -> Msg("assistant", <<Say(i)>>)
    [] shape = "call"     -> Msg("assistant", <<Use(i)>>)
    [] shape = "think"    -> Msg("assistant", <<Think(i, "kiro"), Say(i), Use(i)>>)
    [] shape = "fake"     -> Msg("assistant", <<Think(i, "gateway"), Use(i)>>)

Shapes == {"ask", "answer", "mistake", "empty", "note", "say", "call", "think", "fake"}
FewShapes == {"ask", "answer", "call", "think"}

OpenAI(shape, i) ==
  CASE shape = "ask"       -> Msg("user", <<Say(i)>>)
    [] shape = "note"      -> Msg("system", <<TextBlock(<< <<"system", Digit[i]>> >>)>>)
    [] shape = "developer" -> Msg("developer", <<Say(i)>>)
    [] shape = "answer"    -> [Msg("tool", <<TextBlock(Output(i))>>) EXCEPT !.id = Call(Before(i))]
    [] shape = "second"    -> [Msg("tool", <<>>) EXCEPT !.id = "call9"]
    [] shape = "say"       -> Msg("assistant", <<Say(i)>>)
    [] shape = "call"      -> [Msg("assistant", <<>>) EXCEPT
                                 !.calls = <<[id |-> Call(i), arguments |-> "input",
                                              object |-> FALSE]>>,
                                 !.string = FALSE]

OpenAIShapes == {"ask", "note", "developer", "answer", "second", "say", "call"}

Conversations(shapes, n) == UNION {[1 .. k -> shapes] : k \in 0 .. n}

Tool(name, type, description) ==
  [name |-> name, type |-> type, description |-> description, fits |-> TRUE]

NoTools  == <<>>
TwoTools == <<Tool("tool", "function", "short"), Tool("reader", "function", "long")>>
Search   == <<Tool("web_search", "web_search", "short")>>
BadTools == <<[Tool("tool", "function", "short") EXCEPT !.fits = FALSE]>>

NoReply == [tools |-> <<>>, text |-> <<>>]

Body(dialect, messages, tools) ==
  [dialect |-> dialect, messages |-> messages, tools |-> tools,
   system |-> IF dialect = "anthropic" THEN << <<"system", "s">> >> ELSE <<>>,
   model |-> IF dialect = "anthropic" THEN "native" ELSE "plain",
   thinking |-> "enabled", budget |-> 5, display |-> "", effort |-> "high",
   maxTokens |-> 10, replies |-> {NoReply}, accounts |-> 1]

Of(convert(_, _), shapes) == [i \in DOMAIN shapes |-> convert(shapes[i], i)]

Scenario(bodies, m, max, tools, contents) ==
  [body |-> bodies, mode |-> m, limit |-> max, tools |-> tools, contents |-> contents]

\* One request with every short conversation, with what may be remembered of it.
Alone(b, max, tools, contents) == Scenario(r1 :> b, "off", max, tools, contents)

Remembered == {<<{}, {}>>, <<{Call(1), Call(2)}, {<<"text", "1">>, <<"text", "2">>}>>}

AnthropicScenarios ==
  {Alone(Body("anthropic", Of(Anthropic, c), t), NoLimit, m[1], m[2]) :
     c \in Conversations(Shapes, 3), t \in {NoTools, TwoTools}, m \in Remembered}
  \cup
  {Alone(Body("anthropic", Of(Anthropic, c), TwoTools), NoLimit, {}, {}) :
     c \in [1 .. 5 -> FewShapes]}

OpenAIScenarios ==
  {Alone(Body("openai", Of(OpenAI, c), t), NoLimit, m[1], m[2]) :
     c \in Conversations(OpenAIShapes, 3), t \in {NoTools, TwoTools}, m \in Remembered}

\* A long conversation and every limit that matters to it, and short ones that
\* pair their calls badly.
LongOne == <<"ask", "call", "answer", "think", "answer", "say", "ask">>

TrimScenarios ==
  {Alone(Body("anthropic", Of(Anthropic, LongOne), TwoTools), n, {}, {}) : n \in 6 .. 30}
  \cup
  {Alone(Body("anthropic", Of(Anthropic, c), TwoTools), n, {}, {}) :
     c \in [1 .. 4 -> {"ask", "call", "mistake", "answer"}], n \in {8, 12}}

\* Requests that fail to convert, search the web, or ask for an unknown effort.
Odd == {Body("anthropic", Of(Anthropic, <<"ask">>), BadTools),
        Body("anthropic", Of(Anthropic, <<"ask">>), Search),
        [Body("openai", Of(OpenAI, <<"ask">>), Search) EXCEPT !.effort = "none"],
        [Body("openai", Of(OpenAI, <<"ask">>), NoTools) EXCEPT !.effort = "utmost"]}

OddScenarios == {Alone(b, NoLimit, {}, {}) : b \in Odd}

\* Two requests of one conversation at once, which ask for what one of them or
\* an earlier one has recorded; and requests that share a debug log.
Continues == [Body("anthropic", Of(Anthropic, <<"call", "answer">>), TwoTools)
                EXCEPT !.replies = {[tools |-> <<Call(1)>>, text |-> Text(1)]}]

Starts == [Body("openai", Of(OpenAI, <<"ask">>), TwoTools)
             EXCEPT !.replies = {[tools |-> <<Call(1), Call(2)>>, text |-> Text(1)]}]

Asks == Body("openai", Of(OpenAI, <<"ask">>), NoTools)

Shared ==
  {Scenario(r1 :> Continues @@ r2 :> b, "off", NoLimit, t, {}) :
     b \in {Continues, Starts}, t \in {{}, {Call(1)}}}
  \cup
  {Scenario(r1 :> [Continues EXCEPT !.accounts = 2] @@ r2 :> Continues,
            "off", NoLimit, {Call(1)}, {})}
  \cup
  {Scenario(r1 :> [Asks EXCEPT !.accounts = 2], m, NoLimit, {}, {}) : m \in {"errors", "all"}}
  \cup
  {Scenario(r1 :> b @@ r2 :> Asks, "errors", NoLimit, {}, {}) : b \in {Asks} \cup Odd}
  \cup
  {Scenario(r1 :> Asks @@ r2 :> Asks, "all", NoLimit, {}, {})}

MCScenarios ==
  AnthropicScenarios \cup OpenAIScenarios \cup TrimScenarios \cup OddScenarios \cup Shared

MCCaps == [thinkingTypes |-> <<"adaptive", "disabled">>, displays |-> <<"summarized">>,
           effortPath |-> "output_config", effortLevels |-> <<"low", "high", "max">>]

MCRequests == {r1, r2}
MCWebSearch == <<Tool("web_search", "function", "short")>>
MCNative == {"native"}
MCFake == {"plain", "native"}
=============================================================================
