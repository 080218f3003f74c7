---------------------------- MODULE KiroPipeline ----------------------------
(***************************************************************************)
(* The pipeline of internal/streamingcore: an item of the stream of Kiro   *)
(* through the event parser and, if it is text, the thinking parser, to    *)
(* the events both dialects are made from.                                 *)
(***************************************************************************)
EXTENDS EventParser, ThinkingParser

NewPipeline(handling) == [parser |-> NewParser, thinking |-> NewThinking(handling)]

Fed(pipeline, events) == [pipeline |-> pipeline, events |-> events]

TextEvent(kind, text) == IF text = <<>> THEN <<>> ELSE <<[kind |-> kind, text |-> text]>>

\* The diagnosis of the last truncated call, repeated after every chunk.
TruncationDiagnosis(parser) ==
  IF \E i \in DOMAIN parser.toolCalls : parser.toolCalls[i].truncated
  THEN <<[kind |-> "error"]>> ELSE <<>>

\* A text that repeats the last one is dropped, wherever it comes.
Accepts(parser, text) == text # parser.lastContent

FeedContent(pl, text) ==
  LET t == ThinkingFeed(pl.thinking, text)
  IN  IF ~Accepts(pl.parser, text) THEN Fed(pl, <<>>)
      ELSE Fed([pl EXCEPT !.parser.lastContent = text, !.thinking = t.parser],
               TextEvent("thinking", t.thinking) \o TextEvent("content", t.content))

FeedTool(pl, item) ==
  LET p == pl.parser
  IN  Fed([pl EXCEPT !.parser = CASE item.kind = "tool_start" -> ProcessToolStart(p, item)
                                  [] item.kind = "tool_input" -> ProcessToolInput(p, item)
                                  [] item.kind = "tool_stop"  -> ProcessToolStop(p)],
          <<>>)

\* Items of metadata and of native reasoning are events as they are.
FeedItem(pl, item) ==
  CASE item.kind = "content"                                -> FeedContent(pl, item.text)
    [] item.kind \in {"tool_start", "tool_input", "tool_stop"} -> FeedTool(pl, item)
    [] OTHER                                                -> Fed(pl, <<item>>)

Feed(pl, item) ==
  LET fed == FeedItem(pl, item)
  IN  Fed(fed.pipeline, fed.events \o TruncationDiagnosis(fed.pipeline.parser))

\* What the parsers hold back, then the tool calls.
PipelineFinish(pl) ==
  LET t     == ThinkingFinish(pl.thinking)
      calls == ParserFinish(pl.parser)
  IN  TextEvent("thinking", t.thinking) \o TextEvent("content", t.content)
        \o [i \in DOMAIN calls |-> [kind |-> "tool_use", call |-> calls[i]]]
        \o TruncationDiagnosis(FinalizeToolCall(pl.parser))
=============================================================================
