--------------------------- MODULE ResponseStream ---------------------------
(***************************************************************************)
(* One streamed reply: serveStreaming and drivePipeline of the two         *)
(* dialects.  The handler reads an item of Kiro's stream, writes all that  *)
(* the formatter makes of it, and reads again; at the end it drains the    *)
(* parsers, closes the message, keeps a record of what was cut short and   *)
(* returns.  In the Anthropic dialect a pinger writes to the same client.  *)
(***************************************************************************)
EXTENDS KiroPipeline

CONSTANTS
  Items,      \* the objects Kiro may send
  Handlings,  \* the values of FAKE_REASONING_HANDLING considered
  MaxItems,   \* bound: the objects in one stream
  MaxTicks    \* bound: the ticks of the pinger

ItemKinds ==
  {"content", "tool_start", "tool_input", "tool_stop", "native_thinking",
   "thinking_signature", "redacted_thinking", "usage", "context_usage", "refusal"}

ASSUME ItemsAssumption ==
  \A item \in Items :
    /\ item.kind \in ItemKinds
    /\ item.kind \in {"content", "native_thinking"} => item.text \in Seq(Range(item.text))
    /\ item.kind = "tool_start" => item.id \in Nat \ {0}

ASSUME StreamAssumption == MaxItems \in Nat /\ MaxTicks \in Nat /\ Handlings \subseteq HandlingModes

VARIABLES
  dialect,   \* of the client
  pipeline,  \* the state of the parsers
  formatter, \* the state of the formatter, with what it has still to write
  phase,     \* of the handler: streaming, finishing, stopping, returned
  err,       \* what drivePipeline returns
  pinger,    \* the goroutine of the pinger: waiting, pinging, gone
  ticks,     \* the ticks there have been
  saved,     \* the records of truncation this reply leaves
  reply,     \* what the client has received, put together
  received   \* what has been read, for the properties

vars == <<dialect, pipeline, formatter, phase, err, pinger, ticks, saved, reply, received>>

Anthropic == INSTANCE AnthropicFormatter
OpenAI == INSTANCE OpenAIFormatter

Dialects == {"anthropic", "openai"}

Handling == pipeline.thinking.handling

NewFormatter(d, handling) ==
  IF d = "anthropic" THEN Anthropic!EmitMessageStart(Anthropic!NewFormatter(handling))
                     ELSE OpenAI!NewFormatter(handling)

Handle(f, event) ==
  IF dialect = "anthropic" THEN Anthropic!Handle(f, event) ELSE OpenAI!Handle(f, event)

FormatterFinish(f) ==
  IF dialect = "anthropic" THEN Anthropic!Finish(f) ELSE OpenAI!Finish(f)

ContentWasTruncated(f) ==
  IF dialect = "anthropic" THEN Anthropic!ContentWasTruncated(f)
                           ELSE OpenAI!ContentWasTruncated(f)

-----------------------------------------------------------------------------
(* The reply, as a client puts it together, and collectResponse from the   *)
(* same events for a client that does not stream.                          *)

EmptyReply(d) ==
  [started |-> d = "openai", blocks |-> <<>>, reason |-> "none", ended |-> FALSE, pings |-> 0]

Block(index, kind, call) ==
  [index |-> index, kind |-> kind, call |-> call, text |-> <<>>, signed |-> FALSE, open |-> TRUE]

\* The last block with an index, as the map byIndex finds it.
ByIndex(blocks, index) == Max({i \in DOMAIN blocks : blocks[i].index = index})

\* A chunk of a chat completion adds to one of its two texts.
AddChunk(r, kind, text) ==
  LET known == {i \in DOMAIN r.blocks : r.blocks[i].kind = kind}
      more  == [Block(0, kind, <<>>) EXCEPT !.text = text, !.open = FALSE]
  IN  IF known = {} THEN [r EXCEPT !.blocks = Append(@, more)]
      ELSE [r EXCEPT !.blocks[Min(known)].text = @ \o text]

AddCalls(r, calls) ==
  [r EXCEPT !.blocks = @ \o [i \in DOMAIN calls |->
                               [Block(0, "tool_use", <<calls[i]>>) EXCEPT !.open = FALSE]]]

Collect(r, event) ==
  CASE event.type = "message_start"       -> [r EXCEPT !.started = TRUE]
    [] event.type = "content_block_start" ->
         [r EXCEPT !.blocks = Append(@, Block(event.index, event.kind, event.call))]
    [] event.type = "content_block_delta" ->
         [r EXCEPT !.blocks[ByIndex(r.blocks, event.index)].text = @ \o event.text]
    [] event.type = "input_json_delta"    ->
         [r EXCEPT !.blocks[ByIndex(r.blocks, event.index)].call[1].arguments = event.arguments]
    [] event.type = "signature_delta"     ->
         [r EXCEPT !.blocks[ByIndex(r.blocks, event.index)].signed = TRUE]
    [] event.type = "content_block_stop"  ->
         [r EXCEPT !.blocks[ByIndex(r.blocks, event.index)].open = FALSE]
    [] event.type \in {"message_delta", "finish"} -> [r EXCEPT !.reason = event.reason]
    [] event.type \in {"message_stop", "done"}    -> [r EXCEPT !.ended = TRUE]
    [] event.type = "content"             -> AddChunk(r, "text", event.text)
    [] event.type = "reasoning_content"   -> AddChunk(r, "thinking", event.text)
    [] event.type = "tool_calls"          -> AddCalls(r, event.calls)

\* The text of all the blocks of one kind.
TextOf(r, kind) ==
  FoldLeft(LAMBDA text, block : IF block.kind = kind THEN text \o block.text ELSE text,
           <<>>, r.blocks)

CallsOf(r) == {r.blocks[i].call[1] : i \in {j \in DOMAIN r.blocks : r.blocks[j].call # <<>>}}

-----------------------------------------------------------------------------
Init ==
  /\ dialect \in Dialects
  /\ \E handling \in Handlings :
       /\ pipeline = NewPipeline(handling)
       /\ formatter = NewFormatter(dialect, handling)
  /\ phase = "streaming" /\ err = "none"
  /\ pinger = IF dialect = "anthropic" THEN "waiting" ELSE "gone"
  /\ ticks = 0
  /\ saved = [tools |-> {}, contents |-> {}]
  /\ reply = EmptyReply(dialect)
  /\ received = [texts |-> <<>>, others |-> {}, count |-> 0]

AllWritten == formatter.out = <<>>

\* body.Read gives an item: it goes through the pipeline and the formatter.
Read(item) ==
  LET fed == Feed(pipeline, item)
  IN  /\ phase = "streaming" /\ AllWritten /\ received.count < MaxItems
      /\ pipeline' = fed.pipeline
      /\ formatter' = FoldLeft(Handle, formatter, fed.events)
      /\ received' =
           [texts  |-> IF item.kind = "content" THEN Append(received.texts, item.text)
                                                ELSE received.texts,
            others |-> IF item.kind = "content" THEN received.others
                                                ELSE received.others \union {item},
            count  |-> received.count + 1]
      /\ UNCHANGED <<dialect, phase, err, pinger, ticks, saved, reply>>

\* body.Read gives io.EOF.
ReadEOF ==
  LET events == PipelineFinish(pipeline)
  IN  /\ phase = "streaming" /\ AllWritten
      /\ formatter' = FormatterFinish(FoldLeft(Handle, formatter, events))
      /\ phase' = "finishing"
      /\ UNCHANGED <<dialect, pipeline, err, pinger, ticks, saved, reply, received>>

\* body.Read fails: drivePipeline returns without Finish.
ReadError ==
  /\ phase = "streaming" /\ AllWritten
  /\ phase' = "stopping" /\ err' = "read"
  /\ UNCHANGED <<dialect, pipeline, formatter, pinger, ticks, saved, reply, received>>

\* One SSE event is one Write, under the mutex of the writer.
Write ==
  /\ phase \in {"streaming", "finishing"} /\ ~AllWritten
  /\ reply' = Collect(reply, Head(formatter.out))
  /\ formatter' = [formatter EXCEPT !.out = Tail(@)]
  /\ UNCHANGED <<dialect, pipeline, phase, err, pinger, ticks, saved, received>>

\* The client is gone: drivePipeline returns, whatever is left to write.
WriteError ==
  /\ phase \in {"streaming", "finishing"} /\ ~AllWritten
  /\ phase' = "stopping" /\ err' = "write"
  /\ formatter' = [formatter EXCEPT !.out = <<>>]
  /\ UNCHANGED <<dialect, pipeline, pinger, ticks, saved, reply, received>>

\* What a reply leaves for the next request of the conversation.
RecordsOf(f) ==
  [tools    |-> f.truncatedTools,
   contents |-> IF ContentWasTruncated(f) THEN {f.fullContent} ELSE {}]

\* The message is complete: the records are saved.
Save ==
  /\ phase = "finishing" /\ AllWritten
  /\ saved' = RecordsOf(formatter)
  /\ phase' = "stopping"
  /\ UNCHANGED <<dialect, pipeline, formatter, err, pinger, ticks, reply, received>>

\* Fault: the handler does not wait for the pinger.
ReturnAtOnce ==
  /\ phase = "stopping"
  /\ phase' = "returned"
  /\ UNCHANGED <<dialect, pipeline, formatter, err, pinger, ticks, saved, reply, received>>

\* stopPinger has closed done and waits for the goroutine to be gone.
Return ==
  /\ phase = "stopping" /\ pinger = "gone"
  /\ phase' = "returned"
  /\ UNCHANGED <<dialect, pipeline, formatter, err, pinger, ticks, saved, reply, received>>

\* A select with the ticker and done both ready may take either.
Tick ==
  /\ pinger = "waiting" /\ ticks < MaxTicks
  /\ pinger' = "pinging" /\ ticks' = ticks + 1
  /\ UNCHANGED <<dialect, pipeline, formatter, phase, err, saved, reply, received>>

\* Fault: a ping may be the first event.
PingAnyTime ==
  /\ pinger = "pinging" /\ pinger' = "waiting"
  /\ reply' = IF err # "write" THEN [reply EXCEPT !.pings = @ + 1] ELSE reply
  /\ UNCHANGED <<dialect, pipeline, formatter, phase, err, ticks, saved, received>>

\* Fault: one tick is answered again and again.
PingWithoutTick ==
  /\ pinger = "pinging"
  /\ reply' = IF reply.started /\ err # "write" THEN [reply EXCEPT !.pings = @ + 1] ELSE reply
  /\ UNCHANGED <<dialect, pipeline, formatter, phase, err, pinger, ticks, saved, received>>

\* A ping before the first event is not sent, one to a client that is gone is lost.
Ping ==
  /\ pinger = "pinging" /\ pinger' = "waiting"
  /\ reply' = IF reply.started /\ err # "write" THEN [reply EXCEPT !.pings = @ + 1] ELSE reply
  /\ UNCHANGED <<dialect, pipeline, formatter, phase, err, ticks, saved, received>>

\* Fault: the handler waits for the pinger before it closes done.
PingerExitLate ==
  /\ pinger = "waiting" /\ phase = "returned"
  /\ pinger' = "gone"
  /\ UNCHANGED <<dialect, pipeline, formatter, phase, err, ticks, saved, reply, received>>

PingerExit ==
  /\ pinger = "waiting" /\ phase \in {"stopping", "returned"}
  /\ pinger' = "gone"
  /\ UNCHANGED <<dialect, pipeline, formatter, phase, err, ticks, saved, reply, received>>

Next ==
  \/ \E item \in Items : Read(item)
  \/ ReadEOF \/ ReadError \/ Write \/ WriteError \/ Save \/ Return
  \/ Tick \/ Ping \/ PingerExit

\* The goroutines run; nothing is assumed of Kiro, of the client or of the ticker.
Spec ==
  /\ Init /\ [][Next]_vars
  /\ WF_vars(Write \/ WriteError) /\ WF_vars(Save) /\ WF_vars(Return)
  /\ WF_vars(Ping) /\ WF_vars(PingerExit)

-----------------------------------------------------------------------------
\* What the variables range over.
TypeOK ==
  /\ dialect \in Dialects /\ Handling \in Handlings
  /\ phase \in {"streaming", "finishing", "stopping", "returned"}
  /\ err \in {"none", "read", "write"}
  /\ pinger \in {"waiting", "pinging", "gone"} /\ ticks \in 0..MaxTicks
  /\ reply.pings \in 0..ticks /\ reply.started \in BOOLEAN /\ reply.ended \in BOOLEAN
  /\ DOMAIN reply.blocks = 1..Len(reply.blocks)
  /\ received.count \in 0..MaxItems /\ received.others \subseteq Items

\* The dialect of OpenAI has no blocks: its texts grow side by side.
Blocks == IF dialect = "openai" THEN <<>> ELSE reply.blocks

Growing == Blocks # <<>> /\ Last(Blocks).open

\* Only the last block may be open; as it will be when it is closed.
Protocol == INSTANCE MessageProtocol WITH
  phase  <- IF reply.ended THEN "done" ELSE IF reply.reason # "none" THEN "ended"
            ELSE IF reply.started THEN "body" ELSE "before",
  closed <- IF Growing THEN Front(Blocks) ELSE Blocks,
  open   <- IF Growing THEN <<[Last(Blocks) EXCEPT !.open = FALSE]>> ELSE <<>>,
  pings  <- reply.pings

\* Whatever Kiro sends and wherever the stream breaks, the client sees a message
\* grow by the rules of MessageProtocol: message_start first (stream_ping.go keeps
\* the pinger back), blocks numbered and closed in turn (block_index.go), one reason.
StreamsAMessage == Protocol!Spec

\* The handler is done with a reply that came to its end.
Complete == phase \in {"stopping", "returned"} /\ err = "none"

WasReceived(kind) == \E item \in received.others : item.kind = kind

\* The text Kiro sent, without the texts that repeat the one before.
AddFresh(sent, text) ==
  IF text = sent.last THEN sent ELSE [last |-> text, whole |-> sent.whole \o text]

SentText == FoldLeft(AddFresh, [last |-> <<>>, whole |-> <<>>], received.texts).whole

\* Native reasoning is told from the rest by its characters.
NativeChars ==
  UNION {Range(item.text) : item \in {i \in received.others : i.kind = "native_thinking"}}

KeepOthers(strained, ch) ==
  IF ch \in strained.out THEN strained ELSE [strained EXCEPT !.kept = Append(@, ch)]

Strained(out, text) == FoldLeft(KeepOthers, [out |-> out, kept |-> <<>>], text).kept

WithoutNative(text) == Strained(NativeChars, text)

\* How much white space goes after a block depends on where the pieces are cut.
LeftTrims(text) ==
  {From(text, k) : k \in {j \in 1..(Len(text) + 1) : \A i \in 1..(j - 1) : text[i] \in Blanks}}

ContentsOf(text) == IF BlockTags(text) = {} THEN {text} ELSE LeftTrims(ContentOf(text))

ShownThinking == ThinkingOf(Handling, SentText)

\* However the text of Kiro is cut into pieces, and whatever comes between them,
\* the client can put together exactly the thinking and the content a reading of
\* the whole text gives, each where the mode shows it (thinkingparser, formatters).
TextReassembled ==
  Complete =>
    IF Handling = "as_reasoning_content"
    THEN /\ WithoutNative(TextOf(reply, "thinking")) = WithoutNative(ShownThinking)
         /\ TextOf(reply, "text") \in ContentsOf(SentText)
    ELSE /\ TextOf(reply, "thinking") = <<>>
         /\ WithoutNative(TextOf(reply, "text")) \in
              {WithoutNative((IF dialect = "openai" THEN ShownThinking ELSE <<>>) \o content) :
                 content \in ContentsOf(SentText)}

\* Every tool call Kiro began is in the reply, and once, unless it (or a call begun
\* under its id) is the same call under another id; no call appears twice under one id, and none that
\* neither Kiro nor the text asked for (parsers/toolcalls.go, dedup.go).
ToolCallsOnce ==
  LET begun == {item \in received.others : item.kind = "tool_start"}
      at    == {i \in DOMAIN reply.blocks : reply.blocks[i].kind = "tool_use"}
      call(i) == reply.blocks[i].call[1]
  IN  Complete =>
        /\ \A i, j \in at : call(i).id = call(j).id => i = j
        /\ \A item \in begun :
             \E i \in at : \/ call(i).id = item.id
                           \/ \E twin, other \in begun :
                                twin.id = item.id /\ twin.name = call(i).name
                                  /\ other.id = call(i).id
        /\ \A i \in at : call(i).id > 0 => \E item \in begun : item.id = call(i).id
        /\ (\E i \in at : call(i).id < 0) => "B" \in Range(SentText)

CutShort == reply.reason \in {"max_tokens", "length"}

\* The reason given at the end agrees with what was sent before it: tool calls are
\* announced when and only when the client holds some, a text cut short only when
\* it holds text and no call and Kiro never said it was through (finish.go of both).
ReasonMatchesReply ==
  Complete =>
    /\ reply.ended
    /\ WasReceived("refusal") <=> reply.reason \in {"refusal", "content_filter"}
    /\ ~WasReceived("refusal") =>
         (CallsOf(reply) # {} <=> reply.reason \in {"tool_use", "tool_calls"})
    /\ CutShort => /\ ~WasReceived("context_usage")
                   /\ TextOf(reply, "text") # <<>>

\* The text that the client returns as the turn of the assistant is the key.  The
\* other modes of the dialect of OpenAI put reasoning into it.
EchoesContent == dialect = "anthropic" \/ Handling = "as_reasoning_content"

\* The records left for the next request are found by what the client can send
\* back: the ids of the calls it was given broken, the text it was given cut short.
\* A reply that broke off leaves none (serveStreaming of both dialects).
RecordsMatchReply ==
  phase \in {"stopping", "returned"} =>
    IF err # "none" THEN saved = [tools |-> {}, contents |-> {}]
    ELSE /\ saved.tools = {c.id : c \in {d \in CallsOf(reply) : d.truncated}}
         /\ EchoesContent =>
              saved.contents = IF CutShort THEN {TextOf(reply, "text")} ELSE {}

\* Nothing writes to the client once the handler has returned: stopPinger waits
\* for the pinger, which may be half way through a ping (stream_ping.go).
NothingAfterReturn == [][phase = "returned" => reply' = reply]_vars

\* A stream that has ended, well or badly, is left by its handler: stopPinger does
\* not wait for ever (stream_ping.go).
HandlerReturns == phase \in {"finishing", "stopping"} ~> phase = "returned"
=============================================================================
