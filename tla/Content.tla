-------------------------------- MODULE Content --------------------------------
(***************************************************************************)
(* What a conversation is made of between the client and Kiro              *)
(* (internal/converterscore: types.go, extract.go, text.go, images.go).    *)
(*                                                                         *)
(* A text is the sequence of the pieces it was put together from, each a   *)
(* pair <<kind, of>>: what the conversion must neither lose nor repeat.    *)
(* The empty string is <<>>.  Separators that only lay a text out are left *)
(* out, all but the newline that turns two empty texts into one that is    *)
(* not.                                                                    *)
(***************************************************************************)
EXTENDS Naturals, Sequences, SequencesExt

Placeholder == <<<<"placeholder", "">>>>     \* emptyPlaceholder
EmptyResult == <<<<"empty result", "">>>>    \* "(empty result)"
Newline     == <<<<"newline", "">>>>

NoReasoning == "none"

\* What a client's message holds; the blocks of other types carry no text.
TextBlock(text) == [type |-> "text", text |-> text]

OfType(blocks, type) == SelectSeq(blocks, LAMBDA b : b.type = type)

ExtractTextContent(blocks) ==
  FlattenSeq([i \in DOMAIN OfType(blocks, "text") |-> OfType(blocks, "text")[i].text])

\* Only the images that come with their bytes; one given by its URL is skipped.
ExtractImagesFromContent(blocks) ==
  LET inline == SelectSeq(OfType(blocks, "image"), LAMBDA b : b.source = "base64")
  IN  [i \in DOMAIN inline |-> inline[i].data]

OrEmptyResult(text) == IF text = <<>> THEN EmptyResult ELSE text

\* UnifiedMessage: the text, the calls of an assistant, the results and the
\* images of a user, and the native reasoning of an assistant.
Message(role, text) ==
  [role |-> role, text |-> text, calls |-> <<>>, results |-> <<>>,
   images |-> <<>>, reasoning |-> NoReasoning]

-----------------------------------------------------------------------------
\* A call as text names the tool and repeats its arguments, when they are a
\* string; an Anthropic client's are an object, and become "{}".
CallText(call) ==
  << <<"call", call.id>>,
     <<"arguments", IF call.object THEN "{}" ELSE call.arguments>> >>

ToolCallsToText(calls) == FlattenSeq([i \in DOMAIN calls |-> CallText(calls[i])])

ResultText(result) == << <<"result of", result.id>> >> \o OrEmptyResult(result.text)

ToolResultsToText(results) ==
  FlattenSeq([i \in DOMAIN results |-> ResultText(results[i])])

\* Arguments that are no JSON become an empty object.
ToolUse(call) ==
  [id |-> call.id,
   input |-> IF call.arguments = "not JSON" THEN "{}" ELSE call.arguments]

ExtractToolUsesFromMessage(msg) ==
  [i \in DOMAIN msg.calls |-> ToolUse(msg.calls[i])]

ConvertToolResultsToKiroFormat(results) ==
  [i \in DOMAIN results |-> [results[i] EXCEPT !.text = OrEmptyResult(@)]]
=============================================================================
