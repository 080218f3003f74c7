--------------------------- MODULE ThinkingParser ---------------------------
(***************************************************************************)
(* The thinking parser of internal/thinkingparser: a machine of three      *)
(* states that takes a thinking block off the front of the streamed text.  *)
(* A text is a sequence of characters; the length of the tags is a         *)
(* parameter, as it is of NewParserWithTags.                               *)
(***************************************************************************)
EXTENDS Integers, Sequences, SequencesExt, FiniteSetsExt

CONSTANTS
  OpenTags,   \* the opening tags, of which none begins another
  Blanks      \* the white space of strings.TrimLeft

Slash == <<"<", "/">>

ASSUME TagsAssumption ==
  /\ OpenTags # {} /\ IsFiniteSet(OpenTags)
  /\ \A tag \in OpenTags :
       tag \in Seq(Range(tag)) /\ tag # <<>> /\ Head(tag) \notin Blanks
  /\ \A tag, other \in OpenTags : IsPrefix(tag, other) => tag = other

HandlingModes == {"as_reasoning_content", "remove", "pass", "strip_tags"}

NewThinking(handling) ==
  [state |-> "PreContent", handling |-> handling, openTag |-> <<>>, first |-> TRUE,
   initialBuffer |-> <<>>, thinkingBuffer |-> <<>>]

-----------------------------------------------------------------------------
From(text, i) == SubSeq(text, i, Len(text))

TrimLeft(text) ==
  LET solid == {i \in DOMAIN text : text[i] \notin Blanks}
  IN  IF solid = {} THEN <<>> ELSE From(text, Min(solid))

CloseTag(tag) == Slash \o Tail(tag)

\* strings.Index, as the set of all the places
Occurrences(pattern, text) == {i \in DOMAIN text : IsPrefix(pattern, From(text, i))}

MaxTagLength == 2 * Max({Len(tag) : tag \in OpenTags})

\* What one call returns, and the parser it leaves.
Parsed(parser, thinking, content) ==
  [parser |-> parser, thinking |-> thinking, content |-> content]

\* Thinking text as the configured mode shows it.
ProcessThinkingOutput(p, text, isLast) ==
  IF text = <<>> \/ p.handling = "remove" THEN <<>>
  ELSE IF p.handling = "pass"
       THEN (IF p.first THEN p.openTag ELSE <<>>) \o text
              \o (IF isLast THEN CloseTag(p.openTag) ELSE <<>>)
       ELSE text

\* Fault: after a block the parser looks for another one.
ProcessThinkingBufferAgain(p) ==
  LET buffer == p.thinkingBuffer
      closes == Occurrences(CloseTag(p.openTag), buffer)
  IN  IF closes = {} THEN Parsed(p, <<>>, <<>>)
      ELSE Parsed([p EXCEPT !.state = "PreContent", !.thinkingBuffer = <<>>],
                  ProcessThinkingOutput(p, SubSeq(buffer, 1, Min(closes) - 1), TRUE),
                  TrimLeft(From(buffer, Min(closes) + Len(CloseTag(p.openTag)))))

\* Fault: the whole buffer is sent, a half received closing tag included.
ProcessThinkingBufferAtOnce(p) ==
  LET buffer == p.thinkingBuffer
      closes == Occurrences(CloseTag(p.openTag), buffer)
  IN  IF closes # {}
      THEN Parsed([p EXCEPT !.state = "Streaming", !.thinkingBuffer = <<>>, !.first = FALSE],
                  ProcessThinkingOutput(p, SubSeq(buffer, 1, Min(closes) - 1), TRUE),
                  TrimLeft(From(buffer, Min(closes) + Len(CloseTag(p.openTag)))))
      ELSE Parsed([p EXCEPT !.thinkingBuffer = <<>>, !.first = FALSE],
                  ProcessThinkingOutput(p, buffer, FALSE), <<>>)

\* Up to the closing tag; without one, all but the end that could be part of it.
ProcessThinkingBuffer(p) ==
  LET buffer == p.thinkingBuffer
      closes == Occurrences(CloseTag(p.openTag), buffer)
      kept   == Len(buffer) - MaxTagLength
  IN  IF closes # {}
      THEN Parsed([p EXCEPT !.state = "Streaming", !.thinkingBuffer = <<>>, !.first = FALSE],
                  ProcessThinkingOutput(p, SubSeq(buffer, 1, Min(closes) - 1), TRUE),
                  TrimLeft(From(buffer, Min(closes) + Len(CloseTag(p.openTag)))))
      ELSE IF kept > 0
           THEN Parsed([p EXCEPT !.thinkingBuffer = From(buffer, kept + 1), !.first = FALSE],
                       ProcessThinkingOutput(p, SubSeq(buffer, 1, kept), FALSE), <<>>)
           ELSE Parsed(p, <<>>, <<>>)

\* The size configured for the initial buffer decides nothing: a text that
\* begins no tag is let through whatever its length.
HandlePreContent(p, text) ==
  LET buffer   == p.initialBuffer \o text
      stripped == TrimLeft(buffer)
      opened   == {tag \in OpenTags : IsPrefix(tag, stripped)}
      tag      == CHOOSE t \in opened : TRUE
  IN  IF opened # {}
      THEN ProcessThinkingBuffer(
             [p EXCEPT !.state = "InThinking", !.openTag = tag, !.initialBuffer = <<>>,
                       !.thinkingBuffer = @ \o From(stripped, Len(tag) + 1)])
      ELSE IF \E t \in OpenTags : IsStrictPrefix(stripped, t)
           THEN Parsed([p EXCEPT !.initialBuffer = buffer], <<>>, <<>>)
           ELSE Parsed([p EXCEPT !.state = "Streaming", !.initialBuffer = <<>>], <<>>, buffer)

ThinkingFeed(p, text) ==
  IF text = <<>> THEN Parsed(p, <<>>, <<>>)
  ELSE CASE p.state = "PreContent" -> HandlePreContent(p, text)
         [] p.state = "InThinking" ->
              ProcessThinkingBuffer([p EXCEPT !.thinkingBuffer = @ \o text])
         [] p.state = "Streaming"  -> Parsed(p, <<>>, text)

ThinkingFinish(p) ==
  CASE p.state = "PreContent" -> Parsed([p EXCEPT !.initialBuffer = <<>>], <<>>, p.initialBuffer)
    [] p.state = "InThinking" ->
         Parsed([p EXCEPT !.thinkingBuffer = <<>>],
                ProcessThinkingOutput(p, p.thinkingBuffer, TRUE), <<>>)
    [] p.state = "Streaming"  -> Parsed(p, <<>>, <<>>)

-----------------------------------------------------------------------------
(* What the parser is to do with a whole text, whatever pieces it came in. *)

\* The tag a text opens a block with, if it does, and what follows the tag.
BlockTags(text) == {tag \in OpenTags : IsPrefix(tag, TrimLeft(text))}

BlockOf(text) ==
  LET tag    == CHOOSE t \in BlockTags(text) : TRUE
      rest   == From(TrimLeft(text), Len(tag) + 1)
      closes == Occurrences(CloseTag(tag), rest)
  IN  IF closes = {}
      THEN [tag |-> tag, thinking |-> rest, content |-> <<>>]
      ELSE [tag |-> tag, thinking |-> SubSeq(rest, 1, Min(closes) - 1),
            content |-> From(rest, Min(closes) + Len(CloseTag(tag)))]

\* The thinking of a text, as the mode shows it, and the text that remains.
ThinkingOf(handling, text) ==
  IF BlockTags(text) = {} \/ BlockOf(text).thinking = <<>> \/ handling = "remove"
  THEN <<>>
  ELSE IF handling = "pass"
       THEN BlockOf(text).tag \o BlockOf(text).thinking \o CloseTag(BlockOf(text).tag)
       ELSE BlockOf(text).thinking

ContentOf(text) ==
  IF BlockTags(text) = {} THEN text ELSE BlockOf(text).content
=============================================================================
