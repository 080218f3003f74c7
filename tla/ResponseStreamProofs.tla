----------------------- MODULE ResponseStreamProofs -----------------------
(***************************************************************************)
(* Theorems about ResponseStream, for any items, modes and bounds.         *)
(***************************************************************************)
EXTENDS ResponseStream, RecursionTheorems

\* A handler has returned only after its pinger.
PingerGoneFirst == phase = "returned" => pinger = "gone"

\* Between Return and the last ping stands the handshake of stopPinger.
LEMMA PingerGoesFirst == Spec => []PingerGoneFirst
<1>1. Init => PingerGoneFirst
  BY DEF Init, PingerGoneFirst
<1>2. PingerGoneFirst /\ [Next]_vars => PingerGoneFirst'
  <2> SUFFICES ASSUME PingerGoneFirst, [Next]_vars
               PROVE  PingerGoneFirst'
    OBVIOUS
  <2>1. ASSUME NEW item \in Items, Read(item)
        PROVE  PingerGoneFirst'
    BY <2>1 DEF Read, PingerGoneFirst
  <2>2. CASE ReadEOF
    BY <2>2 DEF ReadEOF, PingerGoneFirst
  <2>3. CASE ReadError
    BY <2>3 DEF ReadError, PingerGoneFirst
  <2>4. CASE Write
    BY <2>4 DEF Write, PingerGoneFirst
  <2>5. CASE WriteError
    BY <2>5 DEF WriteError, PingerGoneFirst
  <2>6. CASE Save
    BY <2>6 DEF Save, PingerGoneFirst
  <2>7. CASE Return
    BY <2>7 DEF Return, PingerGoneFirst
  <2>8. CASE Tick
    BY <2>8 DEF Tick, PingerGoneFirst
  <2>9. CASE Ping
    BY <2>9 DEF Ping, PingerGoneFirst
  <2>10. CASE PingerExit
    BY <2>10 DEF PingerExit, PingerGoneFirst
  <2>11. CASE UNCHANGED vars
    BY <2>11 DEF vars, PingerGoneFirst
  <2> QED
    BY <2>1, <2>2, <2>3, <2>4, <2>5, <2>6, <2>7, <2>8, <2>9, <2>10, <2>11 DEF Next
<1> QED
  BY <1>1, <1>2, PTL DEF Spec

\* Nothing reaches the client after the handler has returned, however often the
\* ticker fires and wherever it finds the handler.
THEOREM SilentAfterReturn == Spec => NothingAfterReturn
<1>1. PingerGoneFirst /\ [Next]_vars => [phase = "returned" => reply' = reply]_vars
  <2> SUFFICES ASSUME PingerGoneFirst, Next, phase = "returned"
               PROVE  reply' = reply
    BY DEF vars
  <2>1. pinger = "gone"
    BY DEF PingerGoneFirst
  <2>2. ASSUME NEW item \in Items PROVE ~Read(item)
    BY DEF Read
  <2>3. ~ReadEOF /\ ~ReadError /\ ~Write /\ ~WriteError /\ ~Save /\ ~Return
    BY DEF ReadEOF, ReadError, Write, WriteError, Save, Return
  <2>4. ~Tick /\ ~Ping /\ ~PingerExit
    BY <2>1 DEF Tick, Ping, PingerExit
  <2> QED
    BY <2>2, <2>3, <2>4 DEF Next
<1> QED
  BY <1>1, PingerGoesFirst, PTL DEF Spec, NothingAfterReturn
-----------------------------------------------------------------------------
(* Why HandleThinking may leave a text block open: the thinking parser gives *)
(* no thinking after content, so the block cannot be there.                  *)

Parsers(Tags, Pending, Buffers) ==
  [state : {"PreContent", "InThinking", "Streaming"}, handling : HandlingModes,
   openTag : Tags, first : BOOLEAN, initialBuffer : Pending, thinkingBuffer : Buffers]

\* The buffer is emptied into content only on the way to the last state.
LEMMA BufferContent ==
  ASSUME NEW Tags, NEW Pending, NEW Buffers, NEW p \in Parsers(Tags, Pending, Buffers)
  PROVE  LET r == ProcessThinkingBuffer(p)
         IN  r.content # <<>> => r.parser.state = "Streaming"
<1> DEFINE closes == Occurrences(CloseTag(p.openTag), p.thinkingBuffer)
<1>1. CASE closes # {}
  BY <1>1 DEF ProcessThinkingBuffer, Parsed, Parsers
<1>2. CASE closes = {}
  BY <1>2 DEF ProcessThinkingBuffer, Parsed
<1> QED
  BY <1>1, <1>2

\* A call of Feed that gives content leaves the parser in its last state, in which
\* every text is content and the parser stays as it is: once the client has text,
\* no thinking of the parser can interrupt it (thinkingparser/state_machine.go).
THEOREM ContentComesLast ==
  ASSUME NEW Tags, NEW Pending, NEW Buffers, NEW p \in Parsers(Tags, Pending, Buffers), NEW text
  PROVE  LET r == ThinkingFeed(p, text)
         IN  /\ r.content # <<>> => r.parser.state = "Streaming"
             /\ p.state = "Streaming" => r.thinking = <<>> /\ r.parser = p
<1> DEFINE r == ThinkingFeed(p, text)
<1>1. CASE text = <<>>
  BY <1>1 DEF ThinkingFeed, Parsed
<1>2. CASE text # <<>> /\ p.state = "Streaming"
  BY <1>2 DEF ThinkingFeed, Parsed
<1>3. CASE text # <<>> /\ p.state = "InThinking"
  <2> DEFINE q == [p EXCEPT !.thinkingBuffer = @ \o text]
  <2>1. q \in Parsers(Tags, Pending, {p.thinkingBuffer \o text})
    BY DEF Parsers
  <2>2. r = ProcessThinkingBuffer(q)
    BY <1>3 DEF ThinkingFeed
  <2> HIDE DEF q, r
  <2>3. r.content # <<>> => r.parser.state = "Streaming"
    BY <2>1, <2>2, BufferContent
  <2> QED
    BY <2>3, <1>3 DEF r
<1>4. CASE text # <<>> /\ p.state = "PreContent"
  <2> DEFINE buffer   == p.initialBuffer \o text
             stripped == TrimLeft(buffer)
             opened   == {tag \in OpenTags : IsPrefix(tag, stripped)}
             tag      == CHOOSE t \in opened : TRUE
             rest     == p.thinkingBuffer \o From(stripped, Len(tag) + 1)
             q        == [p EXCEPT !.state = "InThinking", !.openTag = tag,
                                   !.initialBuffer = <<>>, !.thinkingBuffer = rest]
  <2>1. r = HandlePreContent(p, text)
    BY <1>4 DEF ThinkingFeed
  <2>2. CASE opened # {}
    <3>1. r = ProcessThinkingBuffer(q)
      BY <2>1, <2>2 DEF HandlePreContent
    <3> HIDE DEF rest, tag
    <3>2. q \in Parsers({tag}, {<<>>}, {rest})
      BY DEF Parsers
    <3> HIDE DEF q, r
    <3>3. r.content # <<>> => r.parser.state = "Streaming"
      BY <3>1, <3>2, BufferContent
    <3> QED
      BY <3>3, <1>4 DEF r
  <2>3. CASE opened = {}
    BY <2>1, <2>3, <1>4 DEF HandlePreContent, Parsed, Parsers
  <2> QED
    BY <2>2, <2>3
<1> QED
  BY <1>1, <1>2, <1>3, <1>4 DEF Parsers

-----------------------------------------------------------------------------
(* What the parsers give is a sequence of events of the known kinds.       *)

ThinkingFields ==
  {"state", "handling", "openTag", "first", "initialBuffer", "thinkingBuffer"}

IsThinking(p) ==
  /\ p = [f \in ThinkingFields |-> p[f]]
  /\ p.state \in {"PreContent", "InThinking", "Streaming"} /\ p.handling \in HandlingModes
  /\ p.first \in BOOLEAN /\ (p.state = "InThinking" => p.openTag \in OpenTags)
  /\ IsSeq(p.openTag) /\ IsSeq(p.initialBuffer) /\ IsSeq(p.thinkingBuffer)

\* The result of a call of the thinking parser that had p before.
IsParsed(r, p) ==
  /\ IsThinking(r.parser) /\ r.parser.handling = p.handling
  /\ IsSeq(r.thinking) /\ IsSeq(r.content)

LEMMA FromIsSeq ==
  ASSUME NEW s, IsSeq(s), NEW n \in 1 .. Len(s) + 1
  PROVE  IsSeq(From(s, n)) /\ Len(From(s, n)) = Len(s) - (n - 1)
  <1>1. Len(s) \in Nat
    BY SeqFacts
  <1>2. n - 1 \in 0 .. Len(s) /\ (n - 1) + 1 = n
    BY <1>1
  <1>. QED BY <1>1, <1>2, TailFacts DEF From

LEMMA TrimLeftIsSeq ==
  ASSUME NEW s, IsSeq(s)
  PROVE  IsSeq(TrimLeft(s))
  <1>. DEFINE solid == {i \in DOMAIN s : s[i] \notin Blanks}
  <1>1. CASE solid = {}
    <2>1. TrimLeft(s) = <<>>
      BY <1>1 DEF TrimLeft
    <2>. QED BY <2>1, ShortSeqs
  <1>2. CASE solid # {}
    <2>1. Len(s) \in Nat /\ DOMAIN s = 1 .. Len(s)
      BY SeqFacts
    <2>2. solid \in SUBSET Nat
      BY <2>1
    <2>3. Min(solid) \in solid
      <3>. HIDE DEF solid
      <3>. QED BY <1>2, <2>2, LeastOf
    <2>4. Min(solid) \in 1 .. Len(s) + 1
      BY <2>1, <2>3
    <2>5. IsSeq(From(s, Min(solid)))
      <3>. HIDE DEF solid
      <3>. QED BY <2>4, FromIsSeq
    <2>. QED BY <1>2, <2>5 DEF TrimLeft
  <1>. QED BY <1>1, <1>2

LEMMA OpenTagIsSeq ==
  ASSUME NEW tag \in OpenTags
  PROVE  IsSeq(tag) /\ tag # <<>> /\ Len(tag) \in Nat
  BY TagsAssumption, SeqFacts DEF IsSeq

LEMMA CloseTagIsSeq ==
  ASSUME NEW tag \in OpenTags
  PROVE  IsSeq(CloseTag(tag)) /\ Len(CloseTag(tag)) = Len(tag) + 1
  <1>. DEFINE rest == Tail(tag)
  <1>1. IsSeq(Slash) /\ Len(Slash) = 2
    BY DEF Slash, IsSeq, Range
  <1>2. IsSeq(rest) /\ Len(rest) = Len(tag) - 1
    BY OpenTagIsSeq, TailIsSeq
  <1>3. IsSeq(Slash \o rest) /\ Len(Slash \o rest) = Len(Slash) + Len(rest)
    <2>. HIDE DEF rest
    <2>. QED BY <1>1, <1>2, ConcatFacts
  <1>4. Len(tag) \in Nat
    BY OpenTagIsSeq
  <1>. QED BY <1>1, <1>2, <1>3, <1>4 DEF CloseTag

LEMMA TagLengthIsNat == MaxTagLength \in Nat
  <1>. DEFINE lengths == {Len(tag) : tag \in OpenTags}
  <1>1. lengths \in SUBSET Nat /\ lengths # {}
    BY OpenTagIsSeq, TagsAssumption
  <1>2. IsFiniteSet(lengths)
    <2>. DEFINE f == [tag \in OpenTags |-> Len(tag)]
    <2>1. f = [tag \in OpenTags |-> f[tag]] /\ Range(f) = lengths
      BY DEF Range
    <2>2. IsFiniteSet(Range(f))
      <3>. HIDE DEF f
      <3>. QED BY <2>1, TagsAssumption, FiniteImage
    <2>. QED BY <2>1, <2>2
  <1>3. Max(lengths) \in Nat
    <2>. HIDE DEF lengths
    <2>. QED BY <1>1, <1>2, GreatestOf
  <1>. QED BY <1>3 DEF MaxTagLength

LEMMA OutputIsSeq ==
  ASSUME NEW p, IsThinking(p), NEW text, IsSeq(text), NEW isLast, p.openTag \in OpenTags
  PROVE  IsSeq(ProcessThinkingOutput(p, text, isLast))
  <1>. DEFINE before == IF p.first THEN p.openTag ELSE <<>>
              after  == IF isLast THEN CloseTag(p.openTag) ELSE <<>>
  <1>1. IsSeq(before) /\ IsSeq(after)
    BY ShortSeqs, CloseTagIsSeq, OpenTagIsSeq
  <1>2. IsSeq(before \o text \o after)
    <2>. HIDE DEF before, after
    <2>1. IsSeq(before \o text)
      BY <1>1, ConcatFacts
    <2>. QED BY <1>1, <2>1, ConcatFacts
  <1>3. IsSeq(<<>>)
    BY ShortSeqs
  <1>4. ProcessThinkingOutput(p, text, isLast) \in {<<>>, before \o text \o after, text}
    BY DEF ProcessThinkingOutput
  <1>. HIDE DEF before, after
  <1>. QED BY <1>2, <1>3, <1>4

LEMMA BufferIsParsed ==
  ASSUME NEW p, IsThinking(p), p.openTag \in OpenTags
  PROVE  LET r == ProcessThinkingBuffer(p)
         IN  IsParsed(r, p) /\ r.parser.openTag = p.openTag
  <1>. DEFINE buffer == p.thinkingBuffer
              tag    == CloseTag(p.openTag)
              closes == Occurrences(tag, buffer)
              kept   == Len(buffer) - MaxTagLength
              r      == ProcessThinkingBuffer(p)
  <1>1. IsSeq(buffer) /\ Len(buffer) \in Nat /\ DOMAIN buffer = 1 .. Len(buffer)
    BY SeqFacts DEF IsThinking
  <1>2. CASE closes # {}
    <2>. DEFINE at == Min(closes)
                rest == From(buffer, at + Len(tag))
    <2>1. closes \in SUBSET Nat
      BY <1>1 DEF Occurrences
    <2>2. at \in closes
      <3>. HIDE DEF closes
      <3>. QED BY <1>2, <2>1, LeastOf
    <2>3. at \in 1 .. Len(buffer) /\ IsPrefix(tag, From(buffer, at))
      BY <1>1, <2>2 DEF Occurrences
    <2>. HIDE DEF closes
    <2>4. at - 1 \in 0 .. Len(buffer) /\ at \in 1 .. Len(buffer) + 1
      <3>. HIDE DEF at
      <3>. QED BY <1>1, <2>3
    <2>5. IsSeq(SubSeq(buffer, 1, at - 1))
      <3>. HIDE DEF at, buffer
      <3>. QED BY <1>1, <2>4, HeadFacts
    <2>6. Len(tag) \in Nat /\ Len(tag) <= Len(buffer) - (at - 1)
      <3>1. Len(tag) \in Nat
        BY CloseTagIsSeq, OpenTagIsSeq
      <3>2. Len(From(buffer, at)) = Len(buffer) - (at - 1)
        <4>. HIDE DEF at, buffer
        <4>. QED BY <1>1, <2>4, FromIsSeq
      <3>. QED BY <2>3, <3>1, <3>2 DEF IsPrefix
    <2>7. IsSeq(rest)
      <3>. HIDE DEF at, buffer, tag
      <3>1. at + Len(tag) \in 1 .. Len(buffer) + 1
        BY <1>1, <2>3, <2>6
      <3>. QED BY <1>1, <3>1, FromIsSeq
    <2>8. IsSeq(TrimLeft(rest))
      <3>. HIDE DEF rest
      <3>. QED BY <2>7, TrimLeftIsSeq
    <2>9. IsSeq(ProcessThinkingOutput(p, SubSeq(buffer, 1, at - 1), TRUE))
      <3>. HIDE DEF at, buffer
      <3>. QED BY <2>5, OutputIsSeq
    <2>10. r = Parsed([p EXCEPT !.state = "Streaming", !.thinkingBuffer = <<>>, !.first = FALSE],
                      ProcessThinkingOutput(p, SubSeq(buffer, 1, at - 1), TRUE), TrimLeft(rest))
      BY <1>2 DEF ProcessThinkingBuffer, closes
    <2>. DEFINE q == [p EXCEPT !.state = "Streaming", !.thinkingBuffer = <<>>, !.first = FALSE]
    <2>11. IsThinking(q) /\ q.handling = p.handling /\ q.openTag = p.openTag
      BY ShortSeqs DEF IsThinking, ThinkingFields
    <2>. HIDE DEF at, buffer, tag, rest, r, q
    <2>12. r.parser = q /\ IsSeq(r.thinking) /\ IsSeq(r.content)
      BY <2>8, <2>9, <2>10 DEF Parsed, q
    <2>13. IsParsed(r, p) /\ r.parser.openTag = p.openTag
      BY <2>11, <2>12 DEF IsParsed
    <2>. QED BY <2>13 DEF r
  <1>3. CASE closes = {} /\ kept > 0
    <2>1. kept \in 0 .. Len(buffer) /\ kept + 1 \in 1 .. Len(buffer) + 1
      <3>. HIDE DEF buffer
      <3>. QED BY <1>1, <1>3, TagLengthIsNat
    <2>2. IsSeq(SubSeq(buffer, 1, kept)) /\ IsSeq(From(buffer, kept + 1))
      <3>. HIDE DEF kept, buffer
      <3>. QED BY <1>1, <2>1, HeadFacts, FromIsSeq
    <2>3. IsSeq(ProcessThinkingOutput(p, SubSeq(buffer, 1, kept), FALSE))
      <3>. HIDE DEF kept, buffer
      <3>. QED BY <2>2, OutputIsSeq
    <2>4. r = Parsed([p EXCEPT !.thinkingBuffer = From(buffer, kept + 1), !.first = FALSE],
                     ProcessThinkingOutput(p, SubSeq(buffer, 1, kept), FALSE), <<>>)
      BY <1>3 DEF ProcessThinkingBuffer
    <2>. DEFINE q == [p EXCEPT !.thinkingBuffer = From(buffer, kept + 1), !.first = FALSE]
    <2>. HIDE DEF kept, buffer, r
    <2>5. IsThinking(q) /\ q.handling = p.handling /\ q.openTag = p.openTag
      BY <2>2 DEF IsThinking, ThinkingFields
    <2>6. r.parser = q /\ IsSeq(r.thinking) /\ IsSeq(r.content)
      BY <2>3, <2>4, ShortSeqs DEF Parsed
    <2>. HIDE DEF q
    <2>7. IsParsed(r, p) /\ r.parser.openTag = p.openTag
      BY <2>5, <2>6 DEF IsParsed
    <2>. QED BY <2>7 DEF r
  <1>4. CASE closes = {} /\ ~(kept > 0)
    <2>1. r = Parsed(p, <<>>, <<>>)
      BY <1>4 DEF ProcessThinkingBuffer
    <2>2. r.parser = p /\ r.thinking = <<>> /\ r.content = <<>>
      BY <2>1 DEF Parsed
    <2>. HIDE DEF r
    <2>3. IsParsed(r, p) /\ r.parser.openTag = p.openTag
      BY <2>2, ShortSeqs DEF IsParsed
    <2>. QED BY <2>3 DEF r
  <1>. QED BY <1>2, <1>3, <1>4

LEMMA PreContentIsParsed ==
  ASSUME NEW p, IsThinking(p), NEW text, IsSeq(text)
  PROVE  IsParsed(HandlePreContent(p, text), p)
  <1>. DEFINE buffer   == p.initialBuffer \o text
              stripped == TrimLeft(buffer)
              opened   == {tag \in OpenTags : IsPrefix(tag, stripped)}
              tag      == CHOOSE t \in opened : TRUE
              rest     == From(stripped, Len(tag) + 1)
              r        == HandlePreContent(p, text)
  <1>1. IsSeq(buffer) /\ IsSeq(stripped)
    <2>1. IsSeq(buffer)
      BY ConcatFacts DEF IsThinking
    <2>. HIDE DEF buffer
    <2>. QED BY <2>1, TrimLeftIsSeq
  <1>2. CASE opened # {}
    <2>1. tag \in OpenTags /\ IsPrefix(tag, stripped)
      BY <1>2
    <2>. DEFINE q == [p EXCEPT !.state = "InThinking", !.openTag = tag, !.initialBuffer = <<>>,
                               !.thinkingBuffer = @ \o rest]
    <2>2. r = ProcessThinkingBuffer(q)
      BY <1>2 DEF HandlePreContent
    <2>. HIDE DEF tag, r
    <2>3. IsSeq(tag) /\ Len(tag) \in Nat /\ Len(stripped) \in Nat /\ Len(tag) <= Len(stripped)
      <3>. HIDE DEF stripped
      <3>. QED BY <1>1, <2>1, OpenTagIsSeq, SeqFacts DEF IsPrefix
    <2>4. IsSeq(rest)
      <3>. HIDE DEF stripped
      <3>. QED BY <1>1, <2>3, FromIsSeq
    <2>. HIDE DEF rest
    <2>5. IsSeq(p.thinkingBuffer \o rest)
      BY <2>4, ConcatFacts DEF IsThinking
    <2>6. IsThinking(q) /\ q.handling = p.handling /\ q.openTag \in OpenTags
      BY <2>1, <2>3, <2>5, ShortSeqs DEF IsThinking, ThinkingFields
    <2>. HIDE DEF q
    <2>7. IsParsed(r, p)
      BY <2>2, <2>6, BufferIsParsed DEF IsParsed
    <2>. QED BY <2>7 DEF r
  <1>3. CASE opened = {} /\ \E t \in OpenTags : IsStrictPrefix(stripped, t)
    <2>. DEFINE q == [p EXCEPT !.initialBuffer = buffer]
    <2>1. r = Parsed(q, <<>>, <<>>)
      BY <1>3 DEF HandlePreContent
    <2>. HIDE DEF buffer, r
    <2>2. IsThinking(q) /\ q.handling = p.handling
      BY <1>1 DEF IsThinking, ThinkingFields
    <2>. HIDE DEF q
    <2>3. IsParsed(r, p)
      BY <2>1, <2>2, ShortSeqs DEF IsParsed, Parsed
    <2>. QED BY <2>3 DEF r
  <1>4. CASE opened = {} /\ ~ \E t \in OpenTags : IsStrictPrefix(stripped, t)
    <2>. DEFINE q == [p EXCEPT !.state = "Streaming", !.initialBuffer = <<>>]
    <2>1. r = Parsed(q, <<>>, buffer)
      BY <1>4 DEF HandlePreContent
    <2>. HIDE DEF buffer, r
    <2>2. IsThinking(q) /\ q.handling = p.handling
      BY ShortSeqs DEF IsThinking, ThinkingFields
    <2>. HIDE DEF q
    <2>3. IsParsed(r, p)
      BY <1>1, <2>1, <2>2, ShortSeqs DEF IsParsed, Parsed
    <2>. QED BY <2>3 DEF r
  <1>. QED BY <1>2, <1>3, <1>4

LEMMA FeedIsParsed ==
  ASSUME NEW p, IsThinking(p), NEW text, IsSeq(text)
  PROVE  LET r == ThinkingFeed(p, text)
         IN  /\ IsParsed(r, p)
             /\ r.content # <<>> => r.parser.state = "Streaming"
             /\ p.state = "Streaming" => r.thinking = <<>> /\ r.parser = p
  <1>. DEFINE r == ThinkingFeed(p, text)
  <1>1. IsParsed(Parsed(p, <<>>, <<>>), p) /\ IsParsed(Parsed(p, <<>>, text), p)
    BY ShortSeqs DEF IsParsed, Parsed
  <1>2. IsParsed(r, p)
    <2>1. CASE text = <<>> \/ p.state = "Streaming"
      BY <1>1, <2>1 DEF ThinkingFeed
    <2>2. CASE text # <<>> /\ p.state = "PreContent"
      BY <2>2, PreContentIsParsed DEF ThinkingFeed
    <2>3. CASE text # <<>> /\ p.state = "InThinking"
      <3>. DEFINE q == [p EXCEPT !.thinkingBuffer = @ \o text]
      <3>1. r = ProcessThinkingBuffer(q)
        BY <2>3 DEF ThinkingFeed
      <3>2. IsSeq(p.thinkingBuffer \o text)
        BY ConcatFacts DEF IsThinking
      <3>3. IsThinking(q) /\ q.handling = p.handling /\ q.openTag \in OpenTags
        BY <2>3, <3>2 DEF IsThinking, ThinkingFields
      <3>. HIDE DEF q, r
      <3>. QED BY <3>1, <3>3, BufferIsParsed DEF IsParsed
    <2>. QED BY <2>1, <2>2, <2>3 DEF IsThinking
  <1>3. p \in Parsers({p.openTag}, {p.initialBuffer}, {p.thinkingBuffer})
    BY DEF IsThinking, ThinkingFields, Parsers
  <1>4. /\ r.content # <<>> => r.parser.state = "Streaming"
        /\ p.state = "Streaming" => r.thinking = <<>> /\ r.parser = p
    <2>. HIDE DEF r
    <2>. QED BY <1>3, ContentComesLast DEF r
  <1>. QED BY <1>2, <1>4

LEMMA FinishIsParsed ==
  ASSUME NEW p, IsThinking(p)
  PROVE  LET r == ThinkingFinish(p)
         IN  IsSeq(r.thinking) /\ IsSeq(r.content) /\ (p.state = "Streaming" => r.thinking = <<>>)
  <1>1. CASE p.state = "Streaming"
    BY <1>1, ShortSeqs DEF ThinkingFinish, Parsed
  <1>2. CASE p.state = "PreContent"
    BY <1>2, ShortSeqs DEF ThinkingFinish, Parsed, IsThinking
  <1>3. CASE p.state = "InThinking"
    <2>1. IsSeq(ProcessThinkingOutput(p, p.thinkingBuffer, TRUE))
      BY <1>3, OutputIsSeq DEF IsThinking
    <2>. QED BY <1>3, <2>1, ShortSeqs DEF ThinkingFinish, Parsed
  <1>. QED BY <1>1, <1>2, <1>3 DEF IsThinking

-----------------------------------------------------------------------------
(* The ends of a text.                                                    *)
\* The end of a sequence, from an element on.
LEMMA FromFacts ==
  ASSUME NEW s, IsSeq(s), NEW n \in 1 .. Len(s) + 1
  PROVE  /\ IsSeq(From(s, n)) /\ Len(From(s, n)) = (Len(s) - n) + 1
         /\ \A i \in 1 .. (Len(s) - n) + 1 : From(s, n)[i] = s[(n - 1) + i]
  <1>1. Len(s) \in Nat /\ Len(s) \in 0 .. Len(s) /\ n <= Len(s) + 1
    BY SeqFacts
  <1>. QED BY <1>1, PartFacts DEF From

LEMMA FromOfFrom ==
  ASSUME NEW s, IsSeq(s), NEW n \in 1 .. Len(s) + 1, NEW m \in 1 .. (Len(s) - n) + 2
  PROVE  From(From(s, n), m) = From(s, (n - 1) + m)
  <1>. DEFINE k == (n - 1) + m
              t == From(s, n)
              u == From(t, m)
              v == From(s, k)
  <1>1. Len(s) \in Nat /\ k \in 1 .. Len(s) + 1
    BY SeqFacts
  <1>2. /\ IsSeq(t) /\ Len(t) = (Len(s) - n) + 1
        /\ \A i \in 1 .. (Len(s) - n) + 1 : t[i] = s[(n - 1) + i]
    BY FromFacts
  <1>3. m \in 1 .. Len(t) + 1
    BY <1>1, <1>2
  <1>4. /\ IsSeq(u) /\ Len(u) = (Len(t) - m) + 1
        /\ \A i \in 1 .. (Len(t) - m) + 1 : u[i] = t[(m - 1) + i]
    <2>. HIDE DEF t
    <2>1. IsSeq(t)
      BY <1>2
    <2>. QED BY <1>3, <2>1, FromFacts
  <1>5. /\ IsSeq(v) /\ Len(v) = (Len(s) - k) + 1
        /\ \A i \in 1 .. (Len(s) - k) + 1 : v[i] = s[(k - 1) + i]
    <2>. HIDE DEF k
    <2>. QED BY <1>1, FromFacts
  <1>. HIDE DEF t, u, v
  <1>6. Len(u) = Len(v)
    BY <1>1, <1>2, <1>4, <1>5
  <1>7. ASSUME NEW i \in 1 .. Len(u) PROVE u[i] = v[i]
    <2>1. /\ i \in 1 .. (Len(t) - m) + 1 /\ (m - 1) + i \in 1 .. (Len(s) - n) + 1
          /\ i \in 1 .. (Len(s) - k) + 1 /\ (n - 1) + ((m - 1) + i) = (k - 1) + i
      BY <1>1, <1>2, <1>4
    <2>. HIDE DEF k
    <2>2. u[i] = t[(m - 1) + i] /\ v[i] = s[(k - 1) + i]
      BY <1>4, <1>5, <2>1
    <2>3. t[(m - 1) + i] = s[(n - 1) + ((m - 1) + i)]
      BY <1>2, <2>1
    <2>. QED BY <2>1, <2>2, <2>3
  <1>. QED BY <1>4, <1>5, <1>6, <1>7, EqualSeqs DEF u, v, t

\* The end of a sequence that has become longer.
LEMMA FromOfJoined ==
  ASSUME NEW s, IsSeq(s), NEW t, IsSeq(t), NEW n \in 1 .. Len(s) + 1
  PROVE  From(s \o t, n) = From(s, n) \o t
  <1>. DEFINE u == s \o t
              v == From(s, n)
              w == v \o t
              x == From(u, n)
  <1>1. Len(s) \in Nat /\ Len(t) \in Nat
    BY SeqFacts
  <1>2. /\ IsSeq(u) /\ Len(u) = Len(s) + Len(t) /\ (\A i \in 1 .. Len(s) : u[i] = s[i])
        /\ \A i \in 1 .. Len(t) : u[Len(s) + i] = t[i]
    BY ConcatFacts
  <1>3. /\ IsSeq(v) /\ Len(v) = (Len(s) - n) + 1
        /\ \A i \in 1 .. (Len(s) - n) + 1 : v[i] = s[(n - 1) + i]
    BY FromFacts
  <1>. HIDE DEF u, v
  <1>4. /\ IsSeq(w) /\ Len(w) = Len(v) + Len(t) /\ (\A i \in 1 .. Len(v) : w[i] = v[i])
        /\ \A i \in 1 .. Len(t) : w[Len(v) + i] = t[i]
    <2>1. IsSeq(v)
      BY <1>3
    <2>. QED BY <2>1, ConcatFacts
  <1>5. /\ IsSeq(x) /\ Len(x) = (Len(u) - n) + 1
        /\ \A i \in 1 .. (Len(u) - n) + 1 : x[i] = u[(n - 1) + i]
    <2>1. n \in 1 .. Len(u) + 1 /\ IsSeq(u)
      BY <1>1, <1>2
    <2>. QED BY <2>1, FromFacts
  <1>. HIDE DEF w, x
  <1>6. Len(x) = Len(w)
    BY <1>1, <1>2, <1>3, <1>4, <1>5
  <1>7. ASSUME NEW i \in 1 .. Len(x) PROVE x[i] = w[i]
    <2>1. x[i] = u[(n - 1) + i]
      BY <1>5
    <2>2. CASE i <= Len(v)
      <3>1. i \in 1 .. Len(v) /\ i \in 1 .. (Len(s) - n) + 1 /\ (n - 1) + i \in 1 .. Len(s)
        BY <1>1, <1>3, <2>2
      <3>. QED BY <1>2, <1>3, <1>4, <2>1, <3>1
    <2>3. CASE ~ (i <= Len(v))
      <3>. DEFINE j == i - Len(v)
      <3>1. j \in 1 .. Len(t) /\ Len(v) + j = i /\ (n - 1) + i = Len(s) + j
        BY <1>1, <1>3, <1>4, <1>6, <2>3
      <3>. HIDE DEF j
      <3>2. w[i] = t[j]
        BY <1>4, <3>1
      <3>3. u[(n - 1) + i] = t[j]
        BY <1>2, <3>1
      <3>. QED BY <2>1, <3>2, <3>3
    <2>. QED BY <2>2, <2>3
  <1>. QED BY <1>4, <1>5, <1>6, <1>7, EqualSeqs DEF u, v, w, x

-----------------------------------------------------------------------------
(* White space, tags and places of a text.                                 *)
LEMMA PrefixIs ==
  ASSUME NEW s, IsSeq(s), NEW t, IsSeq(t)
  PROVE  IsPrefix(s, t) <=> Len(s) <= Len(t) /\ \A i \in 1 .. Len(s) : s[i] = t[i]
  <1>. DEFINE a == SubSeq(s, 1, Len(s))
              b == SubSeq(t, 1, Len(s))
  <1>1. Len(s) \in Nat /\ Len(t) \in Nat
    BY SeqFacts
  <1>2. CASE Len(s) <= Len(t)
    <2>1. Len(s) \in 0 .. Len(s) /\ Len(s) \in 0 .. Len(t)
      BY <1>1, <1>2
    <2>2. IsSeq(a) /\ Len(a) = Len(s) /\ \A i \in 1 .. Len(s) : a[i] = s[i]
      BY <2>1, HeadFacts
    <2>3. IsSeq(b) /\ Len(b) = Len(s) /\ \A i \in 1 .. Len(s) : b[i] = t[i]
      BY <2>1, HeadFacts
    <2>4. IsPrefix(s, t) <=> a = b
      BY <1>2 DEF IsPrefix
    <2>. HIDE DEF a, b
    <2>5. (\A i \in 1 .. Len(s) : s[i] = t[i]) => a = b
      <3>1. (\A i \in 1 .. Len(s) : s[i] = t[i]) => \A i \in 1 .. Len(a) : a[i] = b[i]
        BY <2>2, <2>3
      <3>. QED BY <2>2, <2>3, <3>1, EqualSeqs
    <2>6. a = b => \A i \in 1 .. Len(s) : s[i] = t[i]
      BY <2>2, <2>3
    <2>. QED BY <1>2, <2>4, <2>5, <2>6
  <1>3. CASE ~ (Len(s) <= Len(t))
    BY <1>3 DEF IsPrefix
  <1>. QED BY <1>2, <1>3

\* The text from its first character on that is no white space.
Trimmed(s, n) ==
  /\ n \in 1 .. Len(s) /\ s[n] \notin Blanks /\ \A i \in 1 .. n - 1 : s[i] \in Blanks

LEMMA TrimsAt ==
  ASSUME NEW s, IsSeq(s), NEW n, Trimmed(s, n)
  PROVE  TrimLeft(s) = From(s, n) /\ TrimLeft(s) # <<>>
  <1>. DEFINE solid == {i \in DOMAIN s : s[i] \notin Blanks}
              least == Min(solid)
  <1>1. Len(s) \in Nat /\ DOMAIN s = 1 .. Len(s) /\ n \in 1 .. Len(s) + 1 /\ n \in 1 .. Len(s)
    BY SeqFacts DEF Trimmed
  <1>2. solid \in SUBSET Nat /\ n \in solid
    BY <1>1 DEF Trimmed
  <1>3. least \in solid /\ \A x \in solid : least <= x
    <2>. HIDE DEF solid
    <2>. QED BY <1>2, LeastOf
  <1>4. least = n
    <2>1. least \in 1 .. Len(s) /\ s[least] \notin Blanks /\ least <= n
      <3>1. least <= n
        BY <1>2, <1>3
      <3>2. \A x \in solid : x \in 1 .. Len(s) /\ s[x] \notin Blanks
        BY <1>1
      <3>. HIDE DEF solid, least
      <3>. QED BY <1>3, <3>1, <3>2
    <2>. HIDE DEF least, solid
    <2>2. ~ (least <= n - 1)
      BY <1>1, <2>1 DEF Trimmed
    <2>. QED BY <1>1, <2>1, <2>2
  <1>5. TrimLeft(s) = From(s, least)
    BY <1>2 DEF TrimLeft
  <1>. HIDE DEF least, solid
  <1>6. Len(From(s, n)) = (Len(s) - n) + 1 /\ IsSeq(From(s, n))
    BY <1>1, FromFacts
  <1>7. Len(From(s, n)) # 0
    BY <1>1, <1>6
  <1>. QED BY <1>4, <1>5, <1>6, <1>7, SeqFacts

LEMMA TrimsOrBlank ==
  ASSUME NEW s, IsSeq(s)
  PROVE  \/ \E n : Trimmed(s, n)
         \/ TrimLeft(s) = <<>> /\ \A i \in 1 .. Len(s) : s[i] \in Blanks
  <1>. DEFINE solid == {i \in DOMAIN s : s[i] \notin Blanks}
              least == Min(solid)
  <1>1. Len(s) \in Nat /\ DOMAIN s = 1 .. Len(s)
    BY SeqFacts
  <1>2. CASE solid = {}
    <2>1. \A i \in 1 .. Len(s) : s[i] \in Blanks
      BY <1>1, <1>2
    <2>. QED BY <1>2, <2>1 DEF TrimLeft
  <1>3. CASE solid # {}
    <2>1. solid \in SUBSET Nat
      BY <1>1
    <2>2. least \in solid /\ \A x \in solid : least <= x
      <3>. HIDE DEF solid
      <3>. QED BY <1>3, <2>1, LeastOf
    <2>3. \A x : x \in solid <=> x \in 1 .. Len(s) /\ s[x] \notin Blanks
      BY <1>1
    <2>. HIDE DEF least, solid
    <2>4. \A i \in 1 .. least - 1 : s[i] \in Blanks
      <3>1. \A i \in 1 .. least - 1 : i \in 1 .. Len(s) /\ ~ (least <= i)
        BY <1>1, <2>2, <2>3
      <3>. QED BY <2>2, <2>3, <3>1
    <2>5. Trimmed(s, least)
      BY <2>2, <2>3, <2>4 DEF Trimmed
    <2>. QED BY <2>5
  <1>. QED BY <1>2, <1>3

\* White space is taken off once.
LEMMA TrimsLonger ==
  ASSUME NEW s, IsSeq(s), NEW x, IsSeq(x), TrimLeft(s) # <<>>
  PROVE  TrimLeft(s \o x) = TrimLeft(s) \o x
  <1>1. PICK n : Trimmed(s, n)
    BY TrimsOrBlank
  <1>. DEFINE t == s \o x
  <1>2. /\ IsSeq(t) /\ Len(t) = Len(s) + Len(x) /\ Len(s) \in Nat /\ Len(x) \in Nat
        /\ \A i \in 1 .. Len(s) : t[i] = s[i]
    BY ConcatFacts, SeqFacts
  <1>3. n \in 1 .. Len(s) /\ n \in 1 .. Len(s) + 1
    BY <1>1, <1>2 DEF Trimmed
  <1>4. From(t, n) = From(s, n) \o x
    BY <1>3, FromOfJoined
  <1>. HIDE DEF t
  <1>5. Trimmed(t, n)
    <2>1. n \in 1 .. Len(t) /\ t[n] = s[n]
      BY <1>2, <1>3
    <2>2. \A i \in 1 .. n - 1 : i \in 1 .. Len(s)
      BY <1>2, <1>3
    <2>. QED BY <1>1, <1>2, <2>1, <2>2 DEF Trimmed
  <1>6. TrimLeft(t) = From(t, n) /\ TrimLeft(s) = From(s, n)
    BY <1>1, <1>2, <1>5, TrimsAt
  <1>. QED BY <1>4, <1>6 DEF t

LEMMA TrimIsOne ==
  ASSUME NEW s, IsSeq(s)
  PROVE  TrimLeft(s) \in LeftTrims(s) /\ (s = <<>> => <<>> \in LeftTrims(s))
  <1>1. Len(s) \in Nat
    BY SeqFacts
  <1>2. CASE \E n : Trimmed(s, n)
    <2>1. PICK n : Trimmed(s, n)
      BY <1>2
    <2>2. TrimLeft(s) = From(s, n) /\ TrimLeft(s) # <<>>
      BY <2>1, TrimsAt
    <2>3. n \in 1 .. Len(s) + 1 /\ n \in 1 .. Len(s) /\ \A i \in 1 .. n - 1 : s[i] \in Blanks
      BY <1>1, <2>1 DEF Trimmed
    <2>4. s # <<>>
      BY <1>1, <2>3, SeqFacts
    <2>. QED BY <2>2, <2>3, <2>4 DEF LeftTrims
  <1>3. CASE TrimLeft(s) = <<>> /\ \A i \in 1 .. Len(s) : s[i] \in Blanks
    <2>. DEFINE n == Len(s) + 1
    <2>1. n \in 1 .. Len(s) + 1 /\ n - 1 = Len(s)
      BY <1>1
    <2>2. IsSeq(From(s, n)) /\ Len(From(s, n)) = (Len(s) - n) + 1
      <3>. HIDE DEF n
      <3>. QED BY <2>1, FromFacts
    <2>3. From(s, n) = <<>>
      <3>1. Len(From(s, n)) = 0
        <4>. HIDE DEF n
        <4>. QED BY <1>1, <2>1, <2>2
      <3>. HIDE DEF n
      <3>. QED BY <2>2, <3>1, SeqFacts
    <2>4. \A i \in 1 .. n - 1 : s[i] \in Blanks
      BY <1>3, <2>1
    <2>. HIDE DEF n
    <2>. QED BY <1>3, <2>1, <2>3, <2>4 DEF LeftTrims
  <1>. QED BY <1>2, <1>3, TrimsOrBlank

LEMMA LeftTrimsLonger ==
  ASSUME NEW s, IsSeq(s), NEW x, IsSeq(x), NEW t \in LeftTrims(s)
  PROVE  IsSeq(t) /\ t \o x \in LeftTrims(s \o x)
  <1>1. PICK n \in 1 .. Len(s) + 1 : t = From(s, n) /\ \A i \in 1 .. n - 1 : s[i] \in Blanks
    BY DEF LeftTrims
  <1>. DEFINE u == s \o x
  <1>2. /\ IsSeq(u) /\ Len(u) = Len(s) + Len(x) /\ Len(s) \in Nat /\ Len(x) \in Nat
        /\ \A i \in 1 .. Len(s) : u[i] = s[i]
    BY ConcatFacts, SeqFacts
  <1>3. From(u, n) = t \o x
    BY <1>1, FromOfJoined
  <1>4. IsSeq(t)
    BY <1>1, FromFacts
  <1>. HIDE DEF u
  <1>5. n \in 1 .. Len(u) + 1 /\ \A i \in 1 .. n - 1 : u[i] \in Blanks
    <2>1. \A i \in 1 .. n - 1 : i \in 1 .. Len(s)
      BY <1>2
    <2>. QED BY <1>1, <1>2, <2>1
  <1>. QED BY <1>3, <1>4, <1>5 DEF LeftTrims, u

-----------------------------------------------------------------------------
(* The tag a text opens a block with.                                      *)
LEMMA TagLengths ==
  ASSUME NEW tag \in OpenTags
  PROVE  /\ Len(tag) \in Nat \ {0} /\ Len(CloseTag(tag)) = Len(tag) + 1
         /\ Len(CloseTag(tag)) <= MaxTagLength /\ MaxTagLength \in Nat
  <1>. DEFINE lengths == {Len(t) : t \in OpenTags}
              longest == Max(lengths)
  <1>1. lengths \in SUBSET Nat /\ Len(tag) \in lengths
    BY OpenTagIsSeq
  <1>2. IsFiniteSet(lengths)
    <2>. DEFINE f == [t \in OpenTags |-> Len(t)]
    <2>1. f = [t \in OpenTags |-> f[t]] /\ Range(f) = lengths
      BY DEF Range
    <2>2. IsFiniteSet(Range(f))
      <3>. HIDE DEF f
      <3>. QED BY <2>1, TagsAssumption, FiniteImage
    <2>. QED BY <2>1, <2>2
  <1>3. longest \in lengths /\ Len(tag) <= longest
    <2>. HIDE DEF lengths
    <2>. QED BY <1>1, <1>2, GreatestOf
  <1>4. longest \in Nat
    <2>. HIDE DEF longest, lengths
    <2>. QED BY <1>1, <1>3
  <1>5. MaxTagLength = 2 * longest
    BY DEF MaxTagLength
  <1>6. Len(tag) \in Nat /\ Len(tag) # 0
    BY OpenTagIsSeq, SeqFacts
  <1>7. Len(CloseTag(tag)) = Len(tag) + 1
    BY CloseTagIsSeq
  <1>. HIDE DEF longest, lengths
  <1>. QED BY <1>3, <1>4, <1>5, <1>6, <1>7

LEMMA OneTag ==
  ASSUME NEW text, IsSeq(text), NEW a \in BlockTags(text), NEW b \in BlockTags(text)
  PROVE  a = b
  <1>. DEFINE t == TrimLeft(text)
  <1>1. a \in OpenTags /\ b \in OpenTags /\ IsPrefix(a, t) /\ IsPrefix(b, t)
    BY DEF BlockTags
  <1>2. IsSeq(t)
    BY TrimLeftIsSeq
  <1>3. IsSeq(a) /\ IsSeq(b) /\ Len(a) \in Nat /\ Len(b) \in Nat
    BY <1>1, OpenTagIsSeq
  <1>. HIDE DEF t
  <1>4. \A i \in 1 .. Len(a) : a[i] = t[i]
    BY <1>1, <1>2, <1>3, PrefixIs
  <1>5. \A i \in 1 .. Len(b) : b[i] = t[i]
    BY <1>1, <1>2, <1>3, PrefixIs
  <1>6. IsPrefix(a, b) \/ IsPrefix(b, a)
    <2>1. CASE Len(a) <= Len(b)
      <3>1. \A i \in 1 .. Len(a) : a[i] = b[i]
        BY <1>3, <1>4, <1>5, <2>1
      <3>. QED BY <1>3, <2>1, <3>1, PrefixIs
    <2>2. CASE Len(b) <= Len(a)
      <3>1. \A i \in 1 .. Len(b) : b[i] = a[i]
        BY <1>3, <1>4, <1>5, <2>2
      <3>. QED BY <1>3, <2>2, <3>1, PrefixIs
    <2>. QED BY <1>3, <2>1, <2>2
  <1>. QED BY <1>1, <1>6, TagsAssumption

LEMMA TheTag ==
  ASSUME NEW text, IsSeq(text), NEW tag \in BlockTags(text)
  PROVE  (CHOOSE t \in BlockTags(text) : TRUE) = tag
  <1>. DEFINE some == CHOOSE t \in BlockTags(text) : TRUE
  <1>1. some \in BlockTags(text)
    OBVIOUS
  <1>. HIDE DEF some
  <1>2. some = tag
    BY <1>1, OneTag
  <1>. QED BY <1>2 DEF some

\* What follows the tag.
RestOf(tag, text) == From(TrimLeft(text), Len(tag) + 1)

LEMMA TagLeaves ==
  ASSUME NEW text, IsSeq(text), NEW tag \in BlockTags(text)
  PROVE  /\ tag \in OpenTags /\ TrimLeft(text) # <<>> /\ IsSeq(RestOf(tag, text))
         /\ Len(tag) + 1 \in 1 .. Len(TrimLeft(text)) + 1
  <1>. DEFINE t == TrimLeft(text)
  <1>1. tag \in OpenTags /\ IsPrefix(tag, t)
    BY DEF BlockTags
  <1>2. IsSeq(t)
    BY TrimLeftIsSeq
  <1>3. IsSeq(tag) /\ Len(tag) \in Nat \ {0}
    BY <1>1, OpenTagIsSeq, TagLengths
  <1>. HIDE DEF t
  <1>4. Len(tag) <= Len(t) /\ Len(t) \in Nat
    BY <1>1, <1>2, <1>3, PrefixIs, SeqFacts
  <1>5. t # <<>>
    <2>1. Len(t) # 0
      BY <1>3, <1>4
    <2>. QED BY <2>1, <1>2, SeqFacts
  <1>6. Len(tag) + 1 \in 1 .. Len(t) + 1
    BY <1>3, <1>4
  <1>7. IsSeq(From(t, Len(tag) + 1))
    <2>. DEFINE n == Len(tag) + 1
    <2>. HIDE DEF n
    <2>1. n \in 1 .. Len(t) + 1
      BY <1>6 DEF n
    <2>2. IsSeq(From(t, n))
      BY <1>2, <2>1, FromFacts
    <2>. QED BY <2>2 DEF n
  <1>. QED BY <1>1, <1>5, <1>6, <1>7 DEF RestOf, t

\* A text that goes on has the same tag.
LEMMA TagsLonger ==
  ASSUME NEW s, IsSeq(s), NEW x, IsSeq(x), NEW tag \in BlockTags(s)
  PROVE  tag \in BlockTags(s \o x) /\ RestOf(tag, s \o x) = RestOf(tag, s) \o x
  <1>. DEFINE t == TrimLeft(s)
              u == t \o x
  <1>1. tag \in OpenTags /\ IsPrefix(tag, t)
    BY DEF BlockTags
  <1>2. t # <<>> /\ Len(tag) + 1 \in 1 .. Len(t) + 1
    BY TagLeaves
  <1>3. IsSeq(t)
    BY TrimLeftIsSeq
  <1>4. TrimLeft(s \o x) = u
    BY <1>2, TrimsLonger
  <1>5. IsSeq(tag) /\ Len(tag) \in Nat
    BY <1>1, OpenTagIsSeq
  <1>. HIDE DEF t
  <1>6. /\ IsSeq(u) /\ Len(u) = Len(t) + Len(x) /\ Len(t) \in Nat /\ Len(x) \in Nat
        /\ \A i \in 1 .. Len(t) : u[i] = t[i]
    BY <1>3, ConcatFacts, SeqFacts
  <1>7. From(u, Len(tag) + 1) = From(t, Len(tag) + 1) \o x
    <2>. DEFINE n == Len(tag) + 1
    <2>1. n \in 1 .. Len(t) + 1
      BY <1>2
    <2>. HIDE DEF n
    <2>2. From(u, n) = From(t, n) \o x
      BY <1>3, <2>1, FromOfJoined
    <2>. QED BY <2>2 DEF n
  <1>. HIDE DEF u
  <1>8. Len(tag) <= Len(t) /\ \A i \in 1 .. Len(tag) : tag[i] = t[i]
    BY <1>1, <1>3, <1>5, PrefixIs
  <1>9. IsPrefix(tag, u)
    <2>1. Len(tag) <= Len(u) /\ \A i \in 1 .. Len(tag) : tag[i] = u[i]
      BY <1>5, <1>6, <1>8
    <2>2. IsSeq(u)
      BY <1>6
    <2>. QED BY <1>5, <2>1, <2>2, PrefixIs
  <1>. QED BY <1>1, <1>4, <1>7, <1>9 DEF BlockTags, RestOf, t

\* A text that can no longer open a block.
Untagged(s) ==
  /\ BlockTags(s) = {} /\ TrimLeft(s) # <<>>
  /\ ~ \E tag \in OpenTags : IsStrictPrefix(TrimLeft(s), tag)

LEMMA UntaggedLonger ==
  ASSUME NEW s, IsSeq(s), NEW x, IsSeq(x), Untagged(s)
  PROVE  Untagged(s \o x)
  <1>. DEFINE t == TrimLeft(s)
              u == t \o x
  <1>1. /\ t # <<>> /\ (\A tag \in OpenTags : ~IsPrefix(tag, t))
        /\ \A tag \in OpenTags : IsPrefix(t, tag) => t = tag
    BY DEF Untagged, BlockTags, IsStrictPrefix
  <1>2. IsSeq(t)
    BY TrimLeftIsSeq
  <1>3. TrimLeft(s \o x) = u
    BY <1>1, TrimsLonger
  <1>. HIDE DEF t
  <1>4. /\ IsSeq(u) /\ Len(u) = Len(t) + Len(x) /\ Len(t) \in Nat /\ Len(x) \in Nat
        /\ \A i \in 1 .. Len(t) : u[i] = t[i]
    BY <1>2, ConcatFacts, SeqFacts
  <1>. HIDE DEF u
  <1>5. u # <<>>
    <2>1. Len(t) # 0
      BY <1>1, <1>2, SeqFacts
    <2>2. IsSeq(u) /\ Len(u) # 0
      BY <1>4, <2>1
    <2>. QED BY <2>2, SeqFacts
  <1>6. ASSUME NEW tag \in OpenTags PROVE ~IsPrefix(tag, u) /\ ~IsStrictPrefix(u, tag)
    <2>1. IsSeq(tag) /\ Len(tag) \in Nat /\ ~IsPrefix(tag, t) /\ (IsPrefix(t, tag) => t = tag)
      BY <1>1, OpenTagIsSeq
    <2>2. IsSeq(u)
      BY <1>4
    <2>3. IsPrefix(t, t)
      BY <1>2, PrefixIs, <1>4
    <2>4. ~IsPrefix(t, tag)
      BY <2>1, <2>3
    <2>5. ASSUME IsPrefix(tag, u) PROVE FALSE
      <3>1. Len(tag) <= Len(u) /\ \A i \in 1 .. Len(tag) : tag[i] = u[i]
        BY <2>1, <2>2, <2>5, PrefixIs
      <3>2. CASE Len(tag) <= Len(t)
        <4>1. \A i \in 1 .. Len(tag) : tag[i] = t[i]
          BY <1>4, <2>1, <3>1, <3>2
        <4>2. IsPrefix(tag, t)
          BY <1>2, <2>1, <3>2, <4>1, PrefixIs
        <4>. QED BY <2>1, <4>2
      <3>3. CASE Len(t) <= Len(tag)
        <4>1. \A i \in 1 .. Len(t) : t[i] = tag[i]
          BY <1>4, <2>1, <3>1, <3>3
        <4>2. IsPrefix(t, tag)
          BY <1>2, <2>1, <3>3, <4>1, PrefixIs
        <4>. QED BY <2>4, <4>2
      <3>. QED BY <1>4, <2>1, <3>2, <3>3
    <2>6. ASSUME IsPrefix(u, tag) PROVE FALSE
      <3>1. Len(u) <= Len(tag) /\ \A i \in 1 .. Len(u) : u[i] = tag[i]
        BY <2>1, <2>2, <2>6, PrefixIs
      <3>2. Len(t) <= Len(tag) /\ \A i \in 1 .. Len(t) : t[i] = tag[i]
        BY <1>4, <2>1, <3>1
      <3>3. IsPrefix(t, tag)
        BY <1>2, <2>1, <3>2, PrefixIs
      <3>. QED BY <2>4, <3>3
    <2>. QED BY <2>5, <2>6 DEF IsStrictPrefix
  <1>. QED BY <1>3, <1>5, <1>6 DEF Untagged, BlockTags

-----------------------------------------------------------------------------
(* The places of a closing tag.                                            *)
Occurs(pattern, text, i) ==
  /\ i \in 1 .. Len(text) /\ (i - 1) + Len(pattern) <= Len(text)
  /\ \A k \in 1 .. Len(pattern) : text[(i - 1) + k] = pattern[k]

LEMMA OccursIs ==
  ASSUME NEW pattern, IsSeq(pattern), NEW text, IsSeq(text), NEW i
  PROVE  i \in Occurrences(pattern, text) <=> Occurs(pattern, text, i)
  <1>1. Len(text) \in Nat /\ DOMAIN text = 1 .. Len(text) /\ Len(pattern) \in Nat
    BY SeqFacts
  <1>2. CASE i \in 1 .. Len(text)
    <2>. DEFINE t == From(text, i)
    <2>1. i \in 1 .. Len(text) + 1
      BY <1>1, <1>2
    <2>2. /\ IsSeq(t) /\ Len(t) = (Len(text) - i) + 1
          /\ \A k \in 1 .. (Len(text) - i) + 1 : t[k] = text[(i - 1) + k]
      BY <2>1, FromFacts
    <2>3. i \in Occurrences(pattern, text) <=> IsPrefix(pattern, t)
      BY <1>1, <1>2 DEF Occurrences
    <2>. HIDE DEF t
    <2>4. IsPrefix(pattern, t)
            <=> Len(pattern) <= Len(t) /\ \A k \in 1 .. Len(pattern) : pattern[k] = t[k]
      <3>1. IsSeq(t)
        BY <2>2
      <3>. QED BY <3>1, PrefixIs
    <2>5. Len(pattern) <= Len(t) <=> (i - 1) + Len(pattern) <= Len(text)
      BY <1>1, <1>2, <2>2
    <2>6. ASSUME Len(pattern) <= Len(t), NEW k \in 1 .. Len(pattern)
          PROVE  t[k] = text[(i - 1) + k]
      <3>1. k \in 1 .. (Len(text) - i) + 1
        BY <1>1, <1>2, <2>2, <2>6
      <3>. QED BY <2>2, <3>1
    <2>7. Len(pattern) <= Len(t) =>
            ((\A k \in 1 .. Len(pattern) : pattern[k] = t[k])
               <=> \A k \in 1 .. Len(pattern) : text[(i - 1) + k] = pattern[k])
      BY <2>6
    <2>. QED BY <1>2, <2>3, <2>4, <2>5, <2>7 DEF Occurs
  <1>3. CASE i \notin 1 .. Len(text)
    BY <1>1, <1>3 DEF Occurrences, Occurs
  <1>. QED BY <1>2, <1>3

LEMMA OccursLonger ==
  ASSUME NEW pattern, IsSeq(pattern), NEW text, IsSeq(text), NEW x, IsSeq(x), NEW i
  PROVE  /\ Occurs(pattern, text, i) => Occurs(pattern, text \o x, i)
         /\ Occurs(pattern, text \o x, i) /\ (i - 1) + Len(pattern) <= Len(text) /\ Len(pattern) # 0
              => Occurs(pattern, text, i)
  <1>. DEFINE t == text \o x
  <1>1. /\ Len(t) = Len(text) + Len(x) /\ Len(text) \in Nat /\ Len(x) \in Nat /\ Len(pattern) \in Nat
        /\ \A k \in 1 .. Len(text) : t[k] = text[k]
    BY ConcatFacts, SeqFacts
  <1>. HIDE DEF t
  <1>2. ASSUME Occurs(pattern, text, i) PROVE Occurs(pattern, t, i)
    <2>1. /\ i \in 1 .. Len(text) /\ (i - 1) + Len(pattern) <= Len(text)
          /\ \A k \in 1 .. Len(pattern) : text[(i - 1) + k] = pattern[k]
      BY <1>2 DEF Occurs
    <2>2. \A k \in 1 .. Len(pattern) : (i - 1) + k \in 1 .. Len(text)
      BY <1>1, <2>1
    <2>3. i \in 1 .. Len(t) /\ (i - 1) + Len(pattern) <= Len(t)
      BY <1>1, <2>1
    <2>. QED BY <1>1, <2>1, <2>2, <2>3 DEF Occurs
  <1>3. ASSUME Occurs(pattern, t, i), (i - 1) + Len(pattern) <= Len(text), Len(pattern) # 0
        PROVE  Occurs(pattern, text, i)
    <2>1. /\ i \in 1 .. Len(t) /\ \A k \in 1 .. Len(pattern) : t[(i - 1) + k] = pattern[k]
      BY <1>3 DEF Occurs
    <2>2. i \in 1 .. Len(text) /\ \A k \in 1 .. Len(pattern) : (i - 1) + k \in 1 .. Len(text)
      BY <1>1, <1>3, <2>1
    <2>. QED BY <1>1, <1>3, <2>1, <2>2 DEF Occurs
  <1>. QED BY <1>2, <1>3 DEF t

\* The places in the end of a text.
LEMMA OccursInEnd ==
  ASSUME NEW pattern, IsSeq(pattern), NEW text, IsSeq(text), NEW n \in 0 .. Len(text),
         NEW j \in Nat \ {0}
  PROVE  Occurs(pattern, From(text, n + 1), j) <=> Occurs(pattern, text, n + j)
  <1>. DEFINE m == n + 1
              t == From(text, m)
  <1>1. Len(text) \in Nat /\ Len(pattern) \in Nat /\ m \in 1 .. Len(text) + 1 /\ m - 1 = n
    BY SeqFacts
  <1>2. /\ Len(t) = (Len(text) - m) + 1
        /\ \A k \in 1 .. (Len(text) - m) + 1 : t[k] = text[(m - 1) + k]
    <2>. HIDE DEF m
    <2>. QED BY <1>1, FromFacts
  <1>3. Len(t) = Len(text) - n /\ \A k \in 1 .. Len(text) - n : t[k] = text[n + k]
    <2>1. (Len(text) - m) + 1 = Len(text) - n
      BY <1>1
    <2>. HIDE DEF m, t
    <2>. QED BY <1>1, <1>2, <2>1
  <1>. HIDE DEF t, m
  <1>4. /\ j \in 1 .. Len(t) <=> n + j \in 1 .. Len(text)
        /\ (j - 1) + Len(pattern) <= Len(t) <=> ((n + j) - 1) + Len(pattern) <= Len(text)
    BY <1>1, <1>3
  <1>5. ASSUME (j - 1) + Len(pattern) <= Len(t), NEW k \in 1 .. Len(pattern)
        PROVE  t[(j - 1) + k] = text[((n + j) - 1) + k]
    <2>1. (j - 1) + k \in 1 .. Len(text) - n /\ n + ((j - 1) + k) = ((n + j) - 1) + k
      BY <1>1, <1>3, <1>5
    <2>2. t[(j - 1) + k] = text[n + ((j - 1) + k)]
      BY <1>3, <2>1
    <2>. QED BY <2>1, <2>2
  <1>6. Occurs(pattern, t, j) <=> Occurs(pattern, text, n + j)
    BY <1>4, <1>5 DEF Occurs
  <1>. QED BY <1>6 DEF t, m

\* The first place.
FirstAt(pattern, text, n) ==
  Occurs(pattern, text, n) /\ \A i \in 1 .. n - 1 : ~Occurs(pattern, text, i)

LEMMA FirstIsLeast ==
  ASSUME NEW pattern, IsSeq(pattern), NEW text, IsSeq(text)
  PROVE  /\ \A n : FirstAt(pattern, text, n) =>
              Occurrences(pattern, text) # {} /\ Min(Occurrences(pattern, text)) = n
         /\ Occurrences(pattern, text) # {} =>
              FirstAt(pattern, text, Min(Occurrences(pattern, text)))
  <1>. DEFINE at == Occurrences(pattern, text)
              least == Min(at)
  <1>1. \A i : i \in at <=> Occurs(pattern, text, i)
    BY OccursIs
  <1>2. at \in SUBSET Nat
    <2>1. Len(text) \in Nat
      BY SeqFacts
    <2>. HIDE DEF at
    <2>. QED BY <1>1, <2>1 DEF Occurs
  <1>3. at # {} => least \in at /\ \A x \in at : least <= x
    <2>. HIDE DEF at
    <2>. QED BY <1>2, LeastOf
  <1>. HIDE DEF at, least
  <1>4. ASSUME NEW n, FirstAt(pattern, text, n) PROVE at # {} /\ least = n
    <2>1. n \in at /\ \A i \in 1 .. n - 1 : i \notin at
      BY <1>1, <1>4 DEF FirstAt
    <2>2. least \in Nat /\ n \in Nat /\ least <= n /\ least \in at
      BY <1>2, <1>3, <2>1
    <2>3. least # 0
      <3>1. least \in 1 .. Len(text) /\ Len(text) \in Nat
        BY <1>1, <2>2, SeqFacts DEF Occurs
      <3>. QED BY <3>1
    <2>4. least \notin 1 .. n - 1
      BY <2>1, <2>2
    <2>5. least = n
      BY <2>2, <2>3, <2>4
    <2>. QED BY <2>1, <2>5
  <1>5. ASSUME at # {} PROVE FirstAt(pattern, text, least)
    <2>1. least \in at /\ \A x \in at : least <= x
      BY <1>3, <1>5
    <2>2. \A i \in 1 .. least - 1 : i \notin at
      BY <1>2, <2>1
    <2>. QED BY <1>1, <2>1, <2>2 DEF FirstAt
  <1>. QED BY <1>4, <1>5 DEF at, least

LEMMA FirstStays ==
  ASSUME NEW pattern, IsSeq(pattern), Len(pattern) # 0, NEW text, IsSeq(text), NEW x, IsSeq(x), NEW n,
         FirstAt(pattern, text, n)
  PROVE  FirstAt(pattern, text \o x, n)
  <1>. DEFINE t == text \o x
  <1>1. Occurs(pattern, text, n) /\ \A i \in 1 .. n - 1 : ~Occurs(pattern, text, i)
    BY DEF FirstAt
  <1>2. /\ n \in 1 .. Len(text) /\ (n - 1) + Len(pattern) <= Len(text) /\ Len(text) \in Nat
        /\ Len(pattern) \in Nat
    BY <1>1, SeqFacts DEF Occurs
  <1>3. Occurs(pattern, t, n)
    BY <1>1, OccursLonger
  <1>4. ASSUME NEW i \in 1 .. n - 1 PROVE ~Occurs(pattern, t, i)
    <2>1. (i - 1) + Len(pattern) <= Len(text)
      BY <1>2
    <2>. QED BY <1>1, <2>1, OccursLonger
  <1>. HIDE DEF t
  <1>5. FirstAt(pattern, t, n)
    BY <1>3, <1>4 DEF FirstAt
  <1>. QED BY <1>5 DEF t
-----------------------------------------------------------------------------
(* The block of a text, told piece by piece.                               *)
LEMMA OpenBlock ==
  ASSUME NEW text, IsSeq(text), NEW tag \in BlockTags(text),
         Occurrences(CloseTag(tag), RestOf(tag, text)) = {}
  PROVE  BlockOf(text) = [tag |-> tag, thinking |-> RestOf(tag, text), content |-> <<>>]
  <1>1. (CHOOSE t \in BlockTags(text) : TRUE) = tag
    BY TheTag
  <1>. QED BY <1>1 DEF BlockOf, RestOf

LEMMA ClosedBlock ==
  ASSUME NEW text, IsSeq(text), NEW tag \in BlockTags(text), NEW n,
         FirstAt(CloseTag(tag), RestOf(tag, text), n)
  PROVE  BlockOf(text) = [tag |-> tag, thinking |-> SubSeq(RestOf(tag, text), 1, n - 1),
                          content |-> From(RestOf(tag, text), n + Len(CloseTag(tag)))]
  <1>1. (CHOOSE t \in BlockTags(text) : TRUE) = tag
    BY TheTag
  <1>2. tag \in OpenTags /\ IsSeq(RestOf(tag, text))
    BY TagLeaves
  <1>3. IsSeq(CloseTag(tag))
    BY <1>2, CloseTagIsSeq
  <1>. DEFINE at == Occurrences(CloseTag(tag), RestOf(tag, text))
  <1>4. at # {} /\ Min(at) = n
    BY <1>2, <1>3, FirstIsLeast
  <1>5. BlockOf(text) =
          IF at = {} THEN [tag |-> tag, thinking |-> RestOf(tag, text), content |-> <<>>]
          ELSE [tag |-> tag, thinking |-> SubSeq(RestOf(tag, text), 1, Min(at) - 1),
                content |-> From(RestOf(tag, text), Min(at) + Len(CloseTag(tag)))]
    BY <1>1 DEF BlockOf, RestOf
  <1>. HIDE DEF at
  <1>. QED BY <1>4, <1>5

LEMMA HeadsJoin ==
  ASSUME NEW s, IsSeq(s), NEW n \in 0 .. Len(s), NEW k \in 0 .. Len(s) - n
  PROVE  SubSeq(s, 1, n) \o SubSeq(From(s, n + 1), 1, k) = SubSeq(s, 1, n + k)
  <1>. DEFINE m == n + 1
              a == SubSeq(s, 1, n)
              t == From(s, m)
              b == SubSeq(t, 1, k)
              whole == SubSeq(s, 1, n + k)
  <1>1. /\ Len(s) \in Nat /\ n \in Nat /\ k \in Nat /\ n + k \in 0 .. Len(s)
        /\ m \in 1 .. Len(s) + 1 /\ m - 1 = n /\ (Len(s) - m) + 1 = Len(s) - n
    BY SeqFacts
  <1>2. IsSeq(a) /\ Len(a) = n /\ \A i \in 1 .. n : a[i] = s[i]
    BY <1>1, HeadFacts
  <1>3. IsSeq(t) /\ Len(t) = Len(s) - n /\ \A i \in 1 .. Len(s) - n : t[i] = s[n + i]
    <2>1. IsSeq(t) /\ Len(t) = (Len(s) - m) + 1 /\ \A i \in 1 .. (Len(s) - m) + 1 : t[i] = s[(m - 1) + i]
      <3>. HIDE DEF m
      <3>. QED BY <1>1, FromFacts
    <2>. HIDE DEF m, t
    <2>. QED BY <1>1, <2>1
  <1>4. IsSeq(whole) /\ Len(whole) = n + k /\ \A i \in 1 .. n + k : whole[i] = s[i]
    <2>. DEFINE e == n + k
    <2>1. e \in 0 .. Len(s)
      BY <1>1
    <2>. HIDE DEF e
    <2>2. LET u == SubSeq(s, 1, e) IN IsSeq(u) /\ Len(u) = e /\ \A i \in 1 .. e : u[i] = s[i]
      BY <2>1, HeadFacts
    <2>. QED BY <2>2 DEF e
  <1>. HIDE DEF t, m
  <1>5. IsSeq(b) /\ Len(b) = k /\ \A i \in 1 .. k : b[i] = t[i]
    <2>1. k \in 0 .. Len(t)
      BY <1>3
    <2>. QED BY <1>3, <2>1, HeadFacts
  <1>. HIDE DEF a, b, whole
  <1>. DEFINE c == a \o b
  <1>6. /\ IsSeq(c) /\ Len(c) = Len(a) + Len(b) /\ (\A i \in 1 .. Len(a) : c[i] = a[i])
        /\ \A i \in 1 .. Len(b) : c[Len(a) + i] = b[i]
    <2>1. IsSeq(a) /\ IsSeq(b)
      BY <1>2, <1>5
    <2>. QED BY <2>1, ConcatFacts
  <1>. HIDE DEF c
  <1>7. ASSUME NEW i \in 1 .. n + k PROVE c[i] = whole[i]
    <2>1. CASE i <= n
      BY <1>1, <1>2, <1>4, <1>6, <2>1
    <2>2. CASE ~ (i <= n)
      <3>. DEFINE j == i - n
      <3>1. j \in 1 .. k /\ i = n + j /\ j \in 1 .. Len(s) - n
        BY <1>1, <2>2
      <3>. HIDE DEF j
      <3>2. c[n + j] = b[j]
        BY <1>2, <1>5, <1>6, <3>1
      <3>3. b[j] = s[n + j]
        BY <1>3, <1>5, <3>1
      <3>. QED BY <1>4, <3>1, <3>2, <3>3
    <2>. QED BY <2>1, <2>2
  <1>8. c = whole
    <2>1. IsSeq(c) /\ IsSeq(whole) /\ Len(c) = Len(whole)
      BY <1>2, <1>4, <1>5, <1>6
    <2>2. \A i \in 1 .. Len(c) : c[i] = whole[i]
      BY <1>4, <1>7, <2>1
    <2>. QED BY <2>1, <2>2, EqualSeqs
  <1>. QED BY <1>8 DEF c, a, b, whole, t, m

\* The thinking of a block that has begun, and of one that is closed, as shown.
Output(handling, tag, text) ==
  IF text = <<>> \/ handling = "remove" THEN <<>>
  ELSE IF handling = "pass" THEN tag \o text ELSE text

WholeOutput(handling, tag, text) ==
  IF text = <<>> \/ handling = "remove" THEN <<>>
  ELSE IF handling = "pass" THEN tag \o text \o CloseTag(tag) ELSE text

\* After the text a, with which p began, b is shown as its end.
Begins(p, a) == p.first <=> a = <<>>

Joins(p, a, b) ==
  /\ Output(p.handling, p.openTag, a) \o ProcessThinkingOutput(p, b, FALSE)
       = Output(p.handling, p.openTag, a \o b)
  /\ (b = <<>> => a = <<>>) =>
       Output(p.handling, p.openTag, a) \o ProcessThinkingOutput(p, b, TRUE)
         = WholeOutput(p.handling, p.openTag, a \o b)

LEMMA OutputJoins ==
  ASSUME NEW p, IsThinking(p), p.openTag \in OpenTags, NEW a, IsSeq(a), NEW b, IsSeq(b), Begins(p, a)
  PROVE  Joins(p, a, b)
  <1>. DEFINE tag == p.openTag
              close == CloseTag(tag)
              before == IF p.first THEN tag ELSE <<>>
  <1>1. IsSeq(tag) /\ IsSeq(close) /\ IsSeq(<<>>) /\ <<>> \o <<>> = <<>>
    BY OpenTagIsSeq, CloseTagIsSeq, ShortSeqs, ConcatNone
  <1>2. (a = <<>> => before = tag) /\ (a # <<>> => before = <<>>)
    BY DEF Begins
  <1>. DEFINE open(t) == ProcessThinkingOutput(p, t, FALSE)
              last(t) == ProcessThinkingOutput(p, t, TRUE)
  <1>3. /\ open(b) = IF b = <<>> \/ p.handling = "remove" THEN <<>>
                     ELSE IF p.handling = "pass" THEN (before \o b) \o <<>> ELSE b
        /\ last(b) = IF b = <<>> \/ p.handling = "remove" THEN <<>>
                     ELSE IF p.handling = "pass" THEN (before \o b) \o close ELSE b
    BY DEF ProcessThinkingOutput
  <1>4. a \o <<>> = a /\ <<>> \o b = b /\ b \o <<>> = b /\ <<>> \o a = a
    BY ConcatNone
  <1>5. (a \o b = <<>>) <=> (a = <<>> /\ b = <<>>)
    <2>1. Len(a) \in Nat /\ Len(b) \in Nat /\ (a = <<>> <=> Len(a) = 0) /\ (b = <<>> <=> Len(b) = 0)
      BY SeqFacts
    <2>. DEFINE c == a \o b
    <2>2. IsSeq(c) /\ Len(c) = Len(a) + Len(b)
      BY ConcatFacts
    <2>. HIDE DEF c
    <2>3. c = <<>> <=> Len(c) = 0
      BY <2>2, SeqFacts
    <2>4. c = <<>> <=> (a = <<>> /\ b = <<>>)
      BY <2>1, <2>2, <2>3
    <2>. QED BY <2>4 DEF c
  <1>. DEFINE shown(t) == Output(p.handling, tag, t)
              whole(t) == WholeOutput(p.handling, tag, t)
  <1>6. \A t : /\ shown(t) = IF t = <<>> \/ p.handling = "remove" THEN <<>>
                             ELSE IF p.handling = "pass" THEN tag \o t ELSE t
               /\ whole(t) = IF t = <<>> \/ p.handling = "remove" THEN <<>>
                             ELSE IF p.handling = "pass" THEN (tag \o t) \o close ELSE t
    BY DEF Output, WholeOutput
  <1>7. IsSeq(tag \o a) /\ IsSeq(tag \o b) /\ IsSeq(b \o close)
    BY <1>1, ConcatFacts
  <1>8. /\ (tag \o a) \o b = tag \o (a \o b)
        /\ (tag \o a) \o (b \o close) = ((tag \o a) \o b) \o close
        /\ (tag \o b) \o <<>> = tag \o b /\ (tag \o a) \o <<>> = tag \o a
    <2>1. (tag \o a) \o b = tag \o (a \o b)
      <3>1. IsSeq(tag)
        BY <1>1
      <3>. HIDE DEF tag, before
      <3>. QED BY <3>1, ConcatAssociates
    <2>2. (tag \o a) \o (b \o close) = ((tag \o a) \o b) \o close
      <3>. DEFINE u == tag \o a
      <3>1. IsSeq(u) /\ IsSeq(close)
        BY <1>1, <1>7
      <3>. HIDE DEF tag, close, before, u
      <3>2. (u \o b) \o close = u \o (b \o close)
        BY SMTT(60), <3>1, ConcatAssociates
      <3>. QED BY <3>2 DEF u
    <2>3. (tag \o b) \o <<>> = tag \o b /\ (tag \o a) \o <<>> = tag \o a
      BY <1>7, ConcatNone
    <2>. QED BY <2>1, <2>2, <2>3
  <1>9. IsSeq((tag \o b) \o close) /\ IsSeq(tag \o a)
    BY <1>1, <1>7, ConcatFacts
  <1>10. <<>> \o ((tag \o b) \o close) = (tag \o b) \o close /\ <<>> \o (tag \o b) = tag \o b
    BY <1>7, <1>9, ConcatNone
  <1>. HIDE DEF open, last, shown, whole, before, close, tag
  <1>11. shown(a) \o open(b) = shown(a \o b)
    <2>1. CASE b = <<>>
      <3>1. open(b) = <<>>
        BY <1>3, <2>1
      <3>2. shown(a) \in {<<>>, tag \o a, a}
        BY <1>6
      <3>3. shown(a) \o <<>> = shown(a)
        BY <1>1, <1>4, <1>8, <3>2
      <3>. QED BY <1>4, <2>1, <3>1, <3>3
    <2>2. CASE b # <<>> /\ p.handling = "remove"
      <3>1. open(b) = <<>> /\ shown(a) = <<>> /\ shown(a \o b) = <<>>
        BY <1>3, <1>6, <2>2
      <3>. QED BY <1>1, <3>1
    <2>3. CASE b # <<>> /\ p.handling # "remove" /\ a = <<>>
      <3>1. shown(a) = <<>> /\ a \o b = b /\ before = tag
        BY <1>2, <1>4, <1>6, <2>3
      <3>2. CASE p.handling = "pass"
        <4>1. open(b) = (tag \o b) \o <<>> /\ shown(b) = tag \o b
          BY <1>3, <1>6, <2>3, <3>1, <3>2
        <4>. QED BY <1>8, <1>10, <3>1, <4>1
      <3>3. CASE p.handling # "pass"
        <4>1. open(b) = b /\ shown(b) = b
          BY <1>3, <1>6, <2>3, <3>3
        <4>. QED BY <1>4, <3>1, <4>1
      <3>. QED BY <3>2, <3>3
    <2>4. CASE b # <<>> /\ p.handling # "remove" /\ a # <<>>
      <3>1. before = <<>> /\ a \o b # <<>>
        BY <1>2, <1>5, <2>4
      <3>2. CASE p.handling = "pass"
        <4>1. open(b) = (<<>> \o b) \o <<>> /\ shown(a) = tag \o a /\ shown(a \o b) = tag \o (a \o b)
          BY <1>3, <1>6, <2>4, <3>1, <3>2
        <4>. QED BY <1>4, <1>8, <4>1
      <3>3. CASE p.handling # "pass"
        <4>1. open(b) = b /\ shown(a) = a /\ shown(a \o b) = a \o b
          BY <1>3, <1>6, <2>4, <3>1, <3>3
        <4>. QED BY <4>1
      <3>. QED BY <3>2, <3>3
    <2>. QED BY <2>1, <2>2, <2>3, <2>4
  <1>12. ASSUME b = <<>> => a = <<>> PROVE shown(a) \o last(b) = whole(a \o b)
    <2>1. CASE b = <<>>
      <3>1. last(b) = <<>> /\ a = <<>> /\ shown(a) = <<>> /\ whole(a) = <<>>
        BY <1>3, <1>6, <1>12, <2>1
      <3>. QED BY <1>1, <2>1, <3>1
    <2>2. CASE b # <<>> /\ p.handling = "remove"
      <3>1. last(b) = <<>> /\ shown(a) = <<>> /\ whole(a \o b) = <<>>
        BY <1>3, <1>6, <2>2
      <3>. QED BY <1>1, <3>1
    <2>3. CASE b # <<>> /\ p.handling # "remove" /\ a = <<>>
      <3>1. shown(a) = <<>> /\ a \o b = b /\ before = tag
        BY <1>2, <1>4, <1>6, <2>3
      <3>2. CASE p.handling = "pass"
        <4>1. last(b) = (tag \o b) \o close /\ whole(b) = (tag \o b) \o close
          BY <1>3, <1>6, <2>3, <3>1, <3>2
        <4>. QED BY <1>10, <3>1, <4>1
      <3>3. CASE p.handling # "pass"
        <4>1. last(b) = b /\ whole(b) = b
          BY <1>3, <1>6, <2>3, <3>3
        <4>. QED BY <1>4, <3>1, <4>1
      <3>. QED BY <3>2, <3>3
    <2>4. CASE b # <<>> /\ p.handling # "remove" /\ a # <<>>
      <3>1. before = <<>> /\ a \o b # <<>>
        BY <1>2, <1>5, <2>4
      <3>2. CASE p.handling = "pass"
        <4>1. /\ last(b) = (<<>> \o b) \o close /\ shown(a) = tag \o a
              /\ whole(a \o b) = (tag \o (a \o b)) \o close
          BY <1>3, <1>6, <2>4, <3>1, <3>2
        <4>. QED BY <1>4, <1>8, <4>1
      <3>3. CASE p.handling # "pass"
        <4>1. last(b) = b /\ shown(a) = a /\ whole(a \o b) = a \o b
          BY <1>3, <1>6, <2>4, <3>1, <3>3
        <4>. QED BY <4>1
      <3>. QED BY <3>2, <3>3
    <2>. QED BY <2>1, <2>2, <2>3, <2>4
  <1>. QED BY <1>11, <1>12 DEF Joins, shown, whole, open, last, tag

LEMMA ThinkingIsWhole ==
  ASSUME NEW text, NEW handling, NEW tag, BlockTags(text) # {}, BlockOf(text).tag = tag
  PROVE  ThinkingOf(handling, text) = WholeOutput(handling, tag, BlockOf(text).thinking)
  BY DEF ThinkingOf, WholeOutput

-----------------------------------------------------------------------------
(* The thinking parser has made T and C of the text S.                     *)

\* Inside the block: the first n characters after the tag have been told.
Half(p, S, n) ==
  /\ p.openTag \in BlockTags(S) /\ n \in 0 .. Len(RestOf(p.openTag, S))
  /\ p.thinkingBuffer = From(RestOf(p.openTag, S), n + 1)
  /\ p.first <=> n = 0
  /\ n > 0 => Len(p.thinkingBuffer) >= MaxTagLength

\* The closing tag is not among them.
NotYet(p, S, n) ==
  \A i : Occurs(CloseTag(p.openTag), RestOf(p.openTag, S), i) => i > n /\ (n > 0 => i > n + 1)

ShownPart(p, S, n) == Output(p.handling, p.openTag, SubSeq(RestOf(p.openTag, S), 1, n))

Inside(p, S, T) ==
  \E n : /\ Half(p, S, n) /\ T = ShownPart(p, S, n)
         /\ \A i : ~Occurs(CloseTag(p.openTag), RestOf(p.openTag, S), i)

\* After the block, or without one.
Passed(S, C) ==
  \/ Untagged(S) /\ C = S
  \/ \E tag \in BlockTags(S) : \E n :
       FirstAt(CloseTag(tag), RestOf(tag, S), n) /\ C \in LeftTrims(ContentOf(S))

HasRead(p, S, T, C) ==
  /\ p.state = "PreContent" =>
       /\ p.initialBuffer = S /\ p.thinkingBuffer = <<>> /\ p.first
       /\ BlockTags(S) = {} /\ T = <<>> /\ C = <<>>
  /\ p.state = "InThinking" => Inside(p, S, T) /\ C = <<>>
  /\ p.state = "Streaming" => T = ThinkingOf(p.handling, S) /\ Passed(S, C)

\* What is told together with what was.
PartsJoined(p, S, n, k) ==
  LET rest == RestOf(p.openTag, S)
      b == SubSeq(p.thinkingBuffer, 1, k)
  IN  /\ ShownPart(p, S, n) \o ProcessThinkingOutput(p, b, FALSE)
           = Output(p.handling, p.openTag, SubSeq(rest, 1, n + k))
      /\ (k = 0 => n = 0) =>
           ShownPart(p, S, n) \o ProcessThinkingOutput(p, b, TRUE)
             = WholeOutput(p.handling, p.openTag, SubSeq(rest, 1, n + k))

LEMMA PartsJoin ==
  ASSUME NEW p, IsThinking(p), NEW S, IsSeq(S), NEW n, Half(p, S, n),
         NEW k \in 0 .. Len(p.thinkingBuffer)
  PROVE  PartsJoined(p, S, n, k)
  <1>. DEFINE tag == p.openTag
              rest == RestOf(tag, S)
              buffer == p.thinkingBuffer
              a == SubSeq(rest, 1, n)
              b == SubSeq(buffer, 1, k)
  <1>1. tag \in BlockTags(S) /\ n \in 0 .. Len(rest) /\ buffer = From(rest, n + 1) /\ (p.first <=> n = 0)
    BY DEF Half
  <1>2. tag \in OpenTags /\ IsSeq(rest)
    BY <1>1, TagLeaves
  <1>3. IsSeq(a) /\ Len(a) = n
    <2>. HIDE DEF rest
    <2>. QED BY <1>1, <1>2, HeadFacts
  <1>4. a = <<>> <=> n = 0
    <2>. HIDE DEF a
    <2>. QED BY <1>3, SeqFacts
  <1>5. IsSeq(buffer) /\ Len(buffer) = Len(rest) - n
    <2>. DEFINE m == n + 1
    <2>. HIDE DEF rest, buffer
    <2>1. m \in 1 .. Len(rest) + 1 /\ (Len(rest) - m) + 1 = Len(rest) - n
      BY <1>1, <1>2, SeqFacts
    <2>2. buffer = From(rest, m)
      BY <1>1
    <2>. HIDE DEF m
    <2>. QED BY <1>2, <2>1, <2>2, FromFacts
  <1>6. IsSeq(b) /\ Len(b) = k
    <2>. HIDE DEF buffer
    <2>1. k \in 0 .. Len(buffer)
      BY DEF buffer
    <2>. QED BY <1>5, <2>1, HeadFacts
  <1>7. b = <<>> <=> k = 0
    <2>. HIDE DEF b
    <2>. QED BY <1>6, SeqFacts
  <1>8. a \o b = SubSeq(rest, 1, n + k)
    <2>1. b = SubSeq(From(rest, n + 1), 1, k) /\ k \in 0 .. Len(rest) - n
      BY <1>1, <1>5
    <2>. HIDE DEF rest, b
    <2>. QED BY <1>1, <1>2, <2>1, HeadsJoin
  <1>. HIDE DEF a, b, rest
  <1>9. /\ Output(p.handling, tag, a) \o ProcessThinkingOutput(p, b, FALSE)
             = Output(p.handling, tag, a \o b)
        /\ (b = <<>> => a = <<>>) =>
             Output(p.handling, tag, a) \o ProcessThinkingOutput(p, b, TRUE)
               = WholeOutput(p.handling, tag, a \o b)
    <2>1. Begins(p, a)
      BY <1>1, <1>4 DEF Begins
    <2>2. IsSeq(a) /\ IsSeq(b)
      BY <1>3, <1>6
    <2>3. p.openTag \in OpenTags
      BY <1>2
    <2>4. Joins(p, a, b)
      BY <2>1, <2>2, <2>3, OutputJoins
    <2>. QED BY <2>4 DEF Joins
  <1>10. ShownPart(p, S, n) = Output(p.handling, tag, a)
    BY DEF ShownPart, a, rest
  <1>. HIDE DEF tag
  <1>11. /\ ShownPart(p, S, n) \o ProcessThinkingOutput(p, b, FALSE)
              = Output(p.handling, tag, SubSeq(rest, 1, n + k))
         /\ (k = 0 => n = 0) =>
              ShownPart(p, S, n) \o ProcessThinkingOutput(p, b, TRUE)
                = WholeOutput(p.handling, tag, SubSeq(rest, 1, n + k))
    BY <1>4, <1>7, <1>8, <1>9, <1>10
  <1>. QED BY <1>11 DEF PartsJoined, tag, rest, b

LEMMA ShownPartIsSeq ==
  ASSUME NEW p, IsThinking(p), NEW S, IsSeq(S), NEW n, Half(p, S, n)
  PROVE  IsSeq(ShownPart(p, S, n)) /\ p.openTag \in OpenTags
  <1>. DEFINE tag == p.openTag
              rest == RestOf(tag, S)
              a == SubSeq(rest, 1, n)
  <1>1. tag \in BlockTags(S) /\ n \in 0 .. Len(rest)
    BY DEF Half
  <1>2. tag \in OpenTags /\ IsSeq(rest)
    BY <1>1, TagLeaves
  <1>3. IsSeq(a)
    <2>. HIDE DEF rest
    <2>. QED BY <1>1, <1>2, HeadFacts
  <1>. HIDE DEF a
  <1>4. IsSeq(tag \o a)
    <2>1. IsSeq(tag)
      BY <1>2, OpenTagIsSeq
    <2>. HIDE DEF tag
    <2>. QED BY <1>3, <2>1, ConcatFacts
  <1>5. ShownPart(p, S, n) \in {<<>>, tag \o a, a}
    BY DEF ShownPart, Output, a
  <1>6. IsSeq(<<>>)
    BY ShortSeqs
  <1>. HIDE DEF tag
  <1>. QED BY <1>2, <1>3, <1>4, <1>5, <1>6 DEF tag

\* The closing tag in the buffer is the one of the text.
LEMMA BufferCloses ==
  ASSUME NEW p, IsThinking(p), NEW S, IsSeq(S), NEW n, Half(p, S, n), NotYet(p, S, n)
  PROVE  LET close == CloseTag(p.openTag)
             rest == RestOf(p.openTag, S)
         IN  /\ \A j : FirstAt(close, p.thinkingBuffer, j) =>
                   FirstAt(close, rest, n + j) /\ (n > 0 => j > 1) /\ j \in 1 .. Len(p.thinkingBuffer)
                     /\ (j - 1) + Len(close) <= Len(p.thinkingBuffer)
             /\ (\A j : ~Occurs(close, p.thinkingBuffer, j)) => \A i : ~Occurs(close, rest, i)
  <1>. DEFINE tag == p.openTag
              rest == RestOf(tag, S)
              buffer == p.thinkingBuffer
              close == CloseTag(tag)
  <1>1. tag \in BlockTags(S) /\ n \in 0 .. Len(rest) /\ buffer = From(rest, n + 1)
    BY DEF Half
  <1>2. tag \in OpenTags /\ IsSeq(rest)
    BY <1>1, TagLeaves
  <1>3. IsSeq(close)
    BY <1>2, CloseTagIsSeq
  <1>4. Len(rest) \in Nat /\ n \in Nat
    <2>. HIDE DEF rest
    <2>. QED BY <1>1, <1>2, SeqFacts
  <1>5. \A i : Occurs(close, rest, i) => i > n /\ (n > 0 => i > n + 1)
    BY DEF NotYet
  <1>. HIDE DEF buffer, close, rest, tag
  <1>6. ASSUME NEW j \in Nat \ {0} PROVE Occurs(close, buffer, j) <=> Occurs(close, rest, n + j)
    BY <1>1, <1>2, <1>3, OccursInEnd
  <1>7. \A i : Occurs(close, rest, i) => i \in Nat
    BY <1>4 DEF Occurs
  <1>8. ASSUME NEW j, FirstAt(close, buffer, j)
        PROVE  /\ FirstAt(close, rest, n + j) /\ (n > 0 => j > 1) /\ j \in 1 .. Len(buffer)
               /\ (j - 1) + Len(close) <= Len(buffer)
    <2>1. Occurs(close, buffer, j) /\ \A i \in 1 .. j - 1 : ~Occurs(close, buffer, i)
      BY <1>8 DEF FirstAt
    <2>2. j \in 1 .. Len(buffer) /\ (j - 1) + Len(close) <= Len(buffer)
      BY <2>1 DEF Occurs
    <2>3. j \in Nat \ {0}
      <3>1. Len(buffer) \in Nat
        BY SeqFacts DEF IsThinking, buffer
      <3>. QED BY <2>2, <3>1
    <2>4. Occurs(close, rest, n + j)
      BY <1>6, <2>1, <2>3
    <2>5. n > 0 => j > 1
      BY <1>4, <1>5, <2>3, <2>4
    <2>6. ASSUME NEW i \in 1 .. (n + j) - 1, Occurs(close, rest, i) PROVE FALSE
      <3>. DEFINE k == i - n
      <3>1. k \in 1 .. j - 1 /\ k \in Nat \ {0} /\ i = n + k
        BY <1>4, <1>5, <2>3, <2>6
      <3>. HIDE DEF k
      <3>. QED BY <1>6, <2>1, <2>6, <3>1
    <2>. QED BY <2>2, <2>4, <2>5, <2>6 DEF FirstAt
  <1>9. ASSUME \A j : ~Occurs(close, buffer, j), NEW i, Occurs(close, rest, i) PROVE FALSE
    <2>. DEFINE k == i - n
    <2>1. k \in Nat \ {0} /\ i = n + k
      BY <1>4, <1>5, <1>7, <1>9
    <2>. HIDE DEF k
    <2>. QED BY <1>6, <1>9, <2>1
  <1>. QED BY <1>8, <1>9 DEF buffer, close, rest, tag

LEMMA BufferReads ==
  ASSUME NEW p, IsThinking(p), p.state = "InThinking", NEW S, IsSeq(S), NEW n,
         Half(p, S, n), NotYet(p, S, n)
  PROVE  LET r == ProcessThinkingBuffer(p)
         IN  HasRead(r.parser, S, ShownPart(p, S, n) \o r.thinking, r.content)
  <1>. DEFINE tag    == p.openTag
              rest   == RestOf(tag, S)
              buffer == p.thinkingBuffer
              close  == CloseTag(tag)
              closes == Occurrences(close, buffer)
              kept   == Len(buffer) - MaxTagLength
              shown  == ShownPart(p, S, n)
              r      == ProcessThinkingBuffer(p)
  <1>1. /\ tag \in BlockTags(S) /\ n \in 0 .. Len(rest) /\ buffer = From(rest, n + 1)
        /\ (n > 0 => Len(buffer) >= MaxTagLength)
    BY DEF Half
  <1>2. tag \in OpenTags /\ IsSeq(rest) /\ IsSeq(shown)
    BY <1>1, TagLeaves, ShownPartIsSeq
  <1>3. IsSeq(close) /\ Len(close) \in Nat /\ MaxTagLength \in Nat
    BY <1>2, CloseTagIsSeq, TagLengths, OpenTagIsSeq
  <1>4. IsSeq(buffer) /\ Len(buffer) \in Nat
    BY SeqFacts DEF IsThinking
  <1>5. Len(rest) \in Nat /\ n \in Nat /\ Len(buffer) = Len(rest) - n
    <2>. DEFINE m == n + 1
    <2>. HIDE DEF rest, buffer
    <2>1. Len(rest) \in Nat
      BY <1>2, SeqFacts
    <2>2. m \in 1 .. Len(rest) + 1 /\ (Len(rest) - m) + 1 = Len(rest) - n
      BY <1>1, <2>1
    <2>3. buffer = From(rest, m)
      BY <1>1
    <2>. HIDE DEF m
    <2>4. Len(buffer) = (Len(rest) - m) + 1
      BY <1>2, <2>2, <2>3, FromFacts
    <2>. QED BY <1>1, <2>1, <2>2, <2>4
  <1>6. /\ \A j : FirstAt(close, buffer, j) =>
              FirstAt(close, rest, n + j) /\ (n > 0 => j > 1) /\ j \in 1 .. Len(buffer)
                /\ (j - 1) + Len(close) <= Len(buffer)
        /\ (\A j : ~Occurs(close, buffer, j)) => \A i : ~Occurs(close, rest, i)
    BY BufferCloses
  <1>7. ASSUME NEW k \in 0 .. Len(buffer)
        PROVE  /\ shown \o ProcessThinkingOutput(p, SubSeq(buffer, 1, k), FALSE)
                    = Output(p.handling, tag, SubSeq(rest, 1, n + k))
               /\ (k = 0 => n = 0) =>
                    shown \o ProcessThinkingOutput(p, SubSeq(buffer, 1, k), TRUE)
                      = WholeOutput(p.handling, tag, SubSeq(rest, 1, n + k))
    <2>1. PartsJoined(p, S, n, k)
      BY PartsJoin
    <2>. QED BY <2>1 DEF PartsJoined
  <1>8. HasRead(r.parser, S, shown \o r.thinking, r.content)
    <2>1. CASE closes # {}
      <3>. DEFINE m == Min(closes)
                  left == From(buffer, m + Len(close))
      <3>1. FirstAt(close, buffer, m)
        <4>. HIDE DEF buffer, close
        <4>. QED BY <1>3, <1>4, <2>1, FirstIsLeast
      <3>2. r = Parsed([p EXCEPT !.state = "Streaming", !.thinkingBuffer = <<>>, !.first = FALSE],
                       ProcessThinkingOutput(p, SubSeq(buffer, 1, m - 1), TRUE), TrimLeft(left))
        BY <2>1 DEF ProcessThinkingBuffer
      <3>. HIDE DEF m, closes, r
      <3>3. /\ FirstAt(close, rest, n + m) /\ (n > 0 => m > 1) /\ m \in 1 .. Len(buffer)
            /\ (m - 1) + Len(close) <= Len(buffer)
        <4>. HIDE DEF buffer, close, rest
        <4>. QED BY <1>6, <3>1
      <3>4. BlockOf(S) = [tag |-> tag, thinking |-> SubSeq(rest, 1, (n + m) - 1),
                          content |-> From(rest, (n + m) + Len(close))]
        <4>. DEFINE at == n + m
        <4>1. FirstAt(close, rest, at)
          BY <3>3
        <4>. HIDE DEF at
        <4>2. BlockOf(S) = [tag |-> tag, thinking |-> SubSeq(rest, 1, at - 1),
                            content |-> From(rest, at + Len(close))]
          <5>. HIDE DEF tag
          <5>. QED BY <1>1, <4>1, ClosedBlock
        <4>. QED BY <4>2 DEF at
      <3>5. ThinkingOf(p.handling, S) = shown \o ProcessThinkingOutput(p, SubSeq(buffer, 1, m - 1), TRUE)
        <4>. DEFINE k == m - 1
                    text == SubSeq(rest, 1, n + k)
        <4>1. k \in 0 .. Len(buffer) /\ (k = 0 => n = 0) /\ n + k = (n + m) - 1
          <5>. HIDE DEF buffer, rest, close
          <5>. QED BY <1>4, <1>5, <3>3
        <4>2. BlockOf(S).thinking = text /\ BlockOf(S).tag = tag
          <5>1. text = SubSeq(rest, 1, (n + m) - 1)
            <6>. HIDE DEF k, rest
            <6>. QED BY <4>1, Zenon
          <5>. DEFINE x == SubSeq(rest, 1, (n + m) - 1)
                      y == From(rest, (n + m) + Len(close))
          <5>2. BlockOf(S) = [tag |-> tag, thinking |-> x, content |-> y]
            BY <3>4
          <5>3. text = x
            BY <5>1
          <5>. HIDE DEF text, tag, x, y
          <5>. QED BY <5>2, <5>3
        <4>. HIDE DEF k
        <4>3. shown \o ProcessThinkingOutput(p, SubSeq(buffer, 1, k), TRUE)
                = WholeOutput(p.handling, tag, text)
          BY <1>7, <4>1
        <4>. HIDE DEF text, tag
        <4>4. ThinkingOf(p.handling, S) = WholeOutput(p.handling, tag, text)
          <5>1. BlockTags(S) # {}
            BY <1>1
          <5>2. ThinkingOf(p.handling, S) = WholeOutput(p.handling, tag, BlockOf(S).thinking)
            BY <4>2, <5>1, ThinkingIsWhole
          <5>. QED BY <4>2, <5>2
        <4>. QED BY <4>3, <4>4 DEF k
      <3>6. left = From(rest, (n + m) + Len(close)) /\ IsSeq(left)
        <4>. DEFINE a == n + 1
                    b == m + Len(close)
        <4>1. /\ a \in 1 .. Len(rest) + 1 /\ b \in 1 .. (Len(rest) - a) + 2
              /\ (a - 1) + b = (n + m) + Len(close) /\ b \in 1 .. Len(buffer) + 1
          <5>. HIDE DEF buffer, rest, close
          <5>. QED BY <1>1, <1>3, <1>4, <1>5, <3>3
        <4>2. buffer = From(rest, a)
          BY <1>1
        <4>. HIDE DEF a, b, rest, buffer
        <4>3. From(From(rest, a), b) = From(rest, (a - 1) + b)
          BY <1>2, <4>1, FromOfFrom
        <4>4. IsSeq(From(buffer, b))
          BY <1>4, <4>1, FromFacts
        <4>. QED BY <4>1, <4>2, <4>3, <4>4 DEF b
      <3>7. ContentOf(S) = left
        BY <1>1, <3>4, <3>6 DEF ContentOf
      <3>. HIDE DEF left
      <3>8. TrimLeft(left) \in LeftTrims(ContentOf(S))
        BY <3>6, <3>7, TrimIsOne
      <3>9. Passed(S, TrimLeft(left))
        BY <1>1, <3>3, <3>8 DEF Passed
      <3>. DEFINE q == [p EXCEPT !.state = "Streaming", !.thinkingBuffer = <<>>, !.first = FALSE]
                  told == ProcessThinkingOutput(p, SubSeq(buffer, 1, m - 1), TRUE)
      <3>10. q.state = "Streaming" /\ q.handling = p.handling
        BY DEF IsThinking, ThinkingFields
      <3>11. r.parser = q /\ r.thinking = told /\ r.content = TrimLeft(left)
        BY <3>2 DEF Parsed
      <3>. HIDE DEF q, told, shown
      <3>12. HasRead(q, S, shown \o told, TrimLeft(left))
        <4>1. shown \o told = ThinkingOf(q.handling, S)
          BY <3>5, <3>10 DEF told
        <4>. QED BY <3>9, <3>10, <4>1 DEF HasRead
      <3>. QED BY <3>11, <3>12
    <2>2. CASE closes = {} /\ kept > 0
      <3>. DEFINE q == [p EXCEPT !.thinkingBuffer = From(buffer, kept + 1), !.first = FALSE]
                  told == ProcessThinkingOutput(p, SubSeq(buffer, 1, kept), FALSE)
                  k == n + kept
      <3>1. r = Parsed(q, told, <<>>)
        BY <2>2 DEF ProcessThinkingBuffer
      <3>2. \A i : ~Occurs(close, rest, i)
        <4>1. \A j : ~Occurs(close, buffer, j)
          <5>. HIDE DEF close, buffer
          <5>. QED BY <1>3, <1>4, <2>2, OccursIs
        <4>. HIDE DEF close, buffer, rest
        <4>. QED BY <1>6, <4>1
      <3>3. kept \in 0 .. Len(buffer) /\ kept + 1 \in 1 .. Len(buffer) + 1 /\ k \in 0 .. Len(rest)
        <4>. HIDE DEF buffer, rest
        <4>. QED BY <1>1, <1>3, <1>4, <1>5, <2>2
      <3>4. From(buffer, kept + 1) = From(rest, k + 1)
        <4>. DEFINE a == n + 1
                    b == kept + 1
        <4>1. /\ a \in 1 .. Len(rest) + 1 /\ b \in 1 .. (Len(rest) - a) + 2 /\ (a - 1) + b = k + 1
          <5>. HIDE DEF buffer, rest
          <5>. QED BY <1>1, <1>3, <1>4, <1>5, <3>3
        <4>2. buffer = From(rest, a)
          BY <1>1
        <4>. HIDE DEF a, b, rest, buffer, k
        <4>3. From(From(rest, a), b) = From(rest, (a - 1) + b)
          BY <1>2, <4>1, FromOfFrom
        <4>4. From(buffer, b) = From(rest, k + 1)
          BY <4>1, <4>2, <4>3
        <4>. QED BY <4>4 DEF b
      <3>5. Len(From(buffer, kept + 1)) = MaxTagLength
        <4>. DEFINE b == kept + 1
        <4>1. b \in 1 .. Len(buffer) + 1 /\ (Len(buffer) - b) + 1 = MaxTagLength
          <5>. HIDE DEF buffer
          <5>. QED BY <1>3, <1>4, <3>3
        <4>. HIDE DEF b, buffer
        <4>2. Len(From(buffer, b)) = (Len(buffer) - b) + 1
          BY <1>4, <4>1, FromFacts
        <4>3. Len(From(buffer, b)) = MaxTagLength
          BY <4>1, <4>2
        <4>. QED BY <4>3 DEF b
      <3>6. /\ q.state = "InThinking" /\ q.handling = p.handling /\ q.openTag = tag
            /\ q.thinkingBuffer = From(buffer, kept + 1) /\ ~q.first
        BY DEF IsThinking, ThinkingFields
      <3>7. k # 0
        BY <1>5, <2>2, <3>3
      <3>. HIDE DEF q, shown
      <3>8. shown \o told = Output(p.handling, tag, SubSeq(rest, 1, k))
        BY <1>7, <3>3
      <3>. HIDE DEF told, k
      <3>9. Half(q, S, k)
        <4>1. (q.first <=> k = 0) /\ q.openTag = tag
          BY <3>6, <3>7
        <4>2. Len(q.thinkingBuffer) >= MaxTagLength
          BY <1>3, <3>5, <3>6
        <4>3. tag \in BlockTags(S) /\ k \in 0 .. Len(rest) /\ q.thinkingBuffer = From(rest, k + 1)
          BY <1>1, <3>3, <3>4, <3>6
        <4>. HIDE DEF kept, buffer
        <4>. QED BY <4>1, <4>2, <4>3 DEF Half
      <3>10. shown \o told = ShownPart(q, S, k)
        BY <3>6, <3>8 DEF ShownPart
      <3>11. Inside(q, S, shown \o told)
        <4>1. \A i : ~Occurs(CloseTag(q.openTag), RestOf(q.openTag, S), i)
          BY <3>2, <3>6
        <4>. QED BY <3>9, <3>10, <4>1 DEF Inside
      <3>12. HasRead(q, S, shown \o told, <<>>)
        BY <3>6, <3>11 DEF HasRead
      <3>13. r.parser = q /\ r.thinking = told /\ r.content = <<>>
        <4>. HIDE DEF r
        <4>. QED BY <3>1 DEF Parsed
      <3>. HIDE DEF r
      <3>. QED BY <3>12, <3>13
    <2>3. CASE closes = {} /\ ~ (kept > 0)
      <3>1. r = Parsed(p, <<>>, <<>>)
        BY <2>3 DEF ProcessThinkingBuffer
      <3>2. r.parser = p /\ r.thinking = <<>> /\ r.content = <<>>
        <4>. HIDE DEF r
        <4>. QED BY <3>1 DEF Parsed
      <3>3. \A i : ~Occurs(close, rest, i)
        <4>1. \A j : ~Occurs(close, buffer, j)
          <5>. HIDE DEF close, buffer
          <5>. QED BY <1>3, <1>4, <2>3, OccursIs
        <4>. HIDE DEF close, buffer, rest
        <4>. QED BY <1>6, <4>1
      <3>4. shown \o <<>> = shown
        <4>. HIDE DEF shown
        <4>. QED BY <1>2, ConcatNone
      <3>5. Inside(p, S, shown)
        BY <3>3 DEF Inside
      <3>. HIDE DEF shown, r
      <3>6. HasRead(p, S, shown, <<>>)
        BY <3>5 DEF HasRead
      <3>. QED BY <3>2, <3>4, <3>6
    <2>. QED BY <2>1, <2>2, <2>3
  <1>. QED BY <1>8


LEMMA FromAll ==
  ASSUME NEW s, IsSeq(s)
  PROVE  From(s, 1) = s
  <1>. DEFINE t == From(s, 1)
  <1>1. Len(s) \in Nat /\ 1 \in 1 .. Len(s) + 1
    BY SeqFacts
  <1>2. /\ IsSeq(t) /\ Len(t) = (Len(s) - 1) + 1
        /\ \A i \in 1 .. (Len(s) - 1) + 1 : t[i] = s[(1 - 1) + i]
    BY <1>1, FromFacts
  <1>. HIDE DEF t
  <1>3. Len(t) = Len(s)
    BY <1>1, <1>2
  <1>4. \A i \in 1 .. Len(t) : t[i] = s[i]
    <2>1. \A i \in 1 .. Len(t) : i \in 1 .. (Len(s) - 1) + 1 /\ (1 - 1) + i = i
      BY <1>1, <1>3
    <2>. QED BY <1>2, <2>1
  <1>. QED BY <1>2, <1>3, <1>4, EqualSeqs DEF t

LEMMA HeadAll ==
  ASSUME NEW s, IsSeq(s)
  PROVE  SubSeq(s, 1, Len(s)) = s /\ SubSeq(s, 1, 0) = <<>>
  <1>1. From(s, 1) = s
    BY FromAll
  <1>. DEFINE t == SubSeq(s, 1, 0)
  <1>2. 0 \in 0 .. Len(s)
    BY SeqFacts
  <1>3. IsSeq(t) /\ Len(t) = 0
    BY <1>2, HeadFacts
  <1>. HIDE DEF t
  <1>4. t = <<>>
    BY <1>3, SeqFacts
  <1>. QED BY <1>1, <1>4 DEF From, t

LEMMA NothingRead ==
  TrimLeft(<<>>) = <<>> /\ BlockTags(<<>>) = {} /\ \E tag \in OpenTags : IsStrictPrefix(<<>>, tag)
  <1>. DEFINE none == <<>>
  <1>1. IsSeq(none) /\ Len(none) = 0
    BY ShortSeqs
  <1>2. TrimLeft(<<>>) = <<>>
    <2>1. {i \in DOMAIN <<>> : <<>>[i] \notin Blanks} = {}
      OBVIOUS
    <2>. QED BY <2>1 DEF TrimLeft
  <1>. HIDE DEF none
  <1>3. ASSUME NEW tag \in OpenTags PROVE ~IsPrefix(tag, none) /\ IsStrictPrefix(none, tag)
    <2>1. IsSeq(tag) /\ Len(tag) \in Nat /\ Len(tag) # 0
      BY OpenTagIsSeq, SeqFacts
    <2>2. ~IsPrefix(tag, none)
      BY <1>1, <2>1, PrefixIs
    <2>3. IsPrefix(none, tag)
      BY <1>1, <2>1, PrefixIs
    <2>4. none # tag
      BY <1>1, <2>1
    <2>. QED BY <2>2, <2>3, <2>4 DEF IsStrictPrefix
  <1>4. OpenTags # {}
    BY TagsAssumption
  <1>. QED BY <1>2, <1>3, <1>4 DEF BlockTags, none

LEMMA StartsRead ==
  ASSUME NEW handling
  PROVE  HasRead(NewThinking(handling), <<>>, <<>>, <<>>)
  BY NothingRead DEF HasRead, NewThinking

LEMMA PreContentReads ==
  ASSUME NEW p, IsThinking(p), p.state = "PreContent", NEW S, IsSeq(S), NEW x, IsSeq(x),
         HasRead(p, S, <<>>, <<>>)
  PROVE  LET r == HandlePreContent(p, x)
         IN  HasRead(r.parser, S \o x, r.thinking, r.content)
  <1>. DEFINE U == S \o x
              stripped == TrimLeft(U)
              opened   == {tag \in OpenTags : IsPrefix(tag, stripped)}
              tag      == CHOOSE t \in opened : TRUE
              r        == HandlePreContent(p, x)
  <1>1. p.initialBuffer = S /\ p.thinkingBuffer = <<>> /\ p.first
    BY DEF HasRead
  <1>2. IsSeq(U)
    BY ConcatFacts
  <1>3. opened = BlockTags(U)
    BY DEF BlockTags
  <1>4. HasRead(r.parser, U, r.thinking, r.content)
    <2>1. CASE opened # {}
      <3>. DEFINE rest == From(stripped, Len(tag) + 1)
                  q == [p EXCEPT !.state = "InThinking", !.openTag = tag, !.initialBuffer = <<>>,
                                 !.thinkingBuffer = @ \o rest]
      <3>1. tag \in BlockTags(U)
        BY <1>3, <2>1
      <3>2. r = ProcessThinkingBuffer(q)
        BY <1>1, <2>1 DEF HandlePreContent
      <3>3. rest = RestOf(tag, U)
        BY DEF RestOf
      <3>. HIDE DEF tag, r, U, rest
      <3>4. tag \in OpenTags /\ IsSeq(rest) /\ IsSeq(tag)
        BY <1>2, <3>1, <3>3, TagLeaves, OpenTagIsSeq
      <3>5. p.thinkingBuffer \o rest = rest
        BY <1>1, <3>4, ConcatNone
      <3>6. /\ IsThinking(q) /\ q.state = "InThinking" /\ q.handling = p.handling /\ q.openTag = tag
            /\ q.thinkingBuffer = rest /\ q.first
        BY <1>1, <3>4, <3>5, ShortSeqs DEF IsThinking, ThinkingFields
      <3>. HIDE DEF q
      <3>7. Half(q, U, 0)
        <4>1. 0 \in 0 .. Len(rest)
          BY <3>4, SeqFacts
        <4>2. rest = From(RestOf(tag, U), 0 + 1)
          BY <3>3, <3>4, FromAll
        <4>. QED BY <3>1, <3>3, <3>6, <4>1, <4>2 DEF Half
      <3>8. NotYet(q, U, 0)
        <4>1. \A i : Occurs(CloseTag(tag), rest, i) => i > 0
          BY <3>4, SeqFacts DEF Occurs
        <4>. QED BY <3>3, <3>6, <4>1 DEF NotYet
      <3>9. ShownPart(q, U, 0) = <<>>
        BY <3>3, <3>4, <3>6, HeadAll DEF ShownPart, Output
      <3>10. HasRead(r.parser, U, ShownPart(q, U, 0) \o r.thinking, r.content)
        BY <1>2, <3>2, <3>6, <3>7, <3>8, BufferReads
      <3>11. IsSeq(r.thinking)
        BY <3>2, <3>4, <3>6, BufferIsParsed DEF IsParsed
      <3>12. <<>> \o r.thinking = r.thinking
        BY <3>11, ConcatNone
      <3>. QED BY <3>9, <3>10, <3>12
    <2>2. CASE opened = {} /\ \E t \in OpenTags : IsStrictPrefix(stripped, t)
      <3>. DEFINE q == [p EXCEPT !.initialBuffer = U]
      <3>1. r = Parsed(q, <<>>, <<>>)
        BY <1>1, <2>2 DEF HandlePreContent
      <3>. HIDE DEF U, r
      <3>2. q.state = "PreContent" /\ q.initialBuffer = U /\ q.thinkingBuffer = <<>> /\ q.first
        BY <1>1 DEF IsThinking, ThinkingFields
      <3>. HIDE DEF q
      <3>3. HasRead(q, U, <<>>, <<>>)
        BY <1>3, <2>2, <3>2 DEF HasRead
      <3>. QED BY <3>1, <3>3 DEF Parsed
    <2>3. CASE opened = {} /\ ~ \E t \in OpenTags : IsStrictPrefix(stripped, t)
      <3>. DEFINE q == [p EXCEPT !.state = "Streaming", !.initialBuffer = <<>>]
      <3>1. r = Parsed(q, <<>>, U)
        BY <1>1, <2>3 DEF HandlePreContent
      <3>2. stripped # <<>>
        BY <2>3, NothingRead
      <3>3. Untagged(U)
        BY <1>3, <2>3, <3>2 DEF Untagged
      <3>. HIDE DEF U, r
      <3>4. q.state = "Streaming"
        BY DEF IsThinking, ThinkingFields
      <3>. HIDE DEF q
      <3>5. BlockTags(U) = {}
        BY <1>3, <2>3
      <3>6. ThinkingOf(q.handling, U) = <<>>
        BY <3>5 DEF ThinkingOf
      <3>7. HasRead(q, U, <<>>, U)
        BY <3>3, <3>4, <3>6 DEF HasRead, Passed
      <3>. QED BY <3>1, <3>7 DEF Parsed
    <2>. QED BY <2>1, <2>2, <2>3
  <1>. QED BY <1>4

\* The buffer takes more text.
Lengthens(p, q, S, U, n) ==
  /\ IsThinking(q) /\ q.state = "InThinking"
  /\ Half(q, U, n) /\ NotYet(q, U, n) /\ ShownPart(q, U, n) = ShownPart(p, S, n)

LEMMA HalfLonger ==
  ASSUME NEW p, IsThinking(p), p.state = "InThinking", NEW S, IsSeq(S), NEW x, IsSeq(x), NEW n,
         Half(p, S, n), \A i : ~Occurs(CloseTag(p.openTag), RestOf(p.openTag, S), i)
  PROVE  Lengthens(p, [p EXCEPT !.thinkingBuffer = @ \o x], S, S \o x, n)
  <1>. DEFINE tag == p.openTag
              rest == RestOf(tag, S)
              more == rest \o x
              close == CloseTag(tag)
              buffer == p.thinkingBuffer
              U == S \o x
              q == [p EXCEPT !.thinkingBuffer = @ \o x]
  <1>1. /\ tag \in BlockTags(S) /\ n \in 0 .. Len(rest) /\ buffer = From(rest, n + 1)
        /\ (p.first <=> n = 0) /\ (n > 0 => Len(buffer) >= MaxTagLength)
    BY DEF Half
  <1>2. tag \in OpenTags /\ IsSeq(rest) /\ tag \in BlockTags(U) /\ RestOf(tag, U) = more
    BY <1>1, TagLeaves, TagsLonger
  <1>3. /\ IsSeq(close) /\ Len(close) \in Nat /\ Len(close) # 0 /\ MaxTagLength \in Nat
        /\ Len(close) <= MaxTagLength
    <2>1. Len(tag) \in Nat /\ Len(close) = Len(tag) + 1 /\ IsSeq(close)
      BY <1>2, CloseTagIsSeq, OpenTagIsSeq
    <2>. QED BY <1>2, <2>1, TagLengths
  <1>4. IsSeq(buffer) /\ IsSeq(buffer \o x) /\ Len(buffer \o x) = Len(buffer) + Len(x)
        /\ Len(buffer) \in Nat /\ Len(x) \in Nat
    BY ConcatFacts, SeqFacts DEF IsThinking
  <1>5. /\ IsThinking(q) /\ q.state = "InThinking" /\ q.handling = p.handling /\ q.openTag = tag
        /\ q.thinkingBuffer = buffer \o x /\ (q.first <=> p.first)
    <2>. DEFINE b == buffer \o x
    <2>1. q = [p EXCEPT !.thinkingBuffer = b] /\ IsSeq(b)
      BY <1>4
    <2>. HIDE DEF b
    <2>. QED BY <1>2, <2>1 DEF IsThinking, ThinkingFields
  <1>. HIDE DEF rest, buffer, close, q, U
  <1>6. Len(rest) \in Nat /\ n \in Nat /\ Len(buffer) = Len(rest) - n
    <2>. DEFINE m == n + 1
    <2>1. Len(rest) \in Nat
      BY <1>2, SeqFacts
    <2>2. m \in 1 .. Len(rest) + 1 /\ (Len(rest) - m) + 1 = Len(rest) - n
      BY <1>1, <2>1
    <2>3. buffer = From(rest, m)
      BY <1>1
    <2>. HIDE DEF m
    <2>4. Len(buffer) = (Len(rest) - m) + 1
      BY <1>2, <2>2, <2>3, FromFacts
    <2>. QED BY <1>1, <2>1, <2>2, <2>4
  <1>7. buffer \o x = From(more, n + 1)
    <2>. DEFINE m == n + 1
    <2>1. m \in 1 .. Len(rest) + 1 /\ buffer = From(rest, m)
      BY <1>1, <1>6
    <2>. HIDE DEF m
    <2>2. From(more, m) = From(rest, m) \o x
      BY <1>2, <2>1, FromOfJoined
    <2>. QED BY <2>1, <2>2 DEF m
  <1>8. /\ IsSeq(more) /\ Len(more) = Len(rest) + Len(x)
        /\ \A i \in 1 .. Len(rest) : more[i] = rest[i]
    BY <1>2, ConcatFacts
  <1>9. Half(q, U, n)
    <2>1. n \in 0 .. Len(more)
      BY <1>1, <1>4, <1>6, <1>8
    <2>2. n > 0 => Len(buffer \o x) >= MaxTagLength
      BY <1>1, <1>3, <1>4
    <2>3. q.first <=> n = 0
      BY <1>1, <1>5
    <2>. HIDE DEF more
    <2>. QED BY <1>2, <1>5, <1>7, <2>1, <2>2, <2>3 DEF Half
  <1>10. NotYet(q, U, n)
    <2>1. ASSUME NEW i, Occurs(close, more, i) PROVE i > n /\ (n > 0 => i > n + 1)
      <3>1. ~ ((i - 1) + Len(close) <= Len(rest))
        <4>1. ~Occurs(close, rest, i)
          BY DEF close, rest
        <4>. QED BY <1>2, <1>3, <2>1, <4>1, OccursLonger
      <3>2. i \in Nat \ {0}
        <4>. HIDE DEF more
        <4>. QED BY <1>4, <1>6, <1>8, <2>1 DEF Occurs
      <3>. HIDE DEF more
      <3>. QED BY <1>1, <1>3, <1>6, <3>1, <3>2
    <2>. HIDE DEF more
    <2>. QED BY <1>2, <1>5, <2>1 DEF NotYet, close
  <1>11. SubSeq(more, 1, n) = SubSeq(rest, 1, n)
    <2>. DEFINE a == SubSeq(more, 1, n)
                b == SubSeq(rest, 1, n)
    <2>. HIDE DEF more
    <2>1. n \in 0 .. Len(more)
      BY <1>1, <1>4, <1>6, <1>8
    <2>2. IsSeq(a) /\ Len(a) = n /\ \A i \in 1 .. n : a[i] = more[i]
      BY <1>8, <2>1, HeadFacts
    <2>3. IsSeq(b) /\ Len(b) = n /\ \A i \in 1 .. n : b[i] = rest[i]
      BY <1>1, <1>2, HeadFacts
    <2>. HIDE DEF a, b
    <2>4. \A i \in 1 .. Len(a) : a[i] = b[i]
      BY <1>1, <1>6, <1>8, <2>2, <2>3
    <2>. QED BY <2>2, <2>3, <2>4, EqualSeqs DEF a, b
  <1>12. ShownPart(q, U, n) = ShownPart(p, S, n)
    BY <1>2, <1>5, <1>11 DEF ShownPart, rest
  <1>. QED BY <1>5, <1>9, <1>10, <1>12 DEF Lengthens, q, U

\* After the block every text is content.
LEMMA PassedOn ==
  ASSUME NEW S, IsSeq(S), NEW x, IsSeq(x), NEW C, Passed(S, C), NEW handling
  PROVE  Passed(S \o x, C \o x) /\ ThinkingOf(handling, S \o x) = ThinkingOf(handling, S)
  <1>. DEFINE U == S \o x
  <1>1. CASE Untagged(S) /\ C = S
    <2>1. Untagged(U)
      BY <1>1, UntaggedLonger
    <2>2. BlockTags(U) = {} /\ BlockTags(S) = {}
      BY <1>1, <2>1 DEF Untagged
    <2>. QED BY <1>1, <2>1, <2>2 DEF Passed, ThinkingOf
  <1>2. CASE \E tag \in BlockTags(S) : \E n :
               FirstAt(CloseTag(tag), RestOf(tag, S), n) /\ C \in LeftTrims(ContentOf(S))
    <2>1. PICK tag \in BlockTags(S) :
            \E n : FirstAt(CloseTag(tag), RestOf(tag, S), n) /\ C \in LeftTrims(ContentOf(S))
      BY <1>2
    <2>. DEFINE close == CloseTag(tag)
                rest == RestOf(tag, S)
                more == rest \o x
    <2>2. PICK n : FirstAt(close, rest, n) /\ C \in LeftTrims(ContentOf(S))
      BY <2>1
    <2>3. tag \in OpenTags /\ IsSeq(rest) /\ tag \in BlockTags(U) /\ RestOf(tag, U) = more
      BY TagLeaves, TagsLonger
    <2>4. IsSeq(close) /\ Len(close) \in Nat \ {0}
      <3>1. Len(tag) \in Nat
        BY <2>3, OpenTagIsSeq
      <3>. QED BY <2>3, <3>1, CloseTagIsSeq
    <2>5. FirstAt(close, more, n)
      <3>. HIDE DEF close, rest
      <3>1. Len(close) # 0
        BY <2>4
      <3>. QED BY <2>2, <2>3, <2>4, <3>1, FirstStays
    <2>6. BlockOf(S) = [tag |-> tag, thinking |-> SubSeq(rest, 1, n - 1),
                        content |-> From(rest, n + Len(close))]
      <3>1. FirstAt(CloseTag(tag), RestOf(tag, S), n)
        BY <2>2
      <3>. QED BY <3>1, ClosedBlock
    <2>7. BlockOf(U) = [tag |-> tag, thinking |-> SubSeq(more, 1, n - 1),
                        content |-> From(more, n + Len(close))]
      <3>1. FirstAt(CloseTag(tag), RestOf(tag, U), n) /\ IsSeq(U)
        BY <2>3, <2>5, ConcatFacts
      <3>. HIDE DEF U
      <3>2. BlockOf(U) = [tag |-> tag, thinking |-> SubSeq(RestOf(tag, U), 1, n - 1),
                          content |-> From(RestOf(tag, U), n + Len(CloseTag(tag)))]
        BY <2>3, <3>1, ClosedBlock
      <3>. QED BY <2>3, <3>2
    <2>. HIDE DEF rest, close
    <2>8. /\ n \in 1 .. Len(rest) /\ (n - 1) + Len(close) <= Len(rest) /\ Len(rest) \in Nat
      BY <2>2, <2>3, SeqFacts DEF FirstAt, Occurs
    <2>9. /\ IsSeq(more) /\ Len(more) = Len(rest) + Len(x) /\ Len(x) \in Nat
          /\ \A i \in 1 .. Len(rest) : more[i] = rest[i]
      BY <2>3, ConcatFacts, SeqFacts
    <2>10. SubSeq(more, 1, n - 1) = SubSeq(rest, 1, n - 1)
      <3>. DEFINE k == n - 1
                  a == SubSeq(more, 1, k)
                  b == SubSeq(rest, 1, k)
      <3>1. k \in 0 .. Len(more) /\ k \in 0 .. Len(rest) /\ k \in Nat
        <4>. HIDE DEF more
        <4>. QED BY <2>8, <2>9
      <3>. HIDE DEF more, k
      <3>2. IsSeq(a) /\ Len(a) = k /\ \A i \in 1 .. k : a[i] = more[i]
        BY <2>9, <3>1, HeadFacts
      <3>3. IsSeq(b) /\ Len(b) = k /\ \A i \in 1 .. k : b[i] = rest[i]
        BY <2>3, <3>1, HeadFacts
      <3>. HIDE DEF a, b
      <3>4. \A i \in 1 .. Len(a) : a[i] = b[i]
        BY <2>8, <2>9, <3>1, <3>2, <3>3
      <3>5. a = b
        BY <3>2, <3>3, <3>4, EqualSeqs
      <3>. QED BY <3>5 DEF a, b, k
    <2>. DEFINE m == n + Len(close)
                left == From(rest, m)
    <2>11. m \in 1 .. Len(rest) + 1
      BY <2>4, <2>8
    <2>12. IsSeq(left) /\ From(more, m) = left \o x
      <3>. HIDE DEF m
      <3>. QED BY <2>3, <2>11, FromFacts, FromOfJoined
    <2>. DEFINE a == SubSeq(rest, 1, n - 1)
    <2>13. BlockOf(S) = [tag |-> tag, thinking |-> a, content |-> left]
      BY <2>6
    <2>14. BlockOf(U) = [tag |-> tag, thinking |-> a, content |-> left \o x]
      BY <2>7, <2>10, <2>12
    <2>. HIDE DEF a, m, left, U, more
    <2>15. ContentOf(S) = left /\ ContentOf(U) = left \o x
      BY <2>3, <2>13, <2>14 DEF ContentOf
    <2>16. ThinkingOf(handling, U) = ThinkingOf(handling, S)
      <3>1. BlockTags(U) # {} /\ BlockTags(S) # {}
        BY <2>3
      <3>. QED BY <2>13, <2>14, <3>1 DEF ThinkingOf
    <2>17. C \o x \in LeftTrims(ContentOf(U))
      BY <2>2, <2>12, <2>15, LeftTrimsLonger
    <2>18. Passed(U, C \o x)
      BY <2>3, <2>5, <2>17 DEF Passed, close
    <2>. QED BY <2>16, <2>18 DEF U
  <1>. QED BY <1>1, <1>2 DEF Passed

\* A text more, and the parser has made of all the text what it makes of it.
LEMMA FeedReads ==
  ASSUME NEW p, IsThinking(p), NEW S, IsSeq(S), NEW x, IsSeq(x), NEW T, IsSeq(T), NEW C, IsSeq(C),
         HasRead(p, S, T, C)
  PROVE  LET r == ThinkingFeed(p, x)
         IN  HasRead(r.parser, S \o x, T \o r.thinking, C \o r.content)
  <1>. DEFINE r == ThinkingFeed(p, x)
              U == S \o x
  <1>1. T \o <<>> = T /\ C \o <<>> = C /\ S \o <<>> = S
    BY ConcatNone
  <1>2. CASE x = <<>>
    <2>1. r = Parsed(p, <<>>, <<>>)
      BY <1>2 DEF ThinkingFeed
    <2>2. r.parser = p /\ r.thinking = <<>> /\ r.content = <<>>
      <3>. HIDE DEF r
      <3>. QED BY <2>1 DEF Parsed
    <2>. HIDE DEF r
    <2>3. HasRead(r.parser, U, T \o r.thinking, C \o r.content)
      BY <1>1, <1>2, <2>2
    <2>. QED BY <2>3 DEF r, U
  <1>3. CASE x # <<>> /\ p.state = "PreContent"
    <2>1. T = <<>> /\ C = <<>>
      BY <1>3 DEF HasRead
    <2>2. r = HandlePreContent(p, x)
      BY <1>3 DEF ThinkingFeed
    <2>3. HasRead(r.parser, U, r.thinking, r.content)
      BY <1>3, <2>1, <2>2, PreContentReads
    <2>4. IsSeq(r.thinking) /\ IsSeq(r.content)
      BY FeedIsParsed DEF IsParsed
    <2>5. <<>> \o r.thinking = r.thinking /\ <<>> \o r.content = r.content
      <3>. HIDE DEF r
      <3>. QED BY <2>4, ConcatNone
    <2>. HIDE DEF r
    <2>6. HasRead(r.parser, U, T \o r.thinking, C \o r.content)
      BY <2>1, <2>3, <2>5
    <2>. QED BY <2>6 DEF r, U
  <1>4. CASE x # <<>> /\ p.state = "InThinking"
    <2>. DEFINE q == [p EXCEPT !.thinkingBuffer = @ \o x]
    <2>1. r = ProcessThinkingBuffer(q)
      BY <1>4 DEF ThinkingFeed
    <2>2. Inside(p, S, T) /\ C = <<>>
      BY <1>4 DEF HasRead
    <2>3. PICK n : /\ Half(p, S, n) /\ T = ShownPart(p, S, n)
                   /\ \A i : ~Occurs(CloseTag(p.openTag), RestOf(p.openTag, S), i)
      BY <2>2 DEF Inside
    <2>4. /\ IsThinking(q) /\ q.state = "InThinking"
          /\ Half(q, U, n) /\ NotYet(q, U, n) /\ ShownPart(q, U, n) = ShownPart(p, S, n)
      <3>1. Lengthens(p, q, S, U, n)
        <4>1. /\ p.state = "InThinking" /\ Half(p, S, n)
              /\ \A i : ~Occurs(CloseTag(p.openTag), RestOf(p.openTag, S), i)
          BY <1>4, <2>3
        <4>. QED BY <4>1, HalfLonger
      <3>. HIDE DEF q, U
      <3>. QED BY <3>1 DEF Lengthens
    <2>5. IsSeq(U)
      BY ConcatFacts
    <2>. HIDE DEF q, U, r
    <2>6. HasRead(r.parser, U, ShownPart(q, U, n) \o r.thinking, r.content)
      BY <2>1, <2>4, <2>5, BufferReads
    <2>7. IsSeq(r.content)
      BY FeedIsParsed DEF IsParsed, r
    <2>8. <<>> \o r.content = r.content
      BY <2>7, ConcatNone
    <2>9. HasRead(r.parser, U, T \o r.thinking, C \o r.content)
      BY <2>2, <2>3, <2>4, <2>6, <2>8
    <2>. QED BY <2>9 DEF r, U
  <1>5. CASE x # <<>> /\ p.state = "Streaming"
    <2>1. r = Parsed(p, <<>>, x)
      BY <1>5 DEF ThinkingFeed
    <2>2. T = ThinkingOf(p.handling, S) /\ Passed(S, C)
      BY <1>5 DEF HasRead
    <2>3. Passed(U, C \o x) /\ ThinkingOf(p.handling, U) = ThinkingOf(p.handling, S)
      BY <2>2, PassedOn
    <2>4. r.parser = p /\ r.thinking = <<>> /\ r.content = x
      <3>. HIDE DEF r
      <3>. QED BY <2>1 DEF Parsed
    <2>. HIDE DEF r, U
    <2>5. HasRead(p, U, T, C \o x)
      BY <1>5, <2>2, <2>3 DEF HasRead
    <2>6. HasRead(r.parser, U, T \o r.thinking, C \o r.content)
      BY <1>1, <2>4, <2>5
    <2>. QED BY <2>6 DEF r, U
  <1>. QED BY <1>2, <1>3, <1>4, <1>5 DEF IsThinking

\* At the end nothing of the text is left in the buffers.
LEMMA FinishReads ==
  ASSUME NEW p, IsThinking(p), NEW S, IsSeq(S), NEW T, IsSeq(T), NEW C, IsSeq(C),
         HasRead(p, S, T, C)
  PROVE  LET r == ThinkingFinish(p)
         IN  T \o r.thinking = ThinkingOf(p.handling, S) /\ C \o r.content \in ContentsOf(S)
  <1>. DEFINE r == ThinkingFinish(p)
  <1>1. T \o <<>> = T /\ C \o <<>> = C /\ <<>> \o S = S /\ <<>> \o <<>> = <<>>
    BY ConcatNone, ShortSeqs
  <1>2. CASE p.state = "PreContent"
    <2>1. r.thinking = <<>> /\ r.content = S /\ T = <<>> /\ C = <<>> /\ BlockTags(S) = {}
      BY <1>2 DEF ThinkingFinish, Parsed, HasRead
    <2>2. ThinkingOf(p.handling, S) = <<>> /\ ContentsOf(S) = {S}
      BY <2>1 DEF ThinkingOf, ContentsOf
    <2>. HIDE DEF r
    <2>3. T \o r.thinking = ThinkingOf(p.handling, S) /\ C \o r.content \in ContentsOf(S)
      BY <1>1, <2>1, <2>2
    <2>. QED BY <2>3 DEF r
  <1>3. CASE p.state = "InThinking"
    <2>1. Inside(p, S, T) /\ C = <<>>
      BY <1>3 DEF HasRead
    <2>2. PICK n : /\ Half(p, S, n) /\ T = ShownPart(p, S, n)
                   /\ \A i : ~Occurs(CloseTag(p.openTag), RestOf(p.openTag, S), i)
      BY <2>1 DEF Inside
    <2>. DEFINE tag == p.openTag
                rest == RestOf(tag, S)
                buffer == p.thinkingBuffer
                k == Len(buffer)
    <2>3. /\ tag \in BlockTags(S) /\ n \in 0 .. Len(rest) /\ buffer = From(rest, n + 1)
          /\ (n > 0 => k >= MaxTagLength)
      BY <2>2 DEF Half
    <2>4. tag \in OpenTags /\ IsSeq(rest)
      BY <2>3, TagLeaves
    <2>5. IsSeq(buffer) /\ k \in Nat
      BY SeqFacts DEF IsThinking
    <2>6. Len(rest) \in Nat /\ n \in Nat /\ k = Len(rest) - n
      <3>. DEFINE m == n + 1
      <3>. HIDE DEF rest, buffer
      <3>1. Len(rest) \in Nat
        BY <2>4, SeqFacts
      <3>2. m \in 1 .. Len(rest) + 1 /\ (Len(rest) - m) + 1 = Len(rest) - n
        BY <2>3, <3>1
      <3>3. buffer = From(rest, m)
        BY <2>3
      <3>. HIDE DEF m
      <3>4. Len(buffer) = (Len(rest) - m) + 1
        BY <2>4, <3>2, <3>3, FromFacts
      <3>. QED BY <2>3, <3>1, <3>2, <3>4
    <2>7. k = 0 => n = 0
      <3>1. MaxTagLength \in Nat /\ MaxTagLength > 0
        <4>1. Len(tag) \in Nat /\ Len(CloseTag(tag)) = Len(tag) + 1
          BY <2>4, CloseTagIsSeq, OpenTagIsSeq
        <4>. QED BY <2>4, <4>1, TagLengths
      <3>. HIDE DEF k, rest
      <3>. QED BY <2>3, <2>5, <2>6, <3>1
    <2>8. ShownPart(p, S, n) \o ProcessThinkingOutput(p, buffer, TRUE) = WholeOutput(p.handling, tag, rest)
      <3>1. k \in 0 .. Len(p.thinkingBuffer)
        BY <2>5
      <3>2. PartsJoined(p, S, n, k)
        <4>. HIDE DEF k
        <4>. QED BY <2>2, <3>1, PartsJoin
      <3>3. SubSeq(buffer, 1, k) = buffer /\ SubSeq(rest, 1, Len(rest)) = rest
        <4>. HIDE DEF rest, buffer
        <4>. QED BY <2>4, <2>5, HeadAll
      <3>4. n + k = Len(rest)
        <4>. HIDE DEF k, rest
        <4>. QED BY <2>6
      <3>5. ShownPart(p, S, n) \o ProcessThinkingOutput(p, SubSeq(buffer, 1, k), TRUE)
              = WholeOutput(p.handling, tag, SubSeq(rest, 1, n + k))
        BY <2>7, <3>2 DEF PartsJoined
      <3>. QED BY <3>3, <3>4, <3>5
    <2>9. Occurrences(CloseTag(tag), rest) = {}
      <3>1. IsSeq(CloseTag(tag))
        BY <2>4, CloseTagIsSeq
      <3>2. \A i : ~Occurs(CloseTag(tag), rest, i)
        BY <2>2
      <3>. HIDE DEF rest, tag
      <3>. QED BY <2>4, <3>1, <3>2, OccursIs
    <2>10. BlockOf(S) = [tag |-> tag, thinking |-> rest, content |-> <<>>]
      BY <2>3, <2>9, OpenBlock
    <2>11. ThinkingOf(p.handling, S) = WholeOutput(p.handling, tag, rest)
      <3>. HIDE DEF tag, rest
      <3>1. BlockTags(S) # {} /\ BlockOf(S).tag = tag /\ BlockOf(S).thinking = rest
        BY <2>3, <2>10
      <3>2. ThinkingOf(p.handling, S) = WholeOutput(p.handling, tag, BlockOf(S).thinking)
        BY <3>1, ThinkingIsWhole
      <3>. QED BY <3>1, <3>2
    <2>12. r.thinking = ProcessThinkingOutput(p, buffer, TRUE) /\ r.content = <<>>
      BY <1>3 DEF ThinkingFinish, Parsed
    <2>13. <<>> \in ContentsOf(S)
      <3>1. ContentOf(S) = <<>> /\ BlockTags(S) # {}
        BY <2>3, <2>10 DEF ContentOf
      <3>2. <<>> \in LeftTrims(<<>>)
        BY TrimIsOne, ShortSeqs
      <3>. QED BY <3>1, <3>2 DEF ContentsOf
    <2>. HIDE DEF r, buffer, rest, tag
    <2>14. T \o r.thinking = ThinkingOf(p.handling, S) /\ C \o r.content \in ContentsOf(S)
      BY <1>1, <2>1, <2>2, <2>8, <2>11, <2>12, <2>13
    <2>. QED BY <2>14 DEF r
  <1>4. CASE p.state = "Streaming"
    <2>1. T = ThinkingOf(p.handling, S) /\ Passed(S, C)
      BY <1>4 DEF HasRead
    <2>2. r.thinking = <<>> /\ r.content = <<>>
      BY <1>4 DEF ThinkingFinish, Parsed
    <2>3. C \in ContentsOf(S)
      BY <2>1 DEF Passed, ContentsOf, Untagged
    <2>. HIDE DEF r
    <2>4. T \o r.thinking = ThinkingOf(p.handling, S) /\ C \o r.content \in ContentsOf(S)
      BY <1>1, <2>1, <2>2, <2>3
    <2>. QED BY <2>4 DEF r
  <1>. QED BY <1>2, <1>3, <1>4 DEF IsThinking

-----------------------------------------------------------------------------
(* What is content was sent.                                               *)
LEMMA EndOfText ==
  ASSUME NEW s, IsSeq(s), NEW n \in 1 .. Len(s) + 1, NEW i \in 1 .. Len(From(s, n))
  PROVE  \E j \in 1 .. Len(s) : From(s, n)[i] = s[j]
  <1>1. Len(s) \in Nat
    BY SeqFacts
  <1>2. Len(From(s, n)) = (Len(s) - n) + 1
    BY FromFacts
  <1>. DEFINE j == (n - 1) + i
  <1>3. j \in 1 .. Len(s) /\ i \in 1 .. (Len(s) - n) + 1
    BY <1>1, <1>2
  <1>4. From(s, n)[i] = s[j]
    BY <1>3, FromFacts
  <1>. HIDE DEF j
  <1>. QED BY <1>3, <1>4

Within(s, t) == \A i \in 1 .. Len(s) : \E j \in 1 .. Len(t) : s[i] = t[j]

LEMMA ContentIsSent ==
  ASSUME NEW S, IsSeq(S), NEW C \in ContentsOf(S)
  PROVE  IsSeq(C) /\ Within(C, S)
  <1>. DEFINE left == ContentOf(S)
  <1>1. CASE BlockTags(S) = {}
    <2>1. C = S
      BY <1>1 DEF ContentsOf
    <2>. QED BY <2>1 DEF Within
  <1>2. CASE BlockTags(S) # {}
    <2>1. PICK tag \in BlockTags(S) : TRUE
      BY <1>2
    <2>. DEFINE close == CloseTag(tag)
                rest == RestOf(tag, S)
                trimmed == TrimLeft(S)
                at == Occurrences(close, rest)
    <2>2. /\ tag \in OpenTags /\ IsSeq(rest) /\ IsSeq(trimmed) /\ trimmed # <<>>
          /\ Len(tag) + 1 \in 1 .. Len(trimmed) + 1
      BY TagLeaves, TrimLeftIsSeq
    <2>3. IsSeq(close) /\ Len(close) \in Nat
      BY <2>2, CloseTagIsSeq, OpenTagIsSeq
    <2>4. Within(trimmed, S)
      <3>1. PICK n : Trimmed(S, n)
        BY <2>2, TrimsOrBlank
      <3>2. trimmed = From(S, n) /\ n \in 1 .. Len(S) + 1
        BY <3>1, TrimsAt, SeqFacts DEF Trimmed
      <3>. HIDE DEF trimmed
      <3>. QED BY <3>2, EndOfText DEF Within
    <2>5. Within(rest, trimmed)
      <3>. DEFINE n == Len(tag) + 1
      <3>1. rest = From(trimmed, n) /\ n \in 1 .. Len(trimmed) + 1
        BY <2>2 DEF RestOf
      <3>. HIDE DEF rest, trimmed, n
      <3>. QED BY <2>2, <3>1, EndOfText DEF Within
    <2>6. IsSeq(left) /\ Within(left, rest)
      <3>1. CASE at = {}
        <4>1. left = <<>>
          BY <1>2, <3>1, OpenBlock DEF ContentOf
        <4>. QED BY <4>1, ShortSeqs DEF Within
      <3>2. CASE at # {}
        <4>. DEFINE n == Min(at)
                    m == n + Len(close)
        <4>1. FirstAt(close, rest, n)
          <5>. HIDE DEF close, rest
          <5>. QED BY <2>2, <2>3, <3>2, FirstIsLeast
        <4>. HIDE DEF n
        <4>2. BlockOf(S).content = From(rest, m)
          <5>1. BlockOf(S) = [tag |-> tag, thinking |-> SubSeq(rest, 1, n - 1), content |-> From(rest, m)]
            BY <4>1, ClosedBlock
          <5>. DEFINE x == SubSeq(rest, 1, n - 1)
                      y == From(rest, m)
          <5>2. BlockOf(S) = [tag |-> tag, thinking |-> x, content |-> y]
            BY <5>1
          <5>. HIDE DEF x, y
          <5>3. BlockOf(S).content = y
            BY <5>2
          <5>. QED BY <5>3 DEF y
        <4>3. left = From(rest, m)
          BY <1>2, <4>2 DEF ContentOf
        <4>. HIDE DEF close, rest, left
        <4>4. m \in 1 .. Len(rest) + 1
          BY <2>2, <2>3, <4>1, SeqFacts DEF FirstAt, Occurs
        <4>. HIDE DEF m
        <4>5. IsSeq(left)
          BY <2>2, <4>3, <4>4, FromFacts
        <4>6. Within(left, rest)
          BY <2>2, <4>3, <4>4, EndOfText DEF Within
        <4>. QED BY <4>5, <4>6
      <3>. QED BY <3>1, <3>2
    <2>7. C \in LeftTrims(left)
      BY <1>2 DEF ContentsOf
    <2>. HIDE DEF left, rest, trimmed
    <2>8. PICK n \in 1 .. Len(left) + 1 : C = From(left, n)
      BY <2>7 DEF LeftTrims
    <2>9. IsSeq(C)
      BY <2>6, <2>8, FromFacts
    <2>10. Within(C, left)
      <3>1. ASSUME NEW i \in 1 .. Len(C) PROVE \E j \in 1 .. Len(left) : C[i] = left[j]
        <4>1. IsSeq(left) /\ i \in 1 .. Len(From(left, n))
          BY <2>6, <2>8
        <4>2. \E j \in 1 .. Len(left) : From(left, n)[i] = left[j]
          BY <2>8, <4>1, EndOfText
        <4>. QED BY <2>8, <4>2
      <3>. QED BY <3>1 DEF Within
    <2>11. Within(C, S)
      BY <2>4, <2>5, <2>6, <2>10 DEF Within
    <2>. QED BY <2>9, <2>11
  <1>. QED BY <1>1, <1>2

-----------------------------------------------------------------------------
(* The lists of calls.                                                     *)
LongestFold == INSTANCE FoldTheorems WITH op <- KeepLongest
FirstFold == INSTANCE FoldTheorems WITH op <- KeepFirst

LEMMA IsSeqOf ==
  ASSUME NEW S, NEW s \in Seq(S)
  PROVE  IsSeq(s)
  <1>1. Len(s) \in Nat /\ s = [i \in 1 .. Len(s) |-> s[i]]
    OBVIOUS
  <1>. QED BY <1>1, ASequence

LEMMA DeduplicatedIsSeq ==
  ASSUME NEW calls, IsSeq(calls)
  PROVE  IsSeq(DeduplicateToolCalls(calls))
  <1>. DEFINE S == Range(calls)
              kept == ByID(calls)
  <1>1. Len(calls) \in Nat /\ DOMAIN calls = 1 .. Len(calls)
    BY SeqFacts
  <1>2. \A i \in 1 .. Len(calls) : calls[i] \in S
    BY <1>1 DEF Range
  <1>. HIDE DEF S
  <1>3. <<>> \in Seq(S)
    OBVIOUS
  <1>4. \A s \in Seq(S), i \in 1 .. Len(calls) : KeepLongest(s, calls[i]) \in Seq(S)
    <2>. SUFFICES ASSUME NEW s \in Seq(S), NEW i \in 1 .. Len(calls)
                  PROVE  KeepLongest(s, calls[i]) \in Seq(S)
      OBVIOUS
    <2>. DEFINE same == {k \in DOMAIN s : s[k].id = calls[i].id}
                j == CHOOSE k \in same : TRUE
    <2>1. calls[i] \in S
      BY <1>2
    <2>2. Append(s, calls[i]) \in Seq(S)
      BY <2>1
    <2>3. same # {} => [s EXCEPT ![j] = calls[i]] \in Seq(S)
      <3>1. same # {} => j \in DOMAIN s
        OBVIOUS
      <3>2. DOMAIN s = 1 .. Len(s) /\ \A k \in 1 .. Len(s) : s[k] \in S
        OBVIOUS
      <3>. HIDE DEF same, j
      <3>. QED BY <2>1, <3>1, <3>2
    <2>4. KeepLongest(s, calls[i]) \in {Append(s, calls[i]), s}
            \/ (same # {} /\ KeepLongest(s, calls[i]) = [s EXCEPT ![j] = calls[i]])
      BY DEF KeepLongest
    <2>. HIDE DEF same, j
    <2>. QED BY <2>2, <2>3, <2>4
  <1>5. kept \in Seq(S)
    <2>1. LongestFold!FoldLeft(KeepLongest, <<>>, calls) \in Seq(S)
      BY <1>1, <1>3, <1>4, LongestFold!FoldKeeps
    <2>. QED BY <2>1 DEF ByID, FoldLeft, MapThenFoldSet, Max, LongestFold!FoldLeft,
                         LongestFold!MapThenFoldSet, LongestFold!Max
  <1>6. IsSeq(kept) /\ Len(kept) \in Nat /\ DOMAIN kept = 1 .. Len(kept)
    <2>. HIDE DEF kept
    <2>. QED BY <1>5, IsSeqOf, SeqFacts
  <1>7. \A s \in Seq(S), i \in 1 .. Len(kept) : KeepFirst(s, kept[i]) \in Seq(S)
    <2>. HIDE DEF kept
    <2>1. \A i \in 1 .. Len(kept) : kept[i] \in S
      BY <1>5
    <2>. QED BY <2>1 DEF KeepFirst
  <1>8. ByText(kept) \in Seq(S)
    <2>. HIDE DEF kept
    <2>1. FirstFold!FoldLeft(KeepFirst, <<>>, kept) \in Seq(S)
      BY <1>3, <1>6, <1>7, FirstFold!FoldKeeps
    <2>. QED BY <2>1 DEF ByText, FoldLeft, MapThenFoldSet, Max, FirstFold!FoldLeft,
                         FirstFold!MapThenFoldSet, FirstFold!Max
  <1>. QED BY <1>8, IsSeqOf DEF DeduplicateToolCalls

-----------------------------------------------------------------------------
(* The events of the pipeline.  At most the first of those that come        *)
(* together is thinking.                                                   *)
EventKinds ==
  {"content", "thinking", "tool_use", "native_thinking", "thinking_signature",
   "redacted_thinking", "usage", "context_usage", "refusal", "error"}

IsEvent(e) ==
  e.kind \in EventKinds /\ (e.kind \in {"content", "thinking", "native_thinking"} => IsSeq(e.text))

KindsOf(events) == {events[i].kind : i \in 1 .. Len(events)}

AreEvents(events) ==
  /\ IsSeq(events) /\ \A i \in 1 .. Len(events) : IsEvent(events[i])
  /\ \A i \in 2 .. Len(events) : events[i].kind # "thinking"

LEMMA NoEvents == AreEvents(<<>>) /\ KindsOf(<<>>) = {}
  <1>1. IsSeq(<<>>) /\ 1 .. Len(<<>>) = {} /\ 2 .. Len(<<>>) = {}
    BY ShortSeqs
  <1>. QED BY <1>1 DEF AreEvents, KindsOf

LEMMA OneEvent ==
  ASSUME NEW e, IsEvent(e)
  PROVE  AreEvents(<<e>>) /\ KindsOf(<<e>>) = {e.kind}
  <1>1. /\ IsSeq(<<e>>) /\ 1 .. Len(<<e>>) = {1} /\ 2 .. Len(<<e>>) = {} /\ <<e>>[1] = e
    BY ShortSeqs
  <1>. QED BY <1>1 DEF AreEvents, KindsOf

LEMMA JoinedEvents ==
  ASSUME NEW a, NEW b, AreEvents(a), AreEvents(b), "thinking" \notin KindsOf(b)
  PROVE  AreEvents(a \o b) /\ KindsOf(a \o b) = KindsOf(a) \cup KindsOf(b)
  <1>. DEFINE c == a \o b
  <1>1. /\ IsSeq(c) /\ Len(c) = Len(a) + Len(b) /\ Len(a) \in Nat /\ Len(b) \in Nat
        /\ \A i \in 1 .. Len(a) : c[i] = a[i]
        /\ \A i \in 1 .. Len(b) : c[Len(a) + i] = b[i]
    <2>1. IsSeq(a) /\ IsSeq(b)
      BY DEF AreEvents
    <2>2. Len(a) \in Nat /\ Len(b) \in Nat
      BY <2>1, SeqFacts
    <2>. QED BY <2>1, <2>2, ConcatFacts
  <1>. HIDE DEF c
  <1>2. ASSUME NEW i \in 1 .. Len(c)
        PROVE  \/ i \in 1 .. Len(a) /\ c[i] = a[i]
               \/ i - Len(a) \in 1 .. Len(b) /\ c[i] = b[i - Len(a)]
    <2>1. CASE i <= Len(a)
      BY <1>1, <2>1
    <2>2. CASE i > Len(a)
      <3>1. i - Len(a) \in 1 .. Len(b) /\ Len(a) + (i - Len(a)) = i
        BY <1>1, <2>2
      <3>. QED BY <1>1, <3>1
    <2>. QED BY <1>1, <2>1, <2>2
  <1>3. \A i \in 1 .. Len(c) : IsEvent(c[i])
    BY <1>2 DEF AreEvents
  <1>4. ASSUME NEW i \in 2 .. Len(c) PROVE c[i].kind # "thinking"
    <2>1. i \in 1 .. Len(c)
      BY <1>1
    <2>2. CASE i \in 1 .. Len(a) /\ c[i] = a[i]
      BY <1>1, <2>2 DEF AreEvents
    <2>3. CASE i - Len(a) \in 1 .. Len(b) /\ c[i] = b[i - Len(a)]
      BY <2>3 DEF KindsOf
    <2>. QED BY <1>2, <2>1, <2>2, <2>3
  <1>5. \A i \in 1 .. Len(a) : i \in 1 .. Len(c)
    BY <1>1
  <1>6. \A i \in 1 .. Len(b) : Len(a) + i \in 1 .. Len(c)
    BY <1>1
  <1>7. KindsOf(c) = KindsOf(a) \cup KindsOf(b)
    <2>1. KindsOf(c) \subseteq KindsOf(a) \cup KindsOf(b)
      BY <1>2 DEF KindsOf
    <2>2. KindsOf(a) \subseteq KindsOf(c)
      BY <1>1, <1>5 DEF KindsOf
    <2>3. KindsOf(b) \subseteq KindsOf(c)
      BY <1>1, <1>6 DEF KindsOf
    <2>. QED BY <2>1, <2>2, <2>3
  <1>. QED BY <1>1, <1>3, <1>4, <1>7 DEF AreEvents, c

LEMMA TextEvents ==
  ASSUME NEW kind \in {"content", "thinking"}, NEW text, IsSeq(text)
  PROVE  /\ AreEvents(TextEvent(kind, text))
         /\ KindsOf(TextEvent(kind, text)) = IF text = <<>> THEN {} ELSE {kind}
  <1>1. CASE text = <<>>
    BY <1>1, NoEvents DEF TextEvent
  <1>2. CASE text # <<>>
    <2>. DEFINE e == [kind |-> kind, text |-> text]
    <2>1. e.kind = kind /\ IsEvent(e)
      BY DEF IsEvent, EventKinds
    <2>2. TextEvent(kind, text) = <<e>>
      BY <1>2 DEF TextEvent
    <2>. HIDE DEF e
    <2>. QED BY <1>2, <2>1, <2>2, OneEvent
  <1>. QED BY <1>1, <1>2

LEMMA DiagnosisEvents ==
  ASSUME NEW parser
  PROVE  /\ AreEvents(TruncationDiagnosis(parser))
         /\ KindsOf(TruncationDiagnosis(parser)) \subseteq {"error"}
  <1>. DEFINE e == [kind |-> "error"]
  <1>1. e.kind = "error" /\ IsEvent(e)
    BY DEF IsEvent, EventKinds
  <1>2. TruncationDiagnosis(parser) \in {<<>>, <<e>>}
    BY DEF TruncationDiagnosis
  <1>. HIDE DEF e
  <1>. QED BY <1>1, <1>2, OneEvent, NoEvents

LEMMA CallEvents ==
  ASSUME NEW calls, IsSeq(calls)
  PROVE  LET events == [i \in DOMAIN calls |-> [kind |-> "tool_use", call |-> calls[i]]]
         IN  AreEvents(events) /\ KindsOf(events) \subseteq {"tool_use"}
  <1>. DEFINE events == [i \in DOMAIN calls |-> [kind |-> "tool_use", call |-> calls[i]]]
  <1>1. events = [i \in DOMAIN calls |-> events[i]]
    OBVIOUS
  <1>2. IsSeq(events) /\ Len(events) = Len(calls) /\ DOMAIN calls = 1 .. Len(calls)
        /\ Len(calls) \in Nat
    <2>. HIDE DEF events
    <2>. QED BY <1>1, SameLength, SeqFacts
  <1>3. \A i \in 1 .. Len(calls) : events[i].kind = "tool_use"
    BY <1>2
  <1>. HIDE DEF events
  <1>4. AreEvents(events) /\ KindsOf(events) \subseteq {"tool_use"}
    BY <1>2, <1>3 DEF AreEvents, KindsOf, IsEvent, EventKinds
  <1>. QED BY <1>4 DEF events

-----------------------------------------------------------------------------
(* The pipeline.                                                           *)
IsParser(p) ==
  /\ p = [f \in {"lastContent", "currentToolCall", "toolCalls"} |-> p[f]]
  /\ IsSeq(p.toolCalls)

IsPipeline(pl) ==
  /\ pl = [f \in {"parser", "thinking"} |-> pl[f]]
  /\ IsParser(pl.parser) /\ IsThinking(pl.thinking)

LEMMA FinalizedParser ==
  ASSUME NEW p, IsParser(p)
  PROVE  IsParser(FinalizeToolCall(p))
  <1>1. CASE p.currentToolCall = <<>>
    BY <1>1 DEF FinalizeToolCall
  <1>2. CASE p.currentToolCall # <<>>
    <2>. DEFINE calls == Append(p.toolCalls, FinishedCall(p.currentToolCall[1]))
                q == [p EXCEPT !.currentToolCall = <<>>, !.toolCalls = calls]
    <2>1. IsSeq(calls)
      BY AppendFacts DEF IsParser
    <2>. HIDE DEF calls
    <2>2. IsParser(q)
      BY <2>1 DEF IsParser
    <2>3. FinalizeToolCall(p) = q
      BY <1>2 DEF FinalizeToolCall, calls
    <2>. QED BY <2>2, <2>3
  <1>. QED BY <1>1, <1>2

LEMMA ToolKeepsParser ==
  ASSUME NEW p, IsParser(p), NEW item
  PROVE  /\ IsParser(ProcessToolStart(p, item)) /\ IsParser(ProcessToolInput(p, item))
         /\ IsParser(ProcessToolStop(p))
  <1>. DEFINE started == <<[id |-> item.id, name |-> item.name, arguments |-> item.input]>>
              q == [FinalizeToolCall(p) EXCEPT !.currentToolCall = started]
  <1>1. IsParser(q)
    <2>. HIDE DEF started
    <2>. QED BY FinalizedParser DEF IsParser
  <1>2. IsParser(FinalizeToolCall(q))
    <2>. HIDE DEF q
    <2>. QED BY <1>1, FinalizedParser
  <1>3. ProcessToolStart(p, item) \in {q, FinalizeToolCall(q)}
    BY DEF ProcessToolStart
  <1>4. IsParser(ProcessToolInput(p, item))
    BY DEF ProcessToolInput, IsParser
  <1>5. IsParser(ProcessToolStop(p))
    BY FinalizedParser DEF ProcessToolStop
  <1>. HIDE DEF q
  <1>. QED BY <1>1, <1>2, <1>3, <1>4, <1>5

LEMMA FeedIsPipeline ==
  ASSUME NEW pl, IsPipeline(pl), NEW item \in Items
  PROVE  LET fed == Feed(pl, item)
             kinds == KindsOf(fed.events)
             before == pl.thinking.state = "Streaming"
             after == fed.pipeline.thinking.state = "Streaming"
         IN  /\ IsPipeline(fed.pipeline) /\ AreEvents(fed.events)
             /\ fed.pipeline.thinking.handling = pl.thinking.handling
             /\ ("content" \in kinds => after) /\ (before => after /\ "thinking" \notin kinds)
             /\ "refusal" \in kinds <=> item.kind = "refusal"
             /\ "context_usage" \in kinds <=> item.kind = "context_usage"
  <1>. DEFINE fed == FeedItem(pl, item)
              last == TruncationDiagnosis(fed.pipeline.parser)
              kinds == KindsOf(fed.events)
              before == pl.thinking.state = "Streaming"
              after == fed.pipeline.thinking.state = "Streaming"
  <1>1. item.kind \in ItemKinds /\ (item.kind \in {"content", "native_thinking"} => IsSeq(item.text))
    BY ItemsAssumption DEF IsSeq
  <1>2. /\ IsPipeline(fed.pipeline) /\ AreEvents(fed.events)
        /\ fed.pipeline.thinking.handling = pl.thinking.handling
        /\ ("content" \in kinds => after) /\ (before => after /\ "thinking" \notin kinds)
        /\ "refusal" \in kinds <=> item.kind = "refusal"
        /\ "context_usage" \in kinds <=> item.kind = "context_usage"
    <2>1. CASE item.kind = "content" /\ Accepts(pl.parser, item.text)
      <3>. DEFINE t == ThinkingFeed(pl.thinking, item.text)
                  q == [pl EXCEPT !.parser.lastContent = item.text, !.thinking = t.parser]
                  a == TextEvent("thinking", t.thinking)
                  b == TextEvent("content", t.content)
      <3>1. fed = Fed(q, a \o b)
        BY <2>1 DEF FeedItem, FeedContent
      <3>2. /\ IsParsed(t, pl.thinking)
            /\ t.content # <<>> => t.parser.state = "Streaming"
            /\ before => t.thinking = <<>> /\ t.parser = pl.thinking
        BY <1>1, <2>1, FeedIsParsed DEF IsPipeline
      <3>. HIDE DEF t
      <3>3. IsPipeline(q) /\ q.thinking = t.parser
        BY <3>2 DEF IsPipeline, IsParser, IsParsed
      <3>4. /\ AreEvents(a) /\ KindsOf(a) = IF t.thinking = <<>> THEN {} ELSE {"thinking"}
            /\ AreEvents(b) /\ KindsOf(b) = IF t.content = <<>> THEN {} ELSE {"content"}
        BY <3>2, TextEvents DEF IsParsed
      <3>. HIDE DEF a, b, q, fed
      <3>5. AreEvents(a \o b) /\ KindsOf(a \o b) = KindsOf(a) \cup KindsOf(b)
        BY <3>4, JoinedEvents
      <3>6. fed.pipeline = q /\ fed.events = a \o b
        BY <3>1 DEF Fed
      <3>. QED BY <2>1, <3>2, <3>3, <3>4, <3>5, <3>6 DEF IsParsed
    <2>2. CASE item.kind = "content" /\ ~Accepts(pl.parser, item.text)
      <3>1. fed.pipeline = pl /\ fed.events = <<>>
        BY <2>2 DEF FeedItem, FeedContent, Fed
      <3>. HIDE DEF fed
      <3>. QED BY <2>2, <3>1, NoEvents
    <2>3. CASE item.kind \in {"tool_start", "tool_input", "tool_stop"}
      <3>. DEFINE parser == CASE item.kind = "tool_start" -> ProcessToolStart(pl.parser, item)
                              [] item.kind = "tool_input" -> ProcessToolInput(pl.parser, item)
                              [] item.kind = "tool_stop"  -> ProcessToolStop(pl.parser)
                  q == [pl EXCEPT !.parser = parser]
      <3>1. fed = Fed(q, <<>>)
        BY <2>3 DEF FeedItem, FeedTool
      <3>2. IsParser(parser)
        BY <2>3, ToolKeepsParser DEF IsPipeline
      <3>. HIDE DEF parser, fed
      <3>3. IsPipeline(q) /\ q.thinking = pl.thinking
        BY <3>2 DEF IsPipeline
      <3>4. fed.pipeline = q /\ fed.events = <<>>
        BY <3>1 DEF Fed
      <3>. HIDE DEF q
      <3>. QED BY <2>3, <3>3, <3>4, NoEvents
    <2>4. CASE item.kind \notin {"content", "tool_start", "tool_input", "tool_stop"}
      <3>1. fed.pipeline = pl /\ fed.events = <<item>>
        BY <2>4 DEF FeedItem, Fed
      <3>2. IsEvent(item) /\ item.kind # "thinking"
        BY <1>1, <2>4 DEF IsEvent, ItemKinds, EventKinds
      <3>. HIDE DEF fed
      <3>. QED BY <2>4, <3>1, <3>2, OneEvent
    <2>. QED BY <2>1, <2>2, <2>3, <2>4
  <1>3. /\ AreEvents(last) /\ KindsOf(last) \subseteq {"error"}
    <2>. HIDE DEF fed
    <2>. QED BY DiagnosisEvents
  <1>. DEFINE whole == Feed(pl, item)
  <1>4. whole.pipeline = fed.pipeline /\ whole.events = fed.events \o last
    BY DEF Feed, Fed
  <1>. HIDE DEF fed, last
  <1>5. AreEvents(fed.events \o last) /\ KindsOf(fed.events \o last) = kinds \cup KindsOf(last)
    BY <1>2, <1>3, JoinedEvents
  <1>. HIDE DEF whole
  <1>6. /\ IsPipeline(whole.pipeline) /\ AreEvents(whole.events)
        /\ whole.pipeline.thinking.handling = pl.thinking.handling
        /\ ("content" \in KindsOf(whole.events) => whole.pipeline.thinking.state = "Streaming")
        /\ (before => /\ whole.pipeline.thinking.state = "Streaming"
                      /\ "thinking" \notin KindsOf(whole.events))
        /\ "refusal" \in KindsOf(whole.events) <=> item.kind = "refusal"
        /\ "context_usage" \in KindsOf(whole.events) <=> item.kind = "context_usage"
    BY <1>2, <1>3, <1>4, <1>5
  <1>. QED BY <1>6 DEF whole

LEMMA LastEvents ==
  ASSUME NEW pl, IsPipeline(pl)
  PROVE  LET kinds == KindsOf(PipelineFinish(pl))
         IN  /\ AreEvents(PipelineFinish(pl))
             /\ (pl.thinking.state = "Streaming" => "thinking" \notin kinds)
             /\ "refusal" \notin kinds /\ "context_usage" \notin kinds
  <1>. DEFINE t     == ThinkingFinish(pl.thinking)
              calls == ParserFinish(pl.parser)
              a     == TextEvent("thinking", t.thinking)
              b     == TextEvent("content", t.content)
              c     == [i \in DOMAIN calls |-> [kind |-> "tool_use", call |-> calls[i]]]
              d     == TruncationDiagnosis(FinalizeToolCall(pl.parser))
  <1>1. /\ IsSeq(t.thinking) /\ IsSeq(t.content)
        /\ pl.thinking.state = "Streaming" => t.thinking = <<>>
    BY FinishIsParsed DEF IsPipeline
  <1>2. IsSeq(calls)
    <2>. DEFINE p == FinalizeToolCall(pl.parser)
    <2>1. IsSeq(p.toolCalls)
      BY FinalizedParser DEF IsPipeline, IsParser
    <2>. HIDE DEF p
    <2>2. IsSeq(DeduplicateToolCalls(p.toolCalls))
      BY <2>1, DeduplicatedIsSeq
    <2>. QED BY <2>2 DEF ParserFinish, p
  <1>. HIDE DEF t, calls
  <1>3. /\ AreEvents(a) /\ KindsOf(a) = IF t.thinking = <<>> THEN {} ELSE {"thinking"}
        /\ AreEvents(b) /\ KindsOf(b) = IF t.content = <<>> THEN {} ELSE {"content"}
    BY <1>1, TextEvents
  <1>4. AreEvents(c) /\ KindsOf(c) \subseteq {"tool_use"}
    BY <1>2, CallEvents
  <1>5. AreEvents(d) /\ KindsOf(d) \subseteq {"error"}
    BY DiagnosisEvents
  <1>6. PipelineFinish(pl) = a \o b \o c \o d
    BY DEF PipelineFinish, t, calls
  <1>. HIDE DEF a, b, c, d
  <1>7. AreEvents(a \o b) /\ KindsOf(a \o b) = KindsOf(a) \cup KindsOf(b)
    BY <1>3, JoinedEvents
  <1>8. AreEvents(a \o b \o c) /\ KindsOf(a \o b \o c) = KindsOf(a \o b) \cup KindsOf(c)
    BY <1>4, <1>7, JoinedEvents
  <1>9. AreEvents(a \o b \o c \o d) /\ KindsOf(a \o b \o c \o d) = KindsOf(a \o b \o c) \cup KindsOf(d)
    BY <1>5, <1>8, JoinedEvents
  <1>. QED BY <1>1, <1>3, <1>4, <1>5, <1>6, <1>7, <1>8, <1>9

-----------------------------------------------------------------------------
(* What the next event may be depends on little of a reply: its phase, how *)
(* many blocks are closed, the kind and the call of the open one, whether   *)
(* it holds calls and text, and the reason it ends for.                    *)
CursorFields == {"dialect", "phase", "closed", "kind", "call", "holds", "reason"}

IsCursor(c) == c = [f \in CursorFields |-> c[f]] /\ c.closed \in Nat

\* What an event does to it.
Opened(c, kind, call, more) == [c EXCEPT !.kind = kind, !.call = call, !.holds = @ \cup more]

Closed(c) == [c EXCEPT !.kind = "none", !.call = <<>>, !.closed = @ + 1]

Holding(c, more) == [c EXCEPT !.holds = @ \cup more]

InPhase(c, phase_, reason) == [c EXCEPT !.phase = phase_, !.reason = reason]

Unless(empty, thing) == IF empty THEN {} ELSE {thing}

\* An event that adds to the open block.
ToOpenBlock(c, e) ==
  c.dialect = "anthropic" /\ c.phase = "body" /\ c.kind # "none" /\ e.index = c.closed

\* A chunk of a chat completion.
AsChunk(c) == c.dialect = "openai" /\ c.phase = "body"

Starts(c, e, d) ==
  /\ e.type = "message_start" /\ c.phase = "before"
  /\ d = InPhase(c, "body", c.reason)

OpensBlock(c, e, d) ==
  /\ e.type = "content_block_start" /\ c.dialect = "anthropic" /\ c.phase = "body"
  /\ c.kind = "none" /\ e.index = c.closed /\ e.kind # "none"
  /\ d = Opened(c, e.kind, e.call, Unless(e.call = <<>>, "call"))

AddsText(c, e, d) ==
  /\ e.type = "content_block_delta" /\ ToOpenBlock(c, e) /\ IsSeq(e.text)
  /\ d = Holding(c, Unless(c.kind # "text" \/ e.text = <<>>, "text"))

\* The call that is open has an empty input.
AddsInput(c, e, d) ==
  /\ e.type = "input_json_delta" /\ ToOpenBlock(c, e)
  /\ \E call : c.call = <<[call EXCEPT !.arguments = "{}"]>>
  /\ d = Opened(c, c.kind, <<[c.call[1] EXCEPT !.arguments = e.arguments]>>, {})

AddsSignature(c, e, d) == e.type = "signature_delta" /\ ToOpenBlock(c, e) /\ d = c

ClosesBlock(c, e, d) ==
  /\ e.type = "content_block_stop" /\ ToOpenBlock(c, e)
  /\ d = Closed(c)

GivesReason(c, e, d) ==
  /\ e.type \in {"message_delta", "finish"} /\ c.phase = "body" /\ c.kind = "none"
  /\ e.reason # "none"
  /\ d = InPhase(c, "ended", e.reason)

Ends(c, e, d) ==
  /\ e.type \in {"message_stop", "done"} /\ c.phase = "ended"
  /\ d = InPhase(c, "done", c.reason)

AddsContent(c, e, d) ==
  /\ e.type = "content" /\ AsChunk(c) /\ IsSeq(e.text)
  /\ d = Holding(c, Unless(e.text = <<>>, "text"))

AddsReasoning(c, e, d) ==
  e.type = "reasoning_content" /\ AsChunk(c) /\ IsSeq(e.text) /\ d = c

BringsCalls(c, e, d) ==
  /\ e.type = "tool_calls" /\ AsChunk(c) /\ IsSeq(e.calls)
  /\ d = Holding(c, Unless(e.calls = <<>>, "call"))

Moves(c, e, d) ==
  \/ Starts(c, e, d) \/ OpensBlock(c, e, d) \/ AddsText(c, e, d) \/ AddsInput(c, e, d)
  \/ AddsSignature(c, e, d) \/ ClosesBlock(c, e, d) \/ GivesReason(c, e, d) \/ Ends(c, e, d)
  \/ AddsContent(c, e, d) \/ AddsReasoning(c, e, d) \/ BringsCalls(c, e, d)

\* The events still to be written lead from one cursor to another.
IsPath(t, out) ==
  /\ DOMAIN t = 0 .. Len(out)
  /\ \A i \in 1 .. Len(out) : Moves(t[i - 1], out[i], t[i])

Leads(c, out, d) == \E t : IsPath(t, out) /\ t[0] = c /\ t[Len(out)] = d

LEMMA LeadsNowhere ==
  ASSUME NEW c
  PROVE  Leads(c, <<>>, c) /\ \A d : Leads(c, <<>>, d) => d = c
  <1>. DEFINE t == [i \in 0 .. 0 |-> c]
  <1>1. Len(<<>>) = 0 /\ 1 .. 0 = {} /\ 0 \in 0 .. 0
    OBVIOUS
  <1>2. IsPath(t, <<>>) /\ t[0] = c
    BY <1>1 DEF IsPath
  <1>. HIDE DEF t
  <1>. QED BY <1>1, <1>2 DEF Leads

LEMMA LeadsOn ==
  ASSUME NEW c, NEW out, IsSeq(out), NEW d, Leads(c, out, d), NEW e, NEW b, Moves(d, e, b)
  PROVE  IsSeq(Append(out, e)) /\ Leads(c, Append(out, e), b)
  <1>. DEFINE more == Append(out, e)
              n == Len(out)
  <1>1. PICK t : IsPath(t, out) /\ t[0] = c /\ t[n] = d
    BY DEF Leads
  <1>2. /\ n \in Nat /\ IsSeq(more) /\ Len(more) = n + 1 /\ more[n + 1] = e
        /\ \A i \in 1 .. n : more[i] = out[i]
    BY SeqFacts, AppendFacts
  <1>. DEFINE u == [i \in 0 .. n + 1 |-> IF i = n + 1 THEN b ELSE t[i]]
  <1>. HIDE DEF more, n
  <1>3. /\ DOMAIN u = 0 .. n + 1 /\ u[0] = c /\ u[n] = d /\ u[n + 1] = b
        /\ \A i \in 1 .. n : u[i] = t[i] /\ u[i - 1] = t[i - 1]
    BY <1>1, <1>2
  <1>. HIDE DEF u
  <1>4. ASSUME NEW i \in 1 .. n + 1 PROVE Moves(u[i - 1], more[i], u[i])
    <2>1. CASE i = n + 1
      <3>1. i - 1 = n
        BY <1>2, <2>1
      <3>. QED BY <1>2, <1>3, <2>1, <3>1
    <2>2. CASE i # n + 1
      <3>1. i \in 1 .. n
        BY <1>2, <2>2
      <3>. QED BY <1>1, <1>2, <1>3, <3>1 DEF IsPath, n
    <2>. QED BY <2>1, <2>2
  <1>5. IsPath(u, more)
    BY <1>2, <1>3, <1>4 DEF IsPath
  <1>6. Leads(c, more, b)
    BY <1>2, <1>3, <1>5 DEF Leads
  <1>. QED BY <1>2, <1>6 DEF more

LEMMA LeadsFirst ==
  ASSUME NEW c, NEW out, IsSeq(out), out # <<>>, NEW d, Leads(c, out, d)
  PROVE  IsSeq(Tail(out)) /\ \E b : Moves(c, Head(out), b) /\ Leads(b, Tail(out), d)
  <1>. DEFINE rest == Tail(out)
              n == Len(out)
  <1>1. PICK t : IsPath(t, out) /\ t[0] = c /\ t[n] = d
    BY DEF Leads
  <1>2. /\ n \in Nat \ {0} /\ IsSeq(rest) /\ Len(rest) = n - 1 /\ Head(out) = out[1]
        /\ \A i \in 1 .. n - 1 : rest[i] = out[i + 1]
    BY SeqFacts, TailIsSeq
  <1>. DEFINE u == [i \in 0 .. n - 1 |-> t[i + 1]]
  <1>. HIDE DEF rest, n
  <1>3. /\ DOMAIN u = 0 .. n - 1 /\ u[0] = t[1] /\ u[n - 1] = d
        /\ \A i \in 1 .. n - 1 : u[i] = t[i + 1] /\ u[i - 1] = t[i]
    BY <1>1, <1>2
  <1>. HIDE DEF u
  <1>4. ASSUME NEW i \in 1 .. n - 1 PROVE Moves(u[i - 1], rest[i], u[i])
    <2>1. i + 1 \in 1 .. n /\ (i + 1) - 1 = i
      BY <1>2
    <2>2. Moves(t[(i + 1) - 1], out[i + 1], t[i + 1])
      BY <1>1, <2>1 DEF IsPath, n
    <2>. QED BY <1>2, <1>3, <2>1, <2>2
  <1>5. Moves(c, out[1], u[0])
    <2>1. 1 \in 1 .. n
      BY <1>2
    <2>2. Moves(t[1 - 1], out[1], t[1])
      BY <1>1, <2>1 DEF IsPath, n
    <2>. QED BY <1>1, <1>3, <2>2
  <1>6. IsPath(u, rest)
    BY <1>2, <1>3, <1>4 DEF IsPath
  <1>7. Leads(u[0], rest, d)
    BY <1>2, <1>3, <1>6 DEF Leads
  <1>. QED BY <1>2, <1>5, <1>7 DEF rest

-----------------------------------------------------------------------------
(* The formatter of the dialect of Anthropic.                              *)
AnthropicFields ==
  {"handling", "current", "thinkingOpen", "thinkingAt", "textOpen", "textAt", "fullContent",
   "toolBlockCount", "receivedContextUsage", "refused", "truncatedTools", "out"}

\* Of the two blocks one at most is open, under the index of now.
IsAnthropic(f) ==
  /\ f = [x \in AnthropicFields |-> f[x]]
  /\ f.current \in Nat /\ f.toolBlockCount \in Nat
  /\ ~(f.thinkingOpen /\ f.textOpen)
  /\ (f.thinkingOpen => f.thinkingAt = f.current) /\ (f.textOpen => f.textAt = f.current)
  /\ IsSeq(f.fullContent) /\ IsSeq(f.out)

\* Where a reply is when all is written.
IsAt(f, c) ==
  /\ IsCursor(c) /\ c.dialect = "anthropic" /\ c.phase = "body" /\ c.closed = f.current
  /\ c.kind = IF f.thinkingOpen THEN "thinking" ELSE IF f.textOpen THEN "text" ELSE "none"
  /\ c.call = <<>> /\ c.reason = "none" /\ ("call" \in c.holds <=> f.toolBlockCount > 0)

\* What f has to write leads from the cursor to where f is, and the reply then holds
\* what held says.
Writes(cursor, f, held) ==
  /\ IsAnthropic(f)
  /\ \E c : Leads(cursor, f.out, c) /\ IsAt(f, c) /\ held \subseteq c.holds

\* What a call of the formatter leaves alone.
Alters(f, g, fields) ==
  /\ g = [x \in AnthropicFields |-> g[x]]
  /\ \A x \in AnthropicFields \ fields : g[x] = f[x]

\* What the operations on blocks change.
BlockFields == {"current", "thinkingOpen", "thinkingAt", "textOpen", "textAt", "out"}

LEMMA ClosedCursor ==
  ASSUME NEW c, IsCursor(c)
  PROVE  LET d == Closed(c)
         IN  /\ IsCursor(d) /\ d.closed = c.closed + 1 /\ d.kind = "none" /\ d.call = <<>>
             /\ d.dialect = c.dialect /\ d.phase = c.phase /\ d.holds = c.holds
             /\ d.reason = c.reason
  <1>. DEFINE d == Closed(c)
  <1>1. c.closed + 1 \in Nat
    BY DEF IsCursor
  <1>2. d = [x \in CursorFields |-> d[x]]
    BY DEF IsCursor, CursorFields, Closed
  <1>3. d.kind = "none" /\ d.call = <<>> /\ d.closed = c.closed + 1
    BY DEF IsCursor, CursorFields, Closed
  <1>4. d.dialect = c.dialect /\ d.phase = c.phase /\ d.reason = c.reason /\ d.holds = c.holds
    BY DEF IsCursor, CursorFields, Closed
  <1>. HIDE DEF d
  <1>5. IsCursor(d)
    BY <1>1, <1>2, <1>3 DEF IsCursor
  <1>. QED BY <1>3, <1>4, <1>5 DEF d

LEMMA OpenedCursor ==
  ASSUME NEW c, IsCursor(c), NEW kind, NEW call, NEW more
  PROVE  LET d == Opened(c, kind, call, more)
         IN  /\ IsCursor(d) /\ d.kind = kind /\ d.call = call /\ d.holds = c.holds \cup more
             /\ d.dialect = c.dialect /\ d.phase = c.phase /\ d.closed = c.closed
             /\ d.reason = c.reason
  <1>. DEFINE d == Opened(c, kind, call, more)
  <1>1. d = [x \in CursorFields |-> d[x]]
    BY DEF IsCursor, CursorFields, Opened
  <1>2. d.kind = kind /\ d.call = call /\ d.holds = c.holds \cup more
    BY DEF IsCursor, CursorFields, Opened
  <1>3. /\ d.dialect = c.dialect /\ d.phase = c.phase /\ d.reason = c.reason
        /\ d.closed = c.closed
    BY DEF IsCursor, CursorFields, Opened
  <1>. HIDE DEF d
  <1>4. IsCursor(d)
    BY <1>1, <1>3 DEF IsCursor
  <1>. QED BY <1>2, <1>3, <1>4 DEF d

LEMMA HoldingCursor ==
  ASSUME NEW c, IsCursor(c), NEW more
  PROVE  LET d == Holding(c, more)
         IN  /\ IsCursor(d) /\ d.holds = c.holds \cup more /\ d.kind = c.kind /\ d.call = c.call
             /\ d.dialect = c.dialect /\ d.phase = c.phase /\ d.closed = c.closed
             /\ d.reason = c.reason
  <1>. DEFINE d == Holding(c, more)
  <1>1. d = [x \in CursorFields |-> d[x]]
    BY DEF IsCursor, CursorFields, Holding
  <1>2. /\ d.kind = c.kind /\ d.call = c.call /\ d.holds = c.holds \cup more
        /\ d.dialect = c.dialect /\ d.phase = c.phase /\ d.reason = c.reason
        /\ d.closed = c.closed
    BY DEF IsCursor, CursorFields, Holding
  <1>. HIDE DEF d
  <1>3. IsCursor(d)
    BY <1>1, <1>2 DEF IsCursor
  <1>. QED BY <1>2, <1>3 DEF d

LEMMA NothingWritten ==
  ASSUME NEW cursor, NEW f, NEW held, Writes(cursor, f, held), NEW g, IsSeq(g.fullContent),
         Alters(f, g, {"fullContent", "refused", "receivedContextUsage", "truncatedTools"})
  PROVE  Writes(cursor, g, held)
  <1>1. /\ g.current = f.current /\ g.toolBlockCount = f.toolBlockCount /\ g.out = f.out
        /\ g.thinkingAt = f.thinkingAt /\ g.textAt = f.textAt
        /\ g.thinkingOpen = f.thinkingOpen /\ g.textOpen = f.textOpen
    BY DEF Alters, AnthropicFields
  <1>2. IsAnthropic(g)
    BY <1>1 DEF Writes, IsAnthropic, Alters
  <1>3. \A c : IsAt(f, c) => IsAt(g, c)
    BY <1>1 DEF IsAt
  <1>. QED BY <1>1, <1>2, <1>3 DEF Writes

LEMMA BlockCloses ==
  ASSUME NEW cursor, NEW f, NEW held, Writes(cursor, f, held), f.thinkingOpen \/ f.textOpen,
         NEW e, e.type = "content_block_stop", e.index = f.current,
         NEW g, Alters(f, g, BlockFields), g.out = Append(f.out, e), g.current = f.current + 1,
         ~g.thinkingOpen, ~g.textOpen
  PROVE  Writes(cursor, g, held)
  <1>1. PICK c : Leads(cursor, f.out, c) /\ IsAt(f, c) /\ held \subseteq c.holds
    BY DEF Writes
  <1>2. g.toolBlockCount = f.toolBlockCount /\ g.fullContent = f.fullContent
    BY DEF Alters, AnthropicFields, BlockFields
  <1>. DEFINE d == Closed(c)
  <1>3. c.kind # "none" /\ ToOpenBlock(c, e) /\ IsCursor(c) /\ c.closed = f.current
    BY <1>1 DEF IsAt, ToOpenBlock
  <1>4. Moves(c, e, d)
    BY <1>3 DEF ClosesBlock, Moves
  <1>5. /\ IsCursor(d) /\ d.closed = c.closed + 1 /\ d.kind = "none" /\ d.call = <<>>
        /\ d.dialect = c.dialect /\ d.phase = c.phase /\ d.holds = c.holds /\ d.reason = c.reason
    BY <1>3, ClosedCursor
  <1>. HIDE DEF d
  <1>6. IsSeq(g.out) /\ Leads(cursor, g.out, d)
    BY <1>1, <1>4, LeadsOn DEF Writes, IsAnthropic
  <1>7. IsAt(g, d) /\ held \subseteq d.holds
    BY <1>1, <1>2, <1>5 DEF IsAt
  <1>8. IsAnthropic(g)
    BY <1>2, <1>6 DEF Writes, IsAnthropic, Alters
  <1>. QED BY <1>6, <1>7, <1>8 DEF Writes

LEMMA BlockOpens ==
  ASSUME NEW cursor, NEW f, NEW held, Writes(cursor, f, held), ~f.thinkingOpen, ~f.textOpen,
         NEW kind \in {"thinking", "text"},
         NEW e, e.type = "content_block_start", e.index = f.current, e.kind = kind, e.call = <<>>,
         NEW g, Alters(f, g, BlockFields), g.out = Append(f.out, e), g.current = f.current,
         kind = "thinking" => g.thinkingOpen /\ ~g.textOpen /\ g.thinkingAt = f.current,
         kind = "text" => g.textOpen /\ ~g.thinkingOpen /\ g.textAt = f.current
  PROVE  Writes(cursor, g, held)
  <1>1. PICK c : Leads(cursor, f.out, c) /\ IsAt(f, c) /\ held \subseteq c.holds
    BY DEF Writes
  <1>2. g.toolBlockCount = f.toolBlockCount /\ g.fullContent = f.fullContent
    BY DEF Alters, AnthropicFields, BlockFields
  <1>. DEFINE d == Opened(c, e.kind, e.call, Unless(e.call = <<>>, "call"))
  <1>3. c.kind = "none" /\ IsCursor(c) /\ c.closed = f.current /\ c.phase = "body"
        /\ c.dialect = "anthropic"
    BY <1>1 DEF IsAt
  <1>4. Moves(c, e, d)
    BY <1>3 DEF OpensBlock, Moves
  <1>5. /\ IsCursor(d) /\ d.kind = kind /\ d.call = <<>> /\ c.holds \subseteq d.holds
        /\ ("call" \in d.holds <=> "call" \in c.holds)
        /\ d.dialect = c.dialect /\ d.phase = c.phase /\ d.closed = c.closed
        /\ d.reason = c.reason
    BY <1>3, OpenedCursor DEF Unless
  <1>. HIDE DEF d
  <1>6. IsSeq(g.out) /\ Leads(cursor, g.out, d)
    BY <1>1, <1>4, LeadsOn DEF Writes, IsAnthropic
  <1>7. kind = IF g.thinkingOpen THEN "thinking" ELSE IF g.textOpen THEN "text" ELSE "none"
    OBVIOUS
  <1>8. IsAt(g, d) /\ held \subseteq d.holds
    BY <1>1, <1>2, <1>5, <1>7 DEF IsAt
  <1>9. IsAnthropic(g)
    BY <1>2, <1>6 DEF Writes, IsAnthropic, Alters
  <1>. QED BY <1>6, <1>8, <1>9 DEF Writes

LEMMA BlockGrows ==
  ASSUME NEW cursor, NEW f, NEW held, Writes(cursor, f, held), f.thinkingOpen \/ f.textOpen,
         NEW e, e.type = "content_block_delta", e.index = f.current, IsSeq(e.text),
         NEW g, Alters(f, g, {"out"}), g.out = Append(f.out, e)
  PROVE  Writes(cursor, g, held \cup Unless(~f.textOpen \/ e.text = <<>>, "text"))
  <1>1. PICK c : Leads(cursor, f.out, c) /\ IsAt(f, c) /\ held \subseteq c.holds
    BY DEF Writes
  <1>2. /\ g.current = f.current /\ g.toolBlockCount = f.toolBlockCount
        /\ g.thinkingAt = f.thinkingAt /\ g.textAt = f.textAt /\ g.fullContent = f.fullContent
        /\ g.thinkingOpen = f.thinkingOpen /\ g.textOpen = f.textOpen
    BY DEF Alters, AnthropicFields
  <1>. DEFINE more == Unless(c.kind # "text" \/ e.text = <<>>, "text")
              d == Holding(c, more)
  <1>3. ToOpenBlock(c, e) /\ IsCursor(c) /\ (f.textOpen <=> c.kind = "text")
    BY <1>1 DEF IsAt, ToOpenBlock, Writes, IsAnthropic
  <1>4. Moves(c, e, d)
    BY <1>3 DEF AddsText, Moves
  <1>5. more \subseteq {"text"} /\ Unless(~f.textOpen \/ e.text = <<>>, "text") = more
    BY <1>3 DEF Unless
  <1>. HIDE DEF more
  <1>7. /\ IsCursor(d) /\ d.holds = c.holds \cup more /\ d.kind = c.kind /\ d.call = c.call
        /\ d.dialect = c.dialect /\ d.phase = c.phase /\ d.closed = c.closed
        /\ d.reason = c.reason
    BY <1>3, HoldingCursor
  <1>. HIDE DEF d
  <1>8. IsSeq(g.out) /\ Leads(cursor, g.out, d)
    BY <1>1, <1>4, LeadsOn DEF Writes, IsAnthropic
  <1>9. IsAt(g, d) /\ held \cup more \subseteq d.holds
    BY <1>1, <1>2, <1>5, <1>7 DEF IsAt
  <1>10. IsAnthropic(g)
    BY <1>2, <1>8 DEF Writes, IsAnthropic, Alters
  <1>. QED BY <1>5, <1>8, <1>9, <1>10 DEF Writes

LEMMA BlockSigned ==
  ASSUME NEW cursor, NEW f, NEW held, Writes(cursor, f, held), f.thinkingOpen \/ f.textOpen,
         NEW e, e.type = "signature_delta", e.index = f.current,
         NEW g, Alters(f, g, {"out"}), g.out = Append(f.out, e)
  PROVE  Writes(cursor, g, held)
  <1>1. PICK c : Leads(cursor, f.out, c) /\ IsAt(f, c) /\ held \subseteq c.holds
    BY DEF Writes
  <1>2. /\ g.current = f.current /\ g.toolBlockCount = f.toolBlockCount
        /\ g.thinkingAt = f.thinkingAt /\ g.textAt = f.textAt /\ g.fullContent = f.fullContent
        /\ g.thinkingOpen = f.thinkingOpen /\ g.textOpen = f.textOpen
    BY DEF Alters, AnthropicFields
  <1>3. Moves(c, e, c)
    BY <1>1 DEF IsAt, ToOpenBlock, AddsSignature, Moves
  <1>4. IsSeq(g.out) /\ Leads(cursor, g.out, c)
    BY <1>1, <1>3, LeadsOn DEF Writes, IsAnthropic
  <1>5. IsAt(g, c)
    BY <1>1, <1>2 DEF IsAt
  <1>6. IsAnthropic(g)
    BY <1>2, <1>4 DEF Writes, IsAnthropic, Alters
  <1>. QED BY <1>1, <1>4, <1>5, <1>6 DEF Writes

LEMMA AltersTwice ==
  ASSUME NEW f, NEW g, NEW h, NEW S, NEW T, Alters(f, g, S), Alters(g, h, T)
  PROVE  Alters(f, h, S \cup T)
  BY DEF Alters

\* The calls of the block indexes.
LEMMA ClosesThinking ==
  ASSUME NEW cursor, NEW f, NEW held, Writes(cursor, f, held)
  PROVE  LET g == Anthropic!CloseThinking(f)
         IN  /\ Writes(cursor, g, held) /\ Alters(f, g, BlockFields)
             /\ ~g.thinkingOpen /\ g.textOpen = f.textOpen
  <1>. DEFINE g == Anthropic!CloseThinking(f)
  <1>1. CASE f.thinkingOpen
    <2>. DEFINE e == Anthropic!BlockStop(f.thinkingAt)
                out == Append(f.out, e)
    <2>1. g = [f EXCEPT !.thinkingOpen = FALSE, !.current = @ + 1, !.out = out]
      BY <1>1 DEF Anthropic!CloseThinking, Anthropic!Emit, Writes, IsAnthropic, AnthropicFields
    <2>2. e.type = "content_block_stop" /\ e.index = f.current
      BY <1>1 DEF Anthropic!BlockStop, Writes, IsAnthropic
    <2>. HIDE DEF e, g, out
    <2>3. Alters(f, g, {"thinkingOpen", "current", "out"})
          /\ ~g.thinkingOpen /\ g.out = out /\ g.current = f.current + 1
      BY <2>1 DEF Writes, IsAnthropic, Alters, AnthropicFields
    <2>4. Alters(f, g, BlockFields) /\ g.textOpen = f.textOpen
      BY <2>3 DEF Alters, BlockFields, AnthropicFields
    <2>5. ~g.textOpen
      BY <1>1, <2>4 DEF Writes, IsAnthropic
    <2>6. Writes(cursor, g, held)
      BY <1>1, <2>2, <2>3, <2>4, <2>5, BlockCloses DEF out
    <2>. QED BY <2>3, <2>4, <2>6 DEF g
  <1>2. CASE ~f.thinkingOpen
    BY <1>2 DEF Anthropic!CloseThinking, Alters, Writes, IsAnthropic
  <1>. QED BY <1>1, <1>2

LEMMA ClosesText ==
  ASSUME NEW cursor, NEW f, NEW held, Writes(cursor, f, held)
  PROVE  LET g == Anthropic!CloseText(f)
         IN  /\ Writes(cursor, g, held) /\ Alters(f, g, BlockFields)
             /\ ~g.textOpen /\ g.thinkingOpen = f.thinkingOpen
  <1>. DEFINE g == Anthropic!CloseText(f)
  <1>1. CASE f.textOpen
    <2>. DEFINE e == Anthropic!BlockStop(f.textAt)
                out == Append(f.out, e)
    <2>1. g = [f EXCEPT !.textOpen = FALSE, !.current = @ + 1, !.out = out]
      BY <1>1 DEF Anthropic!CloseText, Anthropic!Emit, Writes, IsAnthropic, AnthropicFields
    <2>2. e.type = "content_block_stop" /\ e.index = f.current
      BY <1>1 DEF Anthropic!BlockStop, Writes, IsAnthropic
    <2>. HIDE DEF e, g, out
    <2>3. Alters(f, g, {"textOpen", "current", "out"})
          /\ ~g.textOpen /\ g.out = out /\ g.current = f.current + 1
      BY <2>1 DEF Writes, IsAnthropic, Alters, AnthropicFields
    <2>4. Alters(f, g, BlockFields) /\ g.thinkingOpen = f.thinkingOpen
      BY <2>3 DEF Alters, BlockFields, AnthropicFields
    <2>5. ~g.thinkingOpen
      BY <1>1, <2>4 DEF Writes, IsAnthropic
    <2>6. Writes(cursor, g, held)
      BY <1>1, <2>2, <2>3, <2>4, <2>5, BlockCloses DEF out
    <2>. QED BY <2>3, <2>4, <2>6 DEF g
  <1>2. CASE ~f.textOpen
    BY <1>2 DEF Anthropic!CloseText, Alters, Writes, IsAnthropic
  <1>. QED BY <1>1, <1>2

LEMMA ClosesBlocks ==
  ASSUME NEW cursor, NEW f, NEW held, Writes(cursor, f, held)
  PROVE  LET g == Anthropic!CloseOpenBlocks(f)
         IN  /\ Writes(cursor, g, held) /\ Alters(f, g, BlockFields)
             /\ ~g.thinkingOpen /\ ~g.textOpen
  <1>. DEFINE g == Anthropic!CloseThinking(f)
              h == Anthropic!CloseText(g)
  <1>1. Writes(cursor, g, held) /\ Alters(f, g, BlockFields) /\ ~g.thinkingOpen
    BY ClosesThinking
  <1>2. h = Anthropic!CloseOpenBlocks(f)
    BY DEF Anthropic!CloseOpenBlocks
  <1>. HIDE DEF g
  <1>3. /\ Writes(cursor, h, held) /\ Alters(g, h, BlockFields)
        /\ ~h.textOpen /\ h.thinkingOpen = g.thinkingOpen
    BY <1>1, ClosesText
  <1>. HIDE DEF h
  <1>4. Alters(f, h, BlockFields)
    BY <1>1, <1>3 DEF Alters
  <1>. QED BY <1>1, <1>2, <1>3, <1>4

LEMMA OpensThinking ==
  ASSUME NEW cursor, NEW f, NEW held, Writes(cursor, f, held), ~f.textOpen
  PROVE  LET g == Anthropic!OpenThinking(f)
         IN  /\ Writes(cursor, g, held) /\ Alters(f, g, BlockFields)
             /\ g.thinkingOpen /\ ~g.textOpen
  <1>. DEFINE g == Anthropic!OpenThinking(f)
  <1>1. CASE ~f.thinkingOpen
    <2>. DEFINE e == Anthropic!BlockStart(f.current, "thinking", <<>>)
                out == Append(f.out, e)
    <2>1. g = [f EXCEPT !.thinkingOpen = TRUE, !.thinkingAt = f.current, !.out = out]
      BY <1>1 DEF Anthropic!OpenThinking, Anthropic!Emit, Writes, IsAnthropic, AnthropicFields
    <2>2. /\ e.type = "content_block_start" /\ e.index = f.current /\ e.kind = "thinking"
          /\ e.call = <<>>
      BY DEF Anthropic!BlockStart
    <2>. HIDE DEF e, g, out
    <2>3. Alters(f, g, {"thinkingOpen", "thinkingAt", "out"})
          /\ g.thinkingOpen /\ g.out = out /\ g.thinkingAt = f.current
      BY <2>1 DEF Writes, IsAnthropic, Alters, AnthropicFields
    <2>4. Alters(f, g, BlockFields) /\ g.textOpen = f.textOpen /\ g.current = f.current
      BY <2>3 DEF Alters, BlockFields, AnthropicFields
    <2>5. PICK kind \in {"thinking", "text"} : kind = "thinking"
      OBVIOUS
    <2>6. Writes(cursor, g, held)
      BY <1>1, <2>2, <2>3, <2>4, <2>5, BlockOpens DEF out
    <2>. QED BY <2>3, <2>4, <2>6 DEF g
  <1>2. CASE f.thinkingOpen
    BY <1>2 DEF Anthropic!OpenThinking, Alters, Writes, IsAnthropic
  <1>. QED BY <1>1, <1>2

LEMMA OpensText ==
  ASSUME NEW cursor, NEW f, NEW held, Writes(cursor, f, held), ~f.thinkingOpen
  PROVE  LET g == Anthropic!OpenText(f)
         IN  /\ Writes(cursor, g, held) /\ Alters(f, g, BlockFields)
             /\ g.textOpen /\ ~g.thinkingOpen
  <1>. DEFINE g == Anthropic!OpenText(f)
  <1>1. CASE ~f.textOpen
    <2>. DEFINE e == Anthropic!BlockStart(f.current, "text", <<>>)
                out == Append(f.out, e)
    <2>1. g = [f EXCEPT !.textOpen = TRUE, !.textAt = f.current, !.out = out]
      BY <1>1 DEF Anthropic!OpenText, Anthropic!Emit, Writes, IsAnthropic, AnthropicFields
    <2>2. /\ e.type = "content_block_start" /\ e.index = f.current /\ e.kind = "text"
          /\ e.call = <<>>
      BY DEF Anthropic!BlockStart
    <2>. HIDE DEF e, g, out
    <2>3. Alters(f, g, {"textOpen", "textAt", "out"})
          /\ g.textOpen /\ g.out = out /\ g.textAt = f.current
      BY <2>1 DEF Writes, IsAnthropic, Alters, AnthropicFields
    <2>4. Alters(f, g, BlockFields) /\ g.thinkingOpen = f.thinkingOpen /\ g.current = f.current
      BY <2>3 DEF Alters, BlockFields, AnthropicFields
    <2>5. PICK kind \in {"thinking", "text"} : kind = "text"
      OBVIOUS
    <2>6. Writes(cursor, g, held)
      BY <1>1, <2>2, <2>3, <2>4, <2>5, BlockOpens DEF out
    <2>. QED BY <2>3, <2>4, <2>6 DEF g
  <1>2. CASE f.textOpen
    BY <1>2 DEF Anthropic!OpenText, Alters, Writes, IsAnthropic
  <1>. QED BY <1>1, <1>2

LEMMA EmitsEvent ==
  ASSUME NEW f, IsAnthropic(f), NEW e
  PROVE  LET g == Anthropic!Emit(f, e) IN Alters(f, g, {"out"}) /\ g.out = Append(f.out, e)
  <1>. DEFINE g == Anthropic!Emit(f, e)
              out == Append(f.out, e)
  <1>1. g = [f EXCEPT !.out = out]
    BY DEF Anthropic!Emit
  <1>. HIDE DEF g, out
  <1>2. Alters(f, g, {"out"}) /\ g.out = out
    BY <1>1 DEF IsAnthropic, Alters, AnthropicFields
  <1>. QED BY <1>2 DEF g, out

\* A block that is opened, given its call if it has one, and closed.
LEMMA EmitsToolBlock ==
  ASSUME NEW cursor, NEW f, NEW held, Writes(cursor, f, held), ~f.thinkingOpen, ~f.textOpen,
         NEW call
  PROVE  LET g == Anthropic!EmitToolUseBlock(f, call)
         IN  /\ Writes(cursor, g, held) /\ Alters(f, g, {"current", "toolBlockCount", "out"})
             /\ ~g.thinkingOpen /\ ~g.textOpen /\ g.toolBlockCount = f.toolBlockCount + 1
  <1>. DEFINE g == Anthropic!EmitToolUseBlock(f, call)
              empty == [call EXCEPT !.arguments = "{}"]
              start == Anthropic!BlockStart(f.current, "tool_use", <<empty>>)
              input == Anthropic!InputJSONDelta(f.current, call.arguments)
              stop  == Anthropic!BlockStop(f.current)
              out   == f.out \o <<start, input, stop>>
  <1>1. g = [f EXCEPT !.current = @ + 1, !.out = out, !.toolBlockCount = @ + 1]
    BY DEF Anthropic!EmitToolUseBlock, Anthropic!ReserveToolBlock, Writes, IsAnthropic, AnthropicFields
  <1>2. PICK c : Leads(cursor, f.out, c) /\ IsAt(f, c) /\ held \subseteq c.holds
    BY DEF Writes
  <1>3. /\ start.type = "content_block_start" /\ start.index = f.current
        /\ start.kind = "tool_use" /\ start.call = <<empty>> /\ start.call # <<>>
        /\ input.type = "input_json_delta" /\ input.index = f.current
        /\ stop.type = "content_block_stop" /\ stop.index = f.current
    BY DEF Anthropic!BlockStart, Anthropic!InputJSONDelta, Anthropic!BlockStop
  <1>4. \E x : <<empty>> = <<[x EXCEPT !.arguments = "{}"]>>
    OBVIOUS
  <1>. HIDE DEF empty, start, input, stop
  <1>. DEFINE c1 == Opened(c, start.kind, start.call, Unless(start.call = <<>>, "call"))
              filled == <<[c1.call[1] EXCEPT !.arguments = input.arguments]>>
              c2 == Opened(c1, c1.kind, filled, {})
              c3 == Closed(c2)
  <1>5. c.kind = "none" /\ IsCursor(c) /\ c.closed = f.current /\ c.phase = "body"
        /\ c.dialect = "anthropic"
    BY <1>2 DEF IsAt
  <1>6. Moves(c, start, c1)
    BY <1>3, <1>5 DEF OpensBlock, Moves
  <1>7. /\ IsCursor(c1) /\ c1.kind = "tool_use" /\ c1.call = <<empty>> /\ c1.phase = "body"
        /\ c1.holds = c.holds \cup {"call"} /\ c1.dialect = "anthropic"
        /\ c1.closed = f.current /\ c1.reason = c.reason
    BY <1>3, <1>5, OpenedCursor DEF Unless
  <1>. HIDE DEF c1
  <1>8. Moves(c1, input, c2)
    <2>1. \E x : c1.call = <<[x EXCEPT !.arguments = "{}"]>>
      BY <1>4, <1>7
    <2>2. c2 = Opened(c1, c1.kind, <<[c1.call[1] EXCEPT !.arguments = input.arguments]>>, {})
      OBVIOUS
    <2>3. input.type = "input_json_delta" /\ ToOpenBlock(c1, input)
      BY <1>3, <1>7 DEF ToOpenBlock
    <2>. HIDE DEF c2
    <2>4. AddsInput(c1, input, c2)
      BY <2>1, <2>2, <2>3 DEF AddsInput
    <2>. QED BY <2>4 DEF Moves
  <1>9. /\ IsCursor(c2) /\ c2.kind = "tool_use" /\ c2.phase = "body"
        /\ c2.holds = c.holds \cup {"call"} /\ c2.dialect = "anthropic"
        /\ c2.closed = f.current /\ c2.reason = c.reason
    <2>. HIDE DEF filled
    <2>. QED BY <1>7, OpenedCursor
  <1>. HIDE DEF c2
  <1>10. Moves(c2, stop, c3)
    BY <1>3, <1>9 DEF ClosesBlock, ToOpenBlock, Moves
  <1>11. /\ IsCursor(c3) /\ c3.kind = "none" /\ c3.call = <<>> /\ c3.phase = "body"
         /\ c3.holds = c.holds \cup {"call"} /\ c3.dialect = "anthropic"
         /\ c3.closed = f.current + 1 /\ c3.reason = c.reason
    BY <1>9, ClosedCursor
  <1>. HIDE DEF c3
  <1>12. IsSeq(out) /\ Leads(cursor, out, c3)
    <2>. DEFINE one == Append(f.out, start)
                two == Append(one, input)
    <2>1. IsSeq(one) /\ Leads(cursor, one, c1)
      BY <1>2, <1>6, LeadsOn DEF Writes, IsAnthropic
    <2>. HIDE DEF one
    <2>2. IsSeq(two) /\ Leads(cursor, two, c2)
      BY <1>8, <2>1, LeadsOn
    <2>. HIDE DEF two
    <2>3. IsSeq(Append(two, stop)) /\ Leads(cursor, Append(two, stop), c3)
      BY <1>10, <2>2, LeadsOn
    <2>4. out = Append(two, stop)
      BY SMTT(60), AppendThree DEF one, two, Writes, IsAnthropic
    <2>. QED BY <2>3, <2>4
  <1>. HIDE DEF out, g
  <1>13. /\ Alters(f, g, {"current", "toolBlockCount", "out"}) /\ g.out = out
         /\ g.current = f.current + 1 /\ g.toolBlockCount = f.toolBlockCount + 1
    BY <1>1 DEF Writes, IsAnthropic, Alters, AnthropicFields
  <1>14. /\ g.thinkingOpen = f.thinkingOpen /\ g.textOpen = f.textOpen
         /\ g.fullContent = f.fullContent
    BY <1>13 DEF Alters, AnthropicFields
  <1>15. IsAnthropic(g)
    BY <1>12, <1>13, <1>14 DEF Writes, IsAnthropic, Alters
  <1>16. f.toolBlockCount \in Nat
    BY DEF Writes, IsAnthropic
  <1>17. IsAt(g, c3) /\ held \subseteq c3.holds
    BY <1>2, <1>11, <1>13, <1>14, <1>16 DEF IsAt
  <1>18. Writes(cursor, g, held)
    BY <1>12, <1>13, <1>15, <1>17 DEF Writes
  <1>. QED BY <1>13, <1>14, <1>18 DEF g

LEMMA EmitsRedactedBlock ==
  ASSUME NEW cursor, NEW f, NEW held, Writes(cursor, f, held), ~f.thinkingOpen, ~f.textOpen,
         NEW g, g = [Anthropic!ReserveToolBlock(f) EXCEPT
                       !.out = @ \o <<Anthropic!BlockStart(f.current, "redacted_thinking", <<>>),
                                      Anthropic!BlockStop(f.current)>>]
  PROVE  /\ Writes(cursor, g, held) /\ Alters(f, g, {"current", "out"})
         /\ ~g.thinkingOpen /\ ~g.textOpen
  <1>. DEFINE start == Anthropic!BlockStart(f.current, "redacted_thinking", <<>>)
              stop  == Anthropic!BlockStop(f.current)
              out   == f.out \o <<start, stop>>
  <1>1. g = [f EXCEPT !.current = @ + 1, !.out = out]
    BY DEF Anthropic!ReserveToolBlock, Writes, IsAnthropic, AnthropicFields
  <1>2. PICK c : Leads(cursor, f.out, c) /\ IsAt(f, c) /\ held \subseteq c.holds
    BY DEF Writes
  <1>3. /\ start.type = "content_block_start" /\ start.index = f.current
        /\ start.kind = "redacted_thinking" /\ start.call = <<>>
        /\ stop.type = "content_block_stop" /\ stop.index = f.current
    BY DEF Anthropic!BlockStart, Anthropic!BlockStop
  <1>. HIDE DEF start, stop
  <1>. DEFINE more == Unless(start.call = <<>>, "call")
              c1 == Opened(c, start.kind, start.call, more)
              c2 == Closed(c1)
  <1>4. c.kind = "none" /\ IsCursor(c) /\ c.closed = f.current /\ c.phase = "body"
        /\ c.dialect = "anthropic"
    BY <1>2 DEF IsAt
  <1>5. Moves(c, start, c1)
    BY <1>3, <1>4 DEF OpensBlock, Moves
  <1>6. /\ IsCursor(c1) /\ c1.kind = "redacted_thinking" /\ c1.phase = "body"
        /\ c1.holds = c.holds \cup {} /\ c1.dialect = "anthropic"
        /\ c1.closed = f.current /\ c1.reason = c.reason
    <2>1. more = {}
      BY <1>3 DEF Unless
    <2>. HIDE DEF more
    <2>2. /\ IsCursor(c1) /\ c1.kind = start.kind /\ c1.phase = c.phase
          /\ c1.holds = c.holds \cup more /\ c1.dialect = c.dialect
          /\ c1.closed = c.closed /\ c1.reason = c.reason
      BY <1>4, OpenedCursor
    <2>. QED BY <1>3, <1>4, <2>1, <2>2
  <1>. HIDE DEF c1
  <1>7. Moves(c1, stop, c2)
    BY <1>3, <1>6 DEF ClosesBlock, ToOpenBlock, Moves
  <1>8. /\ IsCursor(c2) /\ c2.kind = "none" /\ c2.call = <<>> /\ c2.phase = "body"
        /\ c2.holds = c.holds \cup {} /\ c2.dialect = "anthropic"
        /\ c2.closed = f.current + 1 /\ c2.reason = c.reason
    BY <1>6, ClosedCursor
  <1>. HIDE DEF c2
  <1>9. IsSeq(out) /\ Leads(cursor, out, c2)
    <2>. DEFINE one == Append(f.out, start)
    <2>1. IsSeq(one) /\ Leads(cursor, one, c1)
      BY <1>2, <1>5, LeadsOn DEF Writes, IsAnthropic
    <2>. HIDE DEF one
    <2>2. IsSeq(Append(one, stop)) /\ Leads(cursor, Append(one, stop), c2)
      BY <1>7, <2>1, LeadsOn
    <2>3. out = Append(one, stop)
      BY SMTT(60), AppendTwo DEF one, Writes, IsAnthropic
    <2>. QED BY <2>2, <2>3
  <1>. HIDE DEF out
  <1>10. Alters(f, g, {"current", "out"}) /\ g.out = out /\ g.current = f.current + 1
    BY <1>1 DEF Writes, IsAnthropic, Alters, AnthropicFields
  <1>11. /\ g.thinkingOpen = f.thinkingOpen /\ g.textOpen = f.textOpen
         /\ g.fullContent = f.fullContent /\ g.toolBlockCount = f.toolBlockCount
    BY <1>10 DEF Alters, AnthropicFields
  <1>12. IsAnthropic(g)
    <2>1. g = [x \in AnthropicFields |-> g[x]]
      BY <1>10 DEF Alters
    <2>2. g.current \in Nat /\ g.toolBlockCount \in Nat
      BY <1>10, <1>11 DEF Writes, IsAnthropic
    <2>3. ~g.thinkingOpen /\ ~g.textOpen
      BY <1>11
    <2>4. IsSeq(g.fullContent) /\ IsSeq(g.out)
      BY <1>9, <1>10, <1>11 DEF Writes, IsAnthropic
    <2>. QED BY <2>1, <2>2, <2>3, <2>4 DEF IsAnthropic
  <1>13. IsAt(g, c2) /\ held \subseteq c2.holds
    BY <1>2, <1>8, <1>10, <1>11 DEF IsAt
  <1>14. Writes(cursor, g, held)
    BY <1>9, <1>10, <1>12, <1>13 DEF Writes
  <1>. QED BY <1>10, <1>11, <1>14

\* The client holds text as soon as there is any.
Kept(cursor, f) == Writes(cursor, f, Unless(f.fullContent = <<>>, "text"))

\* An event other than a refusal and a context usage leaves these alone.
Steady(f, g) ==
  Alters(f, g, BlockFields \cup {"fullContent", "toolBlockCount", "truncatedTools"})

LEMMA HandlesContent ==
  ASSUME NEW cursor, NEW f, Kept(cursor, f), NEW text, IsSeq(text)
  PROVE  LET g == Anthropic!HandleContent(f, text) IN Kept(cursor, g) /\ Steady(f, g)
  <1>. DEFINE whole == f.fullContent \o text
              f1   == [f EXCEPT !.fullContent = whole]
              f2   == Anthropic!CloseThinking(f1)
              f3   == Anthropic!OpenText(f2)
              e    == Anthropic!TextDelta(f3.textAt, text)
              g    == Anthropic!Emit(f3, e)
              held == Unless(f.fullContent = <<>>, "text")
              more == held \cup Unless(text = <<>>, "text")
  <1>1. IsSeq(f.fullContent) /\ IsSeq(whole) /\ (f.fullContent = <<>> /\ text = <<>> => whole = <<>>)
    <2>1. IsSeq(f.fullContent)
      BY DEF Kept, Writes, IsAnthropic
    <2>2. IsSeq(whole) /\ Len(whole) = Len(f.fullContent) + Len(text)
      BY <2>1, ConcatFacts
    <2>. HIDE DEF whole
    <2>. QED BY <2>1, <2>2, SeqFacts
  <1>2. Anthropic!HandleContent(f, text) = g
    BY DEF Anthropic!HandleContent
  <1>. HIDE DEF whole, held
  <1>3. Alters(f, f1, {"fullContent"}) /\ f1.fullContent = whole
    BY DEF Kept, Writes, IsAnthropic, Alters, AnthropicFields
  <1>4. Writes(cursor, f1, held)
    <2>. HIDE DEF f1
    <2>1. Alters(f, f1, {"fullContent", "refused", "receivedContextUsage", "truncatedTools"})
      BY <1>3 DEF Alters
    <2>. QED BY <1>1, <1>3, <2>1, NothingWritten DEF Kept, held
  <1>. HIDE DEF f1
  <1>5. Writes(cursor, f2, held) /\ Alters(f1, f2, BlockFields) /\ ~f2.thinkingOpen
    BY <1>4, ClosesThinking
  <1>. HIDE DEF f2
  <1>6. Writes(cursor, f3, held) /\ Alters(f2, f3, BlockFields) /\ f3.textOpen
    BY <1>5, OpensText
  <1>. HIDE DEF f3
  <1>7. e.type = "content_block_delta" /\ e.index = f3.current /\ e.text = text
    BY <1>6 DEF Anthropic!TextDelta, Writes, IsAnthropic
  <1>. HIDE DEF e
  <1>8. Alters(f3, g, {"out"}) /\ g.out = Append(f3.out, e)
    BY <1>6, EmitsEvent DEF Writes
  <1>. HIDE DEF g
  <1>9. Writes(cursor, g, held \cup Unless(~f3.textOpen \/ e.text = <<>>, "text"))
    BY <1>6, <1>7, <1>8, BlockGrows
  <1>10. Steady(f, g) /\ g.fullContent = whole
    <2>1. g.fullContent = whole
      BY <1>3, <1>5, <1>6, <1>8 DEF Alters, BlockFields, AnthropicFields
    <2>2. Steady(f, g)
      BY <1>3, <1>5, <1>6, <1>8 DEF Alters, Steady, BlockFields
    <2>. QED BY <2>1, <2>2
  <1>11. Unless(whole = <<>>, "text") \subseteq held \cup Unless(~f3.textOpen \/ e.text = <<>>, "text")
    BY <1>1, <1>6, <1>7 DEF held, Unless
  <1>12. Kept(cursor, g)
    BY <1>9, <1>10, <1>11 DEF Kept, Writes
  <1>. QED BY <1>2, <1>10, <1>12

\* What both kinds of thinking have in common.
LEMMA BlockThinks ==
  ASSUME NEW cursor, NEW f, Kept(cursor, f), f.thinkingOpen, NEW e, e.index = f.thinkingAt,
         \/ e.type = "content_block_delta" /\ IsSeq(e.text)
         \/ e.type = "signature_delta"
  PROVE  LET g == Anthropic!Emit(f, e)
         IN  Kept(cursor, g) /\ Alters(f, g, {"out"}) /\ ~g.textOpen
  <1>. DEFINE g == Anthropic!Emit(f, e)
              held == Unless(f.fullContent = <<>>, "text")
  <1>1. Alters(f, g, {"out"}) /\ g.out = Append(f.out, e)
    BY EmitsEvent DEF Kept, Writes
  <1>. HIDE DEF g
  <1>2. g.fullContent = f.fullContent /\ g.textOpen = f.textOpen
    BY <1>1 DEF Alters, AnthropicFields
  <1>3. e.index = f.current /\ ~f.textOpen
    BY DEF Kept, Writes, IsAnthropic
  <1>4. CASE e.type = "signature_delta"
    <2>1. Writes(cursor, g, held)
      BY <1>1, <1>3, <1>4, BlockSigned DEF Kept
    <2>. QED BY <1>1, <1>2, <1>3, <2>1 DEF Kept, g
  <1>5. CASE e.type = "content_block_delta" /\ IsSeq(e.text)
    <2>. HIDE DEF held
    <2>1. Writes(cursor, g, held \cup Unless(~f.textOpen \/ e.text = <<>>, "text"))
      BY <1>1, <1>3, <1>5, BlockGrows DEF Kept, held
    <2>2. Writes(cursor, g, held)
      BY <2>1 DEF Writes
    <2>. QED BY <1>1, <1>2, <1>3, <2>2 DEF Kept, held, g
  <1>. QED BY <1>4, <1>5

LEMMA HandlesThinking ==
  ASSUME NEW cursor, NEW f, Kept(cursor, f), ~f.textOpen, NEW text, IsSeq(text)
  PROVE  LET g == Anthropic!HandleThinking(f, text)
         IN  Kept(cursor, g) /\ Steady(f, g) /\ ~g.textOpen
  <1>. DEFINE f1 == Anthropic!OpenThinking(f)
              e  == Anthropic!TextDelta(f1.thinkingAt, text)
              g  == Anthropic!Emit(f1, e)
              h  == Anthropic!HandleThinking(f, text)
  <1>1. h \in {f, g}
    BY DEF Anthropic!HandleThinking
  <1>. HIDE DEF h
  <1>2. /\ Writes(cursor, f1, Unless(f.fullContent = <<>>, "text"))
        /\ Alters(f, f1, BlockFields) /\ f1.thinkingOpen
    BY OpensThinking DEF Kept
  <1>. HIDE DEF f1
  <1>3. Kept(cursor, f1)
    <2>1. f1.fullContent = f.fullContent
      BY <1>2 DEF Alters, BlockFields, AnthropicFields
    <2>. QED BY <1>2, <2>1 DEF Kept
  <1>4. e.type = "content_block_delta" /\ e.index = f1.thinkingAt /\ e.text = text
    BY DEF Anthropic!TextDelta
  <1>. HIDE DEF e
  <1>5. Kept(cursor, g) /\ Alters(f1, g, {"out"}) /\ ~g.textOpen
    BY <1>2, <1>3, <1>4, BlockThinks
  <1>. HIDE DEF g
  <1>6. Steady(f, g) /\ Steady(f, f)
    BY <1>2, <1>5 DEF Alters, Steady, BlockFields, Kept, Writes, IsAnthropic
  <1>. QED BY <1>1, <1>5, <1>6 DEF h

LEMMA OpensNativeThinking ==
  ASSUME NEW cursor, NEW f, Kept(cursor, f)
  PROVE  LET g == Anthropic!OpenNativeThinking(f)
         IN  Kept(cursor, g) /\ Alters(f, g, BlockFields) /\ g.thinkingOpen /\ ~g.textOpen
  <1>. DEFINE g == Anthropic!OpenNativeThinking(f)
              held == Unless(f.fullContent = <<>>, "text")
  <1>1. CASE f.thinkingOpen
    BY <1>1 DEF Anthropic!OpenNativeThinking, Alters, Kept, Writes, IsAnthropic
  <1>2. CASE ~f.thinkingOpen
    <2>. DEFINE f1 == Anthropic!CloseText(f)
                f2 == Anthropic!OpenThinking(f1)
    <2>1. g = f2
      BY <1>2 DEF Anthropic!OpenNativeThinking
    <2>. HIDE DEF held, g
    <2>2. Writes(cursor, f1, held) /\ Alters(f, f1, BlockFields) /\ ~f1.textOpen
      BY ClosesText DEF Kept, held
    <2>. HIDE DEF f1
    <2>3. /\ Writes(cursor, f2, held) /\ Alters(f1, f2, BlockFields)
          /\ f2.thinkingOpen /\ ~f2.textOpen
      BY <2>2, OpensThinking
    <2>. HIDE DEF f2
    <2>4. Alters(f, f2, BlockFields) /\ f2.fullContent = f.fullContent
      BY <2>2, <2>3 DEF Alters, BlockFields, AnthropicFields
    <2>. QED BY <2>1, <2>3, <2>4 DEF Kept, held, g
  <1>. QED BY <1>1, <1>2

LEMMA HandlesNativeThinking ==
  ASSUME NEW cursor, NEW f, Kept(cursor, f), NEW text, IsSeq(text)
  PROVE  LET g == Anthropic!HandleNativeThinking(f, text)
         IN  Kept(cursor, g) /\ Steady(f, g) /\ (g.textOpen => f.textOpen)
  <1>. DEFINE f1 == Anthropic!OpenNativeThinking(f)
              e  == Anthropic!TextDelta(f1.thinkingAt, text)
              g  == Anthropic!Emit(f1, e)
              h  == Anthropic!HandleNativeThinking(f, text)
  <1>1. h \in {f, g}
    BY DEF Anthropic!HandleNativeThinking, Anthropic!HandleThinking
  <1>. HIDE DEF h
  <1>2. Kept(cursor, f1) /\ Alters(f, f1, BlockFields) /\ f1.thinkingOpen
    BY OpensNativeThinking
  <1>. HIDE DEF f1
  <1>3. e.type = "content_block_delta" /\ e.index = f1.thinkingAt /\ e.text = text
    BY DEF Anthropic!TextDelta
  <1>. HIDE DEF e
  <1>4. Kept(cursor, g) /\ Alters(f1, g, {"out"}) /\ ~g.textOpen
    BY <1>2, <1>3, BlockThinks
  <1>. HIDE DEF g
  <1>5. Steady(f, g) /\ Steady(f, f)
    BY <1>2, <1>4 DEF Alters, Steady, BlockFields, Kept, Writes, IsAnthropic
  <1>. QED BY <1>1, <1>4, <1>5 DEF h

LEMMA HandlesSignature ==
  ASSUME NEW cursor, NEW f, Kept(cursor, f)
  PROVE  LET g == Anthropic!HandleThinkingSignature(f)
         IN  Kept(cursor, g) /\ Steady(f, g) /\ (g.textOpen => f.textOpen)
  <1>. DEFINE f1 == Anthropic!OpenNativeThinking(f)
              e  == Anthropic!SignatureDelta(f1.thinkingAt)
              f2 == Anthropic!Emit(f1, e)
              g  == Anthropic!CloseThinking(f2)
              h  == Anthropic!HandleThinkingSignature(f)
  <1>1. h \in {f, g}
    BY DEF Anthropic!HandleThinkingSignature
  <1>. HIDE DEF h
  <1>2. Kept(cursor, f1) /\ Alters(f, f1, BlockFields) /\ f1.thinkingOpen
    BY OpensNativeThinking
  <1>. HIDE DEF f1
  <1>3. e.type = "signature_delta" /\ e.index = f1.thinkingAt
    BY DEF Anthropic!SignatureDelta
  <1>. HIDE DEF e
  <1>4. Kept(cursor, f2) /\ Alters(f1, f2, {"out"}) /\ ~f2.textOpen
    BY <1>2, <1>3, BlockThinks
  <1>. HIDE DEF f2
  <1>5. /\ Writes(cursor, g, Unless(f2.fullContent = <<>>, "text")) /\ Alters(f2, g, BlockFields)
        /\ g.textOpen = f2.textOpen
    BY <1>4, ClosesThinking DEF Kept
  <1>. HIDE DEF g
  <1>6. g.fullContent = f2.fullContent
    BY <1>5 DEF Alters, BlockFields, AnthropicFields
  <1>7. Kept(cursor, g) /\ ~g.textOpen
    BY <1>4, <1>5, <1>6 DEF Kept
  <1>8. Steady(f, g) /\ Steady(f, f)
    BY <1>2, <1>4, <1>5 DEF Alters, Steady, BlockFields, Kept, Writes, IsAnthropic
  <1>. QED BY <1>1, <1>7, <1>8 DEF h

LEMMA HandlesRedacted ==
  ASSUME NEW cursor, NEW f, Kept(cursor, f)
  PROVE  LET g == Anthropic!HandleRedactedThinking(f)
         IN  Kept(cursor, g) /\ Steady(f, g) /\ (g.textOpen => f.textOpen)
  <1>. DEFINE f1 == Anthropic!CloseOpenBlocks(f)
              g  == [Anthropic!ReserveToolBlock(f1) EXCEPT
                       !.out = @ \o <<Anthropic!BlockStart(f1.current, "redacted_thinking", <<>>),
                                      Anthropic!BlockStop(f1.current)>>]
              h  == Anthropic!HandleRedactedThinking(f)
              held == Unless(f.fullContent = <<>>, "text")
  <1>1. h \in {f, g}
    BY DEF Anthropic!HandleRedactedThinking
  <1>. HIDE DEF h, held
  <1>2. Writes(cursor, f1, held) /\ Alters(f, f1, BlockFields) /\ ~f1.thinkingOpen /\ ~f1.textOpen
    BY ClosesBlocks DEF Kept, held
  <1>. HIDE DEF f1
  <1>3. PICK r : r = g
    OBVIOUS
  <1>4. Writes(cursor, r, held) /\ Alters(f1, r, {"current", "out"}) /\ ~r.textOpen
    BY <1>2, <1>3, EmitsRedactedBlock
  <1>. HIDE DEF g
  <1>5. r.fullContent = f.fullContent
    BY <1>2, <1>4 DEF Alters, BlockFields, AnthropicFields
  <1>6. Kept(cursor, r)
    BY <1>4, <1>5 DEF Kept, held
  <1>7. Steady(f, r) /\ Steady(f, f)
    BY <1>2, <1>4 DEF Alters, Steady, BlockFields, Kept, Writes, IsAnthropic
  <1>. QED BY <1>1, <1>3, <1>4, <1>6, <1>7 DEF h

LEMMA HandlesToolUse ==
  ASSUME NEW cursor, NEW f, Kept(cursor, f), NEW call
  PROVE  LET g == Anthropic!HandleToolUse(f, call)
         IN  Kept(cursor, g) /\ Steady(f, g) /\ ~g.textOpen
  <1>. DEFINE f1 == Anthropic!CloseOpenBlocks(f)
              ids == IF call.truncated THEN f1.truncatedTools \cup {call.id} ELSE f1.truncatedTools
              f2 == [f1 EXCEPT !.truncatedTools = ids]
              g  == Anthropic!EmitToolUseBlock(f2, call)
              held == Unless(f.fullContent = <<>>, "text")
  <1>1. Anthropic!HandleToolUse(f, call) = g
    BY DEF Anthropic!HandleToolUse
  <1>. HIDE DEF held, ids
  <1>2. Writes(cursor, f1, held) /\ Alters(f, f1, BlockFields) /\ ~f1.thinkingOpen /\ ~f1.textOpen
    BY ClosesBlocks DEF Kept, held
  <1>. HIDE DEF f1
  <1>3. Alters(f1, f2, {"truncatedTools"})
    BY <1>2 DEF Writes, IsAnthropic, Alters, AnthropicFields
  <1>. HIDE DEF f2
  <1>4. /\ f2.fullContent = f1.fullContent /\ f2.thinkingOpen = f1.thinkingOpen
        /\ f2.textOpen = f1.textOpen
        /\ Alters(f1, f2, {"fullContent", "refused", "receivedContextUsage", "truncatedTools"})
    BY <1>3 DEF Alters, AnthropicFields
  <1>5. Writes(cursor, f2, held)
    BY SMTT(60), <1>2, <1>4, NothingWritten DEF Writes, IsAnthropic
  <1>6. /\ Writes(cursor, g, held) /\ Alters(f2, g, {"current", "toolBlockCount", "out"})
        /\ ~g.textOpen
    BY <1>2, <1>4, <1>5, EmitsToolBlock
  <1>. HIDE DEF g
  <1>7. g.fullContent = f.fullContent
    BY <1>2, <1>3, <1>6 DEF Alters, BlockFields, AnthropicFields
  <1>8. Kept(cursor, g)
    BY <1>6, <1>7 DEF Kept, held
  <1>9. Steady(f, g)
    BY <1>2, <1>3, <1>6 DEF Alters, Steady, BlockFields
  <1>. QED BY <1>1, <1>6, <1>8, <1>9

LEMMA FlagRaised ==
  ASSUME NEW cursor, NEW f, Kept(cursor, f), NEW g,
         Alters(f, g, {"refused", "receivedContextUsage"})
  PROVE  Kept(cursor, g) /\ g.textOpen = f.textOpen
  <1>. DEFINE held == Unless(f.fullContent = <<>>, "text")
  <1>1. /\ Alters(f, g, {"fullContent", "refused", "receivedContextUsage", "truncatedTools"})
        /\ g.fullContent = f.fullContent /\ g.textOpen = f.textOpen
    BY DEF Alters, AnthropicFields
  <1>2. Writes(cursor, f, held) /\ IsSeq(f.fullContent)
    BY DEF Kept, Writes, IsAnthropic
  <1>. HIDE DEF held
  <1>3. Writes(cursor, g, held)
    BY <1>1, <1>2, NothingWritten
  <1>. QED BY <1>1, <1>3 DEF Kept, held

\* The formatter before and after an event.
LEMMA AnthropicHandles ==
  ASSUME NEW cursor, NEW f, Kept(cursor, f), NEW e, IsEvent(e), e.kind = "thinking" => ~f.textOpen
  PROVE  LET g == Anthropic!Handle(f, e)
         IN  /\ Kept(cursor, g) /\ (g.textOpen => f.textOpen \/ e.kind = "content")
             /\ (g.refused <=> f.refused \/ e.kind = "refusal")
             /\ (g.receivedContextUsage <=> f.receivedContextUsage \/ e.kind = "context_usage")
  <1>. DEFINE g == Anthropic!Handle(f, e)
              Result == /\ Kept(cursor, g) /\ (g.textOpen => f.textOpen \/ e.kind = "content")
                        /\ (g.refused <=> f.refused \/ e.kind = "refusal")
                        /\ (g.receivedContextUsage <=>
                              f.receivedContextUsage \/ e.kind = "context_usage")
  <1>0. \A h : Steady(f, h) => /\ h.refused = f.refused
                               /\ h.receivedContextUsage = f.receivedContextUsage
    BY DEF Steady, Alters, BlockFields, AnthropicFields
  <1>1. CASE e.kind = "content"
    <2>1. g = Anthropic!HandleContent(f, e.text) /\ IsSeq(e.text)
      BY <1>1 DEF Anthropic!Handle, IsEvent
    <2>. HIDE DEF g
    <2>2. Kept(cursor, g) /\ Steady(f, g)
      BY <2>1, HandlesContent
    <2>3. Result
      BY <1>0, <1>1, <2>2
    <2>. QED BY <2>3 DEF g
  <1>2. CASE e.kind = "thinking"
    <2>1. g = Anthropic!HandleThinking(f, e.text) /\ IsSeq(e.text) /\ ~f.textOpen
      BY <1>2 DEF Anthropic!Handle, IsEvent
    <2>. HIDE DEF g
    <2>2. Kept(cursor, g) /\ Steady(f, g) /\ ~g.textOpen
      BY <2>1, HandlesThinking
    <2>3. Result
      BY <1>0, <1>2, <2>2
    <2>. QED BY <2>3 DEF g
  <1>3. CASE e.kind = "tool_use"
    <2>1. g = Anthropic!HandleToolUse(f, e.call)
      BY <1>3 DEF Anthropic!Handle
    <2>. HIDE DEF g
    <2>2. Kept(cursor, g) /\ Steady(f, g) /\ ~g.textOpen
      BY <2>1, HandlesToolUse
    <2>3. Result
      BY <1>0, <1>3, <2>2
    <2>. QED BY <2>3 DEF g
  <1>4. CASE e.kind = "native_thinking"
    <2>1. g = Anthropic!HandleNativeThinking(f, e.text) /\ IsSeq(e.text)
      BY <1>4 DEF Anthropic!Handle, IsEvent
    <2>. HIDE DEF g
    <2>2. Kept(cursor, g) /\ Steady(f, g) /\ (g.textOpen => f.textOpen)
      BY <2>1, HandlesNativeThinking
    <2>3. Result
      BY <1>0, <1>4, <2>2
    <2>. QED BY <2>3 DEF g
  <1>5. CASE e.kind = "thinking_signature"
    <2>1. g = Anthropic!HandleThinkingSignature(f)
      BY <1>5 DEF Anthropic!Handle
    <2>. HIDE DEF g
    <2>2. Kept(cursor, g) /\ Steady(f, g) /\ (g.textOpen => f.textOpen)
      BY <2>1, HandlesSignature
    <2>3. Result
      BY <1>0, <1>5, <2>2
    <2>. QED BY <2>3 DEF g
  <1>6. CASE e.kind = "redacted_thinking"
    <2>1. g = Anthropic!HandleRedactedThinking(f)
      BY <1>6 DEF Anthropic!Handle
    <2>. HIDE DEF g
    <2>2. Kept(cursor, g) /\ Steady(f, g) /\ (g.textOpen => f.textOpen)
      BY <2>1, HandlesRedacted
    <2>3. Result
      BY <1>0, <1>6, <2>2
    <2>. QED BY <2>3 DEF g
  <1>7. CASE e.kind = "refusal"
    <2>1. g = [f EXCEPT !.refused = TRUE]
      BY <1>7 DEF Anthropic!Handle
    <2>. HIDE DEF g
    <2>2. Alters(f, g, {"refused"}) /\ g.refused
      BY <2>1 DEF Kept, Writes, IsAnthropic, Alters, AnthropicFields
    <2>3. /\ Alters(f, g, {"refused", "receivedContextUsage"})
          /\ g.receivedContextUsage = f.receivedContextUsage
      BY <2>2 DEF Alters, AnthropicFields
    <2>4. Kept(cursor, g) /\ g.textOpen = f.textOpen
      BY <2>3, FlagRaised
    <2>5. Result
      BY <1>7, <2>2, <2>3, <2>4
    <2>. QED BY <2>5 DEF g
  <1>8. CASE e.kind = "context_usage"
    <2>1. g = [f EXCEPT !.receivedContextUsage = TRUE]
      BY <1>8 DEF Anthropic!Handle
    <2>. HIDE DEF g
    <2>2. Alters(f, g, {"receivedContextUsage"}) /\ g.receivedContextUsage
      BY <2>1 DEF Kept, Writes, IsAnthropic, Alters, AnthropicFields
    <2>3. Alters(f, g, {"refused", "receivedContextUsage"}) /\ g.refused = f.refused
      BY <2>2 DEF Alters, AnthropicFields
    <2>4. Kept(cursor, g) /\ g.textOpen = f.textOpen
      BY <2>3, FlagRaised
    <2>5. Result
      BY <1>8, <2>2, <2>3, <2>4
    <2>. QED BY <2>5 DEF g
  <1>9. CASE e.kind \in {"usage", "error"}
    <2>1. g = f
      BY <1>9 DEF Anthropic!Handle
    <2>. HIDE DEF g
    <2>2. Result
      BY <1>9, <2>1
    <2>. QED BY <2>2 DEF g
  <1>. QED BY <1>1, <1>2, <1>3, <1>4, <1>5, <1>6, <1>7, <1>8, <1>9 DEF IsEvent, EventKinds

-----------------------------------------------------------------------------
(* The formatter of the dialect of OpenAI.                                 *)
OpenAIFields ==
  {"handling", "fullContent", "toolCallsFromStream", "creditsUsed", "receivedContextUsage",
   "refused", "truncatedTools", "contentWasTruncated", "out"}

IsOpenAI(f) ==
  /\ f = [x \in OpenAIFields |-> f[x]]
  /\ IsSeq(f.fullContent) /\ IsSeq(f.toolCallsFromStream) /\ IsSeq(f.out)

\* No calls are sent before the end.
IsChunkAt(c) ==
  /\ IsCursor(c) /\ c.dialect = "openai" /\ c.phase = "body" /\ c.kind = "none"
  /\ c.reason = "none" /\ "call" \notin c.holds

OpenAIKept(cursor, f) ==
  /\ IsOpenAI(f)
  /\ \E c : /\ Leads(cursor, f.out, c) /\ IsChunkAt(c)
            /\ Unless(f.fullContent = <<>>, "text") \subseteq c.holds

\* What an event changes.
Changes(f, g, fields) ==
  /\ g = [x \in OpenAIFields |-> g[x]]
  /\ \A x \in OpenAIFields \ fields : g[x] = f[x]

LEMMA OpenAISendsText ==
  ASSUME NEW cursor, NEW f, OpenAIKept(cursor, f), NEW text, IsSeq(text),
         NEW e, e.text = text, e.type \in {"content", "reasoning_content"},
         NEW g, Changes(f, g, {"out", "fullContent"}), g.out = Append(f.out, e),
         \/ g.fullContent = f.fullContent
         \/ g.fullContent = f.fullContent \o text /\ e.type = "content"
  PROVE  OpenAIKept(cursor, g)
  <1>1. PICK c : /\ Leads(cursor, f.out, c) /\ IsChunkAt(c)
                 /\ Unless(f.fullContent = <<>>, "text") \subseteq c.holds
    BY DEF OpenAIKept
  <1>. DEFINE more == IF e.type = "content" THEN Unless(e.text = <<>>, "text") ELSE {}
              d == IF e.type = "content" THEN Holding(c, more) ELSE c
  <1>2. Moves(c, e, d)
    BY <1>1 DEF IsChunkAt, AsChunk, AddsContent, AddsReasoning, Moves
  <1>3. IsChunkAt(d) /\ d.holds = c.holds \cup more
    <2>1. more \subseteq {"text"}
      BY DEF Unless
    <2>2. CASE e.type = "content"
      <3>1. d = Holding(c, more)
        BY <2>2
      <3>. HIDE DEF more, d
      <3>. QED BY <1>1, <2>1, <3>1, HoldingCursor DEF IsChunkAt
    <2>3. CASE e.type # "content"
      BY <1>1, <2>3
    <2>. QED BY <2>2, <2>3
  <1>. HIDE DEF d
  <1>4. IsSeq(g.out) /\ Leads(cursor, g.out, d)
    BY <1>1, <1>2, LeadsOn DEF OpenAIKept, IsOpenAI
  <1>5. IsSeq(g.fullContent) /\ (f.fullContent = <<>> /\ text = <<>> => f.fullContent \o text = <<>>)
    <2>1. IsSeq(f.fullContent)
      BY DEF OpenAIKept, IsOpenAI
    <2>. DEFINE whole == f.fullContent \o text
    <2>2. IsSeq(whole) /\ Len(whole) = Len(f.fullContent) + Len(text)
      BY <2>1, ConcatFacts
    <2>3. f.fullContent = <<>> /\ text = <<>> => whole = <<>>
      <3>. HIDE DEF whole
      <3>. QED BY <2>1, <2>2, SeqFacts
    <2>. QED BY <2>1, <2>2, <2>3
  <1>6. Unless(g.fullContent = <<>>, "text") \subseteq d.holds
    BY <1>1, <1>3, <1>5 DEF Unless
  <1>7. IsOpenAI(g)
    <2>1. g.toolCallsFromStream = f.toolCallsFromStream
      BY DEF Changes, OpenAIFields
    <2>. QED BY <1>4, <1>5, <2>1 DEF Changes, OpenAIKept, IsOpenAI
  <1>. QED BY <1>3, <1>4, <1>6, <1>7 DEF OpenAIKept

LEMMA OpenAISendsNothing ==
  ASSUME NEW cursor, NEW f, OpenAIKept(cursor, f), NEW g,
         Changes(f, g, {"toolCallsFromStream", "creditsUsed", "receivedContextUsage", "refused",
                        "truncatedTools", "contentWasTruncated"}),
         IsSeq(g.toolCallsFromStream)
  PROVE  OpenAIKept(cursor, g)
  <1>1. g.out = f.out /\ g.fullContent = f.fullContent
    BY DEF Changes, OpenAIFields
  <1>2. IsOpenAI(g)
    BY <1>1 DEF Changes, OpenAIKept, IsOpenAI
  <1>. QED BY <1>1, <1>2 DEF OpenAIKept

LEMMA OpenAIFlagRaised ==
  ASSUME NEW cursor, NEW f, OpenAIKept(cursor, f), NEW g,
         Changes(f, g, {"creditsUsed", "receivedContextUsage", "refused"})
  PROVE  OpenAIKept(cursor, g)
  <1>1. g.toolCallsFromStream = f.toolCallsFromStream
    BY DEF Changes, OpenAIFields
  <1>2. IsSeq(g.toolCallsFromStream)
    BY <1>1 DEF OpenAIKept, IsOpenAI
  <1>3. Changes(f, g, {"toolCallsFromStream", "creditsUsed", "receivedContextUsage", "refused",
                       "truncatedTools", "contentWasTruncated"})
    BY DEF Changes
  <1>. QED BY <1>2, <1>3, OpenAISendsNothing

LEMMA OpenAIHandles ==
  ASSUME NEW cursor, NEW f, OpenAIKept(cursor, f), NEW e, IsEvent(e)
  PROVE  LET g == OpenAI!Handle(f, e)
         IN  /\ OpenAIKept(cursor, g)
             /\ (g.refused <=> f.refused \/ e.kind = "refusal")
             /\ (g.receivedContextUsage <=> f.receivedContextUsage \/ e.kind = "context_usage")
  <1>. DEFINE g == OpenAI!Handle(f, e)
              Result == /\ OpenAIKept(cursor, g) /\ (g.refused <=> f.refused \/ e.kind = "refusal")
                        /\ (g.receivedContextUsage <=>
                              f.receivedContextUsage \/ e.kind = "context_usage")
  <1>1. CASE e.kind \in {"content", "thinking", "native_thinking"}
    <2>. DEFINE whole == IF e.kind = "content" THEN f.fullContent \o e.text ELSE f.fullContent
                chunk == IF e.kind = "content" \/ f.handling # "AsReasoningContent"
                         THEN OpenAI!ContentChunk(e.text) ELSE OpenAI!ReasoningChunk(e.text)
                out   == Append(f.out, chunk)
    <2>1. g = [f EXCEPT !.fullContent = whole, !.out = out]
      <3>1. CASE e.kind = "content"
        BY <3>1 DEF OpenAI!Handle, OpenAI!Emit, OpenAIKept, IsOpenAI, OpenAIFields
      <3>2. CASE e.kind # "content"
        <4>1. g = OpenAI!EmitThinkingChunk(f, e.text)
          BY <1>1, <3>2 DEF OpenAI!Handle
        <4>2. g = [f EXCEPT !.out = out]
          BY <3>2, <4>1 DEF OpenAI!EmitThinkingChunk, OpenAI!Emit
        <4>. HIDE DEF g, out
        <4>3. [f EXCEPT !.out = out] = [f EXCEPT !.fullContent = f.fullContent, !.out = out]
          BY DEF OpenAIKept, IsOpenAI, OpenAIFields
        <4>. QED BY <3>2, <4>2, <4>3
      <3>. QED BY <3>1, <3>2
    <2>2. IsSeq(e.text)
      BY <1>1 DEF IsEvent
    <2>3. /\ chunk.text = e.text /\ chunk.type \in {"content", "reasoning_content"}
          /\ (e.kind = "content" => chunk.type = "content")
      BY DEF OpenAI!ContentChunk, OpenAI!ReasoningChunk
    <2>4. whole = f.fullContent \/ (whole = f.fullContent \o e.text /\ chunk.type = "content")
      BY <2>3
    <2>. HIDE DEF g, whole, chunk, out
    <2>5. Changes(f, g, {"out", "fullContent"}) /\ g.out = out /\ g.fullContent = whole
      BY <2>1 DEF OpenAIKept, IsOpenAI, Changes, OpenAIFields
    <2>6. OpenAIKept(cursor, g)
      BY <2>2, <2>3, <2>4, <2>5, OpenAISendsText DEF out
    <2>7. g.refused = f.refused /\ g.receivedContextUsage = f.receivedContextUsage
      BY <2>5 DEF Changes, OpenAIFields
    <2>8. Result
      BY <1>1, <2>6, <2>7
    <2>. QED BY <2>8 DEF g
  <1>2. CASE e.kind = "tool_use"
    <2>. DEFINE calls == Append(f.toolCallsFromStream, OpenAI!ToolUseToOpenAI(e.call))
                ids == IF e.call.truncated THEN f.truncatedTools \cup {e.call.id}
                                           ELSE f.truncatedTools
    <2>1. g = [f EXCEPT !.toolCallsFromStream = calls, !.truncatedTools = ids]
      BY <1>2 DEF OpenAI!Handle, OpenAIKept, IsOpenAI, OpenAIFields
    <2>2. IsSeq(calls)
      BY AppendFacts DEF OpenAIKept, IsOpenAI
    <2>. HIDE DEF g, calls, ids
    <2>3. Changes(f, g, {"toolCallsFromStream", "truncatedTools"}) /\ g.toolCallsFromStream = calls
      BY <2>1 DEF OpenAIKept, IsOpenAI, Changes, OpenAIFields
    <2>4. OpenAIKept(cursor, g)
      BY <2>2, <2>3, OpenAISendsNothing DEF Changes
    <2>5. g.refused = f.refused /\ g.receivedContextUsage = f.receivedContextUsage
      BY <2>3 DEF Changes, OpenAIFields
    <2>6. Result
      BY <1>2, <2>4, <2>5
    <2>. QED BY <2>6 DEF g
  <1>3. CASE e.kind = "usage"
    <2>1. g = [f EXCEPT !.creditsUsed = TRUE]
      BY <1>3 DEF OpenAI!Handle
    <2>. HIDE DEF g
    <2>2. Changes(f, g, {"creditsUsed"})
      BY <2>1 DEF OpenAIKept, IsOpenAI, Changes, OpenAIFields
    <2>3. /\ g.refused = f.refused /\ g.receivedContextUsage = f.receivedContextUsage
      BY <2>2 DEF Changes, OpenAIFields
    <2>4. OpenAIKept(cursor, g)
      BY <2>2, OpenAIFlagRaised DEF Changes
    <2>5. Result
      BY <1>3, <2>3, <2>4
    <2>. QED BY <2>5 DEF g
  <1>4. CASE e.kind = "context_usage"
    <2>1. g = [f EXCEPT !.receivedContextUsage = TRUE]
      BY <1>4 DEF OpenAI!Handle
    <2>. HIDE DEF g
    <2>2. Changes(f, g, {"receivedContextUsage"}) /\ g.receivedContextUsage
      BY <2>1 DEF OpenAIKept, IsOpenAI, Changes, OpenAIFields
    <2>3. g.refused = f.refused
      BY <2>2 DEF Changes, OpenAIFields
    <2>4. OpenAIKept(cursor, g)
      BY <2>2, OpenAIFlagRaised DEF Changes
    <2>5. Result
      BY <1>4, <2>2, <2>3, <2>4
    <2>. QED BY <2>5 DEF g
  <1>5. CASE e.kind = "refusal"
    <2>1. g = [f EXCEPT !.refused = TRUE]
      BY <1>5 DEF OpenAI!Handle
    <2>. HIDE DEF g
    <2>2. Changes(f, g, {"refused"}) /\ g.refused
      BY <2>1 DEF OpenAIKept, IsOpenAI, Changes, OpenAIFields
    <2>3. g.receivedContextUsage = f.receivedContextUsage
      BY <2>2 DEF Changes, OpenAIFields
    <2>4. OpenAIKept(cursor, g)
      BY <2>2, OpenAIFlagRaised DEF Changes
    <2>5. Result
      BY <1>5, <2>2, <2>3, <2>4
    <2>. QED BY <2>5 DEF g
  <1>6. CASE e.kind \in {"thinking_signature", "redacted_thinking", "error"}
    <2>1. g = f
      BY <1>6 DEF OpenAI!Handle
    <2>. HIDE DEF g
    <2>2. Result
      BY <1>6, <2>1
    <2>. QED BY <2>2 DEF g
  <1>. QED BY <1>1, <1>2, <1>3, <1>4, <1>5, <1>6 DEF IsEvent, EventKinds

-----------------------------------------------------------------------------
(* The end of a message.                                                   *)

\* The reason fits what the reply holds and what the formatter knows.
AtEnd(c, f) ==
  /\ IsCursor(c) /\ c.phase = "done"
  /\ f.refused <=> c.reason \in {"refusal", "content_filter"}
  /\ ~f.refused => ("call" \in c.holds <=> c.reason \in {"tool_use", "tool_calls"})
  /\ c.reason \in {"max_tokens", "length"} => ~f.receivedContextUsage /\ "text" \in c.holds

Finished(cursor, f) ==
  /\ {"refused", "receivedContextUsage", "out"} \subseteq DOMAIN f /\ IsSeq(f.out)
  /\ \E c : Leads(cursor, f.out, c) /\ AtEnd(c, f)

LEMMA PhasedCursor ==
  ASSUME NEW c, IsCursor(c), NEW ph, NEW reason
  PROVE  LET d == InPhase(c, ph, reason)
         IN  /\ IsCursor(d) /\ d.phase = ph /\ d.reason = reason /\ d.holds = c.holds
             /\ d.kind = c.kind /\ d.call = c.call /\ d.dialect = c.dialect
             /\ d.closed = c.closed
  <1>. DEFINE d == InPhase(c, ph, reason)
  <1>1. d = [x \in CursorFields |-> d[x]]
    BY DEF IsCursor, CursorFields, InPhase
  <1>2. /\ d.phase = ph /\ d.reason = reason /\ d.holds = c.holds
        /\ d.kind = c.kind /\ d.call = c.call /\ d.dialect = c.dialect /\ d.closed = c.closed
    BY DEF IsCursor, CursorFields, InPhase
  <1>. HIDE DEF d
  <1>3. IsCursor(d)
    BY <1>1, <1>2 DEF IsCursor
  <1>. QED BY <1>2, <1>3 DEF d

\* The last two events.
LEMMA LastTwo ==
  ASSUME NEW cursor, NEW out, IsSeq(out), NEW c, Leads(cursor, out, c), IsCursor(c),
         c.phase = "body", c.kind = "none", NEW e, e.type \in {"message_delta", "finish"},
         e.reason # "none", NEW last, last.type \in {"message_stop", "done"}
  PROVE  LET more == Append(Append(out, e), last)
         IN  /\ IsSeq(more)
             /\ \E d : /\ Leads(cursor, more, d) /\ IsCursor(d) /\ d.phase = "done"
                       /\ d.reason = e.reason /\ d.holds = c.holds
  <1>. DEFINE one == Append(out, e)
              d == InPhase(c, "ended", e.reason)
              b == InPhase(d, "done", d.reason)
  <1>1. Moves(c, e, d)
    BY DEF GivesReason, Moves
  <1>2. IsCursor(d) /\ d.phase = "ended" /\ d.reason = e.reason /\ d.holds = c.holds
    BY PhasedCursor
  <1>. HIDE DEF d
  <1>3. IsSeq(one) /\ Leads(cursor, one, d)
    BY <1>1, LeadsOn
  <1>. HIDE DEF one
  <1>4. Moves(d, last, b)
    BY <1>2 DEF Ends, Moves
  <1>5. IsCursor(b) /\ b.phase = "done" /\ b.reason = d.reason /\ b.holds = d.holds
    BY <1>2, PhasedCursor
  <1>. HIDE DEF b
  <1>6. IsSeq(Append(one, last)) /\ Leads(cursor, Append(one, last), b)
    BY <1>3, <1>4, LeadsOn
  <1>7. b.reason = e.reason /\ b.holds = c.holds
    BY <1>2, <1>5
  <1>. QED BY <1>5, <1>6, <1>7 DEF one

LEMMA WrittenCalls ==
  ASSUME NEW text, IsSeq(text)
  PROVE  LET calls == ParseBracketToolCalls(text)
         IN  IsSeq(calls) /\ Len(calls) \in Nat /\ DOMAIN calls = 1 .. Len(calls)
  <1>. DEFINE at == {k \in DOMAIN text : text[k] = "B"}
              n == Cardinality(at)
              calls == ParseBracketToolCalls(text)
  <1>1. IsFiniteSet(at)
    <2>1. Len(text) \in Nat /\ DOMAIN text = 1 .. Len(text)
      BY SeqFacts
    <2>2. IsFiniteSet(1 .. Len(text))
      BY <2>1, FS_Interval
    <2>3. at \subseteq 1 .. Len(text)
      BY <2>1
    <2>. HIDE DEF at
    <2>. QED BY <2>2, <2>3, FS_Subset
  <1>2. n \in Nat
    <2>. HIDE DEF at
    <2>. QED BY <1>1, FS_CardinalityType
  <1>. HIDE DEF at
  <1>3. calls = [i \in 1 .. n |-> calls[i]]
    BY DEF ParseBracketToolCalls, at
  <1>. HIDE DEF n, calls
  <1>4. IsSeq(calls) /\ Len(calls) = n
    BY <1>2, <1>3, ASequence
  <1>5. Len(calls) \in Nat /\ DOMAIN calls = 1 .. Len(calls)
    BY <1>4, SeqFacts
  <1>. QED BY <1>4, <1>5 DEF calls

\* The formatters use the operators of the event parser.
LEMMA SameOperators ==
  ASSUME NEW x
  PROVE  /\ OpenAI!ParseBracketToolCalls(x) = ParseBracketToolCalls(x)
         /\ Anthropic!ParseBracketToolCalls(x) = ParseBracketToolCalls(x)
         /\ OpenAI!DeduplicateToolCalls(x) = DeduplicateToolCalls(x)
  <1>1. \A S : OpenAI!Cardinality(S) = Cardinality(S)
    BY DEF Cardinality, OpenAI!Cardinality
  <1>2. \A S : Anthropic!Cardinality(S) = Cardinality(S)
    BY DEF Cardinality, Anthropic!Cardinality
  <1>3. OpenAI!ParseBracketToolCalls(x) = ParseBracketToolCalls(x)
    BY <1>1 DEF ParseBracketToolCalls, OpenAI!ParseBracketToolCalls
  <1>4. Anthropic!ParseBracketToolCalls(x) = ParseBracketToolCalls(x)
    BY <1>2 DEF ParseBracketToolCalls, Anthropic!ParseBracketToolCalls
  <1>5. OpenAI!DeduplicateToolCalls(x) = DeduplicateToolCalls(x)
    BY DEF OpenAI!DeduplicateToolCalls, DeduplicateToolCalls, OpenAI!ByText, ByText, OpenAI!ByID,
        ByID, OpenAI!KeepFirst, KeepFirst, OpenAI!KeepLongest, KeepLongest, OpenAI!SameText,
        SameText, OpenAI!LongerArguments, LongerArguments, OpenAI!ArgumentValues,
        ArgumentValues, OpenAI!FoldLeft, FoldLeft, OpenAI!MapThenFoldSet, MapThenFoldSet,
        OpenAI!Max, Max
  <1>. QED BY <1>3, <1>4, <1>5

LEMMA OpenAIFinishes ==
  ASSUME NEW cursor, NEW f, OpenAIKept(cursor, f)
  PROVE  LET g == OpenAI!Finish(f)
         IN  /\ Finished(cursor, g)
             /\ g.refused = f.refused /\ g.receivedContextUsage = f.receivedContextUsage
  <1>. DEFINE calls  == OpenAI!AllToolCalls(f)
              chunk  == OpenAI!ToolCallsChunk(calls)
              reason == OpenAI!FinishReason(f)
              e      == OpenAI!FinalChunk(reason)
              last   == OpenAI!Done
              out    == IF calls = <<>> THEN f.out ELSE Append(f.out, chunk)
              more   == Append(Append(out, e), last)
              g      == OpenAI!Finish(f)
  <1>1. IsSeq(calls)
    <2>1. IsSeq(f.toolCallsFromStream) /\ IsSeq(ParseBracketToolCalls(f.fullContent))
      BY WrittenCalls DEF OpenAIKept, IsOpenAI
    <2>. DEFINE all == f.toolCallsFromStream \o ParseBracketToolCalls(f.fullContent)
    <2>2. IsSeq(all)
      BY <2>1, ConcatFacts
    <2>. HIDE DEF all
    <2>3. IsSeq(DeduplicateToolCalls(all))
      BY <2>2, DeduplicatedIsSeq
    <2>. QED BY <2>3, SameOperators DEF OpenAI!AllToolCalls, all
  <1>2. /\ e.type = "finish" /\ e.reason = reason /\ last.type = "done"
        /\ chunk.type = "tool_calls" /\ chunk.calls = calls
    BY DEF OpenAI!FinalChunk, OpenAI!Done, OpenAI!ToolCallsChunk
  <1>3. reason = IF f.refused THEN "content_filter"
                 ELSE IF OpenAI!IsTruncated(f) THEN "length"
                 ELSE IF calls # <<>> THEN "tool_calls" ELSE "stop"
    BY DEF OpenAI!FinishReason
  <1>4. OpenAI!IsTruncated(f) => ~f.receivedContextUsage /\ f.fullContent # <<>> /\ calls = <<>>
    BY DEF OpenAI!IsTruncated
  <1>5. g = [f EXCEPT !.contentWasTruncated = OpenAI!IsTruncated(f), !.out = more]
    <2>. DEFINE h == IF calls = <<>> THEN f ELSE OpenAI!Emit(f, chunk)
    <2>1. h = [f EXCEPT !.out = out]
      <3>1. CASE calls = <<>>
        BY <3>1 DEF OpenAIKept, IsOpenAI, OpenAIFields
      <3>2. CASE calls # <<>>
        BY <3>2 DEF OpenAI!Emit
      <3>. QED BY <3>1, <3>2
    <2>2. g = OpenAI!Emit(OpenAI!Emit([h EXCEPT !.contentWasTruncated = OpenAI!IsTruncated(f)], e),
                          last)
      BY DEF OpenAI!Finish
    <2>. HIDE DEF h, out, e, last, g
    <2>. QED BY <2>1, <2>2 DEF OpenAI!Emit, OpenAIKept, IsOpenAI, OpenAIFields
  <1>. HIDE DEF calls, chunk, reason, e, last, g
  <1>6. PICK c : /\ Leads(cursor, f.out, c) /\ IsChunkAt(c)
                 /\ Unless(f.fullContent = <<>>, "text") \subseteq c.holds
    BY DEF OpenAIKept
  <1>. DEFINE held == Unless(chunk.calls = <<>>, "call")
              d == IF calls = <<>> THEN c ELSE Holding(c, held)
  <1>7. IsSeq(out) /\ Leads(cursor, out, d)
    <2>1. CASE calls = <<>>
      BY <1>6, <2>1 DEF OpenAIKept, IsOpenAI
    <2>2. CASE calls # <<>>
      <3>1. Moves(c, chunk, d)
        BY <1>1, <1>2, <1>6, <2>2 DEF IsChunkAt, AsChunk, BringsCalls, Moves
      <3>. HIDE DEF d
      <3>2. IsSeq(Append(f.out, chunk)) /\ Leads(cursor, Append(f.out, chunk), d)
        BY <1>6, <3>1, LeadsOn DEF OpenAIKept, IsOpenAI
      <3>. QED BY <2>2, <3>2
    <2>. QED BY <2>1, <2>2
  <1>8. /\ IsCursor(d) /\ d.phase = "body" /\ d.kind = "none" /\ c.holds \subseteq d.holds
        /\ "call" \in d.holds <=> calls # <<>>
    <2>1. calls # <<>> => held = {"call"}
      BY <1>2 DEF Unless
    <2>. HIDE DEF held
    <2>2. CASE calls = <<>>
      BY <1>6, <2>2 DEF IsChunkAt
    <2>3. CASE calls # <<>>
      BY <1>6, <2>1, <2>3, HoldingCursor DEF IsChunkAt
    <2>. QED BY <2>2, <2>3
  <1>. HIDE DEF d, out
  <1>9. e.reason # "none" /\ e.type \in {"message_delta", "finish"}
        /\ last.type \in {"message_stop", "done"}
    BY <1>2, <1>3
  <1>10. /\ IsSeq(more)
         /\ \E b : /\ Leads(cursor, more, b) /\ IsCursor(b) /\ b.phase = "done"
                   /\ b.reason = e.reason /\ b.holds = d.holds
    BY <1>7, <1>8, <1>9, LastTwo
  <1>. HIDE DEF more
  <1>11. /\ g.out = more /\ g.refused = f.refused /\ g.receivedContextUsage = f.receivedContextUsage
         /\ {"refused", "receivedContextUsage", "out"} \subseteq DOMAIN g
    BY <1>5 DEF OpenAIKept, IsOpenAI, OpenAIFields
  <1>12. PICK b : /\ Leads(cursor, more, b) /\ IsCursor(b) /\ b.phase = "done"
                  /\ b.reason = e.reason /\ b.holds = d.holds
    BY <1>10
  <1>13. f.fullContent # <<>> => "text" \in b.holds
    BY <1>6, <1>8, <1>12 DEF Unless
  <1>14. AtEnd(b, g)
    BY <1>2, <1>3, <1>4, <1>8, <1>11, <1>12, <1>13 DEF AtEnd
  <1>15. Finished(cursor, g)
    BY <1>10, <1>11, <1>12, <1>14 DEF Finished
  <1>. QED BY <1>11, <1>15 DEF g

BracketFold == INSTANCE FoldTheorems WITH op <- Anthropic!EmitToolUseBlock

\* h holds the formatter after each of the n calls.
CallStages(h, f, calls, n) ==
  /\ h[0] = f
  /\ \A i \in 1 .. n : h[i] = Anthropic!EmitToolUseBlock(h[i - 1], calls[i])
  /\ Anthropic!FoldLeft(Anthropic!EmitToolUseBlock, f, calls) = h[n]

LEMMA CallsInStages ==
  ASSUME NEW f, NEW calls, NEW n \in Nat, DOMAIN calls = 1 .. n
  PROVE  \E h : CallStages(h, f, calls, n)
  <1>1. \E h : /\ BracketFold!Stages(h, f, calls, n)
               /\ BracketFold!FoldLeft(Anthropic!EmitToolUseBlock, f, calls) = h[n]
    BY BracketFold!StagesOfFold
  <1>2. BracketFold!FoldLeft(Anthropic!EmitToolUseBlock, f, calls)
          = Anthropic!FoldLeft(Anthropic!EmitToolUseBlock, f, calls)
    BY DEF Anthropic!FoldLeft, Anthropic!MapThenFoldSet, Anthropic!Max,
           BracketFold!FoldLeft, BracketFold!MapThenFoldSet, BracketFold!Max
  <1>. QED BY <1>1, <1>2 DEF BracketFold!Stages, CallStages

\* The blocks of the calls written in the text.
LEMMA EmitsWrittenCalls ==
  ASSUME NEW cursor, NEW f, NEW held, Writes(cursor, f, held), ~f.thinkingOpen, ~f.textOpen,
         NEW calls, NEW n \in Nat, DOMAIN calls = 1 .. n
  PROVE  LET g == Anthropic!FoldLeft(Anthropic!EmitToolUseBlock, f, calls)
         IN  Writes(cursor, g, held) /\ Alters(f, g, BlockFields \cup {"toolBlockCount"})
  <1>0. PICK h : CallStages(h, f, calls, n)
    BY CallsInStages
  <1>1. /\ h[0] = f
        /\ \A i \in 1 .. n : h[i] = Anthropic!EmitToolUseBlock(h[i - 1], calls[i])
        /\ Anthropic!FoldLeft(Anthropic!EmitToolUseBlock, f, calls) = h[n]
    BY <1>0 DEF CallStages
  <1>. DEFINE Good(g) == /\ Writes(cursor, g, held) /\ ~g.thinkingOpen /\ ~g.textOpen
                         /\ Alters(f, g, BlockFields \cup {"toolBlockCount"})
              S == {k \in Nat : k <= n => Good(h[k])}
  <1>2. 0 \in S
    BY <1>1 DEF Writes, IsAnthropic, Alters
  <1>3. ASSUME NEW k \in Nat, k \in S PROVE k + 1 \in S
    <2>1. CASE k + 1 <= n
      <3>. DEFINE g == h[k]
                  r == h[k + 1]
      <3>1. k + 1 \in 1 .. n /\ (k + 1) - 1 = k /\ Good(g)
        BY <1>3, <2>1
      <3>2. r = Anthropic!EmitToolUseBlock(g, calls[k + 1])
        BY <1>1, <3>1
      <3>. HIDE DEF g, r
      <3>3. /\ Writes(cursor, r, held) /\ Alters(g, r, {"current", "toolBlockCount", "out"})
            /\ ~r.thinkingOpen /\ ~r.textOpen
        BY <3>1, <3>2, EmitsToolBlock
      <3>4. Good(r)
        BY <3>1, <3>3 DEF Alters, BlockFields
      <3>. QED BY <3>4 DEF r
    <2>. QED BY <2>1
  <1>4. Nat \subseteq S
    <2>. HIDE DEF S
    <2>. QED BY <1>2, <1>3, Induction
  <1>5. Good(h[n])
    BY <1>4
  <1>. QED BY <1>1, <1>5

LEMMA AnthropicFinishes ==
  ASSUME NEW cursor, NEW f, Kept(cursor, f)
  PROVE  LET g == Anthropic!Finish(f)
         IN  /\ Finished(cursor, g)
             /\ g.refused = f.refused /\ g.receivedContextUsage = f.receivedContextUsage
  <1>. DEFINE calls  == Anthropic!ParseBracketToolCalls(f.fullContent)
              held   == Unless(f.fullContent = <<>>, "text")
              f1     == Anthropic!CloseOpenBlocks(f)
              f2     == IF calls = <<>> THEN f
                        ELSE Anthropic!FoldLeft(Anthropic!EmitToolUseBlock, f1, calls)
              h      == Anthropic!CloseOpenBlocks(f2)
              reason == Anthropic!StopReason(h)
              e      == Anthropic!MessageDelta(reason)
              last   == Anthropic!MessageStop
              more   == Append(Append(h.out, e), last)
              g      == Anthropic!Finish(f)
  <1>1. g = Anthropic!Emit(Anthropic!Emit(h, e), last)
    BY DEF Anthropic!Finish
  <1>2. Len(calls) \in Nat /\ DOMAIN calls = 1 .. Len(calls)
    BY WrittenCalls, SameOperators DEF Kept, Writes, IsAnthropic
  <1>3. /\ e.type = "message_delta" /\ e.reason = reason /\ last.type = "message_stop"
    BY DEF Anthropic!MessageDelta, Anthropic!MessageStop
  <1>. HIDE DEF calls, held, g
  <1>4. Writes(cursor, f1, held) /\ Alters(f, f1, BlockFields) /\ ~f1.thinkingOpen /\ ~f1.textOpen
    BY ClosesBlocks DEF Kept, held
  <1>. HIDE DEF f1
  <1>5. Writes(cursor, f2, held) /\ Alters(f, f2, BlockFields \cup {"toolBlockCount"})
    <2>1. CASE calls = <<>>
      BY <2>1 DEF Kept, held, Writes, IsAnthropic, Alters
    <2>2. CASE calls # <<>>
      <3>1. f2 = Anthropic!FoldLeft(Anthropic!EmitToolUseBlock, f1, calls)
        BY <2>2
      <3>. HIDE DEF f2
      <3>2. Writes(cursor, f2, held) /\ Alters(f1, f2, BlockFields \cup {"toolBlockCount"})
        BY <1>2, <1>4, <3>1, EmitsWrittenCalls
      <3>. QED BY <1>4, <3>2 DEF Alters
    <2>. QED BY <2>1, <2>2
  <1>. HIDE DEF f2
  <1>6. Writes(cursor, h, held) /\ Alters(f2, h, BlockFields) /\ ~h.thinkingOpen /\ ~h.textOpen
    BY <1>5, ClosesBlocks
  <1>7. /\ h.fullContent = f.fullContent /\ h.refused = f.refused
        /\ h.receivedContextUsage = f.receivedContextUsage
    BY <1>5, <1>6 DEF Alters, BlockFields, AnthropicFields
  <1>8. reason = IF h.refused THEN "refusal"
                 ELSE IF Anthropic!ContentWasTruncated(h) THEN "max_tokens"
                 ELSE IF h.toolBlockCount > 0 THEN "tool_use" ELSE "end_turn"
    BY DEF Anthropic!StopReason
  <1>9. Anthropic!ContentWasTruncated(h) =>
          ~h.receivedContextUsage /\ h.fullContent # <<>> /\ h.toolBlockCount = 0
    BY DEF Anthropic!ContentWasTruncated
  <1>. HIDE DEF h, reason, e, last
  <1>10. g = [h EXCEPT !.out = more]
    BY <1>1, <1>6 DEF Anthropic!Emit, Writes, IsAnthropic, AnthropicFields
  <1>11. PICK c : Leads(cursor, h.out, c) /\ IsAt(h, c) /\ held \subseteq c.holds
    BY <1>6 DEF Writes
  <1>12. /\ IsSeq(h.out) /\ IsCursor(c) /\ c.phase = "body" /\ c.kind = "none"
         /\ ("call" \in c.holds <=> h.toolBlockCount > 0) /\ h.toolBlockCount \in Nat
    BY <1>6, <1>11 DEF IsAt, Writes, IsAnthropic
  <1>13. /\ e.reason # "none" /\ e.type \in {"message_delta", "finish"}
         /\ last.type \in {"message_stop", "done"}
    BY <1>3, <1>8
  <1>14. /\ IsSeq(more)
         /\ \E b : /\ Leads(cursor, more, b) /\ IsCursor(b) /\ b.phase = "done"
                   /\ b.reason = e.reason /\ b.holds = c.holds
    BY <1>11, <1>12, <1>13, LastTwo
  <1>. HIDE DEF more
  <1>15. /\ g.out = more /\ g.refused = h.refused /\ g.receivedContextUsage = h.receivedContextUsage
         /\ {"refused", "receivedContextUsage", "out"} \subseteq DOMAIN g
    BY <1>6, <1>10 DEF Writes, IsAnthropic, AnthropicFields
  <1>16. PICK b : /\ Leads(cursor, more, b) /\ IsCursor(b) /\ b.phase = "done"
                  /\ b.reason = e.reason /\ b.holds = c.holds
    BY <1>14
  <1>17. h.fullContent # <<>> => "text" \in b.holds
    BY <1>7, <1>11, <1>16 DEF held, Unless
  <1>18. 0 > 0 <=> FALSE
    OBVIOUS
  <1>19. AtEnd(b, g)
    BY <1>3, <1>8, <1>9, <1>12, <1>15, <1>16, <1>17, <1>18 DEF AtEnd
  <1>20. Finished(cursor, g)
    BY <1>14, <1>15, <1>16, <1>19 DEF Finished
  <1>. QED BY <1>7, <1>15, <1>20 DEF g


-----------------------------------------------------------------------------
(* The formatter of either dialect.                                        *)
KeptBy(cursor, f) == IF dialect = "anthropic" THEN Kept(cursor, f) ELSE OpenAIKept(cursor, f)

TextOpen(f) == dialect = "anthropic" /\ f.textOpen

\* What a formatter has been told: g after f and events of these kinds.
Told(f, g, kinds) ==
  /\ TextOpen(g) => TextOpen(f) \/ "content" \in kinds
  /\ g.refused <=> f.refused \/ "refusal" \in kinds
  /\ g.receivedContextUsage <=> f.receivedContextUsage \/ "context_usage" \in kinds

LEMMA HandlesEvent ==
  ASSUME NEW cursor, NEW f, KeptBy(cursor, f), NEW e, IsEvent(e), dialect \in Dialects,
         e.kind = "thinking" => ~TextOpen(f)
  PROVE  KeptBy(cursor, Handle(f, e)) /\ Told(f, Handle(f, e), {e.kind})
  <1>1. CASE dialect = "anthropic"
    <2>. DEFINE g == Anthropic!Handle(f, e)
    <2>1. Handle(f, e) = g
      BY <1>1 DEF Handle
    <2>2. Kept(cursor, f) /\ (e.kind = "thinking" => ~f.textOpen)
      BY <1>1 DEF KeptBy, TextOpen
    <2>3. /\ Kept(cursor, g) /\ (g.textOpen => f.textOpen \/ e.kind = "content")
          /\ (g.refused <=> f.refused \/ e.kind = "refusal")
          /\ (g.receivedContextUsage <=> f.receivedContextUsage \/ e.kind = "context_usage")
      BY <2>2, AnthropicHandles
    <2>. HIDE DEF g
    <2>4. KeptBy(cursor, g) /\ Told(f, g, {e.kind})
      BY <1>1, <2>3 DEF KeptBy, Told, TextOpen
    <2>. QED BY <2>1, <2>4
  <1>2. CASE dialect = "openai"
    <2>. DEFINE g == OpenAI!Handle(f, e)
    <2>1. Handle(f, e) = g
      BY <1>2 DEF Handle
    <2>2. OpenAIKept(cursor, f)
      BY <1>2 DEF KeptBy
    <2>3. /\ OpenAIKept(cursor, g) /\ (g.refused <=> f.refused \/ e.kind = "refusal")
          /\ (g.receivedContextUsage <=> f.receivedContextUsage \/ e.kind = "context_usage")
      BY <2>2, OpenAIHandles
    <2>. HIDE DEF g
    <2>4. KeptBy(cursor, g) /\ Told(f, g, {e.kind})
      BY <1>2, <2>3 DEF KeptBy, Told, TextOpen
    <2>. QED BY <2>1, <2>4
  <1>. QED BY <1>1, <1>2 DEF Dialects

HandleFold == INSTANCE FoldTheorems WITH op <- Handle

\* h holds the formatter after each of the n events.
HandledStages(h, f, events, n) ==
  /\ h[0] = f /\ \A i \in 1 .. n : h[i] = Handle(h[i - 1], events[i])
  /\ FoldLeft(Handle, f, events) = h[n]

LEMMA HandledInStages ==
  ASSUME NEW f, NEW events, NEW n \in Nat, DOMAIN events = 1 .. n
  PROVE  \E h : HandledStages(h, f, events, n)
  <1>1. \E h : /\ HandleFold!Stages(h, f, events, n)
               /\ HandleFold!FoldLeft(Handle, f, events) = h[n]
    BY HandleFold!StagesOfFold
  <1>2. HandleFold!FoldLeft(Handle, f, events) = FoldLeft(Handle, f, events)
    BY DEF FoldLeft, MapThenFoldSet, Max,
           HandleFold!FoldLeft, HandleFold!MapThenFoldSet, HandleFold!Max
  <1>. QED BY <1>1, <1>2 DEF HandleFold!Stages, HandledStages

LEMMA HandlesEvents ==
  ASSUME NEW cursor, NEW f, KeptBy(cursor, f), NEW events, AreEvents(events),
         dialect \in Dialects, "thinking" \in KindsOf(events) => ~TextOpen(f)
  PROVE  LET g == FoldLeft(Handle, f, events)
         IN  KeptBy(cursor, g) /\ Told(f, g, KindsOf(events))
  <1>. DEFINE n == Len(events)
              First(k) == {events[i].kind : i \in 1 .. k}
  <1>1. n \in Nat /\ DOMAIN events = 1 .. n
    BY SeqFacts DEF AreEvents
  <1>. HIDE DEF n
  <1>2. PICK h : HandledStages(h, f, events, n)
    BY <1>1, HandledInStages
  <1>3. /\ h[0] = f /\ \A i \in 1 .. n : h[i] = Handle(h[i - 1], events[i])
        /\ FoldLeft(Handle, f, events) = h[n]
    BY <1>2 DEF HandledStages
  <1>. DEFINE Good(k) == KeptBy(cursor, h[k]) /\ Told(f, h[k], First(k))
              S == {k \in Nat : k <= n => Good(k)}
  <1>4. 0 \in S
    BY <1>3 DEF Told
  <1>. HIDE DEF Good
  <1>5. ASSUME NEW k \in Nat, k \in S PROVE k + 1 \in S
    <2>1. CASE k + 1 <= n
      <3>. DEFINE e == events[k + 1]
                  g == h[k]
                  r == h[k + 1]
      <3>0. k + 1 \in 1 .. n /\ (k + 1) - 1 = k /\ Good(k)
        BY <1>1, <1>5, <2>1
      <3>1. k + 1 \in 1 .. n /\ (k + 1) - 1 = k /\ KeptBy(cursor, g) /\ Told(f, g, First(k))
        BY <3>0 DEF Good
      <3>2. r = Handle(g, e)
        BY <1>3, <3>1
      <3>3. IsEvent(e) /\ (e.kind = "thinking" => k + 1 = 1)
        <4>1. k + 1 \in 1 .. Len(events)
          BY <3>1 DEF n
        <4>2. k + 1 # 1 => k + 1 \in 2 .. Len(events)
          BY <4>1
        <4>. QED BY <4>1, <4>2 DEF AreEvents
      <3>4. k + 1 = 1 /\ e.kind = "thinking" => g = f /\ ~TextOpen(f)
        <4>1. k + 1 = 1 => k = 0
          OBVIOUS
        <4>2. k + 1 = 1 /\ e.kind = "thinking" => "thinking" \in KindsOf(events)
          BY <3>1 DEF KindsOf, n
        <4>. QED BY <1>3, <4>1, <4>2
      <3>5. First(k + 1) = First(k) \cup {e.kind}
        <4>1. 1 .. k + 1 = (1 .. k) \cup {k + 1}
          OBVIOUS
        <4>. QED BY <4>1
      <3>. HIDE DEF e, g, r, First
      <3>6. KeptBy(cursor, r) /\ Told(g, r, {e.kind})
        BY <3>1, <3>2, <3>3, <3>4, HandlesEvent
      <3>7. Told(f, r, First(k) \cup {e.kind})
        BY <3>1, <3>6 DEF Told
      <3>8. Good(k + 1)
        BY <3>5, <3>6, <3>7 DEF r, Good
      <3>. QED BY <3>8
    <2>. QED BY <2>1
  <1>6. Nat \subseteq S
    <2>. HIDE DEF S
    <2>. QED BY <1>4, <1>5, Induction
  <1>7. KeptBy(cursor, h[n]) /\ Told(f, h[n], First(n))
    <2>1. n \in S /\ n <= n
      BY <1>1, <1>6
    <2>2. Good(n)
      BY <2>1
    <2>. QED BY <2>2 DEF Good
  <1>8. First(n) = KindsOf(events)
    BY DEF KindsOf, n
  <1>. QED BY <1>3, <1>7, <1>8

\* The end of the message, in either dialect.
LEMMA FinishesMessage ==
  ASSUME NEW cursor, NEW f, KeptBy(cursor, f), dialect \in Dialects
  PROVE  LET g == FormatterFinish(f)
         IN  /\ Finished(cursor, g)
             /\ g.refused = f.refused /\ g.receivedContextUsage = f.receivedContextUsage
  <1>1. CASE dialect = "anthropic"
    <2>1. FormatterFinish(f) = Anthropic!Finish(f) /\ Kept(cursor, f)
      BY <1>1 DEF FormatterFinish, KeptBy
    <2>. QED BY <2>1, AnthropicFinishes
  <1>2. CASE dialect = "openai"
    <2>1. FormatterFinish(f) = OpenAI!Finish(f) /\ OpenAIKept(cursor, f)
      BY <1>2 DEF FormatterFinish, KeptBy
    <2>. QED BY <2>1, OpenAIFinishes
  <1>. QED BY <1>1, <1>2 DEF Dialects

-----------------------------------------------------------------------------
(* The reply of a client.                                                  *)
ReplyFields == {"started", "blocks", "reason", "ended", "pings"}

PartFields == {"index", "kind", "call", "text", "signed", "open"}

IsBlock(b) == b = [x \in PartFields |-> b[x]] /\ IsSeq(b.text) /\ b.kind # "none"

HasBlocks(r) ==
  /\ r = [x \in ReplyFields |-> r[x]]
  /\ IsSeq(r.blocks) /\ \A i \in 1 .. Len(r.blocks) : IsBlock(r.blocks[i])

\* The blocks of a message are numbered, and the last one alone may be open.
IsReply(r) ==
  /\ HasBlocks(r)
  /\ dialect = "anthropic" =>
       \A i \in 1 .. Len(r.blocks) :
         r.blocks[i].index = i - 1 /\ (i # Len(r.blocks) => ~r.blocks[i].open)

\* What an event for a block leaves alone.
RestAlike(r, s) ==
  s.started = r.started /\ s.ended = r.ended /\ s.reason = r.reason /\ s.pings = r.pings

HasCall(r) == \E i \in 1 .. Len(r.blocks) : r.blocks[i].call # <<>>

IsText(b) == b.kind = "text" /\ b.text # <<>>

HasText(r) == \E i \in 1 .. Len(r.blocks) : IsText(r.blocks[i])

\* One block of a reply is another one.
Put(r, n, b) == [r EXCEPT !.blocks[n] = b]

LEMMA BlockPut ==
  ASSUME NEW r, HasBlocks(r), NEW n \in 1 .. Len(r.blocks), NEW b, IsBlock(b)
  PROVE  LET s == Put(r, n, b)
         IN  /\ HasBlocks(s) /\ RestAlike(r, s) /\ Len(s.blocks) = Len(r.blocks)
             /\ s.blocks[n] = b /\ \A i \in 1 .. Len(r.blocks) : i # n => s.blocks[i] = r.blocks[i]
  <1>. DEFINE parts == [r.blocks EXCEPT ![n] = b]
              s == Put(r, n, b)
  <1>1. DOMAIN r.blocks = 1 .. Len(r.blocks) /\ Len(r.blocks) \in Nat
    BY SeqFacts DEF HasBlocks
  <1>2. /\ parts = [i \in DOMAIN r.blocks |-> parts[i]] /\ parts[n] = b
        /\ \A i \in 1 .. Len(r.blocks) : i # n => parts[i] = r.blocks[i]
    BY <1>1
  <1>3. s = [r EXCEPT !.blocks = parts]
    BY DEF Put
  <1>. HIDE DEF parts, s
  <1>4. IsSeq(parts) /\ Len(parts) = Len(r.blocks)
    BY <1>2, SameLength DEF HasBlocks
  <1>5. s = [x \in ReplyFields |-> s[x]] /\ s.blocks = parts /\ RestAlike(r, s)
    BY <1>3 DEF HasBlocks, ReplyFields, RestAlike
  <1>6. \A i \in 1 .. Len(parts) : IsBlock(parts[i])
    BY <1>2, <1>4 DEF HasBlocks
  <1>7. HasBlocks(s)
    BY <1>4, <1>5, <1>6 DEF HasBlocks
  <1>. QED BY <1>2, <1>4, <1>5, <1>7 DEF s

LEMMA PutHolds ==
  ASSUME NEW r, HasBlocks(r), NEW n \in 1 .. Len(r.blocks), NEW b, IsBlock(b),
         b.call # <<>> <=> r.blocks[n].call # <<>>, IsText(r.blocks[n]) => IsText(b)
  PROVE  LET s == Put(r, n, b)
         IN  (HasCall(s) <=> HasCall(r)) /\ (HasText(r) \/ IsText(b) => HasText(s))
  <1>. DEFINE s == Put(r, n, b)
  <1>1. /\ Len(s.blocks) = Len(r.blocks)
        /\ s.blocks[n] = b /\ \A i \in 1 .. Len(r.blocks) : i # n => s.blocks[i] = r.blocks[i]
    BY BlockPut
  <1>. HIDE DEF s
  <1>2. \A i \in 1 .. Len(r.blocks) : s.blocks[i].call # <<>> <=> r.blocks[i].call # <<>>
    BY <1>1
  <1>3. HasCall(s) <=> HasCall(r)
    BY <1>1, <1>2 DEF HasCall
  <1>4. \A i \in 1 .. Len(r.blocks) : IsText(r.blocks[i]) => IsText(s.blocks[i])
    BY <1>1
  <1>5. HasText(r) \/ IsText(b) => HasText(s)
    BY <1>1, <1>4 DEF HasText
  <1>. QED BY <1>3, <1>5 DEF s

\* A reply with a block more.
With(r, b) == [r EXCEPT !.blocks = Append(@, b)]

LEMMA BlockAdded ==
  ASSUME NEW r, HasBlocks(r), NEW b, IsBlock(b)
  PROVE  LET s == With(r, b)
             n == Len(r.blocks)
         IN  /\ HasBlocks(s) /\ RestAlike(r, s) /\ n \in Nat /\ Len(s.blocks) = n + 1
             /\ s.blocks[n + 1] = b /\ \A i \in 1 .. n : s.blocks[i] = r.blocks[i]
             /\ (HasCall(s) <=> HasCall(r) \/ b.call # <<>>)
             /\ (HasText(r) \/ IsText(b) => HasText(s))
  <1>. DEFINE parts == Append(r.blocks, b)
              s == With(r, b)
              n == Len(r.blocks)
  <1>1. /\ n \in Nat /\ IsSeq(parts) /\ Len(parts) = n + 1 /\ parts[n + 1] = b
        /\ \A i \in 1 .. n : parts[i] = r.blocks[i]
    BY SeqFacts, AppendFacts DEF HasBlocks
  <1>. HIDE DEF parts
  <1>2. s = [x \in ReplyFields |-> s[x]] /\ s.blocks = parts /\ RestAlike(r, s)
    BY DEF HasBlocks, ReplyFields, RestAlike, With, parts
  <1>. HIDE DEF s
  <1>3. 1 .. n + 1 = (1 .. n) \cup {n + 1}
    BY <1>1
  <1>4. \A i \in 1 .. Len(parts) : IsBlock(parts[i])
    BY ZenonT(60), <1>1, <1>3 DEF HasBlocks
  <1>5. HasBlocks(s)
    BY <1>1, <1>2, <1>4 DEF HasBlocks
  <1>6. HasCall(s) <=> HasCall(r) \/ b.call # <<>>
    BY <1>1, <1>2, <1>3 DEF HasCall
  <1>7. HasText(r) \/ IsText(b) => HasText(s)
    BY <1>1, <1>2, <1>3 DEF HasText
  <1>. QED BY <1>1, <1>2, <1>5, <1>6, <1>7 DEF s

-----------------------------------------------------------------------------
(* Where a reply stands, and how an event takes it on.                     *)
PhaseOf(r) ==
  IF r.ended THEN "done" ELSE IF r.reason # "none" THEN "ended"
  ELSE IF r.started THEN "body" ELSE "before"

BlocksOf(r) == IF dialect = "openai" THEN <<>> ELSE r.blocks

GrowingOf(r) == BlocksOf(r) # <<>> /\ Last(BlocksOf(r)).open

ClosedOf(r) == IF GrowingOf(r) THEN Front(BlocksOf(r)) ELSE BlocksOf(r)

OpenOf(r) == IF GrowingOf(r) THEN <<[Last(BlocksOf(r)) EXCEPT !.open = FALSE]>> ELSE <<>>

Stands(r, c) ==
  /\ IsCursor(c) /\ c.dialect = dialect /\ c.phase = PhaseOf(r) /\ c.reason = r.reason
  /\ c.closed = Len(ClosedOf(r))
  /\ c.kind = IF GrowingOf(r) THEN Last(BlocksOf(r)).kind ELSE "none"
  /\ c.call = IF GrowingOf(r) THEN Last(BlocksOf(r)).call ELSE <<>>
  /\ ("call" \in c.holds <=> HasCall(r)) /\ ("text" \in c.holds => HasText(r))

\* The steps of MessageProtocol but the pings.
SameBlocks(r, s) == ClosedOf(s) = ClosedOf(r) /\ OpenOf(s) = OpenOf(r)

PhaseGoesOn(r, s) ==
  /\ SameBlocks(r, s)
  /\ \/ PhaseOf(r) = "before" /\ PhaseOf(s) = "body"
     \/ PhaseOf(r) = "body" /\ PhaseOf(s) = "ended" /\ OpenOf(r) = <<>>
     \/ PhaseOf(r) = "ended" /\ PhaseOf(s) = "done"

OpensOne(r, s) ==
  /\ OpenOf(r) = <<>> /\ Len(OpenOf(s)) = 1 /\ OpenOf(s)[1].index = Len(ClosedOf(r))
  /\ ClosedOf(s) = ClosedOf(r)

GrowsOne(r, s) ==
  LET a == OpenOf(r)[1]
      b == OpenOf(s)[1]
  IN  /\ OpenOf(r) # <<>> /\ Len(OpenOf(s)) = 1
      /\ OpenOf(s) = <<[a EXCEPT !.text = b.text, !.signed = b.signed, !.call = b.call]>>
      /\ IsPrefix(a.text, b.text) /\ (a.signed => b.signed)
      /\ b.call # a.call => Protocol!GivesInput(a.call, b.call)
      /\ ClosedOf(s) = ClosedOf(r)

ClosesOne(r, s) ==
  /\ OpenOf(r) # <<>> /\ ClosedOf(s) = Append(ClosedOf(r), OpenOf(r)[1]) /\ OpenOf(s) = <<>>

StepsTo(r, s) ==
  \/ PhaseGoesOn(r, s)
  \/ /\ PhaseOf(r) = "body" /\ PhaseOf(s) = "body"
     /\ OpensOne(r, s) \/ GrowsOne(r, s) \/ ClosesOne(r, s) \/ SameBlocks(r, s)

Flags(r) == r.started \in BOOLEAN /\ r.ended \in BOOLEAN

\* An event takes a reply that stands at c to one that stands at d.
Follows(r, s, d) ==
  /\ IsReply(s) /\ Stands(s, d) /\ StepsTo(r, s) /\ s.pings = r.pings
  /\ Flags(r) => Flags(s)

LEMMA AlikePhase ==
  ASSUME NEW r, NEW s, RestAlike(r, s)
  PROVE  PhaseOf(s) = PhaseOf(r) /\ (Flags(r) => Flags(s))
  BY DEF RestAlike, PhaseOf, Flags

\* A message whose last block is open, and one with none.
LEMMA WhenOpen ==
  ASSUME dialect = "anthropic", NEW r, IsReply(r), NEW c, Stands(r, c), c.kind # "none"
  PROVE  LET n == Len(r.blocks)
             b == r.blocks[n]
         IN  /\ n \in Nat /\ n \in 1 .. n /\ GrowingOf(r) /\ b.open /\ c.closed = n - 1
             /\ ClosedOf(r) = Front(r.blocks) /\ OpenOf(r) = <<[b EXCEPT !.open = FALSE]>>
             /\ c.kind = b.kind /\ c.call = b.call /\ b.index = n - 1
             /\ ByIndex(r.blocks, c.closed) = n
  <1>. DEFINE n == Len(r.blocks)
              b == r.blocks[n]
  <1>1. GrowingOf(r) /\ BlocksOf(r) = r.blocks /\ dialect # "openai"
    BY DEF Stands, BlocksOf
  <1>2. n \in Nat /\ r.blocks # <<>> /\ n # 0 /\ Last(r.blocks) = b
    BY <1>1, SeqFacts DEF GrowingOf, IsReply, HasBlocks, Last
  <1>3. n \in 1 .. n /\ b.open
    BY <1>1, <1>2 DEF GrowingOf
  <1>4. /\ ClosedOf(r) = Front(r.blocks) /\ OpenOf(r) = <<[b EXCEPT !.open = FALSE]>>
        /\ c.kind = b.kind /\ c.call = b.call
    BY <1>1, <1>2 DEF ClosedOf, OpenOf, Stands
  <1>5. c.closed = n - 1
    BY <1>1, <1>2, FrontFacts DEF Stands, ClosedOf, IsReply, HasBlocks
  <1>6. \A i \in 1 .. n : r.blocks[i].index = i - 1
    BY DEF IsReply
  <1>7. ByIndex(r.blocks, c.closed) = n
    <2>1. DOMAIN r.blocks = 1 .. n
      BY SeqFacts DEF IsReply, HasBlocks
    <2>. HIDE DEF n
    <2>2. {i \in DOMAIN r.blocks : r.blocks[i].index = c.closed} = {n}
      BY <1>2, <1>3, <1>5, <1>6, <2>1
    <2>3. Max({n}) = n
      BY <1>2 DEF Max
    <2>. QED BY <2>2, <2>3 DEF ByIndex
  <1>. QED BY <1>1, <1>2, <1>3, <1>4, <1>5, <1>6, <1>7

LEMMA WhenClosed ==
  ASSUME dialect = "anthropic", NEW r, IsReply(r), NEW c, Stands(r, c), c.kind = "none"
  PROVE  /\ ~GrowingOf(r) /\ ClosedOf(r) = r.blocks /\ OpenOf(r) = <<>>
         /\ c.closed = Len(r.blocks) /\ c.call = <<>>
         /\ \A i \in 1 .. Len(r.blocks) : ~r.blocks[i].open
  <1>. DEFINE n == Len(r.blocks)
  <1>1. BlocksOf(r) = r.blocks /\ dialect # "openai" /\ n \in Nat
    BY SeqFacts DEF BlocksOf, IsReply, HasBlocks
  <1>2. ~GrowingOf(r)
    <2>. SUFFICES ASSUME GrowingOf(r) PROVE FALSE
      OBVIOUS
    <2>1. r.blocks # <<>> /\ Last(r.blocks) = r.blocks[n] /\ n # 0
      BY <1>1, SeqFacts DEF GrowingOf, Last, IsReply, HasBlocks
    <2>2. r.blocks[n].kind # "none"
      <3>1. n \in 1 .. n
        BY <1>1, <2>1
      <3>. QED BY <3>1 DEF IsReply, HasBlocks, IsBlock
    <2>. QED BY <1>1, <2>1, <2>2 DEF Stands
  <1>3. ClosedOf(r) = r.blocks /\ OpenOf(r) = <<>> /\ c.closed = n /\ c.call = <<>>
    BY <1>1, <1>2 DEF ClosedOf, OpenOf, Stands
  <1>4. ASSUME NEW i \in 1 .. n PROVE ~r.blocks[i].open
    <2>1. r.blocks # <<>> /\ Last(r.blocks) = r.blocks[n]
      BY <1>1, SeqFacts DEF Last, IsReply, HasBlocks
    <2>2. ~r.blocks[n].open
      BY <1>1, <1>2, <2>1 DEF GrowingOf
    <2>3. i # n => ~r.blocks[i].open
      BY DEF IsReply
    <2>. QED BY <2>2, <2>3
  <1>. QED BY <1>2, <1>3, <1>4

\* What a delta may make of a block, and of the place of the reply.
Grown(a, b) ==
  /\ b = [a EXCEPT !.text = b.text, !.signed = b.signed, !.call = b.call]
  /\ IsBlock(b) /\ IsPrefix(a.text, b.text) /\ (a.signed => b.signed)
  /\ b.call # a.call => a.call = <<[b.call[1] EXCEPT !.arguments = "{}"]>>
  /\ (b.call # <<>> <=> a.call # <<>>) /\ (IsText(a) => IsText(b))

ReadsOn(c, d, b) ==
  /\ IsCursor(d) /\ d.dialect = c.dialect /\ d.phase = c.phase /\ d.reason = c.reason
  /\ d.closed = c.closed /\ d.kind = c.kind /\ d.call = b.call
  /\ "call" \in d.holds <=> "call" \in c.holds
  /\ "text" \in d.holds => "text" \in c.holds \/ IsText(b)

LEMMA BlockGrown ==
  ASSUME dialect = "anthropic", NEW r, IsReply(r), NEW c, Stands(r, c), c.kind # "none",
         c.phase = "body", NEW a, a = r.blocks[Len(r.blocks)], NEW b, Grown(a, b),
         NEW d, ReadsOn(c, d, b)
  PROVE  Follows(r, Put(r, Len(r.blocks), b), d)
  <1>. DEFINE n == Len(r.blocks)
              s == Put(r, n, b)
              shut(x) == [x EXCEPT !.open = FALSE]
  <1>1. /\ n \in Nat /\ n \in 1 .. n /\ GrowingOf(r) /\ a.open /\ c.closed = n - 1
        /\ ClosedOf(r) = Front(r.blocks) /\ OpenOf(r) = <<shut(a)>>
        /\ c.kind = a.kind /\ c.call = a.call /\ a.index = n - 1
    BY SMTT(60), WhenOpen
  <1>2. HasBlocks(r) /\ IsBlock(a) /\ IsBlock(b)
    BY <1>1 DEF IsReply, HasBlocks, Grown
  <1>3. /\ HasBlocks(s) /\ RestAlike(r, s) /\ Len(s.blocks) = n
        /\ s.blocks[n] = b /\ \A i \in 1 .. n : i # n => s.blocks[i] = r.blocks[i]
    BY <1>1, <1>2, BlockPut
  <1>4. (HasCall(s) <=> HasCall(r)) /\ (HasText(r) \/ IsText(b) => HasText(s))
    BY <1>1, <1>2, PutHolds DEF Grown
  <1>. HIDE DEF s
  <1>5. b.open /\ b.index = a.index /\ b.kind = a.kind
    <2>. DEFINE x == [a EXCEPT !.text = b.text, !.signed = b.signed, !.call = b.call]
    <2>1. x.open = a.open /\ x.index = a.index /\ x.kind = a.kind
      BY <1>2 DEF IsBlock, PartFields
    <2>2. b = x
      BY DEF Grown
    <2>. HIDE DEF x
    <2>. QED BY <1>1, <2>1, <2>2
  <1>6. IsReply(s)
    <2>1. \A i \in 1 .. n : r.blocks[i].index = i - 1 /\ (i # n => ~r.blocks[i].open)
      BY DEF IsReply
    <2>2. \A i \in 1 .. n : s.blocks[i].index = i - 1 /\ (i # n => ~s.blocks[i].open)
      BY <1>1, <1>3, <1>5, <2>1
    <2>. QED BY <1>3, <2>2 DEF IsReply
  <1>7. Front(s.blocks) = Front(r.blocks) /\ s.blocks # <<>>
    <2>1. s.blocks # <<>> /\ r.blocks # <<>> /\ IsSeq(s.blocks) /\ IsSeq(r.blocks)
      BY <1>1, <1>2, <1>3, SeqFacts DEF HasBlocks
    <2>. DEFINE old == Front(r.blocks)
                new == Front(s.blocks)
    <2>2. IsSeq(new) /\ Len(new) = n - 1 /\ \A i \in 1 .. n - 1 : new[i] = s.blocks[i]
      BY <1>3, <2>1, FrontFacts
    <2>3. IsSeq(old) /\ Len(old) = n - 1 /\ \A i \in 1 .. n - 1 : old[i] = r.blocks[i]
      BY <2>1, FrontFacts
    <2>. HIDE DEF old, new
    <2>4. \A i \in 1 .. n - 1 : i \in 1 .. n /\ i # n
      BY <1>1
    <2>5. \A i \in 1 .. n - 1 : new[i] = old[i]
      BY <1>3, <2>2, <2>3, <2>4
    <2>6. new = old
      BY <2>2, <2>3, <2>5, EqualSeqs
    <2>. QED BY <2>1, <2>6 DEF old, new
  <1>8. /\ GrowingOf(s) /\ ClosedOf(s) = ClosedOf(r) /\ OpenOf(s) = <<shut(b)>>
        /\ Last(BlocksOf(s)) = b
    BY <1>1, <1>3, <1>5, <1>7 DEF GrowingOf, ClosedOf, OpenOf, BlocksOf, Last
  <1>9. /\ PhaseOf(s) = PhaseOf(r) /\ s.reason = r.reason /\ s.pings = r.pings
        /\ Flags(r) => Flags(s)
    BY <1>3, AlikePhase DEF RestAlike
  <1>10. Stands(s, d)
    <2>1. d.kind = b.kind /\ d.call = b.call
      BY <1>1, <1>5 DEF ReadsOn
    <2>. QED BY <1>4, <1>8, <1>9, <2>1 DEF Stands, ReadsOn
  <1>11. GrowsOne(r, s)
    <2>. DEFINE x == shut(a)
                y == shut(b)
    <2>1. /\ x.text = a.text /\ x.call = a.call /\ (x.signed => a.signed)
          /\ y.text = b.text /\ y.call = b.call /\ (b.signed => y.signed) /\ y.signed = b.signed
      BY SMTT(60), <1>2 DEF IsBlock, PartFields
    <2>2. y = [x EXCEPT !.text = b.text, !.signed = b.signed, !.call = b.call]
      <3>1. b = [a EXCEPT !.text = b.text, !.signed = b.signed, !.call = b.call]
        BY DEF Grown
      <3>2. a = [z \in PartFields |-> a[z]]
        BY <1>2 DEF IsBlock
      <3>3. \A t, g, k : shut([a EXCEPT !.text = t, !.signed = g, !.call = k])
                         = [shut(a) EXCEPT !.text = t, !.signed = g, !.call = k]
        BY <3>2 DEF PartFields
      <3>. QED BY <3>1, <3>3
    <2>3. OpenOf(r) # <<>> /\ OpenOf(r)[1] = x /\ Len(OpenOf(s)) = 1 /\ OpenOf(s)[1] = y
      BY <1>1, <1>8
    <2>. HIDE DEF x, y
    <2>4. OpenOf(s) = <<y>>
      BY <1>8 DEF y
    <2>5. /\ IsPrefix(x.text, y.text) /\ (x.signed => y.signed)
          /\ y.call # x.call => x.call = <<[y.call[1] EXCEPT !.arguments = "{}"]>>
      BY <2>1 DEF Grown
    <2>6. y = [x EXCEPT !.text = y.text, !.signed = y.signed, !.call = y.call]
      BY <2>1, <2>2
    <2>. QED BY ZenonT(60), <1>8, <2>3, <2>4, <2>5, <2>6 DEF GrowsOne, Protocol!GivesInput
  <1>12. StepsTo(r, s)
    <2>1. PhaseOf(r) = "body"
      BY DEF Stands
    <2>. QED BY <1>9, <1>11, <2>1 DEF StepsTo
  <1>. QED BY <1>6, <1>9, <1>10, <1>12 DEF Follows, s

\* The open block is closed.
LEMMA BlockShut ==
  ASSUME dialect = "anthropic", NEW r, IsReply(r), NEW c, Stands(r, c), c.kind # "none",
         c.phase = "body"
  PROVE  LET n == Len(r.blocks)
             b == [r.blocks[n] EXCEPT !.open = FALSE]
         IN  Follows(r, Put(r, n, b), Closed(c))
  <1>. DEFINE n == Len(r.blocks)
              a == r.blocks[n]
              b == [a EXCEPT !.open = FALSE]
              s == Put(r, n, b)
              d == Closed(c)
  <1>1. /\ n \in Nat /\ n \in 1 .. n /\ GrowingOf(r) /\ a.open /\ c.closed = n - 1
        /\ ClosedOf(r) = Front(r.blocks) /\ OpenOf(r) = <<b>>
        /\ c.kind = a.kind /\ c.call = a.call /\ a.index = n - 1
    BY WhenOpen
  <1>2. HasBlocks(r) /\ IsBlock(a)
    BY <1>1 DEF IsReply, HasBlocks
  <1>3. /\ IsBlock(b) /\ ~b.open /\ b.index = a.index /\ b.call = a.call
        /\ b.text = a.text /\ b.kind = a.kind
    <2>1. b = [x \in PartFields |-> b[x]]
      BY <1>2 DEF IsBlock
    <2>2. /\ ~b.open /\ b.index = a.index /\ b.call = a.call /\ b.text = a.text
          /\ b.kind = a.kind
      BY <1>2 DEF IsBlock, PartFields
    <2>. QED BY <1>2, <2>1, <2>2 DEF IsBlock
  <1>. HIDE DEF b
  <1>4. /\ HasBlocks(s) /\ RestAlike(r, s) /\ Len(s.blocks) = n
        /\ s.blocks[n] = b /\ \A i \in 1 .. n : i # n => s.blocks[i] = r.blocks[i]
    BY <1>1, <1>2, <1>3, BlockPut
  <1>5. (HasCall(s) <=> HasCall(r)) /\ (HasText(r) \/ IsText(b) => HasText(s))
    BY <1>1, <1>2, <1>3, PutHolds DEF IsText
  <1>. HIDE DEF s
  <1>6. IsReply(s) /\ \A i \in 1 .. n : ~s.blocks[i].open
    <2>1. \A i \in 1 .. n : r.blocks[i].index = i - 1 /\ (i # n => ~r.blocks[i].open)
      BY DEF IsReply
    <2>2. \A i \in 1 .. n : s.blocks[i].index = i - 1 /\ ~s.blocks[i].open
      BY <1>1, <1>3, <1>4, <2>1
    <2>. QED BY <1>4, <2>2 DEF IsReply
  <1>7. s.blocks = Append(Front(r.blocks), b) /\ s.blocks # <<>>
    <2>1. s.blocks # <<>> /\ r.blocks # <<>> /\ IsSeq(s.blocks) /\ IsSeq(r.blocks)
      BY <1>1, <1>2, <1>4, SeqFacts DEF HasBlocks
    <2>. DEFINE front == Front(r.blocks)
                more  == Append(front, b)
    <2>2. /\ IsSeq(front) /\ Len(front) = n - 1 /\ \A i \in 1 .. n - 1 : front[i] = r.blocks[i]
      BY <2>1, FrontFacts
    <2>. HIDE DEF front
    <2>3. /\ IsSeq(more) /\ Len(more) = (n - 1) + 1 /\ more[(n - 1) + 1] = b
          /\ \A i \in 1 .. n - 1 : more[i] = front[i]
      BY <2>2, AppendFacts
    <2>. HIDE DEF more
    <2>4. (n - 1) + 1 = n /\ \A i \in 1 .. n : i # n => i \in 1 .. n - 1
      BY <1>1
    <2>5. \A i \in 1 .. n : s.blocks[i] = more[i]
      BY <1>4, <2>2, <2>3, <2>4
    <2>6. s.blocks = more
      BY <1>4, <2>1, <2>3, <2>4, <2>5, EqualSeqs
    <2>. QED BY <2>1, <2>6 DEF more, front
  <1>8. ~GrowingOf(s) /\ ClosedOf(s) = s.blocks /\ OpenOf(s) = <<>>
    <2>1. BlocksOf(s) = s.blocks /\ Last(s.blocks) = b
      BY <1>4 DEF BlocksOf, Last
    <2>. QED BY <1>3, <2>1 DEF GrowingOf, ClosedOf, OpenOf
  <1>9. /\ PhaseOf(s) = PhaseOf(r) /\ s.reason = r.reason /\ s.pings = r.pings
        /\ Flags(r) => Flags(s)
    BY <1>4, AlikePhase DEF RestAlike
  <1>10. /\ IsCursor(d) /\ d.kind = "none" /\ d.call = <<>> /\ d.closed = c.closed + 1
         /\ d.dialect = c.dialect /\ d.phase = c.phase /\ d.reason = c.reason
         /\ d.holds = c.holds
    BY ClosedCursor DEF Stands
  <1>. HIDE DEF d
  <1>11. Stands(s, d)
    <2>1. d.closed = Len(s.blocks)
      BY <1>1, <1>4, <1>10
    <2>. QED BY <1>5, <1>8, <1>9, <1>10, <2>1 DEF Stands
  <1>12. ClosesOne(r, s)
    <2>1. OpenOf(r) # <<>> /\ OpenOf(r)[1] = b
      BY <1>1
    <2>. QED BY <1>1, <1>7, <1>8, <2>1 DEF ClosesOne
  <1>13. StepsTo(r, s)
    <2>1. PhaseOf(r) = "body"
      BY DEF Stands
    <2>. QED BY <1>9, <1>12, <2>1 DEF StepsTo
  <1>. QED BY <1>6, <1>9, <1>11, <1>13 DEF Follows, s, d, b

\* A block is opened.
LEMMA BlockBegun ==
  ASSUME dialect = "anthropic", NEW r, IsReply(r), NEW c, Stands(r, c), c.kind = "none",
         c.phase = "body", NEW kind, kind # "none", NEW call
  PROVE  LET b == Block(c.closed, kind, call)
         IN  Follows(r, With(r, b), Opened(c, kind, call, Unless(call = <<>>, "call")))
  <1>. DEFINE n == Len(r.blocks)
              b == Block(c.closed, kind, call)
              s == With(r, b)
              more == Unless(call = <<>>, "call")
              d == Opened(c, kind, call, more)
  <1>1. /\ ~GrowingOf(r) /\ ClosedOf(r) = r.blocks /\ OpenOf(r) = <<>> /\ c.closed = n
        /\ \A i \in 1 .. n : ~r.blocks[i].open
    BY WhenClosed
  <1>2. /\ IsBlock(b) /\ b.index = n /\ b.kind = kind /\ b.call = call /\ b.open
        /\ ~IsText(b)
    <2>1. b.index = n /\ b.kind = kind /\ b.call = call /\ b.open /\ b.text = <<>>
      BY <1>1 DEF Block
    <2>2. b = [x \in PartFields |-> b[x]]
      BY DEF Block, PartFields
    <2>. HIDE DEF b
    <2>. QED BY <2>1, <2>2, ShortSeqs DEF IsBlock, IsText
  <1>. HIDE DEF b
  <1>3. /\ HasBlocks(s) /\ RestAlike(r, s) /\ n \in Nat /\ Len(s.blocks) = n + 1
        /\ s.blocks[n + 1] = b /\ \A i \in 1 .. n : s.blocks[i] = r.blocks[i]
        /\ (HasCall(s) <=> HasCall(r) \/ b.call # <<>>)
        /\ (HasText(r) \/ IsText(b) => HasText(s))
    BY <1>2, BlockAdded DEF IsReply
  <1>. HIDE DEF s
  <1>4. IsReply(s)
    <2>1. \A i \in 1 .. n : r.blocks[i].index = i - 1
      BY DEF IsReply
    <2>2. ASSUME NEW i \in 1 .. n + 1
          PROVE  s.blocks[i].index = i - 1 /\ (i # n + 1 => ~s.blocks[i].open)
      <3>1. CASE i = n + 1
        <4>1. i - 1 = n
          BY <1>3, <3>1
        <4>. QED BY <1>2, <1>3, <3>1, <4>1
      <3>2. CASE i # n + 1
        <4>1. i \in 1 .. n
          BY <1>3, <3>2
        <4>. QED BY <1>1, <1>3, <2>1, <4>1
      <3>. QED BY <3>1, <3>2
    <2>. QED BY <1>3, <2>2 DEF IsReply
  <1>5. Front(s.blocks) = r.blocks /\ s.blocks # <<>>
    <2>1. IsSeq(s.blocks) /\ IsSeq(r.blocks) /\ s.blocks # <<>>
      BY <1>3, SeqFacts DEF HasBlocks, IsReply
    <2>. DEFINE new == Front(s.blocks)
    <2>2. /\ IsSeq(new) /\ Len(new) = (n + 1) - 1
          /\ \A i \in 1 .. (n + 1) - 1 : new[i] = s.blocks[i]
      BY <1>3, <2>1, FrontFacts
    <2>. HIDE DEF new
    <2>3. (n + 1) - 1 = n
      BY <1>3
    <2>4. \A i \in 1 .. n : new[i] = r.blocks[i]
      BY <1>3, <2>2, <2>3
    <2>5. new = r.blocks
      BY <2>1, <2>2, <2>3, <2>4, EqualSeqs
    <2>. QED BY <2>1, <2>5 DEF new
  <1>6. /\ GrowingOf(s) /\ ClosedOf(s) = r.blocks /\ OpenOf(s) = <<[b EXCEPT !.open = FALSE]>>
        /\ Last(BlocksOf(s)) = b
    <2>1. BlocksOf(s) = s.blocks /\ Last(s.blocks) = b
      BY <1>3 DEF BlocksOf, Last
    <2>. QED BY <1>2, <1>5, <2>1 DEF GrowingOf, ClosedOf, OpenOf
  <1>7. /\ PhaseOf(s) = PhaseOf(r) /\ s.reason = r.reason /\ s.pings = r.pings
        /\ Flags(r) => Flags(s)
    BY <1>3, AlikePhase DEF RestAlike
  <1>8. /\ IsCursor(d) /\ d.kind = kind /\ d.call = call /\ d.holds = c.holds \cup more
        /\ d.dialect = c.dialect /\ d.phase = c.phase /\ d.closed = c.closed
        /\ d.reason = c.reason
    BY OpenedCursor DEF Stands
  <1>9. "call" \in more <=> call # <<>>
    BY DEF Unless
  <1>10. "text" \notin more
    BY DEF Unless
  <1>. HIDE DEF d, more
  <1>11. Stands(s, d)
    <2>1. d.closed = Len(ClosedOf(s))
      BY <1>1, <1>6, <1>8
    <2>2. "call" \in d.holds <=> HasCall(s)
      BY <1>2, <1>3, <1>8, <1>9 DEF Stands
    <2>3. "text" \in d.holds => HasText(s)
      BY <1>3, <1>8, <1>10 DEF Stands
    <2>. QED BY <1>2, <1>6, <1>7, <1>8, <2>1, <2>2, <2>3 DEF Stands
  <1>12. OpensOne(r, s)
    <2>. DEFINE x == [b EXCEPT !.open = FALSE]
    <2>1. x.index = n
      BY <1>2 DEF IsBlock, PartFields
    <2>. HIDE DEF x
    <2>2. Len(<<x>>) = 1 /\ <<x>>[1] = x
      OBVIOUS
    <2>3. OpenOf(s) = <<x>>
      BY <1>6 DEF x
    <2>. QED BY <1>1, <1>6, <2>1, <2>2, <2>3 DEF OpensOne
  <1>13. StepsTo(r, s)
    <2>1. PhaseOf(r) = "body"
      BY DEF Stands
    <2>. QED BY <1>7, <1>12, <2>1 DEF StepsTo
  <1>. QED BY <1>4, <1>7, <1>11, <1>13 DEF Follows, s, d, more, b

\* The reply goes into its next phase.
LEMMA PhaseMoved ==
  ASSUME dialect \in Dialects, NEW r, IsReply(r), NEW c, Stands(r, c),
         NEW s, s = [x \in ReplyFields |-> s[x]], s.blocks = r.blocks, s.pings = r.pings,
         Flags(r) => Flags(s),
         \/ PhaseOf(r) = "before" /\ PhaseOf(s) = "body"
         \/ PhaseOf(r) = "body" /\ PhaseOf(s) = "ended" /\ c.kind = "none"
         \/ PhaseOf(r) = "ended" /\ PhaseOf(s) = "done"
  PROVE  Follows(r, s, InPhase(c, PhaseOf(s), s.reason))
  <1>. DEFINE d == InPhase(c, PhaseOf(s), s.reason)
  <1>1. /\ BlocksOf(s) = BlocksOf(r) /\ (GrowingOf(s) <=> GrowingOf(r)) /\ ClosedOf(s) = ClosedOf(r)
        /\ OpenOf(s) = OpenOf(r)
    BY DEF BlocksOf, GrowingOf, ClosedOf, OpenOf
  <1>2. (HasCall(s) <=> HasCall(r)) /\ (HasText(s) <=> HasText(r))
    BY DEF HasCall, HasText
  <1>3. IsReply(s)
    BY DEF IsReply, HasBlocks
  <1>4. /\ IsCursor(d) /\ d.phase = PhaseOf(s) /\ d.reason = s.reason /\ d.holds = c.holds
        /\ d.kind = c.kind /\ d.call = c.call /\ d.dialect = c.dialect /\ d.closed = c.closed
    BY PhasedCursor DEF Stands
  <1>. HIDE DEF d
  <1>5. Stands(s, d)
    BY <1>1, <1>2, <1>4 DEF Stands
  <1>6. c.kind = "none" => OpenOf(r) = <<>>
    <2>1. CASE dialect = "anthropic"
      BY <2>1, WhenClosed
    <2>2. CASE dialect = "openai"
      BY <2>2 DEF BlocksOf, GrowingOf, OpenOf
    <2>. QED BY <2>1, <2>2 DEF Dialects
  <1>7. PhaseGoesOn(r, s)
    BY <1>1, <1>6 DEF PhaseGoesOn, SameBlocks
  <1>. QED BY <1>3, <1>5, <1>7 DEF Follows, StepsTo, d

\* A chunk of a chat completion comes.
LEMMA ChunkTaken ==
  ASSUME dialect = "openai", NEW r, IsReply(r), NEW c, Stands(r, c), c.phase = "body",
         NEW s, HasBlocks(s), RestAlike(r, s), NEW more,
         HasCall(s) <=> HasCall(r) \/ "call" \in more,
         HasText(r) \/ "text" \in more => HasText(s)
  PROVE  Follows(r, s, Holding(c, more))
  <1>. DEFINE d == Holding(c, more)
  <1>1. /\ BlocksOf(s) = <<>> /\ BlocksOf(r) = <<>>
    BY DEF BlocksOf
  <1>2. ~GrowingOf(s) /\ ~GrowingOf(r) /\ SameBlocks(r, s) /\ ClosedOf(s) = ClosedOf(r)
    BY <1>1 DEF GrowingOf, ClosedOf, OpenOf, SameBlocks
  <1>3. /\ PhaseOf(s) = PhaseOf(r) /\ s.reason = r.reason /\ s.pings = r.pings
        /\ Flags(r) => Flags(s)
    BY AlikePhase DEF RestAlike
  <1>4. /\ IsCursor(d) /\ d.holds = c.holds \cup more /\ d.kind = c.kind /\ d.call = c.call
        /\ d.dialect = c.dialect /\ d.phase = c.phase /\ d.closed = c.closed
        /\ d.reason = c.reason
    BY HoldingCursor DEF Stands
  <1>. HIDE DEF d
  <1>5. Stands(s, d)
    <2>1. "call" \in d.holds <=> HasCall(s)
      BY <1>4 DEF Stands
    <2>2. "text" \in d.holds => HasText(s)
      BY <1>4 DEF Stands
    <2>. QED BY <1>2, <1>3, <1>4, <2>1, <2>2 DEF Stands
  <1>6. IsReply(s)
    BY DEF IsReply
  <1>7. StepsTo(r, s)
    <2>1. PhaseOf(r) = "body"
      BY DEF Stands
    <2>. QED BY <1>2, <1>3, <2>1 DEF StepsTo
  <1>. QED BY <1>3, <1>5, <1>6, <1>7 DEF Follows, d

LEMMA ChunkAdded ==
  ASSUME NEW r, HasBlocks(r), NEW kind, kind # "none", NEW text, IsSeq(text)
  PROVE  LET s == AddChunk(r, kind, text)
         IN  /\ HasBlocks(s) /\ RestAlike(r, s) /\ (HasCall(s) <=> HasCall(r))
             /\ (HasText(r) \/ (kind = "text" /\ text # <<>>) => HasText(s))
  <1>. DEFINE known == {i \in DOMAIN r.blocks : r.blocks[i].kind = kind}
              more  == [Block(0, kind, <<>>) EXCEPT !.text = text, !.open = FALSE]
              n     == Min(known)
              whole == r.blocks[n].text \o text
              b     == [r.blocks[n] EXCEPT !.text = whole]
              s     == AddChunk(r, kind, text)
  <1>1. CASE known = {}
    <2>1. s = With(r, more)
      BY <1>1 DEF AddChunk, With
    <2>2. IsBlock(more) /\ more.call = <<>> /\ more.kind = kind /\ more.text = text
      <3>1. more = [x \in PartFields |-> more[x]]
        BY DEF Block, PartFields
      <3>2. more.call = <<>> /\ more.kind = kind /\ more.text = text
        BY DEF Block
      <3>. HIDE DEF more
      <3>. QED BY <3>1, <3>2 DEF IsBlock
    <2>. HIDE DEF s, more
    <2>. DEFINE t == With(r, more)
    <2>3. /\ HasBlocks(t) /\ RestAlike(r, t)
          /\ (HasCall(t) <=> HasCall(r) \/ more.call # <<>>)
          /\ (HasText(r) \/ IsText(more) => HasText(t))
      BY <2>2, BlockAdded
    <2>. HIDE DEF t
    <2>4. /\ HasBlocks(t) /\ RestAlike(r, t) /\ (HasCall(t) <=> HasCall(r))
          /\ (HasText(r) \/ (kind = "text" /\ text # <<>>) => HasText(t))
      BY <2>2, <2>3 DEF IsText
    <2>. QED BY <2>1, <2>4 DEF t, s
  <1>2. CASE known # {}
    <2>1. n \in known /\ n \in 1 .. Len(r.blocks)
      <3>1. DOMAIN r.blocks = 1 .. Len(r.blocks) /\ Len(r.blocks) \in Nat
        BY SeqFacts DEF HasBlocks
      <3>2. known \in SUBSET Nat /\ known \subseteq 1 .. Len(r.blocks)
        BY <3>1
      <3>. HIDE DEF known
      <3>3. n \in known
        BY SMTT(60), <1>2, <3>2, LeastOf
      <3>. QED BY <3>2, <3>3
    <2>2. IsBlock(r.blocks[n]) /\ r.blocks[n].kind = kind
      BY <2>1 DEF HasBlocks
    <2>3. s = Put(r, n, b)
      BY <1>2 DEF AddChunk, Put
    <2>. HIDE DEF known, n, s
    <2>4. IsSeq(whole) /\ (text # <<>> \/ r.blocks[n].text # <<>> => whole # <<>>)
      <3>1. /\ IsSeq(whole) /\ Len(whole) = Len(r.blocks[n].text) + Len(text)
            /\ Len(text) \in Nat /\ Len(r.blocks[n].text) \in Nat
        BY <2>2, ConcatFacts, SeqFacts DEF IsBlock
      <3>2. /\ text # <<>> => Len(text) # 0
            /\ r.blocks[n].text # <<>> => Len(r.blocks[n].text) # 0
        BY <2>2, SeqFacts DEF IsBlock
      <3>. HIDE DEF whole
      <3>3. text # <<>> \/ r.blocks[n].text # <<>> => Len(whole) # 0
        BY <3>1, <3>2
      <3>. QED BY <3>1, <3>3, SeqFacts
    <2>. HIDE DEF whole
    <2>5. /\ IsBlock(b) /\ b.call = r.blocks[n].call /\ b.kind = kind /\ b.text = whole
      <3>1. b = [x \in PartFields |-> b[x]]
        BY <2>2 DEF IsBlock
      <3>2. b.call = r.blocks[n].call /\ b.kind = kind /\ b.text = whole
        BY <2>2 DEF IsBlock, PartFields
      <3>. HIDE DEF b
      <3>. QED BY <2>4, <3>1, <3>2 DEF IsBlock
    <2>. HIDE DEF b
    <2>6. IsText(r.blocks[n]) \/ (kind = "text" /\ text # <<>>) => IsText(b)
      BY <2>2, <2>4, <2>5 DEF IsText
    <2>. DEFINE t == Put(r, n, b)
    <2>7. HasBlocks(t) /\ RestAlike(r, t)
      BY <2>1, <2>5, BlockPut
    <2>8. (HasCall(t) <=> HasCall(r)) /\ (HasText(r) \/ IsText(b) => HasText(t))
      BY <2>1, <2>5, <2>6, PutHolds
    <2>. HIDE DEF t
    <2>9. /\ HasBlocks(t) /\ RestAlike(r, t) /\ (HasCall(t) <=> HasCall(r))
          /\ (HasText(r) \/ (kind = "text" /\ text # <<>>) => HasText(t))
      BY <2>6, <2>7, <2>8
    <2>. QED BY <2>3, <2>9 DEF t, s
  <1>. QED BY <1>1, <1>2

LEMMA CallsAdded ==
  ASSUME NEW r, HasBlocks(r), NEW calls, IsSeq(calls)
  PROVE  LET s == AddCalls(r, calls)
         IN  /\ HasBlocks(s) /\ RestAlike(r, s) /\ (HasText(r) => HasText(s))
             /\ (HasCall(s) <=> HasCall(r) \/ calls # <<>>)
  <1>. DEFINE Shut(call) == [Block(0, "tool_use", <<call>>) EXCEPT !.open = FALSE]
              parts == [i \in DOMAIN calls |-> Shut(calls[i])]
              all == r.blocks \o parts
              n == Len(r.blocks)
              m == Len(calls)
              s == AddCalls(r, calls)
  <1>1. \A call : IsBlock(Shut(call)) /\ Shut(call).call # <<>>
    <2>. SUFFICES ASSUME NEW call PROVE IsBlock(Shut(call)) /\ Shut(call).call # <<>>
      OBVIOUS
    <2>. DEFINE b == Shut(call)
    <2>1. b = [x \in PartFields |-> b[x]]
      BY DEF Block, PartFields
    <2>2. b.call = <<call>> /\ b.kind = "tool_use" /\ b.text = <<>>
      BY DEF Block
    <2>. HIDE DEF b
    <2>3. IsBlock(b) /\ b.call # <<>>
      BY <2>1, <2>2, ShortSeqs DEF IsBlock
    <2>. QED BY <2>3 DEF b
  <1>2. /\ n \in Nat /\ m \in Nat /\ DOMAIN calls = 1 .. m /\ (calls = <<>> <=> m = 0)
    BY SeqFacts DEF HasBlocks
  <1>. HIDE DEF Shut
  <1>3. parts = [i \in DOMAIN calls |-> parts[i]] /\ \A i \in 1 .. m : parts[i] = Shut(calls[i])
    BY <1>2
  <1>4. s = [r EXCEPT !.blocks = all]
    BY DEF AddCalls, Shut
  <1>. HIDE DEF s, parts
  <1>5. IsSeq(parts) /\ Len(parts) = m
    BY <1>3, SameLength
  <1>6. /\ IsSeq(all) /\ Len(all) = n + m /\ \A i \in 1 .. n : all[i] = r.blocks[i]
        /\ \A i \in 1 .. m : all[n + i] = Shut(calls[i])
    <2>1. /\ IsSeq(all) /\ Len(all) = Len(r.blocks) + Len(parts)
          /\ \A i \in 1 .. Len(r.blocks) : all[i] = r.blocks[i]
          /\ \A i \in 1 .. Len(parts) : all[Len(r.blocks) + i] = parts[i]
      BY SMTT(60), <1>5, ConcatFacts DEF HasBlocks
    <2>. QED BY <1>3, <1>5, <2>1
  <1>. HIDE DEF all
  <1>7. s = [x \in ReplyFields |-> s[x]] /\ s.blocks = all /\ RestAlike(r, s)
    BY <1>4 DEF HasBlocks, ReplyFields, RestAlike
  <1>8. \A i \in 1 .. n + m : i \in 1 .. n \/ \E j \in 1 .. m : i = n + j
    <2>. SUFFICES ASSUME NEW i \in 1 .. n + m, i \notin 1 .. n PROVE \E j \in 1 .. m : i = n + j
      OBVIOUS
    <2>1. i - n \in 1 .. m /\ i = n + (i - n)
      BY <1>2
    <2>. QED BY <2>1
  <1>9. ASSUME NEW i \in 1 .. Len(all) PROVE IsBlock(all[i])
    <2>1. CASE i \in 1 .. n
      BY <1>6, <2>1 DEF HasBlocks
    <2>2. CASE i \notin 1 .. n
      <3>1. PICK j \in 1 .. m : i = n + j
        BY <1>6, <1>8, <2>2
      <3>2. all[i] = Shut(calls[j])
        BY <1>6, <3>1
      <3>. QED BY <1>1, <3>2
    <2>. QED BY <2>1, <2>2
  <1>10. HasBlocks(s)
    BY <1>6, <1>7, <1>9 DEF HasBlocks
  <1>11. \A i \in 1 .. n : i \in 1 .. n + m
    BY <1>2
  <1>12. HasText(r) => HasText(s)
    BY <1>6, <1>7, <1>11 DEF HasText
  <1>13. HasCall(s) => HasCall(r) \/ calls # <<>>
    <2>. SUFFICES ASSUME NEW i \in 1 .. n + m, all[i].call # <<>>, calls = <<>> PROVE HasCall(r)
      BY <1>6, <1>7 DEF HasCall
    <2>1. i \in 1 .. n
      BY <1>2
    <2>. QED BY <1>6, <2>1 DEF HasCall
  <1>14. HasCall(r) => HasCall(s)
    BY <1>6, <1>7, <1>11 DEF HasCall
  <1>15. calls # <<>> => HasCall(s)
    <2>. SUFFICES ASSUME calls # <<>> PROVE HasCall(s)
      OBVIOUS
    <2>1. 1 \in 1 .. m /\ n + 1 \in 1 .. n + m
      BY <1>2
    <2>2. all[n + 1].call # <<>>
      BY <1>1, <1>6, <2>1
    <2>. QED BY <1>6, <1>7, <2>1, <2>2 DEF HasCall
  <1>. QED BY <1>7, <1>10, <1>12, <1>13, <1>14, <1>15 DEF s

LEMMA LongerText ==
  ASSUME NEW s, IsSeq(s), NEW t, IsSeq(t)
  PROVE  /\ IsSeq(s \o t) /\ IsPrefix(s, s \o t) /\ (s # <<>> \/ t # <<>> => s \o t # <<>>)
         /\ IsPrefix(s, s)
  <1>. DEFINE u == s \o t
  <1>1. /\ IsSeq(u) /\ Len(u) = Len(s) + Len(t) /\ Len(s) \in Nat /\ Len(t) \in Nat
        /\ \A i \in 1 .. Len(s) : u[i] = s[i]
        /\ (s = <<>> <=> Len(s) = 0) /\ (t = <<>> <=> Len(t) = 0)
    BY ConcatFacts, SeqFacts
  <1>. HIDE DEF u
  <1>2. u = <<>> <=> Len(u) = 0
    BY <1>1, SeqFacts
  <1>3. IsPrefix(s, u) /\ IsPrefix(s, s)
    <2>1. Len(s) \in 0 .. Len(s) /\ Len(s) \in 0 .. Len(u) /\ Len(s) <= Len(u) /\ Len(s) <= Len(s)
      BY <1>1
    <2>. DEFINE a == SubSeq(s, 1, Len(s))
                b == SubSeq(u, 1, Len(s))
    <2>2. IsSeq(a) /\ Len(a) = Len(s) /\ \A i \in 1 .. Len(s) : a[i] = s[i]
      BY <2>1, HeadFacts
    <2>3. IsSeq(b) /\ Len(b) = Len(s) /\ \A i \in 1 .. Len(s) : b[i] = u[i]
      BY <1>1, <2>1, HeadFacts
    <2>. HIDE DEF a, b
    <2>4. \A i \in 1 .. Len(s) : a[i] = b[i]
      BY <1>1, <2>2, <2>3
    <2>5. a = b
      BY <2>2, <2>3, <2>4, EqualSeqs
    <2>. QED BY <2>1, <2>5 DEF a, b, IsPrefix
  <1>4. s # <<>> \/ t # <<>> => u # <<>>
    BY <1>1, <1>2
  <1>. QED BY <1>1, <1>3, <1>4 DEF u

LEMMA TakesText ==
  ASSUME dialect = "anthropic", NEW r, IsReply(r), NEW c, Stands(r, c), NEW e, NEW d,
         AddsText(c, e, d)
  PROVE  Follows(r, Collect(r, e), d)
  <1>. DEFINE n == Len(r.blocks)
              a == r.blocks[n]
              whole == a.text \o e.text
              b == [a EXCEPT !.text = whole]
              more == Unless(c.kind # "text" \/ e.text = <<>>, "text")
  <1>1. /\ e.type = "content_block_delta" /\ c.phase = "body" /\ c.kind # "none"
        /\ e.index = c.closed /\ IsSeq(e.text) /\ d = Holding(c, more)
    BY DEF AddsText, ToOpenBlock
  <1>2. n \in 1 .. n /\ ByIndex(r.blocks, c.closed) = n /\ c.kind = a.kind /\ c.call = a.call
    BY <1>1, WhenOpen
  <1>3. Collect(r, e) = Put(r, n, b)
    BY <1>1, <1>2 DEF Collect, Put
  <1>. HIDE DEF more, n
  <1>4. a = [x \in PartFields |-> a[x]] /\ IsSeq(a.text) /\ a.kind # "none"
    BY <1>2 DEF IsReply, HasBlocks, IsBlock, n
  <1>5. /\ IsSeq(whole) /\ IsPrefix(a.text, whole)
        /\ (a.text # <<>> \/ e.text # <<>> => whole # <<>>)
    BY <1>1, <1>4, LongerText
  <1>. HIDE DEF whole
  <1>6. /\ b = [x \in PartFields |-> b[x]] /\ b.text = whole /\ b.kind = a.kind
        /\ b.call = a.call /\ b.signed = a.signed
        /\ b = [a EXCEPT !.text = whole, !.signed = a.signed, !.call = a.call]
    <2>. HIDE DEF a
    <2>. QED BY <1>4 DEF PartFields
  <1>. HIDE DEF a, b
  <1>7. Grown(a, b)
    <2>1. b = [a EXCEPT !.text = b.text, !.signed = b.signed, !.call = b.call]
      BY <1>6
    <2>2. IsBlock(b) /\ (IsText(a) => IsText(b))
      BY <1>4, <1>5, <1>6 DEF IsBlock, IsText
    <2>3. IsPrefix(a.text, b.text) /\ (a.signed => b.signed)
      BY <1>5, <1>6
    <2>. QED BY <1>6, <2>1, <2>2, <2>3 DEF Grown
  <1>8. ReadsOn(c, d, b)
    <2>1. /\ IsCursor(d) /\ d.holds = c.holds \cup more /\ d.kind = c.kind /\ d.call = c.call
          /\ d.dialect = c.dialect /\ d.phase = c.phase /\ d.closed = c.closed
          /\ d.reason = c.reason
      BY <1>1, HoldingCursor DEF Stands
    <2>2. "call" \notin more /\ ("text" \in more => IsText(b))
      BY <1>2, <1>5, <1>6 DEF more, Unless, IsText
    <2>. QED BY <1>2, <1>6, <2>1, <2>2 DEF ReadsOn
  <1>9. Follows(r, Put(r, Len(r.blocks), b), d)
    BY <1>1, <1>7, <1>8, BlockGrown DEF a, n
  <1>. QED BY <1>3, <1>9 DEF n

LEMMA OnlyElement ==
  ASSUME NEW x, NEW y
  PROVE  [<<x>> EXCEPT ![1] = y] = <<y>>
  <1>. DEFINE t == [<<x>> EXCEPT ![1] = y]
  <1>1. t = [i \in 1 .. 1 |-> t[i]] /\ t[1] = y /\ 1 \in Nat
    OBVIOUS
  <1>. HIDE DEF t
  <1>2. IsSeq(t) /\ Len(t) = 1
    BY <1>1, ASequence
  <1>3. IsSeq(<<y>>) /\ Len(<<y>>) = 1 /\ <<y>>[1] = y
    BY ShortSeqs
  <1>4. \A i \in 1 .. 1 : t[i] = <<y>>[i]
    BY <1>1, <1>3
  <1>5. t = <<y>>
    BY <1>2, <1>3, <1>4, EqualSeqs
  <1>. QED BY <1>5 DEF t

LEMMA TakesInput ==
  ASSUME dialect = "anthropic", NEW r, IsReply(r), NEW c, Stands(r, c), NEW e, NEW d,
         AddsInput(c, e, d)
  PROVE  Follows(r, Collect(r, e), d)
  <1>. DEFINE n == Len(r.blocks)
              a == r.blocks[n]
              call == [a.call EXCEPT ![1].arguments = e.arguments]
              b == [a EXCEPT !.call = call]
              after == <<[c.call[1] EXCEPT !.arguments = e.arguments]>>
  <1>1. /\ e.type = "input_json_delta" /\ c.phase = "body" /\ c.kind # "none"
        /\ e.index = c.closed /\ d = Opened(c, c.kind, after, {})
    BY DEF AddsInput, ToOpenBlock
  <1>2. PICK empty : c.call = <<[empty EXCEPT !.arguments = "{}"]>>
    BY DEF AddsInput
  <1>3. n \in 1 .. n /\ ByIndex(r.blocks, c.closed) = n /\ c.kind = a.kind /\ c.call = a.call
    BY <1>1, WhenOpen
  <1>4. Collect(r, e) = Put(r, n, b)
    BY <1>1, <1>3 DEF Collect, Put
  <1>. HIDE DEF n
  <1>5. a = [x \in PartFields |-> a[x]] /\ IsSeq(a.text) /\ a.kind # "none"
    BY <1>3 DEF IsReply, HasBlocks, IsBlock, n
  <1>. HIDE DEF a
  <1>6. /\ call = <<[a.call[1] EXCEPT !.arguments = e.arguments]>> /\ call = after
        /\ a.call = <<[call[1] EXCEPT !.arguments = "{}"]>>
        /\ call # <<>> /\ a.call # <<>>
    <2>. DEFINE k == [empty EXCEPT !.arguments = "{}"]
                m == [k EXCEPT !.arguments = e.arguments]
    <2>1. a.call = <<k>> /\ <<k>>[1] = k
      BY <1>2, <1>3
    <2>2. [<<k>> EXCEPT ![1] = m] = <<m>>
      <3>. HIDE DEF k, m
      <3>. QED BY OnlyElement
    <2>3. call = <<m>> /\ after = <<m>>
      BY <1>3, <2>1, <2>2
    <2>4. [m EXCEPT !.arguments = "{}"] = k
      OBVIOUS
    <2>5. <<m>>[1] = m
      OBVIOUS
    <2>. HIDE DEF k, m, call, after
    <2>. QED BY <2>1, <2>3, <2>4, <2>5 DEF m
  <1>. HIDE DEF call
  <1>7. /\ b = [x \in PartFields |-> b[x]] /\ b.text = a.text /\ b.kind = a.kind
        /\ b.call = call /\ b.signed = a.signed
        /\ b = [a EXCEPT !.text = a.text, !.signed = a.signed, !.call = call]
    BY ZenonT(60), <1>5 DEF PartFields
  <1>. HIDE DEF b
  <1>8. Grown(a, b)
    <2>1. b = [a EXCEPT !.text = b.text, !.signed = b.signed, !.call = b.call]
      BY <1>7
    <2>2. IsBlock(b) /\ (IsText(a) => IsText(b))
      BY <1>5, <1>7 DEF IsBlock, IsText
    <2>3. IsPrefix(a.text, b.text) /\ (a.signed => b.signed)
      BY ZenonT(60), <1>5, <1>7, LongerText
    <2>4. b.call # a.call => a.call = <<[b.call[1] EXCEPT !.arguments = "{}"]>>
      BY <1>6, <1>7
    <2>. QED BY <1>6, <1>7, <2>1, <2>2, <2>3, <2>4 DEF Grown
  <1>. HIDE DEF after
  <1>9. ReadsOn(c, d, b)
    <2>0. IsCursor(c)
      BY DEF Stands
    <2>. DEFINE kind == c.kind
                none == {}
    <2>1. d = Opened(c, kind, after, none)
      BY <1>1
    <2>2. kind = c.kind /\ \A x : x \notin none
      OBVIOUS
    <2>. HIDE DEF kind, none
    <2>3. /\ IsCursor(d) /\ d.holds = c.holds \cup none /\ d.kind = kind /\ d.call = after
          /\ d.dialect = c.dialect /\ d.phase = c.phase /\ d.closed = c.closed
          /\ d.reason = c.reason
      BY <2>0, <2>1, OpenedCursor
    <2>. QED BY <1>6, <1>7, <2>2, <2>3 DEF ReadsOn
  <1>10. Follows(r, Put(r, Len(r.blocks), b), d)
    BY <1>1, <1>8, <1>9, BlockGrown DEF a, n
  <1>. QED BY <1>4, <1>10 DEF n

LEMMA TakesSignature ==
  ASSUME dialect = "anthropic", NEW r, IsReply(r), NEW c, Stands(r, c), NEW e, NEW d,
         AddsSignature(c, e, d)
  PROVE  Follows(r, Collect(r, e), d)
  <1>. DEFINE n == Len(r.blocks)
              a == r.blocks[n]
              b == [a EXCEPT !.signed = TRUE]
  <1>1. /\ e.type = "signature_delta" /\ c.phase = "body" /\ c.kind # "none"
        /\ e.index = c.closed /\ d = c
    BY DEF AddsSignature, ToOpenBlock
  <1>2. n \in 1 .. n /\ ByIndex(r.blocks, c.closed) = n /\ c.kind = a.kind /\ c.call = a.call
    BY <1>1, WhenOpen
  <1>3. Collect(r, e) = Put(r, n, b)
    BY <1>1, <1>2 DEF Collect, Put
  <1>. HIDE DEF n
  <1>4. a = [x \in PartFields |-> a[x]] /\ IsSeq(a.text) /\ a.kind # "none"
    BY <1>2 DEF IsReply, HasBlocks, IsBlock, n
  <1>. HIDE DEF a
  <1>5. /\ b = [x \in PartFields |-> b[x]] /\ b.text = a.text /\ b.kind = a.kind
        /\ b.call = a.call /\ b.signed
        /\ b = [a EXCEPT !.text = a.text, !.signed = b.signed, !.call = a.call]
    BY <1>4 DEF PartFields
  <1>. HIDE DEF b
  <1>6. Grown(a, b)
    <2>1. b = [a EXCEPT !.text = b.text, !.signed = b.signed, !.call = b.call]
      BY <1>5
    <2>2. IsBlock(b) /\ (IsText(a) => IsText(b))
      BY <1>4, <1>5 DEF IsBlock, IsText
    <2>3. IsPrefix(a.text, b.text)
      BY <1>4, <1>5, LongerText
    <2>. QED BY <1>5, <2>1, <2>2, <2>3 DEF Grown
  <1>7. ReadsOn(c, d, b)
    BY <1>1, <1>2, <1>5 DEF ReadsOn, Stands
  <1>8. Follows(r, Put(r, Len(r.blocks), b), d)
    BY <1>1, <1>6, <1>7, BlockGrown DEF a, n
  <1>. QED BY <1>3, <1>8 DEF n

\* An event that is a move takes the reply with it.
LEMMA Collects ==
  ASSUME dialect \in Dialects, NEW r, IsReply(r), NEW c, Stands(r, c), NEW e, NEW d, Moves(c, e, d)
  PROVE  Follows(r, Collect(r, e), d)
  <1>. DEFINE s == Collect(r, e)
  <1>0. /\ c.dialect = dialect /\ c.phase = PhaseOf(r) /\ c.reason = r.reason /\ IsCursor(c)
        /\ HasBlocks(r) /\ r = [x \in ReplyFields |-> r[x]]
    BY DEF Stands, IsReply, HasBlocks
  <1>1. CASE Starts(c, e, d)
    <2>. DEFINE t == [r EXCEPT !.started = TRUE]
    <2>1. e.type = "message_start" /\ c.phase = "before" /\ d = InPhase(c, "body", c.reason)
      BY <1>1 DEF Starts
    <2>2. s = t
      BY <2>1 DEF Collect
    <2>3. /\ t = [x \in ReplyFields |-> t[x]] /\ t.blocks = r.blocks /\ t.pings = r.pings
          /\ t.started /\ t.ended = r.ended /\ t.reason = r.reason /\ (Flags(r) => Flags(t))
      BY <1>0 DEF ReplyFields, Flags
    <2>. HIDE DEF t
    <2>4. PhaseOf(r) = "before" /\ PhaseOf(t) = "body"
      BY <1>0, <2>1, <2>3 DEF PhaseOf
    <2>5. Follows(r, t, InPhase(c, PhaseOf(t), t.reason))
      BY <2>3, <2>4, PhaseMoved
    <2>. QED BY <1>0, <2>1, <2>2, <2>3, <2>4, <2>5
  <1>2. CASE OpensBlock(c, e, d)
    <2>. DEFINE b == Block(c.closed, e.kind, e.call)
    <2>1. /\ e.type = "content_block_start" /\ c.dialect = "anthropic" /\ c.phase = "body"
          /\ c.kind = "none" /\ e.index = c.closed /\ e.kind # "none"
          /\ d = Opened(c, e.kind, e.call, Unless(e.call = <<>>, "call"))
      BY <1>2 DEF OpensBlock
    <2>2. s = With(r, b)
      BY <2>1 DEF Collect, With
    <2>3. Follows(r, With(r, b), Opened(c, e.kind, e.call, Unless(e.call = <<>>, "call")))
      BY <1>0, <2>1, BlockBegun
    <2>. QED BY <2>1, <2>2, <2>3
  <1>3. CASE AddsText(c, e, d)
    BY <1>0, <1>3, TakesText DEF AddsText, ToOpenBlock
  <1>4. CASE AddsInput(c, e, d)
    <2>1. dialect = "anthropic"
      BY <1>0, <1>4 DEF AddsInput, ToOpenBlock
    <2>. QED BY <1>4, <2>1, TakesInput
  <1>5. CASE AddsSignature(c, e, d)
    BY <1>0, <1>5, TakesSignature DEF AddsSignature, ToOpenBlock
  <1>6. CASE ClosesBlock(c, e, d)
    <2>. DEFINE n == Len(r.blocks)
                b == [r.blocks[n] EXCEPT !.open = FALSE]
    <2>1. /\ e.type = "content_block_stop" /\ c.dialect = "anthropic" /\ c.phase = "body"
          /\ c.kind # "none" /\ e.index = c.closed /\ d = Closed(c)
      BY <1>6 DEF ClosesBlock, ToOpenBlock
    <2>2. ByIndex(r.blocks, c.closed) = n
      BY <1>0, <2>1, WhenOpen
    <2>3. s = Put(r, n, b)
      BY <2>1, <2>2 DEF Collect, Put
    <2>. HIDE DEF s
    <2>4. Follows(r, Put(r, n, b), Closed(c))
      BY <1>0, <2>1, BlockShut
    <2>. QED BY <2>1, <2>3, <2>4 DEF s
  <1>7. CASE GivesReason(c, e, d)
    <2>. DEFINE t == [r EXCEPT !.reason = e.reason]
    <2>1. /\ e.type \in {"message_delta", "finish"} /\ c.phase = "body" /\ c.kind = "none"
          /\ e.reason # "none" /\ d = InPhase(c, "ended", e.reason)
      BY <1>7 DEF GivesReason
    <2>2. s = t
      BY <2>1 DEF Collect
    <2>3. /\ t = [x \in ReplyFields |-> t[x]] /\ t.blocks = r.blocks /\ t.pings = r.pings
          /\ t.started = r.started /\ t.ended = r.ended /\ t.reason = e.reason /\ (Flags(r) => Flags(t))
      BY <1>0 DEF ReplyFields, Flags
    <2>. HIDE DEF t
    <2>4. PhaseOf(r) = "body" /\ PhaseOf(t) = "ended"
      BY <1>0, <2>1, <2>3 DEF PhaseOf
    <2>5. Follows(r, t, InPhase(c, PhaseOf(t), t.reason))
      BY <2>1, <2>3, <2>4, PhaseMoved
    <2>. QED BY <2>1, <2>2, <2>3, <2>4, <2>5
  <1>8. CASE Ends(c, e, d)
    <2>. DEFINE t == [r EXCEPT !.ended = TRUE]
    <2>1. /\ e.type \in {"message_stop", "done"} /\ c.phase = "ended"
          /\ d = InPhase(c, "done", c.reason)
      BY <1>8 DEF Ends
    <2>2. s = t
      BY <2>1 DEF Collect
    <2>3. /\ t = [x \in ReplyFields |-> t[x]] /\ t.blocks = r.blocks /\ t.pings = r.pings
          /\ t.started = r.started /\ t.ended /\ t.reason = r.reason /\ (Flags(r) => Flags(t))
      BY <1>0 DEF ReplyFields, Flags
    <2>. HIDE DEF t
    <2>4. PhaseOf(r) = "ended" /\ PhaseOf(t) = "done"
      BY <1>0, <2>1, <2>3 DEF PhaseOf
    <2>5. Follows(r, t, InPhase(c, PhaseOf(t), t.reason))
      BY <2>3, <2>4, PhaseMoved
    <2>. QED BY <1>0, <2>1, <2>2, <2>3, <2>4, <2>5
  <1>9. CASE AddsContent(c, e, d)
    <2>. DEFINE more == Unless(e.text = <<>>, "text")
                t == AddChunk(r, "text", e.text)
    <2>1. /\ e.type = "content" /\ c.dialect = "openai" /\ c.phase = "body" /\ IsSeq(e.text)
          /\ d = Holding(c, more)
      BY <1>9 DEF AddsContent, AsChunk
    <2>2. s = t
      BY <2>1 DEF Collect
    <2>3. PICK kind : kind = "text"
      OBVIOUS
    <2>. HIDE DEF t
    <2>4. /\ HasBlocks(t) /\ RestAlike(r, t) /\ (HasCall(t) <=> HasCall(r))
          /\ (HasText(r) \/ (kind = "text" /\ e.text # <<>>) => HasText(t))
      <3>1. t = AddChunk(r, kind, e.text) /\ kind # "none"
        BY <2>3 DEF t
      <3>. QED BY <1>0, <2>1, <3>1, ChunkAdded
    <2>5. "call" \notin more /\ ("text" \in more => e.text # <<>>)
      BY DEF Unless
    <2>. HIDE DEF more, s
    <2>6. Follows(r, t, Holding(c, more))
      BY <1>0, <2>1, <2>3, <2>4, <2>5, ChunkTaken
    <2>. QED BY <2>1, <2>2, <2>6 DEF s
  <1>10. CASE AddsReasoning(c, e, d)
    <2>. DEFINE t == AddChunk(r, "thinking", e.text)
                more == {}
    <2>1. /\ e.type = "reasoning_content" /\ c.dialect = "openai" /\ c.phase = "body"
          /\ IsSeq(e.text) /\ d = c
      BY <1>10 DEF AddsReasoning, AsChunk
    <2>2. s = t
      BY <2>1 DEF Collect
    <2>3. PICK kind : kind = "thinking"
      OBVIOUS
    <2>. HIDE DEF t
    <2>4. /\ HasBlocks(t) /\ RestAlike(r, t) /\ (HasCall(t) <=> HasCall(r))
          /\ (HasText(r) \/ (kind = "text" /\ e.text # <<>>) => HasText(t))
      <3>1. t = AddChunk(r, kind, e.text) /\ kind # "none"
        BY <2>3 DEF t
      <3>. QED BY <1>0, <2>1, <3>1, ChunkAdded
    <2>5. Holding(c, more) = c
      <3>1. c.holds \cup more = c.holds
        OBVIOUS
      <3>. QED BY <1>0, <3>1 DEF Holding, IsCursor, CursorFields
    <2>6. "call" \notin more /\ "text" \notin more
      OBVIOUS
    <2>. HIDE DEF s, more
    <2>7. Follows(r, t, Holding(c, more))
      BY <1>0, <2>1, <2>4, <2>6, ChunkTaken
    <2>. QED BY <2>1, <2>2, <2>5, <2>7 DEF s
  <1>11. CASE BringsCalls(c, e, d)
    <2>. DEFINE t == AddCalls(r, e.calls)
                more == Unless(e.calls = <<>>, "call")
    <2>1. /\ e.type = "tool_calls" /\ c.dialect = "openai" /\ c.phase = "body"
          /\ IsSeq(e.calls) /\ d = Holding(c, more)
      BY <1>11 DEF BringsCalls, AsChunk
    <2>2. s = t
      BY <2>1 DEF Collect
    <2>3. /\ HasBlocks(t) /\ RestAlike(r, t) /\ (HasText(r) => HasText(t))
          /\ (HasCall(t) <=> HasCall(r) \/ e.calls # <<>>)
      BY <1>0, <2>1, CallsAdded
    <2>4. "text" \notin more /\ ("call" \in more <=> e.calls # <<>>)
      BY DEF Unless
    <2>. HIDE DEF t, more, s
    <2>5. Follows(r, t, Holding(c, more))
      BY <1>0, <2>1, <2>3, <2>4, ChunkTaken
    <2>. QED BY <2>1, <2>2, <2>5 DEF s
  <1>. QED BY <1>1, <1>2, <1>3, <1>4, <1>5, <1>6, <1>7, <1>8, <1>9, <1>10, <1>11 DEF Moves

-----------------------------------------------------------------------------
(* The lists of calls without those that come twice.                       *)
OwnIds(calls) == \A i, j \in 1 .. Len(calls) : calls[i].id = calls[j].id => i = j

ElementOf(c, calls, k) == \E j \in 1 .. k : c = calls[j]

\* Of the first k calls one for each id, and all of them when each has its own.
Chosen(s, calls, k) ==
  /\ IsSeq(s) /\ OwnIds(s) /\ \A i \in 1 .. Len(s) : ElementOf(s[i], calls, k)
  /\ \A j \in 1 .. k : \E i \in 1 .. Len(s) : s[i].id = calls[j].id
  /\ OwnIds(calls) => Len(s) = k /\ \A i \in 1 .. k : s[i] = calls[i]

LEMMA LongestKept ==
  ASSUME NEW s, IsSeq(s), NEW c
  PROVE  LET r == KeepLongest(s, c)
         IN  \/ r = Append(s, c) /\ \A i \in 1 .. Len(s) : s[i].id # c.id
             \/ \E i \in 1 .. Len(s) :
                  /\ s[i].id = c.id /\ IsSeq(r) /\ Len(r) = Len(s) /\ r[i] \in {s[i], c}
                  /\ \A j \in 1 .. Len(s) : j # i => r[j] = s[j]
  <1>. DEFINE same == {i \in DOMAIN s : s[i].id = c.id}
              i == CHOOSE j \in same : TRUE
              r == KeepLongest(s, c)
              t == [s EXCEPT ![i] = c]
  <1>1. Len(s) \in Nat /\ DOMAIN s = 1 .. Len(s)
    BY SeqFacts
  <1>2. same = {} => r = Append(s, c) /\ \A j \in 1 .. Len(s) : s[j].id # c.id
    BY <1>1 DEF KeepLongest
  <1>3. ASSUME same # {}
        PROVE  \E k \in 1 .. Len(s) :
                  /\ s[k].id = c.id /\ IsSeq(r) /\ Len(r) = Len(s) /\ r[k] \in {s[k], c}
                  /\ \A j \in 1 .. Len(s) : j # k => r[j] = s[j]
    <2>1. i \in 1 .. Len(s) /\ s[i].id = c.id
      <3>1. i \in same
        BY <1>3
      <3>. QED BY <1>1, <3>1
    <2>2. r = t \/ r = s
      BY <1>3 DEF KeepLongest
    <2>. HIDE DEF same, i, r
    <2>3. /\ t = [j \in DOMAIN s |-> t[j]] /\ t[i] = c
          /\ \A j \in 1 .. Len(s) : j # i => t[j] = s[j]
      BY <1>1, <2>1
    <2>. HIDE DEF t
    <2>4. IsSeq(t) /\ Len(t) = Len(s)
      BY <2>3, SameLength
    <2>. QED BY <2>1, <2>2, <2>3, <2>4
  <1>. QED BY <1>2, <1>3

LEMMA ChosenOn ==
  ASSUME NEW calls, NEW k \in Nat, k + 1 <= Len(calls), Len(calls) \in Nat, NEW s, Chosen(s, calls, k)
  PROVE  Chosen(KeepLongest(s, calls[k + 1]), calls, k + 1)
  <1>. DEFINE c == calls[k + 1]
              r == KeepLongest(s, c)
              n == Len(s)
  <1>1. /\ IsSeq(s) /\ (\A i, j \in 1 .. n : s[i].id = s[j].id => i = j)
        /\ (\A i \in 1 .. n : \E j \in 1 .. k : s[i] = calls[j])
        /\ (\A j \in 1 .. k : \E i \in 1 .. n : s[i].id = calls[j].id)
        /\ (OwnIds(calls) => n = k /\ \A i \in 1 .. k : s[i] = calls[i])
    BY DEF Chosen, OwnIds, ElementOf
  <1>2. n \in Nat /\ k + 1 \in 1 .. k + 1 /\ (\A j \in 1 .. k : j \in 1 .. k + 1)
        /\ \A j \in 1 .. k + 1 : j \in 1 .. k \/ j = k + 1
    BY <1>1, SeqFacts
  <1>3. CASE r = Append(s, c) /\ \A i \in 1 .. n : s[i].id # c.id
    <2>1. /\ IsSeq(r) /\ Len(r) = n + 1 /\ (\A i \in 1 .. n : r[i] = s[i]) /\ r[n + 1] = c
      BY <1>1, <1>3, AppendFacts
    <2>2. /\ \A i \in 1 .. n + 1 : i \in 1 .. n \/ i = n + 1
          /\ \A i \in 1 .. n : i \in 1 .. n + 1
          /\ n + 1 \in 1 .. n + 1
      BY <1>2
    <2>3. c = calls[k + 1]
      OBVIOUS
    <2>. HIDE DEF r, n, c
    <2>4. OwnIds(r)
      <3>1. \A i, j \in 1 .. n : s[i].id = s[j].id => i = j
        BY <1>1
      <3>. QED BY <1>3, <2>1, <2>2, <3>1 DEF OwnIds
    <2>5. \A i \in 1 .. Len(r) : ElementOf(r[i], calls, k + 1)
      <3>1. \A i \in 1 .. n : ElementOf(s[i], calls, k + 1)
        BY <1>1, <1>2 DEF ElementOf
      <3>2. ElementOf(c, calls, k + 1)
        BY <1>2, <2>3 DEF ElementOf
      <3>. QED BY <2>1, <2>2, <3>1, <3>2
    <2>6. \A j \in 1 .. k + 1 : \E i \in 1 .. Len(r) : r[i].id = calls[j].id
      <3>1. ASSUME NEW j \in 1 .. k PROVE \E i \in 1 .. Len(r) : r[i].id = calls[j].id
        <4>1. PICK i \in 1 .. n : s[i].id = calls[j].id
          BY <1>1
        <4>. QED BY <2>1, <2>2, <4>1
      <3>2. n + 1 \in 1 .. Len(r) /\ r[n + 1].id = calls[k + 1].id
        BY <2>1, <2>2, <2>3
      <3>. QED BY <1>2, <3>1, <3>2
    <2>7. OwnIds(calls) => Len(r) = k + 1 /\ \A i \in 1 .. k + 1 : r[i] = calls[i]
      <3>. SUFFICES ASSUME OwnIds(calls)
                    PROVE  Len(r) = k + 1 /\ \A i \in 1 .. k + 1 : r[i] = calls[i]
        OBVIOUS
      <3>1. n = k /\ \A i \in 1 .. n : r[i] = calls[i]
        BY <1>1, <2>1
      <3>. QED BY <2>1, <2>2, <2>3, <3>1
    <2>. QED BY <2>1, <2>4, <2>5, <2>6, <2>7 DEF Chosen, r, c
  <1>4. ASSUME NEW i \in 1 .. n, s[i].id = c.id, IsSeq(r), Len(r) = n, r[i] \in {s[i], c},
               \A j \in 1 .. n : j # i => r[j] = s[j]
        PROVE  Chosen(r, calls, k + 1)
    <2>1. c = calls[k + 1]
      OBVIOUS
    <2>2. OwnIds(calls) => FALSE
      <3>1. ASSUME OwnIds(calls) PROVE FALSE
        <4>1. i \in 1 .. k /\ s[i] = calls[i]
          BY <1>1, <3>1
        <4>2. i \in 1 .. Len(calls) /\ k + 1 \in 1 .. Len(calls) /\ i # k + 1
          BY <4>1
        <4>. QED BY <1>4, <3>1, <4>1, <4>2 DEF OwnIds
      <3>. QED BY <3>1
    <2>. HIDE DEF r, n, c
    <2>3. \A j \in 1 .. n : r[j].id = s[j].id
      BY <1>4
    <2>4. OwnIds(r)
      BY <1>1, <1>4, <2>3 DEF OwnIds
    <2>5. \A j \in 1 .. Len(r) : ElementOf(r[j], calls, k + 1)
      <3>1. \A j \in 1 .. n : ElementOf(s[j], calls, k + 1)
        BY <1>1, <1>2 DEF ElementOf
      <3>2. ElementOf(c, calls, k + 1)
        BY <1>2, <2>1 DEF ElementOf
      <3>. QED BY <1>4, <3>1, <3>2
    <2>6. \A j \in 1 .. k + 1 : \E m \in 1 .. Len(r) : r[m].id = calls[j].id
      <3>1. \A j \in 1 .. k : \E m \in 1 .. n : r[m].id = calls[j].id
        <4>. SUFFICES ASSUME NEW j \in 1 .. k PROVE \E m \in 1 .. n : r[m].id = calls[j].id
          OBVIOUS
        <4>1. PICK m \in 1 .. n : s[m].id = calls[j].id
          BY <1>1
        <4>. QED BY <2>3, <4>1
      <3>2. r[i].id = calls[k + 1].id
        BY <1>4, <2>1
      <3>. QED BY <1>2, <1>4, <3>1, <3>2
    <2>. QED BY <1>4, <2>2, <2>4, <2>5, <2>6 DEF Chosen
  <1>5. \/ r = Append(s, c) /\ \A i \in 1 .. n : s[i].id # c.id
        \/ \E i \in 1 .. n :
             /\ s[i].id = c.id /\ IsSeq(r) /\ Len(r) = n /\ r[i] \in {s[i], c}
             /\ \A j \in 1 .. n : j # i => r[j] = s[j]
    <2>. HIDE DEF c
    <2>. QED BY <1>1, LongestKept
  <1>. HIDE DEF r, c, n
  <1>6. Chosen(r, calls, k + 1)
    BY <1>3, <1>4, <1>5 DEF r, c
  <1>. QED BY <1>6 DEF r, c

\* Of the first k calls the first ones of each text.
Firsts(s, calls, k) ==
  /\ IsSeq(s) /\ (OwnIds(calls) => OwnIds(s))
  /\ \A i \in 1 .. Len(s) : ElementOf(s[i], calls, k)
  /\ \A i, j \in 1 .. Len(s) : i # j => ~SameText(s[i], s[j])
  /\ \A j \in 1 .. k : \E i \in 1 .. Len(s) :
       s[i] = calls[j] \/ \E e \in 1 .. k : e < j /\ s[i] = calls[e] /\ SameText(s[i], calls[j])

LEMMA FirstsOn ==
  ASSUME NEW calls, NEW k \in Nat, k + 1 <= Len(calls), Len(calls) \in Nat, NEW s, Firsts(s, calls, k)
  PROVE  Firsts(KeepFirst(s, calls[k + 1]), calls, k + 1)
  <1>. DEFINE c == calls[k + 1]
              r == KeepFirst(s, c)
              n == Len(s)
              Covered(j, t, m) == \E i \in 1 .. Len(t) :
                t[i] = calls[j] \/ \E e \in 1 .. m : e < j /\ t[i] = calls[e] /\ SameText(t[i], calls[j])
  <1>1. /\ IsSeq(s) /\ (OwnIds(calls) => OwnIds(s))
        /\ (\A i \in 1 .. n : \E j \in 1 .. k : s[i] = calls[j])
        /\ (\A i, j \in 1 .. n : i # j => ~SameText(s[i], s[j]))
        /\ (\A j \in 1 .. k : Covered(j, s, k))
    BY DEF Firsts, ElementOf
  <1>2. n \in Nat /\ DOMAIN s = 1 .. n
    BY <1>1, SeqFacts
  <1>3. /\ k + 1 \in 1 .. k + 1 /\ (\A j \in 1 .. k : j \in 1 .. k + 1 /\ j < k + 1)
        /\ \A j \in 1 .. k + 1 : j \in 1 .. k \/ j = k + 1
    OBVIOUS
  <1>. HIDE DEF Covered
  <1>4. CASE \E i \in 1 .. n : SameText(s[i], c)
    <2>1. r = s
      BY <1>2, <1>4 DEF KeepFirst
    <2>2. PICK i \in 1 .. n : SameText(s[i], c)
      BY <1>4
    <2>3. PICK e \in 1 .. k : s[i] = calls[e]
      BY <1>1
    <2>4. \A j \in 1 .. k : Covered(j, s, k + 1)
      BY <1>1, <1>3 DEF Covered
    <2>5. Covered(k + 1, s, k + 1)
      BY <1>3, <2>2, <2>3 DEF Covered
    <2>6. \A j \in 1 .. k + 1 : Covered(j, s, k + 1)
      BY <1>3, <2>4, <2>5
    <2>. HIDE DEF r, c
    <2>7. Firsts(s, calls, k + 1)
      BY <1>1, <1>3, <2>6 DEF Firsts, ElementOf, Covered
    <2>. QED BY SMTT(60), <2>1, <2>7 DEF r, c
  <1>5. CASE \A i \in 1 .. n : ~SameText(s[i], c)
    <2>0. r = Append(s, c) /\ c = calls[k + 1]
      BY <1>2, <1>5 DEF KeepFirst
    <2>. HIDE DEF r, c
    <2>1. /\ IsSeq(r) /\ Len(r) = n + 1 /\ (\A i \in 1 .. n : r[i] = s[i]) /\ r[n + 1] = c
      BY <1>1, <2>0, AppendFacts
    <2>2. /\ \A i \in 1 .. n + 1 : i \in 1 .. n \/ i = n + 1
          /\ \A i \in 1 .. n : i \in 1 .. n + 1
          /\ n + 1 \in 1 .. n + 1
      BY <1>2
    <2>3. OwnIds(calls) => OwnIds(r)
      <3>. SUFFICES ASSUME OwnIds(calls) PROVE OwnIds(r)
        OBVIOUS
      <3>1. \A i \in 1 .. n : s[i].id # c.id
        <4>. SUFFICES ASSUME NEW i \in 1 .. n, s[i].id = c.id PROVE FALSE
          OBVIOUS
        <4>1. PICK j \in 1 .. k : s[i] = calls[j]
          BY <1>1
        <4>2. j \in 1 .. Len(calls) /\ k + 1 \in 1 .. Len(calls) /\ j # k + 1
          OBVIOUS
        <4>. QED BY <2>0, <4>1, <4>2 DEF OwnIds
      <3>2. \A i, j \in 1 .. n : s[i].id = s[j].id => i = j
        BY <1>1 DEF OwnIds
      <3>. HIDE DEF n
      <3>. QED BY <2>1, <2>2, <3>1, <3>2 DEF OwnIds
    <2>. HIDE DEF n
    <2>4. \A i \in 1 .. Len(r) : ElementOf(r[i], calls, k + 1)
      BY <1>1, <1>3, <2>0, <2>1, <2>2 DEF ElementOf
    <2>5. \A i \in 1 .. n : ~SameText(c, s[i])
      BY <1>5 DEF SameText
    <2>6. \A i, j \in 1 .. Len(r) : i # j => ~SameText(r[i], r[j])
      BY <1>1, <1>5, <2>1, <2>2, <2>5
    <2>7. \A j \in 1 .. k + 1 : Covered(j, r, k + 1)
      <3>1. ASSUME NEW j \in 1 .. k PROVE Covered(j, r, k + 1)
        <4>1. PICK i \in 1 .. n :
                s[i] = calls[j] \/ \E e \in 1 .. k : e < j /\ s[i] = calls[e] /\ SameText(s[i], calls[j])
          BY <1>1 DEF Covered, n
        <4>2. i \in 1 .. Len(r) /\ r[i] = s[i]
          BY <2>1, <2>2
        <4>. QED BY <1>3, <4>1, <4>2 DEF Covered
      <3>2. Covered(k + 1, r, k + 1)
        BY <2>0, <2>1, <2>2 DEF Covered
      <3>. QED BY <1>3, <3>1, <3>2
    <2>8. Firsts(r, calls, k + 1)
      BY <2>1, <2>3, <2>4, <2>6, <2>7 DEF Firsts, Covered
    <2>. QED BY <2>8 DEF r, c
  <1>. QED BY <1>4, <1>5

LEMMA ChosenCalls ==
  ASSUME NEW calls, IsSeq(calls)
  PROVE  Chosen(ByID(calls), calls, Len(calls))
  <1>. DEFINE n == Len(calls)
  <1>1. n \in Nat /\ DOMAIN calls = 1 .. n
    BY SeqFacts
  <1>2. ByID(calls) = LongestFold!FoldLeft(KeepLongest, <<>>, calls)
    BY DEF ByID, FoldLeft, MapThenFoldSet, Max, LongestFold!FoldLeft,
           LongestFold!MapThenFoldSet, LongestFold!Max
  <1>. HIDE DEF n
  <1>3. PICK h : /\ LongestFold!Stages(h, <<>>, calls, n)
                 /\ LongestFold!FoldLeft(KeepLongest, <<>>, calls) = h[n]
    BY <1>1, LongestFold!StagesOfFold
  <1>4. h[0] = <<>> /\ \A i \in 1 .. n : h[i] = KeepLongest(h[i - 1], calls[i])
    BY <1>3 DEF LongestFold!Stages
  <1>. DEFINE S == {k \in Nat : k <= n => Chosen(h[k], calls, k)}
  <1>5. 0 \in S
    <2>1. Chosen(<<>>, calls, 0)
      BY ShortSeqs DEF Chosen, OwnIds
    <2>. QED BY <1>4, <2>1
  <1>6. ASSUME NEW k \in Nat, k \in S PROVE k + 1 \in S
    <2>1. CASE k + 1 <= n
      <3>1. k + 1 \in 1 .. n /\ (k + 1) - 1 = k /\ Chosen(h[k], calls, k)
        BY <1>1, <1>6, <2>1
      <3>2. Chosen(KeepLongest(h[k], calls[k + 1]), calls, k + 1)
        BY <1>1, <2>1, <3>1, ChosenOn DEF n
      <3>3. h[k + 1] = KeepLongest(h[k], calls[k + 1])
        BY <1>4, <3>1
      <3>. QED BY <3>2, <3>3
    <2>. QED BY <2>1
  <1>7. n \in S /\ n <= n
    <2>. HIDE DEF S
    <2>. QED BY <1>1, <1>5, <1>6, Induction
  <1>. QED BY <1>2, <1>3, <1>7 DEF n

LEMMA FirstCalls ==
  ASSUME NEW calls, IsSeq(calls)
  PROVE  Firsts(ByText(calls), calls, Len(calls))
  <1>. DEFINE n == Len(calls)
  <1>1. n \in Nat /\ DOMAIN calls = 1 .. n
    BY SeqFacts
  <1>2. ByText(calls) = FirstFold!FoldLeft(KeepFirst, <<>>, calls)
    BY DEF ByText, FoldLeft, MapThenFoldSet, Max, FirstFold!FoldLeft,
           FirstFold!MapThenFoldSet, FirstFold!Max
  <1>. HIDE DEF n
  <1>3. PICK h : /\ FirstFold!Stages(h, <<>>, calls, n)
                 /\ FirstFold!FoldLeft(KeepFirst, <<>>, calls) = h[n]
    BY <1>1, FirstFold!StagesOfFold
  <1>4. h[0] = <<>> /\ \A i \in 1 .. n : h[i] = KeepFirst(h[i - 1], calls[i])
    BY <1>3 DEF FirstFold!Stages
  <1>. DEFINE S == {k \in Nat : k <= n => Firsts(h[k], calls, k)}
  <1>5. 0 \in S
    <2>1. Firsts(<<>>, calls, 0)
      BY ShortSeqs DEF Firsts, OwnIds
    <2>. QED BY <1>4, <2>1
  <1>6. ASSUME NEW k \in Nat, k \in S PROVE k + 1 \in S
    <2>1. CASE k + 1 <= n
      <3>1. k + 1 \in 1 .. n /\ (k + 1) - 1 = k /\ Firsts(h[k], calls, k)
        BY <1>1, <1>6, <2>1
      <3>2. Firsts(KeepFirst(h[k], calls[k + 1]), calls, k + 1)
        BY <1>1, <2>1, <3>1, FirstsOn DEF n
      <3>3. h[k + 1] = KeepFirst(h[k], calls[k + 1])
        BY <1>4, <3>1
      <3>. QED BY <3>2, <3>3
    <2>. QED BY <2>1
  <1>7. n \in S /\ n <= n
    <2>. HIDE DEF S
    <2>. QED BY <1>1, <1>5, <1>6, Induction
  <1>. QED BY <1>2, <1>3, <1>7 DEF n

TextsDiffer(calls, m) == \A i, j \in 1 .. m : i # j => ~SameText(calls[i], calls[j])

\* What is left of a list of calls: each id once and each text once, and of every call
\* another one with its id and the name of one that is left.
LEMMA Deduplicated ==
  ASSUME NEW calls, IsSeq(calls)
  PROVE  LET r == DeduplicateToolCalls(calls)
         IN  /\ IsSeq(r) /\ OwnIds(r) /\ TextsDiffer(r, Len(r))
             /\ \A i \in 1 .. Len(r) : ElementOf(r[i], calls, Len(calls))
             /\ \A j \in 1 .. Len(calls) : \E i \in 1 .. Len(r), k \in 1 .. Len(calls) :
                  calls[k].id = calls[j].id /\ calls[k].name = r[i].name
  <1>. DEFINE s == ByID(calls)
              r == ByText(s)
              n == Len(calls)
  <1>1. Chosen(s, calls, n)
    BY ChosenCalls
  <1>. HIDE DEF s
  <1>2. /\ IsSeq(s) /\ OwnIds(s) /\ (\A i \in 1 .. Len(s) : ElementOf(s[i], calls, n))
        /\ \A j \in 1 .. n : \E i \in 1 .. Len(s) : s[i].id = calls[j].id
    BY <1>1 DEF Chosen
  <1>3. Firsts(r, s, Len(s))
    BY <1>2, FirstCalls
  <1>4. r = DeduplicateToolCalls(calls)
    BY DEF DeduplicateToolCalls, s
  <1>. HIDE DEF r, n
  <1>5. /\ IsSeq(r) /\ OwnIds(r) /\ TextsDiffer(r, Len(r))
        /\ (\A i \in 1 .. Len(r) : ElementOf(r[i], s, Len(s)))
    BY <1>2, <1>3 DEF Firsts, TextsDiffer
  <1>6. \A j \in 1 .. Len(s) : \E i \in 1 .. Len(r) : r[i] = s[j] \/ SameText(r[i], s[j])
    BY <1>3 DEF Firsts
  <1>7. \A i \in 1 .. Len(r) : ElementOf(r[i], calls, n)
    BY <1>2, <1>5 DEF ElementOf
  <1>8. ASSUME NEW j \in 1 .. n
        PROVE  \E i \in 1 .. Len(r), k \in 1 .. n : calls[k].id = calls[j].id /\ calls[k].name = r[i].name
    <2>1. PICK a \in 1 .. Len(s) : s[a].id = calls[j].id
      BY <1>2
    <2>2. PICK k \in 1 .. n : s[a] = calls[k]
      BY <1>2 DEF ElementOf
    <2>3. PICK i \in 1 .. Len(r) : r[i] = s[a] \/ SameText(r[i], s[a])
      BY <1>6
    <2>. QED BY <2>1, <2>2, <2>3 DEF SameText
  <1>. QED BY <1>4, <1>5, <1>7, <1>8 DEF n

\* Calls with ids of their own whose texts differ are all left.
LEMMA AllLeft ==
  ASSUME NEW calls, IsSeq(calls), OwnIds(calls), NEW m \in 0 .. Len(calls), TextsDiffer(calls, m)
  PROVE  LET r == DeduplicateToolCalls(calls)
         IN  \A j \in 1 .. m : \E i \in 1 .. Len(r) : r[i] = calls[j]
  <1>. DEFINE s == ByID(calls)
              r == ByText(s)
              n == Len(calls)
  <1>0. n \in Nat
    BY SeqFacts
  <1>1. Chosen(s, calls, n)
    BY ChosenCalls
  <1>. HIDE DEF s
  <1>2. IsSeq(s) /\ Len(s) = n /\ \A i \in 1 .. n : s[i] = calls[i]
    BY <1>1 DEF Chosen
  <1>3. Firsts(r, s, n)
    BY <1>2, FirstCalls
  <1>4. r = DeduplicateToolCalls(calls)
    BY DEF DeduplicateToolCalls, s
  <1>. HIDE DEF r
  <1>5. ASSUME NEW j \in 1 .. m PROVE \E i \in 1 .. Len(r) : r[i] = calls[j]
    <2>1. j \in 1 .. n
      BY <1>0
    <2>2. PICK i \in 1 .. Len(r) :
            r[i] = s[j] \/ \E e \in 1 .. n : e < j /\ r[i] = s[e] /\ SameText(r[i], s[j])
      BY <1>3, <2>1 DEF Firsts
    <2>3. ASSUME NEW e \in 1 .. n, e < j, r[i] = s[e], SameText(r[i], s[j]) PROVE FALSE
      <3>1. e \in 1 .. m /\ e # j
        BY <1>0, <2>3
      <3>. QED BY <1>2, <2>1, <2>3, <3>1 DEF TextsDiffer
    <2>. QED BY <1>2, <2>1, <2>2, <2>3
  <1>. QED BY <1>4, <1>5

-----------------------------------------------------------------------------
(* The calls that Kiro began, as the parser holds them.                    *)
CallFields == {"id", "name", "arguments", "truncated"}

IsCall(c) == CallFields \subseteq DOMAIN c

BegunIn(items) == {item \in items : item.kind = "tool_start"}

CameWith(x, begun) == \E item \in begun : item.id = x.id /\ item.name = x.name

IsBegun(c, begun) ==
  IsCall(c) /\ "spelling" \in DOMAIN c /\ c.spelling = "spaced" /\ CameWith(c, begun)

IsUnderWay(x, begun) == {"id", "name", "arguments"} \subseteq DOMAIN x /\ CameWith(x, begun)

\* A call with the id of the item is there, or under construction.
Assembled(item, p) ==
  \/ \E i \in 1 .. Len(p.toolCalls) : p.toolCalls[i].id = item.id
  \/ \E x : p.currentToolCall = <<x>> /\ x.id = item.id

CallsRead(p, begun) ==
  /\ \A i \in 1 .. Len(p.toolCalls) : IsBegun(p.toolCalls[i], begun)
  /\ p.currentToolCall = <<>> \/ \E x : p.currentToolCall = <<x>> /\ IsUnderWay(x, begun)
  /\ \A item \in begun : Assembled(item, p)

LEMMA FinishedIsBegun ==
  ASSUME NEW x, NEW begun, IsUnderWay(x, begun)
  PROVE  IsBegun(FinishedCall(x), begun) /\ FinishedCall(x).id = x.id
  <1>. DEFINE c == FinishedCall(x)
  <1>1. /\ c.id = x.id /\ c.name = x.name /\ c.spelling = "spaced"
        /\ {"id", "name", "arguments", "truncated", "spelling"} \subseteq DOMAIN c
    BY DEF FinishedCall
  <1>. HIDE DEF c
  <1>2. IsBegun(c, begun)
    BY <1>1 DEF IsBegun, IsUnderWay, CameWith, IsCall, CallFields
  <1>. QED BY <1>1, <1>2 DEF c

LEMMA FinalizeReads ==
  ASSUME NEW p, IsParser(p), NEW begun, CallsRead(p, begun)
  PROVE  LET q == FinalizeToolCall(p)
         IN  CallsRead(q, begun) /\ IsParser(q) /\ q.currentToolCall = <<>>
  <1>. DEFINE q == FinalizeToolCall(p)
  <1>1. CASE p.currentToolCall = <<>>
    <2>1. q = p
      BY <1>1 DEF FinalizeToolCall
    <2>. HIDE DEF q
    <2>2. CallsRead(q, begun) /\ IsParser(q) /\ q.currentToolCall = <<>>
      BY <1>1, <2>1
    <2>. QED BY <2>2 DEF q
  <1>2. CASE p.currentToolCall # <<>>
    <2>1. PICK x : p.currentToolCall = <<x>> /\ IsUnderWay(x, begun)
      BY <1>2 DEF CallsRead
    <2>. DEFINE c == FinishedCall(x)
                calls == Append(p.toolCalls, c)
                n == Len(p.toolCalls)
    <2>2. IsBegun(c, begun) /\ c.id = x.id
      BY <2>1, FinishedIsBegun
    <2>3. q = [p EXCEPT !.currentToolCall = <<>>, !.toolCalls = calls]
      BY <1>2, <2>1 DEF FinalizeToolCall
    <2>. HIDE DEF c
    <2>4. /\ IsSeq(calls) /\ Len(calls) = n + 1 /\ n \in Nat /\ calls[n + 1] = c
          /\ \A i \in 1 .. n : calls[i] = p.toolCalls[i]
      BY AppendFacts, SeqFacts DEF IsParser
    <2>. HIDE DEF calls, n
    <2>5. /\ q.currentToolCall = <<>> /\ q.toolCalls = calls
          /\ q = [f \in {"lastContent", "currentToolCall", "toolCalls"} |-> q[f]]
      <3>. HIDE DEF q
      <3>. QED BY <2>3 DEF IsParser
    <2>. HIDE DEF q
    <2>6. IsParser(q)
      BY <2>4, <2>5 DEF IsParser
    <2>7. ASSUME NEW i \in 1 .. Len(q.toolCalls) PROVE IsBegun(q.toolCalls[i], begun)
      <3>1. i \in 1 .. n \/ i = n + 1
        BY <2>4, <2>5
      <3>2. CASE i \in 1 .. n
        BY <2>4, <2>5, <3>2 DEF CallsRead, n
      <3>. QED BY <2>2, <2>4, <2>5, <3>1, <3>2
    <2>8. ASSUME NEW item \in begun PROVE Assembled(item, q)
      <3>1. Assembled(item, p)
        BY DEF CallsRead
      <3>2. CASE \E i \in 1 .. n : p.toolCalls[i].id = item.id
        <4>1. PICK i \in 1 .. n : p.toolCalls[i].id = item.id
          BY <3>2
        <4>2. i \in 1 .. n + 1 /\ calls[i].id = item.id
          BY <2>4, <4>1
        <4>. QED BY <2>4, <2>5, <4>2 DEF Assembled
      <3>3. CASE \E y : p.currentToolCall = <<y>> /\ y.id = item.id
        <4>1. c.id = item.id
          BY <2>1, <2>2, <3>3
        <4>2. n + 1 \in 1 .. n + 1
          BY <2>4
        <4>. QED BY <2>4, <2>5, <4>1, <4>2 DEF Assembled
      <3>. QED BY <3>1, <3>2, <3>3 DEF Assembled, n
    <2>9. CallsRead(q, begun)
      BY <2>5, <2>7, <2>8 DEF CallsRead
    <2>. QED BY <2>5, <2>6, <2>9 DEF q
  <1>. QED BY <1>1, <1>2

\* The call under construction becomes another one, which is one of those that began.
LEMMA UnderWayReads ==
  ASSUME NEW p, IsParser(p), NEW begun, NEW all, begun \subseteq all, CallsRead(p, begun),
         NEW x, IsUnderWay(x, all),
         \A item \in all : \/ item \in begun /\ p.currentToolCall = <<>>
                           \/ item.id = x.id
                           \/ \E i \in 1 .. Len(p.toolCalls) : p.toolCalls[i].id = item.id
  PROVE  LET q == [p EXCEPT !.currentToolCall = <<x>>] IN CallsRead(q, all) /\ IsParser(q)
  <1>. DEFINE q == [p EXCEPT !.currentToolCall = <<x>>]
  <1>1. /\ q.currentToolCall = <<x>> /\ q.toolCalls = p.toolCalls
        /\ q = [f \in {"lastContent", "currentToolCall", "toolCalls"} |-> q[f]]
    BY DEF IsParser
  <1>. HIDE DEF q
  <1>2. IsParser(q)
    BY <1>1 DEF IsParser
  <1>3. \A i \in 1 .. Len(q.toolCalls) : IsBegun(q.toolCalls[i], all)
    BY <1>1 DEF CallsRead, IsBegun, CameWith
  <1>4. ASSUME NEW item \in all PROVE Assembled(item, q)
    <2>1. CASE item.id = x.id
      BY <1>1, <2>1 DEF Assembled
    <2>2. CASE \E i \in 1 .. Len(p.toolCalls) : p.toolCalls[i].id = item.id
      BY <1>1, <2>2 DEF Assembled
    <2>3. CASE item \in begun /\ p.currentToolCall = <<>>
      <3>1. Assembled(item, p) /\ \A y : p.currentToolCall # <<y>>
        BY <2>3 DEF CallsRead
      <3>2. \E i \in 1 .. Len(p.toolCalls) : p.toolCalls[i].id = item.id
        BY <3>1 DEF Assembled
      <3>. QED BY <2>2, <3>2
    <2>. QED BY <2>1, <2>2, <2>3
  <1>5. CallsRead(q, all)
    BY <1>1, <1>3, <1>4 DEF CallsRead
  <1>. QED BY <1>2, <1>5 DEF q

LEMMA StartReads ==
  ASSUME NEW p, IsParser(p), NEW begun, CallsRead(p, begun), NEW item
  PROVE  CallsRead(ProcessToolStart(p, item), begun \cup {item})
  <1>. DEFINE f == FinalizeToolCall(p)
              x == [id |-> item.id, name |-> item.name, arguments |-> item.input]
              q == [f EXCEPT !.currentToolCall = <<x>>]
              all == begun \cup {item}
  <1>1. CallsRead(f, begun) /\ IsParser(f) /\ f.currentToolCall = <<>>
    BY FinalizeReads
  <1>2. ProcessToolStart(p, item) = IF item.stop THEN FinalizeToolCall(q) ELSE q
    BY DEF ProcessToolStart
  <1>3. IsUnderWay(x, all) /\ x.id = item.id
    BY DEF IsUnderWay, CameWith
  <1>. HIDE DEF f, x
  <1>4. \A y \in all : \/ y \in begun /\ f.currentToolCall = <<>>
                       \/ y.id = x.id
                       \/ \E i \in 1 .. Len(f.toolCalls) : f.toolCalls[i].id = y.id
    BY <1>1, <1>3
  <1>5. begun \subseteq all
    OBVIOUS
  <1>. HIDE DEF all
  <1>6. CallsRead(q, all) /\ IsParser(q)
    BY <1>1, <1>3, <1>4, <1>5, UnderWayReads
  <1>. HIDE DEF q
  <1>7. CallsRead(FinalizeToolCall(q), all)
    BY <1>6, FinalizeReads
  <1>. QED BY <1>2, <1>6, <1>7 DEF all

LEMMA InputReads ==
  ASSUME NEW p, IsParser(p), NEW begun, CallsRead(p, begun), NEW item
  PROVE  CallsRead(ProcessToolInput(p, item), begun)
  <1>1. CASE p.currentToolCall = <<>>
    BY <1>1 DEF ProcessToolInput
  <1>2. CASE p.currentToolCall # <<>>
    <2>1. PICK x : p.currentToolCall = <<x>> /\ IsUnderWay(x, begun)
      BY <1>2 DEF CallsRead
    <2>. DEFINE a == x.arguments \o item.input
                y == [x EXCEPT !.arguments = a]
                q == [p EXCEPT !.currentToolCall = <<y>>]
    <2>2. ProcessToolInput(p, item) = q
      <3>1. ProcessToolInput(p, item) = [p EXCEPT !.currentToolCall[1].arguments = @ \o item.input]
        BY <1>2 DEF ProcessToolInput
      <3>2. [p EXCEPT !.currentToolCall[1].arguments = @ \o item.input]
              = [p EXCEPT !.currentToolCall
                   = [p.currentToolCall EXCEPT ![1]
                        = [p.currentToolCall[1] EXCEPT !.arguments
                             = p.currentToolCall[1].arguments \o item.input]]]
        OBVIOUS
      <3>3. p.currentToolCall[1] = x
        BY <2>1
      <3>. HIDE DEF a, y
      <3>4. [<<x>> EXCEPT ![1] = y] = <<y>>
        BY OnlyElement
      <3>. QED BY <2>1, <3>1, <3>2, <3>3, <3>4 DEF y, a
    <2>. HIDE DEF a
    <2>3. IsUnderWay(y, begun) /\ y.id = x.id
      BY <2>1 DEF IsUnderWay, CameWith
    <2>. HIDE DEF y
    <2>4. \A b \in begun : \/ b.id = y.id
                           \/ \E i \in 1 .. Len(p.toolCalls) : p.toolCalls[i].id = b.id
      <3>1. ASSUME NEW b \in begun
            PROVE  b.id = x.id \/ \E i \in 1 .. Len(p.toolCalls) : p.toolCalls[i].id = b.id
        <4>1. Assembled(b, p)
          BY DEF CallsRead
        <4>2. \A z : p.currentToolCall = <<z>> => z = x
          BY <2>1
        <4>. QED BY <4>1, <4>2 DEF Assembled
      <3>. QED BY <2>3, <3>1
    <2>5. CallsRead(q, begun)
      BY <2>3, <2>4, UnderWayReads
    <2>. QED BY <2>2, <2>5
  <1>. QED BY <1>1, <1>2

\* What the parser makes of an item that is part of a call.
ToolRead(p, item) ==
  CASE item.kind = "tool_start" -> ProcessToolStart(p, item)
    [] item.kind = "tool_input" -> ProcessToolInput(p, item)
    [] item.kind = "tool_stop"  -> ProcessToolStop(p)

ToolKinds == {"tool_start", "tool_input", "tool_stop"}

WithItem(begun, item) == IF item.kind = "tool_start" THEN begun \cup {item} ELSE begun

LEMMA FinalizeKeepsLast ==
  ASSUME NEW p, IsParser(p)
  PROVE  FinalizeToolCall(p).lastContent = p.lastContent
  BY DEF FinalizeToolCall, IsParser

LEMMA ToolIsRead ==
  ASSUME NEW p, IsParser(p), NEW begun, CallsRead(p, begun), NEW item, item.kind \in ToolKinds
  PROVE  /\ CallsRead(ToolRead(p, item), WithItem(begun, item))
         /\ ToolRead(p, item).lastContent = p.lastContent
  <1>1. CASE item.kind = "tool_start"
    <2>. DEFINE x == <<[id |-> item.id, name |-> item.name, arguments |-> item.input]>>
                f == FinalizeToolCall(p)
                q == [f EXCEPT !.currentToolCall = x]
    <2>1. IsParser(f) /\ f.lastContent = p.lastContent
      BY FinalizeReads, FinalizeKeepsLast
    <2>2. ProcessToolStart(p, item) = IF item.stop THEN FinalizeToolCall(q) ELSE q
      BY DEF ProcessToolStart
    <2>. HIDE DEF x, f
    <2>3. q.lastContent = p.lastContent /\ IsParser(q)
      BY <2>1 DEF IsParser
    <2>. HIDE DEF q
    <2>4. FinalizeToolCall(q).lastContent = p.lastContent
      BY <2>3, FinalizeKeepsLast
    <2>5. CallsRead(ProcessToolStart(p, item), begun \cup {item})
      BY StartReads
    <2>. QED BY <1>1, <2>2, <2>3, <2>4, <2>5 DEF ToolRead, WithItem
  <1>2. CASE item.kind = "tool_input"
    <2>1. CallsRead(ProcessToolInput(p, item), begun)
      BY InputReads
    <2>2. ProcessToolInput(p, item).lastContent = p.lastContent
      BY DEF ProcessToolInput, IsParser
    <2>. QED BY <1>2, <2>1, <2>2 DEF ToolRead, WithItem
  <1>3. CASE item.kind = "tool_stop"
    <2>1. CallsRead(FinalizeToolCall(p), begun) /\ FinalizeToolCall(p).lastContent = p.lastContent
      BY FinalizeReads, FinalizeKeepsLast
    <2>. QED BY <1>3, <2>1 DEF ToolRead, WithItem, ProcessToolStop
  <1>. QED BY <1>1, <1>2, <1>3 DEF ToolKinds

\* Another text does not change what is known of the calls.
LEMMA TextKeepsCalls ==
  ASSUME NEW p, IsParser(p), NEW begun, CallsRead(p, begun), NEW text
  PROVE  LET q == [p EXCEPT !.lastContent = text]
         IN  CallsRead(q, begun) /\ q.lastContent = text
  <1>. DEFINE q == [p EXCEPT !.lastContent = text]
  <1>1. /\ q.lastContent = text /\ q.toolCalls = p.toolCalls
        /\ q.currentToolCall = p.currentToolCall
    BY DEF IsParser
  <1>. HIDE DEF q
  <1>2. CallsRead(q, begun)
    BY <1>1 DEF CallsRead, Assembled
  <1>. QED BY <1>1, <1>2 DEF q

\* What the pipeline makes of an item: a new text, a text that repeats the last one, a
\* part of a call, or any other item.
ReadsText(pl, item, fed) ==
  LET t == ThinkingFeed(pl.thinking, item.text)
  IN  /\ item.kind = "content" /\ Accepts(pl.parser, item.text)
      /\ fed.pipeline.thinking = t.parser
      /\ fed.pipeline.parser = [pl.parser EXCEPT !.lastContent = item.text]
      /\ fed.events = TextEvent("thinking", t.thinking) \o TextEvent("content", t.content)
                        \o TruncationDiagnosis(fed.pipeline.parser)

ReadsRepeat(pl, item, fed) ==
  /\ item.kind = "content" /\ ~Accepts(pl.parser, item.text)
  /\ fed.pipeline = pl /\ fed.events = <<>> \o TruncationDiagnosis(pl.parser)

ReadsTool(pl, item, fed) ==
  /\ item.kind \in ToolKinds
  /\ fed.pipeline.thinking = pl.thinking /\ fed.pipeline.parser = ToolRead(pl.parser, item)
  /\ fed.events = <<>> \o TruncationDiagnosis(fed.pipeline.parser)

ReadsOther(pl, item, fed) ==
  /\ item.kind \notin {"content"} \cup ToolKinds
  /\ fed.pipeline = pl /\ fed.events = <<item>> \o TruncationDiagnosis(pl.parser)

LEMMA FeedTakes ==
  ASSUME NEW pl, IsPipeline(pl), NEW item
  PROVE  LET fed == Feed(pl, item)
         IN  \/ ReadsText(pl, item, fed) \/ ReadsRepeat(pl, item, fed)
             \/ ReadsTool(pl, item, fed) \/ ReadsOther(pl, item, fed)
  <1>. DEFINE a == FeedItem(pl, item)
              fed == Feed(pl, item)
  <1>1. fed.pipeline = a.pipeline /\ fed.events = a.events \o TruncationDiagnosis(a.pipeline.parser)
    BY DEF Feed, Fed
  <1>2. CASE item.kind = "content" /\ Accepts(pl.parser, item.text)
    <2>. DEFINE t == ThinkingFeed(pl.thinking, item.text)
                q == [pl EXCEPT !.parser.lastContent = item.text, !.thinking = t.parser]
                events == TextEvent("thinking", t.thinking) \o TextEvent("content", t.content)
    <2>1. a = Fed(q, events)
      BY <1>2 DEF FeedItem, FeedContent
    <2>. HIDE DEF t, events
    <2>2. q.thinking = t.parser /\ q.parser = [pl.parser EXCEPT !.lastContent = item.text]
      BY DEF IsPipeline
    <2>. HIDE DEF q, a
    <2>3. a.pipeline = q /\ a.events = events
      BY <2>1 DEF Fed
    <2>. HIDE DEF fed
    <2>4. ReadsText(pl, item, fed)
      BY <1>1, <1>2, <2>2, <2>3 DEF ReadsText, t, events
    <2>. QED BY <2>4 DEF fed
  <1>3. CASE item.kind = "content" /\ ~Accepts(pl.parser, item.text)
    <2>1. a.pipeline = pl /\ a.events = <<>>
      BY <1>3 DEF FeedItem, FeedContent, Fed
    <2>. HIDE DEF a, fed
    <2>2. ReadsRepeat(pl, item, fed)
      BY <1>1, <1>3, <2>1 DEF ReadsRepeat
    <2>. QED BY <2>2 DEF fed
  <1>4. CASE item.kind \in ToolKinds
    <2>. DEFINE parser == ToolRead(pl.parser, item)
                q == [pl EXCEPT !.parser = parser]
    <2>1. a = Fed(q, <<>>)
      BY <1>4 DEF FeedItem, FeedTool, ToolKinds, ToolRead
    <2>. HIDE DEF parser
    <2>2. q.thinking = pl.thinking /\ q.parser = parser
      BY DEF IsPipeline
    <2>. HIDE DEF q, a
    <2>3. a.pipeline = q /\ a.events = <<>>
      BY <2>1 DEF Fed
    <2>. HIDE DEF fed
    <2>4. ReadsTool(pl, item, fed)
      BY <1>1, <1>4, <2>2, <2>3 DEF ReadsTool, parser
    <2>. QED BY <2>4 DEF fed
  <1>5. CASE item.kind \notin {"content"} \cup ToolKinds
    <2>1. a.pipeline = pl /\ a.events = <<item>>
      BY <1>5 DEF FeedItem, Fed, ToolKinds
    <2>. HIDE DEF a, fed
    <2>2. ReadsOther(pl, item, fed)
      BY <1>1, <1>5, <2>1 DEF ReadsOther
    <2>. QED BY <2>2 DEF fed
  <1>. QED BY <1>2, <1>3, <1>4, <1>5

\* What is known of the calls after an item, and the text that came last.
LEMMA CallsAreRead ==
  ASSUME NEW pl, IsPipeline(pl), NEW begun, CallsRead(pl.parser, begun), NEW item
  PROVE  LET q == Feed(pl, item).pipeline.parser
         IN  /\ CallsRead(q, WithItem(begun, item))
             /\ q.lastContent = IF item.kind = "content" THEN item.text ELSE pl.parser.lastContent
  <1>. DEFINE fed == Feed(pl, item)
              q == fed.pipeline.parser
              p == pl.parser
  <1>1. IsParser(p) /\ CallsRead(p, begun)
    BY DEF IsPipeline
  <1>2. \/ ReadsText(pl, item, fed) \/ ReadsRepeat(pl, item, fed)
        \/ ReadsTool(pl, item, fed) \/ ReadsOther(pl, item, fed)
    BY FeedTakes
  <1>. HIDE DEF fed, p
  <1>3. CASE ReadsText(pl, item, fed)
    <2>1. item.kind = "content" /\ q = [p EXCEPT !.lastContent = item.text]
      BY <1>3 DEF ReadsText, p
    <2>. HIDE DEF q
    <2>2. CallsRead(q, begun) /\ q.lastContent = item.text
      BY <1>1, <2>1, TextKeepsCalls
    <2>. QED BY <2>1, <2>2 DEF WithItem, q, fed
  <1>4. CASE ReadsRepeat(pl, item, fed)
    <2>1. item.kind = "content" /\ q = p /\ item.text = p.lastContent
      BY <1>4 DEF ReadsRepeat, Accepts, p
    <2>. QED BY <1>1, <2>1 DEF WithItem, fed
  <1>5. CASE ReadsTool(pl, item, fed)
    <2>1. item.kind \in ToolKinds /\ q = ToolRead(p, item)
      BY <1>5 DEF ReadsTool, p
    <2>2. CallsRead(q, WithItem(begun, item)) /\ q.lastContent = p.lastContent
      BY <1>1, <2>1, ToolIsRead
    <2>. QED BY <2>1, <2>2 DEF ToolKinds, fed, p
  <1>6. CASE ReadsOther(pl, item, fed)
    <2>1. item.kind \notin {"content", "tool_start"} /\ q = p
      BY <1>6 DEF ReadsOther, ToolKinds, p
    <2>. QED BY <1>1, <2>1 DEF WithItem, fed, p
  <1>. QED BY <1>2, <1>3, <1>4, <1>5, <1>6

-----------------------------------------------------------------------------
(* What holds while a reply is streamed.                                   *)

\* The reply stands at c, and what is still to be written takes it on from there.
At(c) ==
  /\ Stands(reply, c)
  /\ phase = "streaming" => KeptBy(c, formatter)
  /\ phase = "finishing" => Finished(c, formatter)
  /\ phase \in {"stopping", "returned"} /\ err = "none" => AtEnd(c, formatter)

Streams ==
  /\ dialect \in Dialects /\ Handling \in Handlings /\ received.others \subseteq Items
  /\ IsPipeline(pipeline) /\ IsReply(reply) /\ Flags(reply)
  /\ phase = "streaming" /\ TextOpen(formatter) => pipeline.thinking.state = "Streaming"
  /\ formatter.refused <=> WasReceived("refusal")
  /\ formatter.receivedContextUsage <=> WasReceived("context_usage")
  /\ {"refused", "receivedContextUsage", "out"} \subseteq DOMAIN formatter
  /\ \E c : At(c)

LEMMA NewPipelineIs ==
  ASSUME NEW handling \in HandlingModes
  PROVE  /\ IsPipeline(NewPipeline(handling))
         /\ NewPipeline(handling).thinking.handling = handling
  <1>. DEFINE t == NewThinking(handling)
              p == NewParser
              pl == NewPipeline(handling)
  <1>1. IsThinking(t) /\ t.handling = handling
    BY ShortSeqs DEF NewThinking, IsThinking, ThinkingFields
  <1>2. IsParser(p)
    BY ShortSeqs DEF NewParser, IsParser
  <1>3. pl = [parser |-> p, thinking |-> t]
    BY DEF NewPipeline
  <1>. HIDE DEF t, p, pl
  <1>4. pl = [f \in {"parser", "thinking"} |-> pl[f]] /\ pl.parser = p /\ pl.thinking = t
    BY <1>3
  <1>. QED BY <1>1, <1>2, <1>4 DEF IsPipeline, pl

\* Before anything is read.
StartsWell(c, f) ==
  /\ Stands(EmptyReply(dialect), c) /\ KeptBy(c, f) /\ ~f.refused /\ ~f.receivedContextUsage
  /\ ~TextOpen(f) /\ {"refused", "receivedContextUsage", "out"} \subseteq DOMAIN f

LEMMA NewFormatterIs ==
  ASSUME dialect \in Dialects, NEW handling
  PROVE  /\ \E c : StartsWell(c, NewFormatter(dialect, handling))
         /\ IsReply(EmptyReply(dialect)) /\ Flags(EmptyReply(dialect))
  <1>. DEFINE f == NewFormatter(dialect, handling)
              r == EmptyReply(dialect)
              c == [dialect |-> dialect, phase |-> PhaseOf(r), closed |-> 0, kind |-> "none",
                    call |-> <<>>, holds |-> {}, reason |-> "none"]
  <1>1. /\ r = [x \in ReplyFields |-> r[x]] /\ r.blocks = <<>> /\ r.reason = "none"
        /\ ~r.ended /\ (r.started <=> dialect = "openai") /\ Flags(r)
    BY DEF EmptyReply, ReplyFields, Flags
  <1>. HIDE DEF r
  <1>2. IsSeq(r.blocks) /\ Len(r.blocks) = 0 /\ 1 .. Len(r.blocks) = {}
    BY <1>1, ShortSeqs
  <1>3. IsReply(r)
    BY <1>1, <1>2 DEF IsReply, HasBlocks
  <1>4. ~GrowingOf(r) /\ ClosedOf(r) = <<>> /\ Len(ClosedOf(r)) = 0
    BY <1>1 DEF GrowingOf, ClosedOf, BlocksOf
  <1>5. /\ IsCursor(c) /\ c.dialect = dialect /\ c.phase = PhaseOf(r) /\ c.closed = 0
        /\ c.kind = "none" /\ c.call = <<>> /\ c.holds = {} /\ c.reason = "none"
    BY DEF IsCursor, CursorFields
  <1>. HIDE DEF c
  <1>6. Stands(r, c)
    BY <1>1, <1>2, <1>4, <1>5 DEF Stands, HasCall, HasText
  <1>7. PhaseOf(r) = IF dialect = "openai" THEN "body" ELSE "before"
    BY <1>1 DEF PhaseOf
  <1>8. CASE dialect = "anthropic"
    <2>. DEFINE g == Anthropic!NewFormatter(handling)
                start == Anthropic!MessageStart
                out == Append(<<>>, start)
                d == InPhase(c, "body", c.reason)
    <2>1. /\ g = [x \in AnthropicFields |-> g[x]] /\ g.current = 0 /\ g.toolBlockCount = 0
          /\ ~g.thinkingOpen /\ ~g.textOpen /\ g.fullContent = <<>> /\ g.out = <<>>
          /\ ~g.refused /\ ~g.receivedContextUsage
      BY DEF Anthropic!NewFormatter, AnthropicFields
    <2>2. f = [g EXCEPT !.out = Append(g.out, start)]
      BY <1>8 DEF NewFormatter, Anthropic!EmitMessageStart, Anthropic!Emit
    <2>3. start.type = "message_start"
      BY DEF Anthropic!MessageStart
    <2>. HIDE DEF g, start, f
    <2>4. f = [g EXCEPT !.out = out]
      BY <2>1, <2>2
    <2>5. Moves(c, start, d)
      BY <1>5, <1>7, <1>8, <2>3 DEF Starts, Moves
    <2>6. /\ IsCursor(d) /\ d.phase = "body" /\ d.reason = "none" /\ d.holds = {}
          /\ d.kind = "none" /\ d.call = <<>> /\ d.dialect = dialect /\ d.closed = 0
      BY <1>5, PhasedCursor
    <2>. HIDE DEF d
    <2>7. IsSeq(out) /\ Leads(c, out, d)
      <3>1. Leads(c, <<>>, c) /\ IsSeq(<<>>)
        BY LeadsNowhere, ShortSeqs
      <3>. QED BY <2>5, <3>1, LeadsOn
    <2>. HIDE DEF out
    <2>8. /\ f = [x \in AnthropicFields |-> f[x]] /\ f.current = 0 /\ f.toolBlockCount = 0
          /\ ~f.thinkingOpen /\ ~f.textOpen /\ f.fullContent = <<>> /\ f.out = out
          /\ ~f.refused /\ ~f.receivedContextUsage
          /\ {"refused", "receivedContextUsage", "out"} \subseteq DOMAIN f
      BY <2>1, <2>4 DEF AnthropicFields
    <2>9. IsAnthropic(f)
      BY <2>7, <2>8, ShortSeqs DEF IsAnthropic
    <2>10. IsAt(f, d)
      <3>1. ~(0 > 0)
        OBVIOUS
      <3>. QED BY <1>8, <2>6, <2>8, <3>1 DEF IsAt
    <2>11. Kept(c, f)
      BY <2>6, <2>7, <2>8, <2>9, <2>10 DEF Kept, Writes, Unless
    <2>12. StartsWell(c, f)
      BY <1>6, <1>8, <2>8, <2>11 DEF StartsWell, KeptBy, TextOpen, r
    <2>13. \E x : StartsWell(x, f)
      BY <2>12
    <2>. QED BY <1>1, <1>3, <2>13 DEF f, r
  <1>9. CASE dialect = "openai"
    <2>1. f = OpenAI!NewFormatter(handling)
      BY <1>9 DEF NewFormatter
    <2>. HIDE DEF f
    <2>2. /\ f = [x \in OpenAIFields |-> f[x]] /\ f.toolCallsFromStream = <<>>
          /\ f.fullContent = <<>> /\ f.out = <<>>
          /\ ~f.refused /\ ~f.receivedContextUsage
          /\ {"refused", "receivedContextUsage", "out"} \subseteq DOMAIN f
      BY <2>1 DEF OpenAI!NewFormatter, OpenAIFields
    <2>3. IsOpenAI(f)
      BY <2>2, ShortSeqs DEF IsOpenAI
    <2>4. Leads(c, f.out, c)
      BY <2>2, LeadsNowhere
    <2>5. IsChunkAt(c)
      BY <1>5, <1>7, <1>9 DEF IsChunkAt
    <2>6. OpenAIKept(c, f)
      BY <2>2, <2>3, <2>4, <2>5 DEF OpenAIKept, Unless
    <2>7. StartsWell(c, f)
      BY <1>6, <1>9, <2>2, <2>6 DEF StartsWell, KeptBy, TextOpen, r
    <2>8. \E x : StartsWell(x, f)
      BY <2>7
    <2>. QED BY <1>1, <1>3, <2>8 DEF f, r
  <1>. QED BY <1>8, <1>9 DEF Dialects

LEMMA StreamsInit == Init => Streams
  <1>. SUFFICES ASSUME Init PROVE Streams
    OBVIOUS
  <1>1. PICK handling \in Handlings :
          pipeline = NewPipeline(handling) /\ formatter = NewFormatter(dialect, handling)
    BY DEF Init
  <1>2. /\ dialect \in Dialects /\ phase = "streaming" /\ reply = EmptyReply(dialect)
        /\ received.others = {}
    BY DEF Init
  <1>3. IsPipeline(pipeline) /\ Handling = handling
    BY <1>1, NewPipelineIs, StreamAssumption DEF Handling
  <1>4. /\ \E c : StartsWell(c, formatter)
        /\ IsReply(reply) /\ Flags(reply)
    BY <1>1, <1>2, NewFormatterIs
  <1>5. PICK c : StartsWell(c, formatter)
    BY <1>4
  <1>6. At(c)
    BY <1>2, <1>5 DEF At, StartsWell
  <1>7. \A kind : ~WasReceived(kind)
    BY <1>2 DEF WasReceived
  <1>. QED BY <1>1, <1>2, <1>3, <1>4, <1>5, <1>6, <1>7 DEF Streams, StartsWell

-----------------------------------------------------------------------------
(* The steps.                                                              *)
Sent(f) == [f EXCEPT !.out = Tail(@)]

Named == {"refused", "receivedContextUsage", "out"}

LEMMA SentFlags ==
  ASSUME NEW f, Named \subseteq DOMAIN f, NEW out
  PROVE  LET g == [f EXCEPT !.out = out]
         IN  /\ Named \subseteq DOMAIN g /\ g.out = out
             /\ g.refused = f.refused /\ g.receivedContextUsage = f.receivedContextUsage
  BY DEF Named

LEMMA SendsOne ==
  ASSUME dialect \in Dialects, NEW c, NEW f, KeptBy(c, f), f.out # <<>>
  PROVE  /\ \E b : Moves(c, Head(f.out), b) /\ KeptBy(b, Sent(f))
         /\ (TextOpen(Sent(f)) <=> TextOpen(f))
  <1>. DEFINE g == Sent(f)
              out == Tail(f.out)
  <1>1. CASE dialect = "anthropic"
    <2>. DEFINE held == Unless(f.fullContent = <<>>, "text")
    <2>1. Kept(c, f) /\ IsAnthropic(f)
      BY <1>1 DEF KeptBy, Kept, Writes
    <2>2. PICK d : Leads(c, f.out, d) /\ IsAt(f, d) /\ held \subseteq d.holds
      BY <2>1 DEF Kept, Writes
    <2>3. IsSeq(out) /\ \E b : Moves(c, Head(f.out), b) /\ Leads(b, out, d)
      BY <2>1, <2>2, LeadsFirst DEF IsAnthropic
    <2>4. PICK b : Moves(c, Head(f.out), b) /\ Leads(b, out, d)
      BY <2>3
    <2>5. g = [f EXCEPT !.out = out]
      BY DEF Sent
    <2>. HIDE DEF g, out
    <2>6. Alters(f, g, {"out"}) /\ g.out = out
      BY <2>1, <2>5 DEF IsAnthropic, AnthropicFields, Alters
    <2>7. IsAnthropic(g) /\ IsAt(g, d) /\ g.fullContent = f.fullContent
          /\ (g.textOpen <=> f.textOpen)
      BY ZenonT(60), <2>1, <2>2, <2>3, <2>6 DEF Alters, AnthropicFields, IsAnthropic, IsAt
    <2>8. Kept(b, g)
      BY <2>2, <2>4, <2>6, <2>7 DEF Kept, Writes
    <2>. QED BY <1>1, <2>4, <2>7, <2>8 DEF KeptBy, TextOpen, g
  <1>2. CASE dialect = "openai"
    <2>. DEFINE held == Unless(f.fullContent = <<>>, "text")
    <2>1. OpenAIKept(c, f) /\ IsOpenAI(f)
      BY <1>2 DEF KeptBy, OpenAIKept
    <2>2. PICK d : Leads(c, f.out, d) /\ IsChunkAt(d) /\ held \subseteq d.holds
      BY <2>1 DEF OpenAIKept
    <2>3. IsSeq(out) /\ \E b : Moves(c, Head(f.out), b) /\ Leads(b, out, d)
      BY <2>1, <2>2, LeadsFirst DEF IsOpenAI
    <2>4. PICK b : Moves(c, Head(f.out), b) /\ Leads(b, out, d)
      BY <2>3
    <2>5. g = [f EXCEPT !.out = out]
      BY DEF Sent
    <2>. HIDE DEF g, out
    <2>6. Changes(f, g, {"out"}) /\ g.out = out
      BY <2>1, <2>5 DEF IsOpenAI, OpenAIFields, Changes
    <2>7. IsOpenAI(g) /\ g.fullContent = f.fullContent
      BY <2>1, <2>3, <2>6 DEF Changes, OpenAIFields, IsOpenAI
    <2>8. OpenAIKept(b, g)
      BY <2>2, <2>4, <2>6, <2>7 DEF OpenAIKept
    <2>. QED BY <1>2, <2>4, <2>8 DEF KeptBy, TextOpen, g
  <1>. QED BY <1>1, <1>2 DEF Dialects

LEMMA SendsLast ==
  ASSUME NEW c, NEW f, Finished(c, f), f.out # <<>>
  PROVE  \E b : Moves(c, Head(f.out), b) /\ Finished(b, Sent(f))
  <1>. DEFINE g == Sent(f)
              out == Tail(f.out)
  <1>1. PICK d : Leads(c, f.out, d) /\ AtEnd(d, f)
    BY DEF Finished
  <1>2. IsSeq(f.out) /\ Named \subseteq DOMAIN f
    BY DEF Finished, Named
  <1>3. IsSeq(out) /\ \E b : Moves(c, Head(f.out), b) /\ Leads(b, out, d)
    BY <1>1, <1>2, LeadsFirst
  <1>4. PICK b : Moves(c, Head(f.out), b) /\ Leads(b, out, d)
    BY <1>3
  <1>5. g = [f EXCEPT !.out = out]
    BY DEF Sent
  <1>. HIDE DEF g, out
  <1>6. /\ Named \subseteq DOMAIN g /\ g.out = out
        /\ g.refused = f.refused /\ g.receivedContextUsage = f.receivedContextUsage
    BY <1>2, <1>5, SentFlags
  <1>7. AtEnd(d, g)
    BY <1>1, <1>6 DEF AtEnd
  <1>8. Finished(b, g)
    BY <1>3, <1>4, <1>6, <1>7 DEF Finished, Named
  <1>. QED BY <1>4, <1>8 DEF g

\* The predicates depend on the dialect, which does not change.
LEMMA SameDialect ==
  ASSUME dialect' = dialect, NEW r, NEW c, NEW f
  PROVE  /\ Stands(r, c)' <=> Stands(r, c)
         /\ IsReply(r)' <=> IsReply(r)
         /\ KeptBy(c, f)' <=> KeptBy(c, f)
         /\ TextOpen(f)' <=> TextOpen(f)
  BY DEF Stands, GrowingOf, ClosedOf, BlocksOf, IsReply, KeptBy, TextOpen

\* An object of Kiro is read.
LEMMA ReadKeeps ==
  ASSUME Streams, NEW item \in Items, Read(item)
  PROVE  Streams'
  <1>. DEFINE fed == Feed(pipeline, item)
              kinds == KindsOf(fed.events)
              g == FoldLeft(Handle, formatter, fed.events)
  <1>1. /\ phase = "streaming" /\ pipeline' = fed.pipeline /\ formatter' = g
        /\ received'.others = IF item.kind = "content" THEN received.others
                              ELSE received.others \cup {item}
        /\ dialect' = dialect /\ phase' = phase /\ err' = err /\ reply' = reply
    BY DEF Read
  <1>2. PICK c : At(c)
    BY DEF Streams
  <1>3. /\ IsPipeline(fed.pipeline) /\ AreEvents(fed.events)
        /\ fed.pipeline.thinking.handling = pipeline.thinking.handling
        /\ ("content" \in kinds => fed.pipeline.thinking.state = "Streaming")
        /\ (pipeline.thinking.state = "Streaming" =>
              fed.pipeline.thinking.state = "Streaming" /\ "thinking" \notin kinds)
        /\ "refusal" \in kinds <=> item.kind = "refusal"
        /\ "context_usage" \in kinds <=> item.kind = "context_usage"
    BY FeedIsPipeline DEF Streams
  <1>. HIDE DEF fed
  <1>4. "thinking" \in kinds => ~TextOpen(formatter)
    BY <1>1, <1>3 DEF Streams
  <1>5. KeptBy(c, g) /\ Told(formatter, g, kinds)
    BY <1>1, <1>2, <1>3, <1>4, HandlesEvents DEF At, Streams
  <1>6. Named \subseteq DOMAIN g
    <2>1. CASE dialect = "anthropic"
      <3>1. IsAnthropic(g)
        BY <1>5, <2>1 DEF KeptBy, Kept, Writes
      <3>. QED BY <3>1 DEF IsAnthropic, AnthropicFields, Named
    <2>2. CASE dialect = "openai"
      <3>1. IsOpenAI(g)
        BY <1>5, <2>2 DEF KeptBy, OpenAIKept
      <3>. QED BY <3>1 DEF IsOpenAI, OpenAIFields, Named
    <2>. QED BY <2>1, <2>2 DEF Streams, Dialects
  <1>. HIDE DEF g, kinds
  <1>7. At(c)'
    <2>1. Stands(reply, c)'
      BY <1>1, <1>2, SameDialect DEF At
    <2>2. KeptBy(c, formatter)'
      BY <1>1, <1>5, SameDialect
    <2>. QED BY <1>1, <2>1, <2>2 DEF At
  <1>8. TextOpen(formatter)' => pipeline'.thinking.state = "Streaming"
    <2>1. TextOpen(formatter)' => TextOpen(g)
      BY <1>1, SameDialect
    <2>. QED BY <1>1, <1>3, <1>5, <2>1 DEF Told, Streams
  <1>9. ASSUME NEW kind, kind # "content"
        PROVE  WasReceived(kind)' <=> WasReceived(kind) \/ item.kind = kind
    BY <1>1, <1>9 DEF WasReceived
  <1>10. /\ formatter'.refused <=> WasReceived("refusal")'
         /\ formatter'.receivedContextUsage <=> WasReceived("context_usage")'
    <2>1. WasReceived("refusal")' <=> WasReceived("refusal") \/ item.kind = "refusal"
      BY <1>9
    <2>2. WasReceived("context_usage")' <=> WasReceived("context_usage") \/ item.kind = "context_usage"
      BY <1>9
    <2>. QED BY <1>1, <1>3, <1>5, <2>1, <2>2 DEF Told, Streams
  <1>11. IsReply(reply)' /\ Flags(reply)'
    BY <1>1, SameDialect DEF Streams, Flags
  <1>12. received'.others \subseteq Items /\ dialect' \in Dialects
    BY <1>1 DEF Streams
  <1>13. IsPipeline(pipeline)' /\ Handling' \in Handlings
    BY <1>1, <1>3 DEF Streams, Handling
  <1>14. Named \subseteq DOMAIN formatter'
    BY <1>1, <1>6
  <1>. QED BY <1>7, <1>8, <1>10, <1>11, <1>12, <1>13, <1>14 DEF Streams, Named

\* What a step keeps that reads nothing.
LEMMA KeepsTheRest ==
  ASSUME Streams, UNCHANGED <<dialect, pipeline, received>>, Named \subseteq DOMAIN formatter',
         formatter'.refused = formatter.refused,
         formatter'.receivedContextUsage = formatter.receivedContextUsage,
         phase' = "streaming" => phase = "streaming" /\ (TextOpen(formatter)' => TextOpen(formatter)),
         IsReply(reply)', Flags(reply)', \E c : At(c)'
  PROVE  Streams'
  <1>1. \A kind : WasReceived(kind)' <=> WasReceived(kind)
    BY DEF WasReceived
  <1>2. /\ formatter'.refused <=> WasReceived("refusal")'
        /\ formatter'.receivedContextUsage <=> WasReceived("context_usage")'
    BY <1>1 DEF Streams
  <1>3. dialect' \in Dialects /\ Handling' \in Handlings /\ received'.others \subseteq Items
    BY DEF Streams, Handling
  <1>4. IsPipeline(pipeline)'
    BY DEF Streams
  <1>5. phase' = "streaming" /\ TextOpen(formatter)' => pipeline'.thinking.state = "Streaming"
    BY DEF Streams
  <1>. QED BY <1>2, <1>3, <1>4, <1>5 DEF Streams, Named

\* The stream has come to its end.
LEMMA ReadEOFKeeps ==
  ASSUME Streams, ReadEOF
  PROVE  Streams'
  <1>. DEFINE events == PipelineFinish(pipeline)
              kinds == KindsOf(events)
              f == FoldLeft(Handle, formatter, events)
              g == FormatterFinish(f)
  <1>1. /\ phase = "streaming" /\ formatter' = g /\ phase' = "finishing" /\ reply' = reply
        /\ UNCHANGED <<dialect, pipeline, received>>
    BY DEF ReadEOF
  <1>2. PICK c : At(c)
    BY DEF Streams
  <1>3. /\ AreEvents(events) /\ (pipeline.thinking.state = "Streaming" => "thinking" \notin kinds)
        /\ "refusal" \notin kinds /\ "context_usage" \notin kinds
    BY LastEvents DEF Streams
  <1>. HIDE DEF events
  <1>4. "thinking" \in kinds => ~TextOpen(formatter)
    BY <1>1, <1>3 DEF Streams
  <1>5. KeptBy(c, f) /\ Told(formatter, f, kinds)
    BY <1>1, <1>2, <1>3, <1>4, HandlesEvents DEF At, Streams
  <1>. HIDE DEF f, kinds
  <1>6. /\ Finished(c, g)
        /\ g.refused = f.refused /\ g.receivedContextUsage = f.receivedContextUsage
    BY <1>5, FinishesMessage DEF Streams
  <1>. HIDE DEF g
  <1>7. At(c)'
    <2>1. Stands(reply, c)'
      BY <1>1, <1>2, SameDialect DEF At
    <2>2. Finished(c, formatter)'
      BY <1>1, <1>6
    <2>. QED BY <1>1, <2>1, <2>2 DEF At
  <1>8. /\ g.refused <=> formatter.refused
        /\ g.receivedContextUsage <=> formatter.receivedContextUsage
    BY <1>3, <1>5, <1>6 DEF Told
  <1>9. \A kind : WasReceived(kind)' <=> WasReceived(kind)
    BY <1>1 DEF WasReceived
  <1>10. /\ formatter'.refused <=> WasReceived("refusal")'
         /\ formatter'.receivedContextUsage <=> WasReceived("context_usage")'
    BY <1>1, <1>8, <1>9 DEF Streams
  <1>11. IsReply(reply)' /\ Flags(reply)'
    BY <1>1, SameDialect DEF Streams, Flags
  <1>12. dialect' \in Dialects /\ Handling' \in Handlings /\ received'.others \subseteq Items
    BY <1>1 DEF Streams, Handling
  <1>13. IsPipeline(pipeline)'
    BY <1>1 DEF Streams
  <1>14. Named \subseteq DOMAIN formatter'
    BY <1>1, <1>6 DEF Finished, Named
  <1>. QED BY <1>1, <1>7, <1>10, <1>11, <1>12, <1>13, <1>14 DEF Streams, Named

\* An event is written: the reply moves as MessageProtocol says.
LEMMA WriteKeeps ==
  ASSUME Streams, Write
  PROVE  Streams' /\ \E d : Follows(reply, Collect(reply, Head(formatter.out)), d)
  <1>. DEFINE e == Head(formatter.out)
              s == Collect(reply, e)
              g == Sent(formatter)
  <1>1. /\ phase \in {"streaming", "finishing"} /\ formatter.out # <<>> /\ reply' = s
        /\ formatter' = g /\ phase' = phase /\ err' = err
        /\ UNCHANGED <<dialect, pipeline, received>>
    BY DEF Write, AllWritten, Sent
  <1>2. PICK c : At(c)
    BY DEF Streams
  <1>3. /\ Named \subseteq DOMAIN g
        /\ g.refused = formatter.refused /\ g.receivedContextUsage = formatter.receivedContextUsage
    BY SentFlags DEF Sent, Streams, Named
  <1>. HIDE DEF g, s, e
  <1>4. PICK b : /\ Moves(c, e, b)
                 /\ phase = "streaming" => KeptBy(b, g) /\ (TextOpen(g) <=> TextOpen(formatter))
                 /\ phase = "finishing" => Finished(b, g)
    <2>1. CASE phase = "streaming"
      <3>1. KeptBy(c, formatter)
        BY <1>2, <2>1 DEF At
      <3>2. /\ \E b : Moves(c, e, b) /\ KeptBy(b, g)
            /\ (TextOpen(g) <=> TextOpen(formatter))
        BY <1>1, <3>1, SendsOne DEF Streams, g, e
      <3>. QED BY <2>1, <3>2
    <2>2. CASE phase = "finishing"
      <3>1. Finished(c, formatter)
        BY <1>2, <2>2 DEF At
      <3>2. \E b : Moves(c, e, b) /\ Finished(b, g)
        BY <1>1, <3>1, SendsLast DEF g, e
      <3>. QED BY <2>2, <3>2
    <2>. QED BY <1>1, <2>1, <2>2
  <1>5. Follows(reply, s, b)
    <2>1. Stands(reply, c) /\ IsReply(reply) /\ dialect \in Dialects
      BY <1>2 DEF At, Streams
    <2>. QED BY <1>4, <2>1, Collects DEF s
  <1>6. At(b)'
    <2>1. Stands(s, b)
      BY <1>5 DEF Follows
    <2>2. Stands(reply, b)'
      BY <1>1, <2>1, SameDialect
    <2>3. phase = "streaming" => KeptBy(b, formatter)'
      BY <1>1, <1>4, SameDialect
    <2>4. phase = "finishing" => Finished(b, formatter)'
      BY <1>1, <1>4
    <2>. QED BY <1>1, <2>2, <2>3, <2>4 DEF At
  <1>7. IsReply(reply)' /\ Flags(reply)'
    <2>1. IsReply(s) /\ Flags(s)
      BY <1>5 DEF Follows, Streams
    <2>. QED BY <1>1, <2>1, SameDialect
  <1>8. phase' = "streaming" => phase = "streaming" /\ (TextOpen(formatter)' => TextOpen(formatter))
    BY <1>1, <1>4, SameDialect
  <1>9. Streams'
    <2>1. /\ Named \subseteq DOMAIN formatter' /\ formatter'.refused = formatter.refused
          /\ formatter'.receivedContextUsage = formatter.receivedContextUsage
      BY <1>1, <1>3
    <2>2. \E x : At(x)'
      BY <1>6
    <2>. QED BY <1>1, <1>7, <1>8, <2>1, <2>2, KeepsTheRest
  <1>. QED BY <1>5, <1>9 DEF s, e

\* The handler goes on, and nothing is written.
LEMMA HandlerKeeps ==
  ASSUME Streams, ReadError \/ WriteError \/ Save \/ Return
  PROVE  Streams'
  <1>0. PICK c : At(c)
    BY DEF Streams
  <1>1. /\ UNCHANGED <<dialect, pipeline, received, reply>> /\ phase' # "streaming"
    BY DEF ReadError, WriteError, Save, Return
  <1>2. /\ Named \subseteq DOMAIN formatter' /\ formatter'.refused = formatter.refused
        /\ formatter'.receivedContextUsage = formatter.receivedContextUsage
    <2>1. CASE WriteError
      <3>1. formatter' = [formatter EXCEPT !.out = <<>>]
        BY <2>1 DEF WriteError
      <3>2. Named \subseteq DOMAIN formatter
        BY DEF Streams, Named
      <3>. QED BY <3>1, <3>2, SentFlags
    <2>2. CASE formatter' = formatter
      BY <2>2 DEF Streams, Named
    <2>. QED BY <2>1, <2>2 DEF ReadError, Save, Return
  <1>3. IsReply(reply)' /\ Flags(reply)' /\ Stands(reply, c)'
    BY <1>0, <1>1, SameDialect DEF Streams, Flags, At
  <1>4. At(c)'
    <2>1. CASE ReadError \/ WriteError
      BY <1>3, <2>1 DEF At, ReadError, WriteError
    <2>2. CASE Save
      <3>1. Finished(c, formatter) /\ formatter.out = <<>> /\ phase' = "stopping"
        BY <1>0, <2>2 DEF Save, At, AllWritten
      <3>2. PICK d : Leads(c, <<>>, d) /\ AtEnd(d, formatter)
        BY <3>1 DEF Finished
      <3>3. d = c
        BY <3>2, LeadsNowhere
      <3>4. AtEnd(c, formatter)'
        BY <2>2, <3>2, <3>3 DEF Save
      <3>. QED BY <1>3, <3>1, <3>4 DEF At
    <2>3. CASE Return
      <3>1. /\ phase = "stopping" /\ phase' = "returned" /\ err' = err
            /\ formatter' = formatter
        BY <2>3 DEF Return
      <3>2. err' = "none" => AtEnd(c, formatter)'
        BY <1>0, <3>1 DEF At
      <3>. QED BY <1>3, <3>1, <3>2 DEF At
    <2>. QED BY <2>1, <2>2, <2>3
  <1>5. \E x : At(x)'
    BY <1>4
  <1>. QED BY <1>1, <1>2, <1>3, <1>5, KeepsTheRest

\* A ping is no part of the message.
LEMMA PingChangesNothing ==
  ASSUME NEW r, IsReply(r), NEW c, Stands(r, c), NEW pings
  PROVE  LET s == [r EXCEPT !.pings = pings]
         IN  /\ IsReply(s) /\ Stands(s, c) /\ (Flags(r) => Flags(s)) /\ PhaseOf(s) = PhaseOf(r)
             /\ SameBlocks(r, s) /\ s.pings = pings
  <1>. DEFINE s == [r EXCEPT !.pings = pings]
  <1>1. /\ s = [x \in ReplyFields |-> s[x]] /\ s.blocks = r.blocks /\ s.pings = pings
        /\ s.started = r.started /\ s.ended = r.ended /\ s.reason = r.reason
    BY DEF IsReply, HasBlocks, ReplyFields
  <1>. HIDE DEF s
  <1>2. /\ BlocksOf(s) = BlocksOf(r) /\ (GrowingOf(s) <=> GrowingOf(r))
        /\ ClosedOf(s) = ClosedOf(r) /\ OpenOf(s) = OpenOf(r)
    BY <1>1 DEF BlocksOf, GrowingOf, ClosedOf, OpenOf
  <1>3. (HasCall(s) <=> HasCall(r)) /\ (HasText(s) <=> HasText(r))
    BY <1>1 DEF HasCall, HasText
  <1>4. PhaseOf(s) = PhaseOf(r) /\ (Flags(r) => Flags(s)) /\ SameBlocks(r, s)
    BY <1>1, <1>2 DEF PhaseOf, Flags, SameBlocks
  <1>5. IsReply(s)
    BY <1>1 DEF IsReply, HasBlocks
  <1>6. Stands(s, c)
    BY <1>1, <1>2, <1>3, <1>4 DEF Stands
  <1>. QED BY <1>1, <1>4, <1>5, <1>6 DEF s

LEMMA PingerKeeps ==
  ASSUME Streams, Tick \/ Ping \/ PingerExit
  PROVE  Streams'
  <1>0. PICK c : At(c)
    BY DEF Streams
  <1>1. UNCHANGED <<dialect, pipeline, received, formatter, phase, err>>
    BY DEF Tick, Ping, PingerExit
  <1>2. IsReply(reply)' /\ Flags(reply)' /\ Stands(reply, c)'
    <2>. DEFINE s == [reply EXCEPT !.pings = reply.pings + 1]
    <2>1. reply' = reply \/ reply' = s
      BY DEF Tick, Ping, PingerExit
    <2>2. IsReply(reply) /\ Flags(reply) /\ Stands(reply, c)
      BY <1>0 DEF Streams, At
    <2>3. IsReply(s) /\ Flags(s) /\ Stands(s, c)
      BY <2>2, PingChangesNothing
    <2>. HIDE DEF s
    <2>4. IsReply(reply') /\ Flags(reply') /\ Stands(reply', c)
      BY <2>1, <2>2, <2>3
    <2>. QED BY <1>1, <2>4, SameDialect
  <1>3. At(c)'
    <2>1. phase = "streaming" => KeptBy(c, formatter)'
      BY <1>0, <1>1, SameDialect DEF At
    <2>2. phase = "finishing" => Finished(c, formatter)'
      BY <1>0, <1>1 DEF At
    <2>3. phase \in {"stopping", "returned"} /\ err = "none" => AtEnd(c, formatter)'
      BY <1>0, <1>1 DEF At
    <2>. QED BY <1>1, <1>2, <2>1, <2>2, <2>3 DEF At
  <1>4. \E x : At(x)'
    BY <1>3
  <1>5. /\ Named \subseteq DOMAIN formatter' /\ formatter'.refused = formatter.refused
        /\ formatter'.receivedContextUsage = formatter.receivedContextUsage
    BY <1>1 DEF Streams, Named
  <1>6. phase' = "streaming" => phase = "streaming" /\ (TextOpen(formatter)' => TextOpen(formatter))
    BY <1>1, SameDialect
  <1>. QED BY <1>1, <1>2, <1>4, <1>5, <1>6, KeepsTheRest

LEMMA StutterKeeps ==
  ASSUME Streams, UNCHANGED vars
  PROVE  Streams'
  <1>0. PICK c : At(c)
    BY DEF Streams
  <1>1. UNCHANGED <<dialect, pipeline, received, formatter, phase, err, reply>>
    BY DEF vars
  <1>2. IsReply(reply)' /\ Flags(reply)' /\ Stands(reply, c)'
    BY <1>0, <1>1, SameDialect DEF Streams, Flags, At
  <1>3. At(c)'
    <2>1. phase = "streaming" => KeptBy(c, formatter)'
      BY <1>0, <1>1, SameDialect DEF At
    <2>2. phase = "finishing" => Finished(c, formatter)'
      BY <1>0, <1>1 DEF At
    <2>3. phase \in {"stopping", "returned"} /\ err = "none" => AtEnd(c, formatter)'
      BY <1>0, <1>1 DEF At
    <2>. QED BY <1>1, <1>2, <2>1, <2>2, <2>3 DEF At
  <1>4. \E x : At(x)'
    BY <1>3
  <1>5. /\ Named \subseteq DOMAIN formatter' /\ formatter'.refused = formatter.refused
        /\ formatter'.receivedContextUsage = formatter.receivedContextUsage
    BY <1>1 DEF Streams, Named
  <1>6. phase' = "streaming" => phase = "streaming" /\ (TextOpen(formatter)' => TextOpen(formatter))
    BY <1>1, SameDialect
  <1>. QED BY <1>1, <1>2, <1>4, <1>5, <1>6, KeepsTheRest

LEMMA StreamsNext == Streams /\ [Next]_vars => Streams'
  <1>. SUFFICES ASSUME Streams, [Next]_vars PROVE Streams'
    OBVIOUS
  <1>1. ASSUME NEW item \in Items, Read(item) PROVE Streams'
    BY <1>1, ReadKeeps
  <1>2. CASE ReadEOF
    BY <1>2, ReadEOFKeeps
  <1>3. CASE Write
    BY <1>3, WriteKeeps
  <1>4. CASE ReadError \/ WriteError \/ Save \/ Return
    BY <1>4, HandlerKeeps
  <1>5. CASE Tick \/ Ping \/ PingerExit
    BY <1>5, PingerKeeps
  <1>6. CASE UNCHANGED vars
    BY <1>6, StutterKeeps
  <1>. QED BY <1>1, <1>2, <1>3, <1>4, <1>5, <1>6 DEF Next

LEMMA AlwaysStreams == Spec => []Streams
  BY StreamsInit, StreamsNext, PTL DEF Spec

-----------------------------------------------------------------------------
(* The reply is a message of MessageProtocol.                              *)

\* The variables of the protocol.
LEMMA ProtocolState ==
  /\ (IF reply.ended THEN "done" ELSE IF reply.reason # "none" THEN "ended"
      ELSE IF reply.started THEN "body" ELSE "before") = PhaseOf(reply)
  /\ (IF Growing THEN Front(Blocks) ELSE Blocks) = ClosedOf(reply)
  /\ (IF Growing THEN <<[Last(Blocks) EXCEPT !.open = FALSE]>> ELSE <<>>) = OpenOf(reply)
  BY DEF PhaseOf, ClosedOf, OpenOf, GrowingOf, BlocksOf, Growing, Blocks

LEMMA StepOfProtocol ==
  ASSUME dialect' = dialect, StepsTo(reply, reply'), reply'.pings = reply.pings
  PROVE  [Protocol!Next]_(Protocol!vars)
  <1>1. /\ (IF reply'.ended THEN "done" ELSE IF reply'.reason # "none" THEN "ended"
            ELSE IF reply'.started THEN "body" ELSE "before") = PhaseOf(reply')
        /\ (IF Growing' THEN Front(Blocks') ELSE Blocks') = ClosedOf(reply')
        /\ (IF Growing' THEN <<[Last(Blocks') EXCEPT !.open = FALSE]>> ELSE <<>>) = OpenOf(reply')
    BY DEF PhaseOf, ClosedOf, OpenOf, GrowingOf, BlocksOf, Growing, Blocks
  <1>2. CASE PhaseGoesOn(reply, reply')
    BY <1>1, <1>2, ProtocolState DEF PhaseGoesOn, SameBlocks, Protocol!Next, Protocol!Begin,
       Protocol!GiveReason, Protocol!End
  <1>3. CASE PhaseOf(reply) = "body" /\ PhaseOf(reply') = "body" /\ OpensOne(reply, reply')
    BY <1>1, <1>3, ProtocolState DEF OpensOne, Protocol!Next, Protocol!OpenBlock
  <1>4. CASE PhaseOf(reply) = "body" /\ PhaseOf(reply') = "body" /\ GrowsOne(reply, reply')
    <2>1. \A s, t : Protocol!IsPrefix(s, t) <=> IsPrefix(s, t)
      BY DEF IsPrefix, Protocol!IsPrefix
    <2>. DEFINE was == [Last(Blocks) EXCEPT !.open = FALSE]
    <2>. DEFINE is  == [Last(Blocks') EXCEPT !.open = FALSE]
    <2>2. OpenOf(reply) # <<>> /\ Len(OpenOf(reply')) = 1
      BY <1>4 DEF GrowsOne
    <2>3. Growing /\ OpenOf(reply) = <<was>> /\ Growing' /\ OpenOf(reply') = <<is>>
      BY <1>1, <2>2, ProtocolState
    <2>4. OpenOf(reply)[1] = was /\ OpenOf(reply')[1] = is
      BY <2>3
    <2>. HIDE DEF was, is
    <2>. DEFINE a == OpenOf(reply)[1]
    <2>. DEFINE b == OpenOf(reply')[1]
    <2>5. /\ OpenOf(reply') = <<[a EXCEPT !.text = b.text, !.signed = b.signed, !.call = b.call]>>
          /\ IsPrefix(a.text, b.text)
          /\ a.signed => b.signed
          /\ b.call # a.call => Protocol!GivesInput(a.call, b.call)
          /\ ClosedOf(reply') = ClosedOf(reply)
      BY <1>4 DEF GrowsOne
    <2>6. a = was /\ b = is
      BY <2>4
    <2>. HIDE DEF a, b
    <2>7. /\ <<is>> = <<[was EXCEPT !.text = is.text, !.signed = is.signed, !.call = is.call]>>
          /\ IsPrefix(was.text, is.text)
          /\ was.signed => is.signed
          /\ is.call # was.call => Protocol!GivesInput(was.call, is.call)
      BY <2>3, <2>5, <2>6
    <2>8. PhaseOf(reply) = "body" /\ PhaseOf(reply') = "body"
      BY <1>4
    <2>. DEFINE o == IF Growing THEN <<[Last(Blocks) EXCEPT !.open = FALSE]>> ELSE <<>>
    <2>. DEFINE p == IF Growing' THEN <<[Last(Blocks') EXCEPT !.open = FALSE]>> ELSE <<>>
    <2>9. o = <<was>> /\ p = <<is>>
      BY <1>1, <2>3, ProtocolState
    <2>. HIDE DEF o, p
    <2>10. o[1] = was /\ p[1] = is /\ o # <<>> /\ Len(p) = 1
      BY <2>9
    <2>11. /\ p = <<[o[1] EXCEPT !.text = p[1].text, !.signed = p[1].signed, !.call = p[1].call]>>
           /\ Protocol!IsPrefix(o[1].text, p[1].text)
           /\ o[1].signed => p[1].signed
           /\ p[1].call # o[1].call => Protocol!GivesInput(o[1].call, p[1].call)
      BY <2>1, <2>7, <2>9, <2>10
    <2>12. UNCHANGED <<IF reply.ended THEN "done" ELSE IF reply.reason # "none" THEN "ended"
                         ELSE IF reply.started THEN "body" ELSE "before",
                       IF Growing THEN Front(Blocks) ELSE Blocks, reply.pings>>
      BY <1>1, <2>5, <2>8, ProtocolState
    <2>13. (IF reply.ended THEN "done" ELSE IF reply.reason # "none" THEN "ended"
             ELSE IF reply.started THEN "body" ELSE "before") = "body"
      BY <2>8, ProtocolState
    <2>14. Protocol!GrowBlock
      BY <2>10, <2>11, <2>12, <2>13 DEF Protocol!GrowBlock, o, p
    <2>. QED BY <2>14 DEF Protocol!Next
  <1>5. CASE PhaseOf(reply) = "body" /\ PhaseOf(reply') = "body" /\ ClosesOne(reply, reply')
    BY <1>1, <1>5, ProtocolState DEF ClosesOne, Protocol!Next, Protocol!CloseBlock
  <1>6. CASE PhaseOf(reply) = "body" /\ PhaseOf(reply') = "body" /\ SameBlocks(reply, reply')
    BY <1>1, <1>6, ProtocolState DEF SameBlocks, Protocol!vars
  <1>. QED BY <1>2, <1>3, <1>4, <1>5, <1>6 DEF StepsTo

\* A ping comes between the events.
LEMMA PingOfProtocol ==
  ASSUME Streams, Ping
  PROVE  [Protocol!Next]_(Protocol!vars)
  <1>0. PICK c : At(c)
    BY DEF Streams
  <1>. DEFINE s == [reply EXCEPT !.pings = reply.pings + 1]
  <1>1. /\ dialect' = dialect
        /\ reply' = reply \/ (reply.started /\ reply' = s)
    BY DEF Ping
  <1>2. CASE reply' = reply
    BY <1>1, <1>2 DEF Protocol!vars, Growing, Blocks
  <1>3. CASE reply.started /\ reply' = s
    <2>1. PhaseOf(s) = PhaseOf(reply) /\ SameBlocks(reply, s) /\ s.pings = reply.pings + 1
      BY <1>0, PingChangesNothing DEF At, Streams
    <2>. HIDE DEF s
    <2>2. /\ PhaseOf(reply') = PhaseOf(reply) /\ SameBlocks(reply, reply')
          /\ reply'.pings = reply.pings + 1
      BY <1>3, <2>1
    <2>3. PhaseOf(reply) # "before"
      BY <1>3 DEF PhaseOf
    <2>4. /\ (IF reply'.ended THEN "done" ELSE IF reply'.reason # "none" THEN "ended"
              ELSE IF reply'.started THEN "body" ELSE "before") = PhaseOf(reply')
          /\ (IF Growing' THEN Front(Blocks') ELSE Blocks') = ClosedOf(reply')
          /\ (IF Growing' THEN <<[Last(Blocks') EXCEPT !.open = FALSE]>> ELSE <<>>) = OpenOf(reply')
      BY <1>1 DEF PhaseOf, ClosedOf, OpenOf, GrowingOf, BlocksOf, Growing, Blocks
    <2>. QED BY <2>2, <2>3, <2>4, ProtocolState DEF SameBlocks, Protocol!Next, Protocol!Ping
  <1>. QED BY <1>1, <1>2, <1>3

LEMMA ProtocolBegins == Init => Protocol!Init
  <1>. SUFFICES ASSUME Init PROVE Protocol!Init
    OBVIOUS
  <1>. DEFINE r == EmptyReply(dialect)
  <1>1. reply = r
    BY DEF Init
  <1>2. /\ ~reply.ended /\ reply.reason = "none" /\ reply.blocks = <<>> /\ reply.pings = 0
    BY <1>1 DEF EmptyReply
  <1>3. Blocks = <<>> /\ ~Growing
    BY <1>2 DEF Blocks, Growing
  <1>. QED BY <1>2, <1>3 DEF Protocol!Init

\* Whatever Kiro sends, in pieces of any length and number, and wherever the stream
\* breaks, the client sees a message grow by the rules of MessageProtocol
\* (block_index.go, emit.go and stream_ping.go of streaminganthropic; the chunks of
\* streamingopenai).
THEOREM ReplyIsAMessage == Spec => StreamsAMessage
  <1>1. Streams /\ [Next]_vars => [Protocol!Next]_(Protocol!vars)
    <2>. SUFFICES ASSUME Streams, [Next]_vars PROVE [Protocol!Next]_(Protocol!vars)
      OBVIOUS
    <2>1. CASE Write
      <3>1. PICK d : Follows(reply, Collect(reply, Head(formatter.out)), d)
        BY <2>1, WriteKeeps
      <3>2. reply' = Collect(reply, Head(formatter.out)) /\ dialect' = dialect
        BY <2>1 DEF Write
      <3>3. StepsTo(reply, reply') /\ reply'.pings = reply.pings
        BY <3>1, <3>2 DEF Follows
      <3>. QED BY <3>2, <3>3, StepOfProtocol
    <2>2. CASE Ping
      BY <2>2, PingOfProtocol
    <2>3. CASE UNCHANGED <<reply, dialect>>
      BY <2>3 DEF Protocol!vars, Growing, Blocks
    <2>4. ASSUME NEW item \in Items, Read(item) PROVE UNCHANGED <<reply, dialect>>
      BY <2>4 DEF Read
    <2>5. ReadEOF \/ ReadError \/ WriteError \/ Save \/ Return \/ Tick \/ PingerExit \/ UNCHANGED vars
            => UNCHANGED <<reply, dialect>>
      BY DEF ReadEOF, ReadError, WriteError, Save, Return, Tick, PingerExit, vars
    <2>. QED BY <2>1, <2>2, <2>3, <2>4, <2>5 DEF Next
  <1>. QED BY <1>1, ProtocolBegins, AlwaysStreams, PTL DEF Spec, StreamsAMessage, Protocol!Spec

-----------------------------------------------------------------------------
(* The text of a reply is not empty when one of its blocks holds text.     *)
AddText(text, block) == IF block.kind = "text" THEN text \o block.text ELSE text

TextFold == INSTANCE FoldTheorems WITH op <- AddText

\* t holds the text of the first blocks, for each number of them.
TextStages(t, r, n) ==
  /\ t[0] = <<>> /\ \A i \in 1 .. n : t[i] = AddText(t[i - 1], r.blocks[i])
  /\ TextOf(r, "text") = t[n]

LEMMA TextInStages ==
  ASSUME NEW r, NEW n \in Nat, DOMAIN r.blocks = 1 .. n
  PROVE  \E t : TextStages(t, r, n)
  <1>1. \E t : /\ TextFold!Stages(t, <<>>, r.blocks, n)
               /\ TextFold!FoldLeft(AddText, <<>>, r.blocks) = t[n]
    BY TextFold!StagesOfFold
  <1>2. TextFold!FoldLeft(AddText, <<>>, r.blocks) = TextOf(r, "text")
    BY DEF TextOf, AddText, FoldLeft, MapThenFoldSet, Max,
           TextFold!FoldLeft, TextFold!MapThenFoldSet, TextFold!Max
  <1>. QED BY <1>1, <1>2 DEF TextFold!Stages, TextStages

LEMMA SomeText ==
  ASSUME NEW r, HasBlocks(r), HasText(r)
  PROVE  TextOf(r, "text") # <<>>
  <1>. DEFINE n == Len(r.blocks)
  <1>1. n \in Nat /\ DOMAIN r.blocks = 1 .. n
    BY SeqFacts DEF HasBlocks
  <1>2. PICK at \in 1 .. n : IsText(r.blocks[at])
    BY DEF HasText
  <1>3. PICK t : TextStages(t, r, n)
    BY <1>1, TextInStages
  <1>. DEFINE Good(k) == k \in 0 .. n => IsSeq(t[k]) /\ (at <= k => t[k] # <<>>)
              S == {k \in Nat : Good(k)}
  <1>4. 0 \in S
    BY <1>3, ShortSeqs DEF TextStages
  <1>5. ASSUME NEW k \in Nat, k \in S PROVE k + 1 \in S
    <2>. SUFFICES ASSUME k + 1 \in 0 .. n
                  PROVE  IsSeq(t[k + 1]) /\ (at <= k + 1 => t[k + 1] # <<>>)
      BY <1>5
    <2>. DEFINE b == r.blocks[k + 1]
                was == t[k]
    <2>1. k \in 0 .. n /\ k + 1 \in 1 .. n /\ (k + 1) - 1 = k
      BY <1>1
    <2>2. IsSeq(was) /\ (at <= k => was # <<>>)
      BY <1>5, <2>1
    <2>3. IsSeq(b.text)
      BY <2>1 DEF HasBlocks, IsBlock
    <2>4. t[k + 1] = AddText(was, b)
      BY <1>3, <2>1 DEF TextStages
    <2>5. at = k + 1 => b.kind = "text" /\ b.text # <<>>
      BY <1>2 DEF IsText
    <2>. HIDE DEF b, was
    <2>6. CASE b.kind # "text"
      <3>1. t[k + 1] = was
        BY <2>4, <2>6 DEF AddText
      <3>. QED BY <1>1, <2>2, <2>5, <2>6, <3>1
    <2>7. CASE b.kind = "text"
      <3>1. t[k + 1] = was \o b.text
        BY <2>4, <2>7 DEF AddText
      <3>2. IsSeq(was \o b.text) /\ Len(was \o b.text) = Len(was) + Len(b.text)
        BY <2>2, <2>3, ConcatFacts
      <3>3. /\ Len(was) \in Nat /\ Len(b.text) \in Nat
            /\ was # <<>> => Len(was) # 0
            /\ b.text # <<>> => Len(b.text) # 0
        BY <2>2, <2>3, SeqFacts
      <3>4. at <= k + 1 => at <= k \/ at = k + 1
        BY <1>1
      <3>5. at <= k + 1 => Len(was \o b.text) # 0
        BY <2>2, <2>5, <3>2, <3>3, <3>4
      <3>6. at <= k + 1 => was \o b.text # <<>>
        BY <3>2, <3>5, SeqFacts
      <3>. QED BY <3>1, <3>2, <3>6
    <2>. QED BY <2>6, <2>7
  <1>6. n \in S
    <2>. HIDE DEF S
    <2>. QED BY <1>1, <1>4, <1>5, Induction
  <1>7. at <= n /\ n \in 0 .. n
    BY <1>1
  <1>. QED BY <1>3, <1>6, <1>7 DEF TextStages

\* The calls of a reply are those of its blocks.
LEMMA CallsAreThere ==
  ASSUME NEW r, HasBlocks(r)
  PROVE  CallsOf(r) # {} <=> HasCall(r)
  <1>1. DOMAIN r.blocks = 1 .. Len(r.blocks)
    BY SeqFacts DEF HasBlocks
  <1>. QED BY <1>1 DEF CallsOf, HasCall

\* However the stream is cut and whatever it holds, the reason at the end of a message
\* agrees with the calls and the text the client was given (finish.go of both dialects).
THEOREM ReasonFitsTheReply == Spec => []ReasonMatchesReply
  <1>1. Streams => ReasonMatchesReply
    <2>. SUFFICES ASSUME Streams, Complete PROVE ReasonMatchesReply
      BY DEF ReasonMatchesReply
    <2>1. PICK c : At(c)
      BY DEF Streams
    <2>2. Stands(reply, c) /\ AtEnd(c, formatter)
      BY <2>1 DEF At, Complete
    <2>3. /\ c.phase = "done" /\ c.phase = PhaseOf(reply) /\ c.reason = reply.reason
          /\ "call" \in c.holds <=> HasCall(reply)
          /\ "text" \in c.holds => HasText(reply)
      BY <2>2 DEF Stands, AtEnd
    <2>4. reply.ended
      BY <2>3 DEF PhaseOf
    <2>5. HasBlocks(reply)
      BY DEF Streams, IsReply
    <2>6. WasReceived("refusal") <=> reply.reason \in {"refusal", "content_filter"}
      BY <2>2, <2>3 DEF AtEnd, Streams
    <2>7. ~WasReceived("refusal") =>
            (CallsOf(reply) # {} <=> reply.reason \in {"tool_use", "tool_calls"})
      BY <2>2, <2>3, <2>5, CallsAreThere DEF AtEnd, Streams
    <2>8. CutShort => ~WasReceived("context_usage") /\ TextOf(reply, "text") # <<>>
      BY <2>2, <2>3, <2>5, SomeText DEF AtEnd, Streams, CutShort
    <2>. QED BY <2>4, <2>6, <2>7, <2>8 DEF ReasonMatchesReply
  <1>. QED BY <1>1, AlwaysStreams, PTL

-----------------------------------------------------------------------------
(* The types of the variables.                                             *)

\* A ping that is under way has been counted as a tick.
Pinging == IF pinger = "pinging" THEN 1 ELSE 0

Counters ==
  /\ phase \in {"streaming", "finishing", "stopping", "returned"}
  /\ err \in {"none", "read", "write"}
  /\ pinger \in {"waiting", "pinging", "gone"}
  /\ ticks \in 0 .. MaxTicks /\ received.count \in 0 .. MaxItems
  /\ reply.pings \in Nat /\ reply.pings + Pinging <= ticks

LEMMA CountersInit == Init => Counters
  <1>. SUFFICES ASSUME Init PROVE Counters
    OBVIOUS
  <1>1. reply.pings = 0 /\ received.count = 0 /\ ticks = 0
    BY DEF Init, EmptyReply
  <1>2. pinger \in {"waiting", "gone"} /\ phase = "streaming" /\ err = "none"
    BY DEF Init
  <1>. QED BY <1>1, <1>2, StreamAssumption DEF Counters, Pinging

\* A step that neither ticks nor pings.
LEMMA CountersStay ==
  ASSUME Counters, reply'.pings = reply.pings, UNCHANGED <<pinger, ticks>>,
         phase' \in {"streaming", "finishing", "stopping", "returned"},
         err' \in {"none", "read", "write"}, received'.count \in 0 .. MaxItems
  PROVE  Counters'
  BY DEF Counters, Pinging

LEMMA CountersNext == Streams /\ Counters /\ [Next]_vars => Counters'
  <1>. SUFFICES ASSUME Streams, Counters, [Next]_vars PROVE Counters'
    OBVIOUS
  <1>1. ASSUME NEW item \in Items, Read(item) PROVE Counters'
    <2>1. /\ received.count < MaxItems /\ received'.count = received.count + 1
          /\ UNCHANGED <<phase, err, pinger, ticks, reply>>
      BY <1>1 DEF Read
    <2>2. received'.count \in 0 .. MaxItems
      BY <2>1, StreamAssumption DEF Counters
    <2>. QED BY <2>1, <2>2, CountersStay DEF Counters
  <1>2. CASE Write
    <2>1. PICK d : Follows(reply, Collect(reply, Head(formatter.out)), d)
      BY <1>2, WriteKeeps
    <2>2. reply' = Collect(reply, Head(formatter.out)) /\ UNCHANGED <<phase, err, pinger, ticks, received>>
      BY <1>2 DEF Write
    <2>3. reply'.pings = reply.pings
      BY <2>1, <2>2 DEF Follows
    <2>. QED BY <2>2, <2>3, CountersStay DEF Counters
  <1>3. CASE ReadEOF \/ ReadError \/ WriteError \/ Save \/ Return
    <2>1. /\ UNCHANGED <<pinger, ticks, reply, received>>
          /\ phase' \in {"finishing", "stopping", "returned"} /\ err' \in {err, "read", "write"}
      BY <1>3 DEF ReadEOF, ReadError, WriteError, Save, Return
    <2>. QED BY <2>1, CountersStay DEF Counters
  <1>4. CASE Tick
    BY <1>4, StreamAssumption DEF Tick, Counters, Pinging
  <1>5. CASE Ping
    <2>1. reply = [x \in ReplyFields |-> reply[x]]
      BY DEF Streams, IsReply, HasBlocks
    <2>2. reply'.pings \in {reply.pings, reply.pings + 1}
      BY <1>5, <2>1 DEF Ping, ReplyFields
    <2>3. /\ pinger = "pinging" /\ pinger' = "waiting"
          /\ UNCHANGED <<phase, err, ticks, received>>
      BY <1>5 DEF Ping
    <2>. QED BY <2>2, <2>3, StreamAssumption DEF Counters, Pinging
  <1>6. CASE PingerExit
    <2>1. /\ pinger = "waiting" /\ pinger' = "gone"
          /\ UNCHANGED <<phase, err, ticks, received, reply>>
      BY <1>6 DEF PingerExit
    <2>. QED BY <2>1 DEF Counters, Pinging
  <1>7. CASE UNCHANGED vars
    <2>1. UNCHANGED <<phase, err, pinger, ticks, received, reply>>
      BY <1>7 DEF vars
    <2>. QED BY <2>1 DEF Counters, Pinging
  <1>. QED BY <1>1, <1>2, <1>3, <1>4, <1>5, <1>6, <1>7 DEF Next

\* The types of the variables; among them, no more pings than ticks (stream_ping.go).
THEOREM TypesOfStreams == Spec => []TypeOK
  <1>1. Streams /\ Counters => TypeOK
    <2>. SUFFICES ASSUME Streams, Counters PROVE TypeOK
      OBVIOUS
    <2>1. reply.pings \in 0 .. ticks
      BY StreamAssumption DEF Counters, Pinging
    <2>2. DOMAIN reply.blocks = 1 .. Len(reply.blocks)
      BY SeqFacts DEF Streams, IsReply, HasBlocks
    <2>3. reply.started \in BOOLEAN /\ reply.ended \in BOOLEAN
      BY DEF Streams, Flags
    <2>. QED BY <2>1, <2>2, <2>3 DEF TypeOK, Streams, Counters
  <1>. QED BY <1>1, CountersInit, CountersNext, AlwaysStreams, PTL DEF Spec
=============================================================================
