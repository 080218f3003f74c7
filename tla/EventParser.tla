---------------------------- MODULE EventParser ----------------------------
(***************************************************************************)
(* The event parser of internal/parsers: from the JSON objects found in    *)
(* the stream of Kiro to content, metadata and assembled tool calls.       *)
(* Finding the objects in the bytes is left out: an item of the stream is  *)
(* one complete object.                                                    *)
(***************************************************************************)
EXTENDS Integers, Sequences, SequencesExt

\* The arguments of a tool call arrive in fragments of JSON text: a whole
\* object, "short" or "long", or the halves of the long one, "open" and "close".
ArgumentValues == <<"{}", "short", "long">>   \* by increasing length

NewParser == [lastContent |-> <<>>, currentToolCall |-> <<>>, toolCalls |-> <<>>]

-----------------------------------------------------------------------------
\* json.Unmarshal and json.dumps of the accumulated text
Dumps(arguments) ==
  CASE arguments = <<>>                                  -> "{}"
    [] arguments = <<"short">>                           -> "short"
    [] arguments \in {<<"long">>, <<"open", "close">>}   -> "long"
    [] OTHER                                             -> "invalid"

HowMany(arguments, f) == Len(SelectSeq(arguments, LAMBDA x : x = f))

\* Text that is no JSON was cut short when it begins an object and does not end
\* one, or when its braces do not balance.
DiagnoseTruncation(arguments) ==
  \/ Head(arguments) # "close" /\ Last(arguments) = "open"
  \/ HowMany(arguments, "open") # HowMany(arguments, "close")

FinishedCall(acc) ==
  LET value == Dumps(acc.arguments)
  IN  [id |-> acc.id, name |-> acc.name,
       arguments |-> IF value = "invalid" THEN "{}" ELSE value, spelling |-> "spaced",
       truncated |-> value = "invalid" /\ DiagnoseTruncation(acc.arguments)]

\* currentToolCall holds one call at most, the one under construction.
FinalizeToolCall(p) ==
  IF p.currentToolCall = <<>> THEN p
  ELSE [p EXCEPT !.currentToolCall = <<>>,
                 !.toolCalls = Append(@, FinishedCall(p.currentToolCall[1]))]

\* Fault: the call under construction is dropped when another one starts.
ProcessToolStartDrops(p, item) ==
  LET q == [p EXCEPT !.currentToolCall = <<[id |-> item.id, name |-> item.name,
                                            arguments |-> item.input]>>]
  IN  IF item.stop THEN FinalizeToolCall(q) ELSE q

ProcessToolStart(p, item) ==
  LET q == [FinalizeToolCall(p) EXCEPT
              !.currentToolCall = <<[id |-> item.id, name |-> item.name,
                                     arguments |-> item.input]>>]
  IN  IF item.stop THEN FinalizeToolCall(q) ELSE q

ProcessToolInput(p, item) ==
  IF p.currentToolCall = <<>> THEN p
  ELSE [p EXCEPT !.currentToolCall[1].arguments = @ \o item.input]

ProcessToolStop(p) == FinalizeToolCall(p)

-----------------------------------------------------------------------------
\* Every call has an id: Kiro sends one, and the parser makes one up without it.
\* LongerArguments orders the texts of the arguments by their length.
LongerArguments(a, b) ==
  \E i, j \in DOMAIN ArgumentValues :
    ArgumentValues[i] = a /\ ArgumentValues[j] = b /\ i > j

KeepLongest(kept, call) ==
  LET same == {i \in DOMAIN kept : kept[i].id = call.id}
      i    == CHOOSE j \in same : TRUE
  IN  IF same = {} THEN Append(kept, call)
      ELSE IF LongerArguments(call.arguments, kept[i].arguments)
           THEN [kept EXCEPT ![i] = call] ELSE kept

\* Of the calls with one id the one with the longest arguments, in the first place.
ByID(toolCalls) == FoldLeft(KeepLongest, <<>>, toolCalls)

\* Arguments are compared as text: the same object may be spelled with spaces
\* (json.dumps) or without (json.Marshal).
SameText(a, b) ==
  /\ a.name = b.name /\ a.arguments = b.arguments
  /\ a.arguments # "{}" => a.spelling = b.spelling

KeepFirst(kept, call) ==
  IF \E i \in DOMAIN kept : SameText(kept[i], call) THEN kept ELSE Append(kept, call)

\* Of the calls with one name and one text of arguments the first.
ByText(toolCalls) == FoldLeft(KeepFirst, <<>>, toolCalls)

DeduplicateToolCalls(toolCalls) == ByText(ByID(toolCalls))

ParserFinish(p) == DeduplicateToolCalls(FinalizeToolCall(p).toolCalls)

\* [Called f with args: ...] in the text: the character B stands for one such
\* call, with the short arguments.  The parser makes up its id, here a negative
\* number; those of Kiro are positive.
ParseBracketToolCalls(text) ==
  [i \in 1 .. Cardinality({k \in DOMAIN text : text[k] = "B"}) |->
     [id |-> -i, name |-> "f", arguments |-> "short", spelling |-> "spaced",
      truncated |-> FALSE]]
=============================================================================
