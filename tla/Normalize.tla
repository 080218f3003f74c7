------------------------------- MODULE Normalize -------------------------------
(***************************************************************************)
(* The chain that brings a conversation into the shape Kiro accepts        *)
(* (internal/converterscore/normalize.go, and StripAllToolContent of       *)
(* thinking.go).                                                           *)
(***************************************************************************)
EXTENDS Content

HasToolContent(msg) == msg.calls # <<>> \/ msg.results # <<>>

OrPlaceholder(text) == IF text = <<>> THEN Placeholder ELSE text

\* A message with its calls and results written out; the images stay, the
\* native reasoning goes.
Stripped(msg) ==
  [Message(msg.role,
           OrPlaceholder(msg.text \o ToolCallsToText(msg.calls)
                                  \o ToolResultsToText(msg.results)))
     EXCEPT !.images = msg.images]

StripAllToolContent(msgs) ==
  [i \in DOMAIN msgs |-> IF HasToolContent(msgs[i]) THEN Stripped(msgs[i]) ELSE msgs[i]]

\* Fault: any assistant message will do, with calls or without.
FollowsAssistant(msgs, i) == i > 1 /\ msgs[i-1].role = "assistant"

\* Results with no message of calls right before them are appended to the text
\* of their message.  What precedes a message is not changed in what matters
\* here, so its predecessor in the result and in the argument are alike.
FollowsCalls(msgs, i) ==
  i > 1 /\ msgs[i-1].role = "assistant" /\ msgs[i-1].calls # <<>>

WithResultsAsText(msg) ==
  [msg EXCEPT !.text = @ \o ToolResultsToText(msg.results),
              !.results = <<>>, !.reasoning = NoReasoning]

EnsureAssistantBeforeToolResults(msgs) ==
  [i \in DOMAIN msgs |->
     IF msgs[i].results # <<>> /\ ~FollowsCalls(msgs, i)
     THEN WithResultsAsText(msgs[i])
     ELSE msgs[i]]

-----------------------------------------------------------------------------
\* Fault: the calls of the second replace those of the first.
MergedOver(last, msg) ==
  [last EXCEPT
     !.text      = @ \o Newline \o msg.text,
     !.calls     = IF msg.calls # <<>> THEN msg.calls ELSE @,
     !.results   = @ \o msg.results,
     !.reasoning = IF @ = NoReasoning THEN msg.reasoning ELSE @]

\* Two neighbours of one role become one.  The images of the second are lost,
\* and so is its reasoning when the first has some.
MergedWith(last, msg) ==
  [last EXCEPT
     !.text      = @ \o Newline \o msg.text,
     !.calls     = IF msg.role = "assistant" THEN @ \o msg.calls ELSE @,
     !.results   = IF msg.role = "user" THEN @ \o msg.results ELSE @,
     !.reasoning = IF msg.role = "assistant" /\ @ = NoReasoning
                   THEN msg.reasoning ELSE @]

Merge(out, msg) ==
  IF out # <<>> /\ Last(out).role = msg.role
  THEN Append(Front(out), MergedWith(Last(out), msg))
  ELSE Append(out, msg)

MergeAdjacentMessages(msgs) == FoldLeft(Merge, <<>>, msgs)

EnsureFirstMessageIsUser(msgs) ==
  IF msgs # <<>> /\ Head(msgs).role # "user"
  THEN <<Message("user", Placeholder)>> \o msgs
  ELSE msgs

\* A role that is not the assistant's is the user's; its reasoning goes.
NormalizeMessageRoles(msgs) ==
  [i \in DOMAIN msgs |->
     IF msgs[i].role \in {"user", "assistant"} THEN msgs[i]
     ELSE [msgs[i] EXCEPT !.role = "user", !.reasoning = NoReasoning]]

Alternate(out, msg) ==
  IF out # <<>> /\ msg.role = "user" /\ Last(out).role = "user"
  THEN out \o <<Message("assistant", Placeholder), msg>>
  ELSE Append(out, msg)

EnsureAlternatingRoles(msgs) == FoldLeft(Alternate, <<>>, msgs)

\* Fault: neighbours are brought together before the roles are known.
NormalizedUnmerged(msgs) ==
  EnsureAlternatingRoles(EnsureFirstMessageIsUser(NormalizeMessageRoles(msgs)))

Normalized(msgs) ==
  EnsureAlternatingRoles(NormalizeMessageRoles(EnsureFirstMessageIsUser(
    MergeAdjacentMessages(msgs))))
=============================================================================
