---------------------------- MODULE TruncationState ----------------------------
(***************************************************************************)
(* What the gateway remembers of truncated replies (truncationstate), and  *)
(* the notices it puts into a later request of the conversation            *)
(* (truncationinject.go of both handlers).  One cache serves all requests; *)
(* each lookup is a critical section of its own and removes what it finds. *)
(***************************************************************************)
EXTENDS OpenAIConverter

VARIABLES
  toolCache,      \* ids of truncated calls
  contentCache    \* keys of truncated texts

\* The key of a text is the hash of its first 500 bytes: its first piece.
ContentKey(text) == Head(text)

GetTool(id)       == toolCache' = toolCache \ {id} /\ UNCHANGED contentCache
GetContent(key)   == contentCache' = contentCache \ {key} /\ UNCHANGED toolCache
SetTool(id)       == toolCache' = toolCache \cup {id} /\ UNCHANGED contentCache
SetContent(text)  == contentCache' = contentCache \cup {ContentKey(text)} /\ UNCHANGED toolCache

-----------------------------------------------------------------------------
\* The lookups of a request, in the order of its messages; "at" is the message
\* and, for the result of a call, the block.
ToolLookups(msg, i) ==
  LET blocks == [j \in DOMAIN msg.content |->
                   [cache |-> "tool", at |-> <<i, j>>, block |-> msg.content[j]]]
  IN  SelectSeq(blocks, LAMBDA l : l.block.type = "tool_result" /\ l.block.id # "")

ContentLookup(text, i) ==
  IF text = <<>> THEN <<>> ELSE <<[cache |-> "content", at |-> <<i, 0>>, text |-> text]>>

AnthropicLookups(msg, i) ==
  CASE msg.role = "user"      -> ToolLookups(msg, i)
    [] msg.role = "assistant" -> ContentLookup(ExtractTextContent(msg.content), i)
    [] OTHER                  -> <<>>

\* Here a result is a message of its own, and a text counts only as a string.
OpenAILookups(msg, i) ==
  CASE msg.role = "tool" /\ msg.id # "" ->
         <<[cache |-> "tool", at |-> <<i, 0>>, block |-> msg]>>
    [] msg.role = "assistant" /\ msg.string ->
         ContentLookup(ExtractTextContent(msg.content), i)
    [] OTHER -> <<>>

Lookups(req) ==
  FlattenSeq([i \in DOMAIN req.messages |->
    IF req.dialect = "anthropic" THEN AnthropicLookups(req.messages[i], i)
    ELSE OpenAILookups(req.messages[i], i)])

\* A record as a notice names it.
RecordOf(lookup) ==
  IF lookup.cache = "tool" THEN lookup.block.id ELSE ContentKey(lookup.text)[2]

Recorded(lookup) ==
  IF lookup.cache = "tool" THEN lookup.block.id \in toolCache
  ELSE ContentKey(lookup.text) \in contentCache

\* Fault: what is found stays recorded.
TakeNothing(lookup) == UNCHANGED <<toolCache, contentCache>>

Take(lookup) ==
  IF lookup.cache = "tool" THEN GetTool(lookup.block.id)
  ELSE GetContent(ContentKey(lookup.text))

-----------------------------------------------------------------------------
\* The request with the notices for the lookups that found a record.
Notice(record) == << <<"notice", record>> >>

\* A result is preceded by the notice; it is a string now, without images.
WithNotice(block) ==
  [block EXCEPT !.content = <<TextBlock(Notice(block.id) \o ExtractTextContent(@))>>]

injectToolResultRecovery(dialect, msg, i, found) ==
  CASE dialect = "anthropic" ->
         [msg EXCEPT !.content = [j \in DOMAIN @ |->
            IF <<i, j>> \in found THEN WithNotice(@[j]) ELSE @[j]]]
    [] OTHER -> IF msg.role = "tool" /\ <<i, 0>> \in found THEN WithNotice(msg) ELSE msg

\* A truncated text is followed by a message of the user.
injectContentRecovery(msg, i, found) ==
  IF msg.role = "assistant" /\ <<i, 0>> \in found
  THEN <<[msg EXCEPT !.role = "user",
            !.content = <<TextBlock(Notice(ContentKey(ExtractTextContent(msg.content))[2]))>>,
            !.calls = <<>>]>>
  ELSE <<>>

injectTruncationRecovery(req, found) ==
  [req EXCEPT !.messages = FlattenSeq([i \in DOMAIN @ |->
     <<injectToolResultRecovery(req.dialect, @[i], i, found)>>
       \o injectContentRecovery(@[i], i, found)])]
=============================================================================
