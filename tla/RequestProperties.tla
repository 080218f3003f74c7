--------------------------- MODULE RequestProperties ---------------------------
(***************************************************************************)
(* What must hold of the bodies sent to Kiro, of the truncation notices in *)
(* them, and of the debug log.                                             *)
(***************************************************************************)
EXTENDS GatewayRequests

Places == {"idle", "prepare", "directory", "logBody", "authorize", "inject",
           "search", "searching", "attempt", "sent", "stream", "write", "flush", "save",
           "discard", "done"}

Ways == {"none", "refused", "searched", "panic", "exhausted", "failed", "answered"}

\* A type for what the requests share and for where they are.
TypeOK ==
  /\ LogTypeOK
  /\ \A r \in Requests :
       /\ request[r].pc \in Places /\ request[r].end \in Ways
       /\ request[r].end = "none" <=> request[r].pc # "done"
       /\ request[r].found \subseteq 1 .. request[r].looked
       /\ request[r].attempt \in Nat /\ request[r].attempt > 0 => request[r].attempt <= body[r].accounts
       /\ request[r].chunks \in 0 .. MaxChunks
       /\ Flushing(r) => request[r].pc = "flush"
  /\ DOMAIN body \subseteq Requests
  /\ met \in [Requests -> SUBSET Requests]

-----------------------------------------------------------------------------
\* The requests whose body is on its way to Kiro, and what is in that body.
Sent == {r \in Requests : At(r, "sent")}

Kiro(r) == request[r].kiro

Untrimmed == limit = NoLimit

ResultTexts(results) == FlattenSeq([i \in DOMAIN results |-> results[i].text])

Transcript(kiro) ==
  FlattenSeq([i \in DOMAIN kiro.history |->
                kiro.history[i].content \o ResultTexts(kiro.history[i].results)])
    \o kiro.content \o ResultTexts(kiro.results)

OfKinds(pieces, kinds) == SelectSeq(pieces, LAMBDA p : p[1] \in kinds)

Occurrences(pieces, piece) == Cardinality({i \in DOMAIN pieces : pieces[i] = piece})

\* What the client sends: the pieces of its texts, and its calls.
BlockPieces(block) ==
  CASE block.type = "text"        -> block.text
    [] block.type = "tool_result" ->
         FlattenSeq([k \in DOMAIN block.content |-> IF block.content[k].type = "text"
                                                    THEN block.content[k].text ELSE <<>>])
    [] OTHER                      -> <<>>

MessagePieces(msg) == FlattenSeq([j \in DOMAIN msg.content |-> BlockPieces(msg.content[j])])

ClientPieces(msgs) == FlattenSeq([i \in DOMAIN msgs |-> MessagePieces(msgs[i])])

CallIDs(msg) ==
  {msg.calls[k].id : k \in DOMAIN msg.calls}
    \cup {b.id : b \in {c \in Range(msg.content) : c.type = "tool_use"}}

ResultIDs(msg) ==
  (IF msg.role = "tool" THEN {msg.id} ELSE {})
    \cup {b.id : b \in {c \in Range(msg.content) : c.type = "tool_result"}}

\* The conversation ends with this message of the assistant.
Trailing(msgs, i) == \A j \in i .. Len(msgs) : msgs[j].role \in {"assistant", "system"}

\* A client that answers the calls of a message right after it, and no others.
PairsItsCalls(msgs) ==
  \A i \in DOMAIN msgs : \A id \in ResultIDs(msgs[i]) :
    \E j \in 1 .. i - 1 : /\ id \in CallIDs(msgs[j])
                          /\ \A k \in j + 1 .. i - 1 : msgs[k].role = "tool"

UseIDs(entry) == {u.id : u \in Range(entry.uses)}

AnswerIDs(results) == {x.id : x \in Range(results)}

-----------------------------------------------------------------------------
\* Whatever the roles of the client's messages, the history starts with the
\* user and alternates, and the assistant speaks last before the current
\* message (MergeAdjacentMessages to EnsureAlternatingRoles, and the cuts).
RolesAlternate ==
  \A r \in Sent :
    LET history == Kiro(r).history
    IN  /\ \A i \in DOMAIN history :
             history[i].by = IF i % 2 = 1 THEN "user" ELSE "assistant"
        /\ Len(history) % 2 = 0

\* No text of the client is lost, repeated or moved, and no output of a tool is
\* lost or repeated, by turning calls and results into text, merging messages
\* and moving the last one to the history; every call is kept, as a call or as
\* text, but those at the end of the conversation may go.
NothingLost ==
  \A r \in Sent : Untrimmed =>
    LET sent == Transcript(Kiro(r))
        msgs == body[r].messages
        Calls(id) == Occurrences(sent, <<"call", id>>)
                       + Cardinality({i \in DOMAIN Kiro(r).history :
                                        id \in UseIDs(Kiro(r).history[i])})
    IN  /\ OfKinds(sent, {"text"}) = OfKinds(ClientPieces(msgs), {"text"})
        /\ \A p \in Range(OfKinds(ClientPieces(msgs), {"output"})) : Occurrences(sent, p) = 1
        /\ \A i \in DOMAIN msgs : \A id \in CallIDs(msgs[i]) :
             Calls(id) = 1 \/ (Trailing(msgs, i) /\ Calls(id) = 0)

\* Kiro refuses results without tools, and results that answer nothing: they are
\* there only right after a message with calls, and answer those calls if the
\* client pairs them; in a history that may be trimmed, they always do.
Answers(results, before) ==
  results # <<>> => before # <<>> /\ before[1].uses # <<>>

ResultsFollowCalls ==
  \A r \in Sent :
    LET kiro   == Kiro(r)
        all    == Append(kiro.history, UserEntry(kiro.content, kiro.images, kiro.results))
        Before(i) == IF i = 1 THEN <<>> ELSE <<all[i-1]>>
    IN  /\ kiro.tools = <<>> => \A i \in DOMAIN all : all[i].uses = <<>> /\ all[i].results = <<>>
        /\ \A i \in DOMAIN all : Answers(all[i].results, Before(i))
        /\ \A i \in DOMAIN all :
             \/ PairsItsCalls(body[r].messages)
             \/ ~Untrimmed /\ i < Len(all)
             => AnswerIDs(all[i].results) \subseteq
                  (IF i = 1 THEN {} ELSE UseIDs(all[i-1]))

\* The system prompt of the client, the documentation moved out of the tools and
\* the notes for the model come once, before any text of the conversation, though
\* the first message may be merged, invented or moved after they were put
\* together.  (A trimmed history loses them with its first pair.)
SystemPromptFirst ==
  \A r \in Sent : Untrimmed =>
    LET kiro   == Kiro(r)
        sent   == OfKinds(Transcript(kiro), {"system", "documentation", "note"})
        before == OfKinds(Transcript(kiro), {"system", "documentation", "note", "text",
                                             "output", "placeholder", "notice"})
        long   == {i \in DOMAIN UnifiedTools(Prepared(r)) :
                     TooLong(UnifiedTools(Prepared(r))[i])}
    IN  /\ SubSeq(before, 1, Len(sent)) = sent
        /\ OfKinds(sent, {"system"}) = body[r].system
                                         \o OfKinds(ClientPieces(body[r].messages), {"system"})
        /\ Len(OfKinds(sent, {"documentation"})) = Cardinality(long)

\* Trimming keeps the end of the history, by pairs, and no less of it than the
\* limit asks for: with one pair more the body would be too big.  It stops above
\* the limit only when one pair is left.
TrimsNoMoreThanNeeded ==
  \A r \in Sent : ~Untrimmed =>
    LET whole == ToKiro(Prepared(r), NoLimit)
        kept  == Kiro(r).history
        cut   == Len(whole.history) - Len(kept)
        With(n) == [whole EXCEPT !.history = SubSeq(@, n + 1, Len(@))]
    IN  /\ cut % 2 = 0
        /\ \A i \in DOMAIN kept : kept[i].content = whole.history[cut + i].content
                                  /\ kept[i].uses = whole.history[cut + i].uses
        /\ Kiro(r).content = whole.content /\ Kiro(r).results = whole.results
        /\ cut > 0 => checkPayloadSize(With(cut - 2)) > limit
        /\ checkPayloadSize(With(cut)) > limit => Len(kept) <= 2

\* What payloadtrim.go:72-74 says of the repair: a result that has lost its call
\* is taken out, but its text is kept in the content of its entry.
OrphanTextKept ==
  \A r \in Sent : ~Untrimmed =>
    LET whole == ToKiro(Prepared(r), NoLimit).history
        kept  == Kiro(r).history
        cut   == Len(whole) - Len(kept)
    IN  \A i \in DOMAIN kept :
          Range(ResultTexts(whole[cut + i].results))
            \subseteq Range(kept[i].content \o ResultTexts(kept[i].results))

\* Kiro gets its reasoning back for the turn in progress, and for that only: of
\* a message after which the user has said something new nothing is sent, and
\* of the others with calls to be answered, the reasoning Kiro signed is.
ReasoningOfThisTurn ==
  \A r \in Sent :
    LET msgs == Prepared(r).messages
        sent == {e.reasoning : e \in Range(Kiro(r).history)} \ {NoReasoning}
        Signed(i) == {b.of : b \in {c \in Range(msgs[i].content) :
                                      c.type = "thinking" /\ c.signature = "kiro"}}
        Over(i) == \E j \in i + 1 .. Len(msgs) :
                     msgs[j].role = "user" /\ ResultIDs(msgs[j]) = {}
        IsAnswered(i) == /\ i > 1 /\ msgs[i-1].role # "assistant"
                        /\ i < Len(msgs) /\ ResultIDs(msgs[i+1]) # {}
    IN  /\ sent \subseteq UNION {Signed(i) : i \in {j \in DOMAIN msgs : ~Over(j)}}
        /\ body[r].model \in NativeModels /\ body[r].tools # <<>> /\ Untrimmed =>
             \A i \in DOMAIN msgs :
               ~Over(i) /\ IsAnswered(i) /\ CallIDs(msgs[i]) # {} => Signed(i) \subseteq sent

-----------------------------------------------------------------------------
\* The record a request has taken out of the cache is in the body it sends, as a
\* notice, once, on every attempt; a record it has not taken is not.
NoticesReachKiro ==
  \A r \in Sent : Untrimmed =>
    \A n \in DOMAIN Lookups(body[r]) :
      LET notice == <<"notice", RecordOf(Lookups(body[r])[n])>>
          taken  == {m \in request[r].found :
                       RecordOf(Lookups(body[r])[m]) = RecordOf(Lookups(body[r])[n])}
      IN  Occurrences(Transcript(Kiro(r)), notice) = Cardinality(taken)

\* However the requests of a conversation interleave, a truncated call is told of
\* no more often than it was recorded, by them or before them: a lookup and its
\* removal are one critical section.
Takings(id) ==
  UNION {{r} \X {n \in request[r].found :
                   LET l == Lookups(body[r])[n] IN l.cache = "tool" /\ l.block.id = id}
           : r \in Requests}

Recordings(id) ==
  UNION {{r} \X {k \in 1 .. request[r].saved : request[r].reply.tools[k] = id} : r \in Requests}

OneNoticePerRecord ==
  \A id \in start.tools \cup UNION {Range(request[r].reply.tools) : r \in Requests} :
    Cardinality(Takings(id))
      <= Cardinality(Recordings(id)) + (IF id \in start.tools THEN 1 ELSE 0)

-----------------------------------------------------------------------------
\* The files of an error hold nothing of requests that were over before the one
\* that failed began: one logger serves all, but each newcomer clears it.
Owners(file) == {files[file].pieces[i][1] : i \in DOMAIN files[file].pieces}

DumpsOnlyContemporaries ==
  mode = "errors" =>
    \A file \in Logs : files[file].by # Nobody =>
      Owners(file) \subseteq {files[file].by} \cup met[files[file].by]

\* The dump of a request that was alone from its beginning to its end is complete:
\* its body, the body of its last attempt, every chunk read and written.  It stays
\* so until another request fails.
Chunks(r, n) == [i \in 1 .. n |-> <<r, i>>]

LoneDumpComplete ==
  \A r \in Requests :
    /\ mode = "errors" /\ request[r].end = "failed" /\ met[r] = {}
    /\ \A q \in Requests \ {r} : request[q].end # "failed" /\ ~At(q, "flush")
    => /\ files["request"].pieces = <<<<r, 0>>>>
       /\ files["kiro"].pieces = <<<<r, request[r].attempt>>>>
       /\ files["error"].by = r
       /\ files["modified"].pieces = Chunks(r, request[r].chunks)
       /\ \E n \in {request[r].chunks, request[r].chunks + 1} :
            files["raw"].pieces = Chunks(r, n)
=============================================================================
