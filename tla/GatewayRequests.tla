---------------------------- MODULE GatewayRequests ----------------------------
(***************************************************************************)
(* The requests of the two chat endpoints, from the middleware to the end  *)
(* of the reply: what each does to the truncation records and to the debug *)
(* log that all of them share, and the body it sends to Kiro               *)
(* (internal/server, debugmiddleware, routesanthropic, routesopenai).      *)
(*                                                                         *)
(* Which accounts are tried is the business of Failover; here an attempt   *)
(* just fails, is refused for good, or is answered.                        *)
(***************************************************************************)
EXTENDS TruncationState, DebugLogger, FiniteSets

CONSTANTS
  Scenarios,     \* what may come in: see Init
  WebSearchTool, \* what injectWebSearchTool adds, as a sequence; <<>> when off
  MaxChunks

\* What the handlers have decoded before they do anything else.
BodyFields ==
  {"dialect", "messages", "tools", "system", "model", "thinking", "budget", "display",
   "effort", "maxTokens", "replies", "accounts"}

IsBody(b) ==
  /\ b = [f \in BodyFields |-> b[f]]
  /\ b.messages \in Seq(Range(b.messages)) /\ b.accounts \in Nat

ASSUME RequestsAssumption == Nobody \notin Requests /\ MaxChunks \in Nat

ASSUME ScenariosAssumption ==
  \A s \in Scenarios :
    /\ s.mode \in {"off", "errors", "all"}
    /\ DOMAIN s.body \subseteq Requests /\ \A r \in DOMAIN s.body : IsBody(s.body[r])

VARIABLES
  body,      \* what each client sends, and how many accounts may be tried for it
  limit,     \* KiroMaxPayloadBytes, or NoLimit
  start,     \* the truncation records there are when the first request comes
  request,   \* where each request is
  met        \* for the properties: the requests in flight together with it

vars == <<toolCache, contentCache, mode, buffers, files, flush,
          body, limit, start, request, met>>

world == <<body, limit, start, met>>

Nothing == [history |-> <<>>, content |-> <<>>]      \* no body sent yet

Waiting ==
  [pc |-> "idle", looked |-> 0, found |-> {}, attempt |-> 0, chunks |-> 0,
   saved |-> 0, reply |-> [tools |-> <<>>, text |-> <<>>], kiro |-> Nothing,
   end |-> "none"]

\* A scenario is a body for each request that comes, the debug mode, the limit
\* and the records of earlier replies.
Init ==
  \E s \in Scenarios :
    /\ body = s.body /\ mode = s.mode /\ limit = s.limit
    /\ toolCache = s.tools /\ contentCache = s.contents
    /\ start = [tools |-> s.tools, contents |-> s.contents]
    /\ LogInit
    /\ request = [r \in Requests |-> Waiting]
    /\ met = [r \in Requests |-> {}]

At(r, pc) == request[r].pc = pc

Goto(r, pc) == request' = [request EXCEPT ![r].pc = pc]

Ends(r, how) == request' = [request EXCEPT ![r].pc = "done", ![r].end = how]

InFlight == {r \in Requests : request[r].pc \notin {"idle", "done"}}

caches == <<toolCache, contentCache>>

-----------------------------------------------------------------------------
\* debugmiddleware, outside of the check of the API key.
Arrive(r) ==
  /\ At(r, "idle") /\ r \in DOMAIN body
  /\ Goto(r, IF mode = "off" THEN "authorize" ELSE "prepare")
  /\ met' = [q \in Requests |->
               IF q = r THEN InFlight
               ELSE IF q \in InFlight THEN met[q] \cup {r} ELSE met[q]]
  /\ UNCHANGED <<body, limit, start, caches, logVars>>

Prepare(r) ==
  /\ At(r, "prepare")
  /\ PrepareBuffers
  /\ Goto(r, IF mode = "all" THEN "directory" ELSE "logBody")
  /\ UNCHANGED <<world, caches>>

Directory(r) ==
  /\ At(r, "directory")
  /\ PrepareDir
  /\ Goto(r, "logBody")
  /\ UNCHANGED <<world, caches>>

LogRequestBody(r) ==
  /\ At(r, "logBody")
  /\ logBody("request", r, 0)
  /\ Goto(r, "authorize")
  /\ UNCHANGED <<world, caches>>

\* authMiddleware, and the decoding of the body in the handler: a refusal leaves
\* what was logged where it is.
Authorize(r) ==
  /\ At(r, "authorize")
  /\ \/ Goto(r, "inject")
     \/ Ends(r, "refused")
  /\ UNCHANGED <<world, caches, logVars>>

-----------------------------------------------------------------------------
\* injectTruncationRecovery: one lookup after the other.
Look(r) ==
  LET lookups == Lookups(body[r])
      n       == request[r].looked + 1
  IN  /\ At(r, "inject") /\ n <= Len(lookups)
      /\ request' = [request EXCEPT ![r].looked = n,
                       ![r].found = IF Recorded(lookups[n]) THEN @ \cup {n} ELSE @]
      /\ Take(lookups[n])
      /\ UNCHANGED <<world, logVars>>

FoundAt(r) == {Lookups(body[r])[n].at : n \in request[r].found}

WithNotices(r) == injectTruncationRecovery(body[r], FoundAt(r))

hasNativeWebSearchTool(tools) == \E i \in DOMAIN tools : tools[i].type = "web_search"

\* Only an Anthropic request is looked at for the native search.
Looked(r) ==
  /\ At(r, "inject") /\ request[r].looked = Len(Lookups(body[r]))
  /\ Goto(r, IF body[r].dialect = "anthropic" /\ hasNativeWebSearchTool(body[r].tools)
             THEN "search" ELSE "attempt")
  /\ UNCHANGED <<world, caches, logVars>>

\* What the search asks for is the text of the first message.
ExtractQueryFromMessages(msgs) == IF msgs = <<>> THEN <<>> ELSE ExtractTextContent(Head(msgs).content)

\* It needs an account and a question.
SearchRefused(r) ==
  /\ At(r, "search")
  /\ Ends(r, "searched")
  /\ UNCHANGED <<world, caches, logVars>>

\* It logs what it asks Kiro for, then what Kiro says, if it does, and ends the
\* request: nothing is converted, nothing flushed or discarded.
SearchAsked(r) ==
  /\ At(r, "search")
  /\ ExtractQueryFromMessages(WithNotices(r).messages) # <<>>
  /\ logChunk("raw", r, 1)
  /\ Goto(r, "searching")
  /\ UNCHANGED <<world, caches>>

SearchAnswered(r) ==
  /\ At(r, "searching")
  /\ logChunk("raw", r, 2) \/ UNCHANGED logVars
  /\ Ends(r, "searched")
  /\ UNCHANGED <<world, caches>>

\* The request as the handler converts it.
WithWebSearchTool(tools, dialect) ==
  IF \E i \in DOMAIN tools : /\ tools[i].name = "web_search"
                             /\ dialect = "openai" => tools[i].type = "function"
  THEN tools ELSE tools \o WebSearchTool

\* Fault: the notices are put into a copy that is not the one converted.
PreparedWithoutNotices(r) ==
  [body[r] EXCEPT !.tools = WithWebSearchTool(@, body[r].dialect)]

Prepared(r) ==
  [WithNotices(r) EXCEPT !.tools = WithWebSearchTool(@, body[r].dialect)]

-----------------------------------------------------------------------------
\* attemptAccount: the conversion, which may panic (recoverMiddleware answers
\* 500), and the log of its result.
Convert(r) ==
  /\ At(r, "attempt") /\ request[r].attempt < body[r].accounts
  /\ ~Panics(Prepared(r))
  /\ LET n == request[r].attempt + 1
     IN  /\ request' = [request EXCEPT ![r].pc = "sent", ![r].attempt = n,
                          ![r].kiro = ToKiro(Prepared(r), limit)]
         /\ logBody("kiro", r, n)
  /\ UNCHANGED <<world, caches>>

Panic(r) ==
  /\ At(r, "attempt") /\ Panics(Prepared(r))
  /\ Ends(r, "panic")
  /\ UNCHANGED <<world, caches, logVars>>

\* No account is left: the answer is written, the log left as it is.
Exhausted(r) ==
  /\ At(r, "attempt")
  /\ Ends(r, "exhausted")
  /\ UNCHANGED <<world, caches, logVars>>

\* A transport error or one another account may not have.
Retry(r) ==
  /\ At(r, "sent")
  /\ Goto(r, "attempt")
  /\ UNCHANGED <<world, caches, logVars>>

Fatal(r) ==
  /\ At(r, "sent")
  /\ StartFlush(r)
  /\ Goto(r, "flush")
  /\ UNCHANGED <<world, caches>>

Answered(r) ==
  /\ At(r, "sent")
  /\ Goto(r, "stream")
  /\ UNCHANGED <<world, caches, logVars>>

\* A read of the reply, and a write to the client.
RawChunk(r) ==
  /\ At(r, "stream") /\ request[r].chunks < MaxChunks
  /\ logChunk("raw", r, request[r].chunks + 1)
  /\ Goto(r, "write")
  /\ UNCHANGED <<world, caches>>

ModifiedChunk(r) ==
  /\ At(r, "write")
  /\ logChunk("modified", r, request[r].chunks + 1)
  /\ request' = [request EXCEPT ![r].pc = "stream", ![r].chunks = @ + 1]
  /\ UNCHANGED <<world, caches>>

\* The stream breaks, or the client is gone.
Broken(r) ==
  /\ At(r, "stream") \/ At(r, "write")
  /\ StartFlush(r)
  /\ Goto(r, "flush")
  /\ UNCHANGED <<world, caches>>

Flush(r) ==
  /\ At(r, "flush") /\ FlushStep(r)
  /\ UNCHANGED <<world, caches, request>>

\* Fault: the handler does not wait for the flush.
FlushedAhead(r) ==
  /\ At(r, "flush")
  /\ Ends(r, "failed")
  /\ UNCHANGED <<world, caches, logVars>>

Flushed(r) ==
  /\ At(r, "flush") /\ ~Flushing(r)
  /\ Ends(r, "failed")
  /\ UNCHANGED <<world, caches, logVars>>

-----------------------------------------------------------------------------
\* The reply is complete.  What was truncated of a streamed one is remembered,
\* the calls first, unless that is switched off; an answer that is not streamed
\* leaves no records.
Complete(r) ==
  /\ At(r, "stream")
  /\ \E reply \in body[r].replies :
       request' = [request EXCEPT ![r].pc = "save",
                     ![r].reply = IF TruncationRecoveryEnabled THEN reply ELSE @]
  /\ UNCHANGED <<world, caches, logVars>>

SaveTool(r) ==
  /\ At(r, "save") /\ request[r].saved < Len(request[r].reply.tools)
  /\ SetTool(request[r].reply.tools[request[r].saved + 1])
  /\ request' = [request EXCEPT ![r].saved = @ + 1]
  /\ UNCHANGED <<world, logVars>>

SaveContent(r) ==
  /\ At(r, "save") /\ request[r].saved = Len(request[r].reply.tools)
  /\ IF request[r].reply.text # <<>>
     THEN SetContent(request[r].reply.text) ELSE UNCHANGED caches
  /\ Goto(r, "discard")
  /\ UNCHANGED <<world, logVars>>

Discard(r) ==
  /\ At(r, "discard")
  /\ DiscardBuffers
  /\ Ends(r, "answered")
  /\ UNCHANGED <<world, caches>>

Proceed(r) ==
  \/ Prepare(r) \/ Directory(r) \/ LogRequestBody(r) \/ Authorize(r)
  \/ Look(r) \/ Looked(r) \/ SearchRefused(r) \/ SearchAsked(r) \/ SearchAnswered(r)
  \/ Convert(r) \/ Panic(r) \/ Exhausted(r) \/ Retry(r) \/ Fatal(r)
  \/ Answered(r) \/ RawChunk(r) \/ ModifiedChunk(r) \/ Broken(r)
  \/ Flush(r) \/ Flushed(r)
  \/ Complete(r) \/ SaveTool(r) \/ SaveContent(r) \/ Discard(r)

Next == \E r \in Requests : Arrive(r) \/ Proceed(r)

Spec == Init /\ [][Next]_vars
=============================================================================
