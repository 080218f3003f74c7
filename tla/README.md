# TLA+ for kiro-gateway-go

kiro-gateway-go is an HTTP gateway in Go that speaks the OpenAI and the Anthropic
chat dialects to its clients and the Kiro API to its upstream. It spreads requests
over several Kiro accounts, refreshes their tokens, and turns Kiro's event stream
into the stream the client expects. This directory models the parts of it whose
correctness depends on interleavings, failures and restarts, checks them with TLC
and proves the central results with TLAPS.

Paths below are relative to the repository; `am/` is `internal/accountmanager/`.

## The system

| Component | State | Operations | Talks to | Hard part | What makes it correct |
|---|---|---|---|---|---|
| Account manager, `am/failover.go`, `am/selection.go`, `am/breaker.go` | per account: failures, time and text of the last one, enabled; one sticky index; all under `m.mu` | `GetNextAccount`, `ReportSuccess`, `ReportFailure(As)` | called by every request | reports arrive long after the selection they belong to | the right account is blamed and preferred; a quarantine neither ends early nor lasts for ever |
| Failover loop, `internal/routesopenai/failover.go`, `internal/routesanthropic/failover.go` | per request: exclude set, last status and message | one turn: select, call Kiro, report, answer or go on | account manager, HTTP client | no attempt counter; other requests move the shared state between turns | one answer; no account called twice; nothing given up while an account is left |
| State persistence, `am/state.go`, `am/manager.go` | `lastSaved`, `state.json`, its temporary file | periodic save, final save, load | disk, process life in `cmd/kiro-gateway/main.go` and `internal/server/server.go` | three phases without a common lock; disk errors; crash | file never torn; a clean state is a saved one; what changed is saved |
| Token manager, `internal/auth` | tokens, two copies of the refresh token, `m.mu`, two singleflight keys | `AccessToken`, `Refresh`, `ForceRefresh`, OIDC attempt, reload | identity service, JSON file or kiro-cli database | check outside the lock, call under it; rotation; a second program refreshes too | refreshes serialised, newest refresh token presented, token never goes back, no deadlock |
| Upstream client, `internal/httpclient/client.go` | per call: attempt, last retryable response | `RequestWithRetry` | token manager, Kiro | 403 refreshes inside the retry loop; waits; first-chunk deadline | every call returns |
| Discovery and initialisation, `am/discovery.go`, `am/init.go` | accounts, enabled, model lists | load, `Initialize` | token manager, Kiro | one failed fetch disables an account for good | - |
| Parsers, `internal/parsers` | byte buffer, tool call under construction, last content | `Feed`, `Finish` | pipeline | chunk borders anywhere | the events do not depend on the chunking |
| Thinking parser, `internal/thinkingparser` | state, buffers | `Feed`, `Finish` | pipeline | tag split over chunks | no text lost or duplicated |
| Pipeline and formatters, `internal/streamingcore`, `internal/streaminganthropic`, `internal/streamingopenai` | open blocks, index, usage, tool calls, stop reason | event by event, `Finish` | client's connection | event orders nobody tested | block protocol of each dialect |
| Pinger, `internal/routesanthropic/stream_ping.go` | started flag, mutex | ping, stop | formatter | second goroutine on one writer | after `message_start`, never after the handler |
| Request conversion, `internal/convertersanthropic`, `internal/convertersopenai`, `internal/converterscore` | none | dialect to unified messages, a chain of normalisations, system prompt, payload, trimming | handlers, model capabilities | each step changes what the next one sees; merging, inventing and moving messages | Kiro's rules hold for any conversation, and nothing the client said is lost or repeated |
| Truncation recovery, `internal/truncationstate`, `truncationinject.go` | two one-shot caches | `SetTool`, `GetTool`, `SetContent`, `GetContent` | requests of one conversation | lookups of concurrent requests interleave; positions shift when messages are inserted | a record becomes one notice, in the right place, of every attempt of one request |
| Debug logger, `internal/debuglogger`, and its middleware | one set of buffers, one directory | prepare, log, flush, discard | all requests | shared by concurrent requests; the flush is not atomic | a dump holds nothing of requests long gone, and all of a request that was alone |
| Web search, `internal/mcptools` | none | one call | first account | two ways into it, no failover | - |
| Models, tokenizer, resolver, configuration, error tables | none, or constants | pure functions | - | data, not control | - |

Requests run as goroutines of `net/http`. They share the account manager, one token
manager per account, the HTTP client, the truncation cache and the debug logger; the
saver and, per stream, the pinger are the only other goroutines.

## Modules

| Module | Models | Uses |
|---|---|---|
| `Breaker` | the quarantine window, in machine integers | - |
| `AccountManager` | state and operations of the account manager, as operators a caller conjoins to its step | `Breaker` |
| `FailoverContract` | abstract: what a request to the gateway may do | - |
| `Failover` | the failover loop of both dialects for any number of concurrent requests | `AccountManager`; instance of `FailoverContract` |
| `FailoverProofs` | theorems about `Failover` | `Failover`, TLAPS |
| `StatePersistence` | saver goroutine, disk, process | - |
| `AuthManager` | token manager of one account, identity service, credential store | - |
| `UpstreamCall` | `RequestWithRetry` on top of it | `AuthManager` |
| `ThinkingParser` | the thinking parser, over texts of characters, and what it is to do with a whole text | - |
| `EventParser` | tool call assembly, truncation diagnosis, duplicates, calls written in the text | - |
| `KiroPipeline` | `Feed` and `Finish` of the pipeline | `EventParser`, `ThinkingParser` |
| `AnthropicFormatter`, `OpenAIFormatter` | the two formatters, from events of the pipeline to SSE events | `EventParser` |
| `MessageProtocol` | abstract: what the client of a streamed reply may rely on | - |
| `ResponseStream` | one reply: handler, client, pinger, records of truncation | `KiroPipeline`; instances of both formatters and of `MessageProtocol` |
| `ResponseStreamProofs` | theorems about the course of a reply, the thinking parser and the calls of the pipeline | `ResponseStream`, TLAPS |
| `ReplyProofs` | theorems about what a reply tells of the stream | `ResponseStreamProofs` |
| `PersistenceProofs`, `AuthProofs` | theorems about `StatePersistence`, and about `AuthManager` under `UpstreamCall` | those, TLAPS |
| `Content` | texts, blocks, messages of a conversation; calls and results as text | - |
| `Normalize` | the chain of normalisations of the unified messages | `Content` |
| `KiroPayload` | tools, system prompt, fake reasoning, history and current message of Kiro's payload | `Normalize` |
| `PayloadTrim` | the guard on the payload's size; the fields for models that reason by themselves | `KiroPayload` |
| `AnthropicConverter`, `OpenAIConverter` | from a request of each dialect to the unified one | `PayloadTrim` |
| `TruncationState` | the two caches, the lookups, the notices | `OpenAIConverter` |
| `DebugLogger` | the debug log, its operations and the steps of the flush | - |
| `GatewayRequests` | any number of concurrent requests, from the middleware to the end of the reply | `TruncationState`, `DebugLogger` |
| `RequestProperties` | what must hold of them | `GatewayRequests` |
| `RequestProofs` | theorems about the requests, and about the conversion of every request | `RequestProperties`, TLAPS |
| `RecursionTheorems`, `FoldTheorems` | induction, powers of two, sequences, folds | TLAPS |
| `MCFailover`, `MCStatePersistence`, `MCUpstreamCall`, `MCResponseStream`, `MCGatewayRequests` | constants for TLC | |

Operators whose comment begins with "Fault:"
are deliberately wrong variants of the operator that follows them. No action uses them;
each breaks a property, which shows that the property depends on that piece of code.

### AccountManager and Failover

Every operation of the account manager holds `m.mu` from beginning to end, so each is
one atomic operator. `sticky` is `stickyIdx`, `enabled[i]` is `Account.Enabled`,
`stats[i]` is `AccountStats`. `LastFailure` is kept as the ticks since it, which is the
only way the code reads it; it stops counting when the window is over. The count of
failures saturates at `MaxFails`; `SaturationAssumption` requires the window to have
stopped growing there, so nothing is lost. Of `LastFailureMsg` only the presence is
kept: the text in `stats[i]` is by construction one of account `i`.

`Selectable` and `NoneSelectable` are the two outcomes of `GetNextAccount`. With
probabilistic retries the random number decides per account during the walk, so
the walk may stop at any quarantined account before the first usable one
that is not, and may also pass over all of them: both outcomes can then be possible in one state.

A request has the steps of its goroutine between which others can run: `Arrive`,
`Select` or `GiveUp` (`writeExhausted`), then one of the outcomes of an attempt —
`LocalError`, `Succeed`, `TransportError`, `KiroError` — and `Serve`. Report and local
effects of an outcome are one step because nothing shared is read between them.
`doomed` says that the client had left before the attempt began: `RequestWithRetry`
then can only fail. The two dialects differ in `ClientStatus` only. `answer.from`
records whose error text the client reads. `tried` and `lastSuccess` are histories: the
ids a request has called Kiro for, and the id last reported to succeed by any request.
`StartsWithLastSuccess` compares the latter, and not `sticky`, with the choice of the next
request, so that a success that left the index behind would break it.

Not in this model: what comes before the loop and the body of the reply, which
`GatewayRequests` and `ResponseStream` have, and the rewriting of an empty error message
of Kiro.

### StatePersistence

The pcs of `saver` are the steps of `SaveState` between which another goroutine, a disk
error or a crash can come: snapshot under the lock, write, up to three renames, publish
under the lock. A value of `0 .. MaxStats` stands for one `AccountStats`, zero for the
reset one. `LoadState` is absent because nothing but tests calls it. `Exit` is `runServer`
returning after `Server.Start`; `Crash` is any other death of the process.

### AuthManager and UpstreamCall

A goroutine's way through the token manager: `check` (read in `AccessToken`),
`recheck` (read in `Refresh`), `join` (singleflight), `lock` (`doRefresh`, double
check), `oidc` (request out, `m.mu` held), `land` (result there, flight not yet
removed), `done`. Tokens are numbered as issued. A token is fresh, within the 600 s
threshold, or expired; it ages at any moment. `creds` and `refreshToken` are the two
copies the code keeps. The identity service accepts the valid refresh token only and
may replace it; it may also answer 400 for other reasons, fail, or act and lose the
reply. Credentials of type AWS SSO and of kiro-cli are modelled (`KiroCLI`); for the
other types a refresh always fails, which `RefreshFails` includes.

`RequestWithRetry` counts its attempts per caller; each result of `Do` is an action.
Waiting between attempts has no effect but time and is part of the step before it. A
context cancelled during the call appears as a failure of the step it interrupts.

### The stream: parsers, formatters, ResponseStream

An item of `Items` is one complete JSON object of Kiro's stream: text, a piece of a tool
call, native reasoning, usage, a refusal. Finding the objects in the bytes
(`Parser.Feed`, `brace_scanner.go`) is left out, and with it the character that is lost
when its bytes fall into two chunks. A text is a sequence of characters, tags included,
because the thinking parser decides by them; the character `B` stands for one call
written in the text, `[Called f with args: ...]`. Arguments of a call are a list of
fragments; `Dumps` says which lists are a JSON value, and `spelling` distinguishes the
text of `json.dumps` from that of `json.Marshal`, since `DeduplicateToolCalls` compares
texts. Signatures and encrypted reasoning are flags; token and cache counters are absent.
`ToolCallsOnce` compares the ids and names of calls; which fragments of arguments reach
which call is modelled, but no property states it.

Parsers and formatters are records, their methods operators from a record to the next
one; a formatter's `out` holds the SSE events the call writes. `Read`, `ReadEOF` and
`ReadError` are the outcomes of `body.Read` in `drivePipeline`; `Write` sends the first
event of `out`, one step each, because the pinger may get the writer's mutex in between
and because the client may be gone (`WriteError`). One item per read is no restriction:
the events of a chunk with several objects are those of its objects in turn. `Save`,
`Return` and the steps of the pinger are those of `serveStreaming` and `startPinger`; a
tick and a closed `done` may be ready at once, and `select` then takes either, so one
more ping may follow `message_stop`. A pinger whose client is gone writes nothing. The
dialect of OpenAI has neither pinger nor first event.

`reply` is what the client has put together (`Collect`), which for a client that does not
stream is `collectResponse` on the same bytes; `received` is a history of what Kiro sent.
`reply.blocks` of the dialect of OpenAI holds its two texts and its calls.

`SentText`, `ThinkingOf` and `ContentOf` are the reference: one reading of the whole text,
without states and buffers. `LeftTrims` grants the code that how much white space is cut
off after the block depends on where the pieces are cut.

### The request: Content to OpenAIConverter

A text is the sequence of the pieces it was put together from, `<<kind, of>>`: a client's
text, the output of a tool, a call or a result written out, the system prompt, a notice, a
note for the model, the placeholder for an empty message. This is what the conversion must
neither lose nor repeat nor move; the separators between pieces and the wording of the
gateway's own texts are left out, all but the newline that `MergeAdjacentMessages` puts
between two texts, since two empty ones then are not empty any more. A message has role,
text, images, calls, results, and reasoning Kiro signed.

The functions of `converterscore/normalize.go` are operators of the same names, over
sequences of messages, composed in `Normalized` in the order of `BuildKiroPayload`; those
with an accumulator are folds. `ToKiro` is `BuildKiroPayload` and the trimming: its result
has `history`, `content`, `images`, `results` and `tools`. The size of a payload is its
number of pieces, not of bytes; a limit of so many pieces cuts where a limit in bytes
would for texts of equal length. A description of a tool is long or short, a name fits or
does not (`Panics`: `BuildKiroPayload` panics on it). Images have their bytes or a URL.
The JSON of arguments, schemas and the formats of images are left out.

### GatewayRequests

`Init` picks a scenario: the bodies of the requests, the debug mode, the limit on the
payload, and what earlier replies left in the caches. `pc` is where the goroutine of a
request is: `prepare`, `directory` and `logBody` in the debug middleware, which runs
outside of `authMiddleware`; `authorize`, with the decoding of the body; `inject`, one
lookup per step, because each takes the mutex of a cache for itself; `search` and
`searching` in the native web search; `attempt` and `sent`, once per account tried, with
the conversion and the log of its result in between; `stream` and `write` for each read
and write of a reply; `flush`; `save`, one record per step; `discard`. The notices go into
the request the attempts share, so a second attempt converts the same request again.

`Look` reads and removes a record in one step, as `GetTool` and `GetContent` do under
their mutex. The key of a text is the hash of its first 500 bytes, here its first piece.
Of the flush each of `FlushDir` (`recreateDir`), `FlushCopy`, `FlushFile`, `FlushError` and
`FlushClear` is a step, because the mutex of the logger is released between them. `by` of
a file is the request that wrote it; `met` collects, for each request, those that were in
flight together with it: both are history, for the properties.

## Runs

| Run | Instance | States | Shows |
|---|---|---|---|
| `failover_shield` | 3 accounts, the last always healthy upstream, 2 requests, probabilistic retries, clients stay | 154 thousand | types; `ContractSpec`; `GivesUpOnlyWhenNoneLeft`; `GoodAccountShields`; `BlamesTheAccountTried`; `StartsWithLastSuccess` |
| `failover_live` | 2 accounts, 2 requests, clients may leave, no probabilistic retry, fairness | 103 thousand | `EveryRequestAnswered`, `QuarantineEnds`, `NoEarlyRelease` |
| `failover_sole` | 1 account, 2 requests, all error classes, failures to 4 with an odd cap of 5 | 97 thousand | `SoleAccountSpeaks`, `WindowFormula` |
| `disconnect_blame` | as `failover_shield` with clients that leave | | violated: `OnlyAccountErrorsQuarantine` |
| `persistence` | 2 accounts, 2 values each, fairness | 10 thousand | `StateFileWhole`, `CleanMeansSaved`, `QuietStateGetsSaved` |
| `final_save` | as `persistence` | | violated: `FinalStateIsSaved` |
| `upstream` | 2 goroutines, 1 streaming, 2 attempts, 2 tokens to issue, kiro-cli credentials, fairness | 164 thousand | `PresentsNewestRefreshToken`, `TokenNeverRegresses`, `OneRefreshPerExpiry`, `EveryCallEnds` |
| `stale_reload` | as `upstream` | | violated: `RetryPresentsReloadedToken` |
| `stream` | streams of up to 4 of 16 objects, both dialects, four modes of reasoning, no ticks | 1.95 million | `TextReassembled`, `ToolCallsOnce`, `ReasonMatchesReply`, `RecordsMatchReply`, `StreamsAMessage` |
| `stream_ping` | streams of up to 2 objects, two modes, 2 ticks, fairness | 80 thousand | types, `StreamsAMessage`, `NothingAfterReturn`, `HandlerReturns` |
| `requests` | one request with any conversation of up to 3 messages of 9 (Anthropic) or 7 (OpenAI) shapes, with and without tools and remembered truncations, or of 5 messages of 4 shapes; one of 7 messages with every limit from 6 to 30 pieces; or two requests at once that share records or the debug log, in each mode, one of them with two accounts to try | 452 thousand | types; what Kiro gets: `RolesAlternate`, `NothingLost`, `ResultsFollowCalls`, `SystemPromptFirst`, `TrimsNoMoreThanNeeded`, `ReasoningOfThisTurn`; truncations: `NoticesReachKiro`, `OneNoticePerRecord`; the log: `DumpsOnlyContemporaries`, `LoneDumpComplete` |
| `trimmed_result` | the trimmed requests of `requests`, with the web search tool added | | violated: `OrphanTextKept` |

### Why the bounds are enough

Two requests are the smallest number that interferes, and a property of one request
cannot depend on more than the combined effect of the others on the account manager,
which one other request that runs again and again already produces. Three accounts give
a walk with a beginning, a middle and an end; for the safety properties the proofs
remove the bounds. In `failover_sole` the window passes 1, 2, 4 and the cap 5. Two
values of the statistics are enough to tell a saved state from a changed one, also after
a change there and back. In `upstream` two tokens to be issued and one that may exist at the start give an
old, a newer and a newest one; two goroutines meet in one flight, in two
flights, and at the lock. `MaxIssued` stops the identity service, after which refreshes
only fail; liveness is checked through that as well. In `stream` four objects are enough
for a block opened, cut in its closing tag, closed and followed by text, or for a call
begun, continued, interrupted and stopped; one tag of two characters has every proper
prefix the parser must hold back, and a text of six exceeds what it holds back. The
properties of a finished reply look at it as a whole, and every combination of kinds of
objects occurs within four. Two ticks give a ping on each side of any event.

Of `requests`, three messages are enough for a message to have a neighbour on each side,
which is as far as any single step of the normalisation looks; five of the four shapes
that matter most let the effects of one step (an invented, merged or moved message) meet
those of another. The shapes contain calls answered and unanswered, answers to no call,
empty messages, images by value and by URL, signed and fake reasoning.
The limits go from "everything but one pair is cut" to "nothing is". Two
requests at once suffice for the caches, whose operations commute except on one record,
and for the log one of them to fail while the other is at any of its places;
`DumpsOnlyContemporaries` is proved for any number. The scenarios with two requests have
one account and one chunk each, so that all interleavings can be visited.

`MaxInt` is far above every product of the runs, so the wrap of `Breaker` does not occur
in them.

### Fairness

- `Failover`: weak fairness of each request's goroutine (`Handle`), and of time. It
  assumes that a call to Kiro returns: `RequestWithRetry` has bounded attempts and
  deadlines on connecting, on the first chunk and on later reads, but none on the
  response headers, so there it rests on the upstream or on the client giving up.
- `StatePersistence`: weak fairness of the saver; strong fairness of a successful write
  and rename, for a disk that does not fail for ever. `QuietStateGetsSaved` speaks only
  of processes that stay up.
- `UpstreamCall`: weak fairness of each goroutine; strong fairness of taking `m.mu`,
  since Go's mutex hands itself over to a waiter that has starved.

- `ResponseStream`: weak fairness of the handler's own steps, of a write, which ends well
  or badly, and of the pinger's steps once it has been woken or stopped. Kiro may be
  silent for ever: `HandlerReturns` begins where the stream has ended.

`QuarantineEnds` is stated for several accounts without probabilistic retry: with a
sole account, or with the coin, new requests may fail on a quarantined account and
prolong its quarantine without end, as the code intends. Requests that start often
enough are not assumed.

## Findings

1. A client that closes its connection opens circuit breakers. `handleTransportError`
   (`internal/routesopenai/failover.go:174`) charges every error of `RequestWithRetry`,
   the cancellation of the client's context included, as a failure of the account, and
   the loop goes on to charge the next accounts. `accounterrors/classify.go:32` reserves
   the class for errors of the account. Run `disconnect_blame`.
2. The final save is not waited for (`am/manager.go:125`). Run `final_save`.
3. The reload after a 400 has no effect on the refresh token of the retry
   (`internal/auth/oidc.go:114`, `:165`). Run `stale_reload`. The retry still helps when
   the client registration was what had expired.
4. The text of a result whose call has been trimmed away is lost
   (`internal/converterscore/payloadtrim.go:119`): the repair expects the content of a
   result as `[]any` or `string`, and the payload has `[]map[string]any`. Its comment
   (`payloadtrim.go:72`) says the text is kept. Run `trimmed_result`.

Seen while modelling, without a run: `state.json` is written for a restart and never read,
since `LoadState` has no caller outside the tests (`cmd/kiro-gateway/main.go:234`); the
comment at `internal/httpclient/client.go:272`
says the end of the loop is reached only if all attempts were 403, but a retried
transport error followed by a 403 gets there too; `GetNextAccount` documents the message
of the last attempted account and takes that of the one before the sticky index; a
goroutine that gets a 403 after a forced refresh has its result but before its flight is
removed gets that same result instead of an unconditional refresh.

In the stream, all of them behaviour the model has:

- `streamingopenai/finish.go:18` says that calls of the stream and calls in the text are
  merged and deduplicated; one call in both places appears twice if it has arguments,
  because one text comes from `json.Marshal` and the other has the spaces of `json.dumps`.
- `routesanthropic/handler.go:128` says that in the modes `pass` and `strip_tags` no
  thinking events reach the formatter. They do (`streamingcore/pipeline.go:54`), and
  `Strip` drops them, so that these modes show no thinking in this dialect.
- In the dialect of OpenAI every mode but `as_reasoning_content` sends native reasoning as
  content, `remove` included; `docs/DIFFERENCES.md:325` says the setting applies to it as
  to fake reasoning, which `remove` drops.
- In the modes `pass` and `strip_tags` of that dialect the key of the record of a truncated
  text lacks the reasoning that the client sees, and will echo, as content; hence
  `EchoesContent` in `RecordsMatchReply`.
- `FAKE_REASONING_INITIAL_BUFFER_SIZE` has no effect: a text longer than it and a text that
  begins no tag are let through alike.
- `thinkingparser` cuts its buffer at a byte offset, which may lie inside a character.
- Replies that are not streamed leave no records of truncation.

In the conversion of requests:

- `ToolCallsToText` writes arguments only when they are a string, so that the arguments of
  an Anthropic call, which are an object, become `{}` when the tools are stripped.
- A conversation that ends with the assistant loses the calls and the reasoning of its last
  message, which goes to the history as text alone; `NothingLost` excepts these calls.
- Images of a tool result that gets a truncation notice are dropped, because its content
  becomes a string; so are the images of a message that is merged, which is documented.
- Merging two empty contents gives a newline, which then gets no placeholder.
- Trimming drops the system prompt with the first pair.

In the records of truncation:

- A request that fails after the injection has consumed its records.
- The keys of two texts with the same first 500 bytes are one: the notice may then follow
  another message of the assistant, and separate the results after it from their calls.

In the debug log:

- `README.md:361` of the repository promises logs of failed requests. A request that no
  account can serve (`Exhausted`), that is refused, that panics in the conversion, or that
  the native web search answers, even with an error, leaves the log unflushed.
- The debug middleware runs outside of the check of the API key: a request that is refused
  has cleared the buffers of those in flight.
- `debuglogger.Handler` is installed nowhere, so `app_logs.txt` is never written.
- That concurrent requests mix in one dump is documented (`debuglogger/handler.go`);
  `DumpsOnlyContemporaries` says how far it goes.

## Proofs

`FailoverProofs` proves, for every number of accounts and requests, every assignment of
ids and every breaker setting:

| Theorem | States |
|---|---|
| `TypeCorrect` | `Spec => []TypeOK` |
| `FailoverImplementsContract` | `Spec => ContractSpec` |
| `NoPrematureSurrender` | `Spec => GivesUpOnlyWhenNoneLeft` |
| `BlameIsPrecise` | `Spec => BlamesTheAccountTried` |
| `OneGoodAccountSuffices` | `DistinctIds /\ ~Disconnects` imply `Spec => []GoodAccountShields` |
| `LastSuccessComesFirst` | `Spec => StartsWithLastSuccess` |
| `SoleAccountIsHeard` | `Spec => SoleAccountSpeaks` |
| `WindowIsFormula` | `NoOverflow` implies `Spec => []WindowFormula` |
| `QuarantineIsServed` | `DistinctIds /\ NoOverflow` imply `Spec => NoEarlyRelease` |

The assumptions are the named `ASSUME`s on the constants. Three theorems have more.
Those of `OneGoodAccountSuffices` are both necessary: with a shared id the good account
is excluded together with its namesake, and a client that leaves makes the good account
fail (finding 1). `QuarantineIsServed` needs distinct ids, because a report goes to the
first account with an id. It and `WindowIsFormula` assume `NoOverflow`: the cap, and the
cap times the base, are machine integers. Nothing checks that in the code; a
window that overflows can shrink, and is then no power of two.

`TypeOK` is not inductive for what the contract needs: it does not connect the history
`tried` with `exclude`. `IInv` adds `Bookkeeping`: while a request selects it has tried
exactly the ids it excludes, and during an attempt one more, which it does not yet
exclude. Selection respects `exclude`, so a new call is for an id not in `tried`; that is
the step `Select` of the refinement. `NoPrematureSurrender` follows from the guard of
`GiveUp` with `tried = exclude`. `OneGoodAccountSuffices` uses a second invariant,
`Shielded`: a good account has no failures, and no selecting request excludes it; hence
it is always selectable and `GiveUp` is disabled while it is enabled.
`LastSuccessComesFirst` has two halves. `StickyServed` is an invariant: the sticky account
has the id last reported to succeed. A report of success finds an account with that id,
since one was tried (`SomeFirst`, by induction), and moves the index to the first of them;
no other step touches either. The other half is the order of the walk: the sticky account
has position 0 and every other one a positive one, so that no other can be the first that
is free.
`SoleAccountIsHeard` uses a third invariant, `ErrorsKnown`: a selecting request that has
excluded an account remembers an index and a status other than zero; with one account
that index is its own.

The window is a function of its own smaller arguments. `WindowIsFormula` first solves that
recursion, and then shows by induction that the multiplier after so many failures is the
smaller of the cap and the power of two; a power of two is the number of subsets of a set
with that many elements, and `PowerDoubles` says that one element more doubles it. As the
multiplier saturates at the cap as soon as doubling would pass it, and not later, no
product leaves the machine integers. `WindowsGrow` is a corollary, and with it
`QuarantineIsServed` goes by what a step does to the failures and the age of one account:
time adds at most one to its age, and a failure starts a new window at least as long.

`ResponseStreamProofs` proves, for any objects of Kiro, open tags, modes and bounds:

| Theorem | States |
|---|---|
| `ReplyIsAMessage` | `Spec => StreamsAMessage` |
| `ReasonFitsTheReply` | `Spec => []ReasonMatchesReply` |
| `TypesOfStreams` | `Spec => []TypeOK` |
| `SilentAfterReturn` | `Spec => NothingAfterReturn` |
| `ContentComesLast` | a call of `ThinkingFeed` that gives content leaves the parser in its last state, where it gives no thinking |

They assume that an item is of one of the `ItemKinds` and its text a sequence
(`ItemsAssumption`), that there are finitely many open tags, not empty and not beginning
with white space (`TagsAssumption`), and that the modes are those of the code
(`StreamAssumption`).

`SilentAfterReturn` rests on the invariant `PingerGoneFirst`: a handler that has returned
has no pinger. `ContentComesLast` is what `handleThinking` relies on when it opens a
thinking block without closing an open text block; it needs that the parser's state is
`Streaming` whenever it lets content through, by cases on the state and on the outcome of
the search for tags.

`StreamsAMessage` is a refinement whose variables only `Write` and `Ping` change, but whether
`Write` keeps to the protocol was decided when the formatter made the event, and many
events may be waiting. What the next event may be depends on little of a reply: its phase,
how many blocks are closed, kind and call of the open one, whether there are calls and
text, and the reason. That is a cursor. The argument has three parts.

- `Moves(c, e, d)` says that event `e` may come at cursor `c` and leads to `d`. `Collects`:
  if the reply stands at `c` (`Stands`) and `e` moves it to `d`, then `Collect` makes of it a
  reply that stands at `d`, by a step of `MessageProtocol` (`Follows`). This is all about the
  client.
- `Leads(c, out, d)`: the waiting events are a path of moves. For each operation of each
  formatter: if what it has to write leads to where it thinks the reply is (`IsAt`: its
  block counter, the block it holds open, the number of calls), then so it does after
  the operation (`HandlesEvents`, by induction over the events of one read, which
  `FoldTheorems` turns into stages). `Finish` leads to the end of a message with a reason
  that fits (`AnthropicFinishes`, `OpenAIFinishes`). This is all about the formatters.
- The formatter of the Anthropic dialect would not keep this for every list of events:
  thinking while a text block is open breaks it. `FeedIsPipeline` and `LastEvents` show,
  with the reasoning of `ContentComesLast`, that the pipeline never makes such a list.

The invariant `Streams` joins them: there is a cursor at which the reply stands, and from
which the events still to be written lead to where the formatter is; a text block is open
only if the parser is past the thinking; and the formatter knows of a refusal and of the
usage of the context exactly when Kiro sent them. It quantifies over cursors and paths, so
that TLC cannot evaluate it; its consequences are what the runs check. At the end the path is
empty: the reply stands where `Finish` meant it to be, and `ReasonMatchesReply` follows.
`TypesOfStreams` adds that a ping under way has been counted as a tick.

`ReplyProofs` proves, from the same assumptions, that the message is not only well formed
but the right one:

| Theorem | States |
|---|---|
| `TextAlwaysReassembled` | `Spec => []TextReassembled` |
| `CallsAlwaysOnce` | `Spec => []ToolCallsOnce` |
| `RecordsAlwaysMatch` | `Spec => []RecordsMatchReply` |

The argument follows the text and the calls from the stream to the client.

- The thinking parser (in `ResponseStreamProofs`): `HasRead(p, sent, thinking, content)`
  says what the parser `p` holds and has given, once the text `sent` has come in whatever
  pieces. In its first state it holds all of `sent`; within a block it holds the end
  of it, which may be half a closing tag; after it, content is a left trim of what follows
  the block. `FeedReads` keeps this, by cases on the state and on the search
  for a tag across the border of two pieces, and `FinishReads` leads from it to
  `ThinkingOf` and `ContentsOf`, the reading of the whole text.
- The calls: `CallsRead(p, begun)` says that the parser has assembled or is assembling every
  call that Kiro began, and no other (`CallsAreRead`). `Deduplicated` says what the two
  passes of `DeduplicateToolCalls` leave: each id once, each text once, and for each call
  one that stands for it. `CallsAtEnd` joins them.
- The formatters: a ledger holds what a reply tells, its two texts, its calls, the reason of
  its end, and the flaws a client would trip over (two calls of one id, a call that is none). `Drafted(l, out)`
  is the ledger after the events that wait to be written. For each event of the
  pipeline, in each dialect and mode, the draft gains what the event says and nothing
  else (`OneTold`, `CallsGiven`, `MessageCloses`), up to the characters of native reasoning. `DraftWritten`: writing an event changes the
  ledger of the reply and leaves the draft as it was. This needs the cursor of `Streams`,
  which says that the event is one that fits.

The invariant is `Streams /\ Recounts`. `Recounts` says: while the stream lasts, the draft tells
what the parser has given of the text sent so far, and no call yet; from `Finish` on it tells
all of the text, all calls and the reason; and the records are those of the formatter once
the handler is done, none before that and none after an error. At the end nothing waits,
the draft is the reply, and the three properties follow. Like `Streams` it quantifies over
texts, which TLC cannot enumerate; the runs check its consequences.

`PersistenceProofs` proves, for any number of accounts and of values, and any assignment
of ids:

| Theorem | States |
|---|---|
| `PersistenceTypes` | `Spec => []TypeOK` |
| `NeverTorn` | `Spec => []StateFileWhole` |
| `NothingUnsavedLooksSaved` | `Spec => []CleanMeansSaved` |

The properties say nothing of the temporary file, nor of the time between the rename and
the moment when the saver publishes what it has saved. `IInv` adds `SaveInProgress` (a
temporary file about to be renamed is the whole snapshot; before it is published, the
snapshot is the file) and `PublishedIsOnDisk` (what was published last is the file, unless a
newer snapshot has just replaced it). `CleanMeansSaved` then follows from the test of
`Dirty`. When accounts share an id the last one's statistics are the file's; that there
is a last one comes from the library's theorem on well-founded relations.

`AuthProofs` proves, for any number of goroutines, attempts and tokens, either source of
credentials, with and without a second program that refreshes:

| Theorem | States |
|---|---|
| `TypesOfCalls` | `Spec => []TypeOK` |
| `NewestTokenPresented` | `Spec => []PresentsNewestRefreshToken` |
| `TokenOnlyAdvances` | `Spec => TokenNeverRegresses` |
| `NoNeedlessRefresh` | `Spec => OneRefreshPerExpiry` |

The invariant is mutual exclusion and what it buys: exactly the goroutine that holds
`m.mu` is at the identity service (`OneAtTheService`), the waiters of a flight wait for
that flight, and the holder presents the refresh token of now and remembers the access
token of now (`Presenting`), since nobody else can change them. Hence the graceful
degradation puts back what is there already, and an ordinary refresh that was justified
at the lock still is when the answer comes.

`RequestProofs` proves, for any set of requests with any bodies, any number of attempts
and of chunks:

| Theorem | States |
|---|---|
| `TypesOfRequests` | `Spec => []TypeOK` |
| `DumpsOfContemporaries` | `Spec => []DumpsOnlyContemporaries` |
| `NoNoticeTwice` | `Spec => []OneNoticePerRecord` |
| `LoneDumpsAreWhole` | `Spec => []LoneDumpComplete` |
| `HistoriesAlternate` | `Spec => []RolesAlternate` |
| `CutsAreMinimal` | `Spec => []TrimsNoMoreThanNeeded` |

They assume that `Nobody` is not a request, that there are finitely many chunks, and that
what a client sends has the fields of a request (`RequestsAssumption`,
`ScenariosAssumption`). Five invariants carry them, each for another question.

- `IInv` follows the pieces through the log: two requests in flight have met
  (`InFlightHaveMet`); once a request has cleared the buffers, they hold only pieces of its
  own and of requests it has met (`BuffersAreRecent`); and so do its copy in the flush and
  the files it wrote. A step that logs adds a piece of a request in flight, which all
  others in flight have met; the copy is taken by a request that has prepared.
- `Course` says what each place of a request tells of its counters, and that the body on
  its way to Kiro is the conversion of the request with the notices found for it
  (`Progress`): between conversion and answer neither can change.
- `Balanced` is an account per record: the lookups that took it, and one if it is in
  the cache, are no more than its recordings, and one if it was there at the start. Each
  step changes both sides alike or the right one only (a call recorded again while its
  record is there).
- `LoneDumps` is for a request that has met nobody: its pieces are all there is in
  the buffers, in their order; then in its copy; and then, file by file, on disk. It holds
  until another request fails, whose flush begins by removing the files.

`HistoriesAlternate` and `CutsAreMinimal` follow from `Course` and from facts about the
conversion of every request, proved first in the same module: `NormalizedRoles` (whatever the
messages, after the chain the user is first and the roles alternate; `MergedRoles` and
`RolesAlternated` are about its two folds), `KiroHistoryAlternates` (moving the system prompt and
adding the fake reasoning keep that), `CutIs` and `TrimmedPayload` (the trimming stops at
the first pair whose removal makes the rest fit, or at one pair, and the repair of
the history afterwards takes nothing more away from a history that alternates), and
`SameCuts` (the notes a model with reasoning of its own gets do not change the size).

The definitions by recursion in these models are functions on numbers and folds.
`RecursionTheorems` has induction over the numbers as a statement about a set of numbers,
which needs no operator as parameter, and with it the facts about sequences the proofs need.
`FoldTheorems` has a constant operator `op`; a module that folds with an operator of its own
takes an instance of it, and has the stages of that fold: one value per element, from the
first to the last, which a property then goes along by that induction.

Model-checked only: liveness (outside TLAPS' reach under fairness); of the converted body `NothingLost`,
`SystemPromptFirst`, `NoticesReachKiro` and `ResultsFollowCalls`, which are about `SelectSeq`
(defined by a recursion inside of an operator, which the provers do not see), and
`ReasoningOfThisTurn`.

## Plan

Done: all modules of the table above, with the runs and theorems named.

Next, proofs: `ReasoningOfThisTurn`, from the places of the reasoning in the normalised
messages.

Next, models: the byte scanner of the event parser as functions against a reference, with
characters cut at the border of two chunks.

## Not modelled, and why

- `am/init.go`, `am/discovery.go`: `Initialize` ends before the first request is served,
  and nothing comes back to it: `refreshAccountModels` has no other caller, so the TTL of
  the models is never used again. What it decides, which accounts are enabled, is an
  arbitrary constant of `Failover`. Finding the credential files is I/O.
- The restart of the token manager: what it finds is the credential file, whose writing is
  modelled (`Save`); nothing in the repository says what must hold across a restart.
- The byte scanner (`brace_scanner.go`, `Parser.Feed`) is planned.
- The error tables (`internal/networkerrors`, `internal/kiroerrors`) map values to texts and
  flags; the models take every value of the flags. Model resolution, token counting, JSON
  emulation and configuration compute values from values; their golden tests cover them,
  and no interleaving touches them. The request for a web search and the layout of its
  answer are one call and one text. The other endpoints of the HTTP server, the status
  page among them, only read.
