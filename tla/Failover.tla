------------------------------ MODULE Failover ------------------------------
(***************************************************************************)
(* The failover loop of both dialects (internal/routesopenai/failover.go   *)
(* and internal/routesanthropic/failover.go), run by any number of         *)
(* concurrent requests over one AccountManager.                            *)
(*                                                                         *)
(* A request selects an account, sends the call to Kiro with               *)
(* httpclient.RequestWithRetry, reports what came of it, and then either   *)
(* answers its client or excludes the account and selects again.  Between  *)
(* those steps other requests run, time passes, and the client may leave.  *)
(***************************************************************************)
EXTENDS AccountManager

CONSTANTS
  Requests,       \* request slots; a slot is used again after its answer
  Dialect,        \* "openai" or "anthropic", for each request
  KiroErrors,     \* the non-200 answers of Kiro: [status, reason] records
  TransportCodes, \* SuggestedHTTPCode of a failed transport
  GoodAccounts,   \* accounts whose upstream always answers 200
  Disconnects     \* TRUE iff clients may leave before their answer

Dialects == {"openai", "anthropic"}
Reasons == {"INVALID_MODEL_ID", "CONTENT_LENGTH_EXCEEDS_THRESHOLD", "OTHER"}

ASSUME RequestsAssumption ==
  /\ Dialect \in [Requests -> Dialects]
  /\ KiroErrors \subseteq [status : Nat \ {0, 200}, reason : Reasons]
  /\ TransportCodes \subseteq Nat \ {0}
  /\ GoodAccounts \subseteq Idx
  /\ Disconnects \in BOOLEAN

VARIABLES
  req,         \* the local state of each handler goroutine
  lastSuccess  \* history: the id last reported to succeed, a set of at most one

vars == <<stats, sticky, enabled, req, lastSuccess>>

-----------------------------------------------------------------------------
(* A request in flight.  cur is the account of the attempt, and once that  *)
(* has failed the account whose error lastStatus and lastMessage describe. *)

NoAnswer == [kind |-> "none", status |-> 0, from |-> NoIdx]

Answers ==
  [kind : {"none", "served", "broken", "fatal", "exhausted", "local"},
   status : Nat,
   from : Idx \cup {NoIdx}]      \* the account whose error text it carries

RequestStates ==
  [pc : {"idle", "select", "attempt", "serve"},
   exclude : SUBSET Ids,
   cur : Idx \cup {NoIdx},
   lastStatus : Nat,
   gone : BOOLEAN,      \* the client has left: ctx is cancelled
   doomed : BOOLEAN,    \* it had left before the attempt began
   tried : SUBSET Ids,  \* history: the ids this request has called Kiro with
   answer : Answers]

Idle(answer) ==
  [pc |-> "idle", exclude |-> {}, cur |-> NoIdx, lastStatus |-> 0,
   gone |-> FALSE, doomed |-> FALSE, tried |-> {}, answer |-> answer]

TypeOK ==
  /\ ManagerTypeOK
  /\ req \in [Requests -> RequestStates]
  /\ lastSuccess \in SUBSET Ids

Init ==
  /\ ManagerInit
  /\ req = [r \in Requests |-> Idle(NoAnswer)]
  /\ lastSuccess = {}

-----------------------------------------------------------------------------
\* ChatCompletions / Messages: a well-formed request enters the loop.
Arrive(r) ==
  /\ req[r].pc = "idle"
  /\ req' = [req EXCEPT ![r] = [Idle(NoAnswer) EXCEPT !.pc = "select"]]
  /\ UNCHANGED <<managerVars, lastSuccess>>

\* The turn of the loop in which GetNextAccount returns an account.
Select(r) ==
  /\ req[r].pc = "select"
  /\ \E i \in Selectable(req[r].exclude) :
       req' = [req EXCEPT ![r].pc = "attempt", ![r].cur = i,
                          ![r].doomed = req[r].gone,
                          ![r].tried = @ \cup {IdOf[i]}]
  /\ UNCHANGED <<managerVars, lastSuccess>>

\* The request is over: its answer is on the wire.
Answered(r, kind, status, from) ==
  req' = [req EXCEPT ![r] =
            Idle([kind |-> kind, status |-> status, from |-> from])]

\* writeExhausted.  A sole account lends its last status to the answer.
GiveUp(r) ==
  /\ req[r].pc = "select"
  /\ NoneSelectable(req[r].exclude)
  /\ LET last   == req[r].lastStatus
         status == IF N <= 1 /\ last # 0 THEN last ELSE 503
         from   == IF req[r].cur # NoIdx THEN req[r].cur ELSE ExhaustedMsgFrom
     IN  Answered(r, "exhausted", status, from)
  /\ UNCHANGED <<managerVars, lastSuccess>>

\* attemptAccount could not build the upstream request: a 500, no report.
LocalError(r) ==
  /\ req[r].pc = "attempt"
  /\ Answered(r, "local", 500, NoIdx)
  /\ UNCHANGED <<managerVars, lastSuccess>>

\* attemptAccount with a 200 whose first chunk has arrived: the report
\* precedes the body.
Succeed(r) ==
  /\ req[r].pc = "attempt" /\ ~req[r].doomed
  /\ ReportSuccess(IdOf[req[r].cur])
  /\ req' = [req EXCEPT ![r].pc = "serve"]
  /\ lastSuccess' = {IdOf[req[r].cur]}

\* Fault: the loop forgets to exclude the account it has tried.
NextTurnForgetsExclude(r, status) ==
  req' = [req EXCEPT ![r].pc = "select", ![r].lastStatus = status]

\* The end of an attempt that did not finish the request.
NextTurn(r, status) ==
  req' = [req EXCEPT ![r].pc = "select", ![r].lastStatus = status,
                     ![r].exclude = @ \cup {IdOf[req[r].cur]}]

\* handleTransportError: every error of RequestWithRetry counts against the
\* account, the cancellation of the client's own context included.
TransportError(r) ==
  /\ req[r].pc = "attempt"
  /\ req[r].cur \notin GoodAccounts \/ req[r].gone
  /\ ReportFailureAs(IdOf[req[r].cur], "recoverable")
  /\ \E code \in TransportCodes : NextTurn(r, code)
  /\ UNCHANGED lastSuccess

\* The status a Fatal error reaches the client with: writePromptTooLong turns
\* a context overflow into Anthropic's 400.
ClientStatus(r, e) ==
  IF Dialect[r] = "anthropic" /\ e.reason = "CONTENT_LENGTH_EXCEEDS_THRESHOLD"
  THEN 400 ELSE e.status

\* handleKiroError: report, then answer (Fatal) or try the next account.
KiroError(r) ==
  /\ req[r].pc = "attempt" /\ ~req[r].doomed
  /\ req[r].cur \notin GoodAccounts
  /\ \E e \in KiroErrors :
       /\ ReportFailure(IdOf[req[r].cur], e.status, e.reason)
       /\ IF Classify(e.status, e.reason) = "fatal"
          THEN Answered(r, "fatal", ClientStatus(r, e), req[r].cur)
          ELSE NextTurn(r, e.status)
  /\ UNCHANGED lastSuccess

\* serveStreaming / serveNonStreaming: the body reaches the client whole, or
\* breaks off.  Neither outcome is reported to the manager.
Serve(r) ==
  /\ req[r].pc = "serve"
  /\ \/ ~req[r].gone /\ Answered(r, "served", 200, NoIdx)
     \/ Answered(r, "broken", 200, NoIdx)
  /\ UNCHANGED <<managerVars, lastSuccess>>

\* The client closes its connection: net/http cancels r.Context().
Disconnect(r) ==
  /\ Disconnects
  /\ req[r].pc # "idle" /\ ~req[r].gone
  /\ req' = [req EXCEPT ![r].gone = TRUE]
  /\ UNCHANGED <<managerVars, lastSuccess>>

PassTime == Tick /\ UNCHANGED <<req, lastSuccess>>

\* What the goroutine of a request does by itself once it is running.
Handle(r) ==
  \/ Select(r) \/ GiveUp(r)
  \/ LocalError(r) \/ Succeed(r) \/ TransportError(r) \/ KiroError(r)
  \/ Serve(r)

Next ==
  \/ PassTime
  \/ \E r \in Requests : Arrive(r) \/ Handle(r) \/ Disconnect(r)

Spec == Init /\ [][Next]_vars

\* A goroutine keeps running and its upstream call returns; time passes.
Fairness == WF_vars(PassTime) /\ \A r \in Requests : WF_vars(Handle(r))

FairSpec == Spec /\ Fairness

-----------------------------------------------------------------------------
(* Properties.                                                             *)

\* What a step does, in the terms of the properties below.
Contacts(r) == req[r].pc = "select" /\ req'[r].pc = "attempt"
Exhausts(r) == req[r].pc = "select" /\ req'[r].pc = "idle"

\* The request service that the loop implements.
Phase == [idle |-> "idle", select |-> "choosing", attempt |-> "calling",
          serve |-> "delivering"]

Contract == INSTANCE FailoverContract WITH
  phase  <- [r \in Requests |-> Phase[req[r].pc]],
  called <- [r \in Requests |-> req[r].tried]

\* The failover loop is an implementation of that service: in particular no
\* request calls Kiro twice for one account id, however other requests move
\* the sticky index and the quarantines while it runs.
ContractSpec == Contract!Spec

\* A request gives up only when each account is one it has called Kiro for, or
\* is disabled, or is in quarantine at that very moment; a sole account is
\* never passed over.
GivesUpOnlyWhenNoneLeft ==
  [][\A r \in Requests : Exhausts(r) =>
       \A i \in Idx :
         \/ IdOf[i] \in req[r].tried
         \/ N > 1 /\ (~enabled[i] \/ Quarantined(i))]_vars

\* As long as nobody hangs up, an enabled account whose upstream always answers
\* keeps every request from being told that all accounts failed, whatever the
\* other accounts do and however the requests interleave.
GoodAccountShields ==
  \A r \in Requests :
    req[r].answer.kind = "exhausted" => \A i \in GoodAccounts : ~enabled[i]

\* Recoverable "indica un error especifico de la cuenta"
\* (accounterrors/classify.go): an account whose upstream always answers is
\* never put in quarantine.
OnlyAccountErrorsQuarantine == \A i \in GoodAccounts : ~Quarantined(i)

\* The breaker never blames the wrong account: a step changes the failures of
\* an account only if it ends an attempt on that account's id, and it adds at
\* most one to them.
BlamesTheAccountTried ==
  [][\A i \in Idx : stats'[i].fails # stats[i].fails =>
       /\ stats'[i].fails \in {0, stats[i].fails + 1}
       /\ \E r \in Requests :
            /\ req[r].pc = "attempt" /\ req'[r].pc # "attempt"
            /\ IdOf[req[r].cur] = IdOf[i]]_vars

\* Ticks until the quarantine of an account is over.
TimeLeft(i) == IF Quarantined(i) THEN Window(stats[i].fails) - stats[i].age ELSE 0

\* A quarantine that is running ends by the passing of time or by a success of
\* that account; a further failure, a Fatal error, or what happens to another
\* account never cuts it short.
NoEarlyRelease ==
  [][\A i \in Idx :
       \/ TimeLeft(i)' >= TimeLeft(i)
       \/ Tick /\ TimeLeft(i)' = TimeLeft(i) - 1
       \/ stats'[i].fails = 0 /\ \E r \in Requests :
            req[r].pc = "attempt" /\ req'[r].pc = "serve" /\ req[r].cur = i]_vars

\* "GLOBAL sticky behavior: next request prefers this successful account": the
\* first account a request turns to is the one last reported to succeed, by
\* whichever request and whatever was reported of other accounts since, provided
\* that account is enabled and out of quarantine.
StartsWithLastSuccess ==
  [][\A r \in Requests : \A id \in lastSuccess :
       (/\ Contacts(r) /\ req[r].tried = {}
        /\ \A i \in Idx : IdOf[i] = id => enabled[i] /\ ~Quarantined(i))
       => IdOf[req'[r].cur] = id]_vars

\* With one account the breaker stands aside: every request reaches Kiro before
\* it is refused, and the refusal is what Kiro, or the transport, said of it.
SoleAccountSpeaks ==
  [][N = 1 => \A r \in Requests : Exhausts(r) =>
       /\ req[r].tried = Ids
       /\ req'[r].answer.status = req[r].lastStatus /\ req[r].lastStatus # 0
       /\ req'[r].answer.from = 0]_vars

\* The window of each reachable state is "base * min(2^(fails-1), cap)", the
\* formula of breaker.go.
WindowFormula ==
  \A i \in Idx : LET fails == stats[i].fails IN
    Window(fails) = IF fails = 0 THEN 0 ELSE Base * Lesser(2 ^ (fails - 1), Cap)

\* A request that has entered the loop is answered: the loop terminates without
\* a count of attempts, because each turn excludes one more id.
EveryRequestAnswered ==
  \A r \in Requests : req[r].pc = "select" ~> req[r].pc = "idle"

\* No account stays out of the rotation for ever: requests in flight when a
\* quarantine opens can prolong it, but new ones cannot (several accounts, no
\* probabilistic retry).
QuarantineEnds == \A i \in Idx : Quarantined(i) ~> ~Quarantined(i)
=============================================================================
