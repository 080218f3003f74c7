---------------------------- MODULE UpstreamCall ----------------------------
(***************************************************************************)
(* A call to Kiro with one account: RequestWithRetry of                    *)
(* internal/httpclient/client.go over the token manager of AuthManager.    *)
(* Several goroutines call at once with the same account.                  *)
(***************************************************************************)
EXTENDS AuthManager

CONSTANTS
  Streaming,              \* the callers with stream = TRUE
  MaxRetries,             \* attempts of the others
  FirstTokenMaxRetries    \* attempts of the streaming ones, as configured

ASSUME CallAssumption ==
  /\ Streaming \subseteq Callers
  /\ MaxRetries \in Nat \ {0}
  /\ FirstTokenMaxRetries \in Nat

VARIABLE call   \* each goroutine in RequestWithRetry

vars == <<tokens, refreshToken, creds, mu, flight, auth, issuer, source, call>>

Outcomes == {"none", "response", "retryable", "request error", "error"}

CallStates ==
  [pc : {"idle", "prepare", "send", "force"},
   attempt : Nat \ {0},
   buffered : BOOLEAN,          \* lastRetryableResp # nil
   outcome : Outcomes]

Idle(outcome) ==
  [pc |-> "idle", attempt |-> 1, buffered |-> FALSE, outcome |-> outcome]

\* A streaming call has at least one attempt, whatever is configured.
MaxAttempts(c) ==
  IF c \notin Streaming THEN MaxRetries
  ELSE IF FirstTokenMaxRetries < 1 THEN 1 ELSE FirstTokenMaxRetries

TypeOK ==
  /\ AuthTypeOK
  /\ call \in [Callers -> CallStates]
  /\ \A c \in Callers : call[c].attempt <= MaxAttempts(c)

Init == AuthInit /\ call = [c \in Callers |-> Idle("none")]

-----------------------------------------------------------------------------
LastAttempt(c) == call[c].attempt >= MaxAttempts(c)

Returns(c, outcome) == call' = [call EXCEPT ![c] = Idle(outcome)]

\* Fault: the loop does not count its attempts.
NextAttemptUncounted(c, buffered) ==
  /\ call' = [call EXCEPT ![c].pc = "prepare", ![c].attempt = @ + 1,
                          ![c].buffered = buffered]
  /\ CallAccessToken(c)

\* continue: another attempt, with a new token, or the end of the loop.
NextAttempt(c, buffered) ==
  IF LastAttempt(c)
  THEN /\ Returns(c, IF buffered THEN "retryable" ELSE "request error")
       /\ Leave(c)
  ELSE /\ call' = [call EXCEPT ![c].pc = "prepare", ![c].attempt = @ + 1,
                               ![c].buffered = buffered]
       /\ CallAccessToken(c)

Start(c) ==
  /\ call[c].pc = "idle"
  /\ call' = [call EXCEPT ![c] = [Idle("none") EXCEPT !.pc = "prepare"]]
  /\ CallAccessToken(c)
  /\ UNCHANGED <<tokens, refreshToken, creds, mu, flight, issuer, source>>

\* prepareAttempt has the token for its headers; without one the call is over,
\* with an error that is no RequestError.
Prepare(c) ==
  /\ call[c].pc = "prepare" /\ At(c, "done")
  /\ IF auth[c].ok
     THEN call' = [call EXCEPT ![c].pc = "send"]
     ELSE Returns(c, "error")
  /\ Leave(c)
  /\ UNCHANGED <<tokens, refreshToken, creds, mu, flight, issuer, source>>

\* No usable answer: an error of Do, or of the first chunk of a 200.  The first
\* may be of a kind that is not retried; the second always is.
NoAnswer(c) ==
  /\ call[c].pc = "send"
  /\ \/ LastAttempt(c) /\ Returns(c, "request error") /\ Leave(c)
     \/ ~LastAttempt(c) /\ NextAttempt(c, call[c].buffered)
     \/ ~LastAttempt(c) /\ Returns(c, "request error") /\ Leave(c)
  /\ UNCHANGED <<tokens, refreshToken, creds, mu, flight, issuer, source>>

\* 200, or a status that is neither retried nor refreshed for.
Response(c) ==
  /\ call[c].pc = "send"
  /\ Returns(c, "response") /\ Leave(c)
  /\ UNCHANGED <<tokens, refreshToken, creds, mu, flight, issuer, source>>

Forbidden(c) ==
  /\ call[c].pc = "send"
  /\ call' = [call EXCEPT ![c].pc = "force"]
  /\ CallForceRefresh(c)
  /\ UNCHANGED <<tokens, refreshToken, creds, mu, flight, issuer, source>>

\* Fault: a 403 does not count as an attempt.
ForcedUncounted(c) ==
  /\ call[c].pc = "force" /\ At(c, "done")
  /\ call' = [call EXCEPT ![c].pc = "prepare"]
  /\ CallAccessToken(c)
  /\ UNCHANGED <<tokens, refreshToken, creds, mu, flight, issuer, source>>

\* The result of the forced refresh is ignored; the 403 has used an attempt.
Forced(c) ==
  /\ call[c].pc = "force" /\ At(c, "done")
  /\ NextAttempt(c, call[c].buffered)
  /\ UNCHANGED <<tokens, refreshToken, creds, mu, flight, issuer, source>>

\* 429 or 5xx: the response is kept, and the wait after it, which the last
\* attempt makes too, may be cut short by the client.
Retryable(c) ==
  /\ call[c].pc = "send"
  /\ \/ NextAttempt(c, TRUE)
     \/ \E e \in {"request error", "error"} : Returns(c, e) /\ Leave(c)
  /\ UNCHANGED <<tokens, refreshToken, creds, mu, flight, issuer, source>>

CallStep(c) ==
  \/ Prepare(c) \/ NoAnswer(c) \/ Response(c) \/ Forbidden(c) \/ Forced(c)
  \/ Retryable(c)

World == (TokenAges \/ OutsiderRefreshes) /\ UNCHANGED call

Run(c) == CallStep(c) \/ (AuthStep(c) /\ UNCHANGED call)

Next == World \/ \E c \in Callers : Start(c) \/ Run(c)

Spec == Init /\ [][Next]_vars

\* A goroutine keeps running, Kiro and the identity service answer or time out,
\* and a mutex that is free again and again is granted in the end.
Fairness == \A c \in Callers : WF_vars(Run(c)) /\ SF_vars((Check(c) \/ Lock(c)) /\ UNCHANGED call)

FairSpec == Spec /\ Fairness

-----------------------------------------------------------------------------
\* Every call of RequestWithRetry returns, whatever the other goroutines, the
\* flights they share and the identity service do: nobody waits for a flight
\* that has landed, and the attempts run out.
EveryCallEnds == \A c \in Callers : call[c].pc # "idle" ~> call[c].pc = "idle"
=============================================================================
