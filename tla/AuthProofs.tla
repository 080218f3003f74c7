------------------------------ MODULE AuthProofs ------------------------------
(***************************************************************************)
(* Proofs about the token manager under RequestWithRetry, for every number *)
(* of goroutines and of tokens, either source of credentials, with and     *)
(* without a second program that refreshes.                                *)
(***************************************************************************)
EXTENDS UpstreamCall, TLAPS

(* The inductive invariant.                                                *)

\* A goroutine is in this package only while RequestWithRetry waits for it.
OutsideOrWaitedFor == \A c \in Callers : call[c].pc \in {"idle", "send"} => At(c, "out")

\* The waiters of a flight wait for it, and for no other.
WaitersWait ==
  \A key \in Keys : \A d \in flight[key].waiters : At(d, "wait") /\ auth[d].key = key

\* m.mu is held over calls to the identity service, and only then.
OneAtTheService == \A c \in Callers : At(c, "oidc") <=> mu = c

\* During such a call the holder presents the refresh token of now, remembers
\* the access token of now, and an ordinary refresh has cause.
Presenting(c) ==
  /\ auth[c].sent = refreshToken
  /\ auth[c].old.token = tokens.token
  /\ auth[c].key = "refresh" => ~TokenIsFresh

NothingNewer ==
  /\ refreshToken = issuer.told
  /\ tokens.token <= issuer.issued

IInv ==
  /\ TypeOK
  /\ OutsideOrWaitedFor /\ WaitersWait /\ OneAtTheService
  /\ \A c \in Callers : At(c, "oidc") => Presenting(c)
  /\ NothingNewer

-----------------------------------------------------------------------------
LEMMA OutsideIsAState == Outside \in AuthStates
  BY AuthAssumption DEF Outside, AuthStates, Keys, Tokens, Versions, Lives

LEMMA AttemptsArePositive ==
  ASSUME NEW c \in Callers
  PROVE  MaxAttempts(c) \in Nat \ {0} /\ 1 <= MaxAttempts(c)
  BY CallAssumption DEF MaxAttempts

LEMMA InitIInv == Init => IInv
  <1>. SUFFICES ASSUME Init PROVE IInv
    OBVIOUS
  <1>1. tokens \in Tokens /\ tokens.token \in Versions
    BY AuthAssumption DEF Init, AuthInit, Tokens, Versions, Lives
  <1>2. flight \in [Keys -> Flights] /\ \A key \in Keys : flight[key].waiters = {}
    BY DEF Init, AuthInit, NoFlight, Flights
  <1>3. auth \in [Callers -> AuthStates] /\ \A c \in Callers : At(c, "out")
    BY OutsideIsAState DEF Init, AuthInit, At, Outside
  <1>4. issuer \in [issued : Versions, valid : Versions, told : Versions]
    BY <1>1, AuthAssumption DEF Init, AuthInit, Versions
  <1>5. AuthTypeOK
    BY <1>1, <1>2, <1>3, <1>4, AuthAssumption DEF Init, AuthInit, AuthTypeOK, Versions
  <1>6. Idle("none") \in CallStates /\ Idle("none").attempt = 1
    BY DEF Idle, CallStates, Outcomes
  <1>7. call \in [Callers -> CallStates] /\ \A c \in Callers : call[c].attempt <= MaxAttempts(c)
    BY <1>6, AttemptsArePositive DEF Init
  <1>8. OneAtTheService
    BY <1>3, AuthAssumption DEF Init, AuthInit, OneAtTheService, At
  <1>9. NothingNewer
    BY <1>1 DEF Init, AuthInit, NothingNewer, Versions
  <1>. QED
    BY <1>2, <1>3, <1>5, <1>7, <1>8, <1>9
    DEF IInv, TypeOK, OutsideOrWaitedFor, WaitersWait, At

-----------------------------------------------------------------------------
(* RequestWithRetry: a goroutine comes back from the token manager or goes  *)
(* into it, and the token manager itself stands still.                     *)

Turn(c, s, a) ==
  /\ s \in CallStates /\ s.attempt <= MaxAttempts(c)
  /\ a \in AuthStates /\ a.pc \in {"out", "check", "join"}
  /\ s.pc \in {"idle", "send"} => a.pc = "out"
  /\ call' = [call EXCEPT ![c] = s]
  /\ auth' = [auth EXCEPT ![c] = a]

Returned(c) == At(c, "out") \/ At(c, "done")

LEMMA TurnStep ==
  ASSUME IInv, NEW c \in Callers, NEW s, NEW a, Turn(c, s, a), Returned(c),
         UNCHANGED <<tokens, refreshToken, creds, mu, flight, issuer, source>>
  PROVE  IInv'
  <1>1. call' \in [Callers -> CallStates] /\ auth' \in [Callers -> AuthStates]
    BY DEF Turn, IInv, TypeOK, AuthTypeOK
  <1>2. \A d \in Callers : d # c => call'[d] = call[d] /\ auth'[d] = auth[d]
    BY DEF Turn, IInv, TypeOK, AuthTypeOK
  <1>3. call'[c] = s /\ auth'[c] = a
    BY DEF Turn, IInv, TypeOK, AuthTypeOK
  <1>4. auth[c].pc \in {"out", "done"} /\ a.pc \in {"out", "check", "join"}
    BY DEF Turn, Returned, At
  <1>5. TypeOK'
    BY <1>1, <1>2, <1>3 DEF Turn, IInv, TypeOK, AuthTypeOK
  <1>6. OutsideOrWaitedFor'
    BY <1>2, <1>3 DEF Turn, IInv, OutsideOrWaitedFor, At
  <1>7. WaitersWait'
    <2>. SUFFICES ASSUME NEW key \in Keys, NEW d \in flight[key].waiters
                  PROVE  auth'[d].pc = "wait" /\ auth'[d].key = key
      BY DEF WaitersWait, At
    <2>1. d \in Callers
      BY DEF IInv, TypeOK, AuthTypeOK, Flights
    <2>2. auth[d].pc = "wait" /\ auth[d].key = key
      BY DEF IInv, WaitersWait, At
    <2>. QED BY <1>2, <1>4, <2>1, <2>2
  <1>8. OneAtTheService'
    BY <1>2, <1>3, <1>4 DEF IInv, OneAtTheService, At
  <1>9. (\A d \in Callers : At(d, "oidc") => Presenting(d))'
    BY <1>2, <1>3, <1>4 DEF IInv, At, Presenting, TokenIsFresh
  <1>. QED BY <1>5, <1>6, <1>7, <1>8, <1>9 DEF IInv, NothingNewer

\* What a goroutine may go on to, inside the token manager and outside.
LEMMA WaysOn ==
  /\ Outside \in AuthStates /\ Outside.pc = "out"
  /\ [Outside EXCEPT !.pc = "check"] \in AuthStates
  /\ [Outside EXCEPT !.pc = "check"].pc = "check"
  /\ [Outside EXCEPT !.pc = "join", !.key = "refresh-force"] \in AuthStates
  /\ [Outside EXCEPT !.pc = "join", !.key = "refresh-force"].pc = "join"
  BY OutsideIsAState DEF Outside, AuthStates, Keys

LEMMA IdleIsAState ==
  ASSUME NEW outcome \in Outcomes
  PROVE  /\ Idle(outcome) \in CallStates
         /\ Idle(outcome).pc = "idle" /\ Idle(outcome).attempt = 1
  BY DEF Idle, CallStates

LEMMA ReturnsTurn ==
  ASSUME IInv, NEW c \in Callers, NEW outcome \in Outcomes,
         Returns(c, outcome), Leave(c)
  PROVE  \E s, a : Turn(c, s, a)
  <1>1. Turn(c, Idle(outcome), Outside)
    BY IdleIsAState, WaysOn, AttemptsArePositive DEF Turn, Returns, Leave
  <1>. QED BY <1>1

LEMMA OneMoreAttempt ==
  ASSUME NEW s \in CallStates, NEW t, NEW buffered \in BOOLEAN,
         t = [s EXCEPT !.pc = "prepare", !.attempt = @ + 1, !.buffered = buffered]
  PROVE  t \in CallStates /\ t.attempt = s.attempt + 1 /\ t.pc = "prepare"
  <1>1. s.attempt + 1 \in Nat \ {0}
    BY DEF CallStates
  <1>. QED BY <1>1 DEF CallStates

LEMMA NextAttemptTurn ==
  ASSUME IInv, NEW c \in Callers, NEW buffered \in BOOLEAN, NextAttempt(c, buffered)
  PROVE  \E s, a : Turn(c, s, a)
  <1>1. CASE LastAttempt(c)
    <2>1. PICK outcome \in Outcomes : Returns(c, outcome) /\ Leave(c)
      BY <1>1 DEF NextAttempt, Outcomes
    <2>. QED BY <2>1, ReturnsTurn
  <1>2. CASE ~LastAttempt(c)
    <2>. DEFINE s == [call[c] EXCEPT !.pc = "prepare", !.attempt = @ + 1, !.buffered = buffered]
                a == [Outside EXCEPT !.pc = "check"]
    <2>1. call[c] \in CallStates /\ call[c].attempt \in Nat /\ call[c].attempt < MaxAttempts(c)
      BY <1>2, AttemptsArePositive DEF LastAttempt, IInv, TypeOK, CallStates
    <2>2. s \in CallStates /\ s.attempt = call[c].attempt + 1 /\ s.pc = "prepare"
      BY <2>1, OneMoreAttempt
    <2>3. s.attempt <= MaxAttempts(c)
      <3>. HIDE DEF s
      <3>. QED BY <2>1, <2>2, AttemptsArePositive
    <2>4. call' = [call EXCEPT ![c] = s] /\ auth' = [auth EXCEPT ![c] = a]
      BY <1>2 DEF NextAttempt, CallAccessToken
    <2>5. Turn(c, s, a)
      <3>. HIDE DEF s
      <3>. QED BY <2>2, <2>3, <2>4, WaysOn DEF Turn
    <2>. QED BY <2>5
  <1>. QED BY <1>1, <1>2

\* A change of the pc alone.
LEMMA GoOn ==
  ASSUME NEW s \in CallStates, NEW pc \in {"prepare", "send", "force"}
  PROVE  /\ [s EXCEPT !.pc = pc] \in CallStates
         /\ [s EXCEPT !.pc = pc].pc = pc
         /\ [s EXCEPT !.pc = pc].attempt = s.attempt
  BY DEF CallStates

LEMMA CallStepTurn ==
  ASSUME IInv, NEW c \in Callers, CallStep(c) \/ Start(c)
  PROVE  /\ \E s, a : Turn(c, s, a)
         /\ Returned(c)
         /\ UNCHANGED <<tokens, refreshToken, creds, mu, flight, issuer, source>>
  <1>. /\ "response" \in Outcomes /\ "error" \in Outcomes /\ "request error" \in Outcomes
       /\ "none" \in Outcomes /\ call[c].buffered \in BOOLEAN
    BY DEF Outcomes, IInv, TypeOK, CallStates
  <1>0. call[c] \in CallStates /\ call[c].attempt <= MaxAttempts(c)
    BY DEF IInv, TypeOK
  <1>1. call[c].pc \in {"idle", "send"} => Returned(c)
    BY DEF IInv, OutsideOrWaitedFor, Returned
  <1>2. CASE Prepare(c)
    <2>1. CASE auth[c].ok
      <3>1. Turn(c, [call[c] EXCEPT !.pc = "send"], Outside)
        BY <1>0, <1>2, <2>1, GoOn, WaysOn DEF Prepare, Leave, Turn
      <3>. QED BY <1>2, <3>1 DEF Prepare, Returned
    <2>2. CASE ~auth[c].ok
      BY <1>2, <2>2, ReturnsTurn DEF Prepare, Returned
    <2>. QED BY <2>1, <2>2
  <1>3. CASE NoAnswer(c)
    BY <1>1, <1>3, ReturnsTurn, NextAttemptTurn DEF NoAnswer
  <1>4. CASE Response(c)
    BY <1>1, <1>4, ReturnsTurn DEF Response
  <1>5. CASE Forbidden(c)
    <2>1. Turn(c, [call[c] EXCEPT !.pc = "force"],
               [Outside EXCEPT !.pc = "join", !.key = "refresh-force"])
      BY <1>0, <1>5, GoOn, WaysOn DEF Forbidden, CallForceRefresh, Turn
    <2>. QED BY <1>1, <1>5, <2>1 DEF Forbidden
  <1>6. CASE Forced(c)
    BY <1>6, NextAttemptTurn DEF Forced, Returned
  <1>7. CASE Retryable(c)
    BY <1>1, <1>7, ReturnsTurn, NextAttemptTurn DEF Retryable
  <1>8. CASE Start(c)
    <2>1. Turn(c, [Idle("none") EXCEPT !.pc = "prepare"], [Outside EXCEPT !.pc = "check"])
      <3>1. /\ [Idle("none") EXCEPT !.pc = "prepare"] \in CallStates
            /\ [Idle("none") EXCEPT !.pc = "prepare"].pc = "prepare"
            /\ [Idle("none") EXCEPT !.pc = "prepare"].attempt = 1
        BY ZenonT(60), IdleIsAState, GoOn
      <3>2. /\ call' = [call EXCEPT ![c] = [Idle("none") EXCEPT !.pc = "prepare"]]
            /\ auth' = [auth EXCEPT ![c] = [Outside EXCEPT !.pc = "check"]]
        BY <1>8 DEF Start, CallAccessToken
      <3>. QED BY <3>1, <3>2, AttemptsArePositive, WaysOn DEF Turn
    <2>. QED BY <1>1, <1>8, <2>1 DEF Start
  <1>. QED BY <1>2, <1>3, <1>4, <1>5, <1>6, <1>7, <1>8 DEF CallStep

-----------------------------------------------------------------------------
(* The token manager: RequestWithRetry stands still.                       *)

\* A goroutine moves on by itself, away from the lock and the flights.
LEMMA AloneStep ==
  ASSUME IInv, NEW c \in Callers, NEW a \in AuthStates,
         auth[c].pc \notin {"out", "wait", "oidc"}, a.pc \notin {"out", "wait", "oidc"},
         auth' = [auth EXCEPT ![c] = a],
         UNCHANGED <<tokens, refreshToken, creds, mu, flight, issuer, source, call>>
  PROVE  IInv'
  <1>1. auth' \in [Callers -> AuthStates] /\ auth'[c] = a
    BY DEF IInv, TypeOK, AuthTypeOK
  <1>2. \A d \in Callers : d # c => auth'[d] = auth[d]
    BY DEF IInv, TypeOK, AuthTypeOK
  <1>3. TypeOK'
    BY <1>1 DEF IInv, TypeOK, AuthTypeOK
  <1>4. OutsideOrWaitedFor'
    BY <1>1, <1>2 DEF IInv, OutsideOrWaitedFor, At
  <1>5. WaitersWait'
    <2>. SUFFICES ASSUME NEW key \in Keys, NEW d \in flight[key].waiters
                  PROVE  auth'[d].pc = "wait" /\ auth'[d].key = key
      BY DEF WaitersWait, At
    <2>1. d \in Callers
      BY DEF IInv, TypeOK, AuthTypeOK, Flights
    <2>2. auth[d].pc = "wait" /\ auth[d].key = key
      BY DEF IInv, WaitersWait, At
    <2>. QED BY <1>2, <2>1, <2>2
  <1>6. OneAtTheService'
    BY <1>1, <1>2 DEF IInv, OneAtTheService, At
  <1>7. (\A d \in Callers : At(d, "oidc") => Presenting(d))'
    BY <1>1, <1>2 DEF IInv, At, Presenting, TokenIsFresh
  <1>. QED BY <1>3, <1>4, <1>5, <1>6, <1>7 DEF IInv, NothingNewer

Places == {"out", "check", "recheck", "join", "wait", "lock", "oidc", "land", "done"}

\* A change of the pc alone, here.
LEMMA GoesTo ==
  ASSUME NEW s \in AuthStates, NEW pc \in Places, NEW a, a = [s EXCEPT !.pc = pc]
  PROVE  a \in AuthStates /\ a.pc = pc /\ a.key = s.key
  BY DEF AuthStates, Places

LEMMA StateOf ==
  ASSUME IInv, NEW c \in Callers
  PROVE  /\ auth[c] \in AuthStates /\ auth[c].key \in Keys
         /\ tokens \in Tokens /\ tokens.token \in Versions
  BY DEF IInv, TypeOK, AuthTypeOK, AuthStates, Tokens

LEMMA CheckStep ==
  ASSUME IInv, NEW c \in Callers, Check(c), UNCHANGED call
  PROVE  IInv'
  <1>1. auth[c].pc \in {"check", "recheck"}
    BY DEF Check, At
  <1>2. CASE TokenIsFresh
    <2>. DEFINE a == [auth[c] EXCEPT !.pc = "done", !.ok = TRUE, !.result = tokens.token]
    <2>1. a \in AuthStates /\ a.pc = "done"
      BY StateOf DEF AuthStates
    <2>2. auth' = [auth EXCEPT ![c] = a]
      BY <1>2 DEF Check
    <2>. HIDE DEF a
    <2>. QED BY <1>1, <2>1, <2>2, AloneStep DEF Check
  <1>3. ASSUME ~TokenIsFresh,
               NEW pc \in {"recheck", "join"},
               auth[c].pc = "check" <=> pc = "recheck"
        PROVE  IInv'
    <2>. DEFINE a == [auth[c] EXCEPT !.pc = pc]
    <2>1. pc \in Places
      BY DEF Places
    <2>2. a \in AuthStates /\ a.pc = pc
      BY <2>1, StateOf, GoesTo
    <2>3. auth' = [auth EXCEPT ![c] = a]
      BY <1>1, <1>3 DEF Check, At
    <2>. HIDE DEF a
    <2>. QED BY ZenonT(60), <1>1, <2>2, <2>3, AloneStep DEF Check
  <1>. QED BY <1>1, <1>2, <1>3

LEMMA JoinStep ==
  ASSUME IInv, NEW c \in Callers, Join(c), UNCHANGED call
  PROVE  IInv'
  <1>. DEFINE key == auth[c].key
  <1>1. auth[c].pc = "join" /\ auth[c] \in AuthStates /\ key \in Keys
    BY StateOf DEF Join, At
  <1>2. CASE flight[key].leader = Nobody
    <2>1. auth' = [auth EXCEPT ![c] = [auth[c] EXCEPT !.pc = "lock"]]
      BY <1>2 DEF Join
    <2>2. flight' = [flight EXCEPT ![key].leader = c]
      BY <1>2 DEF Join
    <2>3. auth' \in [Callers -> AuthStates] /\ auth'[c].pc = "lock"
      BY <1>1, <2>1, GoesTo DEF Places, IInv, TypeOK, AuthTypeOK
    <2>4. \A d \in Callers : d # c => auth'[d] = auth[d]
      BY <2>1 DEF IInv, TypeOK, AuthTypeOK
    <2>5. flight' \in [Keys -> Flights]
      BY <1>1, <2>2 DEF IInv, TypeOK, AuthTypeOK, Flights
    <2>6. \A k \in Keys : flight'[k].waiters = flight[k].waiters
      BY <1>1, <2>2 DEF IInv, TypeOK, AuthTypeOK, Flights
    <2>7. WaitersWait'
      <3>. SUFFICES ASSUME NEW k \in Keys, NEW d \in flight[k].waiters
                    PROVE  auth'[d].pc = "wait" /\ auth'[d].key = k
        BY <2>6 DEF WaitersWait, At
      <3>1. d \in Callers
        BY DEF IInv, TypeOK, AuthTypeOK, Flights
      <3>2. auth[d].pc = "wait" /\ auth[d].key = k
        BY DEF IInv, WaitersWait, At
      <3>. QED BY <1>1, <2>4, <3>1, <3>2
    <2>8. UNCHANGED <<tokens, refreshToken, creds, mu, issuer, source>>
      BY DEF Join
    <2>. QED BY <1>1, <2>3, <2>4, <2>5, <2>7, <2>8
         DEF IInv, TypeOK, AuthTypeOK, OutsideOrWaitedFor, OneAtTheService, At, Presenting,
             TokenIsFresh, NothingNewer
  <1>3. CASE flight[key].leader # Nobody
    <2>1. auth' = [auth EXCEPT ![c] = [auth[c] EXCEPT !.pc = "wait"]]
      BY <1>3 DEF Join
    <2>2. flight' = [flight EXCEPT ![key].waiters = @ \cup {c}]
      BY <1>3 DEF Join
    <2>3. auth' \in [Callers -> AuthStates] /\ auth'[c].pc = "wait" /\ auth'[c].key = key
      BY <1>1, <2>1, GoesTo DEF Places, IInv, TypeOK, AuthTypeOK
    <2>4. \A d \in Callers : d # c => auth'[d] = auth[d]
      BY <2>1 DEF IInv, TypeOK, AuthTypeOK
    <2>5. flight' \in [Keys -> Flights]
      BY <1>1, <2>2 DEF IInv, TypeOK, AuthTypeOK, Flights
    <2>6. \A k \in Keys : flight'[k].waiters =
                           IF k = key THEN flight[k].waiters \cup {c} ELSE flight[k].waiters
      BY <1>1, <2>2 DEF IInv, TypeOK, AuthTypeOK, Flights
    <2>7. WaitersWait'
      <3>. SUFFICES ASSUME NEW k \in Keys, NEW d \in flight'[k].waiters
                    PROVE  auth'[d].pc = "wait" /\ auth'[d].key = k
        BY DEF WaitersWait, At
      <3>1. CASE d \in flight[k].waiters
        <4>1. d \in Callers
          BY <3>1 DEF IInv, TypeOK, AuthTypeOK, Flights
        <4>2. auth[d].pc = "wait" /\ auth[d].key = k
          BY <3>1 DEF IInv, WaitersWait, At
        <4>. QED BY <1>1, <2>4, <4>1, <4>2
      <3>2. CASE d \notin flight[k].waiters
        BY <2>3, <2>6, <3>2
      <3>. QED BY <3>1, <3>2
    <2>8. UNCHANGED <<tokens, refreshToken, creds, mu, issuer, source>>
      BY DEF Join
    <2>. QED BY <1>1, <2>3, <2>4, <2>5, <2>7, <2>8
         DEF IInv, TypeOK, AuthTypeOK, OutsideOrWaitedFor, OneAtTheService, At, Presenting,
             TokenIsFresh, NothingNewer
  <1>. QED BY <1>2, <1>3

\* doRefresh leaves m.mu to the call to the identity service, or returns at once.
LEMMA LockStep ==
  ASSUME IInv, NEW c \in Callers, Lock(c), UNCHANGED call
  PROVE  IInv'
  <1>1. auth[c].pc = "lock" /\ mu = Nobody
    BY DEF Lock, At
  <1>2. CASE TokenIsFresh /\ auth[c].key = "refresh"
    <2>. DEFINE a == [auth[c] EXCEPT !.pc = "land", !.ok = TRUE, !.result = tokens.token]
    <2>1. a \in AuthStates /\ a.pc = "land"
      BY StateOf DEF AuthStates
    <2>2. auth' = [auth EXCEPT ![c] = a]
      BY <1>2 DEF Lock
    <2>3. UNCHANGED <<tokens, refreshToken, creds, mu, flight, issuer, source>>
      BY <1>2 DEF Lock
    <2>. HIDE DEF a
    <2>. QED BY <1>1, <2>1, <2>2, <2>3, AloneStep
  <1>3. CASE ~ (TokenIsFresh /\ auth[c].key = "refresh")
    <2>. DEFINE a == Calling(auth[c])
    <2>1. /\ a \in AuthStates /\ a.pc = "oidc" /\ a.sent = refreshToken /\ a.old = tokens
          /\ a.key = auth[c].key
      <3>1. refreshToken \in Versions
        BY DEF IInv, TypeOK, AuthTypeOK
      <3>. QED BY <3>1, StateOf DEF AuthStates, Calling
    <2>2. auth' = [auth EXCEPT ![c] = a] /\ mu' = c
      BY <1>3 DEF Lock
    <2>3. UNCHANGED <<tokens, refreshToken, creds, flight, issuer, source>>
      BY DEF Lock
    <2>. HIDE DEF a
    <2>4. auth' \in [Callers -> AuthStates] /\ auth'[c] = a
      BY <2>1, <2>2 DEF IInv, TypeOK, AuthTypeOK
    <2>5. \A d \in Callers : d # c => auth'[d] = auth[d]
      BY <2>2 DEF IInv, TypeOK, AuthTypeOK
    <2>6. TypeOK'
      BY <2>2, <2>3, <2>4 DEF IInv, TypeOK, AuthTypeOK
    <2>7. OutsideOrWaitedFor'
      BY <1>1, <2>1, <2>4, <2>5 DEF IInv, OutsideOrWaitedFor, At
    <2>8. WaitersWait'
      <3>. SUFFICES ASSUME NEW k \in Keys, NEW d \in flight[k].waiters
                    PROVE  auth'[d].pc = "wait" /\ auth'[d].key = k
        BY <2>3 DEF WaitersWait, At
      <3>1. d \in Callers
        BY DEF IInv, TypeOK, AuthTypeOK, Flights
      <3>2. auth[d].pc = "wait" /\ auth[d].key = k
        BY DEF IInv, WaitersWait, At
      <3>. QED BY <1>1, <2>5, <3>1, <3>2
    <2>9. OneAtTheService' /\ \A d \in Callers : d # c => auth'[d].pc # "oidc"
      BY <1>1, <2>1, <2>2, <2>4, <2>5, AuthAssumption DEF IInv, OneAtTheService, At
    <2>10. (\A d \in Callers : At(d, "oidc") => Presenting(d))'
      BY <1>3, <2>1, <2>3, <2>4, <2>9 DEF At, Presenting, TokenIsFresh
    <2>. QED BY <2>3, <2>6, <2>7, <2>8, <2>9, <2>10 DEF IInv, NothingNewer
  <1>. QED BY <1>2, <1>3

\* Whatever the identity service said, the lock is free and nobody else holds it;
\* what the call has changed need only be well typed, and the newest known.
LEMMA EndRefreshStep ==
  ASSUME IInv, NEW c \in Callers, At(c, "oidc"),
         NEW ok \in BOOLEAN, NEW n \in Versions, EndRefresh(c, ok, n),
         tokens' \in Tokens, refreshToken' \in Versions, creds' \in Versions,
         source' \in Versions, issuer' \in [issued : Versions, valid : Versions, told : Versions],
         NothingNewer', UNCHANGED <<flight, call>>
  PROVE  IInv'
  <1>. DEFINE a == [Outside EXCEPT !.pc = "land", !.key = auth[c].key, !.ok = ok, !.result = n]
  <1>1. a \in AuthStates /\ a.pc = "land"
    BY StateOf, OutsideIsAState DEF AuthStates
  <1>2. auth' = [auth EXCEPT ![c] = a] /\ mu' = Nobody
    BY DEF EndRefresh
  <1>. HIDE DEF a
  <1>3. auth' \in [Callers -> AuthStates] /\ auth'[c] = a
    BY <1>1, <1>2 DEF IInv, TypeOK, AuthTypeOK
  <1>4. \A d \in Callers : d # c => auth'[d] = auth[d]
    BY <1>2 DEF IInv, TypeOK, AuthTypeOK
  <1>5. TypeOK'
    BY <1>2, <1>3 DEF IInv, TypeOK, AuthTypeOK
  <1>6. OutsideOrWaitedFor'
    BY <1>1, <1>3, <1>4 DEF IInv, OutsideOrWaitedFor, At
  <1>7. WaitersWait'
    <2>. SUFFICES ASSUME NEW k \in Keys, NEW d \in flight[k].waiters
                  PROVE  auth'[d].pc = "wait" /\ auth'[d].key = k
      BY DEF WaitersWait, At
    <2>1. d \in Callers
      BY DEF IInv, TypeOK, AuthTypeOK, Flights
    <2>2. auth[d].pc = "wait" /\ auth[d].key = k
      BY DEF IInv, WaitersWait, At
    <2>. QED BY <1>4, <2>1, <2>2 DEF At
  <1>8. \A d \in Callers : auth'[d].pc # "oidc"
    BY <1>1, <1>3, <1>4 DEF IInv, OneAtTheService, At
  <1>9. OneAtTheService'
    BY <1>2, <1>8, AuthAssumption DEF OneAtTheService, At
  <1>. QED BY <1>5, <1>6, <1>7, <1>8, <1>9 DEF IInv, At

\* What the identity service issues is newer than everything there is.
LEMMA IssuesType ==
  ASSUME IInv, NEW sent \in Versions, NEW rotate \in BOOLEAN,
         Issues(sent, rotate, TRUE) \/ Issues(sent, rotate, FALSE)
  PROVE  /\ issuer' \in [issued : Versions, valid : Versions, told : Versions]
         /\ issuer'.issued = issuer.issued + 1 /\ issuer.issued \in Nat
         /\ issuer'.issued \in Versions /\ issuer'.valid \in Versions
         /\ Issues(sent, rotate, TRUE) =>
              issuer'.told = IF rotate THEN issuer'.valid ELSE issuer.told
         /\ Issues(sent, rotate, FALSE) => issuer'.told = issuer.told
  <1>1. /\ issuer.issued \in Nat /\ issuer.issued + 1 \in Versions
        /\ issuer.valid \in Versions /\ issuer.told \in Versions
    BY AuthAssumption DEF Issues, Versions, IInv, TypeOK, AuthTypeOK
  <1>. QED BY <1>1 DEF Issues

LEMMA RefreshedStep ==
  ASSUME IInv, NEW c \in Callers, Refreshed(c), UNCHANGED call
  PROVE  IInv'
  <1>1. PICK rotate \in BOOLEAN :
          /\ Issues(auth[c].sent, rotate, TRUE)
          /\ refreshToken' = IF rotate THEN issuer'.valid ELSE refreshToken
          /\ creds' = IF rotate THEN issuer'.valid ELSE creds
    BY DEF Refreshed
  <1>2. auth[c].sent \in Versions
    BY DEF IInv, TypeOK, AuthTypeOK, AuthStates
  <1>3. /\ issuer' \in [issued : Versions, valid : Versions, told : Versions]
        /\ issuer'.issued \in Versions /\ issuer'.valid \in Versions
        /\ issuer'.told = IF rotate THEN issuer'.valid ELSE issuer.told
    BY <1>1, <1>2, IssuesType
  <1>4. /\ tokens' \in Tokens /\ tokens'.token = issuer'.issued
        /\ issuer'.issued <= issuer'.issued
    BY <1>3 DEF Refreshed, Tokens, Lives, Versions
  <1>5. refreshToken' \in Versions /\ creds' \in Versions /\ refreshToken' = issuer'.told
    BY <1>1, <1>3 DEF IInv, TypeOK, AuthTypeOK, NothingNewer
  <1>6. source' \in Versions
    BY <1>5 DEF Refreshed, Save, IInv, TypeOK, AuthTypeOK
  <1>7. NothingNewer'
    BY <1>3, <1>4, <1>5 DEF NothingNewer
  <1>8. EndRefresh(c, TRUE, issuer'.issued) /\ At(c, "oidc") /\ UNCHANGED flight
    BY DEF Refreshed
  <1>. QED BY <1>3, <1>4, <1>5, <1>6, <1>7, <1>8, EndRefreshStep

LEMMA BadRequestStep ==
  ASSUME IInv, NEW c \in Callers, BadRequest(c), UNCHANGED call
  PROVE  IInv'
  <1>1. At(c, "oidc") /\ Presenting(c) /\ mu = c
    BY DEF BadRequest, IInv, OneAtTheService
  <1>2. /\ auth[c] \in AuthStates /\ auth[c].old \in Tokens /\ auth[c].old.token \in Versions
        /\ refreshToken \in Versions /\ creds \in Versions /\ source \in Versions
        /\ issuer \in [issued : Versions, valid : Versions, told : Versions]
        /\ tokens \in Tokens
    BY DEF IInv, TypeOK, AuthTypeOK, AuthStates, Tokens
  <1>3. UNCHANGED <<refreshToken, flight, issuer, source>>
    BY DEF BadRequest
  <1>4. CASE /\ KiroCLI /\ ~auth[c].second
             /\ LoadFromSQLite
             /\ auth' = [auth EXCEPT ![c].second = TRUE, ![c].sent = refreshToken]
             /\ UNCHANGED <<tokens, mu>>
    <2>. DEFINE a == [auth[c] EXCEPT !.second = TRUE, !.sent = refreshToken]
    <2>1. a \in AuthStates /\ a.pc = "oidc" /\ a.sent = refreshToken
          /\ a.old = auth[c].old /\ a.key = auth[c].key
      BY <1>1, <1>2 DEF AuthStates, At
    <2>2. auth' = [auth EXCEPT ![c] = a]
      BY <1>4
    <2>. HIDE DEF a
    <2>3. auth' \in [Callers -> AuthStates] /\ auth'[c] = a
      BY <2>1, <2>2 DEF IInv, TypeOK, AuthTypeOK
    <2>4. \A d \in Callers : d # c => auth'[d] = auth[d]
      BY <2>2 DEF IInv, TypeOK, AuthTypeOK
    <2>5. creds' \in Versions
      BY <1>2, <1>4 DEF LoadFromSQLite
    <2>6. TypeOK'
      BY <1>3, <1>4, <2>3, <2>5 DEF IInv, TypeOK, AuthTypeOK
    <2>7. OutsideOrWaitedFor'
      BY <1>1, <2>1, <2>3, <2>4 DEF IInv, OutsideOrWaitedFor, At
    <2>8. WaitersWait'
      <3>. SUFFICES ASSUME NEW k \in Keys, NEW d \in flight[k].waiters
                    PROVE  auth'[d].pc = "wait" /\ auth'[d].key = k
        BY <1>3 DEF WaitersWait, At
      <3>1. d \in Callers
        BY DEF IInv, TypeOK, AuthTypeOK, Flights
      <3>2. auth[d].pc = "wait" /\ auth[d].key = k
        BY DEF IInv, WaitersWait, At
      <3>. QED BY <1>1, <2>4, <3>1, <3>2 DEF At
    <2>9. OneAtTheService'
      BY <1>1, <1>4, <2>1, <2>3, <2>4 DEF IInv, OneAtTheService, At
    <2>10. Presenting(c)'
      BY <1>1, <1>3, <1>4, <2>1, <2>3 DEF Presenting, TokenIsFresh
    <2>11. \A d \in Callers : d # c => auth'[d].pc # "oidc"
      BY <1>1, <2>4 DEF IInv, OneAtTheService, At
    <2>. QED BY <1>3, <1>4, <2>6, <2>7, <2>8, <2>9, <2>10, <2>11 DEF IInv, NothingNewer, At
  <1>5. CASE /\ tokens' = [tokens EXCEPT !.token = auth[c].old.token]
             /\ EndRefresh(c, TRUE, auth[c].old.token)
             /\ UNCHANGED creds
    <2>1. tokens' \in Tokens /\ tokens'.token = tokens.token
      BY <1>1, <1>2, <1>5 DEF Tokens, Presenting
    <2>2. NothingNewer'
      BY <1>3, <2>1 DEF IInv, NothingNewer
    <2>3. EndRefresh(c, TRUE, auth[c].old.token)
      BY <1>5
    <2>. QED BY <1>1, <1>2, <1>3, <1>5, <2>1, <2>2, <2>3, EndRefreshStep
  <1>6. CASE UNCHANGED tokens /\ EndRefresh(c, FALSE, 0) /\ UNCHANGED creds
    <2>1. NothingNewer' /\ 0 \in Versions
      BY <1>3, <1>6, AuthAssumption DEF IInv, NothingNewer, Versions
    <2>. QED BY <1>1, <1>2, <1>3, <1>6, <2>1, EndRefreshStep
  <1>. QED BY <1>4, <1>5, <1>6 DEF BadRequest

LEMMA RefreshFailsStep ==
  ASSUME IInv, NEW c \in Callers, RefreshFails(c), UNCHANGED call
  PROVE  IInv'
  <1>1. /\ At(c, "oidc") /\ EndRefresh(c, FALSE, 0)
        /\ UNCHANGED <<tokens, refreshToken, creds, flight, source>>
    BY DEF RefreshFails
  <1>2. /\ auth[c].sent \in Versions /\ 0 \in Versions
        /\ refreshToken \in Versions /\ creds \in Versions /\ source \in Versions
        /\ issuer \in [issued : Versions, valid : Versions, told : Versions]
        /\ tokens \in Tokens /\ tokens.token \in Nat
    BY AuthAssumption DEF IInv, TypeOK, AuthTypeOK, AuthStates, Versions, Tokens
  <1>3. /\ issuer' \in [issued : Versions, valid : Versions, told : Versions]
        /\ NothingNewer'
    <2>1. CASE UNCHANGED issuer
      BY <1>1, <1>2, <2>1 DEF IInv, NothingNewer
    <2>2. ASSUME NEW rotate \in BOOLEAN, Issues(auth[c].sent, rotate, FALSE)
          PROVE  /\ issuer' \in [issued : Versions, valid : Versions, told : Versions]
                 /\ NothingNewer'
      <3>1. /\ issuer' \in [issued : Versions, valid : Versions, told : Versions]
            /\ issuer'.issued = issuer.issued + 1 /\ issuer.issued \in Nat
            /\ issuer'.told = issuer.told
        BY <1>2, <2>2, IssuesType
      <3>. QED BY <1>1, <1>2, <3>1 DEF IInv, NothingNewer
    <2>. QED BY <2>1, <2>2 DEF RefreshFails
  <1>. QED BY <1>1, <1>2, <1>3, EndRefreshStep

\* The waiters of the flight that lands have their result; those of the other
\* wait on.
LEMMA LandStep ==
  ASSUME IInv, NEW c \in Callers, Land(c), UNCHANGED call
  PROVE  IInv'
  <1>. DEFINE W == flight[auth[c].key].waiters
              Told(d) == [auth[d] EXCEPT !.pc = "done", !.ok = auth[c].ok,
                                         !.result = auth[c].result]
  <1>1. /\ auth[c].pc = "land" /\ auth[c] \in AuthStates /\ auth[c].key \in Keys
        /\ W \subseteq Callers
    BY StateOf DEF Land, At, IInv, TypeOK, AuthTypeOK, Flights
  <1>2. UNCHANGED <<tokens, refreshToken, creds, mu, issuer, source>>
    BY DEF Land
  <1>3. \A d \in Callers : Told(d) \in AuthStates /\ Told(d).pc = "done"
    BY <1>1 DEF IInv, TypeOK, AuthTypeOK, AuthStates
  <1>4. auth' = [d \in Callers |-> IF d = c \/ d \in W THEN Told(d) ELSE auth[d]]
    BY DEF Land
  <1>5. flight' = [flight EXCEPT ![auth[c].key] = NoFlight]
    BY DEF Land
  <1>6. \A d \in Callers : d = c \/ d \in W => auth[d].pc \in {"land", "wait"}
    BY <1>1 DEF IInv, WaitersWait, At
  <1>. HIDE DEF Told
  <1>7. auth' \in [Callers -> AuthStates]
    BY <1>3, <1>4 DEF IInv, TypeOK, AuthTypeOK
  <1>8. /\ flight' \in [Keys -> Flights]
        /\ \A k \in Keys : flight'[k].waiters = IF k = auth[c].key THEN {} ELSE flight[k].waiters
    BY <1>1, <1>5 DEF IInv, TypeOK, AuthTypeOK, Flights, NoFlight
  <1>9. TypeOK'
    BY <1>2, <1>7, <1>8 DEF IInv, TypeOK, AuthTypeOK
  <1>10. OutsideOrWaitedFor'
    BY <1>3, <1>4, <1>6 DEF IInv, OutsideOrWaitedFor, At
  <1>11. WaitersWait'
    <2>. SUFFICES ASSUME NEW k \in Keys, NEW d \in flight'[k].waiters
                  PROVE  auth'[d].pc = "wait" /\ auth'[d].key = k
      BY DEF WaitersWait, At
    <2>1. k # auth[c].key /\ d \in flight[k].waiters
      BY <1>8
    <2>2. d \in Callers
      BY <2>1 DEF IInv, TypeOK, AuthTypeOK, Flights
    <2>3. auth[d].pc = "wait" /\ auth[d].key = k
      BY <2>1 DEF IInv, WaitersWait, At
    <2>4. d # c /\ d \notin W
      BY <1>1, <2>1, <2>3 DEF IInv, WaitersWait
    <2>. QED BY <1>4, <2>2, <2>3, <2>4
  <1>12. \A d \in Callers : auth'[d].pc = "oidc" <=> auth[d].pc = "oidc"
    BY <1>3, <1>4, <1>6
  <1>13. OneAtTheService'
    BY <1>2, <1>12 DEF IInv, OneAtTheService, At
  <1>14. (\A d \in Callers : At(d, "oidc") => Presenting(d))'
    <2>. SUFFICES ASSUME NEW d \in Callers, auth'[d].pc = "oidc"
                  PROVE  Presenting(d)'
      BY DEF At
    <2>1. auth'[d] = auth[d] /\ Presenting(d)
      BY <1>3, <1>4, <1>6, <1>12 DEF IInv, At
    <2>. QED BY <1>2, <2>1 DEF Presenting, TokenIsFresh
  <1>. QED BY <1>2, <1>9, <1>10, <1>11, <1>13, <1>14 DEF IInv, NothingNewer

\* Ageing makes no token fresh, and what the second program obtains is not known
\* to the gateway.
LEMMA WorldStep ==
  ASSUME IInv, World
  PROVE  IInv'
  <1>1. CASE TokenAges
    <2>1. /\ tokens' \in Tokens /\ tokens'.token = tokens.token /\ tokens'.life # "fresh"
          /\ UNCHANGED <<refreshToken, creds, mu, flight, auth, issuer, source, call>>
      BY <1>1 DEF World, TokenAges, IInv, TypeOK, AuthTypeOK, Tokens, Lives
    <2>. QED BY <2>1 DEF IInv, TypeOK, AuthTypeOK, OutsideOrWaitedFor, WaitersWait,
                         OneAtTheService, At, Presenting, TokenIsFresh, NothingNewer
  <1>2. CASE OutsiderRefreshes
    <2>1. UNCHANGED <<tokens, refreshToken, creds, mu, flight, auth, call>>
      BY <1>2 DEF World, OutsiderRefreshes
    <2>2. /\ issuer.issued \in Nat /\ issuer.issued + 1 \in Versions
          /\ tokens.token \in Nat
      BY <1>2, AuthAssumption
      DEF OutsiderRefreshes, IInv, TypeOK, AuthTypeOK, Versions, Tokens
    <2>3. /\ issuer' \in [issued : Versions, valid : Versions, told : Versions]
          /\ issuer'.issued = issuer.issued + 1 /\ issuer'.told = issuer.told
          /\ source' \in Versions
      BY <1>2, <2>2 DEF OutsiderRefreshes, IInv, TypeOK, AuthTypeOK
    <2>4. TypeOK'
      BY <2>1, <2>3 DEF IInv, TypeOK, AuthTypeOK
    <2>5. NothingNewer'
      BY <2>1, <2>2, <2>3 DEF IInv, NothingNewer
    <2>. QED BY <2>1, <2>4, <2>5 DEF IInv, OutsideOrWaitedFor, WaitersWait,
                         OneAtTheService, At, Presenting, TokenIsFresh
  <1>. QED BY <1>1, <1>2 DEF World

-----------------------------------------------------------------------------
(* The theorems.                                                           *)

LEMMA StutterStep == ASSUME IInv, UNCHANGED vars PROVE IInv'
  BY DEF vars, IInv, TypeOK, AuthTypeOK, OutsideOrWaitedFor, WaitersWait,
         OneAtTheService, At, Presenting, TokenIsFresh, NothingNewer

LEMMA NextIInv == IInv /\ [Next]_vars => IInv'
  <1>. SUFFICES ASSUME IInv, [Next]_vars PROVE IInv'
    OBVIOUS
  <1>1. CASE World
    BY <1>1, WorldStep
  <1>2. ASSUME NEW c \in Callers, Start(c) \/ CallStep(c)
        PROVE  IInv'
    BY <1>2, CallStepTurn, TurnStep
  <1>3. ASSUME NEW c \in Callers, AuthStep(c), UNCHANGED call
        PROVE  IInv'
    BY <1>3, CheckStep, JoinStep, LockStep, RefreshedStep, BadRequestStep, RefreshFailsStep,
       LandStep DEF AuthStep
  <1>4. CASE UNCHANGED vars
    BY <1>4, StutterStep
  <1>. QED BY <1>1, <1>2, <1>3, <1>4 DEF Next, Run

THEOREM InvariantHolds == Spec => []IInv
  BY InitIInv, NextIInv, PTL DEF Spec

\* Every state has the types that the token manager and RequestWithRetry rely on;
\* no call makes more attempts than it may.
THEOREM TypesOfCalls == Spec => []TypeOK
  <1>1. IInv => TypeOK
    BY DEF IInv
  <1>. QED BY <1>1, InvariantHolds, PTL

\* No refresh, of either key and by any goroutine, presents a refresh token that
\* a reply has already replaced.
THEOREM NewestTokenPresented == Spec => []PresentsNewestRefreshToken
  <1>1. IInv => PresentsNewestRefreshToken
    BY DEF IInv, Presenting, NothingNewer, PresentsNewestRefreshToken
  <1>. QED BY <1>1, InvariantHolds, PTL

\* Only the holder of m.mu changes the token, and what it puts there is new, or
\* what was there.
LEMMA TokenSteps ==
  ASSUME IInv, [Next]_vars
  PROVE  \/ tokens'.token = tokens.token
         \/ /\ tokens'.token > tokens.token
            /\ \E c \in Callers : mu = c /\ At(c, "oidc") /\ Presenting(c)
  <1>1. CASE World
    BY <1>1 DEF World, TokenAges, OutsiderRefreshes, IInv, TypeOK, AuthTypeOK, Tokens
  <1>2. ASSUME NEW c \in Callers, Start(c) \/ CallStep(c)
        PROVE  tokens' = tokens
    BY SMTT(60), <1>2, CallStepTurn
  <1>3. ASSUME NEW c \in Callers, Check(c) \/ Join(c) \/ Lock(c) \/ RefreshFails(c) \/ Land(c)
        PROVE  tokens' = tokens
    BY <1>3 DEF Check, Join, Lock, RefreshFails, Land
  <1>4. ASSUME NEW c \in Callers, BadRequest(c)
        PROVE  tokens'.token = tokens.token
    BY <1>4 DEF BadRequest, IInv, Presenting, TypeOK, AuthTypeOK, Tokens
  <1>5. ASSUME NEW c \in Callers, Refreshed(c)
        PROVE  /\ tokens'.token > tokens.token
               /\ mu = c /\ At(c, "oidc") /\ Presenting(c)
    <2>1. PICK rotate \in BOOLEAN : Issues(auth[c].sent, rotate, TRUE)
      BY <1>5 DEF Refreshed
    <2>2. auth[c].sent \in Versions /\ tokens.token \in Nat
      BY DEF IInv, TypeOK, AuthTypeOK, AuthStates, Tokens, Versions
    <2>3. issuer'.issued = issuer.issued + 1 /\ issuer.issued \in Nat
      BY <2>1, <2>2, IssuesType
    <2>4. tokens'.token = issuer'.issued /\ At(c, "oidc")
      BY <1>5 DEF Refreshed
    <2>. QED BY <2>2, <2>3, <2>4 DEF IInv, NothingNewer, OneAtTheService
  <1>6. CASE UNCHANGED vars
    BY <1>6 DEF vars
  <1>. QED BY <1>1, <1>2, <1>3, <1>4, <1>5, <1>6 DEF Next, Run, AuthStep

\* The access token never goes back, however ordinary refreshes, forced ones and
\* the degradation of a failed one meet.
THEOREM TokenOnlyAdvances == Spec => TokenNeverRegresses
  <1>1. IInv /\ [Next]_vars => [tokens'.token >= tokens.token]_authVars
    <2>. SUFFICES ASSUME IInv, [Next]_vars PROVE tokens'.token >= tokens.token
      OBVIOUS
    <2>1. tokens.token \in Nat /\ tokens'.token \in Nat
      BY NextIInv DEF IInv, TypeOK, AuthTypeOK, Tokens, Versions
    <2>. QED BY <2>1, TokenSteps
  <1>. QED BY <1>1, InvariantHolds, PTL DEF Spec, TokenNeverRegresses

\* An ordinary refresh replaces the token only when it is not fresh, however late
\* its goroutine has come to the lock.
THEOREM NoNeedlessRefresh == Spec => OneRefreshPerExpiry
  <1>1. IInv /\ [Next]_vars =>
          [\A c \in Callers :
             (/\ At(c, "oidc") /\ auth[c].key = "refresh"
              /\ tokens'.token # tokens.token) => ~TokenIsFresh]_authVars
    BY DEF IInv, Presenting
  <1>. QED BY <1>1, InvariantHolds, PTL DEF Spec, OneRefreshPerExpiry
=============================================================================
