---------------------------- MODULE AuthManager ----------------------------
(***************************************************************************)
(* internal/auth.Manager: the access token of one account, shared by every *)
(* goroutine that calls Kiro with it, and its refresh.                     *)
(*                                                                         *)
(* A goroutine enters with AccessToken or ForceRefresh.  Refreshes are     *)
(* coalesced by a singleflight.Group under two keys, and the OIDC call is  *)
(* made with m.mu held.  Other goroutines run between the unlocked read,   *)
(* the flight, the lock, each OIDC attempt and the landing of the flight.  *)
(*                                                                         *)
(* Tokens are numbered in the order the identity service issues them; 0 is *)
(* the empty access token.                                                 *)
(***************************************************************************)
EXTENDS Naturals, FiniteSets

CONSTANTS
  Callers,      \* goroutines
  Nobody,       \* no goroutine
  KiroCLI,      \* TRUE: credentials of a kiro-cli database; FALSE: a JSON file
  Outsider,     \* TRUE iff kiro-cli refreshes its own credentials meanwhile
  LossyReplies, \* TRUE iff a reply of the identity service may be lost
  MaxIssued     \* bound on the tokens the identity service issues

Keys == {"refresh", "refresh-force"}
Versions == 0 .. MaxIssued

ASSUME AuthAssumption ==
  /\ Nobody \notin Callers
  /\ {KiroCLI, Outsider, LossyReplies} \subseteq BOOLEAN
  /\ Outsider => KiroCLI
  /\ MaxIssued \in Nat \ {0}

VARIABLES
  tokens,         \* m.tokens: the access token and where its life is
  refreshToken,   \* m.refreshToken
  creds,          \* m.creds.RefreshToken
  mu,             \* the holder of m.mu during an OIDC call
  flight,         \* the singleflight.Group: leader and waiters of each key
  auth,           \* each goroutine inside this package
  issuer,         \* the identity service: tokens issued, the valid refresh token,
                  \* and (history) the last one a reply has brought to m
  source          \* the refresh token in the JSON file or the database

authVars == <<tokens, refreshToken, creds, mu, flight, auth, issuer, source>>

-----------------------------------------------------------------------------
Lives == {"fresh", "expiring", "expired"}     \* expiring: within the threshold
Tokens == [token : Versions, life : Lives]

NoFlight == [leader |-> Nobody, waiters |-> {}]
Flights == [leader : Callers \cup {Nobody}, waiters : SUBSET Callers]

\* pc "check" is AccessToken, "recheck" Refresh before its flight; "done" holds
\* until the caller takes the result.
AuthStates ==
  [pc : {"out", "check", "recheck", "join", "wait", "lock", "oidc", "land", "done"},
   key : Keys,
   second : BOOLEAN,                     \* the attempt after a reload
   sent : Versions,                      \* the refresh token in the OIDC call
   old : Tokens,                         \* oldToken, and its life at the lock
   ok : BOOLEAN, result : Versions]

Outside ==
  [pc |-> "out", key |-> "refresh", second |-> FALSE, sent |-> 0,
   old |-> [token |-> 0, life |-> "expired"], ok |-> FALSE, result |-> 0]

AuthTypeOK ==
  /\ tokens \in Tokens
  /\ refreshToken \in Versions /\ creds \in Versions /\ source \in Versions
  /\ mu \in Callers \cup {Nobody}
  /\ flight \in [Keys -> Flights]
  /\ auth \in [Callers -> AuthStates]
  /\ issuer \in [issued : Versions, valid : Versions, told : Versions]

\* NewManagerForAccount: the source has a refresh token, version 0 of the
\* service, and perhaps an access token of any age.
AuthInit ==
  /\ \/ tokens = [token |-> 0, life |-> "expired"]
     \/ tokens \in [token : {1}, life : Lives]
  /\ refreshToken = 0 /\ creds = 0 /\ source = 0
  /\ mu = Nobody
  /\ flight = [key \in Keys |-> NoFlight]
  /\ auth = [c \in Callers |-> Outside]
  /\ issuer = [issued |-> tokens.token, valid |-> 0, told |-> 0]

-----------------------------------------------------------------------------
(* The way in and out, as the calling package sees it.                     *)

CallAccessToken(c) == auth' = [auth EXCEPT ![c] = [Outside EXCEPT !.pc = "check"]]

CallForceRefresh(c) ==
  auth' = [auth EXCEPT ![c] = [Outside EXCEPT !.pc = "join", !.key = "refresh-force"]]

Leave(c) == auth' = [auth EXCEPT ![c] = Outside]

-----------------------------------------------------------------------------
At(c, pc) == auth[c].pc = pc

\* The test that AccessToken, Refresh and doRefresh each make under m.mu.
TokenIsFresh == tokens.life = "fresh" /\ tokens.token # 0

\* AccessToken and then Refresh read the token, releasing m.mu in between.
Check(c) ==
  /\ mu = Nobody
  /\ At(c, "check") \/ At(c, "recheck")
  /\ auth' = [auth EXCEPT ![c] =
                IF TokenIsFresh
                THEN [@ EXCEPT !.pc = "done", !.ok = TRUE, !.result = tokens.token]
                ELSE [@ EXCEPT !.pc = IF At(c, "check") THEN "recheck" ELSE "join"]]
  /\ UNCHANGED <<tokens, refreshToken, creds, mu, flight, issuer, source>>

\* singleflight.Group.Do: lead a new flight, or wait for the one in the air.
Join(c) ==
  /\ At(c, "join")
  /\ LET key == auth[c].key IN
       IF flight[key].leader = Nobody
       THEN /\ flight' = [flight EXCEPT ![key].leader = c]
            /\ auth' = [auth EXCEPT ![c].pc = "lock"]
       ELSE /\ flight' = [flight EXCEPT ![key].waiters = @ \cup {c}]
            /\ auth' = [auth EXCEPT ![c].pc = "wait"]
  /\ UNCHANGED <<tokens, refreshToken, creds, mu, issuer, source>>

\* The request of doAWSSSORefreshAttempt goes out.
Calling(a) == [a EXCEPT !.pc = "oidc", !.sent = refreshToken, !.old = tokens]

\* Fault: doRefresh does not look at the token again under the lock.
LockUnchecked(c) ==
  /\ At(c, "lock") /\ mu = Nobody
  /\ mu' = c
  /\ auth' = [auth EXCEPT ![c] = Calling(@)]
  /\ UNCHANGED <<tokens, refreshToken, creds, flight, issuer, source>>

\* Fault: m.mu is not held during the OIDC call.
LockReleased(c) ==
  /\ At(c, "lock")
  /\ auth' = [auth EXCEPT ![c] =
                IF TokenIsFresh /\ @.key = "refresh"
                THEN [@ EXCEPT !.pc = "land", !.ok = TRUE, !.result = tokens.token]
                ELSE Calling(@)]
  /\ UNCHANGED <<tokens, refreshToken, creds, mu, flight, issuer, source>>

\* doRefresh takes m.mu and looks again, unless forced; the lock is kept only
\* for a call to the identity service.
Lock(c) ==
  /\ At(c, "lock") /\ mu = Nobody
  /\ IF TokenIsFresh /\ auth[c].key = "refresh"
     THEN /\ auth' = [auth EXCEPT ![c].pc = "land", ![c].ok = TRUE,
                                  ![c].result = tokens.token]
          /\ UNCHANGED mu
     ELSE /\ auth' = [auth EXCEPT ![c] = Calling(@)]
          /\ mu' = c
  /\ UNCHANGED <<tokens, refreshToken, creds, flight, issuer, source>>

\* doRefresh returns: m.mu is free, and the flight is about to land.
EndRefresh(c, ok, result) ==
  /\ mu' = Nobody
  /\ auth' = [auth EXCEPT ![c] = [Outside EXCEPT !.pc = "land", !.key = auth[c].key,
                                                  !.ok = ok, !.result = result]]

\* The identity service accepts a call that presents the valid refresh token:
\* it issues an access token, and perhaps a refresh token in place of that one.
Issues(sent, rotate, heard) ==
  /\ sent = issuer.valid
  /\ issuer.issued < MaxIssued
  /\ LET n == issuer.issued + 1 IN
       issuer' = [issued |-> n,
                  valid |-> IF rotate THEN n ELSE sent,
                  told |-> IF rotate /\ heard THEN n ELSE issuer.told]

\* source.Save exists for the JSON file only; its error is ignored.
Save(refreshed) == source' \in IF KiroCLI THEN {source} ELSE {source, refreshed}

\* loadFromSQLite reads into m.creds only; its errors are ignored.
LoadFromSQLite == creds' \in {creds, source}

\* doAWSSSORefreshAttempt with a 200.
Refreshed(c) ==
  /\ At(c, "oidc")
  /\ \E rotate \in BOOLEAN :
       /\ Issues(auth[c].sent, rotate, TRUE)
       /\ refreshToken' = IF rotate THEN issuer'.valid ELSE refreshToken
       /\ creds' = IF rotate THEN issuer'.valid ELSE creds
  /\ tokens' = [token |-> issuer'.issued, life |-> "fresh"]
  /\ Save(creds')
  /\ EndRefresh(c, TRUE, issuer'.issued)
  /\ UNCHANGED flight

\* The 400 of a stale refresh token or of an expired client registration.  With
\* kiro-cli credentials the database is read again, into m.creds, and the call
\* repeated once; after that an unexpired token is good enough if not forced.
BadRequest(c) ==
  /\ At(c, "oidc")
  /\ \/ /\ KiroCLI /\ ~auth[c].second
        /\ LoadFromSQLite
        /\ auth' = [auth EXCEPT ![c].second = TRUE, ![c].sent = refreshToken]
        /\ UNCHANGED <<tokens, mu>>
     \/ /\ ~KiroCLI \/ auth[c].second
        /\ LET old     == auth[c].old
               degrade == /\ KiroCLI /\ auth[c].key = "refresh"
                          /\ old.token # 0 /\ old.life # "expired"
           IN  IF degrade
               THEN /\ tokens' = [tokens EXCEPT !.token = old.token]
                    /\ EndRefresh(c, TRUE, old.token)
               ELSE UNCHANGED tokens /\ EndRefresh(c, FALSE, 0)
        /\ UNCHANGED creds
  /\ UNCHANGED <<refreshToken, flight, issuer, source>>

\* Any other failure: no connection, another status, a cancelled context, or a
\* reply that is lost or unreadable after the service has acted on the call.
RefreshFails(c) ==
  /\ At(c, "oidc")
  /\ \/ UNCHANGED issuer
     \/ LossyReplies /\ \E rotate \in BOOLEAN : Issues(auth[c].sent, rotate, FALSE)
  /\ EndRefresh(c, FALSE, 0)
  /\ UNCHANGED <<tokens, refreshToken, creds, flight, source>>

\* singleflight: the key is free again, and the waiters get what the leader got.
Land(c) ==
  /\ At(c, "land")
  /\ flight' = [flight EXCEPT ![auth[c].key] = NoFlight]
  /\ auth' = [d \in Callers |->
                IF d = c \/ d \in flight[auth[c].key].waiters
                THEN [auth[d] EXCEPT !.pc = "done", !.ok = auth[c].ok,
                                     !.result = auth[c].result]
                ELSE auth[d]]
  /\ UNCHANGED <<tokens, refreshToken, creds, mu, issuer, source>>

AuthStep(c) ==
  \/ Check(c) \/ Join(c) \/ Lock(c)
  \/ Refreshed(c) \/ BadRequest(c) \/ RefreshFails(c)
  \/ Land(c)

-----------------------------------------------------------------------------
(* The rest of the world.                                                  *)

\* A token comes within the threshold, and then expires.
TokenAges ==
  /\ tokens.life # "expired"
  /\ tokens' = [tokens EXCEPT !.life = IF @ = "fresh" THEN "expiring" ELSE "expired"]
  /\ UNCHANGED <<refreshToken, creds, mu, flight, auth, issuer, source>>

\* kiro-cli refreshes for itself and writes its database.
OutsiderRefreshes ==
  /\ Outsider /\ issuer.issued < MaxIssued
  /\ source = issuer.valid
  /\ issuer' = [issuer EXCEPT !.issued = @ + 1, !.valid = issuer.issued + 1]
  /\ source' = issuer'.valid
  /\ UNCHANGED <<tokens, refreshToken, creds, mu, flight, auth>>

-----------------------------------------------------------------------------
(* Properties.                                                             *)

\* The access token of an account never goes back to an older one: the graceful
\* degradation, which puts the token of before the refresh back, cannot undo
\* what a concurrent forced refresh has obtained.
TokenNeverRegresses == [][tokens'.token >= tokens.token]_authVars

\* Refreshes under the two keys, which nothing coalesces with one another,
\* never present a refresh token that a reply has already replaced.
PresentsNewestRefreshToken ==
  \A c \in Callers : At(c, "oidc") => auth[c].sent = issuer.told

\* "Si N peticiones ven el token vencido a la vez, se hace un refresco" (design,
\* section 5): however late a goroutine arrives at the lock, its ordinary
\* refresh never replaces a token that is still fresh.
OneRefreshPerExpiry ==
  [][\A c \in Callers :
       (/\ At(c, "oidc") /\ auth[c].key = "refresh"
        /\ tokens'.token # tokens.token) => ~TokenIsFresh]_authVars

\* refreshAWSSSO "recarga desde SQLite [...] y reintenta UNA vez" (oidc.go): the
\* second attempt presents the refresh token that the reload has read.
RetryPresentsReloadedToken ==
  \A c \in Callers : At(c, "oidc") /\ auth[c].second => auth[c].sent = creds
=============================================================================
