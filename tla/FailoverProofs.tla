--------------------------- MODULE FailoverProofs ---------------------------
(***************************************************************************)
(* Proofs about Failover, for every number of accounts and of requests,    *)
(* every assignment of ids, and every setting of the breaker.              *)
(***************************************************************************)
EXTENDS Failover, RecursionTheorems

(* The inductive invariant.  TypeOK alone does not say how the history of  *)
(* a request follows its exclude set, which is what keeps it from calling  *)
(* Kiro twice for one id: while it selects it has called for exactly the   *)
(* ids it excludes, and during an attempt for one more.                    *)
Bookkeeping(s) ==
  /\ s.pc = "idle" => s.exclude = {} /\ s.tried = {}
  /\ s.pc = "select" => s.tried = s.exclude
  /\ s.pc \in {"attempt", "serve"} =>
       /\ s.cur \in Idx
       /\ IdOf[s.cur] \notin s.exclude
       /\ s.tried = s.exclude \cup {IdOf[s.cur]}

IInv == TypeOK /\ \A r \in Requests : Bookkeeping(req[r])

-----------------------------------------------------------------------------
\* An account has an id, whatever its index.
LEMMA IdOfAccount == ASSUME NEW i \in Idx PROVE IdOf[i] \in Ids
  BY DEF Ids

\* A selected account has not been excluded by the request.
LEMMA SelectableIsNew ==
  ASSUME NEW exclude, NEW i \in Selectable(exclude)
  PROVE  i \in Idx /\ IdOf[i] \notin exclude
  <1>1. CASE N = 1
    BY <1>1 DEF Selectable
  <1>2. CASE N # 1
    BY <1>2 DEF Selectable, NextEnabled, Usable
  <1>. QED BY <1>1, <1>2

\* A report leaves the manager well typed.
LEMMA ReportSuccessType ==
  ASSUME ManagerTypeOK, NEW id, ReportSuccess(id)
  PROVE  ManagerTypeOK'
  <1>1. Healthy \in AccountStats
    BY AccountsAssumption DEF Healthy, AccountStats
  <1>2. stats' \in [Idx -> AccountStats]
    BY <1>1 DEF ManagerTypeOK, ReportSuccess
  <1>3. FirstWithID(id) \subseteq Idx
    BY DEF FirstWithID
  <1>4. sticky' \in Nat /\ (N > 0 => sticky' \in Idx)
    BY <1>3, AccountsAssumption DEF ManagerTypeOK, ReportSuccess, Idx
  <1>. QED BY <1>2, <1>4 DEF ManagerTypeOK, ReportSuccess

LEMMA ReportFailureAsType ==
  ASSUME ManagerTypeOK, NEW id, NEW kind, ReportFailureAs(id, kind)
  PROVE  ManagerTypeOK'
  <1>1. ASSUME NEW s \in AccountStats
        PROVE  OneMoreFailure(s) \in AccountStats
    <2>1. MaxFails \in Nat /\ s.fails \in 0 .. MaxFails
      BY AccountsAssumption DEF AccountStats
    <2>2. (IF s.fails < MaxFails THEN s.fails + 1 ELSE s.fails) \in 0 .. MaxFails
      BY <2>1
    <2>. QED BY <2>2 DEF OneMoreFailure, AccountStats
  <1>a. ASSUME NEW s \in AccountStats
        PROVE  [s EXCEPT !.msg = TRUE] \in AccountStats
    BY DEF AccountStats
  <1>2. stats' \in [Idx -> AccountStats]
    BY <1>1, <1>a DEF ManagerTypeOK, ReportFailureAs
  <1>. QED BY <1>2 DEF ManagerTypeOK, ReportFailureAs

LEMMA TickType == ASSUME ManagerTypeOK, Tick PROVE ManagerTypeOK'
  <1>1. ASSUME NEW s \in AccountStats PROVE [s EXCEPT !.age = @ + 1] \in AccountStats
    BY DEF AccountStats
  <1>2. stats' \in [Idx -> AccountStats]
    BY <1>1 DEF ManagerTypeOK, Tick
  <1>. QED BY <1>2 DEF ManagerTypeOK, Tick

-----------------------------------------------------------------------------
\* What the requests share: the manager, and the history of its successes.
SharedTypeOK == ManagerTypeOK /\ lastSuccess \in SUBSET Ids

\* A step of one request keeps the invariant if the new state of that request
\* is well typed and well kept.
LEMMA OneRequestMoves ==
  ASSUME IInv, SharedTypeOK', NEW r \in Requests,
         NEW s \in RequestStates, Bookkeeping(s), req' = [req EXCEPT ![r] = s]
  PROVE  IInv'
  <1>1. req' \in [Requests -> RequestStates]
    BY DEF IInv, TypeOK
  <1>2. ASSUME NEW q \in Requests PROVE Bookkeeping(req'[q])
    BY DEF IInv, TypeOK
  <1>. QED BY <1>1, <1>2 DEF IInv, TypeOK, SharedTypeOK

LEMMA SharedUnchanged ==
  ASSUME SharedTypeOK, UNCHANGED <<managerVars, lastSuccess>> PROVE SharedTypeOK'
  BY DEF SharedTypeOK, ManagerTypeOK, managerVars

\* An answered request is an idle one.
LEMMA AnsweredKeepsIInv ==
  ASSUME IInv, SharedTypeOK', NEW r \in Requests,
         NEW kind \in {"served", "broken", "fatal", "exhausted", "local"},
         NEW status \in Nat, NEW from \in Idx \cup {NoIdx},
         Answered(r, kind, status, from)
  PROVE  IInv'
  <1>. DEFINE s == Idle([kind |-> kind, status |-> status, from |-> from])
  <1>1. s \in RequestStates
    BY DEF RequestStates, Idle, Answers
  <1>2. Bookkeeping(s)
    BY DEF Bookkeeping, Idle
  <1>3. req' = [req EXCEPT ![r] = s]
    BY DEF Answered
  <1>. QED BY <1>1, <1>2, <1>3, OneRequestMoves

\* A request whose attempt failed selects again, one id further.
LEMMA NextTurnKeepsIInv ==
  ASSUME IInv, SharedTypeOK', NEW r \in Requests, req[r].pc = "attempt",
         NEW status \in Nat, NextTurn(r, status)
  PROVE  IInv'
  <1>. DEFINE s == [req[r] EXCEPT !.pc = "select", !.lastStatus = status,
                                  !.exclude = @ \cup {IdOf[req[r].cur]}]
  <1>1. req[r] \in RequestStates /\ Bookkeeping(req[r])
    BY DEF IInv, TypeOK
  <1>2. req[r].cur \in Idx /\ IdOf[req[r].cur] \in Ids
    BY <1>1, IdOfAccount DEF Bookkeeping
  <1>3. s \in RequestStates
    BY <1>1, <1>2 DEF RequestStates
  <1>4. Bookkeeping(s)
    BY <1>1 DEF Bookkeeping, RequestStates
  <1>5. req' = [req EXCEPT ![r] = s]
    BY DEF NextTurn
  <1>. QED BY <1>3, <1>4, <1>5, OneRequestMoves

\* The message of an ExhaustedAccountsError is that of an account, if any.
LEMMA ExhaustedMsgType ==
  ASSUME ManagerTypeOK PROVE ExhaustedMsgFrom \in Idx \cup {NoIdx}
  <1>1. CASE N > 0 /\ stats[IF N = 1 THEN 0 ELSE (sticky + N - 1) % N].msg
    BY <1>1, AccountsAssumption DEF ExhaustedMsgFrom, ManagerTypeOK, Idx
  <1>. QED BY <1>1 DEF ExhaustedMsgFrom

-----------------------------------------------------------------------------
\* The initial state satisfies the invariant.
LEMMA InitEstablishesIInv == Init => IInv
  <1>. SUFFICES ASSUME Init PROVE IInv
    OBVIOUS
  <1>1. Healthy \in AccountStats
    BY AccountsAssumption DEF Healthy, AccountStats
  <1>2. ManagerTypeOK
    BY <1>1, AccountsAssumption DEF Init, ManagerInit, ManagerTypeOK, Idx
  <1>3. Idle(NoAnswer) \in RequestStates /\ Bookkeeping(Idle(NoAnswer))
    BY DEF Idle, NoAnswer, RequestStates, Answers, Bookkeeping
  <1>. QED BY <1>2, <1>3 DEF Init, IInv, TypeOK

\* Every step preserves it, one action at a time.
LEMMA NextKeepsIInv == IInv /\ [Next]_vars => IInv'
  <1>. SUFFICES ASSUME IInv, [Next]_vars PROVE IInv'
    OBVIOUS
  <1>1. SharedTypeOK /\ ManagerTypeOK
    BY DEF IInv, TypeOK, SharedTypeOK
  <1>2. CASE UNCHANGED vars
    BY <1>2 DEF IInv, TypeOK, ManagerTypeOK, vars
  <1>3. CASE PassTime
    BY <1>1, <1>3, TickType DEF PassTime, IInv, TypeOK
  <1>4. ASSUME NEW r \in Requests PROVE req[r] \in RequestStates /\ Bookkeeping(req[r])
    BY DEF IInv, TypeOK
  <1>5. ASSUME NEW r \in Requests, Arrive(r) PROVE IInv'
    <2>. DEFINE s == [Idle(NoAnswer) EXCEPT !.pc = "select"]
    <2>1. s \in RequestStates /\ Bookkeeping(s)
      BY DEF Idle, NoAnswer, RequestStates, Answers, Bookkeeping
    <2>2. SharedTypeOK'
      BY <1>1, <1>5, SharedUnchanged DEF Arrive
    <2>. QED BY <1>5, <2>1, <2>2, OneRequestMoves DEF Arrive
  <1>6. ASSUME NEW r \in Requests, Select(r) PROVE IInv'
    <2>1. PICK i \in Selectable(req[r].exclude) :
            req' = [req EXCEPT ![r].pc = "attempt", ![r].cur = i,
                               ![r].doomed = req[r].gone,
                               ![r].tried = @ \cup {IdOf[i]}]
      BY <1>6 DEF Select
    <2>. DEFINE s == [req[r] EXCEPT !.pc = "attempt", !.cur = i,
                                    !.doomed = req[r].gone,
                                    !.tried = @ \cup {IdOf[i]}]
    <2>2. i \in Idx /\ IdOf[i] \notin req[r].exclude /\ IdOf[i] \in Ids
      BY SelectableIsNew, IdOfAccount
    <2>3. s \in RequestStates
      BY <1>4, <2>2 DEF RequestStates
    <2>4. Bookkeeping(s)
      BY <1>4, <1>6, <2>2 DEF Select, Bookkeeping, RequestStates
    <2>5. req' = [req EXCEPT ![r] = s]
      BY <2>1
    <2>6. SharedTypeOK'
      BY <1>1, <1>6, SharedUnchanged DEF Select
    <2>. QED BY <2>3, <2>4, <2>5, <2>6, OneRequestMoves
  <1>7. ASSUME NEW r \in Requests, GiveUp(r) PROVE IInv'
    <2>. DEFINE last   == req[r].lastStatus
                status == IF N <= 1 /\ last # 0 THEN last ELSE 503
                from   == IF req[r].cur # NoIdx THEN req[r].cur ELSE ExhaustedMsgFrom
    <2>1. status \in Nat
      BY <1>4 DEF RequestStates
    <2>3. from \in Idx \cup {NoIdx}
      BY <1>1, <1>4, ExhaustedMsgType DEF RequestStates
    <2>4. SharedTypeOK'
      BY <1>1, <1>7, SharedUnchanged DEF GiveUp
    <2>5. Answered(r, "exhausted", status, from)
      BY <1>7 DEF GiveUp
    <2>. HIDE DEF status, from
    <2>. QED BY <2>1, <2>3, <2>4, <2>5, AnsweredKeepsIInv
  <1>8. ASSUME NEW r \in Requests, LocalError(r) PROVE IInv'
    <2>1. SharedTypeOK'
      BY <1>1, <1>8, SharedUnchanged DEF LocalError
    <2>. QED BY <1>8, <2>1, AnsweredKeepsIInv DEF LocalError
  <1>9. ASSUME NEW r \in Requests, Succeed(r) PROVE IInv'
    <2>. DEFINE s == [req[r] EXCEPT !.pc = "serve"]
    <2>1. s \in RequestStates /\ Bookkeeping(s)
      BY <1>4, <1>9 DEF Succeed, RequestStates, Bookkeeping
    <2>2. SharedTypeOK'
      <3>1. IdOf[req[r].cur] \in Ids
        BY <1>4, <1>9, IdOfAccount DEF Succeed, Bookkeeping
      <3>. QED BY <1>1, <1>9, <3>1, ReportSuccessType DEF Succeed, SharedTypeOK
    <2>3. req' = [req EXCEPT ![r] = s]
      BY <1>9 DEF Succeed
    <2>. QED BY <2>1, <2>2, <2>3, OneRequestMoves
  <1>10. ASSUME NEW r \in Requests, TransportError(r) PROVE IInv'
    <2>1. PICK code \in TransportCodes : NextTurn(r, code)
      BY <1>10 DEF TransportError
    <2>2. code \in Nat
      BY RequestsAssumption
    <2>3. SharedTypeOK'
      BY <1>1, <1>10, ReportFailureAsType DEF TransportError, SharedTypeOK
    <2>. QED BY <1>10, <2>1, <2>2, <2>3, NextTurnKeepsIInv DEF TransportError
  <1>11. ASSUME NEW r \in Requests, KiroError(r) PROVE IInv'
    <2>1. PICK e \in KiroErrors :
            /\ ReportFailure(IdOf[req[r].cur], e.status, e.reason)
            /\ IF Classify(e.status, e.reason) = "fatal"
               THEN Answered(r, "fatal", ClientStatus(r, e), req[r].cur)
               ELSE NextTurn(r, e.status)
      BY <1>11 DEF KiroError
    <2>2. e.status \in Nat /\ ClientStatus(r, e) \in Nat
      BY RequestsAssumption DEF ClientStatus
    <2>3. SharedTypeOK'
      BY <1>1, <1>11, <2>1, ReportFailureAsType DEF KiroError, ReportFailure, SharedTypeOK
    <2>4. req[r].cur \in Idx \cup {NoIdx} /\ req[r].pc = "attempt"
      BY <1>4, <1>11 DEF RequestStates, KiroError
    <2>5. CASE Classify(e.status, e.reason) = "fatal"
      BY <2>1, <2>2, <2>3, <2>4, <2>5, AnsweredKeepsIInv
    <2>6. CASE Classify(e.status, e.reason) # "fatal"
      BY <2>1, <2>2, <2>3, <2>4, <2>6, NextTurnKeepsIInv
    <2>. QED BY <2>5, <2>6
  <1>12. ASSUME NEW r \in Requests, Serve(r) PROVE IInv'
    <2>1. SharedTypeOK'
      BY <1>1, <1>12, SharedUnchanged DEF Serve
    <2>2. NoIdx \in Idx \cup {NoIdx} /\ 200 \in Nat
      OBVIOUS
    <2>. QED BY <1>12, <2>1, <2>2, AnsweredKeepsIInv DEF Serve
  <1>13. ASSUME NEW r \in Requests, Disconnect(r) PROVE IInv'
    <2>. DEFINE s == [req[r] EXCEPT !.gone = TRUE]
    <2>1. s \in RequestStates /\ Bookkeeping(s)
      BY <1>4, <1>13 DEF RequestStates, Bookkeeping
    <2>2. SharedTypeOK'
      BY <1>1, <1>13, SharedUnchanged DEF Disconnect
    <2>3. req' = [req EXCEPT ![r] = s]
      BY <1>13 DEF Disconnect
    <2>. QED BY <2>1, <2>2, <2>3, OneRequestMoves
  <1>. QED
    BY <1>2, <1>3, <1>5, <1>6, <1>7, <1>8, <1>9, <1>10, <1>11, <1>12, <1>13
    DEF Next, Handle

\* The invariant holds throughout.
LEMMA Invariance == Spec => []IInv
  BY InitEstablishesIInv, NextKeepsIInv, PTL DEF Spec

\* Type correctness of the failover loop and of the manager it shares: in
\* particular the sticky index always names an account.
THEOREM TypeCorrect == Spec => []TypeOK
  <1>1. IInv => TypeOK
    BY DEF IInv
  <1>. QED BY <1>1, Invariance, PTL

-----------------------------------------------------------------------------
(* The loop implements FailoverContract: initial states map to initial     *)
(* states, and every step maps to a step of the contract or to a stutter.  *)

\* The contract's view of a request that moves from one pc to another.
LEMMA MovesPhase ==
  ASSUME IInv, NEW r \in Requests, NEW s \in RequestStates,
         req' = [req EXCEPT ![r] = s]
  PROVE  /\ Contract!Move(r, Phase[req[r].pc], Phase[s.pc])
         /\ [q \in Requests |-> req'[q].tried] =
              [[q \in Requests |-> req[q].tried] EXCEPT ![r] = s.tried]
  <1>1. req \in [Requests -> RequestStates]
    BY DEF IInv, TypeOK
  <1>2. req' = [q \in Requests |-> IF q = r THEN s ELSE req[q]]
    BY <1>1
  <1>3. [q \in Requests |-> Phase[req'[q].pc]] =
          [[q \in Requests |-> Phase[req[q].pc]] EXCEPT ![r] = Phase[s.pc]]
    BY <1>2
  <1>4. [q \in Requests |-> req'[q].tried] =
          [[q \in Requests |-> req[q].tried] EXCEPT ![r] = s.tried]
    BY <1>2
  <1>. QED BY <1>3, <1>4 DEF Contract!Move

LEMMA InitRefines == Init => Contract!Init
  BY DEF Init, Idle, Phase, Contract!Init

LEMMA AnsweredRefines ==
  ASSUME IInv, NEW r \in Requests, req[r].pc # "idle",
         NEW kind \in {"served", "broken", "fatal", "exhausted", "local"},
         NEW status \in Nat, NEW from \in Idx \cup {NoIdx},
         Answered(r, kind, status, from)
  PROVE  Contract!Answer(r)
  <1>. DEFINE s == Idle([kind |-> kind, status |-> status, from |-> from])
  <1>1. s \in RequestStates /\ s.pc = "idle" /\ s.tried = {}
    BY DEF RequestStates, Idle, Answers
  <1>2. req' = [req EXCEPT ![r] = s]
    BY DEF Answered
  <1>3. req[r].pc \in {"select", "attempt", "serve"}
    BY DEF IInv, TypeOK, RequestStates
  <1>4. Phase[req[r].pc] \in {"choosing", "calling", "delivering"} /\ Phase["idle"] = "idle"
    BY <1>3 DEF Phase
  <1>. HIDE DEF s
  <1>5. /\ Contract!Move(r, Phase[req[r].pc], Phase[s.pc])
        /\ [q \in Requests |-> req'[q].tried] =
             [[q \in Requests |-> req[q].tried] EXCEPT ![r] = s.tried]
    BY <1>1, <1>2, MovesPhase
  <1>. QED BY <1>1, <1>4, <1>5 DEF Contract!Answer

\* An attempt that is over without having called Kiro again is a Fail or a
\* Deliver of the contract.
LEMMA FailRefines ==
  ASSUME IInv, NEW r \in Requests, req[r].pc = "attempt",
         NEW s \in RequestStates, req' = [req EXCEPT ![r] = s],
         s.tried = req[r].tried
  PROVE  /\ s.pc = "select" => Contract!Fail(r)
         /\ s.pc = "serve" => Contract!Deliver(r)
         /\ s.pc = "attempt" => UNCHANGED Contract!contractVars
  <1>1. req \in [Requests -> RequestStates]
    BY DEF IInv, TypeOK
  <1>2. /\ Phase["attempt"] = "calling" /\ Phase["select"] = "choosing"
        /\ Phase["serve"] = "delivering"
    BY DEF Phase
  <1>3. /\ Contract!Move(r, Phase[req[r].pc], Phase[s.pc])
        /\ [q \in Requests |-> req'[q].tried] =
             [[q \in Requests |-> req[q].tried] EXCEPT ![r] = s.tried]
    BY MovesPhase
  <1>4. [[q \in Requests |-> req[q].tried] EXCEPT ![r] = s.tried] =
          [q \in Requests |-> req[q].tried]
    OBVIOUS
  <1>5. CASE s.pc = "select"
    BY <1>2, <1>3, <1>4, <1>5 DEF Contract!Fail
  <1>6. CASE s.pc = "serve"
    BY <1>2, <1>3, <1>4, <1>6 DEF Contract!Deliver
  <1>7. CASE s.pc = "attempt"
    <2>1. [q \in Requests |-> Phase[req'[q].pc]] = [q \in Requests |-> Phase[req[q].pc]]
      BY <1>1, <1>7
    <2>. QED BY <2>1, <1>3, <1>4, <1>7 DEF Contract!contractVars
  <1>. QED BY <1>5, <1>6, <1>7

LEMMA NextTurnRefines ==
  ASSUME IInv, NEW r \in Requests, req[r].pc = "attempt",
         NEW status \in Nat, NextTurn(r, status)
  PROVE  Contract!Fail(r)
  <1>. DEFINE s == [req[r] EXCEPT !.pc = "select", !.lastStatus = status,
                                  !.exclude = @ \cup {IdOf[req[r].cur]}]
  <1>1. req[r] \in RequestStates /\ Bookkeeping(req[r])
    BY DEF IInv, TypeOK
  <1>2. req[r].cur \in Idx /\ IdOf[req[r].cur] \in Ids
    BY <1>1, IdOfAccount DEF Bookkeeping
  <1>3. s \in RequestStates
    BY <1>1, <1>2 DEF RequestStates
  <1>4. s.pc = "select" /\ s.tried = req[r].tried
    BY <1>1 DEF RequestStates
  <1>5. req' = [req EXCEPT ![r] = s]
    BY DEF NextTurn
  <1>. HIDE DEF s
  <1>. QED BY <1>3, <1>4, <1>5, FailRefines


LEMMA SelectRefines ==
  ASSUME IInv, NEW r \in Requests, Select(r)
  PROVE  Contract!Call(r)
  <1>1. PICK i \in Selectable(req[r].exclude) :
          req' = [req EXCEPT ![r].pc = "attempt", ![r].cur = i,
                             ![r].doomed = req[r].gone,
                             ![r].tried = @ \cup {IdOf[i]}]
    BY DEF Select
  <1>2. req[r] \in RequestStates /\ Bookkeeping(req[r]) /\ req[r].pc = "select"
    BY DEF IInv, TypeOK, Select
  <1>3. i \in Idx /\ IdOf[i] \in Ids /\ IdOf[i] \notin req[r].tried
    BY <1>2, SelectableIsNew, IdOfAccount DEF Bookkeeping
  <1>4. PICK s \in RequestStates :
          /\ s.pc = "attempt" /\ s.tried = req[r].tried \cup {IdOf[i]}
          /\ req' = [req EXCEPT ![r] = s]
    <2>. DEFINE s == [req[r] EXCEPT !.pc = "attempt", !.cur = i,
                                    !.doomed = req[r].gone,
                                    !.tried = @ \cup {IdOf[i]}]
    <2>1. s \in RequestStates /\ s.pc = "attempt" /\ s.tried = req[r].tried \cup {IdOf[i]}
      BY <1>2, <1>3 DEF RequestStates
    <2>2. req' = [req EXCEPT ![r] = s]
      BY <1>1
    <2>. QED BY <2>1, <2>2
  <1>6. Phase["attempt"] = "calling" /\ Phase["select"] = "choosing"
    BY DEF Phase
  <1>7. /\ Contract!Move(r, Phase[req[r].pc], Phase[s.pc])
        /\ [q \in Requests |-> req'[q].tried] =
             [[q \in Requests |-> req[q].tried] EXCEPT ![r] = s.tried]
    BY <1>4, MovesPhase
  <1>. QED BY ZenonT(60), <1>2, <1>3, <1>4, <1>6, <1>7 DEF Contract!Call

LEMMA NextRefines ==
  IInv /\ [Next]_vars => [Contract!Next]_(Contract!contractVars)
  <1>. SUFFICES ASSUME IInv, [Next]_vars
                PROVE  Contract!Next \/ UNCHANGED Contract!contractVars
    OBVIOUS
  <1>1. ASSUME NEW r \in Requests PROVE req[r] \in RequestStates /\ Bookkeeping(req[r])
    BY DEF IInv, TypeOK
  <1>2. CASE UNCHANGED vars \/ PassTime
    BY <1>2 DEF vars, PassTime, Contract!contractVars
  <1>3. ASSUME NEW r \in Requests, Arrive(r) PROVE Contract!Open(r)
    <2>. DEFINE s == [Idle(NoAnswer) EXCEPT !.pc = "select"]
    <2>1. s \in RequestStates /\ s.pc = "select" /\ s.tried = {}
      BY DEF Idle, NoAnswer, RequestStates, Answers
    <2>2. req' = [req EXCEPT ![r] = s]
      BY <1>3 DEF Arrive
    <2>3. Phase["idle"] = "idle" /\ Phase["select"] = "choosing" /\ req[r].pc = "idle"
      BY <1>3 DEF Phase, Arrive
    <2>. HIDE DEF s
    <2>4. /\ Contract!Move(r, Phase[req[r].pc], Phase[s.pc])
          /\ [q \in Requests |-> req'[q].tried] =
               [[q \in Requests |-> req[q].tried] EXCEPT ![r] = s.tried]
      BY <2>1, <2>2, MovesPhase
    <2>. QED BY <2>1, <2>3, <2>4 DEF Contract!Open
  <1>4. ASSUME NEW r \in Requests, GiveUp(r) PROVE Contract!Answer(r)
    <2>. DEFINE last   == req[r].lastStatus
                status == IF N <= 1 /\ last # 0 THEN last ELSE 503
                from   == IF req[r].cur # NoIdx THEN req[r].cur ELSE ExhaustedMsgFrom
    <2>1. status \in Nat
      BY <1>1 DEF RequestStates
    <2>2. from \in Idx \cup {NoIdx}
      BY <1>1, ExhaustedMsgType DEF RequestStates, IInv, TypeOK
    <2>3. Answered(r, "exhausted", status, from) /\ req[r].pc # "idle"
      BY <1>4 DEF GiveUp
    <2>. HIDE DEF status, from
    <2>. QED BY <2>1, <2>2, <2>3, AnsweredRefines
  <1>5. ASSUME NEW r \in Requests, LocalError(r) PROVE Contract!Answer(r)
    BY <1>5, AnsweredRefines DEF LocalError
  <1>6. ASSUME NEW r \in Requests, Succeed(r) PROVE Contract!Deliver(r)
    <2>. DEFINE s == [req[r] EXCEPT !.pc = "serve"]
    <2>1. /\ s \in RequestStates /\ s.pc = "serve" /\ s.tried = req[r].tried
          /\ req[r].pc = "attempt" /\ req' = [req EXCEPT ![r] = s]
      BY <1>1, <1>6 DEF Succeed, RequestStates
    <2>. HIDE DEF s
    <2>. QED BY <2>1, FailRefines
  <1>7. ASSUME NEW r \in Requests, TransportError(r) PROVE Contract!Fail(r)
    BY <1>7, RequestsAssumption, NextTurnRefines DEF TransportError
  <1>8. ASSUME NEW r \in Requests, KiroError(r)
        PROVE  Contract!Answer(r) \/ Contract!Fail(r)
    <2>1. PICK e \in KiroErrors :
            IF Classify(e.status, e.reason) = "fatal"
            THEN Answered(r, "fatal", ClientStatus(r, e), req[r].cur)
            ELSE NextTurn(r, e.status)
      BY <1>8 DEF KiroError
    <2>2. e.status \in Nat /\ ClientStatus(r, e) \in Nat
      BY RequestsAssumption DEF ClientStatus
    <2>3. req[r].cur \in Idx \cup {NoIdx} /\ req[r].pc = "attempt"
      BY <1>1, <1>8 DEF RequestStates, KiroError
    <2>4. CASE Classify(e.status, e.reason) = "fatal"
      BY <2>1, <2>2, <2>3, <2>4, AnsweredRefines
    <2>5. CASE Classify(e.status, e.reason) # "fatal"
      BY <2>1, <2>2, <2>3, <2>5, NextTurnRefines
    <2>. QED BY <2>4, <2>5
  <1>9. ASSUME NEW r \in Requests, Serve(r) PROVE Contract!Answer(r)
    <2>1. req[r].pc # "idle" /\ NoIdx \in Idx \cup {NoIdx} /\ 200 \in Nat
      BY <1>9 DEF Serve
    <2>. QED BY <1>9, <2>1, AnsweredRefines DEF Serve
  <1>10. ASSUME NEW r \in Requests, Disconnect(r) PROVE UNCHANGED Contract!contractVars
    <2>1. \A q \in Requests : req'[q].pc = req[q].pc /\ req'[q].tried = req[q].tried
      BY <1>1, <1>10 DEF Disconnect, IInv, TypeOK, RequestStates
    <2>. QED BY <2>1 DEF Contract!contractVars
  <1>11. ASSUME NEW r \in Requests, Select(r) PROVE Contract!Call(r)
    BY <1>11, SelectRefines
  <1>. QED
    BY <1>2, <1>3, <1>4, <1>5, <1>6, <1>7, <1>8, <1>9, <1>10, <1>11
    DEF Next, Handle, Contract!Next

\* The failover loop implements its contract: no request calls Kiro twice for
\* one account id, goes on after a success, or is answered twice.
THEOREM FailoverImplementsContract == Spec => ContractSpec
  BY InitRefines, NextRefines, Invariance, PTL DEF Spec, ContractSpec, Contract!Spec

-----------------------------------------------------------------------------
\* A request moves only by an action of its own.
LEMMA OthersStay ==
  ASSUME IInv, NEW r \in Requests, NEW q \in Requests, q # r,
         Arrive(q) \/ Handle(q) \/ Disconnect(q)
  PROVE  req'[r] = req[r]
  <1>1. req \in [Requests -> RequestStates]
    BY DEF IInv, TypeOK
  <1>2. ASSUME Arrive(q) PROVE req'[r] = req[r]
    BY <1>1, <1>2 DEF Arrive
  <1>3. ASSUME Select(q) PROVE req'[r] = req[r]
    BY <1>1, <1>3 DEF Select
  <1>4. ASSUME GiveUp(q) PROVE req'[r] = req[r]
    BY <1>1, <1>4 DEF GiveUp, Answered
  <1>5. ASSUME LocalError(q) \/ Serve(q) PROVE req'[r] = req[r]
    BY <1>1, <1>5 DEF LocalError, Serve, Answered
  <1>6. ASSUME Succeed(q) PROVE req'[r] = req[r]
    BY <1>1, <1>6 DEF Succeed
  <1>7. ASSUME TransportError(q) PROVE req'[r] = req[r]
    BY <1>1, <1>7 DEF TransportError, NextTurn
  <1>8. ASSUME KiroError(q) PROVE req'[r] = req[r]
    <2>1. PICK e \in KiroErrors :
            IF Classify(e.status, e.reason) = "fatal"
            THEN Answered(q, "fatal", ClientStatus(q, e), req[q].cur)
            ELSE NextTurn(q, e.status)
      BY <1>8 DEF KiroError
    <2>2. CASE Classify(e.status, e.reason) = "fatal"
      BY <1>1, <2>1, <2>2 DEF Answered
    <2>3. CASE Classify(e.status, e.reason) # "fatal"
      BY <1>1, <2>1, <2>3 DEF NextTurn
    <2>. QED BY <2>2, <2>3
  <1>9. ASSUME Disconnect(q) PROVE req'[r] = req[r]
    BY <1>1, <1>9 DEF Disconnect
  <1>. QED BY <1>2, <1>3, <1>4, <1>5, <1>6, <1>7, <1>8, <1>9 DEF Handle

\* The two ends of a failed attempt leave it.
LEMMA NextTurnLeaves ==
  ASSUME req \in [Requests -> RequestStates], NEW r \in Requests, NEW status,
         NextTurn(r, status)
  PROVE  req'[r].pc = "select"
  BY DEF NextTurn, RequestStates

LEMMA AnsweredLeaves ==
  ASSUME req \in [Requests -> RequestStates], NEW r \in Requests,
         NEW kind, NEW status, NEW from, Answered(r, kind, status, from)
  PROVE  req'[r].pc = "idle"
  BY DEF Answered, Idle

\* The only step from the head of the loop to an answer is GiveUp.
LEMMA OnlyGiveUpExhausts ==
  ASSUME IInv, [Next]_vars, NEW r \in Requests, Exhausts(r)
  PROVE  GiveUp(r)
  <1>1. req[r].pc = "select" /\ req'[r].pc = "idle"
    BY DEF Exhausts
  <1>2. ~(UNCHANGED vars \/ PassTime)
    BY <1>1 DEF vars, PassTime
  <1>3. PICK q \in Requests : Arrive(q) \/ Handle(q) \/ Disconnect(q)
    BY <1>2 DEF Next
  <1>4. q = r
    BY <1>1, <1>3, OthersStay
  <1>5. ~Arrive(r) /\ ~LocalError(r) /\ ~Succeed(r) /\ ~TransportError(r)
         /\ ~KiroError(r) /\ ~Serve(r)
    BY <1>1 DEF Arrive, LocalError, Succeed, TransportError, KiroError, Serve
  <1>6. req \in [Requests -> RequestStates]
    BY DEF IInv, TypeOK
  <1>7. ASSUME Select(r) PROVE FALSE
    <2>1. PICK i \in Selectable(req[r].exclude) :
            req' = [req EXCEPT ![r].pc = "attempt", ![r].cur = i,
                               ![r].doomed = req[r].gone,
                               ![r].tried = @ \cup {IdOf[i]}]
      BY <1>7 DEF Select
    <2>. DEFINE s == [req[r] EXCEPT !.pc = "attempt", !.cur = i,
                                    !.doomed = req[r].gone,
                                    !.tried = @ \cup {IdOf[i]}]
    <2>2. s.pc = "attempt"
      BY <1>6 DEF RequestStates
    <2>3. req' = [req EXCEPT ![r] = s]
      BY <2>1
    <2>4. req'[r].pc = "attempt"
      BY <1>6, <2>2, <2>3
    <2>. QED BY <1>1, <2>4
  <1>8. ~Disconnect(r)
    BY <1>1, <1>6 DEF Disconnect, RequestStates
  <1>. QED BY <1>3, <1>4, <1>5, <1>7, <1>8 DEF Handle

\* A request gives up only when every account has been tried by it, or is
\* disabled, or is in quarantine at that moment; a sole account is always tried.
THEOREM NoPrematureSurrender == Spec => GivesUpOnlyWhenNoneLeft
  <1>1. ASSUME IInv, [Next]_vars, NEW r \in Requests, Exhausts(r), NEW i \in Idx
        PROVE  \/ IdOf[i] \in req[r].tried
               \/ N > 1 /\ (~enabled[i] \/ Quarantined(i))
    <2>1. GiveUp(r)
      BY <1>1, OnlyGiveUpExhausts
    <2>2. NoneSelectable(req[r].exclude) /\ req[r].exclude = req[r].tried
      BY <1>1, <2>1 DEF GiveUp, IInv, Bookkeeping
    <2>3. CASE N = 1
      BY <2>2, <2>3 DEF NoneSelectable, Selectable
    <2>4. CASE N # 1
      <3>1. N > 1
        BY <2>4, AccountsAssumption DEF Idx
      <3>2. Usable(i, req[r].exclude) => Quarantined(i)
        BY <2>2, <2>4 DEF NoneSelectable
      <3>. QED BY <2>2, <3>1, <3>2 DEF Usable
    <2>. QED BY <2>3, <2>4
  <1>2. IInv /\ [Next]_vars =>
          [\A r \in Requests : Exhausts(r) =>
             \A i \in Idx :
               \/ IdOf[i] \in req[r].tried
               \/ N > 1 /\ (~enabled[i] \/ Quarantined(i))]_vars
    BY <1>1
  <1>. QED BY <1>2, Invariance, PTL DEF Spec, GivesUpOnlyWhenNoneLeft

-----------------------------------------------------------------------------
\* A report touches the failures of the first account with the reported id
\* only, and either clears them or adds one.
LEMMA ReportsTouchOneId ==
  ASSUME ManagerTypeOK, NEW id, NEW i \in Idx, stats'[i].fails # stats[i].fails,
         ReportSuccess(id) \/ \E kind \in {"recoverable", "fatal"} : ReportFailureAs(id, kind)
  PROVE  IdOf[i] = id /\ stats'[i].fails \in {0, stats[i].fails + 1}
  <1>1. stats[i] \in AccountStats /\ stats[i].fails \in Nat
    BY AccountsAssumption DEF ManagerTypeOK, AccountStats
  <1>2. CASE ReportSuccess(id)
    BY <1>1, <1>2 DEF ReportSuccess, FirstWithID, Healthy
  <1>3. ASSUME NEW kind \in {"recoverable", "fatal"}, ReportFailureAs(id, kind)
        PROVE  IdOf[i] = id /\ stats'[i].fails \in {0, stats[i].fails + 1}
    <2>1. i \in FirstWithID(id)
      BY <1>3 DEF ReportFailureAs
    <2>2. CASE kind = "recoverable"
      BY <1>1, <1>3, <2>1, <2>2 DEF ReportFailureAs, OneMoreFailure, FirstWithID
    <2>3. CASE kind # "recoverable"
      BY <1>1, <1>3, <2>1, <2>3 DEF ReportFailureAs, AccountStats
    <2>. QED BY <2>1, <2>2, <2>3 DEF FirstWithID
  <1>. QED BY <1>2, <1>3

\* A step changes the failures of an account only if it ends an attempt on the
\* id of that account, and then it clears them or adds one.
THEOREM BlameIsPrecise == Spec => BlamesTheAccountTried
  <1>1. ASSUME IInv, [Next]_vars, NEW i \in Idx, stats'[i].fails # stats[i].fails
        PROVE  /\ stats'[i].fails \in {0, stats[i].fails + 1}
               /\ \E r \in Requests :
                    /\ req[r].pc = "attempt" /\ req'[r].pc # "attempt"
                    /\ IdOf[req[r].cur] = IdOf[i]
    <2>1. req \in [Requests -> RequestStates] /\ ManagerTypeOK
      BY <1>1 DEF IInv, TypeOK
    <2>2. ~PassTime
      BY SMTT(60), <1>1, <2>1 DEF PassTime, Tick, ManagerTypeOK, AccountStats
    <2>3. PICK r \in Requests : Succeed(r) \/ TransportError(r) \/ KiroError(r)
      BY <1>1, <2>2 DEF Next, Handle, Arrive, Select, GiveUp, LocalError, Serve,
                        Disconnect, managerVars, vars
    <2>4. req[r].pc = "attempt"
      BY <2>3 DEF Succeed, TransportError, KiroError
    <2>5. req'[r].pc # "attempt"
      <3>1. CASE Succeed(r)
        BY <2>1, <3>1 DEF Succeed, RequestStates
      <3>2. CASE TransportError(r)
        BY <2>1, <2>4, <3>2, NextTurnLeaves DEF TransportError
      <3>3. CASE KiroError(r)
        BY <2>1, <2>4, <3>3, NextTurnLeaves, AnsweredLeaves DEF KiroError
      <3>. QED BY <2>3, <3>1, <3>2, <3>3
    <2>6. \/ ReportSuccess(IdOf[req[r].cur])
          \/ \E kind \in {"recoverable", "fatal"} : ReportFailureAs(IdOf[req[r].cur], kind)
      BY <2>3 DEF Succeed, TransportError, KiroError, ReportFailure, Classify
    <2>7. IdOf[i] = IdOf[req[r].cur] /\ stats'[i].fails \in {0, stats[i].fails + 1}
      BY <1>1, <2>1, <2>6, ReportsTouchOneId
    <2>. QED BY <2>4, <2>5, <2>7
  <1>2. IInv /\ [Next]_vars =>
          [\A i \in Idx : stats'[i].fails # stats[i].fails =>
             /\ stats'[i].fails \in {0, stats[i].fails + 1}
             /\ \E r \in Requests :
                  /\ req[r].pc = "attempt" /\ req'[r].pc # "attempt"
                  /\ IdOf[req[r].cur] = IdOf[i]]_vars
    BY <1>1
  <1>. QED BY <1>2, Invariance, PTL DEF Spec, BlamesTheAccountTried

-----------------------------------------------------------------------------
(* An account whose upstream always answers shields every request from     *)
(* exhaustion, provided no two accounts share an id and no client leaves.  *)
(* The invariant: such an account has no failures, and no request has it   *)
(* in its exclude set.                                                     *)
DistinctIds == \A i, j \in Idx : IdOf[i] = IdOf[j] => i = j

Shielded ==
  /\ \A g \in GoodAccounts : stats[g].fails = 0
  /\ \A r \in Requests :
       /\ ~req[r].gone
       /\ \A g \in GoodAccounts : IdOf[g] \notin req[r].exclude
  /\ GoodAccountShields

\* A good account is selectable, so a request that finds none has no enabled
\* good account to turn to.
LEMMA GoodIsSelectable ==
  ASSUME IInv, Shielded, NEW r \in Requests,
         NoneSelectable(req[r].exclude), NEW g \in GoodAccounts
  PROVE  ~enabled[g]
  <1>1. g \in Idx /\ IdOf[g] \notin req[r].exclude /\ ~Quarantined(g)
    BY RequestsAssumption DEF Shielded, Quarantined
  <1>2. enabled[g] \in BOOLEAN
    BY <1>1 DEF IInv, TypeOK, ManagerTypeOK
  <1>3. CASE N = 1
    BY <1>1, <1>3 DEF NoneSelectable, Selectable
  <1>4. CASE N # 1
    BY <1>1, <1>2, <1>4 DEF NoneSelectable, Usable
  <1>. QED BY <1>3, <1>4

\* What a step of one request must not do to keep the shield up.
LEMMA ShieldKept ==
  ASSUME IInv, Shielded, NEW r \in Requests, NEW s \in RequestStates,
         req' = [req EXCEPT ![r] = s], enabled' = enabled,
         ~s.gone, \A g \in GoodAccounts : IdOf[g] \notin s.exclude,
         \A g \in GoodAccounts : stats'[g].fails = 0,
         s.answer.kind = "exhausted" => \A g \in GoodAccounts : ~enabled[g]
  PROVE  Shielded'
  <1>1. \A q \in Requests : req'[q] = IF q = r THEN s ELSE req[q]
    BY DEF IInv, TypeOK
  <1>. QED BY <1>1 DEF Shielded, GoodAccountShields

\* An account that does not fail is not charged for the failure of another.
LEMMA OthersFailuresDoNotCount ==
  ASSUME DistinctIds, ManagerTypeOK, NEW i \in Idx \ GoodAccounts, NEW kind,
         ReportFailureAs(IdOf[i], kind), \A g \in GoodAccounts : stats[g].fails = 0
  PROVE  \A g \in GoodAccounts : stats'[g].fails = 0
  BY RequestsAssumption DEF DistinctIds, ReportFailureAs, FirstWithID

\* Nor does a success charge anyone.
LEMMA SuccessChargesNobody ==
  ASSUME ManagerTypeOK, NEW id, ReportSuccess(id),
         \A g \in GoodAccounts : stats[g].fails = 0
  PROVE  \A g \in GoodAccounts : stats'[g].fails = 0
  BY RequestsAssumption DEF ReportSuccess, Healthy

LEMMA ShieldInit == ASSUME ~Disconnects PROVE Init => Shielded
  BY RequestsAssumption
  DEF Init, ManagerInit, Healthy, Idle, NoAnswer, Shielded, GoodAccountShields

\* An answer that is not "exhausted" puts no shield down.
LEMMA AnsweredKeepsShield ==
  ASSUME IInv, Shielded, NEW r \in Requests, enabled' = enabled,
         \A g \in GoodAccounts : stats'[g].fails = 0,
         NEW kind \in {"served", "broken", "fatal", "exhausted", "local"},
         NEW status \in Nat, NEW from \in Idx \cup {NoIdx},
         Answered(r, kind, status, from),
         kind = "exhausted" => \A g \in GoodAccounts : ~enabled[g]
  PROVE  Shielded'
  <1>. DEFINE s == Idle([kind |-> kind, status |-> status, from |-> from])
  <1>1. /\ s \in RequestStates /\ ~s.gone /\ s.exclude = {}
        /\ s.answer.kind = kind
    BY DEF RequestStates, Idle, Answers
  <1>2. req' = [req EXCEPT ![r] = s]
    BY DEF Answered
  <1>. HIDE DEF s
  <1>. QED BY <1>1, <1>2, ShieldKept

LEMMA NextTurnKeepsShield ==
  ASSUME DistinctIds, IInv, Shielded, NEW r \in Requests, req[r].pc = "attempt",
         req[r].cur \notin GoodAccounts, enabled' = enabled,
         \A g \in GoodAccounts : stats'[g].fails = 0,
         NEW status \in Nat, NextTurn(r, status)
  PROVE  Shielded'
  <1>. DEFINE s == [req[r] EXCEPT !.pc = "select", !.lastStatus = status,
                                  !.exclude = @ \cup {IdOf[req[r].cur]}]
  <1>1. req[r] \in RequestStates /\ Bookkeeping(req[r])
    BY DEF IInv, TypeOK
  <1>2. req[r].cur \in Idx /\ IdOf[req[r].cur] \in Ids
    BY <1>1, IdOfAccount DEF Bookkeeping
  <1>3. /\ s \in RequestStates /\ s.gone = req[r].gone /\ s.answer = req[r].answer
        /\ s.exclude = req[r].exclude \cup {IdOf[req[r].cur]}
    BY <1>1, <1>2 DEF RequestStates
  <1>4. \A g \in GoodAccounts : IdOf[g] # IdOf[req[r].cur]
    BY <1>2, RequestsAssumption DEF DistinctIds
  <1>5. req' = [req EXCEPT ![r] = s]
    BY DEF NextTurn
  <1>. HIDE DEF s
  <1>. QED BY <1>3, <1>4, <1>5, ShieldKept DEF Shielded, GoodAccountShields

LEMMA ShieldNext ==
  ASSUME DistinctIds, ~Disconnects PROVE IInv /\ Shielded /\ [Next]_vars => Shielded'
  <1>. SUFFICES ASSUME IInv, Shielded, [Next]_vars PROVE Shielded'
    OBVIOUS
  <1>1. ManagerTypeOK /\ \A g \in GoodAccounts : g \in Idx /\ stats[g].fails = 0
    BY RequestsAssumption DEF IInv, TypeOK, Shielded
  <1>2. ASSUME NEW r \in Requests
        PROVE  /\ req[r] \in RequestStates /\ Bookkeeping(req[r]) /\ ~req[r].gone
               /\ \A g \in GoodAccounts : IdOf[g] \notin req[r].exclude
               /\ req[r].answer.kind = "exhausted" => \A g \in GoodAccounts : ~enabled[g]
    BY DEF IInv, TypeOK, Shielded, GoodAccountShields
  <1>3. CASE UNCHANGED vars
    BY <1>3 DEF vars, Shielded, GoodAccountShields
  <1>4. CASE PassTime
    <2>1. \A g \in GoodAccounts : stats'[g].fails = 0
      BY <1>1, <1>4 DEF PassTime, Tick, Quarantined
    <2>. QED BY <1>4, <2>1 DEF PassTime, Tick, Shielded, GoodAccountShields
  <1>5. ASSUME NEW r \in Requests, Arrive(r) PROVE Shielded'
    <2>. DEFINE s == [Idle(NoAnswer) EXCEPT !.pc = "select"]
    <2>1. /\ s \in RequestStates /\ ~s.gone /\ s.exclude = {}
          /\ s.answer.kind # "exhausted"
      BY DEF Idle, NoAnswer, RequestStates, Answers
    <2>2. req' = [req EXCEPT ![r] = s] /\ stats' = stats /\ enabled' = enabled
      BY <1>5 DEF Arrive, managerVars
    <2>. HIDE DEF s
    <2>. QED BY <1>1, <2>1, <2>2, ShieldKept
  <1>6. ASSUME NEW r \in Requests, Select(r) PROVE Shielded'
    <2>1. PICK i \in Selectable(req[r].exclude) :
            req' = [req EXCEPT ![r].pc = "attempt", ![r].cur = i,
                               ![r].doomed = req[r].gone,
                               ![r].tried = @ \cup {IdOf[i]}]
      BY <1>6 DEF Select
    <2>2. i \in Idx /\ IdOf[i] \in Ids
      BY SelectableIsNew, IdOfAccount
    <2>3. PICK s \in RequestStates :
            /\ s.gone = req[r].gone /\ s.exclude = req[r].exclude
            /\ s.answer = req[r].answer /\ req' = [req EXCEPT ![r] = s]
      <3>. DEFINE s == [req[r] EXCEPT !.pc = "attempt", !.cur = i,
                                      !.doomed = req[r].gone,
                                      !.tried = @ \cup {IdOf[i]}]
      <3>1. /\ s \in RequestStates /\ s.gone = req[r].gone
            /\ s.exclude = req[r].exclude /\ s.answer = req[r].answer
        BY <1>2, <2>2 DEF RequestStates
      <3>2. req' = [req EXCEPT ![r] = s]
        BY <2>1
      <3>. QED BY <3>1, <3>2
    <2>4. stats' = stats /\ enabled' = enabled
      BY <1>6 DEF Select, managerVars
    <2>. QED BY <1>1, <1>2, <2>3, <2>4, ShieldKept
  <1>7. ASSUME NEW r \in Requests, GiveUp(r) PROVE Shielded'
    <2>. DEFINE last   == req[r].lastStatus
                status == IF N <= 1 /\ last # 0 THEN last ELSE 503
                from   == IF req[r].cur # NoIdx THEN req[r].cur ELSE ExhaustedMsgFrom
    <2>1. status \in Nat
      BY <1>2 DEF RequestStates
    <2>2. from \in Idx \cup {NoIdx}
      BY <1>1, <1>2, ExhaustedMsgType DEF RequestStates
    <2>3. \A g \in GoodAccounts : ~enabled[g]
      BY <1>7, GoodIsSelectable DEF GiveUp
    <2>4. stats' = stats /\ enabled' = enabled /\ Answered(r, "exhausted", status, from)
      BY <1>7 DEF GiveUp, managerVars
    <2>. HIDE DEF status, from
    <2>. QED BY <1>1, <2>1, <2>2, <2>3, <2>4, AnsweredKeepsShield
  <1>8. ASSUME NEW r \in Requests, LocalError(r) \/ Serve(r) PROVE Shielded'
    <2>1. stats' = stats /\ enabled' = enabled
      BY <1>8 DEF LocalError, Serve, managerVars
    <2>2. PICK kind \in {"served", "broken", "local"}, status \in {200, 500} :
            Answered(r, kind, status, NoIdx)
      BY <1>8 DEF LocalError, Serve
    <2>. QED BY <1>1, <2>1, <2>2, AnsweredKeepsShield
  <1>9. ASSUME NEW r \in Requests, Succeed(r) PROVE Shielded'
    <2>. DEFINE s == [req[r] EXCEPT !.pc = "serve"]
    <2>1. /\ s \in RequestStates /\ s.gone = req[r].gone
          /\ s.exclude = req[r].exclude /\ s.answer = req[r].answer
      BY <1>2 DEF RequestStates
    <2>2. req' = [req EXCEPT ![r] = s] /\ enabled' = enabled
      BY <1>9 DEF Succeed, ReportSuccess
    <2>3. \A g \in GoodAccounts : stats'[g].fails = 0
      BY <1>1, <1>9, SuccessChargesNobody DEF Succeed
    <2>. HIDE DEF s
    <2>. QED BY <1>2, <2>1, <2>2, <2>3, ShieldKept
  <1>10. ASSUME NEW r \in Requests, TransportError(r) PROVE Shielded'
    <2>1. PICK code \in TransportCodes : NextTurn(r, code)
      BY <1>10 DEF TransportError
    <2>2. req[r].pc = "attempt" /\ req[r].cur \in Idx \ GoodAccounts /\ code \in Nat
      BY <1>2, <1>10, RequestsAssumption DEF TransportError, Bookkeeping
    <2>3. enabled' = enabled /\ \A g \in GoodAccounts : stats'[g].fails = 0
      BY <1>1, <1>10, <2>2, OthersFailuresDoNotCount DEF TransportError, ReportFailureAs
    <2>. QED BY <2>1, <2>2, <2>3, NextTurnKeepsShield
  <1>11. ASSUME NEW r \in Requests, KiroError(r) PROVE Shielded'
    <2>1. PICK e \in KiroErrors :
            /\ ReportFailure(IdOf[req[r].cur], e.status, e.reason)
            /\ IF Classify(e.status, e.reason) = "fatal"
               THEN Answered(r, "fatal", ClientStatus(r, e), req[r].cur)
               ELSE NextTurn(r, e.status)
      BY <1>11 DEF KiroError
    <2>2. req[r].pc = "attempt" /\ req[r].cur \in Idx \ GoodAccounts
      BY <1>2, <1>11 DEF KiroError, Bookkeeping
    <2>3. e.status \in Nat /\ ClientStatus(r, e) \in Nat
      BY RequestsAssumption DEF ClientStatus
    <2>4. enabled' = enabled /\ \A g \in GoodAccounts : stats'[g].fails = 0
      BY <1>1, <2>1, <2>2, OthersFailuresDoNotCount DEF ReportFailure, ReportFailureAs
    <2>5. CASE Classify(e.status, e.reason) = "fatal"
      BY <2>1, <2>2, <2>3, <2>4, <2>5, AnsweredKeepsShield
    <2>6. CASE Classify(e.status, e.reason) # "fatal"
      BY <2>1, <2>2, <2>3, <2>4, <2>6, NextTurnKeepsShield
    <2>. QED BY <2>5, <2>6
  <1>12. ASSUME NEW r \in Requests PROVE ~Disconnect(r)
    BY DEF Disconnect
  <1>. QED
    BY <1>3, <1>4, <1>5, <1>6, <1>7, <1>8, <1>9, <1>10, <1>11, <1>12 DEF Next, Handle

\* With distinct ids and clients that stay, one enabled account whose upstream
\* always answers keeps every request from being told that all accounts failed.
THEOREM OneGoodAccountSuffices ==
  ASSUME DistinctIds, ~Disconnects PROVE Spec => []GoodAccountShields
  <1>1. Init => Shielded
    BY ShieldInit
  <1>2. IInv /\ Shielded /\ [Next]_vars => Shielded'
    BY ShieldNext
  <1>3. Shielded => GoodAccountShields
    BY DEF Shielded
  <1>. QED BY <1>1, <1>2, <1>3, Invariance, PTL DEF Spec
-----------------------------------------------------------------------------
\* The walk begins at the sticky index, and nowhere else.
LEMMA WalkBeginsAtSticky ==
  ASSUME NEW n \in Nat, NEW s \in 0 .. n - 1, NEW i \in 0 .. n - 1, i # s
  PROVE  (s + n - s) % n = 0 /\ (i + n - s) % n > 0
  <1>1. (s + n - s) = n /\ n > 0
    OBVIOUS
  <1>2. n % n = 0
    BY <1>1
  <1>3. CASE i < s
    <2>1. i + n - s \in 1 .. n - 1
      BY <1>3
    <2>. DEFINE d == i + n - s
    <2>2. d \in 1 .. n - 1
      BY <2>1
    <2>. HIDE DEF d
    <2>3. d % n = d
      BY <2>2
    <2>. QED BY <1>1, <1>2, <2>2, <2>3 DEF d
  <1>4. CASE i > s
    <2>. DEFINE d == i - s
    <2>1. d \in 1 .. n - 1 /\ i + n - s = d + n
      BY <1>4
    <2>. HIDE DEF d
    <2>2. (d + n) % n = d
      BY <2>1
    <2>. QED BY <1>1, <1>2, <2>1, <2>2
  <1>. QED BY <1>3, <1>4

\* Of the steps of a request that selects only Select leads to an attempt.
LEMMA OnlySelectContacts ==
  ASSUME IInv, [Next]_vars, NEW r \in Requests, Contacts(r)
  PROVE  \E i \in Selectable(req[r].exclude) : req'[r].cur = i
  <1>1. req[r].pc = "select" /\ req'[r].pc = "attempt"
    BY DEF Contacts
  <1>2. ~(UNCHANGED vars \/ PassTime)
    BY <1>1 DEF vars, PassTime
  <1>3. PICK q \in Requests : Arrive(q) \/ Handle(q) \/ Disconnect(q)
    BY <1>2 DEF Next
  <1>4. q = r
    BY <1>1, <1>3, OthersStay
  <1>5. ~Arrive(r) /\ ~LocalError(r) /\ ~Succeed(r) /\ ~TransportError(r)
         /\ ~KiroError(r) /\ ~Serve(r)
    BY <1>1 DEF Arrive, LocalError, Succeed, TransportError, KiroError, Serve
  <1>6. req \in [Requests -> RequestStates]
    BY DEF IInv, TypeOK
  <1>7. ~GiveUp(r)
    BY <1>1, <1>6, AnsweredLeaves DEF GiveUp
  <1>8. ~Disconnect(r)
    BY <1>1, <1>6 DEF Disconnect, RequestStates
  <1>9. PICK i \in Selectable(req[r].exclude) :
          req' = [req EXCEPT ![r].pc = "attempt", ![r].cur = i,
                             ![r].doomed = req[r].gone,
                             ![r].tried = @ \cup {IdOf[i]}]
    BY <1>3, <1>4, <1>5, <1>7, <1>8 DEF Handle, Select
  <1>10. req'[r].cur = i
    BY <1>6, <1>9 DEF RequestStates
  <1>. QED BY <1>10

\* An id that some account has is the id of a first account.
LEMMA SomeFirst ==
  ASSUME NEW i \in Idx PROVE FirstWithID(IdOf[i]) # {}
  <1>. SUFFICES ASSUME FirstWithID(IdOf[i]) = {} PROVE FALSE
    OBVIOUS
  <1>1. N \in Nat /\ Idx \subseteq Nat
    BY AccountsAssumption DEF Idx
  <1>. DEFINE Clear == {n \in Nat : \A j \in Idx : j < n => IdOf[j] # IdOf[i]}
  <1>2. 0 \in Clear
    BY <1>1
  <1>3. ASSUME NEW n \in Nat, n \in Clear PROVE n + 1 \in Clear
    <2>1. ASSUME NEW j \in Idx, j < n + 1, IdOf[j] = IdOf[i] PROVE FALSE
      <3>1. j \in Nat /\ ~(j < n)
        BY <1>1, <1>3, <2>1
      <3>2. \A k \in Idx : IdOf[k] = IdOf[i] => j <= k
        BY <1>1, <1>3, <2>1, <3>1
      <3>3. j \in FirstWithID(IdOf[i])
        BY <2>1, <3>2 DEF FirstWithID
      <3>. QED BY <3>3
    <2>. QED BY <2>1
  <1>4. Nat \subseteq Clear
    <2>. HIDE DEF Clear
    <2>. QED BY <1>2, <1>3, Induction
  <1>5. i + 1 \in Clear
    BY <1>1, <1>4
  <1>. QED BY <1>1, <1>5

(* What ties the sticky index to the past: it names an account of the id   *)
(* last reported to succeed.  Only a success moves it, and every success   *)
(* does, to the first account with the reported id.                        *)
StickyServed == \A id \in lastSuccess : IdOf[sticky] = id

LEMMA NextKeepsSticky == IInv /\ StickyServed /\ [Next]_vars => StickyServed'
  <1>. SUFFICES ASSUME IInv, StickyServed, [Next]_vars PROVE StickyServed'
    OBVIOUS
  <1>1. ASSUME NEW r \in Requests, Succeed(r) PROVE StickyServed'
    <2>1. req[r].cur \in Idx
      BY <1>1 DEF Succeed, IInv, Bookkeeping
    <2>2. sticky' \in FirstWithID(IdOf[req[r].cur])
      BY <1>1, <2>1, SomeFirst DEF Succeed, ReportSuccess
    <2>3. lastSuccess' = {IdOf[req[r].cur]}
      BY <1>1 DEF Succeed
    <2>. QED BY <2>2, <2>3 DEF StickyServed, FirstWithID
  <1>2. CASE UNCHANGED <<sticky, lastSuccess>>
    BY <1>2 DEF StickyServed
  <1>3. ASSUME ~(\E r \in Requests : Succeed(r)) PROVE UNCHANGED <<sticky, lastSuccess>>
    BY <1>3
    DEF Next, Handle, PassTime, Tick, Arrive, Select, GiveUp, LocalError, TransportError,
        KiroError, ReportFailure, ReportFailureAs, Serve, Disconnect, managerVars, vars
  <1>. QED BY <1>1, <1>2, <1>3

LEMMA StickyIsHistory == Spec => [](IInv /\ StickyServed)
  <1>1. Init => StickyServed
    BY DEF Init, StickyServed
  <1>. QED BY <1>1, InitEstablishesIInv, NextKeepsIInv, NextKeepsSticky, PTL DEF Spec

\* The walk of a new request stops at the sticky account if it may.
LEMMA StickyComesFirst ==
  ASSUME IInv, [Next]_vars, NEW r \in Requests, Contacts(r), req[r].tried = {},
         enabled[sticky], ~Quarantined(sticky)
  PROVE  req'[r].cur = sticky
  <1>1. PICK i \in Selectable({}) : req'[r].cur = i
    BY OnlySelectContacts DEF IInv, Bookkeeping, Contacts
  <1>2. i \in Idx /\ N > 0 /\ sticky \in Idx
    BY <1>1, SelectableIsNew, AccountsAssumption DEF Idx, IInv, TypeOK, ManagerTypeOK
  <1>3. CASE N = 1
    BY <1>1, <1>2, <1>3 DEF Idx
  <1>4. CASE N # 1 /\ i # sticky
    <2>1. i \in NextEnabled({})
      BY <1>1, <1>4 DEF Selectable
    <2>2. WalkPosition(sticky) < WalkPosition(i)
      <3>1. N \in Nat /\ sticky \in 0 .. N - 1 /\ i \in 0 .. N - 1
        BY <1>2, AccountsAssumption DEF Idx
      <3>2. (sticky + N - sticky) % N = 0 /\ (i + N - sticky) % N > 0
        BY <1>4, <3>1, WalkBeginsAtSticky
      <3>. QED BY <3>2 DEF WalkPosition
    <2>3. Usable(sticky, {})
      BY DEF Usable
    <2>. QED BY <1>2, <2>1, <2>2, <2>3 DEF NextEnabled
  <1>. QED BY <1>1, <1>3, <1>4

\* The first account a request turns to is the one last reported to succeed,
\* whichever request reported it and whatever was reported of other accounts
\* since, unless it is disabled or in quarantine: for any number of accounts and
\* requests, and whatever ids they share.
THEOREM LastSuccessComesFirst == Spec => StartsWithLastSuccess
  <1>1. ASSUME IInv, StickyServed, [Next]_vars, NEW r \in Requests, NEW id \in lastSuccess,
               Contacts(r), req[r].tried = {},
               \A i \in Idx : IdOf[i] = id => enabled[i] /\ ~Quarantined(i)
        PROVE  IdOf[req'[r].cur] = id
    <2>1. IdOf[sticky] = id
      BY <1>1 DEF StickyServed
    <2>2. sticky \in Idx
      <3>1. \E i \in Selectable(req[r].exclude) : TRUE
        BY <1>1, OnlySelectContacts
      <3>. QED BY <1>1, <3>1, SelectableIsNew, AccountsAssumption
               DEF Idx, IInv, TypeOK, ManagerTypeOK
    <2>3. enabled[sticky] /\ ~Quarantined(sticky)
      BY <1>1, <2>1, <2>2
    <2>. QED BY <1>1, <2>1, <2>3, StickyComesFirst
  <1>2. IInv /\ StickyServed /\ [Next]_vars =>
          [\A r \in Requests : \A id \in lastSuccess :
             (/\ Contacts(r) /\ req[r].tried = {}
              /\ \A i \in Idx : IdOf[i] = id => enabled[i] /\ ~Quarantined(i))
             => IdOf[req'[r].cur] = id]_vars
    BY <1>1
  <1>. QED BY <1>2, StickyIsHistory, PTL DEF Spec, StartsWithLastSuccess

-----------------------------------------------------------------------------
(* A request that has excluded an account remembers the last error, and     *)
(* whose it was.                                                            *)
KnowsItsError(s) ==
  s.pc = "select" /\ s.exclude # {} => s.cur \in Idx /\ s.lastStatus # 0

ErrorsKnown == \A r \in Requests : KnowsItsError(req[r])

LEMMA NextTurnKnows ==
  ASSUME IInv, NEW r \in Requests, req[r].pc = "attempt",
         NEW status \in Nat \ {0}, NextTurn(r, status)
  PROVE  KnowsItsError(req'[r])
  <1>1. req[r] \in RequestStates /\ req[r].cur \in Idx
    BY DEF IInv, TypeOK, Bookkeeping
  <1>2. req'[r].cur = req[r].cur /\ req'[r].lastStatus = status
    BY <1>1 DEF NextTurn, RequestStates, IInv, TypeOK
  <1>. QED BY <1>1, <1>2 DEF KnowsItsError

LEMMA NextKeepsErrors == IInv /\ ErrorsKnown /\ [Next]_vars => ErrorsKnown'
  <1>. SUFFICES ASSUME IInv, ErrorsKnown, [Next]_vars, NEW r \in Requests
                PROVE  KnowsItsError(req'[r])
    BY DEF ErrorsKnown, KnowsItsError
  <1>1. req \in [Requests -> RequestStates] /\ KnowsItsError(req[r])
    BY DEF IInv, TypeOK, ErrorsKnown
  <1>2. CASE req' = req
    BY <1>1, <1>2
  <1>3. ASSUME NEW q \in Requests, q # r, Arrive(q) \/ Handle(q) \/ Disconnect(q)
        PROVE  KnowsItsError(req'[r])
    BY <1>1, <1>3, OthersStay
  <1>4. CASE Arrive(r)
    BY <1>1, <1>4 DEF Arrive, Idle, KnowsItsError
  <1>5. CASE Select(r)
    <2>1. PICK i \in Selectable(req[r].exclude) :
            req' = [req EXCEPT ![r].pc = "attempt", ![r].cur = i,
                               ![r].doomed = req[r].gone,
                               ![r].tried = @ \cup {IdOf[i]}]
      BY <1>5 DEF Select
    <2>2. req'[r].pc = "attempt"
      BY <1>1, <2>1 DEF RequestStates
    <2>. QED BY <2>2 DEF KnowsItsError
  <1>6. CASE GiveUp(r) \/ LocalError(r) \/ Serve(r)
    <2>1. req'[r].pc = "idle"
      BY <1>1, <1>6, AnsweredLeaves DEF GiveUp, LocalError, Serve
    <2>. QED BY <2>1 DEF KnowsItsError
  <1>7. CASE Succeed(r)
    <2>1. req'[r].pc = "serve"
      BY <1>1, <1>7 DEF Succeed, RequestStates
    <2>. QED BY <2>1 DEF KnowsItsError
  <1>8. CASE TransportError(r)
    <2>1. PICK code \in TransportCodes : NextTurn(r, code)
      BY <1>8 DEF TransportError
    <2>. QED BY <1>8, <2>1, NextTurnKnows, RequestsAssumption DEF TransportError
  <1>9. CASE KiroError(r)
    <2>1. PICK e \in KiroErrors :
            IF Classify(e.status, e.reason) = "fatal"
            THEN Answered(r, "fatal", ClientStatus(r, e), req[r].cur)
            ELSE NextTurn(r, e.status)
      BY <1>9 DEF KiroError
    <2>2. CASE Classify(e.status, e.reason) = "fatal"
      <3>1. req'[r].pc = "idle"
        BY <1>1, <2>1, <2>2, AnsweredLeaves
      <3>. QED BY <3>1 DEF KnowsItsError
    <2>3. CASE Classify(e.status, e.reason) # "fatal"
      <3>1. e.status \in Nat \ {0}
        BY <2>1, RequestsAssumption
      <3>. QED BY <1>9, <2>1, <2>3, <3>1, NextTurnKnows DEF KiroError
    <2>. QED BY <2>2, <2>3
  <1>10. CASE Disconnect(r)
    <2>1. /\ req'[r].pc = req[r].pc /\ req'[r].exclude = req[r].exclude
          /\ req'[r].cur = req[r].cur /\ req'[r].lastStatus = req[r].lastStatus
      BY <1>1, <1>10 DEF Disconnect, RequestStates
    <2>. QED BY <1>1, <2>1 DEF KnowsItsError
  <1>. QED
    BY <1>2, <1>3, <1>4, <1>5, <1>6, <1>7, <1>8, <1>9, <1>10
    DEF Next, Handle, PassTime, vars

\* With one account every request reaches Kiro before it is refused, and the
\* client gets the status and the text of that account's error.
THEOREM SoleAccountIsHeard == Spec => SoleAccountSpeaks
  <1>1. Init => ErrorsKnown
    BY DEF Init, ErrorsKnown, KnowsItsError, Idle
  <1>2. ASSUME IInv, ErrorsKnown, [Next]_vars, N = 1, NEW r \in Requests, Exhausts(r)
        PROVE  /\ req[r].tried = Ids
               /\ req'[r].answer.status = req[r].lastStatus /\ req[r].lastStatus # 0
               /\ req'[r].answer.from = 0
    <2>1. GiveUp(r)
      BY <1>2, OnlyGiveUpExhausts
    <2>2. Idx = {0} /\ Ids = {IdOf[0]}
      BY <1>2 DEF Idx, Ids
    <2>3. IdOf[0] \in req[r].exclude
      BY <1>2, <2>1, <2>2 DEF GiveUp, NoneSelectable, Selectable
    <2>4. req[r].tried = req[r].exclude /\ req[r].tried \subseteq Ids
      BY <1>2, <2>1 DEF GiveUp, IInv, Bookkeeping, TypeOK, RequestStates
    <2>5. req[r].cur = 0 /\ req[r].lastStatus # 0
      BY <1>2, <2>1, <2>2, <2>3 DEF ErrorsKnown, KnowsItsError, GiveUp
    <2>6. Answered(r, "exhausted", req[r].lastStatus, 0)
      BY <1>2, <2>1, <2>5 DEF GiveUp, NoIdx
    <2>7. req'[r].answer = [kind |-> "exhausted", status |-> req[r].lastStatus, from |-> 0]
      BY <1>2, <2>6 DEF Answered, Idle, IInv, TypeOK
    <2>. QED BY <2>2, <2>3, <2>4, <2>5, <2>7
  <1>3. IInv /\ ErrorsKnown /\ [Next]_vars =>
          [N = 1 => \A r \in Requests : Exhausts(r) =>
             /\ req[r].tried = Ids
             /\ req'[r].answer.status = req[r].lastStatus /\ req[r].lastStatus # 0
             /\ req'[r].answer.from = 0]_vars
    BY <1>2
  <1>. QED BY <1>1, <1>3, NextKeepsErrors, Invariance, PTL DEF Spec, SoleAccountSpeaks
-----------------------------------------------------------------------------
(* The window, which the code computes by doubling and by a product of two   *)
(* settings, is that of its formula as long as the cap and the longest       *)
(* window fit into the machine's integers.                                   *)
NoOverflow == Cap <= MaxInt /\ Base * Cap <= MaxInt

\* What the doubling loop holds after the turn for failure n.
Doubled(n, cap) == IF n = 1 THEN 1 ELSE Lesser(2 ^ (n - 1), cap)

LEMMA LesserIsNat ==
  ASSUME NEW m \in Nat, NEW n \in Nat
  PROVE  /\ Lesser(m, n) \in Nat /\ Lesser(m, n) <= n /\ Lesser(m, n) <= m
         /\ Lesser(m, n) \in {m, n} /\ Lesser(Lesser(m, n), n) = Lesser(m, n)
  BY DEF Lesser

\* The saturating doubling neither overflows nor passes the cap.
LEMMA DoublingStep ==
  ASSUME NEW n \in Nat \ {0}, NEW cap \in 0 .. MaxInt
  PROVE  NextMultiplier(Doubled(n, cap), cap) = Doubled(n + 1, cap)
  <1>1. MaxInt \in Nat
    BY MaxIntAssumption
  <1>. DEFINE p == 2 ^ (n - 1)
              v == Doubled(n, cap)
  <1>2. p \in Nat \ {0} /\ 2 ^ n = 2 * p
    <2>1. n - 1 \in Nat /\ (n - 1) + 1 = n
      OBVIOUS
    <2>. QED BY <2>1, PowerDoubles
  <1>3. n = 1 => p = 1
    OBVIOUS
  <1>4. Doubled(n + 1, cap) = Lesser(2 * p, cap)
    BY <1>2 DEF Doubled
  <1>5. v = IF n = 1 THEN 1 ELSE Lesser(p, cap)
    BY DEF Doubled
  <1>. HIDE DEF p, v
  <1>6. v \in Nat /\ (v = p \/ (v = cap /\ cap < p))
    BY <1>1, <1>2, <1>3, <1>5 DEF Lesser
  <1>7. CASE v > cap \div 2
    <2>1. cap < 2 * v + 1
      BY <1>1, <1>6, <1>7
    <2>2. cap <= 2 * p
      BY <1>1, <1>2, <1>6, <2>1
    <2>3. Lesser(2 * p, cap) = cap
      BY <1>1, <1>2, <2>2 DEF Lesser
    <2>. QED BY <1>4, <1>7, <2>3 DEF NextMultiplier, v
  <1>8. CASE ~(v > cap \div 2)
    <2>1. 2 * v <= cap
      BY <1>1, <1>6, <1>8
    <2>2. Wrap(2 * v) = 2 * v
      BY <1>1, <1>6, <2>1 DEF Wrap
    <2>3. Lesser(2 * p, cap) = 2 * v
      BY <1>1, <1>2, <1>6, <2>1 DEF Lesser
    <2>. QED BY <1>4, <1>8, <2>2, <2>3 DEF NextMultiplier, v
  <1>. QED BY <1>7, <1>8

\* The multiplier is "min(2^(fails-1), cap)" (breaker.go).
LEMMA MultiplierFormula ==
  ASSUME NEW fails \in Nat \ {0}, NEW cap \in 0 .. MaxInt
  PROVE  Multiplier(fails, cap) = Lesser(2 ^ (fails - 1), cap)
  <1>. DEFINE Solves(f) == f = [n \in 1 .. fails |->
                                 IF n = 1 THEN 1 ELSE NextMultiplier(f[n - 1], cap)]
              closed == [n \in 1 .. fails |-> Doubled(n, cap)]
              after == CHOOSE f : Solves(f)
  <1>1. Solves(closed)
    <2>1. ASSUME NEW n \in 1 .. fails, n # 1
          PROVE  Doubled(n, cap) = NextMultiplier(closed[n - 1], cap)
      <3>1. n - 1 \in 1 .. fails /\ n - 1 \in Nat \ {0} /\ (n - 1) + 1 = n
        BY <2>1
      <3>2. NextMultiplier(Doubled(n - 1, cap), cap) = Doubled((n - 1) + 1, cap)
        BY <3>1, DoublingStep
      <3>. QED BY <3>1, <3>2
    <2>2. Doubled(1, cap) = 1
      BY DEF Doubled
    <2>3. \A n \in 1 .. fails :
            Doubled(n, cap) = IF n = 1 THEN 1 ELSE NextMultiplier(closed[n - 1], cap)
      BY <2>1, <2>2
    <2>. QED BY <2>3, Zenon
  <1>2. Solves(after)
    <2>. HIDE DEF Solves, closed
    <2>. QED BY <1>1
  <1>3. Multiplier(fails, cap) = Lesser(after[fails], cap)
    BY DEF Multiplier
  <1>. HIDE DEF closed, after
  <1>4. after[1] = 1 /\ \A n \in 1 .. fails : n # 1 => after[n] = NextMultiplier(after[n - 1], cap)
    BY <1>2
  <1>. HIDE DEF Solves
  <1>. DEFINE Good == {k \in Nat : k + 1 \in 1 .. fails => after[k + 1] = Doubled(k + 1, cap)}
  <1>5. 0 \in Good
    BY <1>4 DEF Doubled
  <1>6. ASSUME NEW k \in Nat, k \in Good PROVE k + 1 \in Good
    <2>. SUFFICES ASSUME (k + 1) + 1 \in 1 .. fails
                  PROVE  after[(k + 1) + 1] = Doubled((k + 1) + 1, cap)
      OBVIOUS
    <2>1. k + 1 \in 1 .. fails /\ k + 1 \in Nat \ {0} /\ ((k + 1) + 1) - 1 = k + 1
      OBVIOUS
    <2>2. after[k + 1] = Doubled(k + 1, cap)
      BY <1>6, <2>1
    <2>3. after[(k + 1) + 1] = NextMultiplier(after[k + 1], cap)
      BY <1>4, <2>1
    <2>. QED BY <2>1, <2>2, <2>3, DoublingStep
  <1>7. fails - 1 \in Good
    <2>1. Nat \subseteq Good
      <3>. HIDE DEF Good
      <3>. QED BY <1>5, <1>6, Induction
    <2>. QED BY <2>1
  <1>8. after[fails] = Doubled(fails, cap)
    BY <1>7
  <1>9. 2 ^ (fails - 1) \in Nat /\ cap \in Nat
    BY PowerDoubles
  <1>10. fails = 1 => 2 ^ (fails - 1) = 1
    OBVIOUS
  <1>. DEFINE p == 2 ^ (fails - 1)
  <1>11. Lesser(Doubled(fails, cap), cap) = Lesser(p, cap)
    <2>1. Doubled(fails, cap) = IF fails = 1 THEN 1 ELSE Lesser(p, cap)
      BY DEF Doubled
    <2>. HIDE DEF p
    <2>. QED BY SMTT(60), <1>9, <1>10, <2>1, LesserIsNat DEF p
  <1>. QED BY <1>3, <1>8, <1>11

\* No product of the base with a multiplier passes the cap's.
LEMMA ProductGrows ==
  ASSUME NEW a \in Nat, NEW b \in Nat, NEW c \in Nat, b <= c
  PROVE  a * b \in Nat /\ a * b <= a * c
  <1>1. c = b + (c - b) /\ c - b \in Nat
    OBVIOUS
  <1>2. a * c = a * b + a * (c - b) /\ a * (c - b) \in Nat /\ a * b \in Nat
    BY <1>1
  <1>. QED BY <1>2

LEMMA WindowIsProduct ==
  ASSUME NoOverflow, NEW fails \in Nat \ {0}
  PROVE  /\ Window(fails) = Base * Lesser(2 ^ (fails - 1), Cap)
         /\ Window(fails) \in Nat
  <1>1. Cap \in Nat /\ Base \in Nat /\ MaxInt \in Nat /\ Cap \in 0 .. MaxInt
    BY AccountsAssumption, MaxIntAssumption DEF NoOverflow
  <1>. DEFINE m == Lesser(2 ^ (fails - 1), Cap)
  <1>2. Multiplier(fails, Cap) = m
    BY <1>1, MultiplierFormula
  <1>3. m \in Nat /\ m <= Cap
    <2>1. 2 ^ (fails - 1) \in Nat
      BY PowerDoubles
    <2>. QED BY <1>1, <2>1, LesserIsNat
  <1>. HIDE DEF m
  <1>4. Base * m \in Nat /\ Base * m <= Base * Cap /\ Base * Cap \in Nat
    BY <1>1, <1>3, ProductGrows
  <1>5. Wrap(Base * m) = Base * m
    <2>. DEFINE x == Base * m
                y == Base * Cap
    <2>1. x \in Nat /\ y \in Nat /\ x <= y /\ y <= MaxInt
      BY <1>4 DEF NoOverflow
    <2>. HIDE DEF x, y
    <2>2. Wrap(x) = x
      BY <1>1, <2>1 DEF Wrap
    <2>. QED BY <2>2 DEF x
  <1>. QED BY <1>2, <1>4, <1>5 DEF Window, QuarantineWindow, m

\* In every reachable state the window of an account is "base *
\* min(2^(fails-1), cap)" (breaker.go), although the code doubles and saturates
\* instead of computing the power, unless the settings overflow.
THEOREM WindowIsFormula ==
  ASSUME NoOverflow PROVE Spec => []WindowFormula
  <1>1. TypeOK => WindowFormula
    <2>. SUFFICES ASSUME TypeOK, NEW i \in Idx, NEW fails, fails = stats[i].fails
                  PROVE  Window(fails) =
                           IF fails = 0 THEN 0 ELSE Base * Lesser(2 ^ (fails - 1), Cap)
      BY DEF WindowFormula
    <2>1. fails \in Nat
      BY AccountsAssumption DEF TypeOK, ManagerTypeOK, AccountStats
    <2>2. CASE fails = 0
      BY <2>2 DEF Window, QuarantineWindow
    <2>3. CASE fails # 0
      BY <2>1, <2>3, WindowIsProduct
    <2>. QED BY <2>2, <2>3
  <1>. QED BY <1>1, TypeCorrect, PTL

\* So a failure never shortens a window.
LEMMA WindowsGrow ==
  ASSUME NoOverflow, NEW fails \in 0 .. MaxFails
  PROVE  Window(fails) \in Nat /\ (fails < MaxFails => Window(fails) <= Window(fails + 1))
  <1>1. Cap \in Nat /\ Base \in Nat /\ fails \in Nat
    BY AccountsAssumption
  <1>2. CASE fails = 0
    <2>1. Window(0) = 0
      BY DEF Window, QuarantineWindow
    <2>2. Window(1) \in Nat
      BY WindowIsProduct
    <2>. QED BY <1>2, <2>1, <2>2
  <1>3. CASE fails # 0
    <2>. DEFINE p == 2 ^ (fails - 1)
    <2>1. (fails - 1) + 1 = fails /\ fails - 1 \in Nat /\ fails + 1 \in Nat \ {0} /\ (fails + 1) - 1 = fails
      BY <1>1, <1>3
    <2>2. p \in Nat /\ 2 ^ fails = 2 * p
      BY <2>1, PowerDoubles
    <2>3. Window(fails) = Base * Lesser(p, Cap) /\ Window(fails) \in Nat
      BY <1>1, <1>3, WindowIsProduct
    <2>4. Window(fails + 1) = Base * Lesser(2 * p, Cap)
      BY <2>1, <2>2, WindowIsProduct
    <2>. HIDE DEF p
    <2>5. Lesser(p, Cap) \in Nat /\ Lesser(2 * p, Cap) \in Nat /\ Lesser(p, Cap) <= Lesser(2 * p, Cap)
      BY <1>1, <2>2 DEF Lesser
    <2>6. Base * Lesser(p, Cap) <= Base * Lesser(2 * p, Cap)
      BY <1>1, <2>5, ProductGrows
    <2>. QED BY <2>3, <2>4, <2>6
  <1>. QED BY <1>2, <1>3

LEMMA TimeLeftIsNat ==
  ASSUME NoOverflow, ManagerTypeOK, NEW i \in Idx
  PROVE  TimeLeft(i) \in Nat /\ TimeLeft(i) <= Window(stats[i].fails)
  <1>1. stats[i].fails \in 0 .. MaxFails /\ stats[i].age \in Nat
    BY DEF ManagerTypeOK, AccountStats
  <1>2. Window(stats[i].fails) \in Nat
    BY <1>1, WindowsGrow
  <1>. QED BY <1>1, <1>2 DEF TimeLeft, Quarantined

\* The time left depends on the failures and the time since the last of them.
LEMMA SameStatsSameTime ==
  ASSUME NEW i \in Idx, stats'[i].fails = stats[i].fails, stats'[i].age = stats[i].age
  PROVE  TimeLeft(i)' = TimeLeft(i)
  BY DEF TimeLeft, Quarantined

LEMMA TickTakesOne ==
  ASSUME NoOverflow, ManagerTypeOK, Tick, NEW i \in Idx
  PROVE  TimeLeft(i)' >= TimeLeft(i) \/ TimeLeft(i)' = TimeLeft(i) - 1
  <1>1. stats[i] \in AccountStats /\ stats[i].fails \in 0 .. MaxFails /\ stats[i].age \in Nat
    BY DEF ManagerTypeOK, AccountStats
  <1>2. TimeLeft(i) \in Nat
    BY TimeLeftIsNat
  <1>3. CASE ~Quarantined(i)
    <2>1. stats'[i] = stats[i]
      BY <1>3 DEF Tick
    <2>. QED BY <1>2, <2>1, SameStatsSameTime
  <1>4. CASE Quarantined(i)
    <2>1. stats'[i] = [stats[i] EXCEPT !.age = @ + 1]
      BY <1>4 DEF Tick
    <2>2. stats'[i].fails = stats[i].fails /\ stats'[i].age = stats[i].age + 1
      BY <1>1, <2>1 DEF AccountStats
    <2>3. Window(stats[i].fails) \in Nat
      BY <1>1, WindowsGrow
    <2>. DEFINE w == Window(stats[i].fails)
                a == stats[i].age
    <2>4. TimeLeft(i) = w - a /\ a < w /\ w \in Nat /\ a \in Nat
      BY <1>1, <1>4, <2>3 DEF TimeLeft, Quarantined
    <2>5. TimeLeft(i)' = IF a + 1 < w THEN w - (a + 1) ELSE 0
      BY <1>4, <2>2 DEF TimeLeft, Quarantined
    <2>. HIDE DEF w, a
    <2>. QED BY <2>4, <2>5
  <1>. QED BY <1>3, <1>4

LEMMA FailureAddsTime ==
  ASSUME NoOverflow, ManagerTypeOK, NEW id, NEW kind, ReportFailureAs(id, kind), NEW i \in Idx
  PROVE  TimeLeft(i)' >= TimeLeft(i)
  <1>1. stats[i] \in AccountStats /\ stats[i].fails \in 0 .. MaxFails /\ stats[i].age \in Nat
    BY DEF ManagerTypeOK, AccountStats
  <1>2. TimeLeft(i) \in Nat /\ TimeLeft(i) <= Window(stats[i].fails)
    BY TimeLeftIsNat
  <1>3. CASE i \in FirstWithID(id) /\ kind = "recoverable"
    <2>. DEFINE f == IF stats[i].fails < MaxFails THEN stats[i].fails + 1 ELSE stats[i].fails
    <2>1. stats'[i].fails = f /\ stats'[i].age = 0
      BY <1>3 DEF ReportFailureAs, OneMoreFailure
    <2>2. MaxFails \in Nat \ {0}
      BY AccountsAssumption
    <2>3. f \in 1 .. MaxFails
      BY <1>1, <2>2
    <2>4. Window(f) \in Nat /\ Window(f) >= Window(stats[i].fails)
                            /\ Window(stats[i].fails) \in Nat
      BY <1>1, <2>2, <2>3, WindowsGrow
    <2>. HIDE DEF f
    <2>5. TimeLeft(i)' = Window(f)
      BY <2>1, <2>3, <2>4 DEF TimeLeft, Quarantined
    <2>. QED BY <1>2, <2>4, <2>5
  <1>4. CASE i \notin FirstWithID(id) \/ kind # "recoverable"
    <2>1. stats'[i].fails = stats[i].fails /\ stats'[i].age = stats[i].age
      BY <1>1, <1>4 DEF ReportFailureAs, AccountStats
    <2>. QED BY <1>2, <2>1, SameStatsSameTime
  <1>. QED BY <1>3, <1>4

\* With distinct ids and settings that do not overflow, a quarantine ends only by the
\* passing of time, one tick at a time, or by a success of that account: no
\* failure, Fatal error or report about another account cuts it short.
THEOREM QuarantineIsServed ==
  ASSUME DistinctIds, NoOverflow PROVE Spec => NoEarlyRelease
  <1>1. ASSUME IInv, [Next]_vars, NEW i \in Idx
        PROVE  \/ TimeLeft(i)' >= TimeLeft(i)
               \/ Tick /\ TimeLeft(i)' = TimeLeft(i) - 1
               \/ stats'[i].fails = 0 /\ \E r \in Requests :
                    req[r].pc = "attempt" /\ req'[r].pc = "serve" /\ req[r].cur = i
    <2>1. ManagerTypeOK /\ req \in [Requests -> RequestStates]
      BY <1>1 DEF IInv, TypeOK
    <2>2. TimeLeft(i) \in Nat
      BY <1>1, <2>1, TimeLeftIsNat
    <2>3. CASE PassTime
      BY <1>1, <2>1, <2>3, TickTakesOne DEF PassTime
    <2>4. CASE stats' = stats
      BY <1>1, <2>2, <2>4, SameStatsSameTime
    <2>5. ASSUME NEW r \in Requests, Succeed(r)
          PROVE  \/ TimeLeft(i)' >= TimeLeft(i)
                 \/ stats'[i].fails = 0 /\ \E q \in Requests :
                      req[q].pc = "attempt" /\ req'[q].pc = "serve" /\ req[q].cur = i
      <3>1. req[r].pc = "attempt" /\ req'[r].pc = "serve" /\ req[r].cur \in Idx
        BY <1>1, <2>1, <2>5 DEF Succeed, RequestStates, IInv, Bookkeeping
      <3>2. CASE i \in FirstWithID(IdOf[req[r].cur])
        <4>1. req[r].cur = i
          BY <3>1, <3>2 DEF FirstWithID, DistinctIds
        <4>2. stats'[i].fails = 0
          BY <2>5, <3>2 DEF Succeed, ReportSuccess, Healthy
        <4>. QED BY <3>1, <4>1, <4>2
      <3>3. CASE i \notin FirstWithID(IdOf[req[r].cur])
        <4>1. stats'[i] = stats[i]
          BY <1>1, <2>5, <3>3 DEF Succeed, ReportSuccess
        <4>. QED BY <1>1, <2>2, <4>1, SameStatsSameTime
      <3>. QED BY <3>2, <3>3
    <2>6. ASSUME NEW r \in Requests, TransportError(r) \/ KiroError(r)
          PROVE  TimeLeft(i)' >= TimeLeft(i)
      <3>1. \E id, kind : ReportFailureAs(id, kind)
        BY <2>6 DEF TransportError, KiroError, ReportFailure
      <3>. QED BY <1>1, <2>1, <3>1, FailureAddsTime
    <2>7. ASSUME NEW r \in Requests,
                 Arrive(r) \/ Select(r) \/ GiveUp(r) \/ LocalError(r) \/ Serve(r) \/ Disconnect(r)
          PROVE  stats' = stats
      BY <2>7 DEF Arrive, Select, GiveUp, LocalError, Serve, Disconnect, managerVars
    <2>. QED BY <1>1, <2>3, <2>4, <2>5, <2>6, <2>7 DEF Next, Handle, vars
  <1>2. IInv /\ [Next]_vars =>
          [\A i \in Idx :
             \/ TimeLeft(i)' >= TimeLeft(i)
             \/ Tick /\ TimeLeft(i)' = TimeLeft(i) - 1
             \/ stats'[i].fails = 0 /\ \E r \in Requests :
                  req[r].pc = "attempt" /\ req'[r].pc = "serve" /\ req[r].cur = i]_vars
    BY <1>1
  <1>. QED BY <1>2, Invariance, PTL DEF Spec, NoEarlyRelease
=============================================================================
