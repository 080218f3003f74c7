--------------------------- MODULE AccountManager ---------------------------
(***************************************************************************)
(* The shared state of internal/accountmanager.Manager and its operations: *)
(* the selection of an account for a request and the reports that open or  *)
(* close its circuit breaker.  Each operation holds m.mu from its first to *)
(* its last statement, so each is one atomic step of whoever calls it.     *)
(*                                                                         *)
(* Accounts are the indexes 0 .. N-1 of m.accounts, in loading order.      *)
(* Their ids need not be distinct: discovery does not compare them.        *)
(***************************************************************************)
EXTENDS Breaker, Integers

CONSTANTS
  N,          \* number of accounts that loadCredentials produced
  IdOf,       \* the id of each account
  Base,       \* AccountRecoveryTimeout, in ticks
  Cap,        \* AccountMaxBackoffMultiplier
  MaxFails,   \* failure count from which the window no longer grows
  Probing     \* TRUE iff AccountProbabilisticRetryChance is in (0, 1)

Idx == 0 .. N - 1
Ids == {IdOf[i] : i \in Idx}
NoIdx == -1

\* The count of failures saturates at MaxFails in the model; that loses
\* nothing because the window has stopped growing there.
Window(fails) == QuarantineWindow(fails, Base, Cap)

ASSUME AccountsAssumption ==
  /\ N \in Nat
  /\ IdOf \in [Idx -> Ids]
  /\ Base \in Nat
  /\ Cap \in Nat
  /\ MaxFails \in Nat \ {0}
  /\ Probing \in BOOLEAN

ASSUME SaturationAssumption == Window(MaxFails + 1) = Window(MaxFails)

VARIABLES
  stats,      \* AccountStats of each account
  sticky,     \* stickyIdx: the account that served the last success
  enabled     \* Account.Enabled, as Initialize left it

managerVars == <<stats, sticky, enabled>>

-----------------------------------------------------------------------------
(* LastFailure is kept as the time since it, which is all the code asks of *)
(* it; it stops growing once the window has passed.  LastFailureMsg is     *)
(* kept as whether it is non-empty: the text in stats[i] is always the one *)
(* of a failure of account i.                                              *)

AccountStats == [fails : 0 .. MaxFails, age : Nat, msg : BOOLEAN]
Healthy == [fails |-> 0, age |-> 0, msg |-> FALSE]

ManagerTypeOK ==
  /\ stats \in [Idx -> AccountStats]
  /\ sticky \in Nat
  /\ N > 0 => sticky \in Idx
  /\ enabled \in [Idx -> BOOLEAN]

ManagerInit ==
  /\ stats = [i \in Idx |-> Healthy]
  /\ sticky = 0
  /\ enabled \in [Idx -> BOOLEAN]

Quarantined(i) == stats[i].fails > 0 /\ stats[i].age < Window(stats[i].fails)

\* Time passes, for every account whose quarantine is still running.
Tick ==
  /\ \E i \in Idx : Quarantined(i)
  /\ stats' = [i \in Idx |->
                 IF Quarantined(i) THEN [stats[i] EXCEPT !.age = @ + 1] ELSE stats[i]]
  /\ UNCHANGED <<sticky, enabled>>

-----------------------------------------------------------------------------
(* Selection: GetNextAccount and nextEnabledIdx.                           *)

\* The position of an account in the walk that starts at the sticky index.
WalkPosition(i) == (i + N - sticky) % N

\* Fault: the exclude set of the request is not consulted.
UsableAgain(i, exclude) == enabled[i]

Usable(i, exclude) == enabled[i] /\ IdOf[i] \notin exclude

\* Fault: the quarantine is not consulted.
NextEnabledNoBreaker(exclude) ==
  {i \in Idx : Usable(i, exclude)
                 /\ \A j \in Idx : WalkPosition(j) < WalkPosition(i) => ~Usable(j, exclude)}

\* The accounts a walk may stop at.  It passes over a usable account only if
\* that one is quarantined; it stops at a quarantined one only if the coin of
\* the probabilistic retry exempts it.
NextEnabled(exclude) ==
  {i \in Idx :
     /\ Usable(i, exclude)
     /\ Quarantined(i) => Probing
     /\ \A j \in Idx :
          WalkPosition(j) < WalkPosition(i) /\ Usable(j, exclude) => Quarantined(j)}

\* Fault: no special case for a sole account.
SelectableNoBypass(exclude) == NextEnabled(exclude)

\* A sole account is returned whatever its state, once per request.
Selectable(exclude) ==
  IF N = 1 THEN {i \in Idx : IdOf[i] \notin exclude} ELSE NextEnabled(exclude)

\* Fault: the walk stops one account short of the full circle.
NoneSelectableShortWalk(exclude) ==
  IF N = 1 THEN Selectable(exclude) = {}
           ELSE \A i \in Idx :
                  WalkPosition(i) < N - 1 /\ Usable(i, exclude) => Quarantined(i)

\* GetNextAccount may return an ExhaustedAccountsError.
NoneSelectable(exclude) ==
  IF N = 1 THEN Selectable(exclude) = {}
           ELSE \A i \in Idx : Usable(i, exclude) => Quarantined(i)

\* The account whose stored message the ExhaustedAccountsError carries, or
\* NoIdx when the error has a generic text.
ExhaustedMsgFrom ==
  LET last == IF N = 1 THEN 0 ELSE (sticky + N - 1) % N
  IN  IF N > 0 /\ stats[last].msg THEN last ELSE NoIdx

-----------------------------------------------------------------------------
(* Reports: ReportSuccess and ReportFailureAs.                             *)

\* findAccountIndexByID: the first account with the id, in a set of at most one.
FirstWithID(id) ==
  {i \in Idx : IdOf[i] = id /\ \A j \in Idx : IdOf[j] = id => i <= j}

\* Fault: the sticky index moves past the account that succeeded.
ReportSuccessRotates(id) ==
  /\ stats' = [i \in Idx |-> IF i \in FirstWithID(id) THEN Healthy ELSE stats[i]]
  /\ sticky' \in {i + 1 : i \in FirstWithID(id)}
  /\ UNCHANGED enabled

\* Fault: a success does not move the sticky index.
ReportSuccessStaysPut(id) ==
  /\ stats' = [i \in Idx |-> IF i \in FirstWithID(id) THEN Healthy ELSE stats[i]]
  /\ UNCHANGED <<sticky, enabled>>

ReportSuccess(id) ==
  /\ stats' = [i \in Idx |-> IF i \in FirstWithID(id) THEN Healthy ELSE stats[i]]
  /\ sticky' \in IF FirstWithID(id) = {} THEN {sticky} ELSE FirstWithID(id)
  /\ UNCHANGED enabled

OneMoreFailure(s) ==
  [fails |-> IF s.fails < MaxFails THEN s.fails + 1 ELSE s.fails,
   age |-> 0, msg |-> TRUE]

\* Fault: the failure is charged to the sticky account.
ReportFailureAsSticky(id, kind) ==
  /\ stats' = [stats EXCEPT ![sticky] =
                 IF kind = "recoverable" THEN OneMoreFailure(@) ELSE [@ EXCEPT !.msg = TRUE]]
  /\ UNCHANGED <<sticky, enabled>>

\* Fault: a Fatal error clears the failures of the account.
ReportFailureAsFatalClears(id, kind) ==
  /\ stats' = [i \in Idx |->
                 IF i \notin FirstWithID(id) THEN stats[i]
                 ELSE IF kind = "recoverable" THEN OneMoreFailure(stats[i])
                 ELSE [Healthy EXCEPT !.msg = TRUE]]
  /\ UNCHANGED <<sticky, enabled>>

ReportFailureAs(id, kind) ==
  /\ stats' = [i \in Idx |->
                 IF i \notin FirstWithID(id) THEN stats[i]
                 ELSE IF kind = "recoverable" THEN OneMoreFailure(stats[i])
                 ELSE [stats[i] EXCEPT !.msg = TRUE]]
  /\ UNCHANGED <<sticky, enabled>>

\* accounterrors.Classify.
Classify(status, reason) ==
  IF \/ status \in {402, 403, 429}
     \/ status = 400 /\ reason = "INVALID_MODEL_ID"
  THEN "recoverable"
  ELSE "fatal"

ReportFailure(id, status, reason) == ReportFailureAs(id, Classify(status, reason))
=============================================================================
