-------------------------- MODULE FailoverContract --------------------------
(***************************************************************************)
(* What the failover loop promises the clients of the gateway, with no     *)
(* breaker, no sticky account and no clock: a request calls Kiro on behalf *)
(* of one account id after another, never of the same id twice, goes on    *)
(* only after a failure, and ends with exactly one answer; once a call has *)
(* succeeded no other account is called.                                   *)
(***************************************************************************)
CONSTANTS Requests, Ids

VARIABLES
  phase,      \* of each request: "idle", "choosing", "calling", "delivering"
  called      \* the ids each request has called Kiro for

contractVars == <<phase, called>>

Init ==
  /\ phase = [r \in Requests |-> "idle"]
  /\ called = [r \in Requests |-> {}]

Move(r, from, to) == phase[r] = from /\ phase' = [phase EXCEPT ![r] = to]

Open(r) ==
  /\ Move(r, "idle", "choosing")
  /\ called' = [called EXCEPT ![r] = {}]

Call(r) ==
  /\ Move(r, "choosing", "calling")
  /\ \E id \in Ids \ called[r] : called' = [called EXCEPT ![r] = @ \cup {id}]

Fail(r)    == Move(r, "calling", "choosing") /\ UNCHANGED called
Deliver(r) == Move(r, "calling", "delivering") /\ UNCHANGED called

\* The one answer of the request, whatever it says.
Answer(r) ==
  /\ \E from \in {"choosing", "calling", "delivering"} : Move(r, from, "idle")
  /\ called' = [called EXCEPT ![r] = {}]

Next == \E r \in Requests : Open(r) \/ Call(r) \/ Fail(r) \/ Deliver(r) \/ Answer(r)

Spec == Init /\ [][Next]_contractVars
=============================================================================
