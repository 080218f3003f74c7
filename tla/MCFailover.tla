----------------------------- MODULE MCFailover -----------------------------
(***************************************************************************)
(* Constants for the model checking of Failover.                           *)
(***************************************************************************)
EXTENDS Failover, TLC

CONSTANTS r1, r2

MCRequests == {r1, r2}
MCDialect == r1 :> "openai" @@ r2 :> "anthropic"

\* Distinct ids, numbered like the accounts.
MCIdOf == [i \in Idx |-> i]

\* One error of each branch that Classify and the dialects tell apart.
MCKiroErrors ==
  {[status |-> 402, reason |-> "OTHER"],
   [status |-> 413, reason |-> "CONTENT_LENGTH_EXCEEDS_THRESHOLD"]}

FatalError == {[status |-> 413, reason |-> "CONTENT_LENGTH_EXCEEDS_THRESHOLD"]}

AllKiroErrors ==
  [status : {400, 402, 422, 429, 500}, reason : Reasons] \cup MCKiroErrors

NoAccounts == {}
LastAccount == {N - 1}
=============================================================================
