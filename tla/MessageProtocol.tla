-------------------------- MODULE MessageProtocol --------------------------
(***************************************************************************)
(* What the client of a streamed reply may rely on.  The reply begins, its *)
(* blocks come one after the other, each closed before the next one opens, *)
(* numbered from 0 and never touched again, then the reason it ends for,   *)
(* then its end.  A ping may come at any time after the beginning.         *)
(***************************************************************************)
EXTENDS Integers, Sequences, SequencesExt

VARIABLES
  phase,    \* before, body, ended, done
  closed,   \* the finished blocks
  open,     \* the block being sent, if there is one
  pings     \* how many pings have come

vars == <<phase, closed, open, pings>>

\* A dialect without a first event is in its body from the start.
Init ==
  /\ phase \in {"before", "body"}
  /\ closed = <<>> /\ open = <<>> /\ pings = 0

Begin ==
  /\ phase = "before" /\ phase' = "body"
  /\ UNCHANGED <<closed, open, pings>>

OpenBlock ==
  /\ phase = "body" /\ open = <<>>
  /\ Len(open') = 1 /\ open'[1].index = Len(closed)
  /\ UNCHANGED <<phase, closed, pings>>

\* A call is announced without its input.
GivesInput(call, full) == call = <<[full[1] EXCEPT !.arguments = "{}"]>>

\* A delta adds to the text of the open block, signs it, or gives its call
\* the input.
GrowBlock ==
  /\ phase = "body" /\ open # <<>>
  /\ Len(open') = 1
  /\ open' = <<[open[1] EXCEPT !.text = open'[1].text, !.signed = open'[1].signed,
                              !.call = open'[1].call]>>
  /\ IsPrefix(open[1].text, open'[1].text)
  /\ open[1].signed => open'[1].signed
  /\ open'[1].call # open[1].call => GivesInput(open[1].call, open'[1].call)
  /\ UNCHANGED <<phase, closed, pings>>

CloseBlock ==
  /\ phase = "body" /\ open # <<>>
  /\ closed' = Append(closed, open[1]) /\ open' = <<>>
  /\ UNCHANGED <<phase, pings>>

GiveReason ==
  /\ phase = "body" /\ open = <<>> /\ phase' = "ended"
  /\ UNCHANGED <<closed, open, pings>>

End ==
  /\ phase = "ended" /\ phase' = "done"
  /\ UNCHANGED <<closed, open, pings>>

Ping ==
  /\ phase # "before" /\ pings' = pings + 1
  /\ UNCHANGED <<phase, closed, open>>

Next ==
  Begin \/ OpenBlock \/ GrowBlock \/ CloseBlock \/ GiveReason \/ End \/ Ping

Spec == Init /\ [][Next]_vars
=============================================================================
