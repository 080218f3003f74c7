------------------------------ MODULE Breaker ------------------------------
(***************************************************************************)
(* The quarantine window of the circuit breaker, as computed by            *)
(* internal/accountmanager/breaker.go.  Times are whole ticks, and a Go    *)
(* int holds the naturals up to MaxInt: an overflowing product wraps.      *)
(***************************************************************************)
EXTENDS Naturals

CONSTANTS
  MaxInt    \* largest value of the machine integer the code computes with

ASSUME MaxIntAssumption == MaxInt \in Nat \ {0}

\* The arithmetic of a machine integer (its negative half is never reached by
\* the comparisons below, so an overflow is a wrap modulo the range).
Wrap(n) == n % (MaxInt + 1)

Lesser(m, n) == IF m <= n THEN m ELSE n

\* Fault: the test against half the cap is off by one.
NextMultiplierEarlyCap(m, cap) == IF m >= cap \div 2 THEN cap ELSE Wrap(2 * m)

\* One turn of the loop: the multiplier doubles, or saturates when the next
\* doubling would pass the cap.
NextMultiplier(m, cap) == IF m > cap \div 2 THEN cap ELSE Wrap(2 * m)

\* The multiplier after `fails` consecutive failures.
Multiplier(fails, cap) ==
  LET after[n \in 1 .. fails] ==
        IF n = 1 THEN 1 ELSE NextMultiplier(after[n - 1], cap)
  IN  Lesser(after[fails], cap)

\* How long an account stays out of the rotation after `fails` failures.
QuarantineWindow(fails, base, cap) ==
  IF fails = 0 THEN 0 ELSE Wrap(base * Multiplier(fails, cap))
=============================================================================
