------------------------- MODULE MCStatePersistence -------------------------
(***************************************************************************)
(* Constants for the model checking of StatePersistence.                   *)
(***************************************************************************)
EXTENDS StatePersistence

MCIdOf == [i \in Idx |-> i]
=============================================================================
