--------------------------- MODULE MCUpstreamCall ---------------------------
(***************************************************************************)
(* Constants for the model checking of UpstreamCall.                       *)
(***************************************************************************)
EXTENDS UpstreamCall

CONSTANTS c1, c2

MCCallers == {c1, c2}
OneStreams == {c1}
=============================================================================
