------------------------- MODULE MCSessionInputQueue -------------------------
(* Instances of SessionInputQueue for TLC. *)
EXTENDS SessionInputQueue
=============================================================================
