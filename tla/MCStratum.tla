----------------------------- MODULE MCStratum -----------------------------
(***************************************************************************)
(* One worker, a queue of two shares and a short wire.                     *)
(***************************************************************************)
EXTENDS Stratum
=============================================================================
