------------------------------ MODULE MCTuning -----------------------------
(* Small instances of CardTuning for TLC. *)
EXTENDS CardTuning

ThreeBigger == <<22, 20, 18>>

=============================================================================
