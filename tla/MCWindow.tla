------------------------------ MODULE MCWindow ------------------------------
(* A small instance of MinerWindow for TLC. *)
EXTENDS MinerWindow
=============================================================================
