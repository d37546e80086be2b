------------------------------ MODULE MCSearch ------------------------------
(***************************************************************************)
(* One CPU thread and one GPU worker share a small search space.           *)
(***************************************************************************)
EXTENDS Search, TLC

CONSTANTS c1, g1

MCIndex == c1 :> 0 @@ g1 :> 1

=============================================================================
