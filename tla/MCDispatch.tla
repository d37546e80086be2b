----------------------------- MODULE MCDispatch -----------------------------
(***************************************************************************)
(* Instances of Dispatch: one CPU thread and one card already race over    *)
(* every shared variable.                                                  *)
(***************************************************************************)
EXTENDS Dispatch
=============================================================================
