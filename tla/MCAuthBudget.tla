----------------------------- MODULE MCAuthBudget -----------------------------
(* The instance of AuthBudget that TLC checks. *)
EXTENDS AuthBudget
CoarseBackoff == <<0, 1>>
FineBackoff == <<0, 1, 2>>
=============================================================================
