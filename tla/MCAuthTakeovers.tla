--------------------------- MODULE MCAuthTakeovers ---------------------------
(* The instance of AuthTakeovers that TLC checks. *)
EXTENDS AuthTakeovers, TLC
CoarseBackoff == <<0, 1>>
CallerSymmetry == Permutations(Callers)
=============================================================================
