---------------------------- MODULE MCAuthHistory ----------------------------
(* The instances of AuthHistory that TLC checks. *)
EXTENDS AuthHistory, TLC
NoBackoff == <<0>>
FineBackoff == <<0, 1, 2>>
CallerSymmetry == Permutations(Callers)

\* Bound: no time passes.  Without waits it only closes the window of the expiries.
AtOnce == ~Tick
=============================================================================
