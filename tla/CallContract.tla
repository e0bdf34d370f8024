---------------------------- MODULE CallContract ----------------------------
(***************************************************************************)
(* What AuthManager promises the code that calls it, whatever the cloud    *)
(* answers and however calls interleave: an authenticated call goes        *)
(* through a fixed ladder of network requests, never climbs down, and      *)
(* ends.  At most one login to get a token, one attempt, one login to      *)
(* replace the token, one retry, and, when an extend brought no token (or  *)
(* the user asked for a new session), one closing login.                   *)
(***************************************************************************)
EXTENDS Naturals

CONSTANT Callers

VARIABLE rung  \* 0 when idle, else how far up the ladder the call is

Rungs == 0..5

Init == rung = [p \in Callers |-> 0]

\* A call starts with the first login, the first attempt or the closing login.
Begin(p) ==
    /\ rung[p] = 0
    /\ \E r \in {1, 2, 5} : rung' = [rung EXCEPT ![p] = r]

Climb(p) ==
    /\ rung[p] # 0
    /\ \E r \in Rungs : r > rung[p] /\ rung' = [rung EXCEPT ![p] = r]

Finish(p) ==
    /\ rung[p] # 0
    /\ rung' = [rung EXCEPT ![p] = 0]

\* The process that makes the calls is restarted.
Abandon == rung' = [p \in Callers |-> 0]

Next == Abandon \/ \E p \in Callers : Begin(p) \/ Climb(p) \/ Finish(p)

Ladder == Init /\ [][Next]_rung

Spec ==
    /\ Ladder
    /\ \A p \in Callers : WF_rung(Climb(p) \/ Finish(p))
=============================================================================
