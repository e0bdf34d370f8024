--------------------------- MODULE MCCoordinator ---------------------------
(* The instances of the coordinator that TLC checks. *)
EXTENDS Coordinator, TLC

\* Appliances and readings are interchangeable.
DataSymmetry == Permutations(Devices) \cup Permutations(Values)

\* Bound: nothing else happens while a fetch waits for the cloud; how far a fetch is matters
\* to other fetches only.  (In the other instances they interleave with everything.)
Prompt ==
    \/ \A o \in Origins : fetch[o].at = "idle"
    \/ \E o \in Origins : FetchReplies(o)
=============================================================================
