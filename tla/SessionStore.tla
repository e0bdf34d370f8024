---------------------------- MODULE SessionStore ----------------------------
(***************************************************************************)
(* What AuthManager and its token store promise about sessions, however    *)
(* many calls are in flight: a session the cloud offers is adopted in      *)
(* memory and in the store at once, or lost to a restart only; the store   *)
(* is read only when memory is empty; both are given up together; and a    *)
(* session given up or replaced is not adopted again.                      *)
(***************************************************************************)
CONSTANTS Token, NoToken

VARIABLES
    held,     \* the session in memory
    stored,   \* the session a restart would find
    offered,  \* sessions the cloud has granted in answers not yet delivered
    retired   \* sessions given up or replaced, by names not granted anew since

state == <<held, stored, offered, retired>>

Init == held = NoToken /\ stored = NoToken /\ offered = {} /\ retired = {}

Retire == retired' = retired \cup ({stored} \ {NoToken})

\* The cloud grants a session, under a name nobody holds.
Offer(t) ==
    /\ t \notin {held, stored} \cup offered
    /\ offered' = offered \cup {t} /\ retired' = retired \ {t}
    /\ UNCHANGED <<held, stored>>

Adopt(t) ==
    /\ t \in offered
    /\ held' = t /\ stored' = t /\ offered' = offered \ {t} /\ Retire

Load ==
    /\ held = NoToken /\ stored # NoToken
    /\ held' = stored /\ UNCHANGED <<stored, offered, retired>>

GiveUp ==
    /\ held' = NoToken /\ stored' = NoToken /\ Retire /\ UNCHANGED offered

Restart ==
    /\ held' = NoToken /\ offered' = {} /\ UNCHANGED <<stored, retired>>

Next ==
    \/ \E t \in Token : Offer(t) \/ Adopt(t)
    \/ Load \/ GiveUp \/ Restart

Spec == Init /\ [][Next]_state
=============================================================================
