---------------------------- MODULE AuthTakeovers ----------------------------
(***************************************************************************)
(* AuthSession observed for one question: was there another client at all? *)
(***************************************************************************)
EXTENDS AuthSession

VARIABLE contested  \* the app signed in, or a session reached the end of its life

TakeoversInit == Init /\ contested = FALSE

TakeoversNext == Next /\ contested' = (contested \/ SessionEnds)

TakeoversSpec == TakeoversInit /\ [][TakeoversNext]_<<vars, contested>>

\* exceptions.py, SessionTakeoverError: "Another client is holding the account's single
\* session slot."  As long as nobody else ended a session, no caller is told so: the
\* integration's own logins are not taken for those of another client.
TakeoversAreReal ==
    [][\A p \in Callers : TakeoverRaised(p) => contested]_<<vars, contested>>

=============================================================================
