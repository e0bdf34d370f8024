----------------------------- MODULE AuthHistory -----------------------------
(***************************************************************************)
(* AuthSession with the history its properties speak of.  The variables of *)
(* this module only observe: each is computed from the step AuthSession    *)
(* takes and none restricts it.                                            *)
(***************************************************************************)
EXTENDS AuthSession

VARIABLES
    dropped,  \* tokens the manager cleared from its store or replaced there
    hold      \* what is left of the wait the last SessionTakeoverError announced

historyVars == <<dropped, hold>>

HistoryInit == Init /\ dropped = {} /\ hold = 0

NewlyGranted == {granted'[p] : p \in {q \in Callers : granted'[q] # granted[q]}}

ObserveDropped ==
    dropped' = (dropped \cup ({store} \ {store', NoToken})) \ NewlyGranted

ObserveHold ==
    hold' = IF \E p \in Callers : TakeoverRaised(p)
            THEN Cooldown(RecentEvictions) - lastLogin
            ELSE IF (\E p \in Callers : UserRefresh(p)) \/ Restart THEN 0
            ELSE IF Tick /\ hold > 0 THEN hold - 1 ELSE hold

HistoryNext == Next /\ ObserveDropped /\ ObserveHold

HistorySpec == HistoryInit /\ [][HistoryNext]_<<vars, historyVars>>

-----------------------------------------------------------------------------
\* A token the manager gave up, because the cloud refused it or a new one
\* replaced it, is never handed out or stored again: not by a login that
\* fails afterwards, nor by the late answer of a concurrent call
\* (_async_relogin clears the store before it logs in for this).
DroppedNeverReturns == {token, store} \cap dropped = {}

\* docs/accounts.md, "the integration waits [...] instead of stealing it back
\* on every poll": once a SessionTakeoverError announced a wait, nothing but the
\* user's own refresh logs in before the wait is over.
LogsIn(p) == pc[p] # "login" /\ pc'[p] = "login"
HoldOffRespected ==
    [][\A p \in Callers : LogsIn(p) /\ kind'[p] # "refresh" => hold = 0]_<<vars, historyVars>>

\* Memory and store change as SessionStore allows and no other way: no answer that
\* brings a token is dropped, adopted twice or kept in one place only, whatever other
\* calls do between its being sent and its being delivered.
Offered == {granted[p] : p \in Callers} \ {NoToken}

Keeping == INSTANCE SessionStore
           WITH held <- token, stored <- store, offered <- Offered, retired <- dropped
KeepsSessions == Keeping!Spec

=============================================================================
