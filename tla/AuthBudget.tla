----------------------------- MODULE AuthBudget -----------------------------
(***************************************************************************)
(* AuthSession with a log of the logins an expired token caused without    *)
(* the takeover cool-down, latest first, and of the takeovers in a row.    *)
(* The logs only observe, and forget what is longer ago than Forget ticks. *)
(***************************************************************************)
EXTENDS AuthSession

Ranks == 1..(2 * ExpiryLimit + 1)

VARIABLES
    fast,    \* fast[i]: the age of the i-th latest such login
    streak,  \* refusals taken for takeovers, none later than Forget after the one before
    calm     \* the age of the last of them, Never once the streak is over

logVars == <<fast, streak, calm>>

Blank == [i \in Ranks |-> Never]

BudgetInit == Init /\ fast = Blank /\ streak = 0 /\ calm = Never

Ageing(a) == IF a = Never \/ a >= Forget THEN Never ELSE a + 1

\* One more login now; a clean slate when the user or a restart resets the counters;
\* every login a tick older.
ObserveFast ==
    fast' = IF \E p \in Callers : ReloginAfterExpiry(p)
            THEN [i \in Ranks |-> IF i = 1 THEN 0 ELSE fast[i - 1]]
            ELSE IF Restart \/ \E p \in Callers : UserRefresh(p) THEN Blank
            ELSE IF Tick THEN [i \in Ranks |-> Ageing(fast[i])]
            ELSE fast

Taken(p) == RecoverAfterExpiry(p) \/ RecoverAfterRefusal(p)

\* Counted as far as the table tells streaks apart.
ObserveStreak ==
    IF \E p \in Callers : Taken(p)
    THEN calm' = 0 /\ streak' = IF streak < Len(LoginBackoff) THEN streak + 1 ELSE streak
    ELSE IF Restart \/ \E p \in Callers : UserRefresh(p)
    THEN calm' = Never /\ streak' = 0
    ELSE IF Tick
    THEN calm' = Ageing(calm) /\ streak' = IF Ageing(calm) = Never THEN 0 ELSE streak
    ELSE UNCHANGED <<streak, calm>>

BudgetNext == Next /\ ObserveFast /\ ObserveStreak

\* A suspended call is answered, and the caller comes back with another request, as the
\* coordinator's timer does.
BudgetSpec ==
    /\ BudgetInit /\ [][BudgetNext]_<<vars, logVars>>
    /\ CallFairness
    /\ \A p \in Callers : WF_vars(BeginCall(p, "request"))

\* EXPIRY_RELOGIN_LIMIT bounds the fast path per window of EVICTION_FORGET_SECONDS,
\* and the windows are laid end to end: whatever the callers and the clock do, no
\* stretch of that length, wherever it starts, sees more than twice the limit.
ExpiryBudget == fast[2 * ExpiryLimit + 1] = Never

\* _async_recover, "reclaiming is delayed while another client keeps taking the session
\* back": the n-th takeover in a row claims the session again only if the n-th wait of the
\* table has passed since the last login, the last wait for all beyond the table, and
\* however many of them were held off.  The user's refresh and a restart end the row.
Wait(n) == LoginBackoff[IF n < Len(LoginBackoff) THEN n ELSE Len(LoginBackoff)]

ReclaimsSpaced ==
    [][\A p \in Callers : Taken(p) /\ pc'[p] = "login" =>
         lastLogin = Never \/ lastLogin >= Wait(streak + 1)]_<<vars, logVars>>

=============================================================================
