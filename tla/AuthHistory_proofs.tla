------------------------- MODULE AuthHistory_proofs -------------------------
(***************************************************************************)
(* For every set of callers and every order of their steps: a token the    *)
(* manager gave up never comes back, sessions are kept as SessionStore     *)
(* says, and expired tokens cause no more fast logins than twice the limit *)
(* in the length of a window.                                              *)
(***************************************************************************)
EXTENDS AuthHistory, AuthBudget, AuthSession_proofs

-----------------------------------------------------------------------------
(* DroppedNeverReturns is not inductive: a late answer may carry a token,  *)
(* so the invariant also says that a token granted and not yet delivered   *)
(* is nobody else's and was never dropped.                                 *)

GrantsApart ==
    \A p \in Callers : granted[p] # NoToken =>
        /\ granted[p] \notin {token, store} \cup dropped
        /\ \A q \in Callers \ {p} : granted[q] # granted[p]

HInv == IInv /\ DroppedNeverReturns /\ NoToken \notin dropped /\ GrantsApart

\* What a caller's step does to the tokens: it consumes what it was granted, and
\* memory and storage stay, meet, empty together or take the granted token.
LEMMA CallerTokens ==
    ASSUME IInv, NEW p \in Callers, CallerStep(p)
    PROVE  /\ granted' = [granted EXCEPT ![p] = NoToken]
           /\ \/ token' = token /\ store' = store
              \/ token' = store /\ store' = store
              \/ token' = NoToken /\ store' = NoToken
              \/ granted[p] # NoToken /\ token' = granted[p] /\ store' = granted[p]
<1>1. ASSUME NEW k \in {"request", "extend"}, BeginCall(p, k)
      PROVE  /\ granted' = [granted EXCEPT ![p] = NoToken]
             /\ token' \in {token, store} /\ store' = store
      BY <1>1 DEF BeginCall, SendRequest, SendLogin
<1>2. ASSUME UserRefresh(p) \/ ReloginAfterExpiry(p)
      PROVE  /\ granted' = [granted EXCEPT ![p] = NoToken]
             /\ token' = NoToken /\ store' = NoToken
      BY <1>2 DEF UserRefresh, ReloginAfterExpiry, Relogin, DropSession, SendLogin
<1>3. ASSUME RecoverAfterExpiry(p) \/ RecoverAfterRefusal(p)
      PROVE  /\ granted' = [granted EXCEPT ![p] = NoToken]
             /\ token' = NoToken /\ store' = NoToken
      BY <1>3 DEF RecoverAfterExpiry, RecoverAfterRefusal, Recover, DropSession,
                  SendLogin, Finish
<1>4. ASSUME LoginReplied(p)
      PROVE  /\ granted' = [granted EXCEPT ![p] = NoToken]
             /\ \/ token' = token /\ store' = store
                \/ granted[p] # NoToken /\ token' = granted[p] /\ store' = granted[p]
      BY <1>4 DEF LoginReplied, Adopt, SendRequest, Finish
<1>5. ASSUME RequestSucceeded(p)
      PROVE  /\ granted' = [granted EXCEPT ![p] = NoToken]
             /\ \/ token' = token /\ store' = store
                \/ token' = NoToken /\ store' = NoToken
                \/ granted[p] # NoToken /\ token' = granted[p] /\ store' = granted[p]
      BY <1>5 DEF RequestSucceeded, Adopt, Relogin, DropSession, SendLogin, Finish
<1>6. ASSUME RequestFailed(p)
      PROVE  /\ granted' = [granted EXCEPT ![p] = NoToken]
             /\ token' = token /\ store' = store
      BY <1>6 DEF RequestFailed, Finish, managerVars
<1>. QED BY <1>1, <1>2, <1>3, <1>4, <1>5, <1>6 DEF CallerStep, Resume

\* What the cloud may grant: nothing, or a token nobody holds.
LEMMA CloudTokens ==
    ASSUME NEW p \in Callers, CloudStep(p)
    PROVE  /\ token' = token /\ store' = store
           /\ \E x \in Fresh \cup {NoToken} : granted' = [granted EXCEPT ![p] = x]
<1>1. \E x \in Fresh \cup {NoToken}, v \in Verdicts : Verdict(p, v, x)
      BY NewTokenIsFresh DEF CloudStep, CloudServes, CloudLogsIn, Verdicts
<1>2. token' = token /\ store' = store
      BY DEF CloudStep, CloudServes, CloudLogsIn, managerVars
<1>. QED BY <1>1, <1>2 DEF Verdict

LEMMA StepHInv == HInv /\ [HistoryNext]_<<vars, historyVars>> => HInv'
<1>. SUFFICES ASSUME HInv, HistoryNext \/ UNCHANGED <<vars, historyVars>> PROVE HInv'
     OBVIOUS
<1>1. IInv'
      BY StepIInv DEF HInv, HistoryNext
<1>2. ASSUME HistoryNext
      PROVE  /\ dropped' \subseteq dropped \cup ({store} \ {store', NoToken})
             /\ dropped' \cap NewlyGranted = {}
      BY <1>2 DEF HistoryNext, ObserveDropped
<1>3. ASSUME HistoryNext, NEW p \in Callers, CallerStep(p) PROVE HInv'
  <2>1. granted' = [granted EXCEPT ![p] = NoToken]
        BY <1>3, CallerTokens DEF HInv
  <2>2. granted \in [Callers -> MaybeToken] BY DEF HInv, IInv, TypeOK
  <2>3. \/ token' = token /\ store' = store
        \/ token' = store /\ store' = store
        \/ token' = NoToken /\ store' = NoToken
        \/ granted[p] # NoToken /\ token' = granted[p] /\ store' = granted[p]
        BY <1>3, CallerTokens DEF HInv
  <2>4. DroppedNeverReturns' /\ NoToken \notin dropped'
        BY <1>2, <1>3, <2>3 DEF HInv, DroppedNeverReturns, GrantsApart
  <2>5. GrantsApart'
        BY <1>2, <1>3, <2>1, <2>2, <2>3 DEF HInv, GrantsApart
  <2>. QED BY <1>1, <2>4, <2>5 DEF HInv
<1>4. ASSUME HistoryNext, NEW p \in Callers, CloudStep(p) PROVE HInv'
  <2>1. token' = token /\ store' = store BY <1>4, CloudTokens
  <2>2. PICK x \in Fresh \cup {NoToken} : granted' = [granted EXCEPT ![p] = x]
        BY <1>4, CloudTokens
  <2>3. granted \in [Callers -> MaybeToken] BY DEF HInv, IInv, TypeOK
  <2>4. DroppedNeverReturns' /\ NoToken \notin dropped'
        BY <1>2, <1>4, <2>1 DEF HInv, DroppedNeverReturns
  <2>5. x # NoToken => /\ x \notin {token, store}
                       /\ \A q \in Callers : granted[q] # x
        BY DEF Fresh, InUse
  <2>6. x # NoToken => x \notin dropped'
    <3>1. x # NoToken => granted'[p] = x /\ granted'[p] # granted[p]
          BY <2>2, <2>3, <2>5
    <3>2. x # NoToken => x \in NewlyGranted BY <3>1 DEF NewlyGranted
    <3>. QED BY <1>2, <1>4, <3>2
  <2>7. dropped' \subseteq dropped BY <1>2, <1>4, <2>1
  <2>8. GrantsApart'
        BY <2>1, <2>2, <2>3, <2>5, <2>6, <2>7 DEF HInv, GrantsApart
  <2>. QED BY <1>1, <2>4, <2>8 DEF HInv
<1>5. ASSUME HistoryNext, SessionEnds \/ Tick PROVE HInv'
  <2>1. token' = token /\ store' = store /\ granted' = granted
        BY <1>5 DEF SessionEnds, Tick, managerVars, callVars
  <2>2. dropped' \subseteq dropped BY <1>2, <1>5, <2>1
  <2>. QED BY <1>1, <2>1, <2>2 DEF HInv, DroppedNeverReturns, GrantsApart
<1>6. ASSUME HistoryNext, Restart PROVE HInv'
  <2>1. token' = NoToken /\ store' = store /\ \A p \in Callers : granted'[p] = NoToken
        BY <1>6 DEF Restart
  <2>2. dropped' \subseteq dropped BY <1>2, <1>6, <2>1
  <2>. QED BY <1>1, <2>1, <2>2 DEF HInv, DroppedNeverReturns, GrantsApart
<1>7. CASE UNCHANGED <<vars, historyVars>>
      BY <1>1, <1>7 DEF HInv, DroppedNeverReturns, GrantsApart, vars, managerVars,
                        callVars, historyVars
<1>. QED BY <1>3, <1>4, <1>5, <1>6, <1>7 DEF HistoryNext, Next

\* A token that was refused or replaced is never handed out or stored again, in
\* any interleaving of the callers, of late answers and of failing logins.
THEOREM DroppedStaysDropped == HistorySpec => []DroppedNeverReturns
<1>1. HistoryInit => HInv
  <2>1. HistoryInit => IInv BY InitIInv DEF HistoryInit
  <2>. QED BY <2>1 DEF HistoryInit, Init, HInv, DroppedNeverReturns, GrantsApart
<1>2. HInv => DroppedNeverReturns BY DEF HInv
<1>. QED BY <1>1, <1>2, StepHInv, PTL DEF HistorySpec


-----------------------------------------------------------------------------
(* AuthHistory implements SessionStore: each step is one of its steps or    *)
(* none.  A token granted is part of a good answer to a login or an extend, *)
(* so what handles it adopts it.                                            *)

GrantsDelivered ==
    \A p \in Callers : granted[p] # NoToken =>
        reply[p] = "ok" /\ (pc[p] = "login" \/ (pc[p] # "idle" /\ kind[p] = "extend"))

KInv == HInv /\ GrantsDelivered

LEMMA CallerAdopts ==
    ASSUME GrantsDelivered, NEW p \in Callers, CallerStep(p)
    PROVE  granted[p] = NoToken \/ (token' = granted[p] /\ store' = granted[p])
<1>1. ASSUME NEW k, BeginCall(p, k) \/ UserRefresh(p) PROVE granted[p] = NoToken
      BY <1>1 DEF BeginCall, UserRefresh, GrantsDelivered
<1>2. ASSUME LoginReplied(p)
      PROVE  granted[p] = NoToken \/ (token' = granted[p] /\ store' = granted[p])
      BY <1>2 DEF LoginReplied, Adopt
<1>3. ASSUME RequestSucceeded(p)
      PROVE  granted[p] = NoToken \/ (token' = granted[p] /\ store' = granted[p])
      BY <1>3 DEF RequestSucceeded, Adopt, GrantsDelivered
<1>4. ASSUME \/ ReloginAfterExpiry(p) \/ RecoverAfterExpiry(p) \/ RecoverAfterRefusal(p)
             \/ RequestFailed(p)
      PROVE  granted[p] = NoToken
      BY <1>4 DEF ReloginAfterExpiry, RecoverAfterExpiry, RecoverAfterRefusal, RequestFailed,
                  GrantsDelivered
<1>. QED BY <1>1, <1>2, <1>3, <1>4 DEF CallerStep, Resume

LEMMA StepDelivered ==
    ASSUME TypeOK, GrantsDelivered, [Next]_vars
    PROVE  GrantsDelivered'
<1>1. ASSUME NEW p \in Callers, CallerStep(p),
             granted' = [granted EXCEPT ![p] = NoToken]
      PROVE  GrantsDelivered'
  <2>1. \A q \in Callers \ {p} :
            granted'[q] = granted[q] /\ reply'[q] = reply[q] /\ pc'[q] = pc[q]
        BY <1>1, CallerMoves DEF TypeOK
  <2>2. granted'[p] = NoToken
        BY <1>1 DEF TypeOK
  <2>3. ASSUME NEW q \in Callers \ {p} PROVE kind'[q] = kind[q]
    <3>1. kind' = kind \/ \E k : kind' = [kind EXCEPT ![p] = k]
          BY <1>1 DEF CallerStep, Resume, BeginCall, UserRefresh, LoginReplied, RequestSucceeded,
                      ReloginAfterExpiry, RecoverAfterExpiry, RecoverAfterRefusal, Recover,
                      RequestFailed
    <3>. QED BY <3>1 DEF TypeOK
  <2>. QED BY <2>1, <2>2, <2>3 DEF GrantsDelivered
<1>2. ASSUME NEW p \in Callers, CloudStep(p) PROVE GrantsDelivered'
  <2>1. pc' = pc /\ kind' = kind
        BY <1>2 DEF CloudStep, CloudServes, CloudLogsIn
  <2>. DEFINE Bears(v, x) ==
                /\ Verdict(p, v, x)
                /\ x # NoToken => /\ v = "ok"
                                  /\ \/ pc[p] = "login"
                                     \/ pc[p] # "idle" /\ kind[p] = "extend"
  <2>2. \E v, x : Bears(v, x)
        BY <1>2 DEF CloudStep, CloudServes, CloudLogsIn
  <2>3. PICK v, x : Bears(v, x) BY <2>2
  <2>4. reply'[p] = v /\ granted'[p] = x
        BY <2>3 DEF Verdict, TypeOK
  <2>5. \A q \in Callers \ {p} : reply'[q] = reply[q] /\ granted'[q] = granted[q]
        BY <2>3 DEF Verdict, TypeOK
  <2>6. granted'[p] # NoToken =>
            reply'[p] = "ok" /\ (pc'[p] = "login" \/ (pc'[p] # "idle" /\ kind'[p] = "extend"))
        BY <2>1, <2>3, <2>4
  <2>. HIDE DEF Bears
  <2>. QED BY <2>1, <2>5, <2>6 DEF GrantsDelivered
<1>3. CASE SessionEnds \/ Tick \/ UNCHANGED vars
      BY <1>3 DEF SessionEnds, Tick, vars, callVars, GrantsDelivered
<1>4. CASE Restart
      BY <1>4 DEF Restart, GrantsDelivered
<1>5. ASSUME NEW p \in Callers, CallerStep(p)
      PROVE  granted' = [granted EXCEPT ![p] = NoToken]
      BY <1>5 DEF CallerStep, Resume, BeginCall, UserRefresh, LoginReplied, RequestSucceeded,
                  ReloginAfterExpiry, RecoverAfterExpiry, RecoverAfterRefusal, Recover,
                  RequestFailed, Relogin, SendRequest, SendLogin, Finish
<1>. QED BY <1>1, <1>2, <1>3, <1>4, <1>5 DEF Next

\* What the log of dropped tokens makes of a step that grants nothing.
LEMMA NothingGranted ==
    ASSUME HInv, ObserveDropped, \A p \in Callers : granted'[p] \in {granted[p], NoToken}
    PROVE  dropped' = dropped \cup ({store} \ {store', NoToken})
<1>1. NewlyGranted \subseteq {NoToken}
      BY DEF NewlyGranted
<1>. QED BY <1>1 DEF HInv, ObserveDropped

\* A caller's step adopts what it was granted, loads, gives up, or changes nothing.
LEMMA CallerKeeps ==
    ASSUME KInv, HistoryNext, NEW p \in Callers, CallerStep(p)
    PROVE  [Keeping!Next]_(Keeping!state)
<1>1. /\ granted' = [granted EXCEPT ![p] = NoToken]
      /\ granted \in [Callers -> MaybeToken]
      BY CallerTokens DEF KInv, HInv, IInv, TypeOK
<1>2. dropped' = dropped \cup ({store} \ {store', NoToken})
      BY <1>1, NothingGranted DEF KInv, HistoryNext
<1>3. CASE granted[p] # NoToken
  <2>1. token' = granted[p] /\ store' = granted[p]
        BY <1>3, CallerAdopts DEF KInv
  <2>2. granted[p] # store /\ granted[p] \in Offered /\ granted[p] \in Token
        BY <1>1, <1>3 DEF KInv, HInv, GrantsApart, Offered, MaybeToken
  <2>3. Offered' = Offered \ {granted[p]}
        BY <1>1, <1>3 DEF Offered, KInv, HInv, GrantsApart
  <2>4. Keeping!Adopt(granted[p])
        BY <1>2, <2>1, <2>2, <2>3 DEF Keeping!Adopt, Keeping!Retire
  <2>. QED BY <2>2, <2>4 DEF Keeping!Next
<1>4. CASE granted[p] = NoToken
  <2>1. Offered' = Offered
    <3>1. granted' = granted
          BY <1>1, <1>4
    <3>. QED BY <3>1 DEF Offered
  <2>2. CASE token' = token /\ store' = store
        BY <1>2, <2>1, <2>2 DEF Keeping!state
  <2>3. CASE token' = store /\ store' = store
    <3>1. CASE token = NoToken /\ store # NoToken
          BY <1>2, <2>1, <2>3, <3>1 DEF Keeping!Next, Keeping!Load
    <3>2. CASE token = store
          BY <2>2, <2>3, <3>2
    <3>. QED BY <3>1, <3>2 DEF KInv, HInv, IInv, TokenIsStored
  <2>4. CASE token' = NoToken /\ store' = NoToken
        BY <1>2, <2>1, <2>4 DEF Keeping!Next, Keeping!GiveUp, Keeping!Retire
  <2>. QED BY <1>4, <2>2, <2>3, <2>4, CallerTokens DEF KInv, HInv
<1>. QED BY <1>3, <1>4

\* A step of the cloud offers a session, or none.
LEMMA CloudKeeps ==
    ASSUME KInv, HistoryNext, NEW p \in Callers, CloudStep(p)
    PROVE  [Keeping!Next]_(Keeping!state)
<1>1. token' = token /\ store' = store
      BY CloudTokens
<1>2. PICK x \in Fresh \cup {NoToken} : granted' = [granted EXCEPT ![p] = x]
      BY CloudTokens
<1>3. granted[p] = NoToken /\ granted \in [Callers -> MaybeToken]
      BY DEF CloudStep, CloudServes, CloudLogsIn, KInv, GrantsDelivered, HInv, IInv, TypeOK
<1>4. CASE x = NoToken
  <2>1. granted' = granted
        BY <1>2, <1>3, <1>4
  <2>2. dropped' = dropped
        BY <1>1, <2>1, NothingGranted DEF KInv, HistoryNext
  <2>. QED BY <1>1, <2>1, <2>2 DEF Keeping!state, Offered
<1>5. CASE x # NoToken
  <2>1. x \in Token /\ x \notin {token, store} /\ \A q \in Callers : granted[q] # x
        BY <1>5 DEF Fresh, InUse
  <2>2. NewlyGranted = {x}
        BY <1>2, <1>3, <1>5 DEF NewlyGranted
  <2>3. dropped' = dropped \ {x}
        BY <1>1, <2>2 DEF HistoryNext, ObserveDropped
  <2>4. Offered' = Offered \cup {x} /\ x \notin Offered
        BY <1>2, <1>3, <1>5, <2>1 DEF Offered
  <2>5. Keeping!Offer(x)
        BY <1>1, <2>1, <2>3, <2>4 DEF Keeping!Offer
  <2>. QED BY <2>1, <2>5 DEF Keeping!Next
<1>. QED BY <1>4, <1>5

\* Memory, store and the answers in flight do only what SessionStore allows, for any
\* number of callers: nothing is adopted twice, kept in one place only, or thrown away
\* on arrival (async_login, async_extend_token, _async_relogin, _async_recover).
THEOREM SessionsKept == HistorySpec => KeepsSessions
<1>1. HistoryInit => KInv /\ Keeping!Init
  <2>1. HistoryInit => IInv BY InitIInv DEF HistoryInit
  <2>. QED BY <2>1 DEF HistoryInit, Init, KInv, HInv, DroppedNeverReturns, GrantsApart,
                       GrantsDelivered, Keeping!Init, Offered
<1>2. KInv /\ [HistoryNext]_<<vars, historyVars>> => KInv'
  <2>1. [HistoryNext]_<<vars, historyVars>> => [Next]_vars BY DEF HistoryNext, vars
  <2>. QED BY <2>1, StepHInv, StepDelivered DEF KInv, HInv, IInv
<1>3. KInv /\ [HistoryNext]_<<vars, historyVars>> => [Keeping!Next]_(Keeping!state)
  <2>. SUFFICES ASSUME KInv, HistoryNext \/ UNCHANGED <<vars, historyVars>>
                PROVE  [Keeping!Next]_(Keeping!state)
       OBVIOUS
  <2>1. ASSUME HistoryNext, SessionEnds \/ Tick PROVE UNCHANGED Keeping!state
    <3>1. token' = token /\ store' = store /\ granted' = granted
          BY <2>1 DEF SessionEnds, Tick, managerVars, callVars
    <3>2. dropped' = dropped
          BY <2>1, <3>1, NothingGranted DEF KInv, HistoryNext
    <3>. QED BY <3>1, <3>2 DEF Keeping!state, Offered
  <2>2. ASSUME HistoryNext, Restart PROVE Keeping!Restart
    <3>1. token' = NoToken /\ store' = store /\ \A p \in Callers : granted'[p] = NoToken
          BY <2>2 DEF Restart
    <3>2. dropped' = dropped
          BY <2>2, <3>1, NothingGranted DEF KInv, HistoryNext
    <3>. QED BY <3>1, <3>2 DEF Keeping!Restart, Offered
  <2>3. CASE UNCHANGED <<vars, historyVars>>
        BY <2>3 DEF vars, managerVars, callVars, historyVars, Keeping!state, Offered
  <2>. QED BY <2>1, <2>2, <2>3, CallerKeeps, CloudKeeps DEF HistoryNext, Next, Keeping!Next
<1>. QED BY <1>1, <1>2, <1>3, PTL DEF HistorySpec, KeepsSessions, Keeping!Spec

-----------------------------------------------------------------------------
(* ExpiryBudget is not inductive: the log alone does not say how much of    *)
(* the limit is left.  The invariant ties it to the window: logins beyond   *)
(* those the counter has seen are older than the window, those beyond       *)
(* another limit are older than the window before it, which was longer than *)
(* Forget.                                                                  *)

\* How many of the latest fast logins were made in the window.
Spent == IF expiries < ExpiryLimit THEN expiries ELSE ExpiryLimit

LoggedByWindow ==
    /\ windowStart = Never => \A i \in Ranks : fast[i] = Never
    /\ windowStart # Never => \A i \in Ranks :
            /\ i > Spent => fast[i] = Never \/ fast[i] > windowStart
            /\ i > Spent + ExpiryLimit => fast[i] = Never
            /\ windowStart > Forget => fast[i] # 0

Logs == [Ranks -> (0..Forget) \cup {Never}]
BInv == IInv /\ fast \in Logs /\ LoggedByWindow

\* What a step may do to the window, beside a fast login, a reset and the clock.
LEMMA WindowMoves ==
    ASSUME Next
    PROVE  \/ \E p \in Callers : ReloginAfterExpiry(p)
           \/ Restart \/ \E p \in Callers : UserRefresh(p)
           \/ Tick
           \/ NoteExpiry /\ ~WithinBudget
           \/ windowStart' = windowStart /\ expiries' = expiries
<1>1. ASSUME NEW p \in Callers, CloudStep(p) \/ RequestFailed(p)
      PROVE  windowStart' = windowStart /\ expiries' = expiries
      BY <1>1 DEF CloudStep, CloudServes, CloudLogsIn, RequestFailed, managerVars
<1>2. ASSUME NEW p \in Callers, NEW k, BeginCall(p, k)
      PROVE  windowStart' = windowStart /\ expiries' = expiries
      BY <1>2 DEF BeginCall, clockVars
<1>3. ASSUME NEW p \in Callers, LoginReplied(p) \/ RecoverAfterRefusal(p) \/ RequestSucceeded(p)
      PROVE  windowStart' = windowStart /\ expiries' = expiries
      BY <1>3 DEF LoginReplied, RecoverAfterRefusal, RequestSucceeded, expiryVars, clockVars
<1>4. ASSUME NEW p \in Callers, RecoverAfterExpiry(p) PROVE NoteExpiry /\ ~WithinBudget
      BY <1>4 DEF RecoverAfterExpiry
<1>5. SessionEnds => windowStart' = windowStart /\ expiries' = expiries
      BY DEF SessionEnds, managerVars
<1>. QED BY <1>1, <1>2, <1>3, <1>4, <1>5 DEF Next, CallerStep, Resume

\* The counter and the log stay in step, whatever the step: at a fast login, ...
LEMMA LoggedAtLogin ==
    ASSUME BInv, NoteExpiry, WithinBudget,
           fast' = [i \in Ranks |-> IF i = 1 THEN 0 ELSE fast[i - 1]]
    PROVE  fast' \in Logs /\ LoggedByWindow'
<1>. USE LimitAssumption, TimeAssumption
<1>1. /\ windowStart \in MaybeAge /\ expiries \in 0..(ExpiryLimit + 1)
      /\ fast \in [Ranks -> (0..Forget) \cup {Never}]
      BY DEF BInv, IInv, TypeOK, ExpiryCap, Logs
<1>2. \A i \in Ranks : i # 1 => i - 1 \in Ranks
      BY DEF Ranks
<1>3. fast' \in Logs
      BY <1>1, <1>2 DEF Logs
<1>4. CASE ExpiryWindowClosed
  <2>1. windowStart' = 0 /\ expiries' = 1 /\ ExpiryLimit >= 1
        BY <1>4 DEF NoteExpiry, ExpiriesNow, WithinBudget
  <2>2. Spent' = 1
        BY <2>1 DEF Spent
  <2>3. ASSUME NEW i \in Ranks, i # 1
        PROVE  /\ fast[i - 1] = Never \/ fast[i - 1] > 0
               /\ i - 1 > ExpiryLimit => fast[i - 1] = Never
    <3>1. i - 1 \in Ranks /\ fast[i - 1] \in (0..Forget) \cup {Never}
          BY <1>1, <1>2, <2>3
    <3>2. CASE windowStart = Never
          BY <3>1, <3>2 DEF BInv, LoggedByWindow
    <3>3. CASE windowStart # Never
      <4>1. windowStart = Forget + 1
            BY <1>1, <1>4, <3>3 DEF ExpiryWindowClosed, MaybeAge, Age
      <4>2. fast[i - 1] # 0
            BY <3>1, <3>3, <4>1 DEF BInv, LoggedByWindow
      <4>3. i - 1 > ExpiryLimit => i - 1 > Spent
            BY <1>1 DEF Spent, Ranks
      <4>4. i - 1 > ExpiryLimit => fast[i - 1] = Never
            BY <3>1, <3>3, <4>1, <4>3 DEF BInv, LoggedByWindow
      <4>. QED BY <3>1, <4>2, <4>4
    <3>. QED BY <3>2, <3>3
  <2>4. \A i \in Ranks : fast'[i] = IF i = 1 THEN 0 ELSE fast[i - 1]
        OBVIOUS
  <2>5. windowStart' # Never /\ ~(windowStart' > Forget)
        BY <2>1
  <2>6. ASSUME NEW i \in Ranks
        PROVE  /\ i > 1 => fast'[i] = Never \/ fast'[i] > 0
               /\ i > 1 + ExpiryLimit => fast'[i] = Never
        BY <2>3, <2>4, <2>6 DEF Ranks
  <2>. QED BY <1>3, <2>1, <2>2, <2>5, <2>6 DEF LoggedByWindow
<1>5. CASE ~ExpiryWindowClosed
  <2>1. windowStart \in 0..Forget /\ windowStart # Never /\ windowStart' = windowStart
        BY <1>1, <1>5 DEF ExpiryWindowClosed, NoteExpiry, MaybeAge, Age
  <2>2. expiries' = expiries + 1 /\ expiries < ExpiryLimit
        BY <1>1, <1>5 DEF NoteExpiry, ExpiriesNow, WithinBudget, ExpiryCap
  <2>3. Spent' = Spent + 1 /\ Spent \in Nat
        BY <1>1, <2>2 DEF Spent
  <2>4. ASSUME NEW i \in Ranks
        PROVE  /\ i > Spent' => fast'[i] = Never \/ fast'[i] > windowStart'
               /\ i > Spent' + ExpiryLimit => fast'[i] = Never
    <3>1. CASE i = 1
          BY <2>3, <3>1
    <3>2. CASE i # 1
      <4>1. i - 1 \in Ranks /\ fast'[i] = fast[i - 1]
            BY <1>2, <3>2
      <4>2. /\ i > Spent' => i - 1 > Spent
            /\ i > Spent' + ExpiryLimit => i - 1 > Spent + ExpiryLimit
            BY <2>3 DEF Ranks
      <4>. QED BY <2>1, <4>1, <4>2 DEF BInv, LoggedByWindow
    <3>. QED BY <3>1, <3>2
  <2>. QED BY <1>3, <2>1, <2>4 DEF LoggedByWindow
<1>. QED BY <1>4, <1>5

\* ... at an expiry past the limit, which logs nothing, ...
LEMMA LoggedPastLimit ==
    ASSUME BInv, NoteExpiry, ~WithinBudget, fast' = fast
    PROVE  LoggedByWindow'
<1>. USE LimitAssumption, TimeAssumption
<1>1. /\ windowStart \in MaybeAge /\ expiries \in 0..(ExpiryLimit + 1)
      /\ fast \in [Ranks -> (0..Forget) \cup {Never}]
      BY DEF BInv, IInv, TypeOK, ExpiryCap, Logs
<1>2. CASE ExpiryWindowClosed
  <2>1. windowStart' = 0 /\ expiries' = 1 /\ ExpiryLimit = 0
        BY <1>2 DEF NoteExpiry, ExpiriesNow, WithinBudget
  <2>2. Spent' = 0 /\ Spent = 0
        BY <1>1, <2>1 DEF Spent
  <2>3. ASSUME NEW i \in Ranks PROVE fast[i] = Never
    <3>1. i > 0 BY DEF Ranks
    <3>2. CASE windowStart = Never
          BY <3>2 DEF BInv, LoggedByWindow
    <3>3. CASE windowStart # Never
          BY <2>1, <2>2, <3>1, <3>3 DEF BInv, LoggedByWindow
    <3>. QED BY <3>2, <3>3
  <2>. QED BY <2>1, <2>3 DEF LoggedByWindow
<1>3. CASE ~ExpiryWindowClosed
  <2>1. windowStart # Never /\ windowStart' = windowStart
        BY <1>3 DEF ExpiryWindowClosed, NoteExpiry
  <2>2. Spent = ExpiryLimit /\ Spent' = ExpiryLimit
        BY <1>1, <1>3 DEF Spent, NoteExpiry, ExpiriesNow, WithinBudget, ExpiryCap
  <2>. QED BY <2>1, <2>2 DEF BInv, LoggedByWindow
<1>. QED BY <1>2, <1>3

\* ... and when time passes.
LEMMA LoggedAtTick ==
    ASSUME BInv, windowStart' = Older(windowStart), expiries' = expiries,
           fast' = [i \in Ranks |-> Ageing(fast[i])]
    PROVE  fast' \in Logs /\ LoggedByWindow'
<1>. USE LimitAssumption, TimeAssumption
<1>1. /\ windowStart \in MaybeAge /\ expiries \in 0..(ExpiryLimit + 1)
      /\ fast \in [Ranks -> (0..Forget) \cup {Never}]
      BY DEF BInv, IInv, TypeOK, ExpiryCap, Logs
<1>2. \A i \in Ranks : /\ fast'[i] = Ageing(fast[i])
                       /\ fast[i] \in (0..Forget) \cup {Never}
      BY <1>1
<1>3. \A i \in Ranks : /\ fast'[i] = Never \/ (fast'[i] \in 0..Forget /\ fast'[i] # 0)
                       /\ fast[i] = Never => fast'[i] = Never
      BY <1>2 DEF Ageing
<1>4. fast' \in Logs
      BY <1>3 DEF Logs
<1>5. Spent' = Spent
      BY DEF Spent
<1>6. CASE windowStart = Never
  <2>1. windowStart' = Never
        BY <1>6 DEF Older
  <2>. QED BY <1>3, <1>4, <1>6, <2>1 DEF BInv, LoggedByWindow
<1>7. CASE windowStart # Never
  <2>1. /\ windowStart \in 0..(Forget + 1) /\ windowStart' # Never
        /\ windowStart' = IF windowStart = Forget + 1 THEN windowStart ELSE windowStart + 1
        BY <1>1, <1>7 DEF Older, MaybeAge, Age
  <2>2. ASSUME NEW i \in Ranks
        PROVE  /\ i > Spent' => fast'[i] = Never \/ fast'[i] > windowStart'
               /\ i > Spent' + ExpiryLimit => fast'[i] = Never
               /\ fast'[i] # 0
    <3>1. fast[i] > windowStart /\ fast[i] \in 0..Forget =>
              fast'[i] = Never \/ fast'[i] > windowStart'
          BY <1>2, <2>1 DEF Ageing
    <3>2. /\ i > Spent => fast[i] = Never \/ fast[i] > windowStart
          /\ i > Spent + ExpiryLimit => fast[i] = Never
          BY <1>7 DEF BInv, LoggedByWindow
    <3>3. fast'[i] # 0 /\ (fast[i] = Never => fast'[i] = Never)
          BY <1>3
    <3>. QED BY <1>2, <1>5, <3>1, <3>2, <3>3
  <2>. QED BY <1>4, <2>1, <2>2 DEF LoggedByWindow
<1>. QED BY <1>6, <1>7

LEMMA StepBInv == BInv /\ [BudgetNext]_<<vars, logVars>> => BInv'
<1>. SUFFICES ASSUME BInv, BudgetNext \/ UNCHANGED <<vars, logVars>> PROVE BInv'
     OBVIOUS
<1>1. IInv'
      BY StepIInv DEF BInv, BudgetNext
<1>2. ASSUME BudgetNext, NEW p \in Callers, ReloginAfterExpiry(p) PROVE BInv'
  <2>1. NoteExpiry /\ WithinBudget
        BY <1>2 DEF ReloginAfterExpiry
  <2>2. fast' = [i \in Ranks |-> IF i = 1 THEN 0 ELSE fast[i - 1]]
        BY <1>2 DEF BudgetNext, ObserveFast
  <2>. QED BY <1>1, <2>1, <2>2, LoggedAtLogin DEF BInv
<1>3. ASSUME BudgetNext, ~\E p \in Callers : ReloginAfterExpiry(p),
             Restart \/ \E p \in Callers : UserRefresh(p)
      PROVE  BInv'
  <2>1. fast' = Blank /\ windowStart' = Never
        BY <1>3 DEF BudgetNext, ObserveFast, Restart, UserRefresh
  <2>. QED BY <1>1, <2>1 DEF BInv, LoggedByWindow, Blank, Logs
<1>4. ASSUME BudgetNext, ~\E p \in Callers : ReloginAfterExpiry(p),
             ~(Restart \/ \E p \in Callers : UserRefresh(p))
      PROVE  BInv'
  <2>1. CASE Tick
    <3>1. fast' = [i \in Ranks |-> Ageing(fast[i])]
          BY <1>4, <2>1 DEF BudgetNext, ObserveFast
    <3>2. windowStart' = Older(windowStart) /\ expiries' = expiries
          BY <2>1 DEF Tick
    <3>. QED BY <1>1, <3>1, <3>2, LoggedAtTick DEF BInv
  <2>2. CASE ~Tick
    <3>1. fast' = fast
          BY <1>4, <2>2 DEF BudgetNext, ObserveFast
    <3>2. CASE NoteExpiry /\ ~WithinBudget
          BY <1>1, <3>1, <3>2, LoggedPastLimit DEF BInv
    <3>3. CASE windowStart' = windowStart /\ expiries' = expiries
          BY <1>1, <3>1, <3>3 DEF BInv, LoggedByWindow, Spent
    <3>. QED BY <1>4, <2>2, <3>2, <3>3, WindowMoves DEF BudgetNext
  <2>. QED BY <2>1, <2>2
<1>5. CASE UNCHANGED <<vars, logVars>>
      BY <1>1, <1>5 DEF BInv, LoggedByWindow, Spent, vars, logVars, managerVars
<1>. QED BY <1>2, <1>3, <1>4, <1>5

\* No stretch of the length of a window sees more fast logins than twice the limit,
\* for any limit and window, any number of callers and whatever the cloud answers
\* (_expiry_within_budget, "a bounded number of times").
THEOREM BudgetKept == BudgetSpec => []ExpiryBudget
<1>1. BudgetInit => BInv
  <2>1. BudgetInit => IInv BY InitIInv DEF BudgetInit
  <2>. QED BY <2>1 DEF BudgetInit, Init, Blank, BInv, Logs, LoggedByWindow
<1>2. BInv => ExpiryBudget
  <2>1. ASSUME BInv PROVE ExpiryBudget
    <3>1. expiries \in 0..(ExpiryLimit + 1)
          BY <2>1, LimitAssumption DEF BInv, IInv, TypeOK, ExpiryCap
    <3>2. 2 * ExpiryLimit + 1 \in Ranks /\ 2 * ExpiryLimit + 1 > Spent + ExpiryLimit
          BY <3>1, LimitAssumption DEF Ranks, Spent
    <3>. QED BY <2>1, <3>2 DEF BInv, LoggedByWindow, ExpiryBudget
  <2>. QED BY <2>1
<1>. QED BY <1>1, <1>2, StepBInv, PTL DEF BudgetSpec

-----------------------------------------------------------------------------
(* ReclaimsSpaced: the streak the log remembers is the count the cool-down  *)
(* is read from, although the code keeps a stale count until the next       *)
(* takeover and never caps it.                                              *)

StreakCounted ==
    /\ streak \in 0..Len(LoginBackoff)
    /\ calm \in (0..Forget) \cup {Never}
    /\ calm # Never => lastEviction = calm /\ evictions = streak
    /\ calm = Never => streak = 0 /\ RecentEvictions = 0

SInv == IInv /\ StreakCounted

LEMMA RecentIsStreak == SInv => RecentEvictions = streak
BY TimeAssumption DEF SInv, StreakCounted, RecentEvictions

\* What a step may do to the takeover count, beside a takeover, a reset and the clock.
LEMMA EvictionMoves ==
    ASSUME Next
    PROVE  \/ \E p \in Callers : Taken(p)
           \/ Restart \/ \E p \in Callers : UserRefresh(p)
           \/ Tick
           \/ lastEviction' = lastEviction /\ evictions' = evictions
<1>1. ASSUME NEW p \in Callers, CloudStep(p) \/ RequestFailed(p)
      PROVE  lastEviction' = lastEviction /\ evictions' = evictions
      BY <1>1 DEF CloudStep, CloudServes, CloudLogsIn, RequestFailed, managerVars
<1>2. ASSUME NEW p \in Callers, NEW k, BeginCall(p, k)
      PROVE  lastEviction' = lastEviction /\ evictions' = evictions
      BY <1>2 DEF BeginCall, clockVars
<1>3. ASSUME NEW p \in Callers, LoginReplied(p) \/ ReloginAfterExpiry(p) \/ RequestSucceeded(p)
      PROVE  lastEviction' = lastEviction /\ evictions' = evictions
      BY <1>3 DEF LoginReplied, ReloginAfterExpiry, RequestSucceeded, clockVars
<1>4. SessionEnds => lastEviction' = lastEviction /\ evictions' = evictions
      BY DEF SessionEnds, managerVars
<1>. QED BY <1>1, <1>2, <1>3, <1>4 DEF Next, CallerStep, Resume, Taken

LEMMA StepSInv == SInv /\ [BudgetNext]_<<vars, logVars>> => SInv'
<1>. SUFFICES ASSUME SInv, BudgetNext \/ UNCHANGED <<vars, logVars>> PROVE SInv'
     OBVIOUS
<1>. USE TimeAssumption
<1>1. IInv'
      BY StepIInv DEF SInv, BudgetNext
<1>2. /\ lastEviction \in MaybeAge /\ evictions \in 0..EvictionCap
      /\ EvictionCap = Len(LoginBackoff) /\ EvictionCap \in Nat
      BY CapsAreNat DEF SInv, IInv, TypeOK, EvictionCap
<1>3. ASSUME BudgetNext, NEW p \in Callers, Taken(p) PROVE SInv'
  <2>1. NoteEviction
        BY <1>3 DEF Taken, RecoverAfterExpiry, RecoverAfterRefusal, Recover
  <2>2. calm' = 0 /\ streak' = IF streak < Len(LoginBackoff) THEN streak + 1 ELSE streak
        BY <1>3 DEF BudgetNext, ObserveStreak
  <2>3. streak \in 0..EvictionCap /\ RecentEvictions = streak
        BY <1>2, RecentIsStreak DEF SInv, StreakCounted
  <2>4. lastEviction' = 0 /\ evictions' = streak'
        BY <1>2, <2>1, <2>2, <2>3 DEF NoteEviction
  <2>5. streak' \in 0..Len(LoginBackoff) /\ calm' # Never
        BY <1>2, <2>2, <2>3
  <2>. QED BY <1>1, <2>2, <2>4, <2>5 DEF SInv, StreakCounted
<1>4. ASSUME BudgetNext, ~\E p \in Callers : Taken(p),
             Restart \/ \E p \in Callers : UserRefresh(p)
      PROVE  SInv'
  <2>1. calm' = Never /\ streak' = 0
        BY <1>4 DEF BudgetNext, ObserveStreak
  <2>2. lastEviction' = Never /\ evictions' = 0
        BY <1>4 DEF Restart, UserRefresh
  <2>. QED BY <1>1, <1>2, <2>1, <2>2 DEF SInv, StreakCounted, RecentEvictions
<1>5. ASSUME BudgetNext, ~\E p \in Callers : Taken(p),
             ~(Restart \/ \E p \in Callers : UserRefresh(p)), Tick
      PROVE  SInv'
  <2>1. calm' = Ageing(calm) /\ streak' = IF Ageing(calm) = Never THEN 0 ELSE streak
        BY <1>5 DEF BudgetNext, ObserveStreak
  <2>2. lastEviction' = Older(lastEviction) /\ evictions' = evictions
        BY <1>5 DEF Tick
  <2>3. CASE calm = Never
    <3>1. calm' = Never /\ streak' = 0
          BY <2>1, <2>3 DEF Ageing
    <3>2. RecentEvictions' = 0
          BY <1>2, <2>2, <2>3 DEF SInv, StreakCounted, RecentEvictions, Older, MaybeAge, Age
    <3>. QED BY <1>1, <1>2, <3>1, <3>2 DEF SInv, StreakCounted
  <2>4. CASE calm # Never
    <3>1. calm \in 0..Forget /\ lastEviction = calm /\ evictions = streak
          BY <2>4 DEF SInv, StreakCounted
    <3>2. lastEviction' = calm + 1 /\ lastEviction' # Never
          BY <2>2, <3>1 DEF Older
    <3>3. CASE calm = Forget
      <4>1. calm' = Never /\ streak' = 0
            BY <2>1, <3>1, <3>3 DEF Ageing
      <4>2. RecentEvictions' = 0
            BY <3>1, <3>2, <3>3 DEF RecentEvictions
      <4>. QED BY <1>1, <1>2, <4>1, <4>2 DEF SInv, StreakCounted
    <3>4. CASE calm # Forget
      <4>1. calm' = calm + 1 /\ calm' \in 0..Forget /\ calm' # Never /\ streak' = streak
            BY <2>1, <2>4, <3>1, <3>4 DEF Ageing
      <4>. QED BY <1>1, <2>2, <3>1, <3>2, <4>1 DEF SInv, StreakCounted
    <3>. QED BY <3>3, <3>4
  <2>. QED BY <2>3, <2>4
<1>6. ASSUME BudgetNext, ~\E p \in Callers : Taken(p),
             ~(Restart \/ \E p \in Callers : UserRefresh(p)), ~Tick
      PROVE  SInv'
  <2>1. calm' = calm /\ streak' = streak
        BY <1>6 DEF BudgetNext, ObserveStreak
  <2>2. lastEviction' = lastEviction /\ evictions' = evictions
        BY <1>6, EvictionMoves DEF BudgetNext
  <2>. QED BY <1>1, <2>1, <2>2 DEF SInv, StreakCounted, RecentEvictions
<1>7. CASE UNCHANGED <<vars, logVars>>
      BY <1>1, <1>7 DEF SInv, StreakCounted, RecentEvictions, vars, logVars, managerVars
<1>. QED BY <1>3, <1>4, <1>5, <1>6, <1>7

\* The table's waits are kept between the reclaims of a streak, however long it gets and
\* whatever resets it, for any table, any number of callers and whatever the cloud answers
\* (_async_recover, "reclaiming is delayed").
THEOREM ReclaimsKept == BudgetSpec => ReclaimsSpaced
<1>1. BudgetInit => SInv
  <2>1. BudgetInit => IInv BY InitIInv DEF BudgetInit
  <2>. QED BY <2>1, CapsAreNat
           DEF BudgetInit, Init, SInv, StreakCounted, RecentEvictions, EvictionCap
<1>2. ASSUME SInv, [BudgetNext]_<<vars, logVars>>, NEW p \in Callers,
             Taken(p), pc'[p] = "login"
      PROVE  lastLogin = Never \/ lastLogin >= Wait(streak + 1)
  <2>1. Recover(p)
        BY <1>2 DEF Taken, RecoverAfterExpiry, RecoverAfterRefusal
  <2>2. ~HeldOff
        BY <1>2, <2>1 DEF Recover, Finish, SInv, IInv, TypeOK
  <2>3. streak \in Nat /\ RecentEvictions = streak
        BY <1>2, RecentIsStreak, CapsAreNat DEF SInv, StreakCounted, EvictionCap
  <2>4. Wait(streak + 1) = Cooldown(streak) /\ Cooldown(streak) \in 0..Forget
    <3>1. (IF streak + 1 < Len(LoginBackoff) THEN streak + 1 ELSE Len(LoginBackoff))
            = 1 + (IF streak < LastWait THEN streak ELSE LastWait)
          BY <2>3, CapsAreNat
    <3>2. Wait(streak + 1) = Cooldown(streak)
          BY <3>1 DEF Wait, Cooldown
    <3>. QED BY <2>3, <3>2, CooldownBound
  <2>5. lastLogin \in MaybeAge
        BY <1>2 DEF SInv, IInv, TypeOK
  <2>. QED BY <2>2, <2>3, <2>4, <2>5, TimeAssumption DEF HeldOff, MaybeAge, Age
<1>3. SInv /\ [BudgetNext]_<<vars, logVars>> =>
        [\A p \in Callers : Taken(p) /\ pc'[p] = "login" =>
            lastLogin = Never \/ lastLogin >= Wait(streak + 1)]_<<vars, logVars>>
      BY <1>2
<1>. QED BY <1>1, <1>3, StepSInv, PTL DEF BudgetSpec, ReclaimsSpaced

=============================================================================
