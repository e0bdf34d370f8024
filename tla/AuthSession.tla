----------------------------- MODULE AuthSession -----------------------------
(***************************************************************************)
(* The account session of the integration: AuthManager                     *)
(* (aiodollin/auth/manager.py) with its token store, the tasks of Home     *)
(* Assistant that call it concurrently, and the cloud that keeps a single  *)
(* live session per account.                                               *)
(*                                                                         *)
(* AuthManager takes no lock, so every `await` of a network request is a   *)
(* point where another task runs.  The awaits of the token store are not:  *)
(* ConfigEntryTokenStore and InMemoryTokenStore never suspend, so the code *)
(* around a store call is one step.                                        *)
(*                                                                         *)
(* Time is kept as ages, in ticks, that saturate just past Forget: the     *)
(* code compares no age with anything larger.                              *)
(***************************************************************************)
EXTENDS Integers, Sequences, FiniteSets

CONSTANTS
    Callers,       \* the tasks sharing the client: poll, command, button...
    Token,         \* names for the access tokens the cloud may grant
    NoToken,       \* Python's None for a token
    Never,         \* Python's None for an instant
    LoginBackoff,  \* LOGIN_BACKOFF_SECONDS, in ticks
    Forget,        \* EVICTION_FORGET_SECONDS, in ticks
    ExpiryLimit,   \* EXPIRY_RELOGIN_LIMIT
    Faults         \* which failures the network and the cloud may show

FaultKinds == {"error", "rejected", "lost"}

ASSUME TokenAssumption == NoToken \notin Token
ASSUME TimeAssumption == Forget \in Nat /\ Never \notin Int
ASSUME BackoffAssumption ==
    /\ LoginBackoff \in Seq(Nat)
    /\ Len(LoginBackoff) > 0
    /\ \A i \in 1..Len(LoginBackoff) : LoginBackoff[i] <= Forget
ASSUME LimitAssumption == ExpiryLimit \in Nat
ASSUME FaultAssumption == Faults \subseteq FaultKinds

VARIABLES
    \* AuthManager and its store
    token,         \* _token
    store,         \* the access token of the stored Session
    lastLogin,     \* age of _last_login
    lastEviction,  \* age of _last_eviction
    evictions,     \* _evictions, saturating past the end of the table
    windowStart,   \* age of _expiry_window_start
    expiries,      \* _expiries_in_window, saturating past the limit
    \* the calls in progress
    pc,            \* the await a caller is suspended at
    kind,          \* what it calls: request, extend or refresh
    then,          \* where a login in progress resumes
    sent,          \* the token its request carries
    reply,         \* the cloud's verdict once given, until it is delivered
    granted,       \* the token that comes with the verdict
    \* the cloud
    live           \* the one token the cloud accepts

managerVars == <<token, store, lastLogin, lastEviction, evictions,
                 windowStart, expiries>>
callVars    == <<pc, kind, then, sent, reply, granted>>
clockVars   == <<lastLogin, lastEviction, windowStart>>
expiryVars  == <<windowStart, expiries>>
vars        == <<managerVars, callVars, live>>

MaybeToken == Token \cup {NoToken}
Age        == 0..(Forget + 1)
MaybeAge   == Age \cup {Never}
Stages     == {"idle", "login", "first", "retry"}
Kinds      == {"request", "extend", "refresh"}
Verdicts   == {"none", "ok", "expired", "refused", "rejected", "error"}

EvictionCap == Len(LoginBackoff)
ExpiryCap   == ExpiryLimit + 1

\* Whatever the cloud answers and in whatever order, memory and storage hold tokens it
\* granted and nothing else (async_login, async_extend_token), and the counters stay within
\* what the tables distinguish.
TypeOK ==
    /\ token \in MaybeToken
    /\ store \in MaybeToken
    /\ lastLogin \in MaybeAge
    /\ lastEviction \in MaybeAge
    /\ evictions \in 0..EvictionCap
    /\ windowStart \in MaybeAge
    /\ expiries \in 0..ExpiryCap
    /\ pc \in [Callers -> Stages]
    /\ kind \in [Callers -> Kinds]
    /\ then \in [Callers -> {"first", "retry", "return"}]
    /\ sent \in [Callers -> MaybeToken]
    /\ reply \in [Callers -> Verdicts]
    /\ granted \in [Callers -> MaybeToken]
    /\ live \in MaybeToken

Init ==
    /\ token = NoToken /\ store = NoToken /\ live = NoToken
    /\ lastLogin = Never /\ lastEviction = Never /\ windowStart = Never
    /\ evictions = 0 /\ expiries = 0
    /\ pc = [p \in Callers |-> "idle"]
    /\ kind = [p \in Callers |-> "request"]
    /\ then = [p \in Callers |-> "return"]
    /\ sent = [p \in Callers |-> NoToken]
    /\ reply = [p \in Callers |-> "none"]
    /\ granted = [p \in Callers |-> NoToken]

-----------------------------------------------------------------------------
(* How a caller moves between its awaits. *)

\* Hand the token to `request` and suspend until it answers.
SendRequest(p, stage, tok) ==
    /\ pc' = [pc EXCEPT ![p] = stage]
    /\ sent' = [sent EXCEPT ![p] = tok]
    /\ reply' = [reply EXCEPT ![p] = "none"]
    /\ granted' = [granted EXCEPT ![p] = NoToken]
    /\ UNCHANGED then

\* async_login up to its request; `resume` is what its caller does with the token.
SendLogin(p, resume) ==
    /\ pc' = [pc EXCEPT ![p] = "login"]
    /\ then' = [then EXCEPT ![p] = resume]
    /\ sent' = [sent EXCEPT ![p] = NoToken]
    /\ reply' = [reply EXCEPT ![p] = "none"]
    /\ granted' = [granted EXCEPT ![p] = NoToken]

\* The call ends, with a result or an exception.
Finish(p) ==
    /\ pc' = [pc EXCEPT ![p] = "idle"]
    /\ then' = [then EXCEPT ![p] = "return"]
    /\ sent' = [sent EXCEPT ![p] = NoToken]
    /\ reply' = [reply EXCEPT ![p] = "none"]
    /\ granted' = [granted EXCEPT ![p] = NoToken]

-----------------------------------------------------------------------------
(* The manager's own helpers. *)

AdoptUnsaved(tok) == token' = tok /\ UNCHANGED store

\* self._token = new, then store.save: what every new token goes through.
Adopt(tok) == token' = tok /\ store' = tok

DropFromMemory == token' = NoToken /\ UNCHANGED store

\* self._token = None, then store.clear.
DropSession == token' = NoToken /\ store' = NoToken

RecentEvictions ==
    IF lastEviction # Never /\ lastEviction > Forget THEN 0 ELSE evictions

LastWait == Len(LoginBackoff) - 1

CooldownWrapping(n) == LoginBackoff[1 + (n % Len(LoginBackoff))]

\* _cooldown: the table is indexed by the evictions that came before this one.
Cooldown(n) == LoginBackoff[1 + (IF n < LastWait THEN n ELSE LastWait)]

NoteEviction ==
    /\ lastEviction' = 0
    /\ evictions' = IF RecentEvictions < EvictionCap
                    THEN RecentEvictions + 1 ELSE EvictionCap

HeldOff == /\ Cooldown(RecentEvictions) > 0
           /\ lastLogin # Never
           /\ lastLogin < Cooldown(RecentEvictions)

ExpiryWindowClosed == windowStart = Never \/ windowStart > Forget

ExpiriesNow ==
    IF ExpiryWindowClosed THEN 1
    ELSE IF expiries < ExpiryCap THEN expiries + 1 ELSE ExpiryCap

\* The bookkeeping half of _expiry_within_budget.
NoteExpiry ==
    /\ windowStart' = IF ExpiryWindowClosed THEN 0 ELSE windowStart
    /\ expiries' = ExpiriesNow

LateBudget == ExpiriesNow <= 2 * ExpiryLimit + 1

WithinBudget == ExpiriesNow <= ExpiryLimit

\* _async_relogin, which also ends async_refresh_token and a barren extend.
Relogin(p, resume) == DropSession /\ SendLogin(p, resume)

RecoverKeeping(p) ==
    /\ NoteEviction
    /\ IF HeldOff THEN Finish(p) /\ UNCHANGED <<token, store>>
                  ELSE DropSession /\ SendLogin(p, "retry")
    /\ UNCHANGED <<lastLogin, kind, live>>

\* _async_recover: either wait for the other client or claim the session again.
Recover(p) ==
    /\ NoteEviction
    /\ DropSession
    /\ IF HeldOff THEN Finish(p) ELSE SendLogin(p, "retry")
    /\ UNCHANGED <<lastLogin, kind, live>>

-----------------------------------------------------------------------------
(* The callers' steps: each runs from one await to the next. *)

\* oem / tob / async_extend_token: async_get_token, then the first attempt.
BeginCall(p, k) ==
    /\ pc[p] = "idle"
    /\ kind' = [kind EXCEPT ![p] = k]
    /\ \/ /\ token # NoToken
          /\ SendRequest(p, "first", token)
          /\ UNCHANGED token
       \/ /\ token = NoToken
          /\ store # NoToken
          /\ token' = store
          /\ SendRequest(p, "first", store)
       \/ /\ token = NoToken
          /\ store = NoToken
          /\ SendLogin(p, "first")
          /\ UNCHANGED token
    /\ UNCHANGED <<store, clockVars, evictions, expiries, live>>

\* async_refresh_token: the user's own login, which settles both counters.
UserRefresh(p) ==
    /\ pc[p] = "idle"
    /\ kind' = [kind EXCEPT ![p] = "refresh"]
    /\ evictions' = 0 /\ lastEviction' = Never
    /\ windowStart' = Never /\ expiries' = 0
    /\ Relogin(p, "return")
    /\ UNCHANGED <<lastLogin, live>>

LoginUnchecked(p) ==
    /\ pc[p] = "login"
    /\ reply[p] # "none"
    /\ IF reply[p] = "ok"
       THEN /\ Adopt(IF granted[p] = NoToken THEN "None" ELSE granted[p])
            /\ lastLogin' = 0
            /\ IF then[p] = "return" THEN Finish(p) ELSE SendRequest(p, then[p], token')
       ELSE Finish(p) /\ UNCHANGED <<token, store, lastLogin>>
    /\ UNCHANGED <<lastEviction, evictions, expiryVars, kind, live>>

\* async_login after its request: adopt the token and go on, or raise, as also when the
\* answer names no token.
LoginReplied(p) ==
    /\ pc[p] = "login"
    /\ reply[p] # "none"
    /\ IF granted[p] # NoToken
       THEN /\ Adopt(granted[p])
            /\ lastLogin' = 0
            /\ IF then[p] = "return"
               THEN Finish(p)
               ELSE SendRequest(p, then[p], granted[p])
       ELSE Finish(p) /\ UNCHANGED <<token, store, lastLogin>>
    /\ UNCHANGED <<lastEviction, evictions, expiryVars, kind, live>>

SaveAfterSuccess(p) ==
    /\ pc[p] \in {"first", "retry"}
    /\ reply[p] = "ok"
    /\ Finish(p)
    /\ Adopt(IF kind[p] = "extend" /\ granted[p] # NoToken THEN granted[p] ELSE sent[p])
    /\ UNCHANGED <<clockVars, evictions, expiries, kind, live>>

\* A successful attempt returns; an extend that brought no token logs in instead.
RequestSucceeded(p) ==
    /\ pc[p] \in {"first", "retry"}
    /\ reply[p] = "ok"
    /\ \/ /\ kind[p] # "extend"
          /\ Finish(p) /\ UNCHANGED <<token, store>>
       \/ /\ kind[p] = "extend" /\ granted[p] # NoToken
          /\ Finish(p) /\ Adopt(granted[p])
       \/ /\ kind[p] = "extend" /\ granted[p] = NoToken
          /\ Relogin(p, "return")
    /\ UNCHANGED <<clockVars, evictions, expiries, kind, live>>

\* TokenExpiredError with budget left: log in again at once.
ReloginAfterExpiry(p) ==
    /\ pc[p] = "first"
    /\ reply[p] = "expired"
    /\ NoteExpiry
    /\ WithinBudget
    /\ Relogin(p, "retry")
    /\ UNCHANGED <<lastLogin, lastEviction, evictions, kind, live>>

\* TokenExpiredError past the budget: no longer trusted, treated as a takeover.
RecoverAfterExpiry(p) ==
    /\ pc[p] = "first"
    /\ reply[p] = "expired"
    /\ NoteExpiry
    /\ ~WithinBudget
    /\ Recover(p)

\* Any other AuthError of the first attempt, except refused credentials.
RecoverAfterRefusal(p) ==
    /\ pc[p] = "first"
    /\ reply[p] = "refused"
    /\ Recover(p)
    /\ UNCHANGED expiryVars

DropOnFailure(p) ==
    /\ \/ pc[p] = "first" /\ reply[p] \in {"rejected", "error"}
       \/ pc[p] = "retry" /\ reply[p] \in Verdicts \ {"none", "ok"}
    /\ Finish(p)
    /\ DropSession
    /\ UNCHANGED <<clockVars, evictions, expiries, kind, live>>

RetryWhileRefused(p) ==
    /\ pc[p] \in {"first", "retry"}
    /\ reply[p] \in {"rejected", "error"} \/ (pc[p] = "retry" /\ reply[p] # "ok")
    /\ reply[p] # "none"
    /\ IF reply[p] = "refused" THEN SendLogin(p, "retry") ELSE Finish(p)
    /\ UNCHANGED <<managerVars, kind, live>>

\* Refused credentials, the network and the API end the first attempt at once;
\* any failure ends the retry, which sits outside the except clauses.
RequestFailed(p) ==
    /\ \/ pc[p] = "first" /\ reply[p] \in {"rejected", "error"}
       \/ pc[p] = "retry" /\ reply[p] \in Verdicts \ {"none", "ok"}
    /\ Finish(p)
    /\ UNCHANGED <<managerVars, kind, live>>

-----------------------------------------------------------------------------
(* The cloud, the account's other client, and time. *)

InUse == {token, store, live} \cup {sent[p] : p \in Callers}
                              \cup {granted[p] : p \in Callers}
Fresh == Token \ InUse
NewToken == CHOOSE t \in Fresh : TRUE

Verdict(p, v, tok) ==
    /\ reply' = [reply EXCEPT ![p] = v]
    /\ granted' = [granted EXCEPT ![p] = tok]

\* The cloud handles an attempt.  A token other than the live one is refused, and
\* which of the codes says so is not documented: the taken-over and the
\* expired reading are both possible.
CloudServes(p) ==
    /\ pc[p] \in {"first", "retry"}
    /\ reply[p] = "none"
    /\ \/ /\ sent[p] = live /\ kind[p] = "request"
          /\ Verdict(p, "ok", NoToken) /\ UNCHANGED live
       \/ /\ sent[p] = live /\ kind[p] = "extend" /\ Fresh # {}
          /\ live' = NewToken
          /\ \/ Verdict(p, "ok", NewToken)
             \/ "lost" \in Faults /\ Verdict(p, "error", NoToken)
       \/ /\ sent[p] = live /\ kind[p] = "extend" /\ "error" \in Faults
          /\ Verdict(p, "ok", NoToken) /\ UNCHANGED live
       \/ /\ sent[p] # live
          /\ \E v \in {"expired", "refused"} : Verdict(p, v, NoToken)
          /\ UNCHANGED live
       \/ /\ \E v \in Faults \cap {"error", "rejected"} : Verdict(p, v, NoToken)
          /\ UNCHANGED live
    /\ UNCHANGED <<managerVars, pc, kind, then, sent>>

\* The cloud handles a login: the new session replaces whichever was live,
\* even when the answer that names it is lost.  An answer may also come without one.
CloudLogsIn(p) ==
    /\ pc[p] = "login"
    /\ reply[p] = "none"
    /\ \/ /\ Fresh # {}
          /\ live' = NewToken
          /\ \/ Verdict(p, "ok", NewToken)
             \/ "lost" \in Faults /\ Verdict(p, "error", NoToken)
       \/ /\ "error" \in Faults
          /\ Verdict(p, "ok", NoToken) /\ UNCHANGED live
       \/ /\ \E v \in Faults \cap {"error", "rejected"} : Verdict(p, v, NoToken)
          /\ UNCHANGED live
    /\ UNCHANGED <<managerVars, pc, kind, then, sent>>

\* The mobile app signs in, or the session reaches the end of its life.
SessionEnds ==
    /\ live # NoToken
    /\ live' = NoToken
    /\ UNCHANGED <<managerVars, callVars>>

Older(a) == IF a = Never \/ a = Forget + 1 THEN a ELSE a + 1

Tick ==
    /\ lastLogin' = Older(lastLogin)
    /\ lastEviction' = Older(lastEviction)
    /\ windowStart' = Older(windowStart)
    /\ UNCHANGED <<token, store, evictions, expiries, callVars, live>>

\* Home Assistant restarts: a new AuthManager over the stored session.
Restart ==
    /\ token' = NoToken
    /\ lastLogin' = Never /\ lastEviction' = Never /\ windowStart' = Never
    /\ evictions' = 0 /\ expiries' = 0
    /\ pc' = [p \in Callers |-> "idle"]
    /\ kind' = [p \in Callers |-> "request"]
    /\ then' = [p \in Callers |-> "return"]
    /\ sent' = [p \in Callers |-> NoToken]
    /\ reply' = [p \in Callers |-> "none"]
    /\ granted' = [p \in Callers |-> NoToken]
    /\ UNCHANGED <<store, live>>

Resume(p) ==
    \/ LoginReplied(p)
    \/ RequestSucceeded(p)
    \/ ReloginAfterExpiry(p)
    \/ RecoverAfterExpiry(p)
    \/ RecoverAfterRefusal(p)
    \/ RequestFailed(p)

CallerStep(p) ==
    \/ \E k \in {"request", "extend"} : BeginCall(p, k)
    \/ UserRefresh(p)
    \/ Resume(p)

CloudStep(p) == CloudServes(p) \/ CloudLogsIn(p)

Next ==
    \/ \E p \in Callers : CallerStep(p) \/ CloudStep(p)
    \/ SessionEnds
    \/ Tick
    \/ Restart

Spec == Init /\ [][Next]_vars

\* A request is answered or times out (the HTTP client has a timeout), and the
\* event loop resumes every task whose await is over.
CallFairness == \A p \in Callers : WF_vars(Resume(p)) /\ WF_vars(CloudStep(p))

-----------------------------------------------------------------------------
(* Properties. *)

\* A caller is told that the session is in use by another client (SessionTakeoverError).
TakeoverRaised(p) == (RecoverAfterExpiry(p) \/ RecoverAfterRefusal(p)) /\ HeldOff

\* Memory and storage agree: a token in use is the one a restart would find, so
\* no interleaving of logins, extends and recoveries leaves an older one behind.
TokenIsStored == token # NoToken => store = token

\* A session the cloud still accepts is not thrown away by the integration: only
\* the user's refresh, an extend that brought no token, or a restart leave it.
\* Holds for one task at a time; what concurrent calls do is in OnlyStaleRefusalsDrop.
AcceptedSessionKept ==
    [][token # NoToken /\ token = live /\ token' = NoToken =>
         \/ \E p \in Callers : RequestSucceeded(p) \/ UserRefresh(p)
         \/ Restart]_vars

\* With concurrent calls it is thrown away only on a refusal of a token that another call
\* has since replaced, never on a verdict about the session itself, a failing network or
\* refused credentials.
OnlyStaleRefusalsDrop ==
    [][token # NoToken /\ token = live /\ token' = NoToken =>
         \/ \E p \in Callers : RequestSucceeded(p) \/ UserRefresh(p)
         \/ Restart
         \/ \E p \in Callers : /\ pc[p] = "first" /\ reply[p] \in {"expired", "refused"}
                               /\ sent[p] # token]_vars

\* The promise to the callers: the ladder of CallContract, climbed to an end.
RungOf(stage, resume) ==
    CASE stage = "idle"                           -> 0
      [] stage = "login" /\ resume = "first"      -> 1
      [] stage = "first"                          -> 2
      [] stage = "login" /\ resume = "retry"      -> 3
      [] stage = "retry"                          -> 4
      [] stage = "login" /\ resume = "return"     -> 5

CallRung == [p \in Callers |-> RungOf(pc[p], then[p])]

Contract == INSTANCE CallContract WITH rung <- CallRung
HonoursContract == Contract!Spec

\* Once nothing ends the session, Home Assistant stays up and requests get through,
\* the integration keeps coming back to a token the cloud accepts ("It recovers on
\* its own", docs/accounts.md), whatever was in flight and lost before and whatever
\* the cool-down says.
Fails(p) ==
    /\ reply[p] = "none"
    /\ \/ reply'[p] \in {"error", "rejected"}
       \/ pc[p] = "login" /\ reply'[p] = "ok" /\ granted'[p] = NoToken
Undisturbed ==
    <>[][/\ ~SessionEnds /\ ~Restart
         /\ \A p \in Callers : ~UserRefresh(p) /\ ~Fails(p)]_vars
SessionRegained == Undisturbed => []<>(token # NoToken /\ token = live)
=============================================================================
