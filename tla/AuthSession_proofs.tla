------------------------- MODULE AuthSession_proofs -------------------------
(***************************************************************************)
(* Proofs about AuthSession, for every set of callers, every back-off      *)
(* table and every limit: the types, that memory and storage agree, what   *)
(* makes the manager drop an accepted session, that every call climbs the  *)
(* ladder of CallContract, and that the saturating ages and counts decide  *)
(* as the code's clock and counters do.                                    *)
(***************************************************************************)
EXTENDS AuthClock, TLAPS

\* The two caps are naturals, and the last entry of the back-off table is one below its cap.
LEMMA CapsAreNat ==
    /\ EvictionCap \in Nat /\ ExpiryCap \in Nat \ {0}
    /\ LastWait \in Nat /\ EvictionCap = LastWait + 1 /\ Len(LoginBackoff) = LastWait + 1
<1>1. Len(LoginBackoff) \in Nat BY BackoffAssumption
<1>. QED BY <1>1, BackoffAssumption, LimitAssumption DEF EvictionCap, ExpiryCap, LastWait

\* What the helpers of the manager return is in range.
LEMMA HelperTypes ==
    ASSUME TypeOK
    PROVE  /\ RecentEvictions \in 0..EvictionCap
           /\ ExpiriesNow \in 0..ExpiryCap
           /\ Older(lastLogin) \in MaybeAge
           /\ Older(lastEviction) \in MaybeAge
           /\ Older(windowStart) \in MaybeAge
<1>1. EvictionCap \in Nat /\ ExpiryCap \in Nat \ {0} BY CapsAreNat
<1>2. RecentEvictions \in 0..EvictionCap BY <1>1 DEF TypeOK, RecentEvictions
<1>3. ExpiriesNow \in 0..ExpiryCap BY <1>1 DEF TypeOK, ExpiriesNow
<1>4. ASSUME NEW a \in MaybeAge PROVE Older(a) \in MaybeAge
      BY <1>4, TimeAssumption DEF MaybeAge, Age, Older
<1>. QED BY <1>2, <1>3, <1>4 DEF TypeOK

\* The cloud's choice of a new token is a token nobody holds.
LEMMA NewTokenIsFresh == Fresh # {} => NewToken \in Fresh
BY DEF NewToken

\* The three ways a caller moves on keep the records of the calls well typed.
LEMMA MoveTypes ==
    ASSUME TypeOK, NEW p \in Callers,
           \/ \E s \in {"first", "retry"}, tok \in Token : SendRequest(p, s, tok)
           \/ \E r \in {"first", "retry", "return"} : SendLogin(p, r)
           \/ Finish(p)
    PROVE  /\ pc' \in [Callers -> Stages]
           /\ then' \in [Callers -> {"first", "retry", "return"}]
           /\ sent' \in [Callers -> MaybeToken]
           /\ reply' \in [Callers -> Verdicts]
           /\ granted' \in [Callers -> MaybeToken]
<1>1. CASE \E s \in {"first", "retry"}, tok \in Token : SendRequest(p, s, tok)
      BY <1>1 DEF TypeOK, SendRequest, MaybeToken, Stages, Verdicts
<1>2. CASE \E r \in {"first", "retry", "return"} : SendLogin(p, r)
      BY <1>2 DEF TypeOK, SendLogin, MaybeToken, Stages, Verdicts
<1>3. CASE Finish(p)
      BY <1>3 DEF TypeOK, Finish, MaybeToken, Stages, Verdicts
<1>. QED BY <1>1, <1>2, <1>3

-----------------------------------------------------------------------------
(* Ages and counts that saturate decide as instants and counts without      *)
(* bound do.                                                                *)

LEMMA CooldownBound ==
    ASSUME NEW n \in Nat
    PROVE  /\ Cooldown(n) \in 0..Forget
           /\ Cooldown(Capped(n, EvictionCap)) = Cooldown(n)
<1>1. LastWait \in Nat /\ EvictionCap = LastWait + 1 /\ Len(LoginBackoff) = LastWait + 1
      BY CapsAreNat
<1>2. \A i \in 1..Len(LoginBackoff) : LoginBackoff[i] \in 0..Forget
      BY BackoffAssumption, TimeAssumption
<1>3. Cooldown(n) \in 0..Forget BY <1>1, <1>2 DEF Cooldown
<1>4. Cooldown(Capped(n, EvictionCap)) = Cooldown(n) BY <1>1 DEF Cooldown, Capped
<1>. QED BY <1>3, <1>4

\* An age tells what the code asks of an instant: whether it was, whether it is past the
\* time to forget, and whether it is younger than a wait.
LEMMA AgeTells ==
    ASSUME NEW c \in Counters, NEW at \in Instants, at = Never \/ at <= c.now
    PROVE  /\ AgeOf(c, at) = Never <=> at = Never
           /\ (AgeOf(c, at) # Never /\ AgeOf(c, at) > Forget) <=> LongAgo(c, at)
           /\ \A w \in 0..Forget : at # Never => (AgeOf(c, at) < w <=> c.now - at < w)
           /\ AgeOf(Later(c), at) = Older(AgeOf(c, at))
<1>1. c.now \in Int /\ Later(c).now = c.now + 1 BY DEF Counters, Later
<1>. QED BY <1>1, TimeAssumption DEF AgeOf, LongAgo, Instants, Older

\* _note_eviction, _cooldown and _async_recover's test: whatever the clock shows and
\* however often the session was taken over, AuthSession waits exactly when the code does,
\* and counts on as the code does.
THEOREM WaitsAsTheCode ==
    ASSUME NEW c \in Counters, Past(c), Mirrors(c)
    PROVE  /\ HeldOff <=> MustWait(c)
           /\ NoteEviction <=>
                 /\ lastEviction' = AgeOf(EvictionNoted(c), EvictionNoted(c).eviction)
                 /\ evictions' = Capped(EvictionNoted(c).evictions, EvictionCap)
<1>1. /\ c.now \in Int /\ c.evictions \in Nat
      /\ c.login \in Instants /\ c.eviction \in Instants
      /\ c.login = Never \/ c.login <= c.now
      /\ c.eviction = Never \/ c.eviction <= c.now
      BY DEF Counters, Past
<1>2. EvictionCap \in Nat BY CapsAreNat
<1>3. EvictionsNoted(c) \in Nat BY <1>1 DEF EvictionsNoted
<1>4. RecentEvictions = Capped(EvictionsNoted(c), EvictionCap)
  <2>1. (lastEviction # Never /\ lastEviction > Forget) <=> LongAgo(c, c.eviction)
        BY <1>1, AgeTells DEF Mirrors
  <2>. QED BY <1>1, <1>2, <2>1 DEF RecentEvictions, EvictionsNoted, Mirrors, Capped
<1>5. HeldOff <=> MustWait(c)
  <2>. DEFINE w == Cooldown(EvictionsNoted(c))
  <2>1. Cooldown(RecentEvictions) = w /\ w \in 0..Forget BY <1>3, <1>4, CooldownBound
  <2>2. lastLogin = Never <=> c.login = Never BY <1>1, AgeTells DEF Mirrors
  <2>3. c.login # Never => (lastLogin < w <=> c.now - c.login < w)
        BY <1>1, <2>1, AgeTells DEF Mirrors
  <2>. QED BY <2>1, <2>2, <2>3 DEF HeldOff, MustWait
<1>6. EvictionNoted(c).eviction = c.now /\ EvictionNoted(c).now = c.now
      /\ EvictionNoted(c).evictions = EvictionsNoted(c) + 1
      BY DEF EvictionNoted, Counters
<1>7. AgeOf(EvictionNoted(c), c.now) = 0
      BY <1>1, <1>6, TimeAssumption DEF AgeOf, LongAgo
<1>8. Capped(EvictionsNoted(c) + 1, EvictionCap)
        = IF RecentEvictions < EvictionCap THEN RecentEvictions + 1 ELSE EvictionCap
      BY <1>2, <1>3, <1>4 DEF Capped
<1>. QED BY <1>5, <1>6, <1>7, <1>8 DEF NoteEviction

\* _expiry_within_budget: AuthSession takes the fast path exactly when the code does, and
\* leaves the window and its count as the code does.
THEOREM BudgetsAsTheCode ==
    ASSUME NEW c \in Counters, Past(c), Mirrors(c)
    PROVE  /\ WithinBudget <=> InBudget(c)
           /\ NoteExpiry <=>
                 /\ windowStart' = AgeOf(ExpiryNoted(c), ExpiryNoted(c).window)
                 /\ expiries' = Capped(ExpiryNoted(c).expiries, ExpiryCap)
<1>1. /\ c.now \in Int /\ c.expiries \in Nat /\ c.window \in Instants
      /\ c.window = Never \/ c.window <= c.now
      BY DEF Counters, Past
<1>2. ExpiryCap = ExpiryLimit + 1 /\ ExpiryLimit \in Nat
      BY LimitAssumption DEF ExpiryCap
<1>3. ExpiryWindowClosed <=> (c.window = Never \/ LongAgo(c, c.window))
      BY <1>1, AgeTells DEF ExpiryWindowClosed, Mirrors
<1>4. /\ ExpiryNoted(c).now = c.now
      /\ ExpiryNoted(c).window = IF ExpiryWindowClosed THEN c.now ELSE c.window
      /\ ExpiryNoted(c).expiries = IF ExpiryWindowClosed THEN 1 ELSE c.expiries + 1
      BY <1>3 DEF ExpiryNoted, Counters
<1>5. ExpiriesNow = Capped(ExpiryNoted(c).expiries, ExpiryCap)
      BY <1>1, <1>2, <1>4 DEF ExpiriesNow, Mirrors, Capped
<1>6. WithinBudget <=> InBudget(c)
      BY <1>1, <1>2, <1>4, <1>5 DEF WithinBudget, InBudget, Capped
<1>7. AgeOf(ExpiryNoted(c), c.now) = 0
      BY <1>1, <1>4, TimeAssumption DEF AgeOf, LongAgo
<1>8. AgeOf(ExpiryNoted(c), c.window) = windowStart
      BY <1>1, <1>4 DEF AgeOf, LongAgo, Mirrors
<1>. QED BY <1>4, <1>5, <1>6, <1>7, <1>8 DEF NoteExpiry

-----------------------------------------------------------------------------
(* The inductive invariant: the types and the agreement of memory and       *)
(* storage are inductive together.                                          *)

IInv == TypeOK /\ TokenIsStored

LEMMA InitIInv == Init => IInv
<1>1. 0 \in 0..EvictionCap /\ 0 \in 0..ExpiryCap BY CapsAreNat
<1>. QED BY <1>1 DEF Init, IInv, TypeOK, TokenIsStored, MaybeToken, MaybeAge,
                     Stages, Kinds, Verdicts

\* The end of an eviction: wait or log in, with the session dropped either way.
LEMMA RecoverIInv ==
    ASSUME IInv, NEW p \in Callers, Recover(p),
           windowStart' \in MaybeAge, expiries' \in 0..ExpiryCap
    PROVE  IInv'
<1>. USE DEF IInv
<1>1. lastEviction' \in MaybeAge /\ evictions' \in 0..EvictionCap
      BY CapsAreNat, HelperTypes, TimeAssumption
      DEF Recover, NoteEviction, MaybeAge, Age
<1>2. Finish(p) \/ SendLogin(p, "retry") BY DEF Recover
<1>3. /\ pc' \in [Callers -> Stages]
      /\ then' \in [Callers -> {"first", "retry", "return"}]
      /\ sent' \in [Callers -> MaybeToken]
      /\ reply' \in [Callers -> Verdicts]
      /\ granted' \in [Callers -> MaybeToken]
      BY <1>2, MoveTypes
<1>. QED BY <1>1, <1>3 DEF Recover, DropSession, TypeOK, TokenIsStored, MaybeToken

LEMMA CallerIInv ==
    ASSUME IInv, NEW p \in Callers, CallerStep(p)
    PROVE  IInv'
<1>. USE DEF IInv
<1>1. ASSUME NEW k \in {"request", "extend"}, BeginCall(p, k) PROVE IInv'
  <2>1. (\E tok \in Token : SendRequest(p, "first", tok)) \/ SendLogin(p, "first")
        BY <1>1 DEF BeginCall, TypeOK, MaybeToken
  <2>2. /\ pc' \in [Callers -> Stages]
        /\ then' \in [Callers -> {"first", "retry", "return"}]
        /\ sent' \in [Callers -> MaybeToken]
        /\ reply' \in [Callers -> Verdicts]
        /\ granted' \in [Callers -> MaybeToken]
        BY <2>1, MoveTypes
  <2>. QED BY <1>1, <2>2 DEF BeginCall, TypeOK, TokenIsStored, clockVars, Kinds
<1>2. ASSUME UserRefresh(p) PROVE IInv'
  <2>1. /\ pc' \in [Callers -> Stages]
        /\ then' \in [Callers -> {"first", "retry", "return"}]
        /\ sent' \in [Callers -> MaybeToken]
        /\ reply' \in [Callers -> Verdicts]
        /\ granted' \in [Callers -> MaybeToken]
        BY <1>2, MoveTypes DEF UserRefresh, Relogin
  <2>2. 0 \in 0..EvictionCap /\ 0 \in 0..ExpiryCap BY CapsAreNat
  <2>. QED BY <1>2, <2>1, <2>2
       DEF UserRefresh, Relogin, DropSession, TypeOK, TokenIsStored, MaybeToken,
           MaybeAge, Kinds
<1>3. ASSUME LoginReplied(p) PROVE IInv'
  <2>1. Finish(p) \/ (\E s \in {"first", "retry"}, tok \in Token : SendRequest(p, s, tok))
        BY <1>3 DEF LoginReplied, TypeOK, MaybeToken
  <2>2. /\ pc' \in [Callers -> Stages]
        /\ then' \in [Callers -> {"first", "retry", "return"}]
        /\ sent' \in [Callers -> MaybeToken]
        /\ reply' \in [Callers -> Verdicts]
        /\ granted' \in [Callers -> MaybeToken]
        BY <2>1, MoveTypes
  <2>3. lastLogin' \in MaybeAge
        BY <1>3, TimeAssumption DEF LoginReplied, TypeOK, MaybeAge, Age
  <2>. QED BY <1>3, <2>2, <2>3
       DEF LoginReplied, Adopt, TypeOK, TokenIsStored, expiryVars
<1>4. ASSUME RequestSucceeded(p) PROVE IInv'
  <2>1. Finish(p) \/ SendLogin(p, "return")
        BY <1>4 DEF RequestSucceeded, Relogin
  <2>2. /\ pc' \in [Callers -> Stages]
        /\ then' \in [Callers -> {"first", "retry", "return"}]
        /\ sent' \in [Callers -> MaybeToken]
        /\ reply' \in [Callers -> Verdicts]
        /\ granted' \in [Callers -> MaybeToken]
        BY <2>1, MoveTypes
  <2>3. token' \in MaybeToken /\ store' \in MaybeToken /\ TokenIsStored'
        BY <1>4 DEF RequestSucceeded, Relogin, DropSession, Adopt, TypeOK,
                    TokenIsStored, MaybeToken
  <2>. QED BY <1>4, <2>2, <2>3 DEF RequestSucceeded, TypeOK, clockVars
<1>5. ASSUME ReloginAfterExpiry(p) PROVE IInv'
  <2>1. /\ pc' \in [Callers -> Stages]
        /\ then' \in [Callers -> {"first", "retry", "return"}]
        /\ sent' \in [Callers -> MaybeToken]
        /\ reply' \in [Callers -> Verdicts]
        /\ granted' \in [Callers -> MaybeToken]
        BY <1>5, MoveTypes DEF ReloginAfterExpiry, Relogin
  <2>2. windowStart' \in MaybeAge /\ expiries' \in 0..ExpiryCap
        BY <1>5, HelperTypes, TimeAssumption
        DEF ReloginAfterExpiry, NoteExpiry, TypeOK, MaybeAge, Age
  <2>. QED BY <1>5, <2>1, <2>2
       DEF ReloginAfterExpiry, Relogin, DropSession, TypeOK, TokenIsStored, MaybeToken
<1>6. ASSUME RecoverAfterExpiry(p) PROVE IInv'
  <2>1. windowStart' \in MaybeAge /\ expiries' \in 0..ExpiryCap
        BY <1>6, HelperTypes, TimeAssumption
        DEF RecoverAfterExpiry, NoteExpiry, TypeOK, MaybeAge, Age
  <2>. QED BY <1>6, <2>1, RecoverIInv DEF RecoverAfterExpiry
<1>7. ASSUME RecoverAfterRefusal(p) PROVE IInv'
  <2>1. windowStart' \in MaybeAge /\ expiries' \in 0..ExpiryCap
        BY <1>7 DEF RecoverAfterRefusal, expiryVars, TypeOK
  <2>. QED BY <1>7, <2>1, RecoverIInv DEF RecoverAfterRefusal
<1>8. ASSUME RequestFailed(p) PROVE IInv'
  <2>1. /\ pc' \in [Callers -> Stages]
        /\ then' \in [Callers -> {"first", "retry", "return"}]
        /\ sent' \in [Callers -> MaybeToken]
        /\ reply' \in [Callers -> Verdicts]
        /\ granted' \in [Callers -> MaybeToken]
        BY <1>8, MoveTypes DEF RequestFailed
  <2>. QED BY <1>8, <2>1 DEF RequestFailed, TypeOK, TokenIsStored, managerVars
<1>. QED BY <1>1, <1>2, <1>3, <1>4, <1>5, <1>6, <1>7, <1>8 DEF CallerStep, Resume

LEMMA CloudIInv ==
    ASSUME IInv, NEW p \in Callers, CloudStep(p)
    PROVE  IInv'
<1>. USE DEF IInv
<1>1. Fresh # {} => NewToken \in Token BY NewTokenIsFresh DEF Fresh
<1>2. live' \in MaybeToken
      BY <1>1 DEF CloudStep, CloudServes, CloudLogsIn, TypeOK, MaybeToken
<1>3. \E v \in Verdicts, tok \in MaybeToken : Verdict(p, v, tok)
      BY <1>1 DEF CloudStep, CloudServes, CloudLogsIn, Verdicts, MaybeToken
<1>4. /\ reply' \in [Callers -> Verdicts]
      /\ granted' \in [Callers -> MaybeToken]
      BY <1>3 DEF Verdict, TypeOK
<1>5. UNCHANGED <<managerVars, pc, kind, then, sent>>
      BY DEF CloudStep, CloudServes, CloudLogsIn
<1>. QED BY <1>2, <1>4, <1>5 DEF TypeOK, TokenIsStored, managerVars

LEMMA StepIInv == IInv /\ [Next]_vars => IInv'
<1>. SUFFICES ASSUME IInv, [Next]_vars PROVE IInv'
     OBVIOUS
<1>1. ASSUME NEW p \in Callers, CallerStep(p) PROVE IInv'
      BY <1>1, CallerIInv
<1>2. ASSUME NEW p \in Callers, CloudStep(p) PROVE IInv'
      BY <1>2, CloudIInv
<1>3. CASE SessionEnds
      BY <1>3 DEF SessionEnds, IInv, TypeOK, TokenIsStored, managerVars, callVars,
                  MaybeToken
<1>4. CASE Tick
  <2>1. /\ lastLogin' \in MaybeAge /\ lastEviction' \in MaybeAge
        /\ windowStart' \in MaybeAge
        BY <1>4, HelperTypes DEF Tick, IInv
  <2>. QED BY <1>4, <2>1 DEF Tick, IInv, TypeOK, TokenIsStored, callVars
<1>5. CASE Restart
  <2>1. 0 \in 0..EvictionCap /\ 0 \in 0..ExpiryCap BY CapsAreNat
  <2>. QED BY <1>5, <2>1
      DEF Restart, IInv, TypeOK, TokenIsStored, MaybeToken, MaybeAge, Stages,
          Kinds, Verdicts
<1>6. CASE UNCHANGED vars
      BY <1>6 DEF vars, managerVars, callVars, IInv, TypeOK, TokenIsStored
<1>. QED BY <1>1, <1>2, <1>3, <1>4, <1>5, <1>6 DEF Next

\* Every variable of AuthSession keeps its type, whatever calls, verdicts,
\* takeovers and restarts interleave.
THEOREM TypeCorrect == Spec => []TypeOK
<1>1. IInv => TypeOK BY DEF IInv
<1>. QED BY <1>1, InitIInv, StepIInv, PTL DEF Spec

\* Memory and storage agree in every reachable state (async_login,
\* async_extend_token, _async_relogin and _async_recover, in any interleaving).
THEOREM StoredToken == Spec => []TokenIsStored
<1>1. IInv => TokenIsStored BY DEF IInv
<1>. QED BY <1>1, InitIInv, StepIInv, PTL DEF Spec

-----------------------------------------------------------------------------
(* Which sessions are thrown away: a refusal stays true until it is         *)
(* delivered, since the cloud never accepts a token again once it has       *)
(* another.                                                                 *)

RefusalsTrue ==
    \A p \in Callers :
        /\ pc[p] \in {"first", "retry"} => sent[p] # NoToken
        /\ reply[p] \in {"expired", "refused"} =>
               pc[p] \in {"first", "retry"} /\ sent[p] # live

\* A caller's step leaves the other callers and the cloud alone, and the caller without
\* a verdict; what it sends then, if it does, is the token in memory.
LEMMA CallerMoves ==
    ASSUME TypeOK, NEW p \in Callers, CallerStep(p)
    PROVE  /\ live' = live
           /\ \A q \in Callers \ {p} :
                 pc'[q] = pc[q] /\ sent'[q] = sent[q] /\ reply'[q] = reply[q]
           /\ reply'[p] = "none"
           /\ pc'[p] \in {"first", "retry"} => sent'[p] # NoToken /\ sent'[p] = token'
<1>1. ASSUME NEW s \in Stages, NEW tok, SendRequest(p, s, tok)
      PROVE  /\ \A q \in Callers \ {p} :
                   pc'[q] = pc[q] /\ sent'[q] = sent[q] /\ reply'[q] = reply[q]
             /\ reply'[p] = "none" /\ sent'[p] = tok
      BY <1>1 DEF SendRequest, TypeOK
<1>2. ASSUME NEW r, SendLogin(p, r)
      PROVE  /\ \A q \in Callers \ {p} :
                   pc'[q] = pc[q] /\ sent'[q] = sent[q] /\ reply'[q] = reply[q]
             /\ reply'[p] = "none" /\ pc'[p] = "login"
      BY <1>2 DEF SendLogin, TypeOK
<1>3. ASSUME Finish(p)
      PROVE  /\ \A q \in Callers \ {p} :
                   pc'[q] = pc[q] /\ sent'[q] = sent[q] /\ reply'[q] = reply[q]
             /\ reply'[p] = "none" /\ pc'[p] = "idle"
      BY <1>3 DEF Finish, TypeOK
<1>4. live' = live
      BY DEF CallerStep, Resume, BeginCall, UserRefresh, LoginReplied, RequestSucceeded,
             ReloginAfterExpiry, RecoverAfterExpiry, RecoverAfterRefusal, RequestFailed, Recover
<1>5. \/ \E r : SendLogin(p, r)
      \/ Finish(p)
      \/ \E s \in Stages, tok \in Token : SendRequest(p, s, tok) /\ token' = tok
  <2>1. ASSUME NEW k \in {"request", "extend"}, BeginCall(p, k)
        PROVE  \/ \E r : SendLogin(p, r)
               \/ \E s \in Stages, tok \in Token : SendRequest(p, s, tok) /\ token' = tok
    <3>1. CASE SendRequest(p, "first", token) /\ token # NoToken /\ token' = token
          BY <3>1 DEF TypeOK, MaybeToken, Stages
    <3>2. CASE SendRequest(p, "first", store) /\ store # NoToken /\ token' = store
          BY <3>2 DEF TypeOK, MaybeToken, Stages
    <3>. QED BY <2>1, <3>1, <3>2 DEF BeginCall
  <2>2. ASSUME LoginReplied(p)
        PROVE  \/ Finish(p)
               \/ \E s \in Stages, tok \in Token : SendRequest(p, s, tok) /\ token' = tok
    <3>1. CASE granted[p] # NoToken /\ token' = granted[p] /\ SendRequest(p, then[p], granted[p])
               /\ then[p] # "return"
      <4>1. granted[p] \in Token /\ then[p] \in Stages
            BY <3>1 DEF TypeOK, MaybeToken, Stages
      <4>. QED BY <3>1, <4>1
    <3>. QED BY <2>2, <3>1 DEF LoginReplied, Adopt
  <2>3. ASSUME \/ UserRefresh(p) \/ RequestSucceeded(p) \/ ReloginAfterExpiry(p)
               \/ RecoverAfterExpiry(p) \/ RecoverAfterRefusal(p) \/ RequestFailed(p)
        PROVE  (\E r : SendLogin(p, r)) \/ Finish(p)
        BY <2>3 DEF UserRefresh, RequestSucceeded, ReloginAfterExpiry, RecoverAfterExpiry,
                    RecoverAfterRefusal, RequestFailed, Recover, Relogin
  <2>. QED BY <2>1, <2>2, <2>3 DEF CallerStep, Resume
<1>6. CASE \E r : SendLogin(p, r)
      BY <1>2, <1>4, <1>6
<1>7. CASE Finish(p)
      BY <1>3, <1>4, <1>7
<1>8. CASE \E s \in Stages, tok \in Token : SendRequest(p, s, tok) /\ token' = tok
      BY <1>1, <1>4, <1>8, TokenAssumption
<1>. QED BY <1>5, <1>6, <1>7, <1>8

\* The cloud refuses only a token that is not the live one, and makes live only one
\* that no call carries.
LEMMA CloudVerdicts ==
    ASSUME TypeOK, NEW p \in Callers, CloudStep(p)
    PROVE  /\ pc' = pc /\ sent' = sent /\ token' = token
           /\ live' = live \/ \A q \in Callers : live' # sent[q]
           /\ \A q \in Callers \ {p} : reply'[q] = reply[q]
           /\ reply'[p] \in {"expired", "refused"} =>
                  pc[p] \in {"first", "retry"} /\ live' = live /\ sent[p] # live
<1>1. pc' = pc /\ sent' = sent /\ token' = token
      BY DEF CloudStep, CloudServes, CloudLogsIn, managerVars
<1>2. Fresh # {} => \A q \in Callers : NewToken # sent[q]
      BY NewTokenIsFresh DEF Fresh, InUse
<1>3. live' = live \/ \A q \in Callers : live' # sent[q]
      BY <1>2 DEF CloudStep, CloudServes, CloudLogsIn
<1>4. ASSUME NEW v, NEW tok, Verdict(p, v, tok)
      PROVE  reply'[p] = v /\ \A q \in Callers \ {p} : reply'[q] = reply[q]
      BY <1>4 DEF Verdict, TypeOK
<1>5. \E v, tok : Verdict(p, v, tok)
      BY DEF CloudStep, CloudServes, CloudLogsIn
<1>6. ASSUME reply'[p] \in {"expired", "refused"}
      PROVE  pc[p] \in {"first", "retry"} /\ live' = live /\ sent[p] # live
  <2>1. Faults \cap {"error", "rejected"} \subseteq {"error", "rejected"}
        OBVIOUS
  <2>. QED BY <1>4, <1>6, <2>1 DEF CloudStep, CloudServes, CloudLogsIn
<1>. QED BY <1>1, <1>3, <1>4, <1>5, <1>6

LEMMA StepRefusals == TypeOK /\ RefusalsTrue /\ [Next]_vars => RefusalsTrue'
<1>. SUFFICES ASSUME TypeOK, RefusalsTrue, [Next]_vars PROVE RefusalsTrue'
     OBVIOUS
<1>1. ASSUME NEW p \in Callers, CallerStep(p) PROVE RefusalsTrue'
      BY <1>1, CallerMoves DEF RefusalsTrue
<1>2. ASSUME NEW p \in Callers, CloudStep(p) PROVE RefusalsTrue'
  <2>1. /\ pc' = pc /\ sent' = sent
        /\ live' = live \/ \A q \in Callers : live' # sent[q]
        /\ \A q \in Callers \ {p} : reply'[q] = reply[q]
        /\ reply'[p] \in {"expired", "refused"} =>
               pc[p] \in {"first", "retry"} /\ live' = live /\ sent[p] # live
        BY <1>2, CloudVerdicts
  <2>. QED BY <2>1 DEF RefusalsTrue
<1>3. CASE SessionEnds
      BY <1>3 DEF SessionEnds, callVars, RefusalsTrue
<1>4. CASE Tick \/ UNCHANGED vars
      BY <1>4 DEF Tick, vars, callVars, RefusalsTrue
<1>5. CASE Restart
      BY <1>5 DEF Restart, RefusalsTrue
<1>. QED BY <1>1, <1>2, <1>3, <1>4, <1>5 DEF Next

\* What drops a session: the user, a barren extend, a restart, or a refusal.
LEMMA Drops ==
    ASSUME TypeOK, [Next]_vars, token # NoToken, token' = NoToken
    PROVE  \/ \E p \in Callers : RequestSucceeded(p) \/ UserRefresh(p)
           \/ Restart
           \/ \E p \in Callers : pc[p] = "first" /\ reply[p] \in {"expired", "refused"}
<1>1. ASSUME NEW p \in Callers, NEW k, BeginCall(p, k) PROVE FALSE
      BY <1>1 DEF BeginCall
<1>2. ASSUME NEW p \in Callers, LoginReplied(p) \/ RequestFailed(p) PROVE FALSE
      BY <1>2 DEF LoginReplied, Adopt, RequestFailed, managerVars
<1>3. ASSUME NEW p \in Callers,
             ReloginAfterExpiry(p) \/ RecoverAfterExpiry(p) \/ RecoverAfterRefusal(p)
      PROVE  pc[p] = "first" /\ reply[p] \in {"expired", "refused"}
      BY <1>3 DEF ReloginAfterExpiry, RecoverAfterExpiry, RecoverAfterRefusal
<1>4. ASSUME (\E p \in Callers : CloudStep(p)) \/ SessionEnds \/ Tick \/ UNCHANGED vars
      PROVE  FALSE
      BY <1>4 DEF CloudStep, CloudServes, CloudLogsIn, SessionEnds, Tick, vars, managerVars
<1>. QED BY <1>1, <1>2, <1>3, <1>4 DEF Next, CallerStep, Resume

\* An accepted session is thrown away only on the refusal of an older token, whatever
\* calls interleave and whatever the network loses (_async_authenticated).
THEOREM OnlyRacesDrop == Spec => OnlyStaleRefusalsDrop
<1>1. Init => RefusalsTrue
      BY DEF Init, RefusalsTrue
<1>2. TypeOK /\ RefusalsTrue /\ [Next]_vars =>
        [token # NoToken /\ token = live /\ token' = NoToken =>
           \/ \E p \in Callers : RequestSucceeded(p) \/ UserRefresh(p)
           \/ Restart
           \/ \E p \in Callers : /\ pc[p] = "first" /\ reply[p] \in {"expired", "refused"}
                                 /\ sent[p] # token]_vars
      BY Drops DEF RefusalsTrue
<1>. QED BY <1>1, <1>2, TypeCorrect, StepRefusals, PTL DEF Spec, OnlyStaleRefusalsDrop

\* With a single caller the token in memory is the one its attempt carries, so a refusal
\* is never about an older one.
SentIsHeld(c) == pc[c] \in {"first", "retry"} => sent[c] = token

\* One task at a time never throws away a session the cloud still accepts, unless the
\* user asks for it or an extend brought no token (_async_recover, _async_relogin).
THEOREM AloneKeepsSession ==
    ASSUME NEW CONSTANT c, Callers = {c}
    PROVE  Spec => AcceptedSessionKept
<1>1. Init => RefusalsTrue /\ SentIsHeld(c)
      BY DEF Init, RefusalsTrue, SentIsHeld
<1>2. TypeOK /\ SentIsHeld(c) /\ [Next]_vars => SentIsHeld(c)'
  <2>. SUFFICES ASSUME TypeOK, SentIsHeld(c), [Next]_vars PROVE SentIsHeld(c)'
       OBVIOUS
  <2>1. CASE CallerStep(c)
        BY <2>1, CallerMoves DEF SentIsHeld
  <2>2. CASE CloudStep(c)
        BY <2>2, CloudVerdicts DEF SentIsHeld
  <2>3. CASE SessionEnds \/ Tick \/ UNCHANGED vars
        BY <2>3 DEF SessionEnds, Tick, vars, managerVars, callVars, SentIsHeld
  <2>4. CASE Restart
        BY <2>4 DEF Restart, SentIsHeld
  <2>. QED BY <2>1, <2>2, <2>3, <2>4 DEF Next
<1>3. TypeOK /\ RefusalsTrue /\ SentIsHeld(c) /\ [Next]_vars =>
        [token # NoToken /\ token = live /\ token' = NoToken =>
           \/ \E p \in Callers : RequestSucceeded(p) \/ UserRefresh(p)
           \/ Restart]_vars
      BY Drops DEF RefusalsTrue, SentIsHeld
<1>. QED BY <1>1, <1>2, <1>3, TypeCorrect, StepRefusals, PTL DEF Spec, AcceptedSessionKept

-----------------------------------------------------------------------------
(* The ladder of CallContract: every step of AuthSession moves at most one  *)
(* caller, and moves it up or lets it end.                                  *)

\* A caller that moves to an await moves to the rung of that await.
LEMMA RungMoves ==
    ASSUME TypeOK, NEW p \in Callers, NEW s, NEW r,
           pc' = [pc EXCEPT ![p] = s], then' = [then EXCEPT ![p] = r]
    PROVE  CallRung' = [CallRung EXCEPT ![p] = RungOf(s, r)]
BY DEF TypeOK, CallRung

LEMMA RequestRung ==
    ASSUME TypeOK, NEW p \in Callers, NEW s \in {"first", "retry"}, NEW tok,
           SendRequest(p, s, tok)
    PROVE  CallRung' = [CallRung EXCEPT ![p] = IF s = "first" THEN 2 ELSE 4]
<1>1. then' = [then EXCEPT ![p] = then[p]] BY DEF SendRequest, TypeOK
<1>2. CallRung' = [CallRung EXCEPT ![p] = RungOf(s, then[p])]
      BY <1>1, RungMoves DEF SendRequest
<1>3. RungOf(s, then[p]) = IF s = "first" THEN 2 ELSE 4 BY DEF RungOf
<1>. QED BY <1>2, <1>3

LEMMA LoginRung ==
    ASSUME TypeOK, NEW p \in Callers, NEW r \in {"first", "retry", "return"},
           SendLogin(p, r)
    PROVE  CallRung' = [CallRung EXCEPT ![p] =
                          IF r = "first" THEN 1 ELSE IF r = "retry" THEN 3 ELSE 5]
<1>1. CallRung' = [CallRung EXCEPT ![p] = RungOf("login", r)]
      BY RungMoves DEF SendLogin
<1>2. RungOf("login", r) = IF r = "first" THEN 1 ELSE IF r = "retry" THEN 3 ELSE 5
      BY DEF RungOf
<1>. QED BY <1>1, <1>2

LEMMA FinishRung ==
    ASSUME TypeOK, NEW p \in Callers, Finish(p), pc[p] # "idle"
    PROVE  Contract!Finish(p)
<1>1. CallRung' = [CallRung EXCEPT ![p] = RungOf("idle", "return")]
      BY RungMoves DEF Finish
<1>2. RungOf("idle", "return") = 0 BY DEF RungOf
<1>3. CallRung[p] # 0 BY DEF CallRung, RungOf, TypeOK, Stages
<1>. QED BY <1>1, <1>2, <1>3 DEF Contract!Finish

\* The rung a caller is on, read off its await.
LEMMA RungAt ==
    ASSUME TypeOK, NEW p \in Callers
    PROVE  /\ pc[p] = "idle" => CallRung[p] = 0
           /\ pc[p] = "login" => CallRung[p] = IF then[p] = "first" THEN 1
                                    ELSE IF then[p] = "retry" THEN 3 ELSE 5
           /\ pc[p] = "first" => CallRung[p] = 2
           /\ pc[p] = "retry" => CallRung[p] = 4
BY DEF TypeOK, CallRung, RungOf

\* Moving up from a rung other than 0 is what the contract calls a climb.
LEMMA Climbs ==
    ASSUME NEW p \in Callers, NEW r \in {2, 3, 4, 5}, CallRung[p] # 0,
           r > CallRung[p], CallRung' = [CallRung EXCEPT ![p] = r]
    PROVE  Contract!Next
<1>1. r \in 0..5 OBVIOUS
<1>2. Contract!Climb(p) BY <1>1 DEF Contract!Climb, Contract!Rungs
<1>. QED BY <1>2 DEF Contract!Next

LEMMA CallerClimbs ==
    ASSUME TypeOK, NEW p \in Callers, CallerStep(p)
    PROVE  Contract!Next
<1>1. ASSUME NEW k \in {"request", "extend"}, BeginCall(p, k) PROVE Contract!Next
  <2>1. CallRung' = [CallRung EXCEPT ![p] = 2] \/ CallRung' = [CallRung EXCEPT ![p] = 1]
        BY <1>1, RequestRung, LoginRung DEF BeginCall
  <2>2. CallRung[p] = 0 BY <1>1, RungAt DEF BeginCall
  <2>. QED BY <2>1, <2>2 DEF Contract!Next, Contract!Begin
<1>2. ASSUME UserRefresh(p) PROVE Contract!Next
  <2>1. CallRung' = [CallRung EXCEPT ![p] = 5]
        BY <1>2, LoginRung DEF UserRefresh, Relogin
  <2>2. CallRung[p] = 0 BY <1>2, RungAt DEF UserRefresh
  <2>. QED BY <2>1, <2>2 DEF Contract!Next, Contract!Begin
<1>3. ASSUME LoginReplied(p) PROVE Contract!Next
  <2>1. CASE Finish(p)
        BY <1>3, <2>1, FinishRung DEF LoginReplied, Contract!Next
  <2>2. CASE then[p] # "return" /\ SendRequest(p, then[p], granted[p])
    <3>1. then[p] \in {"first", "retry"} BY <2>2 DEF TypeOK
    <3>2. CallRung' = [CallRung EXCEPT ![p] = IF then[p] = "first" THEN 2 ELSE 4]
          BY <2>2, <3>1, RequestRung
    <3>3. CallRung[p] = IF then[p] = "first" THEN 1 ELSE 3
          BY <1>3, <3>1, RungAt DEF LoginReplied
    <3>4. CASE then[p] = "first"
      <4>1. CallRung' = [CallRung EXCEPT ![p] = 2] /\ CallRung[p] = 1
            BY <3>2, <3>3, <3>4
      <4>2. CallRung[p] # 0 /\ 2 > CallRung[p] BY <4>1
      <4>. QED BY <4>1, <4>2, Climbs
    <3>5. CASE then[p] = "retry"
      <4>1. CallRung' = [CallRung EXCEPT ![p] = 4] /\ CallRung[p] = 3
            BY <3>2, <3>3, <3>5
      <4>2. CallRung[p] # 0 /\ 4 > CallRung[p] BY <4>1
      <4>. QED BY <4>1, <4>2, Climbs
    <3>. QED BY <3>1, <3>4, <3>5
  <2>. QED BY <1>3, <2>1, <2>2 DEF LoginReplied
<1>4. ASSUME RequestSucceeded(p) PROVE Contract!Next
  <2>1. CASE Finish(p)
        BY <1>4, <2>1, FinishRung DEF RequestSucceeded, Contract!Next
  <2>2. CASE SendLogin(p, "return")
    <3>1. CallRung' = [CallRung EXCEPT ![p] = 5] BY <2>2, LoginRung
    <3>2. CallRung[p] \in {2, 4} BY <1>4, RungAt DEF RequestSucceeded
    <3>3. CallRung[p] # 0 /\ 5 > CallRung[p] BY <3>2
    <3>. QED BY <3>1, <3>3, Climbs
  <2>. QED BY <1>4, <2>1, <2>2 DEF RequestSucceeded, Relogin
<1>5. ASSUME ReloginAfterExpiry(p) \/ RecoverAfterExpiry(p) \/ RecoverAfterRefusal(p)
      PROVE  Contract!Next
  <2>1. CASE Finish(p)
        BY <1>5, <2>1, FinishRung
        DEF ReloginAfterExpiry, RecoverAfterExpiry, RecoverAfterRefusal, Contract!Next
  <2>2. CASE SendLogin(p, "retry")
    <3>1. CallRung' = [CallRung EXCEPT ![p] = 3] BY <2>2, LoginRung
    <3>2. CallRung[p] = 2
          BY <1>5, RungAt DEF ReloginAfterExpiry, RecoverAfterExpiry, RecoverAfterRefusal
    <3>3. CallRung[p] # 0 /\ 3 > CallRung[p] BY <3>2
    <3>. QED BY <3>1, <3>3, Climbs
  <2>. QED BY <1>5, <2>1, <2>2
       DEF ReloginAfterExpiry, RecoverAfterExpiry, RecoverAfterRefusal, Relogin, Recover
<1>6. ASSUME RequestFailed(p) PROVE Contract!Next
      BY <1>6, FinishRung DEF RequestFailed, Contract!Next
<1>. QED BY <1>1, <1>2, <1>3, <1>4, <1>5, <1>6 DEF CallerStep, Resume

\* What a caller may do is bounded whatever the cloud answers and whoever else
\* is calling: at most one login and one attempt, one login and one retry, and a
\* closing login, in that order (_async_authenticated's "a second failure
\* propagates instead of looping").
THEOREM LadderClimbed == Spec => Contract!Ladder
<1>1. Init => Contract!Init
      BY DEF Init, Contract!Init, CallRung, RungOf
<1>2. ASSUME TypeOK, [Next]_vars PROVE [Contract!Next]_CallRung
  <2>1. ASSUME NEW p \in Callers, CallerStep(p) PROVE Contract!Next
        BY <1>2, <2>1, CallerClimbs
  <2>2. ASSUME pc' = pc, then' = then PROVE CallRung' = CallRung
        BY <2>2 DEF CallRung
  <2>3. CASE Restart
        BY <2>3 DEF Restart, CallRung, RungOf, Contract!Next, Contract!Abandon
  <2>4. CASE (\E p \in Callers : CloudStep(p)) \/ SessionEnds \/ Tick \/ UNCHANGED vars
        BY <2>2, <2>4 DEF CloudStep, CloudServes, CloudLogsIn, SessionEnds, Tick,
                          vars, callVars
  <2>. QED BY <1>2, <2>1, <2>3, <2>4 DEF Next
<1>. QED BY <1>1, <1>2, TypeCorrect, PTL DEF Spec, Contract!Ladder

=============================================================================
