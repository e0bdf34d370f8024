------------------------------ MODULE AuthClock ------------------------------
(***************************************************************************)
(* The clock and the counters of AuthManager as the code keeps them:       *)
(* instants of a monotonic clock and counts without bound.  AuthSession    *)
(* has ages and counts that saturate instead; Mirrors says when the two    *)
(* agree, and AuthSession_proofs that they then decide the same and agree  *)
(* again.                                                                  *)
(***************************************************************************)
EXTENDS AuthSession

Instants == Int \cup {Never}
Counters == [now : Int, login : Instants, eviction : Instants, evictions : Nat,
             window : Instants, expiries : Nat]

Past(c) == \A at \in {c.login, c.eviction, c.window} : at = Never \/ at <= c.now

LongAgo(c, at) == at # Never /\ c.now - at > Forget

-----------------------------------------------------------------------------
\* _note_eviction: the count the cool-down is read from, and what is left behind.
EvictionsNoted(c) == IF LongAgo(c, c.eviction) THEN 0 ELSE c.evictions

EvictionNoted(c) ==
    [c EXCEPT !.eviction = c.now, !.evictions = EvictionsNoted(c) + 1]

\* The test of _async_recover.
MustWait(c) ==
    LET cooldown == Cooldown(EvictionsNoted(c)) IN
    cooldown > 0 /\ c.login # Never /\ c.now - c.login < cooldown

\* _expiry_within_budget.
ExpiryNoted(c) ==
    IF c.window = Never \/ LongAgo(c, c.window)
    THEN [c EXCEPT !.window = c.now, !.expiries = 1]
    ELSE [c EXCEPT !.expiries = @ + 1]

InBudget(c) == ExpiryNoted(c).expiries <= ExpiryLimit

Later(c) == [c EXCEPT !.now = @ + 1]

-----------------------------------------------------------------------------
AgeOf(c, at) == IF at = Never THEN Never ELSE IF LongAgo(c, at) THEN Forget + 1 ELSE c.now - at

Capped(n, cap) == IF n < cap THEN n ELSE cap

\* The state of AuthSession is the counters `c', saturated.
Mirrors(c) ==
    /\ lastLogin = AgeOf(c, c.login)
    /\ lastEviction = AgeOf(c, c.eviction) /\ evictions = Capped(c.evictions, EvictionCap)
    /\ windowStart = AgeOf(c, c.window) /\ expiries = Capped(c.expiries, ExpiryCap)
=============================================================================
