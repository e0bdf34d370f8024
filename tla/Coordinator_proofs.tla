-------------------------- MODULE Coordinator_proofs --------------------------
(***************************************************************************)
(* Proofs about Coordinator, for every set of appliances, readings and     *)
(* figures and every grace: the types, that a loaded entry keeps readings, *)
(* that its refresh cycle cannot die out, and that entities are            *)
(* unavailable only in a real outage.                                      *)
(***************************************************************************)
EXTENDS Coordinator, FiniteSetTheorems, TLAPS

\* The devices of a poll are accounted for: failed, waiting, or answered.  A poll that
\* carries no reading at all has none that answered.
Counted(p) ==
    /\ p.errors + Cardinality(p.left) <= Cardinality(Devices)
    /\ p.at = "query" /\ ~Known(p.states) =>
          p.errors + Cardinality(p.left) = Cardinality(Devices)

PollsCounted == \A k \in Runners : Counted(poll[k])

\* The inductive invariant.
IInv == TypeOK /\ PollsCounted /\ ReadingsHeld

-----------------------------------------------------------------------------
(* What the operators of the model return. *)

LEMMA DevicesCounted == Cardinality(Devices) \in Nat \ {0}
<1>1. Cardinality(Devices) \in Nat BY DeviceAssumption, FS_CardinalityType
<1>2. Cardinality(Devices) # 0 BY DeviceAssumption, FS_EmptySet
<1>. QED BY <1>1, <1>2

\* A poll at rest, or at its beginning, is well formed and counted.
LEMMA PollBeginnings ==
    /\ Nothing \in Snapshots /\ ~Known(Nothing)
    /\ Resting \in Polls /\ Counted(Resting)
    /\ Extending \in Polls /\ Counted(Extending)
    /\ \A cur \in Snapshots : Querying(cur) \in Polls /\ Counted(Querying(cur))
<1>1. Cardinality({}) = 0 BY FS_EmptySet
<1>2. Nothing \in Snapshots /\ ~Known(Nothing)
      BY DEF Nothing, Snapshots, Reading, Known
<1>3. Resting \in Polls /\ Counted(Resting)
      BY <1>1, <1>2, DevicesCounted DEF Resting, Polls, Counted
<1>4. Extending \in Polls /\ Counted(Extending)
      BY <1>1, <1>2, DevicesCounted DEF Extending, Resting, Polls, Counted
<1>5. ASSUME NEW cur \in Snapshots PROVE Querying(cur) \in Polls /\ Counted(Querying(cur))
      BY DevicesCounted DEF Querying, Polls, Counted
<1>. QED BY <1>2, <1>3, <1>4, <1>5

\* The fetches stay well formed.
LEMMA FetchTypes ==
    ASSUME NEW f \in [Origins -> Fetches], NEW o \in Origins, NEW known \in BOOLEAN,
           NEW due \in BOOLEAN
    PROVE  /\ NoFetch \in Fetches
           /\ Fetching(f, o, known) \in [Origins -> Fetches]
           /\ FetchOnce(f, due, known) \in [Origins -> Fetches]
<1>1. NoFetch \in Fetches BY DEF NoFetch, Fetches
<1>2. ASSUME NEW g \in Origins PROVE Fetching(f, g, known) \in [Origins -> Fetches]
  <2>. DEFINE begun == CASE ~known -> [at |-> "catalog", left |-> {}]
                         [] known /\ Meters # {} -> [at |-> "reports", left |-> Meters]
                         [] OTHER -> NoFetch
  <2>1. begun \in Fetches BY <1>1 DEF Fetches
  <2>. HIDE DEF begun
  <2>2. [f EXCEPT ![g] = begun] \in [Origins -> Fetches] BY <2>1
  <2>. QED BY <2>2 DEF Fetching, begun
<1>3. "once" \in Origins BY DEF Origins
<1>. QED BY <1>1, <1>2, <1>3 DEF FetchOnce

\* A poll stays well formed after an answer or a failure.
LEMMA PollUpdate ==
    ASSUME NEW r \in Polls, NEW l, NEW s, NEW e
    PROVE  LET p == [r EXCEPT !.left = l, !.states = s]
               q == [r EXCEPT !.left = l, !.errors = e]
           IN  /\ l \subseteq Devices /\ s \in Snapshots => p \in Polls
               /\ l \subseteq Devices /\ e \in 0..Cardinality(Devices) => q \in Polls
BY DEF Polls

\* What is left of a poll after one more device.
LEMMA OneLess ==
    ASSUME TypeOK, PollsCounted, NEW k \in Runners, NEW d \in Devices, Awaits(k, d)
    PROVE  /\ poll[k] \in Polls /\ Counted(poll[k]) /\ poll[k].at = "query"
           /\ poll[k].left \ {d} \subseteq Devices /\ poll[k].states \in Snapshots
           /\ poll[k].errors \in Nat
           /\ Cardinality(poll[k].left) \in Nat /\ Cardinality(poll[k].left \ {d}) \in Nat
           /\ Cardinality(poll[k].left \ {d}) = Cardinality(poll[k].left) - 1
<1>1. /\ poll[k] \in Polls /\ Counted(poll[k]) /\ d \in poll[k].left /\ poll[k].at = "query"
      BY DEF TypeOK, PollsCounted, Awaits
<1>2. /\ poll[k].left \subseteq Devices /\ poll[k].states \in Snapshots
      /\ poll[k].errors \in Nat
      BY <1>1, DevicesCounted DEF Polls
<1>3. IsFiniteSet(poll[k].left) BY <1>2, DeviceAssumption, FS_Subset
<1>4. /\ Cardinality(poll[k].left) \in Nat /\ Cardinality(poll[k].left \ {d}) \in Nat
      /\ Cardinality(poll[k].left \ {d}) = Cardinality(poll[k].left) - 1
      BY <1>1, <1>3, FS_RemoveElement, FS_CardinalityType
<1>. QED BY <1>1, <1>2, <1>4

\* An answer keeps a poll well formed and counted, and gives it a reading.
LEMMA PollProgress ==
    ASSUME TypeOK, PollsCounted, NEW k \in Runners, NEW d \in Devices, Awaits(k, d),
           NEW v \in Values
    PROVE  LET p == [poll[k] EXCEPT !.left = @ \ {d}, !.states = [@ EXCEPT ![d] = v]]
           IN  p \in Polls /\ Counted(p) /\ p.at = "query" /\ Known(p.states)
<1>. DEFINE old == poll[k]
            p == [old EXCEPT !.left = @ \ {d}, !.states = [@ EXCEPT ![d] = v]]
<1>1. v # NoReading /\ v \in Reading BY ValueAssumption DEF Reading
<1>2. [old.states EXCEPT ![d] = v] \in Snapshots /\ Known([old.states EXCEPT ![d] = v])
      BY <1>1, OneLess DEF Snapshots, Known
<1>3. p \in Polls BY <1>2, OneLess, PollUpdate
<1>4. /\ p.at = "query" /\ p.left = old.left \ {d} /\ p.errors = old.errors
      /\ p.states = [old.states EXCEPT ![d] = v]
      BY OneLess DEF Polls
<1>. HIDE DEF p
<1>5. Counted(p) BY <1>2, <1>4, OneLess, DevicesCounted DEF Counted
<1>. QED BY <1>2, <1>3, <1>4, <1>5 DEF p

\* A failure keeps a poll well formed and counted.
LEMMA FailureProgress ==
    ASSUME TypeOK, PollsCounted, NEW k \in Runners, NEW d \in Devices, Awaits(k, d)
    PROVE  LET q == [poll[k] EXCEPT !.left = @ \ {d}, !.errors = @ + 1]
           IN  q \in Polls /\ Counted(q) /\ q.at = "query" /\ q.states = poll[k].states
<1>. DEFINE old == poll[k]
            q == [old EXCEPT !.left = @ \ {d}, !.errors = @ + 1]
<1>1. old.errors + 1 \in 0..Cardinality(Devices)
  <2>1. old.errors + Cardinality(old.left) <= Cardinality(Devices) BY OneLess DEF Counted
  <2>2. /\ old.errors \in Nat /\ Cardinality(old.left) \in Nat
        /\ Cardinality(old.left) - 1 \in Nat
        BY OneLess
  <2>. HIDE DEF old
  <2>. QED BY <2>1, <2>2, DevicesCounted
<1>2. q \in Polls BY <1>1, OneLess, PollUpdate
<1>3. /\ q.at = "query" /\ q.left = old.left \ {d} /\ q.errors = old.errors + 1
      /\ q.states = old.states
      BY OneLess DEF Polls
<1>. HIDE DEF q
<1>4. Counted(q) BY <1>3, OneLess, DevicesCounted DEF Counted
<1>. QED BY <1>2, <1>3, <1>4 DEF q

-----------------------------------------------------------------------------
(* The invariant is inductive. *)

LEMMA InitIInv == Init => IInv
<1>. SUFFICES ASSUME Init PROVE IInv OBVIOUS
<1>. USE DEF Init, Fresh
<1>1. TypeOK
  <2>1. NoFetch \in Fetches BY DEF NoFetch, Fetches
  <2>2. data \in Snapshots /\ poll \in [Runners -> Polls] /\ fetch \in [Origins -> Fetches]
        BY <2>1, PollBeginnings
  <2>3. failed \in 0..FailedCap BY GraceAssumption DEF FailedCap
  <2>. QED BY <2>2, <2>3 DEF TypeOK
<1>2. PollsCounted BY PollBeginnings DEF PollsCounted
<1>3. ReadingsHeld BY PollBeginnings DEF ReadingsHeld, Busy, Resting, Runners
<1>. QED BY <1>1, <1>2, <1>3 DEF IInv

\* A refresh keeps the invariant: it skips, or starts a poll from the readings there are.
LEMMA RefreshIInv ==
    ASSUME IInv, NEW k \in Runners, NEW asked \in BOOLEAN, NEW cur \in Snapshots,
           NEW due \in BOOLEAN, NEW pushed \in BOOLEAN,
           Refresh(k, asked, cur, due, pushed),
           setUp => Known(cur), ~setUp => k = "scheduled" /\ cur = Nothing,
           data' = cur, setUp' = setUp, mode' \in {"cooperative", "exclusive"},
           failed' = failed, pending' \in BOOLEAN, fresh' \in BOOLEAN,
           reauth' \in BOOLEAN, asking' \in BOOLEAN, fetch' \in [Origins -> Fetches]
    PROVE  IInv'
<1>. USE DEF IInv
<1>1. CASE Skips(asked, cur, due, pushed)
  <2>1. /\ poll' = poll /\ Known(cur)
        /\ explicit' \in BOOLEAN /\ again' \in BOOLEAN /\ snapshotDue' \in BOOLEAN
        /\ available' \in BOOLEAN /\ timer' \in BOOLEAN /\ cooling' \in BOOLEAN
        /\ reports' \subseteq Meters /\ catalog' \in BOOLEAN
        BY <1>1 DEF Refresh, Skips
  <2>2. setUp BY <2>1, PollBeginnings
  <2>3. TypeOK' BY <2>1 DEF TypeOK
  <2>4. PollsCounted' BY <2>1 DEF PollsCounted, Counted, Known
  <2>5. ReadingsHeld' BY <2>1, <2>2 DEF ReadingsHeld, Known
  <2>. QED BY <2>3, <2>4, <2>5
<1>2. CASE ~Skips(asked, cur, due, pushed)
  <2>1. PICK p \in {Querying(cur), Extending} : poll' = [poll EXCEPT ![k] = p]
        BY <1>2 DEF Refresh, Ask
  <2>2. /\ explicit' \in BOOLEAN /\ again' \in BOOLEAN /\ snapshotDue' \in BOOLEAN
        /\ available' \in BOOLEAN /\ timer' = FALSE /\ cooling' = FALSE
        /\ reports' \subseteq Meters /\ catalog' \in BOOLEAN
        /\ available => available'
        BY <1>2 DEF Refresh, TypeOK
  <2>3. p \in Polls /\ Counted(p) BY PollBeginnings
  <2>4. TypeOK' BY <2>1, <2>2, <2>3 DEF TypeOK
  <2>5. PollsCounted' BY <2>1, <2>3 DEF PollsCounted, Counted, Known, TypeOK
  <2>6. p.at = "query" => p.states = cur BY DEF Querying, Extending, Resting
  <2>7. ReadingsHeld'
    <3>1. ASSUME setUp, NEW j \in Runners, poll'[j].at = "query"
          PROVE  Known(poll'[j].states)
          BY <2>1, <2>6, <3>1 DEF ReadingsHeld, TypeOK
    <3>2. ASSUME ~setUp
          PROVE  data' = Nothing /\ poll'["debounced"].at = "idle" /\ available'
          BY <2>1, <2>2, <3>2 DEF ReadingsHeld, Busy, TypeOK, Runners
    <3>. QED BY <2>2, <3>1, <3>2 DEF ReadingsHeld, Busy, Known
  <2>. QED BY <2>4, <2>5, <2>7
<1>. QED BY <1>1, <1>2
\* A postponed or swallowed request touches nothing the invariant speaks of but its types.
LEMMA DeferIInv ==
    ASSUME IInv, NEW asked \in BOOLEAN, Defer(asked),
           data' = data, setUp' = setUp, mode' \in {"cooperative", "exclusive"},
           failed' = failed, fresh' = fresh, reauth' = reauth, asking' = asking,
           fetch' \in [Origins -> Fetches]
    PROVE  IInv'
<1>. USE DEF IInv
<1>1. TypeOK' BY DEF TypeOK, Defer
<1>2. PollsCounted' BY DEF PollsCounted, Counted, Known, Defer
<1>3. ReadingsHeld' BY DEF ReadingsHeld, Known, Busy, Defer
<1>. QED BY <1>1, <1>2, <1>3

\* The end of a poll, as far as it is the same for every outcome.
LEMMA OverFacts ==
    ASSUME IInv, NEW k \in Runners, NEW f \in [Origins -> Fetches], Over(k, f)
    PROVE  /\ poll' = [poll EXCEPT ![k] = Resting]
           /\ poll' \in [Runners -> Polls] /\ PollsCounted'
           /\ cooling' \in BOOLEAN /\ asking' \in BOOLEAN
           /\ fetch' \in [Origins -> Fetches]
<1>. USE DEF IInv
<1>1. poll' = [poll EXCEPT ![k] = Resting] BY DEF Over
<1>2. poll' \in [Runners -> Polls] BY <1>1, PollBeginnings DEF TypeOK
<1>3. PollsCounted' BY <1>1, PollBeginnings DEF PollsCounted, Counted, Known, TypeOK
<1>4. cooling' \in BOOLEAN /\ asking' \in BOOLEAN BY DEF Over, TypeOK
<1>5. fetch' \in [Origins -> Fetches]
  <2>1. "user" \in Origins BY DEF Origins
  <2>2. Fetching(f, "user", catalog) \in [Origins -> Fetches] BY <2>1, FetchTypes DEF TypeOK
  <2>. QED BY <2>2 DEF Over
<1>. QED BY <1>1, <1>2, <1>3, <1>4, <1>5

\* A discarded coordinator is a new one.
LEMMA DiscardIInv ==
    ASSUME IInv, Discard, reauth' \in BOOLEAN
    PROVE  IInv'
<1>1. NoFetch \in Fetches BY DEF NoFetch, Fetches
<1>2. /\ data' \in Snapshots /\ poll' \in [Runners -> Polls]
      /\ fetch' \in [Origins -> Fetches]
      BY <1>1, PollBeginnings DEF Discard
<1>3. failed' \in 0..FailedCap BY GraceAssumption DEF FailedCap, Discard
<1>4. TypeOK' BY <1>2, <1>3 DEF IInv, TypeOK, Discard
<1>5. PollsCounted' BY PollBeginnings DEF PollsCounted, Discard, Counted, Known
<1>6. ReadingsHeld' BY PollBeginnings DEF ReadingsHeld, Busy, Resting, Runners, Discard
<1>. QED BY <1>4, <1>5, <1>6 DEF IInv

\* The conclusion of a poll keeps the invariant, whatever its outcome.
LEMMA ConcludeIInv ==
    ASSUME IInv, NEW k \in Runners, NEW p \in Polls, Counted(p), p.at = "query",
           poll[k].at = "query", setUp => Known(p.states), Conclude(k, p)
    PROVE  IInv'
<1>. USE DEF IInv
<1>1. p.left = {} /\ p.states \in Snapshots /\ p.errors \in Nat
      BY DevicesCounted DEF Conclude, Polls
<1>2. FetchOnce(fetch, pending, catalog) \in [Origins -> Fetches] /\ fetch \in [Origins -> Fetches]
      BY FetchTypes DEF TypeOK, Origins
<1>3. CountFailure \in 0..FailedCap
      BY GraceAssumption DEF TypeOK, CountFailure, FailedCap
<1>4. ~setUp => k = "scheduled" BY DEF ReadingsHeld, Busy, Runners
<1>5. ASSUME poll' = [poll EXCEPT ![k] = Resting], setUp',
             data' = p.states \/ (setUp /\ data' = data), Known(p.states)
      PROVE  ReadingsHeld'
  <2>1. Known(data') BY <1>5 DEF ReadingsHeld
  <2>2. ASSUME NEW j \in Runners, poll'[j].at = "query" PROVE Known(poll'[j].states)
    <3>1. j # k /\ poll'[j] = poll[j] BY <1>5, <2>2 DEF TypeOK, Resting
    <3>2. setUp BY <1>4, <3>1, <2>2 DEF ReadingsHeld, Busy, Runners
    <3>. QED BY <3>1, <3>2, <2>2 DEF ReadingsHeld
  <2>. QED BY <1>5, <2>1, <2>2 DEF ReadingsHeld, Known
<1>6. CASE PollSucceeds(k, p.states) /\ p.errors < Cardinality(Devices)
  <2>1. Known(p.states)
    <3>1. Cardinality(p.left) = 0 BY <1>1, FS_EmptySet
    <3>. QED BY <3>1, <1>1, <1>6, DevicesCounted DEF Counted
  <2>2. Over(k, FetchOnce(fetch, pending, catalog)) BY <1>6 DEF PollSucceeds
  <2>3. /\ poll' = [poll EXCEPT ![k] = Resting]
        /\ poll' \in [Runners -> Polls] /\ PollsCounted'
        /\ cooling' \in BOOLEAN /\ asking' \in BOOLEAN /\ fetch' \in [Origins -> Fetches]
        BY <2>2, <1>2, OverFacts
  <2>4. TypeOK'
    <3>1. failed' \in 0..FailedCap BY <1>6, GraceAssumption DEF PollSucceeds, FailedCap
    <3>. QED BY <2>3, <3>1, <1>1, <1>6 DEF TypeOK, PollSucceeds
  <2>5. ReadingsHeld' BY <2>1, <2>3, <1>5, <1>6 DEF PollSucceeds
  <2>. QED BY <2>3, <2>4, <2>5
<1>7. CASE PollBorne(k, p.states)
  <2>1. Over(k, fetch) /\ Known(p.states) BY <1>7 DEF PollBorne, Borne
  <2>2. /\ poll' = [poll EXCEPT ![k] = Resting]
        /\ poll' \in [Runners -> Polls] /\ PollsCounted'
        /\ cooling' \in BOOLEAN /\ asking' \in BOOLEAN /\ fetch' \in [Origins -> Fetches]
        BY <2>1, <1>2, OverFacts
  <2>3. TypeOK' BY <2>2, <1>1, <1>3, <1>7 DEF TypeOK, PollBorne
  <2>4. ReadingsHeld' BY <2>1, <2>2, <1>5, <1>7 DEF PollBorne
  <2>. QED BY <2>2, <2>3, <2>4
<1>8. CASE PollFails(k, p.states) /\ setUp
  <2>1. Over(k, fetch) BY <1>8 DEF PollFails
  <2>2. /\ poll' = [poll EXCEPT ![k] = Resting]
        /\ poll' \in [Runners -> Polls] /\ PollsCounted'
        /\ cooling' \in BOOLEAN /\ asking' \in BOOLEAN /\ fetch' \in [Origins -> Fetches]
        BY <2>1, <1>2, OverFacts
  <2>3. TypeOK' BY <2>2, <1>3, <1>8 DEF TypeOK, PollFails
  <2>4. ReadingsHeld' BY <2>2, <1>5, <1>8 DEF PollFails
  <2>. QED BY <2>2, <2>3, <2>4
<1>9. CASE PollFails(k, p.states) /\ ~setUp
      BY <1>9, DiscardIInv DEF PollFails, TypeOK
<1>. QED BY <1>6, <1>7, <1>8, <1>9 DEF Conclude
\* A step within a poll.
LEMMA ReplyIInv ==
    ASSUME IInv, NEW k \in Runners, Replies(k)
    PROVE  IInv'
<1>. USE DEF IInv
<1>1. ASSUME NEW p \in Polls, Counted(p), p.at = "query", poll[k].at = "query",
             setUp => Known(p.states), poll' = [poll EXCEPT ![k] = p],
             UNCHANGED <<coreVars, haVars, asking, fetch>>
      PROVE  IInv'
  <2>. USE DEF coreVars, haVars, schedVars
  <2>1. TypeOK' BY <1>1 DEF TypeOK
  <2>2. PollsCounted' BY <1>1 DEF PollsCounted, Counted, Known, TypeOK
  <2>3. ASSUME NEW j \in Runners, setUp, poll'[j].at = "query"
        PROVE  Known(poll'[j].states)
        BY <1>1, <2>3 DEF ReadingsHeld, TypeOK
  <2>4. ~setUp => poll'["debounced"].at = "idle"
        BY <1>1 DEF ReadingsHeld, Busy, TypeOK, Runners
  <2>5. ReadingsHeld' BY <1>1, <2>3, <2>4 DEF ReadingsHeld, Busy, Known
  <2>. QED BY <2>1, <2>2, <2>5
<1>2. CASE ExtendReplied(k)
  <2>. USE DEF coreVars, haVars, schedVars
  <2>. DEFINE p == Querying(data)
  <2>1. p \in Polls /\ Counted(p) /\ p.at = "query" /\ p.states = data
        BY PollBeginnings DEF TypeOK, Querying
  <2>2. poll[k].at = "extend" /\ poll' = [poll EXCEPT ![k] = p]
        /\ UNCHANGED <<coreVars, haVars, asking, fetch>>
        BY <1>2 DEF ExtendReplied
  <2>. HIDE DEF p
  <2>3. TypeOK' BY <2>1, <2>2 DEF TypeOK
  <2>4. PollsCounted' BY <2>1, <2>2 DEF PollsCounted, Counted, Known, TypeOK
  <2>5. ASSUME NEW j \in Runners, setUp, poll'[j].at = "query"
        PROVE  Known(poll'[j].states)
        BY <2>1, <2>2, <2>5 DEF ReadingsHeld, TypeOK
  <2>6. ~setUp => poll'["debounced"].at = "idle"
        BY <2>2 DEF ReadingsHeld, Busy, TypeOK, Runners
  <2>7. ReadingsHeld' BY <2>2, <2>5, <2>6 DEF ReadingsHeld, Busy, Known
  <2>. QED BY <2>3, <2>4, <2>7
<1>3. ASSUME NEW d \in Devices, NEW p \in Polls, Counted(p), p.at = "query",
             poll[k].at = "query", setUp => Known(p.states), Advance(k, d, p)
      PROVE  IInv'
  <2>1. CASE QueryNext(k, d, p) BY <1>1, <1>3, <2>1 DEF QueryNext
  <2>2. CASE Conclude(k, p) BY <1>3, <2>2, ConcludeIInv
  <2>. QED BY <1>3, <2>1, <2>2 DEF Advance
<1>4. ASSUME NEW d \in Devices, NEW v \in Values, QueryAnswered(k, d, v) PROVE IInv'
  <2>. DEFINE p == [poll[k] EXCEPT !.left = @ \ {d}, !.states = [@ EXCEPT ![d] = v]]
  <2>1. Awaits(k, d) /\ poll[k].at = "query" /\ Advance(k, d, p)
        BY <1>4 DEF QueryAnswered, Awaits
  <2>2. p \in Polls /\ Counted(p) /\ p.at = "query" /\ Known(p.states)
        BY <2>1, PollProgress
  <2>. HIDE DEF p
  <2>. QED BY <2>1, <2>2, <1>3
<1>5. ASSUME NEW d \in Devices, QueryFailed(k, d) PROVE IInv'
  <2>. DEFINE q == [poll[k] EXCEPT !.left = @ \ {d}, !.errors = @ + 1]
  <2>1. Awaits(k, d) /\ poll[k].at = "query" /\ Advance(k, d, q)
        BY <1>5 DEF QueryFailed, Awaits
  <2>2. q \in Polls /\ Counted(q) /\ q.at = "query" /\ q.states = poll[k].states
        BY <2>1, FailureProgress
  <2>3. setUp => Known(q.states) BY <2>1, <2>2 DEF ReadingsHeld
  <2>. HIDE DEF q
  <2>. QED BY <2>1, <2>2, <2>3, <1>3
<1>6. ASSUME NEW d \in Devices, PollStopped(k, d) PROVE IInv'
  <2>. DEFINE q == [poll[k] EXCEPT !.left = {}, !.errors = Cardinality(Devices)]
  <2>1. Awaits(k, d) /\ poll[k].at = "query" /\ Conclude(k, q)
        BY <1>6 DEF PollStopped, Awaits
  <2>2. poll[k] \in Polls BY DEF TypeOK
  <2>3. q \in Polls
    <3>1. {} \subseteq Devices /\ Cardinality(Devices) \in 0..Cardinality(Devices)
          BY DevicesCounted
    <3>. QED BY <2>2, <3>1 DEF Polls
  <2>4. q.at = "query" /\ q.left = {} /\ q.errors = Cardinality(Devices)
        /\ q.states = poll[k].states
        BY <2>1, <2>2 DEF Polls
  <2>. HIDE DEF q
  <2>5. Counted(q) BY <2>4, DevicesCounted, FS_EmptySet DEF Counted
  <2>6. setUp => Known(q.states) BY <2>1, <2>4 DEF ReadingsHeld
  <2>. QED BY <2>1, <2>3, <2>4, <2>5, <2>6, ConcludeIInv
<1>7. ASSUME NEW d \in Devices, PollRejected(k, d) PROVE IInv'
  <2>1. CASE setUp
    <3>1. /\ Over(k, fetch) /\ available' = FALSE /\ reauth' = TRUE
          /\ UNCHANGED <<coreVars, setUp, timer, again>>
          BY <1>7, <2>1 DEF PollRejected
    <3>2. fetch \in [Origins -> Fetches] BY DEF TypeOK
    <3>3. /\ poll' = [poll EXCEPT ![k] = Resting]
          /\ poll' \in [Runners -> Polls] /\ PollsCounted'
          /\ cooling' \in BOOLEAN /\ asking' \in BOOLEAN /\ fetch' \in [Origins -> Fetches]
          BY <3>1, <3>2, OverFacts
    <3>4. TypeOK' BY <3>1, <3>3 DEF TypeOK, coreVars
    <3>5. ASSUME NEW j \in Runners, poll'[j].at = "query" PROVE Known(poll'[j].states)
          BY <2>1, <3>3, <3>5 DEF ReadingsHeld, TypeOK, Resting
    <3>6. ReadingsHeld' BY <2>1, <3>1, <3>5 DEF ReadingsHeld, coreVars, Known
    <3>. QED BY <3>3, <3>4, <3>6
  <2>2. CASE ~setUp BY <1>7, <2>2, DiscardIInv DEF PollRejected
  <2>. QED BY <2>1, <2>2
<1>. QED BY <1>2, <1>4, <1>5, <1>6, <1>7 DEF Replies
\* The steps that begin a poll, or skip one.
LEMMA StartIInv ==
    ASSUME IInv, FirstRefresh \/ SetupRejected \/ TimerFires \/ CoolingEnds
    PROVE  IInv'
<1>. USE DEF IInv
<1>1. /\ explicit \in BOOLEAN /\ snapshotDue \in BOOLEAN /\ data \in Snapshots
      /\ mode \in {"cooperative", "exclusive"} /\ fresh \in BOOLEAN /\ reauth \in BOOLEAN
      /\ asking \in BOOLEAN /\ fetch \in [Origins -> Fetches] /\ setUp \in BOOLEAN
      BY DEF TypeOK
<1>2. setUp => Known(data) BY DEF ReadingsHeld
<1>3. CASE FirstRefresh
      BY <1>1, <1>2, <1>3, RefreshIInv DEF FirstRefresh, Runners, ReadingsHeld
<1>4. CASE SetupRejected
  <2>. USE <1>4 DEF SetupRejected, coreVars, taskVars, schedVars
  <2>1. TypeOK' BY DEF TypeOK
  <2>2. PollsCounted' BY DEF PollsCounted, Counted, Known
  <2>3. ReadingsHeld' BY DEF ReadingsHeld, Busy, Known
  <2>. QED BY <2>1, <2>2, <2>3
<1>5. CASE TimerFires
  <2>1. setUp BY <1>5 DEF TimerFires, ReadingsHeld
  <2>. QED BY <1>1, <1>2, <1>5, <2>1, RefreshIInv DEF TimerFires, Runners
<1>6. CASE CoolingEnds
  <2>1. setUp BY <1>6 DEF CoolingEnds, ReadingsHeld
  <2>2. CASE Refresh("debounced", explicit, data, snapshotDue, FALSE) /\ pending' = TRUE
        BY <1>1, <1>2, <1>6, <2>1, <2>2, RefreshIInv DEF CoolingEnds, Runners
  <2>3. CASE /\ cooling' = FALSE /\ again' = FALSE
             /\ UNCHANGED <<explicit, snapshotDue, available, timer, poll, reports, catalog, pending>>
    <3>. USE <1>6, <2>3 DEF CoolingEnds
    <3>1. TypeOK' BY DEF TypeOK
    <3>2. PollsCounted' BY DEF PollsCounted, Counted, Known
    <3>3. ReadingsHeld' BY <2>1 DEF ReadingsHeld, Busy, Known
    <3>. QED BY <3>1, <3>2, <3>3
  <2>. QED BY <1>6, <2>2, <2>3 DEF CoolingEnds
<1>. QED BY <1>3, <1>4, <1>5, <1>6

\* The steps of the fetches, which touch nothing the invariant speaks of but its types.
LEMMA FetchIInv ==
    ASSUME IInv, NEW o \in Origins, FetchReplies(o)
    PROVE  IInv'
<1>. USE DEF IInv
<1>1. UNCHANGED <<data, poll, setUp, timer, cooling, available, mode, explicit,
                  snapshotDue, failed, pending, fresh, reauth, again, asking>>
      BY DEF FetchReplies, CatalogReplied, ReportReplied, ReportFailed, coreVars, haVars,
             schedVars
<1>2. fetch \in [Origins -> Fetches] /\ NoFetch \in Fetches
      BY DEF TypeOK, NoFetch, Fetches
<1>3. catalog' \in BOOLEAN /\ reports' \subseteq Meters /\ fetch' \in [Origins -> Fetches]
  <2>1. CASE CatalogReplied(o)
    <3>1. [fetch EXCEPT ![o] = NoFetch] \in [Origins -> Fetches] BY <1>2
    <3>2. Fetching([fetch EXCEPT ![o] = NoFetch], o, TRUE) \in [Origins -> Fetches]
          BY <3>1, FetchTypes
    <3>. QED BY <2>1, <3>2 DEF CatalogReplied, TypeOK
  <2>2. ASSUME NEW m \in Meters, ReportReplied(o, m) PROVE catalog' \in BOOLEAN /\ reports' \subseteq Meters /\ fetch' \in [Origins -> Fetches]
    <3>1. fetch[o] \in Fetches BY <1>2
    <3>2. Without(fetch[o], m) \in Fetches BY <1>2, <3>1 DEF Fetches, Without
    <3>3. fetch' = [fetch EXCEPT ![o] = Without(fetch[o], m)] BY <2>2 DEF ReportReplied
    <3>. QED BY <1>2, <2>2, <3>2, <3>3 DEF ReportReplied, TypeOK
  <2>3. CASE ReportFailed(o) BY <1>2, <2>3 DEF ReportFailed, TypeOK, coreVars
  <2>. QED BY <2>1, <2>2, <2>3 DEF FetchReplies
<1>4. TypeOK' BY <1>1, <1>3 DEF TypeOK
<1>5. PollsCounted' BY <1>1 DEF PollsCounted, Counted, Known
<1>6. ReadingsHeld' BY <1>1 DEF ReadingsHeld, Busy, Known
<1>. QED BY <1>4, <1>5, <1>6
\* The frames of the push channel, and the silence after them.
LEMMA FrameIInv ==
    ASSUME IInv, Frames \/ PushSilence
    PROVE  IInv'
<1>. USE DEF IInv
<1>1. /\ FetchOnce(fetch, pending, catalog) \in [Origins -> Fetches]
      /\ explicit \in BOOLEAN /\ mode \in {"cooperative", "exclusive"}
      /\ reauth \in BOOLEAN /\ asking \in BOOLEAN /\ fetch \in [Origins -> Fetches]
      /\ pending \in BOOLEAN /\ catalog \in BOOLEAN
  <2>1. "once" \in Origins BY DEF Origins
  <2>. QED BY <2>1, FetchTypes DEF TypeOK
<1>2. ASSUME NEW d \in Devices, NEW v \in Values, data[d] # NoReading
      PROVE  /\ [data EXCEPT ![d] = v] \in Snapshots /\ Known([data EXCEPT ![d] = v])
             /\ setUp
  <2>1. data \in Snapshots /\ v \in Reading /\ v # NoReading
        BY ValueAssumption DEF TypeOK, Reading
  <2>2. setUp BY <1>2 DEF ReadingsHeld, Nothing
  <2>. QED BY <2>1, <2>2 DEF Snapshots, Known
<1>3. ASSUME Heartbeat \/ PushSilence PROVE IInv'
  <2>. USE DEF haVars, schedVars, taskVars
  <2>0. /\ fresh' \in BOOLEAN
        /\ UNCHANGED <<mode, data, explicit, snapshotDue, failed, pending, catalog, reports,
                       haVars, taskVars>>
        BY <1>3 DEF Heartbeat, PushSilence
  <2>. USE <2>0
  <2>1. TypeOK' BY DEF TypeOK
  <2>2. PollsCounted' BY DEF PollsCounted, Counted, Known
  <2>3. ReadingsHeld' BY DEF ReadingsHeld, Busy, Known
  <2>. QED BY <2>1, <2>2, <2>3
<1>4. ASSUME NEW d \in Devices, EmptyFrame(d) PROVE IInv'
  <2>. USE <1>4 DEF EmptyFrame, haVars, schedVars
  <2>1. TypeOK' BY <1>1 DEF TypeOK
  <2>2. PollsCounted' BY DEF PollsCounted, Counted, Known
  <2>3. ReadingsHeld' BY DEF ReadingsHeld, Busy, Known
  <2>. QED BY <2>1, <2>2, <2>3
<1>5. ASSUME NEW d \in Devices, NEW v \in Values, StatusFrame(d, v) PROVE IInv'
  <2>1. /\ [data EXCEPT ![d] = v] \in Snapshots /\ Known([data EXCEPT ![d] = v]) /\ setUp
        BY <1>2, <1>5 DEF StatusFrame
  <2>. USE <1>5 DEF StatusFrame, SetUpdated
  <2>2. TypeOK' BY <1>1, <2>1 DEF TypeOK
  <2>3. PollsCounted' BY DEF PollsCounted, Counted, Known
  <2>4. ReadingsHeld' BY <2>1 DEF ReadingsHeld, Busy, Known
  <2>. QED BY <2>2, <2>3, <2>4
<1>6. ASSUME NEW d \in Devices, NEW v \in Values, FinalFrame(d, v) PROVE IInv'
  <2>. DEFINE cur == [data EXCEPT ![d] = v]
              Figures(f, known) ==
                  IF mode = "exclusive" THEN Fetching(f, "trigger", known) ELSE f
  <2>1. cur \in Snapshots /\ Known(cur) /\ setUp BY <1>2, <1>6 DEF FinalFrame
  <2>2. /\ FetchOnce(Figures(fetch, catalog), pending, catalog) \in [Origins -> Fetches]
        /\ FetchOnce(Figures(fetch, FALSE), TRUE, FALSE) \in [Origins -> Fetches]
    <3>1. ASSUME NEW known \in BOOLEAN PROVE Figures(fetch, known) \in [Origins -> Fetches]
          BY <1>1, FetchTypes DEF Origins
    <3>. HIDE DEF Figures
    <3>2. Figures(fetch, catalog) \in [Origins -> Fetches] BY <1>1, <3>1
    <3>3. Figures(fetch, FALSE) \in [Origins -> Fetches] BY <3>1
    <3>. QED BY <1>1, <3>2, <3>3, FetchTypes DEF Origins
  <2>3. CASE /\ SetUpdated(cur) /\ snapshotDue' = TRUE
             /\ fetch' = FetchOnce(Figures(fetch, catalog), pending, catalog)
             /\ UNCHANGED <<explicit, catalog, reports, poll>>
    <3>0. fetch' \in [Origins -> Fetches] BY <2>2, <2>3
    <3>. USE <1>6, <2>3 DEF FinalFrame, SetUpdated
    <3>1. TypeOK' BY <1>1, <2>1, <3>0 DEF TypeOK
    <3>2. PollsCounted' BY DEF PollsCounted, Counted, Known
    <3>3. ReadingsHeld' BY <2>1 DEF ReadingsHeld, Busy, Known
    <3>. QED BY <3>1, <3>2, <3>3
  <2>4. CASE /\ data' = cur /\ Refresh("debounced", explicit, cur, TRUE, TRUE)
             /\ fetch' = FetchOnce(Figures(fetch, FALSE), TRUE, FALSE)
    <3>1. fetch' \in [Origins -> Fetches] BY <2>2, <2>4
    <3>2. /\ pending' = FALSE /\ fresh' = TRUE
          /\ UNCHANGED <<mode, failed, setUp, reauth, asking>>
          BY <1>6 DEF FinalFrame
    <3>. HIDE DEF cur
    <3>. QED BY <1>1, <2>1, <2>4, <3>1, <3>2, RefreshIInv DEF Runners
  <2>. QED BY <1>6, <2>3, <2>4 DEF FinalFrame
<1>. QED BY <1>3, <1>4, <1>5, <1>6 DEF Frames

\* What a person does.
LEMMA UserIInv ==
    ASSUME IInv, UserSteps
    PROVE  IInv'
<1>. USE DEF IInv
<1>1. /\ explicit \in BOOLEAN /\ snapshotDue \in BOOLEAN /\ data \in Snapshots
      /\ mode \in {"cooperative", "exclusive"} /\ fresh \in BOOLEAN /\ reauth \in BOOLEAN
      /\ asking \in BOOLEAN /\ fetch \in [Origins -> Fetches] /\ setUp \in BOOLEAN
      /\ Fetching(fetch, "user", catalog) \in [Origins -> Fetches]
      BY FetchTypes DEF TypeOK, Origins
<1>2. setUp => Known(data) BY DEF ReadingsHeld
<1>3. ASSUME NEW a \in BOOLEAN, RequestRefresh(a), setUp,
             data' = data, setUp' = setUp, mode' \in {"cooperative", "exclusive"},
             failed' = failed, fresh' = fresh, reauth' = reauth, asking' \in BOOLEAN,
             Deferred => asking' = asking, fetch' \in [Origins -> Fetches]
      PROVE  IInv'
  <2>1. CASE Defer(a) BY <1>3, <2>1, DeferIInv DEF Defer
  <2>2. CASE /\ Refresh("debounced", explicit \/ a, data, snapshotDue, FALSE)
             /\ pending' = TRUE
        BY <1>1, <1>2, <1>3, <2>2, RefreshIInv DEF Runners
  <2>. QED BY <1>3, <2>1, <2>2 DEF RequestRefresh
<1>4. CASE AskRefresh \/ TakeOver
      BY <1>1, <1>3, <1>4 DEF AskRefresh, TakeOver, RefreshNow
<1>5. CASE ReadBack BY <1>1, <1>3, <1>5 DEF ReadBack
<1>6. CASE StepBack
  <2>. USE <1>6 DEF StepBack, haVars, schedVars, taskVars
  <2>1. TypeOK' BY DEF TypeOK
  <2>2. PollsCounted' BY DEF PollsCounted, Counted, Known
  <2>3. ReadingsHeld' BY DEF ReadingsHeld, Busy, Known
  <2>. QED BY <2>1, <2>2, <2>3
<1>7. CASE Reload BY <1>7, DiscardIInv DEF Reload
<1>8. ASSUME NEW d \in Devices, NEW v \in Values, CommandReplied(d, v) PROVE IInv'
  <2>1. data[d] # NoReading BY <1>8 DEF CommandReplied
  <2>2. setUp BY <2>1 DEF ReadingsHeld, Nothing
  <2>3. v \in Reading /\ v # NoReading BY ValueAssumption DEF Reading
  <2>4. [data EXCEPT ![d] = v] \in Snapshots /\ Known([data EXCEPT ![d] = v])
        BY <1>1, <2>3 DEF Snapshots, Known
  <2>. USE <1>8 DEF CommandReplied, SetUpdated, taskVars
  <2>5. TypeOK' BY <2>4 DEF TypeOK
  <2>6. PollsCounted' BY DEF PollsCounted, Counted, Known
  <2>7. ReadingsHeld' BY <2>2, <2>4 DEF ReadingsHeld, Busy, Known
  <2>. QED BY <2>5, <2>6, <2>7
<1>. QED BY <1>4, <1>5, <1>6, <1>7, <1>8 DEF UserSteps

LEMMA NextIInv == IInv /\ [Next]_vars => IInv'
<1>. SUFFICES ASSUME IInv, [Next]_vars PROVE IInv' OBVIOUS
<1>1. CASE Next
      BY <1>1, StartIInv, ReplyIInv, FetchIInv, FrameIInv, UserIInv DEF Next
<1>2. CASE UNCHANGED vars
  <2>. USE <1>2 DEF IInv, vars, coreVars, haVars, schedVars, taskVars
  <2>1. TypeOK' BY DEF TypeOK
  <2>2. PollsCounted' BY DEF PollsCounted, Counted, Known
  <2>3. ReadingsHeld' BY DEF ReadingsHeld, Busy, Known
  <2>. QED BY <2>1, <2>2, <2>3
<1>. QED BY <1>1, <1>2

\* Every variable keeps its type.
THEOREM TypeCorrect == Spec => []TypeOK
<1>1. IInv => TypeOK BY DEF IInv
<1>. QED BY <1>1, InitIInv, NextIInv, PTL DEF Spec

\* A loaded entry and its polls never lose all their readings, so that cooperative mode
\* polls without being asked at start-up and never again (_async_update_data).
THEOREM ReadingsStay == Spec => []ReadingsHeld
<1>1. IInv => ReadingsHeld BY DEF IInv
<1>. QED BY <1>1, InitIInv, NextIInv, PTL DEF Spec
-----------------------------------------------------------------------------
(* The refresh cycle and the availability of the entities, on top of IInv.  *)

\* A refresh arms the timer or leaves a poll running, and takes entities away from no one.
LEMMA RefreshGoesOn ==
    ASSUME IInv, NEW k \in Runners, NEW asked, NEW cur, NEW due, NEW pushed \in BOOLEAN,
           Refresh(k, asked, cur, due, pushed)
    PROVE  (timer' \/ Running') /\ (available => available')
<1>1. CASE Skips(asked, cur, due, pushed) BY <1>1 DEF Refresh
<1>2. CASE ~Skips(asked, cur, due, pushed)
  <2>1. PICK p \in {Querying(cur), Extending} : poll' = [poll EXCEPT ![k] = p]
        BY <1>2 DEF Refresh, Ask
  <2>2. p.at # "idle" BY DEF Querying, Extending, Resting
  <2>3. poll'[k].at # "idle" BY <2>1, <2>2 DEF IInv, TypeOK
  <2>. QED BY <1>2, <2>3 DEF Refresh, Running, Busy
<1>. QED BY <1>1, <1>2

\* Every step that changes what the two properties speak of, other than by ending a poll,
\* arms the timer, begins a poll, or keeps both.
LEMMA CycleGoesOn ==
    ASSUME IInv, HeartbeatAlive, GoneMeansGone,
           \/ FirstRefresh \/ SetupRejected \/ TimerFires \/ CoolingEnds
           \/ \E o \in Origins : FetchReplies(o)
           \/ Frames \/ PushSilence
           \/ UserSteps
    PROVE  HeartbeatAlive' /\ GoneMeansGone'
<1>. USE DEF HeartbeatAlive, GoneMeansGone
<1>1. ASSUME setUp' = setUp, reauth' = reauth, failed' = failed,
             timer' \/ Running', available => available'
      PROVE  HeartbeatAlive' /\ GoneMeansGone'
      BY <1>1
<1>2. ASSUME UNCHANGED <<setUp, reauth, failed, poll>>, timer => timer', available => available'
      PROVE  HeartbeatAlive' /\ GoneMeansGone'
      BY <1>2 DEF Running, Busy
<1>3. ASSUME NEW a \in BOOLEAN, RequestRefresh(a), UNCHANGED <<setUp, reauth, failed>>
      PROVE  HeartbeatAlive' /\ GoneMeansGone'
  <2>1. CASE Defer(a) BY <1>2, <1>3, <2>1 DEF Defer
  <2>2. CASE Refresh("debounced", explicit \/ a, data, snapshotDue, FALSE)
        BY <1>1, <1>3, <2>2, RefreshGoesOn DEF Runners
  <2>. QED BY <1>3, <2>1, <2>2 DEF RequestRefresh
<1>4. CASE FirstRefresh \/ TimerFires
  <2>1. /\ Refresh("scheduled", explicit, data, snapshotDue, FALSE)
        /\ UNCHANGED <<setUp, reauth, failed>>
        BY <1>4 DEF FirstRefresh, TimerFires
  <2>2. (timer' \/ Running') /\ (available => available')
        BY <2>1, RefreshGoesOn DEF Runners
  <2>. QED BY <1>1, <2>1, <2>2
<1>5. CASE SetupRejected BY <1>5 DEF SetupRejected
<1>6. CASE CoolingEnds
  <2>1. UNCHANGED <<setUp, reauth, failed>> BY <1>6 DEF CoolingEnds
  <2>2. CASE Refresh("debounced", explicit, data, snapshotDue, FALSE)
    <3>1. (timer' \/ Running') /\ (available => available')
          BY <2>2, RefreshGoesOn DEF Runners
    <3>. QED BY <1>1, <2>1, <3>1
  <2>3. CASE UNCHANGED <<available, timer, poll>> BY <1>2, <2>1, <2>3
  <2>. QED BY <1>6, <2>2, <2>3 DEF CoolingEnds
<1>7. CASE \E o \in Origins : FetchReplies(o)
  <2>1. UNCHANGED <<setUp, reauth, failed, poll, timer, available>>
        BY <1>7 DEF FetchReplies, CatalogReplied, ReportReplied, ReportFailed, coreVars,
                    haVars, schedVars
  <2>. QED BY <1>2, <2>1
<1>8. CASE Frames \/ PushSilence
  <2>. USE <1>8 DEF haVars, schedVars, taskVars
  <2>1. CASE Heartbeat \/ PushSilence \/ \E d \in Devices : EmptyFrame(d)
        BY <1>2, <2>1 DEF Heartbeat, PushSilence, EmptyFrame
  <2>2. ASSUME NEW d \in Devices, NEW v \in Values, StatusFrame(d, v)
        PROVE  HeartbeatAlive' /\ GoneMeansGone'
        BY <1>2, <2>2 DEF StatusFrame, SetUpdated
  <2>3. ASSUME NEW d \in Devices, NEW v \in Values, FinalFrame(d, v)
        PROVE  HeartbeatAlive' /\ GoneMeansGone'
    <3>1. UNCHANGED <<failed, setUp, reauth>> BY <2>3 DEF FinalFrame
    <3>2. CASE \E cur : SetUpdated(cur)
          BY <1>1, <3>1, <3>2 DEF SetUpdated
    <3>3. CASE \E cur : Refresh("debounced", explicit, cur, TRUE, TRUE)
          BY <1>1, <3>1, <3>3, RefreshGoesOn DEF Runners
    <3>. QED BY <2>3, <3>2, <3>3 DEF FinalFrame
  <2>. QED BY <2>1, <2>2, <2>3 DEF Frames
<1>9. CASE UserSteps
  <2>. USE <1>9 DEF haVars, schedVars, taskVars
  <2>1. CASE AskRefresh \/ TakeOver
        BY <1>3, <2>1 DEF AskRefresh, TakeOver, RefreshNow
  <2>2. CASE StepBack BY <1>2, <2>2 DEF StepBack
  <2>3. CASE ReadBack BY <1>3, <2>3 DEF ReadBack
  <2>4. CASE Reload BY <2>4 DEF Reload, Discard
  <2>5. ASSUME NEW d \in Devices, NEW v \in Values, CommandReplied(d, v)
        PROVE  HeartbeatAlive' /\ GoneMeansGone'
        BY <1>2, <2>5 DEF CommandReplied, SetUpdated
  <2>. QED BY <2>1, <2>2, <2>3, <2>4, <2>5 DEF UserSteps
<1>. QED BY <1>4, <1>5, <1>6, <1>7, <1>8, <1>9

\* The end of a poll arms the timer, and makes entities unavailable only past the grace:
\* the second way to fail, having no reading at all, is ruled out by IInv.
LEMMA ConcludeGoesOn ==
    ASSUME IInv, GoneMeansGone, NEW k \in Runners, NEW p, setUp => Known(p.states),
           Conclude(k, p)
    PROVE  HeartbeatAlive' /\ GoneMeansGone'
<1>. USE DEF HeartbeatAlive, GoneMeansGone
<1>1. CASE PollSucceeds(k, p.states) BY <1>1 DEF PollSucceeds
<1>2. CASE PollBorne(k, p.states) BY <1>2 DEF PollBorne
<1>3. CASE PollFails(k, p.states) /\ setUp
  <2>1. ~(CountFailure <= Grace) BY <1>3 DEF PollFails, Borne
  <2>2. CountFailure \in Nat /\ Grace \in Nat
        BY GraceAssumption DEF IInv, TypeOK, CountFailure, FailedCap
  <2>3. CountFailure > Grace BY <2>1, <2>2
  <2>. QED BY <1>3, <2>3 DEF PollFails
<1>4. CASE PollFails(k, p.states) /\ ~setUp BY <1>4 DEF PollFails, Discard
<1>. QED BY <1>1, <1>2, <1>3, <1>4 DEF Conclude

LEMMA ReplyGoesOn ==
    ASSUME IInv, HeartbeatAlive, GoneMeansGone, NEW k \in Runners, Replies(k)
    PROVE  HeartbeatAlive' /\ GoneMeansGone'
<1>. USE DEF HeartbeatAlive, GoneMeansGone
<1>1. ASSUME NEW p, p.at = "query", poll' = [poll EXCEPT ![k] = p],
             UNCHANGED <<coreVars, haVars>>
      PROVE  HeartbeatAlive' /\ GoneMeansGone'
  <2>1. poll'[k].at # "idle" BY <1>1 DEF IInv, TypeOK
  <2>. QED BY <1>1, <2>1 DEF Running, Busy, coreVars, haVars
<1>2. ASSUME NEW d \in Devices, NEW p, p.at = "query", setUp => Known(p.states),
             Advance(k, d, p)
      PROVE  HeartbeatAlive' /\ GoneMeansGone'
      BY <1>1, <1>2, ConcludeGoesOn DEF Advance, QueryNext
<1>3. CASE ExtendReplied(k)
  <2>1. Querying(data).at = "query" BY DEF Querying
  <2>. QED BY <1>1, <1>3, <2>1 DEF ExtendReplied
<1>4. ASSUME NEW d \in Devices, NEW v \in Values, QueryAnswered(k, d, v)
      PROVE  HeartbeatAlive' /\ GoneMeansGone'
      BY <1>2, <1>4, PollProgress DEF QueryAnswered, IInv
<1>5. ASSUME NEW d \in Devices, QueryFailed(k, d)
      PROVE  HeartbeatAlive' /\ GoneMeansGone'
  <2>. DEFINE q == [poll[k] EXCEPT !.left = @ \ {d}, !.errors = @ + 1]
  <2>1. Awaits(k, d) /\ poll[k].at = "query" /\ Advance(k, d, q)
        BY <1>5 DEF QueryFailed, Awaits
  <2>2. q.at = "query" /\ q.states = poll[k].states
        BY <2>1, FailureProgress DEF IInv
  <2>3. setUp => Known(q.states) BY <2>1, <2>2 DEF IInv, ReadingsHeld
  <2>. HIDE DEF q
  <2>. QED BY <1>2, <2>1, <2>2, <2>3
<1>6. ASSUME NEW d \in Devices, PollStopped(k, d)
      PROVE  HeartbeatAlive' /\ GoneMeansGone'
  <2>. DEFINE q == [poll[k] EXCEPT !.left = {}, !.errors = Cardinality(Devices)]
  <2>1. Awaits(k, d) /\ poll[k].at = "query" /\ Conclude(k, q)
        BY <1>6 DEF PollStopped, Awaits
  <2>2. poll[k] \in Polls BY DEF IInv, TypeOK
  <2>3. q.states = poll[k].states BY <2>2 DEF Polls
  <2>4. setUp => Known(q.states) BY <2>1, <2>3 DEF IInv, ReadingsHeld
  <2>. HIDE DEF q
  <2>. QED BY <2>1, <2>4, ConcludeGoesOn
<1>7. ASSUME NEW d \in Devices, PollRejected(k, d)
      PROVE  HeartbeatAlive' /\ GoneMeansGone'
      BY <1>7 DEF PollRejected
<1>. QED BY <1>3, <1>4, <1>5, <1>6, <1>7 DEF Replies

LEMMA NextGoesOn ==
    IInv /\ HeartbeatAlive /\ GoneMeansGone /\ [Next]_vars => HeartbeatAlive' /\ GoneMeansGone'
<1>1. ASSUME IInv, HeartbeatAlive, GoneMeansGone, Next
      PROVE  HeartbeatAlive' /\ GoneMeansGone'
      BY <1>1, CycleGoesOn, ReplyGoesOn DEF Next
<1>2. ASSUME HeartbeatAlive, GoneMeansGone, UNCHANGED vars
      PROVE  HeartbeatAlive' /\ GoneMeansGone'
      BY <1>2 DEF HeartbeatAlive, GoneMeansGone, Running, Busy, vars, coreVars, haVars,
                  schedVars, taskVars
<1>. QED BY <1>1, <1>2

\* The refresh cycle of a loaded entry cannot die out: a refresh is armed or a poll is
\* running that will arm one, unless re-authentication was started.
THEOREM CycleSurvives == Spec => []HeartbeatAlive
<1>1. Init => HeartbeatAlive /\ GoneMeansGone
      BY DEF Init, Fresh, HeartbeatAlive, GoneMeansGone
<1>. QED BY <1>1, InitIInv, NextIInv, NextGoesOn, PTL DEF Spec

\* Entities become unavailable only in a real outage: more than POLL_FAILURE_GRACE cycles
\* failed in a row for every appliance.
THEOREM OnlyOutagesShow == Spec => []GoneMeansGone
<1>1. Init => HeartbeatAlive /\ GoneMeansGone
      BY DEF Init, Fresh, HeartbeatAlive, GoneMeansGone
<1>. QED BY <1>1, InitIInv, NextIInv, NextGoesOn, PTL DEF Spec

-----------------------------------------------------------------------------
\* A request or a snapshot owed ends with a poll that begins or with the coordinator.
Spent ==
    /\ explicit /\ ~explicit' => Begins \/ ~setUp'
    /\ snapshotDue /\ ~snapshotDue' => Begins \/ ~setUp'

LEMMA KeptIsSpent ==
    ASSUME IInv, explicit' = explicit, snapshotDue' = snapshotDue
    PROVE  Spent
BY DEF Spent

\* A refresh that is not skipped begins a poll; one that is found nobody asking and leaves
\* the snapshot owed.
LEMMA RefreshSpends ==
    ASSUME IInv, NEW k \in Runners, ~Busy(k), NEW a, NEW cur, NEW due, NEW pushed,
           Refresh(k, a, cur, due, pushed), explicit => a, snapshotDue => due
    PROVE  Spent
<1>1. CASE Skips(a, cur, due, pushed) BY <1>1 DEF Skips, Refresh, Spent
<1>2. CASE ~Skips(a, cur, due, pushed)
  <2>1. Ask(k, a, cur) BY <1>2 DEF Refresh
  <2>2. poll \in [Runners -> Polls] BY DEF IInv, TypeOK
  <2>3. poll'[k].at # "idle" BY <2>1, <2>2 DEF Ask, Querying, Extending, Resting
  <2>. QED BY <2>3 DEF Busy, Begins, Spent
<1>. QED BY <1>1, <1>2

LEMMA RequestSpends ==
    ASSUME IInv, NEW a \in BOOLEAN, RequestRefresh(a)
    PROVE  Spent
<1>1. CASE Defer(a)
  <2>1. explicit' = (explicit \/ a) /\ snapshotDue' = snapshotDue
        BY <1>1 DEF Defer, IInv, TypeOK
  <2>. QED BY <2>1 DEF Spent
<1>2. CASE ~Deferred /\ Refresh("debounced", explicit \/ a, data, snapshotDue, FALSE)
      BY <1>2, RefreshSpends DEF Deferred, Runners
<1>. QED BY <1>1, <1>2 DEF RequestRefresh

LEMMA CycleSpends ==
    ASSUME IInv, FirstRefresh \/ SetupRejected \/ TimerFires \/ CoolingEnds \/ Frames \/ PushSilence
                 \/ UserSteps
    PROVE  Spent
<1>1. CASE FirstRefresh \/ TimerFires
      BY <1>1, RefreshSpends DEF FirstRefresh, TimerFires, Runners
<1>2. CASE SetupRejected \/ PushSilence
      BY <1>2, KeptIsSpent DEF SetupRejected, PushSilence, coreVars
<1>3. CASE CoolingEnds
  <2>1. CASE Refresh("debounced", explicit, data, snapshotDue, FALSE) /\ ~Busy("debounced")
        BY <2>1, RefreshSpends DEF Runners
  <2>. QED BY <1>3, <2>1, KeptIsSpent DEF CoolingEnds
<1>4. CASE Heartbeat \/ \E d \in Devices : EmptyFrame(d)
      BY <1>4, KeptIsSpent DEF Heartbeat, EmptyFrame
<1>5. ASSUME NEW d \in Devices, NEW v \in Values, StatusFrame(d, v) \/ CommandReplied(d, v)
      PROVE  Spent
      BY <1>5, KeptIsSpent DEF StatusFrame, CommandReplied
<1>6. ASSUME NEW d \in Devices, NEW v \in Values, FinalFrame(d, v) PROVE Spent
  <2>. DEFINE cur == [data EXCEPT ![d] = v]
  <2>1. CASE ~Busy("debounced") /\ Refresh("debounced", explicit, cur, TRUE, TRUE)
    <3>. HIDE DEF cur
    <3>. QED BY <2>1, RefreshSpends DEF Runners
  <2>2. CASE explicit' = explicit /\ snapshotDue' = TRUE BY <2>2 DEF Spent
  <2>. QED BY <1>6, <2>1, <2>2 DEF FinalFrame
<1>7. CASE AskRefresh \/ TakeOver
      BY <1>7, RequestSpends DEF AskRefresh, TakeOver, RefreshNow
<1>8. CASE ReadBack BY <1>8, RequestSpends DEF ReadBack
<1>9. CASE StepBack BY <1>9, KeptIsSpent DEF StepBack
<1>10. CASE Reload BY <1>10 DEF Reload, Discard, Spent
<1>. QED BY <1>1, <1>2, <1>3, <1>4, <1>5, <1>6, <1>7, <1>8, <1>9, <1>10 DEF Frames, UserSteps

LEMMA ReplySpends ==
    ASSUME IInv, NEW k \in Runners, Replies(k)
    PROVE  Spent
<1>1. ASSUME NEW p, Conclude(k, p) PROVE Spent
      BY <1>1, KeptIsSpent
      DEF Conclude, PollSucceeds, PollBorne, PollFails, Discard, Spent
<1>2. ASSUME NEW d \in Devices, NEW p, Advance(k, d, p) PROVE Spent
      BY <1>1, <1>2, KeptIsSpent DEF Advance, QueryNext, coreVars
<1>3. CASE ExtendReplied(k) BY <1>3, KeptIsSpent DEF ExtendReplied, coreVars
<1>4. ASSUME NEW d \in Devices, NEW v \in Values, QueryAnswered(k, d, v) PROVE Spent
      BY <1>2, <1>4 DEF QueryAnswered
<1>5. ASSUME NEW d \in Devices, QueryFailed(k, d) PROVE Spent
      BY <1>2, <1>5 DEF QueryFailed
<1>6. ASSUME NEW d \in Devices, PollStopped(k, d) PROVE Spent
      BY <1>1, <1>6 DEF PollStopped
<1>7. ASSUME NEW d \in Devices, PollRejected(k, d) PROVE Spent
      BY <1>7, KeptIsSpent DEF PollRejected, Discard, coreVars, Spent
<1>. QED BY <1>3, <1>4, <1>5, <1>6, <1>7 DEF Replies

LEMMA NextSpends == IInv /\ [Next]_vars => [Spent]_vars
<1>1. ASSUME IInv, NEW o \in Origins, FetchReplies(o) PROVE Spent
      BY <1>1, KeptIsSpent DEF FetchReplies, CatalogReplied, ReportReplied, ReportFailed, coreVars
<1>2. ASSUME IInv, Next PROVE Spent
      BY <1>1, <1>2, CycleSpends, ReplySpends DEF Next
<1>. QED BY <1>2

\* The safety half of AskServed and SnapshotTaken, for any number of appliances: what a
\* person asked for, and the snapshot of a finished cycle, are settled only by a poll that
\* begins, never by one that was already under way nor by a refresh that is skipped.
THEOREM LatchesSpent == Spec => AskTaken /\ SnapshotStarted
<1>1. [Spent]_vars => /\ [explicit /\ ~explicit' => Begins \/ ~setUp']_vars
                      /\ [snapshotDue /\ ~snapshotDue' => Begins \/ ~setUp']_vars
      BY DEF Spent
<1>. QED BY <1>1, InitIInv, NextIInv, NextSpends, PTL DEF Spec, AskTaken, SnapshotStarted
=============================================================================
