---------------------- MODULE CoordinatorHistory_proofs ----------------------
(***************************************************************************)
(* For every set of appliances, readings and figures and every grace, a    *)
(* poll is made only if somebody is entitled to it.  The invariant: a      *)
(* latched request was a person's, and a snapshot owed is that of a cycle  *)
(* that finished, since the last poll began.                               *)
(***************************************************************************)
EXTENDS CoordinatorHistory, Coordinator_proofs

Backed ==
    /\ (explicit => asked) /\ (snapshotDue => finished)
    /\ asked \/ finished => setUp

HInv == IInv /\ Backed /\ asked \in BOOLEAN /\ finished \in BOOLEAN

Owed ==
    PollBegins /\ Known(data) =>
        \/ asked \/ PersonAsks
        \/ mode = "exclusive" /\ (~fresh \/ finished \/ CycleEnds)

-----------------------------------------------------------------------------
\* A step that begins no poll and latches nothing new keeps what backs the latches.
LEMMA QuietStep ==
    ASSUME HInv, ObserveAsked, ObserveFinished,
           \A k \in Runners : poll'[k].at # "idle" => poll[k].at # "idle",
           \/ /\ setUp' = setUp \/ setUp'
              /\ explicit' = explicit \/ (setUp /\ PersonAsks)
              /\ snapshotDue' = snapshotDue \/ (setUp /\ CycleEnds)
           \/ ~explicit' /\ ~snapshotDue'
    PROVE  Owed /\ Backed'
<1>1. ~PollBegins BY DEF PollBegins, Busy
<1>2. Owed BY <1>1 DEF Owed
<1>3. /\ asked' <=> setUp' /\ (asked \/ PersonAsks)
      /\ finished' <=> setUp' /\ (finished \/ CycleEnds)
      BY <1>1 DEF ObserveAsked, ObserveFinished
<1>4. (asked' \/ finished') => setUp' BY <1>3
<1>5. CASE ~explicit' /\ ~snapshotDue' BY <1>2, <1>4, <1>5 DEF Backed
<1>6. CASE /\ setUp' = setUp \/ setUp'
           /\ explicit' = explicit \/ (setUp /\ PersonAsks)
           /\ snapshotDue' = snapshotDue \/ (setUp /\ CycleEnds)
  <2>1. explicit' => asked'
    <3>1. explicit' => setUp /\ (asked \/ PersonAsks) BY <1>6 DEF HInv, Backed
    <3>2. setUp => setUp' BY <1>6
    <3>. QED BY <1>3, <3>1, <3>2
  <2>2. snapshotDue' => finished'
    <3>1. snapshotDue' => setUp /\ (finished \/ CycleEnds) BY <1>6 DEF HInv, Backed
    <3>2. setUp => setUp' BY <1>6
    <3>. QED BY <1>3, <3>1, <3>2
  <2>. QED BY <1>2, <1>4, <2>1, <2>2 DEF Backed
<1>. QED BY <1>5, <1>6

\* A refresh spends what is latched, or skips and keeps the snapshot owed.
LEMMA RefreshStep ==
    ASSUME HInv, ObserveAsked, ObserveFinished,
           NEW k \in Runners, NEW a \in BOOLEAN, NEW cur, NEW due \in BOOLEAN,
           NEW pushed \in BOOLEAN, Refresh(k, a, cur, due, pushed),
           setUp' = setUp, Known(cur) => setUp, Known(data) => Known(cur),
           a => asked \/ PersonAsks, due => finished \/ CycleEnds
    PROVE  Owed /\ Backed'
<1>1. CASE Skips(a, cur, due, pushed)
  <2>1. setUp /\ ~explicit' /\ snapshotDue' = due /\ poll' = poll
        BY <1>1 DEF Skips, Refresh
  <2>2. ~PollBegins BY <2>1 DEF PollBegins, Busy
  <2>. QED BY <2>1, <2>2 DEF Owed, Backed, ObserveAsked, ObserveFinished
<1>2. CASE ~Skips(a, cur, due, pushed)
  <2>1. ~explicit' /\ ~snapshotDue' BY <1>2 DEF Refresh
  <2>2. mode \in {"cooperative", "exclusive"} BY DEF HInv, IInv, TypeOK
  <2>3. Owed BY <1>2, <2>2 DEF Owed, Skips
  <2>. QED BY <2>1, <2>3 DEF Backed, ObserveAsked, ObserveFinished
<1>. QED BY <1>1, <1>2

\* A request refreshes or is put off, and a person's is latched meanwhile.
LEMMA RequestStep ==
    ASSUME HInv, ObserveAsked, ObserveFinished, NEW a \in BOOLEAN, RequestRefresh(a),
           setUp, setUp' = setUp, a => PersonAsks
    PROVE  Owed /\ Backed'
<1>1. CASE Defer(a)
  <2>1. poll' = poll /\ (explicit' = explicit \/ PersonAsks) /\ snapshotDue' = snapshotDue
        BY <1>1 DEF Defer, HInv, IInv, TypeOK
  <2>. QED BY <2>1, QuietStep
<1>2. CASE Refresh("debounced", explicit \/ a, data, snapshotDue, FALSE)
  <2>1. /\ (explicit \/ a) \in BOOLEAN /\ snapshotDue \in BOOLEAN
        /\ (explicit \/ a => asked \/ PersonAsks) /\ (snapshotDue => finished \/ CycleEnds)
        BY DEF HInv, IInv, TypeOK, Backed
  <2>. QED BY <1>2, <2>1, RefreshStep DEF Runners
<1>. QED BY <1>1, <1>2 DEF RequestRefresh

LEMMA StartStep ==
    ASSUME HInv, ObserveAsked, ObserveFinished,
           FirstRefresh \/ SetupRejected \/ TimerFires \/ CoolingEnds
    PROVE  Owed /\ Backed'
<1>1. /\ explicit \in BOOLEAN /\ snapshotDue \in BOOLEAN /\ (Known(data) => setUp)
      /\ (explicit => asked \/ PersonAsks) /\ (snapshotDue => finished \/ CycleEnds)
      BY PollBeginnings DEF HInv, IInv, TypeOK, ReadingsHeld, Backed
<1>2. CASE FirstRefresh \/ TimerFires
  <2>1. Refresh("scheduled", explicit, data, snapshotDue, FALSE) /\ setUp' = setUp
        BY <1>2 DEF FirstRefresh, TimerFires
  <2>. QED BY <1>1, <2>1, RefreshStep DEF Runners
<1>3. CASE SetupRejected
  <2>1. /\ poll' = poll /\ setUp' = setUp /\ explicit' = explicit /\ snapshotDue' = snapshotDue
        BY <1>3 DEF SetupRejected, coreVars, taskVars
  <2>. QED BY <2>1, QuietStep
<1>4. CASE CoolingEnds
  <2>1. setUp /\ setUp' = setUp BY <1>4 DEF CoolingEnds, HInv, IInv, ReadingsHeld
  <2>2. CASE Refresh("debounced", explicit, data, snapshotDue, FALSE)
        BY <1>1, <2>1, <2>2, RefreshStep DEF Runners
  <2>3. CASE UNCHANGED <<explicit, snapshotDue, poll>>
        BY <2>1, <2>3, QuietStep
  <2>. QED BY <1>4, <2>2, <2>3 DEF CoolingEnds
<1>. QED BY <1>2, <1>3, <1>4

LEMMA ReplyStep ==
    ASSUME HInv, ObserveAsked, ObserveFinished, NEW k \in Runners, Replies(k)
    PROVE  Owed /\ Backed'
<1>1. poll \in [Runners -> Polls] BY DEF HInv, IInv, TypeOK
<1>2. ASSUME NEW p, p.at = "query", poll[k].at # "idle", poll' = [poll EXCEPT ![k] = p],
             UNCHANGED <<coreVars, haVars>>
      PROVE  Owed /\ Backed'
  <2>1. \A j \in Runners : poll'[j].at # "idle" => poll[j].at # "idle" BY <1>1, <1>2 DEF Busy
  <2>. QED BY <1>2, <2>1, QuietStep DEF coreVars, haVars
<1>3. ASSUME NEW f, Over(k, f), setUp' = setUp \/ setUp',
             explicit' = explicit, snapshotDue' = snapshotDue
      PROVE  Owed /\ Backed'
  <2>1. \A j \in Runners : poll'[j].at # "idle" => poll[j].at # "idle" BY <1>1, <1>3 DEF Over, Resting
  <2>. QED BY <1>3, <2>1, QuietStep
<1>4. ASSUME Discard PROVE Owed /\ Backed'
  <2>1. \A j \in Runners : poll'[j].at = "idle" BY <1>4 DEF Discard, Resting
  <2>. QED BY <1>4, <2>1, QuietStep DEF Discard
<1>5. ASSUME NEW p, Conclude(k, p) PROVE Owed /\ Backed'
  <2>1. CASE PollSucceeds(k, p.states) BY <1>3, <2>1 DEF PollSucceeds
  <2>2. CASE PollBorne(k, p.states) BY <1>3, <2>2 DEF PollBorne
  <2>3. CASE PollFails(k, p.states) BY <1>3, <1>4, <2>3 DEF PollFails
  <2>. QED BY <1>5, <2>1, <2>2, <2>3 DEF Conclude
<1>6. ASSUME NEW d \in Devices, NEW p, p.at = "query", poll[k].at # "idle", Advance(k, d, p)
      PROVE  Owed /\ Backed'
  <2>1. CASE QueryNext(k, d, p) BY <1>2, <1>6, <2>1 DEF QueryNext
  <2>2. CASE Conclude(k, p) BY <1>5, <2>2
  <2>. QED BY <1>6, <2>1, <2>2 DEF Advance
<1>7. CASE ExtendReplied(k)
  <2>1. Querying(data).at = "query" BY DEF Querying
  <2>. QED BY <1>2, <1>7, <2>1 DEF ExtendReplied
<1>8. ASSUME NEW d \in Devices, NEW v \in Values, QueryAnswered(k, d, v)
      PROVE  Owed /\ Backed'
  <2>. DEFINE q == [poll[k] EXCEPT !.left = @ \ {d}, !.states = [@ EXCEPT ![d] = v]]
  <2>1. Awaits(k, d) /\ poll[k].at = "query" /\ Advance(k, d, q)
        BY <1>8 DEF QueryAnswered, Awaits
  <2>2. q.at = "query" BY <1>1, <2>1 DEF Polls
  <2>. HIDE DEF q
  <2>. QED BY <1>6, <2>1, <2>2
<1>9. ASSUME NEW d \in Devices, QueryFailed(k, d)
      PROVE  Owed /\ Backed'
  <2>. DEFINE q == [poll[k] EXCEPT !.left = @ \ {d}, !.errors = @ + 1]
  <2>1. Awaits(k, d) /\ poll[k].at = "query" /\ Advance(k, d, q)
        BY <1>9 DEF QueryFailed, Awaits
  <2>2. q.at = "query" BY <1>1, <2>1 DEF Polls
  <2>. HIDE DEF q
  <2>. QED BY <1>6, <2>1, <2>2
<1>10. ASSUME NEW d \in Devices, PollStopped(k, d)
       PROVE  Owed /\ Backed'
       BY <1>5, <1>10 DEF PollStopped
<1>11. ASSUME NEW d \in Devices, PollRejected(k, d)
       PROVE  Owed /\ Backed'
  <2>1. CASE setUp BY <1>3, <1>11, <2>1 DEF PollRejected, coreVars
  <2>2. CASE ~setUp BY <1>4, <1>11, <2>2 DEF PollRejected
  <2>. QED BY <2>1, <2>2
<1>. QED BY <1>7, <1>8, <1>9, <1>10, <1>11 DEF Replies

\* The figures, and the frames that end no cycle.
LEMMA FrameStep ==
    ASSUME HInv, ObserveAsked, ObserveFinished,
           (\E o \in Origins : FetchReplies(o)) \/ Frames \/ PushSilence
    PROVE  Owed /\ Backed'
<1>1. ASSUME UNCHANGED <<poll, setUp, explicit, snapshotDue>>
      PROVE  Owed /\ Backed'
      BY <1>1, QuietStep
<1>2. CASE (\E o \in Origins : FetchReplies(o)) \/ PushSilence
      BY <1>1, <1>2 DEF FetchReplies, CatalogReplied, ReportReplied, ReportFailed, PushSilence,
                        coreVars, haVars, taskVars
<1>3. CASE Heartbeat BY <1>1, <1>3 DEF Heartbeat, haVars, taskVars
<1>4. ASSUME NEW d \in Devices, EmptyFrame(d) PROVE Owed /\ Backed'
      BY <1>1, <1>4 DEF EmptyFrame, haVars
<1>5. ASSUME NEW d \in Devices, NEW v \in Values, StatusFrame(d, v) PROVE Owed /\ Backed'
      BY <1>1, <1>5 DEF StatusFrame
<1>6. ASSUME NEW d \in Devices, NEW v \in Values, FinalFrame(d, v) PROVE Owed /\ Backed'
  <2>. DEFINE cur == [data EXCEPT ![d] = v]
  <2>1. CycleEnds BY <1>6 DEF CycleEnds
  <2>2. data \in Snapshots /\ explicit \in BOOLEAN BY DEF HInv, IInv, TypeOK
  <2>3. setUp BY <1>6 DEF FinalFrame, HInv, IInv, ReadingsHeld, Nothing
  <2>4. setUp' = setUp BY <1>6 DEF FinalFrame
  <2>5. Known(cur)
    <3>1. cur[d] # NoReading BY <2>2, ValueAssumption DEF Snapshots
    <3>. QED BY <3>1 DEF Known
  <2>6. CASE UNCHANGED <<explicit, poll>> BY <2>1, <2>3, <2>4, <2>6, QuietStep
  <2>. HIDE DEF cur
  <2>7. CASE Refresh("debounced", explicit, cur, TRUE, TRUE)
        BY <2>1, <2>2, <2>3, <2>4, <2>5, <2>7, RefreshStep DEF Runners, HInv, Backed
  <2>. QED BY <1>6, <2>6, <2>7 DEF FinalFrame, cur
<1>. QED BY <1>2, <1>3, <1>4, <1>5, <1>6 DEF Frames

LEMMA UserStep ==
    ASSUME HInv, ObserveAsked, ObserveFinished, UserSteps
    PROVE  Owed /\ Backed'
<1>1. CASE AskRefresh \/ TakeOver
  <2>1. RequestRefresh(TRUE) /\ setUp /\ setUp' = setUp /\ PersonAsks
        BY <1>1 DEF AskRefresh, TakeOver, RefreshNow, PersonAsks
  <2>. QED BY <2>1, RequestStep
<1>2. CASE ReadBack
  <2>1. RequestRefresh(FALSE) /\ setUp /\ setUp' = setUp BY <1>2 DEF ReadBack
  <2>. QED BY <2>1, RequestStep
<1>3. CASE StepBack BY <1>3, QuietStep DEF StepBack, haVars, taskVars
<1>4. CASE Reload
  <2>1. \A j \in Runners : poll'[j].at = "idle" BY <1>4 DEF Reload, Discard, Resting
  <2>. QED BY <1>4, <2>1, QuietStep DEF Reload, Discard
<1>5. ASSUME NEW d \in Devices, NEW v \in Values, CommandReplied(d, v)
      PROVE  Owed /\ Backed'
      BY <1>5, QuietStep DEF CommandReplied, taskVars
<1>. QED BY <1>1, <1>2, <1>3, <1>4, <1>5 DEF UserSteps

LEMMA HistoryStep ==
    HInv /\ [HistoryNext]_<<vars, historyVars>> =>
        HInv' /\ [Owed]_<<vars, historyVars>>
<1>1. ASSUME HInv, HistoryNext PROVE HInv' /\ Owed
  <2>1. Next /\ ObserveAsked /\ ObserveFinished BY <1>1 DEF HistoryNext
  <2>2. Owed /\ Backed'
        BY <1>1, <2>1, StartStep, ReplyStep, FrameStep, UserStep DEF Next
  <2>3. IInv' BY <1>1, <2>1, NextIInv DEF HInv
  <2>4. asked' \in BOOLEAN /\ finished' \in BOOLEAN BY <2>1 DEF ObserveAsked, ObserveFinished
  <2>. QED BY <2>2, <2>3, <2>4 DEF HInv
<1>2. ASSUME HInv, UNCHANGED <<vars, historyVars>> PROVE HInv'
  <2>1. IInv' BY <1>2, NextIInv DEF HInv
  <2>. QED BY <1>2, <2>1 DEF HInv, Backed, vars, coreVars, haVars, historyVars
<1>. QED BY <1>1, <1>2

\* One request buys one poll and one finished cycle one snapshot, for any number of
\* appliances, however requests are postponed, dropped or met by other polls
\* (_async_update_data, _note_snapshot_trigger).
THEOREM EachPollIsOwed == HistorySpec => PollsAreOwed
<1>1. HistoryInit => HInv
      BY InitIInv DEF HistoryInit, HInv, Backed, Init, Fresh
<1>2. [Owed]_<<vars, historyVars>> =>
          [PollBegins /\ Known(data) =>
              \/ asked \/ PersonAsks
              \/ mode = "exclusive" /\ (~fresh \/ finished \/ CycleEnds)]_<<vars, historyVars>>
      BY DEF Owed
<1>. QED BY <1>1, <1>2, HistoryStep, PTL DEF HistorySpec, PollsAreOwed
=============================================================================
