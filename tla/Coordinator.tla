----------------------------- MODULE Coordinator -----------------------------
(***************************************************************************)
(* The refresh cycle of HolabrainCoordinator (coordinator.py): polls, the  *)
(* push channel, the two account modes, the snapshot a finished cycle asks *)
(* for and the consumption figures, on top of Home Assistant's             *)
(* DataUpdateCoordinator and its Debouncer.                                *)
(*                                                                         *)
(* Each action runs from one await to the next.  Two polls may overlap:    *)
(* the scheduled one does not take the lock of the debouncer.  A reading   *)
(* is an uninterpreted value; the inventory does not change here.          *)
(* Timers carry no duration: an armed timer fires at some time.            *)
(***************************************************************************)
EXTENDS Naturals, FiniteSets

CONSTANTS
    Devices,    \* the appliances of the account, coordinator.devices
    Meters,     \* the (appliance, period) pairs there are figures for
    Values,     \* the readings an appliance may report
    NoReading,  \* a device without an entry in coordinator.data
    Grace       \* POLL_FAILURE_GRACE

ASSUME DeviceAssumption == IsFiniteSet(Devices) /\ Devices # {}
ASSUME ValueAssumption == NoReading \notin Values
ASSUME GraceAssumption == Grace \in Nat

VARIABLES
    \* the coordinator
    mode,         \* the CONF_MODE option
    data,         \* coordinator.data
    explicit,     \* _explicit_refresh
    snapshotDue,  \* _snapshot_due
    failed,       \* _failed_polls, saturating past the grace
    pending,      \* _consumption_pending
    catalog,      \* the appliance-type catalogue has been fetched
    reports,      \* the pairs _consumption holds figures for
    fresh,        \* the last push frame is younger than PUSH_SILENCE_LIMIT
    \* DataUpdateCoordinator
    setUp,        \* the first refresh has succeeded, so entities are listening
    available,    \* last_update_success
    reauth,       \* the re-authentication flow has been started
    timer,        \* the next scheduled refresh is armed
    cooling,      \* the debouncer's cooldown timer is armed
    again,        \* the debouncer runs once more when the cooldown ends
    \* tasks suspended at an await
    poll,         \* the _async_update_data in progress, by who runs it
    asking,       \* async_refresh_now waits for the poll it started
    fetch         \* async_fetch_consumption, by what started it

coreVars  == <<mode, data, explicit, snapshotDue, failed, pending, catalog, reports, fresh>>
schedVars == <<timer, cooling, again>>
haVars    == <<setUp, available, reauth, schedVars>>
taskVars  == <<poll, asking, fetch>>
vars      == <<coreVars, haVars, taskVars>>

Reading   == Values \cup {NoReading}
Snapshots == [Devices -> Reading]
Runners   == {"scheduled", "debounced"}
Origins   == {"once", "trigger", "user"}
Nothing   == [d \in Devices |-> NoReading]
Known(s)  == \E d \in Devices : s[d] # NoReading

Polls == [at : {"idle", "extend", "query"}, left : SUBSET Devices,
          states : Snapshots, errors : 0..Cardinality(Devices)]
Resting   == [at |-> "idle", left |-> {}, states |-> Nothing, errors |-> 0]
Extending == [Resting EXCEPT !.at = "extend"]
Querying(cur) == [at |-> "query", left |-> Devices, states |-> cur, errors |-> 0]

\* A consumption fetch waits for the catalogue, or for the figures of the pairs left.
Fetches == [at : {"idle", "catalog", "reports"}, left : SUBSET Meters]
NoFetch == [at |-> "idle", left |-> {}]

FailedCap == Grace + 1

TypeOK ==
    /\ mode \in {"cooperative", "exclusive"}
    /\ data \in Snapshots
    /\ explicit \in BOOLEAN /\ snapshotDue \in BOOLEAN
    /\ failed \in 0..FailedCap
    /\ pending \in BOOLEAN /\ catalog \in BOOLEAN
    /\ reports \subseteq Meters
    /\ fresh \in BOOLEAN
    /\ setUp \in BOOLEAN /\ available \in BOOLEAN /\ reauth \in BOOLEAN
    /\ timer \in BOOLEAN /\ cooling \in BOOLEAN /\ again \in BOOLEAN
    /\ poll \in [Runners -> Polls]
    /\ asking \in BOOLEAN
    /\ fetch \in [Origins -> Fetches]

\* A coordinator that has just been built; only the mode outlives it.
Fresh ==
    /\ data = Nothing
    /\ explicit = FALSE /\ snapshotDue = FALSE /\ failed = 0
    /\ pending = TRUE /\ catalog = FALSE /\ reports = {} /\ fresh = FALSE
    /\ setUp = FALSE /\ available = TRUE
    /\ timer = FALSE /\ cooling = FALSE /\ again = FALSE
    /\ poll = [k \in Runners |-> Resting]
    /\ asking = FALSE
    /\ fetch = [o \in Origins |-> NoFetch]

Init == mode \in {"cooperative", "exclusive"} /\ reauth = FALSE /\ Fresh

Busy(k) == poll[k].at # "idle"

-----------------------------------------------------------------------------
(* The consumption fetch. *)

\* async_fetch_consumption up to its first request.  A fetch of the same origin
\* that is still running stands for both.
Fetching(f, o, known) ==
    IF f[o].at # "idle" THEN f
    ELSE [f EXCEPT ![o] = CASE ~known -> [at |-> "catalog", left |-> {}]
                            [] known /\ Meters # {} -> [at |-> "reports", left |-> Meters]
                            [] OTHER -> NoFetch]

\* _async_fetch_consumption_once, on a pending flag and a catalogue as they stand
\* at that point of the handler; the flag is down afterwards.
FetchOnce(f, due, known) == IF due THEN Fetching(f, "once", known) ELSE f

-----------------------------------------------------------------------------
(* _async_update_data from its entry to its first await or its early return.
   `asked', `cur' and `due' are _explicit_refresh, the data and _snapshot_due as
   the handler left them; `pushed' says that it has just handled a push frame. *)

SkipsAlike(asked, cur, due, pushed) ==
    /\ Known(cur)
    /\ mode = "cooperative" \/ ((fresh \/ pushed) /\ ~due)

\* In cooperative mode, or while push delivers, a poll nobody asked for is skipped.
Skips(asked, cur, due, pushed) ==
    /\ ~asked
    /\ Known(cur)
    /\ mode = "cooperative" \/ ((fresh \/ pushed) /\ ~due)

\* The token is prolonged first if it is about to expire, which costs a request and
\* so is done for the user or in exclusive mode only.
Ask(k, asked, cur) ==
    \/ poll' = [poll EXCEPT ![k] = Querying(cur)]
    \/ /\ asked \/ mode = "exclusive"
       /\ poll' = [poll EXCEPT ![k] = Extending]

\* DataUpdateCoordinator._async_refresh disarms both timers, then updates: the
\* figures, the catalogue and the pending flag go back to their initial values on
\* every call, skipped or not.  A skipped update still counts as a success.
LatchingRefresh(k, asked, cur, due, pushed) ==
    /\ explicit' = asked
    /\ reports' = {} /\ catalog' = FALSE
    /\ again' = FALSE
    /\ IF Skips(asked, cur, due, pushed)
       THEN /\ snapshotDue' = due
            /\ available' = TRUE
            /\ timer' = TRUE /\ cooling' = (k = "debounced")
            /\ UNCHANGED poll
       ELSE /\ snapshotDue' = FALSE
            /\ available' = (available \/ pushed)
            /\ timer' = FALSE /\ cooling' = FALSE
            /\ Ask(k, asked, cur)

Refresh(k, asked, cur, due, pushed) ==
    /\ explicit' = FALSE
    /\ reports' = {} /\ catalog' = FALSE
    /\ again' = FALSE
    /\ IF Skips(asked, cur, due, pushed)
       THEN /\ snapshotDue' = due
            /\ available' = TRUE
            /\ timer' = TRUE /\ cooling' = (k = "debounced")
            /\ UNCHANGED poll
       ELSE /\ snapshotDue' = FALSE
            /\ available' = (available \/ pushed)
            /\ timer' = FALSE /\ cooling' = FALSE
            /\ Ask(k, asked, cur)

\* async_request_refresh while the debouncer holds it back: a cooldown postpones it,
\* a poll of the debouncer's own swallows it.
Deferred == cooling \/ Busy("debounced")

Defer(asked) ==
    /\ Deferred
    /\ explicit' = (explicit \/ asked)
    /\ again' = cooling
    /\ UNCHANGED <<snapshotDue, available, timer, cooling, poll, reports, catalog, pending>>

RequestRefresh(asked) ==
    \/ Defer(asked)
    \/ /\ ~Deferred
       /\ Refresh("debounced", explicit \/ asked, data, snapshotDue, FALSE)
       /\ pending' = TRUE

-----------------------------------------------------------------------------
(* What starts a poll. *)

\* async_config_entry_first_refresh, past _async_setup.
FirstRefresh ==
    /\ ~setUp /\ ~reauth /\ ~Busy("scheduled")
    /\ Refresh("scheduled", explicit, data, snapshotDue, FALSE)
    /\ pending' = TRUE
    /\ UNCHANGED <<mode, data, failed, fresh, setUp, reauth, asking, fetch>>

\* _async_setup, refused the inventory for the credentials.
SetupRejected ==
    /\ ~setUp /\ ~reauth /\ ~Busy("scheduled")
    /\ reauth' = TRUE
    /\ UNCHANGED <<coreVars, setUp, available, schedVars, taskVars>>

\* The scheduled refresh.  Bound: one scheduled poll at a time.
TimerFires ==
    /\ timer /\ ~Busy("scheduled")
    /\ Refresh("scheduled", explicit, data, snapshotDue, FALSE)
    /\ pending' = TRUE
    /\ UNCHANGED <<mode, data, failed, fresh, setUp, reauth, asking, fetch>>

\* The debouncer's cooldown ends, and with it the wait of a postponed request.
CoolingEnds ==
    /\ cooling
    /\ \/ /\ again /\ ~Busy("debounced")
          /\ Refresh("debounced", explicit, data, snapshotDue, FALSE)
          /\ pending' = TRUE
       \/ /\ ~again \/ Busy("debounced")
          /\ cooling' = FALSE /\ again' = FALSE
          /\ UNCHANGED <<explicit, snapshotDue, available, timer, poll, reports, catalog, pending>>
    /\ UNCHANGED <<mode, data, failed, fresh, setUp, reauth, asking, fetch>>

\* async_refresh_now: the figures are fetched once the poll it started has ended, at
\* once if it started none.
RefreshNow ==
    /\ setUp
    /\ RequestRefresh(TRUE)
    /\ IF Deferred
       THEN fetch' = Fetching(fetch, "user", catalog) /\ UNCHANGED asking
       ELSE asking' = TRUE /\ UNCHANGED fetch
    /\ UNCHANGED <<data, failed, fresh, setUp, reauth>>

AskRefresh == RefreshNow /\ UNCHANGED mode

\* async_set_mode.
TakeOver == mode = "cooperative" /\ mode' = "exclusive" /\ RefreshNow

StepBack ==
    /\ setUp /\ mode = "exclusive" /\ mode' = "cooperative"
    /\ UNCHANGED <<data, explicit, snapshotDue, failed, pending, catalog, reports,
                   fresh, haVars, taskVars>>

\* The Start button of a dishwasher or an oven, after its command went out.
ReadBack ==
    /\ setUp
    /\ RequestRefresh(FALSE)
    /\ UNCHANGED <<mode, data, failed, fresh, setUp, reauth, asking, fetch>>

-----------------------------------------------------------------------------
(* A poll in progress. *)

ExtendForgetful(k) ==
    /\ poll[k].at = "extend"
    /\ poll' = [poll EXCEPT ![k] = Querying(Nothing)]
    /\ UNCHANGED <<coreVars, haVars, asking, fetch>>

ExtendReplied(k) ==
    /\ poll[k].at = "extend"
    /\ poll' = [poll EXCEPT ![k] = Querying(data)]
    /\ UNCHANGED <<coreVars, haVars, asking, fetch>>

\* One more appliance answered, or failed for a reason of its own.
QueryNext(k, d, p) ==
    /\ p.left # {}
    /\ poll' = [poll EXCEPT ![k] = p]
    /\ UNCHANGED <<coreVars, haVars, asking, fetch>>

\* What runs when the poll of k is over: the next one is scheduled, the debouncer
\* cools down, and async_refresh_now goes on to the figures.
Over(k, f) ==
    /\ poll' = [poll EXCEPT ![k] = Resting]
    /\ cooling' = (cooling \/ k = "debounced")
    /\ asking' = (asking /\ k # "debounced")
    /\ fetch' = IF asking /\ k = "debounced" THEN Fetching(f, "user", catalog) ELSE f

PollSettles(k, states) ==
    /\ data' = states /\ available' = TRUE /\ setUp' = TRUE
    /\ failed' = 0 /\ snapshotDue' = FALSE
    /\ timer' = TRUE
    /\ pending' = FALSE
    /\ Over(k, FetchOnce(fetch, pending, catalog))
    /\ UNCHANGED <<mode, explicit, catalog, reports, fresh, reauth, again>>

\* Some appliance answered.
PollSucceeds(k, states) ==
    /\ data' = states /\ available' = TRUE /\ setUp' = TRUE
    /\ failed' = 0
    /\ timer' = TRUE
    /\ pending' = FALSE
    /\ Over(k, FetchOnce(fetch, pending, catalog))
    /\ UNCHANGED <<mode, explicit, snapshotDue, catalog, reports, fresh, reauth, again>>

CountFailure == IF failed < FailedCap THEN failed + 1 ELSE failed

\* All of them failed, which is borne a few times before entities become unavailable.
BorneOnceLess(states) == CountFailure < Grace /\ Known(states)

AlwaysBorne(states) == Known(states)

Borne(states) == CountFailure <= Grace /\ Known(states)

PollBorne(k, states) ==
    /\ Borne(states)
    /\ data' = states /\ available' = TRUE /\ setUp' = TRUE
    /\ failed' = CountFailure
    /\ timer' = TRUE
    /\ Over(k, fetch)
    /\ UNCHANGED <<mode, explicit, snapshotDue, pending, catalog, reports, fresh, reauth, again>>

\* A failing first refresh discards the coordinator; Home Assistant sets up anew.
Discard ==
    /\ data' = Nothing
    /\ explicit' = FALSE /\ snapshotDue' = FALSE /\ failed' = 0
    /\ pending' = TRUE /\ catalog' = FALSE /\ reports' = {} /\ fresh' = FALSE
    /\ setUp' = FALSE /\ available' = TRUE
    /\ timer' = FALSE /\ cooling' = FALSE /\ again' = FALSE
    /\ poll' = [k \in Runners |-> Resting]
    /\ asking' = FALSE
    /\ fetch' = [o \in Origins |-> NoFetch]
    /\ UNCHANGED mode

PollFails(k, states) ==
    /\ ~Borne(states)
    /\ \/ /\ setUp
          /\ available' = FALSE
          /\ failed' = CountFailure
          /\ timer' = TRUE
          /\ Over(k, fetch)
          /\ UNCHANGED <<mode, data, explicit, snapshotDue, pending, catalog, reports,
                         fresh, setUp, reauth, again>>
       \/ ~setUp /\ Discard /\ UNCHANGED reauth

Conclude(k, p) ==
    /\ p.left = {}
    /\ IF p.errors < Cardinality(Devices)
       THEN PollSucceeds(k, p.states)
       ELSE PollBorne(k, p.states) \/ PollFails(k, p.states)

Advance(k, d, p) == QueryNext(k, d, p) \/ Conclude(k, p)

Awaits(k, d) == poll[k].at = "query" /\ d \in poll[k].left

QueryAnswered(k, d, v) ==
    /\ Awaits(k, d)
    /\ Advance(k, d, [poll[k] EXCEPT !.left = @ \ {d}, !.states = [@ EXCEPT ![d] = v]])

QueryRetried(k, d) ==
    /\ Awaits(k, d)
    /\ QueryNext(k, d, [poll[k] EXCEPT !.errors = @ + 1])

QueryFailed(k, d) ==
    /\ Awaits(k, d)
    /\ Advance(k, d, [poll[k] EXCEPT !.left = @ \ {d}, !.errors = @ + 1])

PollAbandoned(k, d) ==
    /\ Awaits(k, d)
    /\ setUp /\ available' = FALSE
    /\ Over(k, fetch)
    /\ UNCHANGED <<coreVars, setUp, reauth, timer, again>>

\* The session is elsewhere, the renewed token was refused, or the cloud throttles the
\* account: the rest of the cycle is given up, and counts as failed altogether.
PollStopped(k, d) ==
    /\ Awaits(k, d)
    /\ Conclude(k, [poll[k] EXCEPT !.left = {}, !.errors = Cardinality(Devices)])

\* The credentials are refused: Home Assistant starts re-authentication and schedules
\* nothing.
PollRejected(k, d) ==
    /\ Awaits(k, d)
    /\ reauth' = TRUE
    /\ IF setUp
       THEN /\ available' = FALSE
            /\ Over(k, fetch)
            /\ UNCHANGED <<coreVars, setUp, timer, again>>
       ELSE Discard

-----------------------------------------------------------------------------
(* Push frames, commands, figures. *)

\* _handle_push for a heartbeat, a frame of an unknown appliance, or any frame before
\* there is data.
Heartbeat ==
    /\ ~fresh /\ fresh' = TRUE
    /\ UNCHANGED <<mode, data, explicit, snapshotDue, failed, pending, catalog, reports,
                   haVars, taskVars>>

\* _handle_push for an appliance with a reading, without a status in the frame.
EmptyFrame(d) ==
    /\ data[d] # NoReading
    /\ fresh' = TRUE
    /\ pending' = FALSE
    /\ fetch' = FetchOnce(fetch, pending, catalog)
    /\ UNCHANGED <<mode, data, explicit, snapshotDue, failed, catalog, reports, haVars,
                   poll, asking>>

\* async_set_updated_data: listeners are told, and the schedule starts over.
SetUpdated(cur) ==
    /\ data' = cur
    /\ available' = TRUE
    /\ timer' = TRUE
    /\ cooling' = FALSE /\ again' = FALSE

\* _handle_push for a frame that carries a status.
StatusFrame(d, v) ==
    /\ data[d] # NoReading
    /\ fresh' = TRUE
    /\ SetUpdated([data EXCEPT ![d] = v])
    /\ pending' = FALSE
    /\ fetch' = FetchOnce(fetch, pending, catalog)
    /\ UNCHANGED <<mode, explicit, snapshotDue, failed, catalog, reports, setUp, reauth,
                   poll, asking>>

\* _handle_push for the frame that says a cycle has finished.  The refresh it asks for
\* meets no cooldown, which the frame has just cancelled.
FinalFrame(d, v) ==
    /\ data[d] # NoReading /\ v # data[d]
    /\ fresh' = TRUE /\ pending' = FALSE
    /\ LET cur == [data EXCEPT ![d] = v]
           Figures(f, known) == IF mode = "exclusive" THEN Fetching(f, "trigger", known) ELSE f
       IN  \/ /\ Busy("debounced")
              /\ SetUpdated(cur)
              /\ snapshotDue' = TRUE
              /\ fetch' = FetchOnce(Figures(fetch, catalog), pending, catalog)
              /\ UNCHANGED <<explicit, catalog, reports, poll>>
           \/ /\ ~Busy("debounced")
              /\ data' = cur
              /\ Refresh("debounced", explicit, cur, TRUE, TRUE)
              /\ fetch' = FetchOnce(Figures(fetch, FALSE), TRUE, FALSE)
    /\ UNCHANGED <<mode, failed, setUp, reauth, asking>>

\* PUSH_SILENCE_LIMIT passes without a frame.
PushSilence ==
    /\ fresh /\ fresh' = FALSE
    /\ UNCHANGED <<mode, data, explicit, snapshotDue, failed, pending, catalog, reports,
                   haVars, taskVars>>

\* async_send_instruction, once the cloud has taken the command.
CommandReplied(d, v) ==
    /\ data[d] # NoReading
    /\ SetUpdated([data EXCEPT ![d] = v])
    /\ UNCHANGED <<mode, explicit, snapshotDue, failed, pending, catalog, reports, fresh,
                   setUp, reauth, taskVars>>

\* async_fetch_consumption, from the reply of the catalogue on.
CatalogReplied(o) ==
    /\ fetch[o].at = "catalog"
    /\ catalog' \in {catalog, TRUE}
    /\ fetch' = Fetching([fetch EXCEPT ![o] = NoFetch], o, TRUE)
    /\ UNCHANGED <<mode, data, explicit, snapshotDue, failed, pending, reports, fresh,
                   haVars, poll, asking>>

Without(f, m) == IF f.left = {m} THEN NoFetch ELSE [f EXCEPT !.left = @ \ {m}]

ReportReplied(o, m) ==
    /\ m \in fetch[o].left
    /\ reports' = reports \cup {m}
    /\ fetch' = [fetch EXCEPT ![o] = Without(@, m)]
    /\ UNCHANGED <<mode, data, explicit, snapshotDue, failed, pending, catalog, fresh,
                   haVars, poll, asking>>

ReportFailed(o) ==
    /\ fetch[o].at = "reports"
    /\ fetch' = [fetch EXCEPT ![o] = NoFetch]
    /\ UNCHANGED <<coreVars, haVars, poll, asking>>

\* The entry is loaded anew, by the user or after a re-authentication.
Reload ==
    /\ setUp \/ reauth
    /\ reauth' = FALSE
    /\ Discard

-----------------------------------------------------------------------------
Replies(k) ==
    \/ ExtendReplied(k)
    \/ \E d \in Devices :
          \/ \E v \in Values : QueryAnswered(k, d, v)
          \/ QueryFailed(k, d)
          \/ PollStopped(k, d)
          \/ PollRejected(k, d)

FetchReplies(o) ==
    \/ CatalogReplied(o)
    \/ \E m \in Meters : ReportReplied(o, m)
    \/ ReportFailed(o)

Frames ==
    \/ Heartbeat
    \/ \E d \in Devices : EmptyFrame(d)
    \/ \E d \in Devices, v \in Values : StatusFrame(d, v) \/ FinalFrame(d, v)

UserSteps ==
    \/ AskRefresh \/ TakeOver \/ StepBack \/ ReadBack \/ Reload
    \/ \E d \in Devices, v \in Values : CommandReplied(d, v)

Next ==
    \/ FirstRefresh \/ SetupRejected
    \/ TimerFires \/ CoolingEnds
    \/ \E k \in Runners : Replies(k)
    \/ \E o \in Origins : FetchReplies(o)
    \/ Frames \/ PushSilence
    \/ UserSteps

Spec == Init /\ [][Next]_vars

\* Timers fire, setups are retried and requests end, by a reply or by their timeout.
Fairness ==
    /\ WF_vars(FirstRefresh) /\ WF_vars(TimerFires) /\ WF_vars(CoolingEnds)
    /\ \A k \in Runners : WF_vars(Replies(k))
    /\ \A o \in Origins : WF_vars(FetchReplies(o))

LiveSpec == Spec /\ Fairness

-----------------------------------------------------------------------------
(* Properties. *)

Running == \E k \in Runners : Busy(k)

\* However polls, push frames, commands and debounced requests interleave, a loaded
\* entry always has its next refresh armed or a poll running that will arm it; only
\* a re-authentication may leave it without.
HeartbeatAlive == setUp /\ ~reauth => timer \/ Running

\* A loaded entry has readings, and every poll under way carries them: the guard that
\* lets a poll through while there is no data cannot open again in cooperative mode.
\* Before that only the first refresh runs.
ReadingsHeld ==
    /\ setUp => /\ Known(data)
                /\ \A k \in Runners : poll[k].at = "query" => Known(poll[k].states)
    /\ ~setUp => data = Nothing /\ ~Busy("debounced") /\ ~timer /\ ~cooling /\ available

\* Entities are unavailable only after more than POLL_FAILURE_GRACE consecutive cycles
\* failed for every appliance, even when an older poll ends after a newer one.
GoneMeansGone == setUp /\ ~available /\ ~reauth => failed > Grace

\* Push frames and commands stop arriving, and nobody reloads the entry.  Each frame or
\* command starts the schedule over, so a steady stream of them keeps the timer from ever
\* firing.
Quiet ==
    <>[][/\ ~Frames /\ ~Reload
         /\ ~(\E d \in Devices, v \in Values : CommandReplied(d, v))]_vars

\* A poll begins: it sends its first request in this step.
Begins == \E k \in Runners : ~Busy(k) /\ Busy(k)'

\* Only a poll that begins takes up the request of a person, or a snapshot owed; else the
\* coordinator that owes them is discarded.
AskTaken == [][explicit /\ ~explicit' => Begins \/ ~setUp']_vars
SnapshotStarted == [][snapshotDue /\ ~snapshotDue' => Begins \/ ~setUp']_vars

\* What a person asked for is asked of the cloud by a poll that begins afterwards, even if
\* the debouncer dropped the request itself (async_refresh_now: "Poll once because a person
\* asked, whatever the mode says"): no other step settles the request, and it does not stay
\* open for ever, unless re-authentication comes first.
AskServed == AskTaken /\ (Quiet => (explicit ~> ~explicit \/ reauth))

\* A cycle that finished while a poll was already under way is not settled by it, nor by a
\* refresh that is skipped, but by a poll that begins afterwards, and in exclusive mode there
\* is one (_note_snapshot_trigger).
SnapshotTaken ==
    /\ SnapshotStarted
    /\ Quiet => (snapshotDue ~> ~snapshotDue \/ reauth \/ mode = "cooperative")

\* The cloud answers no query and no appliance sends a frame or takes a command.
CloudGone ==
    <>[][/\ ~(\E k \in Runners, d \in Devices, v \in Values : QueryAnswered(k, d, v))
         /\ ~Frames /\ ~(\E d \in Devices, v \in Values : CommandReplied(d, v))]_vars

\* "A cloud that is gone must be visible" (_async_update_data): in exclusive mode the
\* entities of a loaded entry become unavailable and stay so.
OutageShows ==
    CloudGone /\ <>[](setUp /\ ~fresh /\ ~reauth /\ mode = "exclusive") => <>[]~available
=============================================================================
