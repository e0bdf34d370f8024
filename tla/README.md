# A TLA+ verification project for the Holabrain integration

This directory models the Home Assistant integration `custom_components/holabrain`
(with its cloud client `aiodollin`) in TLA+, checks the models with TLC and proves
theorems about them with TLAPS. Paths below are relative to
`custom_components/holabrain/` unless they start with `docs/`.

## 1. The system

The integration connects Home Assistant to a vendor cloud that keeps **one live
session per account**: when the mobile app signs in, the integration's token dies, and
the other way round. Around that fact the code has two halves: a client that shares the
account politely, and a coordinator that decides when the cloud is asked at all.

Everything runs on the one event loop of Home Assistant, except the MQTT network thread.
So a hazard is always an `await`: what was read before it may be stale after it, and any
other task may have run meanwhile. There are hardly any locks (`AuthManager` has none).

| Component | State it keeps | Operations | Talks to |
|---|---|---|---|
| Account session: `aiodollin/auth/manager.py`, `auth/store.py`, `store.py` | the token in memory and in the config entry; when it last logged in; evictions in a row and when the last was; the expiry window and its count | `async_oem`, `async_tob`, `async_extend_token`, `async_refresh_token`; inside them login, relogin, recover | every API wrapper calls through it; HTTP transport below it; config-entry data |
| HTTP transport: `aiodollin/transport/http.py`, `auth/signer.py` | none | one signed request; answer classified as expired, taken over, refused, rejected, throttled, failed | `AuthManager` |
| Refresh cycle: `coordinator.py` (`_async_update_data`, push, modes, consumption) | readings; latched requests (`_explicit_refresh`, `_snapshot_due`, `_consumption_pending`); failure count; figures; time of the last frame; the timer and the debouncer of Home Assistant's base class | scheduled and requested polls, push frames, mode switch, commands, consumption fetch | client, entities (listeners), MQTT |
| Capabilities: `coordinator.py`, `aiodollin/api/capabilities.py`, `dto/capability.py`, `bitfield.py` | a profile per appliance, the cache file, fields already absorbed | load, refresh, resolve, absorb fields of a status, revalidate, save; reload when gating changes | cloud API, executor, config-entry reload |
| Inventory and discovery: `coordinator.py`, `__init__.py`, `helpers.py` | devices, registry entries, unsupported notices, per-platform set of handled devices | scan, prune, forget, remove, incremental entities | cloud API, device registry, platforms |
| Composers: `dishwasher.py`, `oven.py` | a draft per appliance | stage a value, start (send, clear the draft, refresh) | coordinator |
| Push client: `aiodollin/transport/mqtt.py`, `coordinator.py` (`async_start_push`) | connection, subscriptions, callbacks, certificate files | connect, subscribe, reconnect, message hand-over, shutdown | broker, event loop |
| Conditions and registry: `conditions.py`, `registry.py`, `entity.py` | none (tables) | three-valued evaluation of a control's gating; machine state of an appliance | platforms |
| Config flow, services: `config_flow.py`, `services.py` | flow state | login, claim, scan, options; service calls | client, coordinator |
| Platform entities, panel, diagnostics, discovery, pairing, scripts | none or static | read, render, send one command | coordinator |

### What is hard, and what makes each part correct

*Account session.* Concurrent calls share the token without a lock; each may find it
refused, and each reacts by dropping it and logging in, which kills the token the others
have in flight. Answers come late or get lost after the cloud has acted on them. Home
Assistant may stop between the clearing and the saving of a session. Two counters limit
how often the account may be claimed back. Correct means: memory and storage never
disagree; a token given up never returns; an accepted session is not thrown away; every
call ends after a bounded series of requests; the session is regained once nobody fights
for it; logins stay within the budget.

*Refresh cycle.* Two polls may overlap (the scheduled one does not take the debouncer's
lock), push frames and commands arrive between a poll's requests, and a dozen paths
cancel and re-arm the same timer. Requests are flags consumed by whichever poll begins
next. Correct means: the cycle never dies out; a poll is made only if somebody is
entitled to it; a request is never lost; a snapshot owed is taken; readings do not vanish;
entities become unavailable exactly when an outage has lasted, and then do.

*Capabilities and inventory.* A profile is what a request answered, united with what
polls and frames report meanwhile; entities are built from it once and never again, so
whatever changes a gate must end in a reload of the entry. A reload starts from the cache
file, which a delayed save of the coordinator just discarded may still be about to
overwrite. Appliances come and go in the account at any time, seen only by a setup or a
scan. Correct means: the registry and the entities are those of the inventory; entities
agree with their profiles or a reload is on its way; reloads come to an end; a failing
cloud takes nothing away.

*Conditions, registry and platform entities.* An appliance reports every field all the time,
also those left over from its last cycle, and its status may lack any key until a frame
brings it. Ordered tables decide what state it is in, what is shown and what is refused, and
a command is echoed into the status when its reply arrives. Correct means: an appliance that
is off shows no leftovers; a missing key never blanks or refuses anything; a command taken is
shown as asked or not at all; what a person is refused for is there to be seen.

*Composers.* A wash or a cook is started by one whole instruction, put together from values
staged in Home Assistant and, for the rest, from the status, which changes at any time. Correct
means: what the controls show is what is sent, a programme chosen gets a temperature it can
take, and no choice is lost except with the Start that carried it.

*Push client.* The network thread connects, drops and subscribes between any two steps of the
event loop, and every retry of a set-up builds another client under the same client id. Correct
means: no appliance stays unsubscribed, one network loop at a time, and a shutdown that ends and
leaves nothing behind.

## 2. Modules

| Module | What it is |
|---|---|
| `AuthSession` | `AuthManager`, its stores, its concurrent callers, the cloud's single session, time, restarts |
| `CallContract` | abstract specification of one authenticated call: a ladder of requests, never climbed down, that ends |
| `SessionStore` | abstract specification of what memory and storage hold: a session is adopted in both, given up in both, and never taken up again |
| `AuthClock` | the clock and counters of `AuthManager` as the code has them, instants and counts without bound, to compare `AuthSession`'s with |
| `AuthHistory`, `AuthBudget`, `AuthTakeovers` | `AuthSession` with observing variables (tokens given up, announced waits; the ages of the last fast logins and the takeovers in a row; whether there was another client) for properties that need history |
| `Coordinator` | the refresh cycle on Home Assistant's `DataUpdateCoordinator` and `Debouncer` |
| `CoordinatorHistory` | `Coordinator` with observing variables: who asked, which cycle finished, whether figures were taken |
| `Inventory` | inventory, capability profiles, their cache file, the registry, the entities built, and the reloads |
| `Conditions` | the three-valued conditions and the first rule that holds |
| `Registry` | the tables of the six categories: state machines, guards, gated readings, controls, native mappings, programmes |
| `Controls` | one appliance behind its entities: what they show, send and refuse, frames, queries, commands in flight |
| `Readings` | its sensors and binary sensors |
| `Composer` | `Controls` with the draft and the Start of dishwasher and oven |
| `PushClient` | the push channel: the coordinator on the event loop, paho's network thread, the broker |
| `AuthSession_proofs`, `AuthHistory_proofs`, `Coordinator_proofs`, `CoordinatorHistory_proofs`, `Inventory_proofs`, `Composer_proofs`, `Readings_proofs`, `PushClient_proofs` | theorems and proofs |
| `MCAuthHistory`, `MCAuthBudget`, `MCAuthTakeovers`, `MCCoordinator`, `MCInventory`, `MCAppliance`, `MCPushClient` | the instances TLC checks: back-off tables, symmetry, presence rules, small appliances |

`Composer` extends `Controls`, which extends `Registry`, which extends `Conditions`; `Readings`
extends `Controls`, and `MCAppliance` checks all of them together.

### AuthSession and the code

An action runs from one `await` of a network request to the next; the awaits of the
token store never suspend (`ConfigEntryTokenStore` and `InMemoryTokenStore` have no
suspension point inside), so what stands around them is one step.

| Code | TLA+ |
|---|---|
| `_token`, stored `Session` | `token`, `store` |
| `_last_login`, `_last_eviction`, `_expiry_window_start` | `lastLogin`, `lastEviction`, `windowStart`, as ages |
| `_evictions`, `_expiries_in_window` | `evictions`, `expiries` |
| local state of a suspended call | `pc`, `kind`, `then`, `sent` (`then` says where a login resumes) |
| `async_oem`/`async_tob`/`async_extend_token` up to the first request | `BeginCall` |
| `async_login` after its request | `LoginReplied` |
| `_async_authenticated`, its except clauses and its retry | `RequestSucceeded`, `ReloginAfterExpiry`, `RecoverAfterExpiry`, `RecoverAfterRefusal`, `RequestFailed` |
| `_async_recover`, `_async_relogin`, `_cooldown`, `_note_eviction`, `_expiry_within_budget` | `Recover`, `Relogin`, `Cooldown`, `NoteEviction`, `NoteExpiry` and `WithinBudget` |
| `async_refresh_token` | `UserRefresh` |
| the cloud's answers as `http.py` classifies them | `CloudServes`, `CloudLogsIn`; which code means "taken over" is undocumented, so a refusal may read either way |
| the app signs in; Home Assistant restarts | `SessionEnds`, `Restart` |

Abstractions and named bounds. Ages saturate at `Forget + 1` and the counters at
`EvictionCap` (one past the table's last index) and `ExpiryCap`, beyond what the code
distinguishes; `WaitsAsTheCode` and `BudgetsAsTheCode` prove that nothing is decided
differently for it.
Tokens are model values; a token that is no longer in use anywhere may be granted again
(`Fresh`), so the set is large enough to hold those in flight and nothing more. `Faults`
selects the failures of an instance: `error` (no answer, API error, throttling, a login
answered without a token), `rejected` (refused credentials), `lost` (the cloud acted, the
answer did not arrive).

### Coordinator and the code

| Code | TLA+ |
|---|---|
| `data`, `_explicit_refresh`, `_snapshot_due`, `_failed_polls`, `_consumption_pending`, `_consumption`, push age | `data`, `explicit`, `snapshotDue`, `failed`, `pending`, `reports`, `fresh` |
| `_async_refresh` and the head of `_async_update_data` | `Refresh`, with `Skips` for the early returns |
| the loop over the appliances | `QueryAnswered`, `QueryFailed` (the `continue` branches), `PollStopped` (the `break` branches), `PollRejected` (`ConfigEntryAuthFailed`) |
| the tail of `_async_update_data` and of `_async_refresh` | `PollSucceeds`, `PollBorne`, `PollFails` |
| `_async_maybe_extend_token` | the choice in `Ask`; whether it is due is not modelled, so both happen |
| `async_request_refresh` and the debouncer | `RequestRefresh`, `Defer`, `CoolingEnds` |
| `async_refresh_now`, `async_set_mode` | `RefreshNow`, `TakeOver`, `StepBack` |
| `_handle_push`, `_note_snapshot_trigger` | `Heartbeat`, `EmptyFrame`, `StatusFrame`, `FinalFrame` |
| `async_fetch_consumption`, `_async_fetch_consumption_once` | `Fetching`, `FetchOnce`, `CatalogReplied`, `ReportReplied`, `ReportFailed` |
| `async_send_instruction`, the refresh after Start | `CommandReplied`, `ReadBack` |
| setup, retry of setup, reload | `FirstRefresh`, `SetupRejected`, `Discard`, `Reload` |

Home Assistant's base classes are not in the repository; they are modelled from how the
code uses them and marked external in the map: `_async_refresh` cancels the schedule and
the debouncer, updates, then schedules the next run if there are listeners; the debouncer
runs at once, postpones during its cooldown, and drops a request while its own poll runs;
`async_set_updated_data` cancels both, publishes, and schedules anew. Tasks start eagerly,
so a task runs up to its first await within the step that creates it.

Abstractions and named bounds. A reading is a model value; `FinalFrame` may be any change
of a reading, since whether a machine state is final is a matter of the registry's table.
Timers have no durations: an armed timer may fire at any time, which includes every
order the real durations allow. `failed` saturates at `Grace + 1`. Each of the two
runners (the schedule, the debouncer) has at most one poll in progress, which the code
guarantees for the debouncer by its lock and which bounds the schedule: a push frame can
re-arm the timer while a scheduled poll is still running, and the timer then waits for it
to end. Consumption fetches of the same origin are merged into one. The first
refresh's success and the registration of the listeners are one step (`setUp`). The
inventory is constant here, and an account without appliances is left out.

### Inventory and the code

| Code | TLA+ |
|---|---|
| `devices`, `capabilities`, the keys of `data` | `devices`, `profiles`, `status` |
| a `CapabilityProfile`: `features`, `present_fields`, age against the TTL | a record `features`, `fields`, `stale` |
| the file behind `_store`, its delayed save | `disk`, `saveDue`; `orphans` for the saves discarded coordinators still owe |
| the set `seen` of `async_add_with_discovery`, the gates its entities passed | `seen`, `built` |
| the device registry of Home Assistant | `registry` |
| `_async_resolve_devices`, a loop with a request per profile key | `GoesOn` (`Due`, `Asking`, `Save`), resumed by `DictionaryAnswers` and `DictionaryFails` through `Learns`; run by the setup, a scan or a refresh |
| `ResolverChain`, `StatusPresenceResolver` | `Resolved`, `Present` |
| `_async_setup`, `async_setup_entry` | `SetupListed`, `CacheLoaded`, `SetupEnds`, then `SetupCompletes` or `SetupFails` |
| `async_scan_devices`, `_async_prune_registry`, `_async_forget_devices` | `ScanListed`, `CacheLoaded`, `ScanEnds`; `Pruned`, `Forgotten` |
| `_absorb_status_fields` on a poll, on a frame | `Absorb`, in `PollAnswered` and `PushFrame` |
| `async_refresh_capabilities` by the service or the revalidation timer | `RefreshBegins`, `RefreshEnds` |
| `async_schedule_reload`, `async_unload_entry` | `reloadDue`, `ReloadScheduled`, `ReloadByHand` |
| `async_remove_config_entry_device` | `PersonDeletes` |

The store of Home Assistant is external: an immediate save cancels the delayed one, a load
answers with what is still to be written, a pending save is written at an orderly stop, and
`async_shutdown` of the coordinator cancels none of it (`LeftBehind`).

Abstractions and named bounds. The resolver chain is that of the family with a required
dictionary (`0xE1`); the other families have the presence rules, for which every step here
exists too, and tables without failure or state. Parameters of a profile are left out: they
count in the fingerprint as features do. A poll is one step (`Coordinator` has its
interleavings) in which one appliance's reading changes. One scan and one refresh run at a
time; the save at the end of a loop is one step with it. An appliance unbound never
returns under its id, as the docstring of `_async_forget_devices` says. A run whose
coordinator is discarded ends with it: its remaining requests fail on the closed client,
and what it still saves or reloads is in `LeftBehind` and `ReloadByHand`. The registry holds
appliances only: the account's own service device is pruned at every setup and made anew
by its platforms. The migration of the cache out of the config entry is left out.
`OrphanCap` bounds the saves owed by discarded coordinators. The TTL passes when nothing
else is under way (`TtlPasses`), a week being longer than any of it.

### Conditions, Registry, Controls, Readings and the code

| Code | TLA+ |
|---|---|
| `DeviceState.attributes`, `get`, `apply_push`, `from_query` | `status`, `Value`, `ApplyPush`, `Queried` |
| `Cond.holds` of `Is`, `Not`, `AllOf`, `AnyOf`; `holds_or`; `resolve_state` | `Is`, `Not`, `AllOf`, `AnyOf`; `HoldsOr`; `First` |
| the `*_STATES`, `*_GUARD`, `sensors`, `switches`, `selects`, `numbers`, `buttons` of a `CategorySpec` | the `...States`, `...Guard`, `...Readings`, `...Switches`, `...Choices`, `OvenButtons` of the category |
| `HolabrainCoordinator.machine_state` | `Machine` |
| `HolabrainEntity._is_meaningful`, `_check_writable` | `Meaningful`, `CheckWritable` |
| `is_on`, `current_option`, `native_value`, `hvac_mode`, `current_operation`, `color_temp_kelvin` … | `Shown` and the `...Shown` it chooses from; `SensorShown`, `FlagShown` |
| the services of the platforms, `_async_send`, `async_send_instruction` | `Write`, then `Replied` (the echo of `Instruction`) or `WriteFailed` |
| `_handle_push`, a poll's query | `Frame`, `Queried` |

A code the cloud spells as a string is the number spelt. A unit is an appliance with the
status keys and codes one question needs, the statuses a query may bring and the writes a
person may make; the assumptions say what every unit has to satisfy, and the proofs use
nothing else. Home Assistant has checked a written value against the entity (`Asks`). A frame
carries one key, which is the finest grain a frame can have. `MaxSent` bounds the commands in
flight. Gating by capability is in `Inventory`; the mapping of temperatures to the echo
compares numbers, not their spelling.

### Composer and the code

| Code | TLA+ |
|---|---|
| `HolabrainCoordinator.drafts`, `async_stage`, `async_clear_draft` | `draft`, `Stage`, the clear in `StartReplied` |
| `_staged_or_reported`, `_staged_int`, `_minutes`, `_temp_allowed`, `_preheat_allowed` | `Composing`, `DurationMinutes`, `TempAllowed`, `PreheatAllowed` |
| the selects, numbers and switches of `dishwasher.py` and `oven.py` | `Composed` (what each takes now), `ComposerShows` |
| `build_start_instruction`, `build_cook_instruction` | `WashInstruction`, `CookInstruction` |
| `async_press` up to its await, after it, and when it raises | `Press`, `StartReplied`, `StartFailed` |
| a reload of the entry | `Reload`, with a new coordinator and no draft |

`late` is history: what was staged since the Start that is awaited. One Start is awaited at a
time. The dishwasher's flat instruction is echoed into the status, the oven's structured one is
not (`async_send_instruction` folds it under a key no control reads). The step of a temperature
is not checked by the code and not modelled. The refresh after Start is `Coordinator!ReadBack`.

### PushClient and the code

| Code | TLA+ |
|---|---|
| `async_setup_entry`, its first poll, its failure | `SetUp`, `FirstPoll`, `SetUpFails` |
| `_async_start_push` | `StartPush`, or `PushUnavailable`; then `Remember`, `Request` per topic |
| `MqttClient.subscribe` | `Remember` (the set), `Request` (the packet) |
| `_handle_connect`, `_handle_disconnect` on the network thread | `Connected`, `RequestAgain`; `Dropped` |
| `async_scan_devices` before and after its await | `Scan`, `Resolved` |
| `async_unload_entry`, `async_shutdown`, `MqttClient.disconnect` in the executor | `Unload`, `NothingToStop`, `Goodbye`, `LoopStop`, with `SendGoodbye` on the network thread |

The two threads share `remembered` and the state of the connection without a lock; an action is
what one thread does between two points where the other can be seen. `again` is the loop of
`_handle_connect` over the set of topics, which a topic remembered meanwhile may enter. Paho and
the broker are external, as the module's head says: a request without a connection is lost, a
session is clean, `loop_stop` waits for the thread. A request sent between the TCP connection
and the broker's CONNACK is taken as lost; `_handle_connect` sends it again. A scan that awaits
its capabilities when the entry is unloaded may still get them, before the shutdown or after it,
and must then not subscribe. Frames are left out: what a frame does is in `Coordinator`, and they
reach it through one queue of the event loop (`call_soon_threadsafe`), in the order one network
thread received them, at the coordinator whose client it was. Two clients are enough for one that
is being left and the next.

## 3. Runs

| Run | Question | Result |
|---|---|---|
| `auth_concurrent` | two callers, lost replies, restarts: do memory and store agree, can a late answer bring back a token given up or lose one granted, what makes the manager drop an accepted session? | `TypeOK`, `TokenIsStored`, `DroppedNeverReturns`, `OnlyStaleRefusalsDrop`, `KeepsSessions` hold |
| `auth_alone` | one polling task, all faults, the full back-off table: is an accepted session ever thrown away, and regained when lost; does a call keep its contract and end; how many logins skip the cool-down in a window's length; is the session claimed back the later the more takeovers came in a row? | `AcceptedSessionKept`, `SessionRegained`, `HonoursContract`, `ExpiryBudget` (twice the limit), `ReclaimsSpaced` hold |
| `auth_takeovers` | is a caller told of another client only if there is one? | violated, see findings |
| `auth_holdoff` | is the announced wait kept? | violated, see findings |
| `coordinator_owed` | one appliance, every operation: does the cycle survive, do readings stay, is every poll paid for? | `TypeOK`, `HeartbeatAlive`, `ReadingsHeld`, `PollsAreOwed` hold |
| `coordinator_two` | two appliances, one of them metered, and a grace of one: are entities unavailable only after an outage, whatever polls overlap? | `GoneMeansGone` holds |
| `coordinator_live` | is what was asked for, and the snapshot of a finished cycle, settled by a poll that begins afterwards and by nothing else, and does one begin; is an outage shown? | `AskServed`, `SnapshotTaken`, `OutageShows` hold |
| `coordinator_figures` | are the figures fetched once at start-up? | violated, see findings |
| `inventory` | an appliance and its replacement, late saves of discarded coordinators: do registry and entities follow, is a live appliance ever forgotten, do reloads come to an end? | `TypeOK`, `EntitiesFollowInventory`, `EntitiesCurrent`, `LiveNeverForgotten`, `ReloadsSettle` hold |
| `appliance` | nine small appliances of the six categories under frames, queries, writes and Starts: are leftovers hidden, refusals explained, gaps forgiven, commands shown as asked, and composed Starts what the controls say? | `TypeOK`, `OffShowsNothing`, `RefusalsShown`, `ComposedInRange`, `ShownIsSent`, `PartialIsLenient`, `EchoShows`, `ChoicesSurvive` hold |
| `push` | set-ups, scans and shutdowns against the network thread: is every appliance subscribed, does a shutdown end, and leave anything? | `TypeOK`, `NothingUnsubscribed`, `OneLoop`, `NoSessionLeft`, `EventuallySubscribed`, `ShutdownEnds` hold |
| `inventory_outage` | does a failing cloud take nothing away? | violated, see findings |

Every property of a passing run has a mutant in `PROJECT.json`: a plausible bug in one
definition under which TLC finds the property violated.

**Why the bounds are enough.** Two callers give every pairwise race on the shared token:
a caller's step depends on the manager's variables and its own, and the manager keeps no
per-caller state, so a third caller adds no new kind of interference for the invariants
(which are also proved for any number). Six tokens hold the live one, the stored one,
those in flight of two callers and the dropped ones, which must stay distinguishable. In
`auth_concurrent` the back-off table is `<<0>>`, since a cool-down only removes logins, and no
time passes (`AtOnce`): without a cool-down an age decides only whether the window of the
expiries is closed, which the user's refresh closes as well, and the theorems have the clock;
`<<0, 1, 2>>` in `auth_alone` and `auth_holdoff` has the shape of the code's
`(0, 60, 300, 900)`, a first free step and growing waits; `<<0, 1>>` in `auth_takeovers` is
the shortest with a wait. `HonoursContract` is checked for
one caller with all faults, since a call's ladder depends on no other call's; that no
step of any number of callers leaves the ladder is proved. For the coordinator one
appliance already has overlapping polls, stale copies and all timers; two are needed for
partial failures, and there `Grace = 1` has a failure that is borne and one that is not (the
theorem holds for every grace). Two readings tell an old
one from a new one (and are what a finished cycle needs); one meter shows figures come
and go. In `coordinator_two` and `coordinator_live` a fetch is answered before anything else
happens (`Prompt`), since how far it is matters to other fetches only; `coordinator_owed` has
the fetch of the catalogue in every order, and the theorems all of them. In `inventory` one appliance
is replaced by another of its model, so a scan finds one gone and one new at once, under every
job; the account lists one of the two at a time (`Replacements`), and that any number may come and
go is in the theorems. The one gate there can come from the attribute itself, from the flag the
presence rules derive of it, which a truncated status takes back, or from neither: the
dictionary answers with an empty list, or not at all. What it grants beyond that is in
`inventory_outage`, which keeps two gates apart, and in the theorems, which hold for every set
of flags, but not in `ReloadsSettle`. One save left behind (`OrphanCap`)
can be written before or after the next coordinator's own; that several overtake each other is
in the theorems too, but not in `ReloadsSettle`.

In `appliance` each unit has the keys one question needs, with the codes the tables tell apart:
every state of its machine, a code no table knows, both sides of a threshold, the ends of a
range; statuses grow from empty, key by key, in every order. Two commands in flight (`MaxSent`)
can be answered in either order. The theorems hold for every unit. In `push` two devices give
a subscription that is done while another is not, two clients one that is left and the next.
`push` declares no symmetry, for its liveness.

**Fairness.** `CallFairness`: a suspended call is answered or times out (the HTTP client
sets a total timeout) and the event loop resumes it. `BudgetSpec` adds that the
poll timer keeps calling. `Coordinator!Fairness`: armed timers fire, requests end, a
failed setup is retried by Home Assistant. `Inventory!Fairness`: requests end, the delayed
saves and the scheduled reload happen, a setup is retried. `PushClient!Fairness`: the event loop runs its
callbacks, the executor and the network thread what is queued, and the awaits of scans end; a scan that has its capabilities gets its turn although other scans come and go (SF
on `Resolved`), since the event loop runs ready callbacks in the order they became ready.
Nothing there makes a connection come about: `EventuallySubscribed` assumes that it stays up.
No fairness is assumed of users, of the app, of
push frames, of commands or of the cloud's willingness. `SessionRegained` assumes that the app, restarts
and the user's own refresh stop (`Undisturbed`); `AskServed` and `SnapshotTaken`, in their liveness half, assume that
frames and commands stop (`Quiet`), because each of them starts the schedule over and an
endless fast stream would starve it, and that the entry is not reloaded, which would forget
what is owed; `OutageShows` assumes an outage (`CloudGone`).
`ReloadsSettle` assumes that people stop reloading, scanning and refreshing and that the
timers of hours and days rest (`Disturbed`): a reload takes seconds.
`CHECK_DEADLOCK` is on in every run.

### Findings

Each of these is the expectation of a `violation` run, quoted in `PROJECT.json`:

1. `auth_takeovers`: when the logins of two tasks cross, the first is refused the token the
   second has replaced, counts that as a takeover (against the docstring of `evictions` too) and
   may be turned away because "another client" holds the session. The same crossing can drop an
   accepted session, or evict one login by the other again and again; so `AcceptedSessionKept` and
   `SessionRegained` are about one task at a time, and `OnlyStaleRefusalsDrop` says that with
   several nothing else throws away an accepted session.
2. `auth_holdoff`: the cool-down guards `_async_recover` only; the next call finds no
   token and logs in at once.
3. `coordinator_figures`: the initialisation repeated inside `_async_update_data` re-arms
   the start-up fetch (and wipes the figures) on every call, skipped or not.
4. `inventory_outage`: `ResolverChain` raises only if nothing at all was produced, and the
   presence rules always produce once a status is known; a dictionary that cannot be
   reached then yields a profile without its features, which replaces the cached one,
   counts as fresh for a week and reloads the entry.

Seen while modelling, and visible in the actions named, but without a run:

- Within the cool-down a command is turned away like a poll (`Recover`), where
  `docs/accounts.md` line 18 says the session is taken back.
- A failing poll writes its older copy of the readings back (`PollBorne`), over a push
  frame handled meanwhile.
- A push frame or a command arms the schedule again after refused credentials
  (`SetUpdated` after `PollRejected`), so they are sent again.
- The refresh after Start is skipped in cooperative mode or while push delivers
  (`ReadBack` through `Skips`), where the comment says the result is read back.
- A scan publishes the inventory before it resolves the profiles (`ScanListed`, then
  `CacheLoaded`), so a poll or a frame in between builds the new appliance's entities
  without a profile, against the docstring of `async_scan_devices`; and it ignores that the
  loop reports a change of profiles that went stale. Hence `rescanned` in
  `EntitiesCurrent`.
- A refresh unites the new profile with the fields known before its request, not with those
  absorbed during it (`Learns`), though `dto/capability.py` calls the fields monotonic; the
  next reading brings them back.
- The flags the presence rules derive are those of the last status only, so a truncated one
  shrinks them at the next refresh (`Resolved`).
- A reload is scheduled at once, the save thirty seconds later: a reload that starts before
  the save is answered by the old file and asks for the next one (`CacheLoaded` after
  `ReloadScheduled`). It ends once the save left behind is written.
- A stale profile that cannot be resolved is saved again by every setup, over what the
  discarded coordinator's save has meanwhile written (`Save`); while that goes on, reloads do
  not settle (the last disjunct of `Disturbed`).
- A locked oven refuses its own unlocking: its switch lacks `exempt` and
  `_OVEN_POWER_EXEMPT` (`registry.py` line 681) is used nowhere, so the guard's `child_lock`
  refuses both commands (`CheckWritable`), where `docs/entities.md` line 112 names the open
  door only.
- The guard is asked by switches alone: selects, numbers, buttons and the two Starts never
  call `_check_writable` (`Allowed`, `Press`).
- What is staged while a Start is awaited is dropped by the clear that follows
  (`StartReplied`, `late`).
- The oven's Start sends a temperature reported as 0 as the programme's default, and a probe
  never set, shown as 75, as the cooking temperature (`CookInstruction`), where
  `tests/test_oven.py` line 235 has the instruction mirror what is shown. The properties name
  these exceptions.
- A programme changed at the panel leaves a staged temperature in place, out of the new
  programme's range (`Composing`); hence the first condition of `ComposedInRange`.
- The dishwasher's Start sends a reported option the select does not offer and shows as
  nothing (`WashInstruction`, `ComposerShows`).
- A dishwasher's power switch turned on during a cycle echoes `power = 1`, and the status reads
  standby until the next frame (`Replied`). An echo, and a poll answered late, may also
  overwrite a frame that was newer.
- The comment at `registry.py` line 62 leaves unknown fault codes to a problem sensor, which
  dishwasher and washer do not have (`DishwasherFlags`, `WasherFlags`).
- A frame that arrives before the first poll's data is dropped (`_handle_push`), and in
  cooperative mode an appliance found by a scan gets no state until somebody asks.
- A set-up that is cancelled is not caught by `except Exception` in `__init__.py` and leaves
  the network loop running; `SetUpFails` is what the clause does catch. What follows the `try`
  (`__init__.py` lines 119 to 125: the platforms, the static files, the panel) is in no clause
  either: a failure there leaves the coordinator, its timers and its network loop running next to
  those of the retry. It is not modelled, so `OneLoop` is about first refreshes that fail.
- A scan that an exception nobody expects stops between publishing the devices
  (`coordinator.py` line 287) and subscribing them (line 293) leaves them without push: the next
  scan finds the same set and returns early. The cloud's and the push channel's own failures are
  caught inside. `Scan` and `Resolved` are a scan that gets through or ends with its coordinator.

## 4. Proofs

TLAPS proves, for every value of the constants that satisfies their assumptions (finitely
many appliances, any number of callers, tokens, readings, any back-off table, limit, grace,
and any set of faults):

| Theorem | Statement | Inductive invariant |
|---|---|---|
| `AuthSession_proofs!TypeCorrect` | `Spec => []TypeOK` | itself |
| `AuthSession_proofs!StoredToken` | `Spec => []TokenIsStored` | `IInv == TypeOK /\ TokenIsStored` |
| `AuthSession_proofs!LadderClimbed` | `Spec => Contract!Ladder` | `TypeOK`, for the rung of each stage |
| `AuthSession_proofs!OnlyRacesDrop` | `Spec => OnlyStaleRefusalsDrop` | `TypeOK /\ RefusalsTrue`: a refusal waiting to be delivered is of a token that is not live |
| `AuthSession_proofs!AloneKeepsSession` | `Callers = {c}` implies `Spec => AcceptedSessionKept` | with `SentIsHeld(c)`: the token under way is the one in memory |
| `AuthSession_proofs!WaitsAsTheCode`, `BudgetsAsTheCode` | in every state that is the saturated image (`Mirrors`) of an unbounded clock and counters (`AuthClock`), `HeldOff` and `WithinBudget` are what the code decides, and `NoteEviction` and `NoteExpiry` lead to the image of what the code leaves | none; `AgeTells` has the same for the passing of time |
| `AuthHistory_proofs!DroppedStaysDropped` | `HistorySpec => []DroppedNeverReturns` | `HInv`: besides `DroppedNeverReturns`, the grants in flight are apart from each other, from the session kept and from the dropped ones (`GrantsApart`) |
| `AuthHistory_proofs!SessionsKept` | `HistorySpec => KeepsSessions` | `KInv == HInv /\ GrantsDelivered`: a token granted belongs to a good answer to a login or an extend |
| `AuthHistory_proofs!ReclaimsKept` | `BudgetSpec => ReclaimsSpaced` | `SInv`, with `StreakCounted`: within the forgetting time of the last takeover the manager's count is the takeovers in a row, as far as the table tells them apart |
| `AuthHistory_proofs!BudgetKept` | `BudgetSpec => []ExpiryBudget` | `BInv == IInv /\ fast \in Logs /\ LoggedByWindow`: of the logins remembered, those beyond the count of the window are older than the window, and no more than the limit |
| `Coordinator_proofs!TypeCorrect` | `Spec => []TypeOK` | needs `PollsCounted`: a poll's errors and the appliances it has left never exceed all appliances |
| `Coordinator_proofs!ReadingsStay` | `Spec => []ReadingsHeld` | `IInv == TypeOK /\ PollsCounted /\ ReadingsHeld` |
| `Coordinator_proofs!CycleSurvives` | `Spec => []HeartbeatAlive` | `IInv` with `HeartbeatAlive` |
| `Coordinator_proofs!OnlyOutagesShow` | `Spec => []GoneMeansGone` | `IInv` with `GoneMeansGone` |
| `Coordinator_proofs!LatchesSpent` | `Spec => AskTaken /\ SnapshotStarted`, the safety halves of `AskServed` and `SnapshotTaken` | `IInv`, for the type of `poll` |
| `CoordinatorHistory_proofs!EachPollIsOwed` | `HistorySpec => PollsAreOwed` | `HInv == IInv /\ Backed` and types: a latched request was a person's, a snapshot owed follows a finished cycle, since the last poll began |
| `Inventory_proofs!TypeCorrect` | `Spec => []TypeOK` | itself |
| `Inventory_proofs!InventoryFollowed` | `Spec => []EntitiesFollowInventory` | `TypeOK /\ Followed`: what left the inventory is gone from the account for good, and forgotten or in the hands of the running scan |
| `Inventory_proofs!LiveKept` | `Spec => LiveNeverForgotten` | `TypeOK /\ Followed`: what is registered beyond the inventory is what a scan found gone |
| `Inventory_proofs!EntitiesStayCurrent` | `Spec => []EntitiesCurrent` | `IInv == TypeOK /\ Followed /\ Current`: a refresh in progress that changed a gate knows it (`changed`), and the profile it read before its request still gates as the one in memory |
| `Composer_proofs!TypeCorrect` | `Spec => []TypeOK` | `IInv == TypeOK /\ IsFiniteSet(sent) /\ DraftChosen /\ StartKnown /\ ProgrammeInRange /\ DraftTaken /\ StartCarries` |
| `Composer_proofs!OffIsOff` | `Spec => []OffShowsNothing` | none: it holds of every status |
| `Composer_proofs!Leniency` | `Spec => PartialIsLenient` | none: a status that only grows |
| `Composer_proofs!InRange` | `Spec => []ComposedInRange` | `IInv`: a staged programme has its temperature staged with it |
| `Composer_proofs!SentAsShown` | `Spec => []ShownIsSent` | `IInv`: what a draft can hold |
| `Composer_proofs!Survival` | `Spec => ChoicesSurvive` | `IInv`: a Start carries each choice made before it |
| `Composer_proofs!Echoed` | `Spec => EchoShows` | `IInv`: the instructions in flight are finitely many writes |
| `Readings_proofs!ReasonsAreShown` | `Spec => []RefusalsShown` | none: it holds of every status |
| `PushClient_proofs!TypeCorrect` | `Spec => []TypeOK` | `IInv == TypeOK /\ ClientInv /\ SessionInv /\ TopicInv /\ InventoryInv` |
| `PushClient_proofs!SubscriptionsKept` | `Spec => []NothingUnsubscribed` | `IInv`: a topic remembered is subscribed, in the reconnection's loop, or being asked |
| `PushClient_proofs!SingleLoop` | `Spec => []OneLoop` | `IInv`: only the coordinator's client runs |
| `PushClient_proofs!SessionEnds` | `Spec => []NoSessionLeft` | `IInv`: the broker has a session exactly for who is online |

Each proof has one step per action. `DroppedNeverReturns` is not inductive alone: a late
grant could be a token dropped before, so the invariant must say that what is in flight was
never dropped. `SessionsKept` maps every step to one of `SessionStore` or to none: a caller's step
adopts what it was granted, loads, gives up or keeps, and what `GrantsDelivered` excludes is the
step that swallows a grant. `ExpiryBudget` joins two windows: `LoggedByWindow` says how many
logins of the closed window can still be young when the next one opens, and that none of them
is younger than the window itself. `ReclaimsSpaced` compares a
streak counted by what happened with the counter by which the code decides, which also ages and
is reset. `AcceptedSessionKept` is false of two callers, so its theorem
is about one; `OnlyStaleRefusalsDrop` is what is left of it for any number. `HeartbeatAlive` rests on `ReadingsHeld`: without readings the borne branch
of a failing poll could not be told from the discarding one. `EntitiesCurrent` needs `Followed`
as well: an appliance a scan finds must not be one the platforms had handled before, or its
entities would be those of an earlier profile.

For the appliances the lemmas carry the weight. `First` over a literal table is unrolled once
(`FirstAt`, `FirstOf4` to `FirstOf7`); each category has a lemma that says which state its
table names, and one that says a key added to a status takes no answer back that was `"yes"`
or `"no"` (`...Grows`), from which `Leniency` follows. `ShownIsSent` and `ChoicesSurvive` are
not inductive: what a Start carries depends on the programme, so the invariant says what a
draft can hold and that a staged programme brings its temperature. `KelvinRounds` shows for
every value of the lamp's scale that rounding to kelvin and back returns it. In `PushClient`
the heart is `TopicInv`: of a topic and a connection, either thread may come first, and
whichever comes second makes the request.

Only model-checked: all liveness (`HonoursContract`'s termination, `SessionRegained`,
`AskServed`, `SnapshotTaken`, `OutageShows`, `ReloadsSettle`, `EventuallySubscribed`,
`ShutdownEnds`), since TLAPS has neither fairness with ENABLED
nor liveness rules here.

## 5. Not modelled, and the plan

Not modelled for good: signing, TLS, certificates and request formatting (pure I/O); DTO
parsing except `DeviceState` and `CapabilityProfile` (no state); panel, card, diagnostics and
the generic sensors, which render what is there; local discovery and pairing (stateless or
static); repository scripts. Of the conditions, `Between`, `Missing`, `ProgramAllows` and the
staged values of `Cond.keys` are used by no category, and are left out. Also left out: the step
of a temperature, which the code does not check; the two bytes of a remaining time, which are
ordinary keys that may arrive in different frames; the hand-over of frames from the network
thread, whose order one queue keeps; a set-up cancelled by Home Assistant or failing after the
first refresh, and a scan stopped by an unexpected exception (both among what was seen above).

Planned, in order:

1. Config flow and services: the claim and scan flows, as further callers of the session; the
   reauthentication that drops the stored session while a save may be in flight.
2. Compositions: `AuthSession` and `Coordinator` for the calls a poll makes, `Inventory` and
   `Coordinator` for a scan or a reload during one, `PushClient` and `Coordinator` for frames and their hand-over;
   the families without a dictionary in `Inventory`.
3. Timers with durations, for the starvation of the schedule by frames.
