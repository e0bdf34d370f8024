------------------------------- MODULE Inventory -------------------------------
(***************************************************************************)
(* The inventory of HolabrainCoordinator and what hangs on it: capability  *)
(* profiles (coordinator.py, aiodollin/api/capabilities.py), their cache   *)
(* file, the entities each platform has built (helpers.py), the device     *)
(* registry, and the reloads of the config entry that rebuild it all.      *)
(*                                                                         *)
(* Each action runs from one await to the next.  A poll is one step here   *)
(* (module Coordinator has its interleavings), one scan and one refresh    *)
(* run at a time, and an appliance unbound never returns under its id.     *)
(***************************************************************************)
EXTENDS Naturals, FiniteSets

CONSTANTS
    Devices,    \* every appliance the account may ever list, by thing code
    Models,     \* profile keys
    ModelOf,    \* the profile key of an appliance
    Keys,       \* status attributes
    Flags,      \* features the capability dictionary may name
    Rule,       \* the flags the presence rules derive from a status attribute
    Gating,     \* the tokens some registry descriptor gates on
    NoProfile,  \* a profile key without a profile
    OrphanCap   \* bound: delayed saves left behind by discarded coordinators

ASSUME DeviceAssumption == Devices # {}
ASSUME ModelAssumption == ModelOf \in [Devices -> Models]
ASSUME RuleAssumption == Rule \in [Keys -> SUBSET (Gating \cup Flags)]
ASSUME CapAssumption == OrphanCap \in Nat

VARIABLES
    \* the world
    bond,       \* whether the account is yet to gain, lists or has lost an appliance
    disk,       \* the cache file
    orphans,    \* snapshots that discarded coordinators have yet to write
    registry,   \* the device registry of Home Assistant
    \* the config entry and its coordinator
    phase,      \* how far the setup has come
    devices,    \* coordinator.devices
    profiles,   \* coordinator.capabilities
    status,     \* the attributes in coordinator.data, {} without an entry
    saveDue,    \* the delayed save of the cache is armed
    reloadDue,  \* a reload of the entry is scheduled
    \* what the platforms have built
    seen,       \* the appliances they have handled
    built,      \* the tokens an appliance's entities were gated by
    \* tasks suspended at an await
    jobs,       \* the setup or a scan, and a refresh of the profiles
    rescanned   \* observed only: a scan has loaded the cache under this setup

worldVars  == <<bond, disk, orphans, registry>>
entryVars  == <<phase, devices, profiles, status, saveDue, reloadDue>>
entityVars == <<seen, built>>
taskVars   == <<jobs, rescanned>>
vars       == <<worldVars, entryVars, entityVars, taskVars>>

Tokens       == Gating \cup Flags \cup Keys
\* `stale' stands for fetched_at against the TTL.
Profile      == [features : SUBSET Tokens, fields : SUBSET Keys, stale : BOOLEAN]
ASSUME ProfileAssumption == NoProfile \notin Profile

MaybeProfile == Profile \cup {NoProfile}
Caches       == [Models -> MaybeProfile]
Empty        == [m \in Models |-> NoProfile]

\* A job waits for the cache file or for the answer about `dev'; `left' is the rest of
\* the loop, `cached' and `known' were read before the request.
Runs  == {"inventory", "refresh"}
Jobs  == [at : {"idle", "load", "asked"}, left : SUBSET Devices, dev : Devices,
          cached : MaybeProfile, known : SUBSET Keys,
          force : BOOLEAN, changed : BOOLEAN, removed : SUBSET Devices]
Idle  == [at |-> "idle", left |-> {}, dev |-> CHOOSE d \in Devices : TRUE,
          cached |-> NoProfile, known |-> {},
          force |-> FALSE, changed |-> FALSE, removed |-> {}]

TypeOK ==
    /\ bond \in [Devices -> {"new", "bound", "gone"}]
    /\ disk \in Caches
    /\ orphans \subseteq Caches
    /\ registry \subseteq Devices
    /\ phase \in {"off", "down", "setup", "ready", "loaded"}
    /\ devices \subseteq Devices
    /\ profiles \in Caches
    /\ status \in [Devices -> SUBSET Keys]
    /\ saveDue \in BOOLEAN /\ reloadDue \in BOOLEAN
    /\ seen \subseteq Devices
    /\ built \in [Devices -> SUBSET Tokens]
    /\ jobs \in [Runs -> Jobs]
    /\ rescanned \in BOOLEAN

Account == {d \in Devices : bond[d] = "bound"}

\* No coordinator, whether between two setups or with Home Assistant off.
Discarded(without) ==
    /\ phase' = without /\ devices' = {} /\ profiles' = Empty
    /\ status' = [d \in Devices |-> {}]
    /\ saveDue' = FALSE /\ reloadDue' = FALSE
    /\ seen' = {} /\ built' = [d \in Devices |-> {}]
    /\ jobs' = [r \in Runs |-> Idle] /\ rescanned' = FALSE

Init ==
    /\ bond \in [Devices -> {"new", "bound"}]
    /\ disk = Empty /\ orphans = {} /\ registry = {}
    /\ phase = "off" /\ devices = {} /\ profiles = Empty
    /\ status = [d \in Devices |-> {}]
    /\ saveDue = FALSE /\ reloadDue = FALSE
    /\ seen = {} /\ built = [d \in Devices |-> {}]
    /\ jobs = [r \in Runs |-> Idle] /\ rescanned = FALSE

-----------------------------------------------------------------------------
(* Profiles. *)

\* What the entities of an appliance with this profile are gated by: supports().
Gates(p) == IF p = NoProfile THEN {} ELSE (p.features \cup p.fields) \cap Gating

WithFields(p, keys) == [p EXCEPT !.fields = @ \cup keys]

\* ResolverChain: the dictionary's flags and those of the attributes reported, and the
\* caller unions in the fields of the profile it held before.
Resolved(flags, keys, cached) ==
    [features |-> flags \cup UNION {Rule[k] : k \in keys},
     fields |-> keys \cup (IF cached = NoProfile THEN {} ELSE cached.fields),
     stale |-> FALSE]

\* As below, but with nothing to compare a first profile with.
DiffersFromCached(cached, p) ==
    cached # NoProfile /\ (p.features # cached.features \/ Gates(p) # Gates(cached))

\* Whether _async_resolve_devices reports a change.
Differs(cached, p) ==
    cached = NoProfile \/ p.features # cached.features \/ Gates(p) # Gates(cached)

\* _absorb_status_fields for the readings `st' of the appliances `ds'.
Absorbed(ds, st) ==
    [m \in Models |->
        IF profiles[m] = NoProfile THEN NoProfile
        ELSE WithFields(profiles[m],
                        UNION {st[d] : d \in {e \in ds \cap devices : ModelOf[e] = m}})]

Absorb(ds, st) ==
    LET after == Absorbed(ds, st) IN
    /\ profiles' = after
    /\ saveDue' = (saveDue \/ after # profiles)
    /\ reloadDue' = (reloadDue \/ \E m \in Models : Gates(after[m]) # Gates(profiles[m]))

\* As below, but before the inventory just read has been taken over.
PrunedEarly(inventory) == registry \cap devices

\* As below, but with the registry left as it was.
Unpruned(inventory) == registry

\* _async_prune_registry.
Pruned(inventory) == registry \cap inventory

\* _async_forget_devices.
Forgotten(removed) == registry \ removed

\* _sync of every platform: entities for the appliances not handled before, beside the
\* registry entries `kept'.
Sync(inventory, known, kept) ==
    LET fresh == inventory \ seen IN
    /\ seen' = seen \cup inventory
    /\ built' = [d \in Devices |-> IF d \in fresh THEN Gates(known[ModelOf[d]]) ELSE built[d]]
    /\ registry' = kept \cup fresh

-----------------------------------------------------------------------------
(* _async_resolve_devices: a loop of requests, one per profile key. *)

Due(job, known) ==
    {d \in job.left : LET p == known[ModelOf[d]] IN
                      job.force \/ p = NoProfile \/ p.stale}

Asking(job, d, known) ==
    [job EXCEPT !.at = "asked", !.dev = d, !.cached = known[ModelOf[d]],
                !.known = status[d],
                !.left = {e \in @ : ModelOf[e] # ModelOf[d]}]

\* _async_save_cache at the end of the loop, which cancels the delayed save.
Save(known) ==
    IF known = Empty THEN UNCHANGED <<disk, saveDue>> ELSE disk' = known /\ saveDue' = FALSE

\* The rest of _async_setup.
SetupEnds ==
    phase = "setup" /\ phase' = "ready" /\ UNCHANGED <<reloadDue, entityVars, registry>>

\* The rest of async_scan_devices: forget what is gone, tell the platforms.
ScanEnds(job, known) ==
    phase = "loaded" /\ Sync(devices, known, Forgotten(job.removed))
                     /\ UNCHANGED <<phase, reloadDue>>

\* The rest of async_refresh_capabilities.
RefreshEnds(job) ==
    reloadDue' = (reloadDue \/ job.changed) /\ UNCHANGED <<phase, entityVars, registry>>

\* The loop of run `r' goes on with the profiles `known'.
GoesOn(r, job, known) ==
    \/ \E d \in Due(job, known) :
        /\ jobs' = [jobs EXCEPT ![r] = Asking(job, d, known)]
        /\ UNCHANGED <<disk, saveDue, reloadDue, phase, entityVars, registry>>
    \/ /\ Due(job, known) = {}
       /\ Save(known)
       /\ jobs' = [jobs EXCEPT ![r] = Idle]
       /\ \/ r = "inventory" /\ (SetupEnds \/ ScanEnds(job, known))
          \/ r = "refresh" /\ RefreshEnds(job)

-----------------------------------------------------------------------------
(* The setup and the scan. *)

\* _async_setup up to the cache file: the inventory is read and the registry pruned.
SetupListed ==
    /\ phase = "down"
    /\ phase' = "setup"
    /\ devices' = Account
    /\ registry' = Pruned(Account)
    /\ jobs' = [jobs EXCEPT !["inventory"] = [Idle EXCEPT !.at = "load"]]
    /\ UNCHANGED <<bond, disk, orphans, profiles, status, saveDue, reloadDue,
                   entityVars, rescanned>>

\* async_scan_devices up to its first await after the inventory, which it reaches only
\* when an appliance is new.
ScanListed ==
    LET removed == devices \ Account IN
    /\ phase = "loaded" /\ jobs["inventory"].at = "idle" /\ Account # devices
    /\ devices' = Account
    /\ IF Account \subseteq devices
       THEN Sync(Account, profiles, Forgotten(removed)) /\ UNCHANGED jobs
       ELSE /\ jobs' = [jobs EXCEPT !["inventory"] =
                           [Idle EXCEPT !.at = "load", !.removed = removed]]
            /\ UNCHANGED <<seen, built, registry>>
    /\ UNCHANGED <<bond, disk, orphans, phase, profiles, status, saveDue, reloadDue,
                   rescanned>>

\* _async_read_cache: the store answers with what it has yet to write.
Stored == IF saveDue THEN profiles ELSE disk

\* _async_load_capabilities after it.
CacheLoaded ==
    /\ jobs["inventory"].at = "load"
    /\ profiles' = Stored
    /\ rescanned' = (phase = "loaded")
    /\ GoesOn("inventory", [jobs["inventory"] EXCEPT !.at = "idle", !.left = devices], Stored)
    /\ UNCHANGED <<bond, orphans, devices, status>>

\* The first poll succeeds and the platforms are set up: the appliances of the
\* inventory report the attributes `said'.
SetupCompletes(said) ==
    /\ phase = "ready"
    /\ phase' = "loaded"
    /\ \A d \in Devices \ devices : said[d] = {}
    /\ status' = said
    /\ Absorb(devices, said)
    /\ Sync(devices, Absorbed(devices, said), registry)
    /\ UNCHANGED <<bond, disk, orphans, devices, taskVars>>

\* The first poll fails: Home Assistant discards the coordinator and tries again.
SetupFails ==
    /\ phase = "ready"
    /\ Discarded("down")
    /\ UNCHANGED worldVars

-----------------------------------------------------------------------------
(* Readings. *)

\* A poll in which `d' answers with the attributes `keys': its reading is replaced, every
\* reading absorbed and the listeners told.
PollAnswered(d, keys) ==
    LET now == [status EXCEPT ![d] = keys] IN
    /\ phase = "loaded" /\ d \in devices
    /\ status' = now
    /\ Absorb(devices, now)
    /\ Sync(devices, Absorbed(devices, now), registry)
    /\ UNCHANGED <<bond, disk, orphans, phase, devices, taskVars>>

\* _handle_push: a frame adds to the reading of an appliance that has one.
PushFrame(d, keys) ==
    LET now == [status EXCEPT ![d] = @ \cup keys] IN
    /\ phase = "loaded" /\ status[d] # {}
    /\ status' = now
    /\ Absorb({d}, now)
    /\ Sync(devices, Absorbed({d}, now), registry)
    /\ UNCHANGED <<bond, disk, orphans, phase, devices, taskVars>>

\* async_delay_save fires.
DelayedSave ==
    /\ saveDue
    /\ disk' = profiles /\ saveDue' = FALSE
    /\ UNCHANGED <<bond, orphans, registry, phase, devices, profiles, status, reloadDue,
                   entityVars, taskVars>>

-----------------------------------------------------------------------------
(* The refresh of the profiles and the answers of the resolver chain. *)

\* async_refresh_capabilities, from the service (force) or the revalidation timer.
RefreshBegins(force) ==
    /\ phase = "loaded" /\ jobs["refresh"].at = "idle"
    /\ GoesOn("refresh", [Idle EXCEPT !.left = devices, !.force = force], profiles)
    /\ UNCHANGED <<bond, orphans, devices, profiles, status, rescanned>>

\* As below, but under the appliance asked about instead of its profile key.
LearnsByAppliance(r, p) ==
    LET job   == jobs[r]
        known == [m \in Models \cup {job.dev} |-> IF m = job.dev THEN p ELSE profiles[m]] IN
    /\ profiles' = known
    /\ GoesOn(r, [job EXCEPT !.changed = @ \/ Differs(job.cached, p)], known)

\* Run `r' learns the profile `p' and goes on.
Learns(r, p) ==
    LET job   == jobs[r]
        known == [profiles EXCEPT ![ModelOf[job.dev]] = p] IN
    /\ profiles' = known
    /\ GoesOn(r, [job EXCEPT !.changed = @ \/ Differs(job.cached, p)], known)

\* The attributes the presence rules see: those known before the request, or those the
\* status provider asks for.
Present(job, keys) == IF job.known # {} THEN job.known ELSE keys

\* The capability dictionary answers with the features `flags', which may be none: an
\* empty list is accepted (_split_dict_payload).
DictionaryAnswers(r, flags, keys) ==
    LET job == jobs[r] IN
    /\ job.at = "asked"
    /\ Learns(r, Resolved(flags, Present(job, keys), job.cached))
    /\ UNCHANGED <<bond, orphans, devices, status, rescanned>>

\* It does not, or with an object that carries nothing: the chain raises if no attribute is
\* known either, and otherwise returns what the attributes alone tell.
DictionaryFails(r, keys) ==
    LET job == jobs[r] IN
    /\ job.at = "asked"
    /\ IF Present(job, keys) = {}
       THEN GoesOn(r, job, profiles) /\ UNCHANGED profiles
       ELSE Learns(r, Resolved({}, Present(job, keys), job.cached))
    /\ UNCHANGED <<bond, orphans, devices, status, rescanned>>

-----------------------------------------------------------------------------
(* The end of a coordinator. *)

\* As below, but a discarded coordinator cancels its delayed save.
NothingLeft == orphans

\* What a discarded coordinator still writes: its delayed save, or that of the loop it
\* was in, whose requests fail once the client is closed.
LeftBehind ==
    IF profiles # Empty /\ (saveDue \/ \E r \in Runs : jobs[r].at = "asked")
    THEN orphans \cup {profiles} ELSE orphans

\* The scheduled reload, or one by hand.
Reload ==
    /\ phase = "loaded"
    /\ Cardinality(LeftBehind) <= OrphanCap
    /\ orphans' = LeftBehind
    /\ Discarded("down")
    /\ UNCHANGED <<bond, disk, registry>>

ReloadScheduled == reloadDue /\ Reload
ReloadByHand    == ~reloadDue /\ Reload

OrphanWrites ==
    \E snapshot \in orphans :
        /\ disk' = snapshot /\ orphans' = orphans \ {snapshot}
        /\ UNCHANGED <<bond, registry, entryVars, entityVars, taskVars>>

\* Home Assistant stops: it writes what is due, or has no time to.
Stop ==
    /\ phase # "off"
    /\ disk' \in {disk} \cup orphans \cup (IF saveDue THEN {profiles} ELSE {})
    /\ orphans' = {}
    /\ Discarded("off")
    /\ UNCHANGED <<bond, registry>>

Start ==
    /\ phase = "off" /\ phase' = "down"
    /\ UNCHANGED <<worldVars, devices, profiles, status, saveDue, reloadDue,
                   entityVars, taskVars>>

-----------------------------------------------------------------------------
(* The world. *)

Bind(d)   == /\ bond[d] = "new" /\ bond' = [bond EXCEPT ![d] = "bound"]
             /\ UNCHANGED <<disk, orphans, registry, entryVars, entityVars, taskVars>>
Unbind(d) == /\ bond[d] = "bound" /\ bond' = [bond EXCEPT ![d] = "gone"]
             /\ UNCHANGED <<disk, orphans, registry, entryVars, entityVars, taskVars>>

\* The TTL passes while nothing else is going on.
TtlPasses ==
    LET Aged(cache) == [m \in Models |-> IF cache[m] = NoProfile THEN NoProfile
                                         ELSE [cache[m] EXCEPT !.stale = TRUE]] IN
    /\ phase \in {"off", "loaded"} /\ ~saveDue /\ ~reloadDue /\ orphans = {}
    /\ \A r \in Runs : jobs[r].at = "idle"
    /\ profiles' = Aged(profiles) /\ disk' = Aged(disk)
    /\ UNCHANGED <<bond, orphans, registry, phase, devices, status, saveDue, reloadDue,
                   entityVars, taskVars>>

\* async_remove_config_entry_device: a person deletes an appliance the inventory lacks.
PersonDeletes(d) ==
    /\ phase = "loaded" /\ d \in registry \ devices
    /\ registry' = registry \ {d}
    /\ UNCHANGED <<bond, disk, orphans, entryVars, entityVars, taskVars>>

Next ==
    \/ SetupListed \/ ScanListed \/ CacheLoaded \/ SetupFails
    \/ \E said \in [Devices -> SUBSET Keys] : SetupCompletes(said)
    \/ \E d \in Devices, keys \in SUBSET Keys : PollAnswered(d, keys) \/ PushFrame(d, keys)
    \/ DelayedSave
    \/ \E force \in BOOLEAN : RefreshBegins(force)
    \/ \E r \in Runs, keys \in SUBSET Keys :
        \/ DictionaryFails(r, keys)
        \/ \E flags \in SUBSET Flags : DictionaryAnswers(r, flags, keys)
    \/ ReloadScheduled \/ ReloadByHand \/ OrphanWrites \/ Stop \/ Start
    \/ \E d \in Devices : Bind(d) \/ Unbind(d) \/ PersonDeletes(d)
    \/ TtlPasses

Spec == Init /\ [][Next]_vars

\* Requests end, armed timers fire, a setup is retried and a scheduled reload is made.
Fairness ==
    /\ WF_vars(SetupListed) /\ WF_vars(CacheLoaded)
    /\ WF_vars(SetupFails \/ \E said \in [Devices -> SUBSET Keys] : SetupCompletes(said))
    /\ \A r \in Runs :
        WF_vars(\E keys \in SUBSET Keys :
                    \/ DictionaryFails(r, keys)
                    \/ \E flags \in SUBSET Flags : DictionaryAnswers(r, flags, keys))
    /\ WF_vars(DelayedSave) /\ WF_vars(ReloadScheduled) /\ WF_vars(OrphanWrites)

FairSpec == Spec /\ Fairness

-----------------------------------------------------------------------------
\* Between scans, every appliance of the inventory has been offered to the platforms,
\* and the device registry holds these and no other: nothing is left behind by an
\* unbinding, whenever it happened, and nothing bound is missing
\* (_async_prune_registry, _async_forget_devices, _sync).
EntitiesFollowInventory ==
    phase = "loaded" /\ jobs["inventory"].at = "idle" =>
        devices \subseteq seen /\ registry = devices

\* An appliance the account still lists never loses its device registry entry, and with
\* it the names and areas people gave it: not by a setup that prunes, not by the end of a
\* scan that forgets what it found missing before its requests, and not by a person who
\* deletes while a scan is under way (async_remove_config_entry_device: "it must answer
\* no for a live appliance").
LiveNeverForgotten == [][registry \cap Account \subseteq registry']_vars

\* Unless a reload is on its way, the entities are those the profiles in memory call for,
\* though profiles change by polls, frames and refreshes in any order.  (Once a scan has
\* loaded the cache it need not hold: the scan ignores what its loop reports changed.)
EntitiesCurrent ==
    phase = "loaded" /\ ~reloadDue /\ ~rescanned /\ jobs["refresh"].at = "idle" =>
        \A d \in devices \cap seen : built[d] = Gates(profiles[ModelOf[d]])

\* Each reload starts from the cache file, which may lack what caused it; yet reloads come
\* to an end once nobody asks for a reload, a scan or a refresh, neither the timers of
\* hours and days (revalidation, TTL) nor a restart come between, and resolving a
\* profile does not keep failing.  (Each setup saves a stale profile it cannot resolve
\* again, over what the coordinator before it had learnt.)
Disturbed ==
    \/ ReloadByHand \/ ScanListed \/ TtlPasses \/ Stop
    \/ ~DelayedSave /\ \E force \in BOOLEAN : RefreshBegins(force)
    \/ \E r \in Runs : jobs[r].known = {} /\ DictionaryFails(r, {})

ReloadsSettle == <>[][~Disturbed]_vars => <>[](~reloadDue)

\* "A cloud failure must never silently strip a device of its gated entities"
\* (tests/test_capability_cache.py): a request the cloud fails takes nothing from what a
\* profile is gated by.
FailureStripsNothing ==
    [][\A r \in Runs : (\E keys \in SUBSET Keys : DictionaryFails(r, keys)) =>
        Gates(profiles[ModelOf[jobs[r].dev]]) \subseteq
            Gates(profiles'[ModelOf[jobs[r].dev]])]_vars
=============================================================================
