--------------------------- MODULE Inventory_proofs ---------------------------
(***************************************************************************)
(* Proofs about Inventory, for any appliances, models, attributes, flags   *)
(* and gates: the types, that entities and the device registry follow the  *)
(* inventory and lose nothing of it, and that entities outlive no change   *)
(* of their profile without a reload on its way.                           *)
(***************************************************************************)
EXTENDS Inventory, TLAPS

Scan == jobs["inventory"]

\* Expanded throughout: what is kept of the registry, what the store answers.
USE DEF Pruned, Forgotten, Stored

\* What makes EntitiesFollowInventory inductive: an appliance that left the inventory is
\* gone for good and is either forgotten or about to be.
Followed ==
    /\ \A d \in devices : bond[d] # "new"
    /\ \A d \in Scan.removed : bond[d] = "gone" /\ d \notin devices
    /\ phase \notin {"off", "down"} => registry \subseteq devices \cup Scan.removed
    /\ \A d \in seen : d \in registry \/ (bond[d] = "gone" /\ d \notin devices)
    /\ phase = "loaded" /\ Scan.at = "idle" => devices \subseteq seen
    /\ Scan.at = "idle" => Scan.removed = {}
    /\ phase # "loaded" => seen = {} /\ Scan.removed = {}

Settled == phase = "loaded" /\ ~reloadDue /\ ~rescanned

\* What makes EntitiesCurrent inductive: a refresh that has changed a gate knows it, and
\* the profile it read before its request still gates the same.
Current ==
    LET job == jobs["refresh"] IN
    /\ Settled =>
        /\ \A d \in devices \cap seen :
              built[d] = Gates(profiles[ModelOf[d]]) \/ (job.at # "idle" /\ job.changed)
        /\ job.at = "asked" => Gates(job.cached) = Gates(profiles[ModelOf[job.dev]])
    /\ phase = "loaded" /\ Scan.at = "asked" => rescanned
    /\ phase = "ready" => Scan.at = "idle"
    /\ phase # "loaded" => job.at = "idle"

IInv == TypeOK /\ Followed /\ Current

-----------------------------------------------------------------------------
(* Types. *)

Phases == {"off", "down", "setup", "ready", "loaded"}

LEMMA IdleTyped == Idle \in Jobs /\ [r \in Runs |-> Idle] \in [Runs -> Jobs]
<1>1. (CHOOSE d \in Devices : TRUE) \in Devices BY DeviceAssumption
<1>. QED BY <1>1 DEF Idle, Jobs, MaybeProfile

LEMMA EmptyTyped ==
    Empty \in Caches /\ [d \in Devices |-> {}] \in [Devices -> SUBSET Keys]
                     /\ [d \in Devices |-> {}] \in [Devices -> SUBSET Tokens]
BY DEF Empty, Caches, MaybeProfile

\* What gates an appliance's entities is always a set of tokens.
LEMMA GatesTyped == ASSUME NEW p PROVE Gates(p) \in SUBSET Tokens
BY DEF Gates, Tokens

\* What the chain returns, united with the fields known before, is a profile.
LEMMA ResolvedTyped ==
    ASSUME NEW flags \in SUBSET Flags, NEW keys \in SUBSET Keys, NEW cached \in MaybeProfile
    PROVE  Resolved(flags, keys, cached) \in Profile
<1>1. UNION {Rule[k] : k \in keys} \in SUBSET Tokens
      BY RuleAssumption DEF Tokens
<1>2. flags \cup UNION {Rule[k] : k \in keys} \in SUBSET Tokens
      BY <1>1 DEF Tokens
<1>3. (IF cached = NoProfile THEN {} ELSE cached.fields) \in SUBSET Keys
      BY DEF MaybeProfile, Profile
<1>. QED BY <1>2, <1>3 DEF Resolved, Profile

\* Absorbing what was reported turns profiles into profiles.
LEMMA AbsorbedTyped ==
    ASSUME NEW ds, NEW st \in [Devices -> SUBSET Keys], TypeOK
    PROVE  Absorbed(ds, st) \in Caches
<1>1. SUFFICES ASSUME NEW m \in Models, profiles[m] # NoProfile
               PROVE  WithFields(profiles[m],
                        UNION {st[d] : d \in {e \in ds \cap devices : ModelOf[e] = m}}) \in Profile
      BY DEF Absorbed, Caches, MaybeProfile
<1>. DEFINE reported == UNION {st[d] : d \in {e \in ds \cap devices : ModelOf[e] = m}}
<1>2. reported \in SUBSET Keys BY DEF TypeOK
<1>3. profiles[m] \in Profile BY <1>1 DEF TypeOK, Caches, MaybeProfile
<1>. HIDE DEF reported
<1>4. WithFields(profiles[m], reported) \in Profile BY <1>2, <1>3 DEF WithFields, Profile
<1>. QED BY <1>4 DEF reported

\* What Sync leaves well formed.
LEMMA SyncTyped ==
    ASSUME TypeOK, NEW inventory \in SUBSET Devices, NEW known, NEW kept \in SUBSET Devices,
           Sync(inventory, known, kept)
    PROVE  seen' \subseteq Devices /\ built' \in [Devices -> SUBSET Tokens]
           /\ registry' \subseteq Devices
<1>1. \A d \in Devices : Gates(known[ModelOf[d]]) \in SUBSET Tokens BY GatesTyped
<1>2. built' \in [Devices -> SUBSET Tokens] BY <1>1 DEF Sync, TypeOK
<1>. QED BY <1>2 DEF Sync, TypeOK

\* What the loop of a job leaves well formed.
LEMMA GoesOnTyped ==
    ASSUME TypeOK, NEW r \in Runs, NEW job \in Jobs, NEW known \in Caches,
           GoesOn(r, job, known)
    PROVE  /\ jobs' \in [Runs -> Jobs]
           /\ disk' \in Caches /\ saveDue' \in BOOLEAN /\ reloadDue' \in BOOLEAN
           /\ phase' \in Phases
           /\ seen' \subseteq Devices /\ built' \in [Devices -> SUBSET Tokens]
           /\ registry' \subseteq Devices
<1>1. CASE \E d \in Due(job, known) :
              /\ jobs' = [jobs EXCEPT ![r] = Asking(job, d, known)]
              /\ UNCHANGED <<disk, saveDue, reloadDue, phase, entityVars, registry>>
  <2>1. PICK d \in Due(job, known) :
              /\ jobs' = [jobs EXCEPT ![r] = Asking(job, d, known)]
              /\ UNCHANGED <<disk, saveDue, reloadDue, phase, entityVars, registry>>
        BY <1>1
  <2>2. d \in Devices BY DEF Due, Jobs
  <2>3. known[ModelOf[d]] \in MaybeProfile BY <2>2, ModelAssumption DEF Caches
  <2>4. status[d] \in SUBSET Keys BY <2>2 DEF TypeOK
  <2>5. {e \in job.left : ModelOf[e] # ModelOf[d]} \in SUBSET Devices BY DEF Jobs
  <2>6. Asking(job, d, known) \in Jobs BY <2>2, <2>3, <2>4, <2>5 DEF Asking, Jobs
  <2>. QED BY <2>1, <2>6 DEF TypeOK, Phases, entityVars
<1>2. CASE /\ Due(job, known) = {}
           /\ Save(known)
           /\ jobs' = [jobs EXCEPT ![r] = Idle]
           /\ \/ r = "inventory" /\ (SetupEnds \/ ScanEnds(job, known))
              \/ r = "refresh" /\ RefreshEnds(job)
  <2>1. jobs' \in [Runs -> Jobs] BY <1>2, IdleTyped DEF TypeOK
  <2>2. disk' \in Caches /\ saveDue' \in BOOLEAN BY <1>2 DEF Save, TypeOK
  <2>3. CASE SetupEnds
        BY <2>1, <2>2, <2>3 DEF SetupEnds, TypeOK, Phases, entityVars
  <2>4. CASE ScanEnds(job, known)
    <3>1. Forgotten(job.removed) \in SUBSET Devices BY DEF TypeOK
    <3>2. Sync(devices, known, Forgotten(job.removed)) BY <2>4 DEF ScanEnds
    <3>3. devices \in SUBSET Devices BY DEF TypeOK
    <3>4. seen' \subseteq Devices /\ built' \in [Devices -> SUBSET Tokens]
          /\ registry' \subseteq Devices
          BY <3>1, <3>2, <3>3, SyncTyped
    <3>. QED BY <2>1, <2>2, <2>4, <3>4 DEF ScanEnds, TypeOK, Phases
  <2>5. CASE RefreshEnds(job)
        BY <2>1, <2>2, <2>5 DEF RefreshEnds, TypeOK, Phases, entityVars, Jobs
  <2>. QED BY <1>2, <2>3, <2>4, <2>5
<1>. QED BY <1>1, <1>2 DEF GoesOn

\* A job that has learnt a profile goes on well formed.
LEMMA LearnsTyped ==
    ASSUME TypeOK, NEW r \in Runs, NEW p \in Profile, Learns(r, p)
    PROVE  /\ profiles' \in Caches
           /\ jobs' \in [Runs -> Jobs]
           /\ disk' \in Caches /\ saveDue' \in BOOLEAN /\ reloadDue' \in BOOLEAN
           /\ phase' \in Phases
           /\ seen' \subseteq Devices /\ built' \in [Devices -> SUBSET Tokens]
           /\ registry' \subseteq Devices
<1>. DEFINE known == [profiles EXCEPT ![ModelOf[jobs[r].dev]] = p]
            told  == [jobs[r] EXCEPT !.changed = @ \/ Differs(jobs[r].cached, p)]
<1>1. known \in Caches BY DEF TypeOK, Caches, MaybeProfile
<1>2. jobs[r] \in Jobs BY DEF TypeOK
<1>3. (jobs[r].changed \/ Differs(jobs[r].cached, p)) \in BOOLEAN BY <1>2 DEF Jobs, Differs
<1>4. told \in Jobs BY <1>2, <1>3 DEF Jobs
<1>5. profiles' = known /\ GoesOn(r, told, known) BY DEF Learns
<1>. HIDE DEF known, told
<1>. QED BY <1>1, <1>4, <1>5, GoesOnTyped

\* Absorbing and building leave the entry well formed.
LEMMA ReadingTyped ==
    ASSUME TypeOK, NEW ds, NEW st \in [Devices -> SUBSET Keys],
           Absorb(ds, st), Sync(devices, Absorbed(ds, st), registry)
    PROVE  /\ profiles' \in Caches /\ saveDue' \in BOOLEAN /\ reloadDue' \in BOOLEAN
           /\ seen' \subseteq Devices /\ built' \in [Devices -> SUBSET Tokens]
           /\ registry' \subseteq Devices
<1>1. profiles' \in Caches /\ saveDue' \in BOOLEAN /\ reloadDue' \in BOOLEAN
      BY AbsorbedTyped DEF Absorb, TypeOK
<1>2. devices \in SUBSET Devices /\ registry \in SUBSET Devices BY DEF TypeOK
<1>. QED BY <1>1, <1>2, SyncTyped

LEMMA DiscardedTyped ==
    ASSUME NEW without \in Phases, Discarded(without)
    PROVE  /\ phase' \in Phases /\ devices' \subseteq Devices /\ profiles' \in Caches
           /\ status' \in [Devices -> SUBSET Keys]
           /\ saveDue' \in BOOLEAN /\ reloadDue' \in BOOLEAN
           /\ seen' \subseteq Devices /\ built' \in [Devices -> SUBSET Tokens]
           /\ jobs' \in [Runs -> Jobs] /\ rescanned' \in BOOLEAN
BY IdleTyped, EmptyTyped DEF Discarded

\* Every step keeps the types.
LEMMA TypeStep == TypeOK /\ [Next]_vars => TypeOK'
<1>1. SUFFICES ASSUME TypeOK, [Next]_vars PROVE TypeOK' OBVIOUS
<1>. USE DEF worldVars, entryVars, entityVars, taskVars
<1>2. Account \in SUBSET Devices BY DEF Account
<1>3. CASE SetupListed
  <2>1. [Idle EXCEPT !.at = "load"] \in Jobs BY IdleTyped DEF Jobs
  <2>. QED BY <1>1, <1>2, <1>3, <2>1 DEF SetupListed, TypeOK
<1>4. CASE ScanListed
  <2>1. [Idle EXCEPT !.at = "load", !.removed = devices \ Account] \in Jobs
        BY <1>1, IdleTyped DEF Jobs, TypeOK
  <2>2. CASE Account \subseteq devices
    <3>1. Sync(Account, profiles, Forgotten(devices \ Account)) /\ UNCHANGED jobs
          BY <1>4, <2>2 DEF ScanListed
    <3>2. Forgotten(devices \ Account) \in SUBSET Devices BY <1>1 DEF TypeOK
    <3>3. seen' \subseteq Devices /\ built' \in [Devices -> SUBSET Tokens]
          /\ registry' \subseteq Devices
          BY <1>1, <1>2, <3>1, <3>2, SyncTyped
    <3>. QED BY <1>1, <1>2, <1>4, <3>1, <3>3 DEF ScanListed, TypeOK
  <2>3. CASE ~(Account \subseteq devices)
        BY <1>1, <1>2, <1>4, <2>1, <2>3 DEF ScanListed, TypeOK
  <2>. QED BY <2>2, <2>3
<1>5. CASE CacheLoaded
  <2>. DEFINE known == Stored
              job   == [jobs["inventory"] EXCEPT !.at = "idle", !.left = devices]
  <2>1. known \in Caches BY <1>1 DEF TypeOK
  <2>2. "inventory" \in Runs BY DEF Runs
  <2>3. job \in Jobs BY <1>1, <2>2 DEF TypeOK, Jobs
  <2>4. GoesOn("inventory", job, known) BY <1>5 DEF CacheLoaded
  <2>5. profiles' = known /\ rescanned' \in BOOLEAN
        /\ UNCHANGED <<bond, orphans, devices, status>>
        BY <1>5 DEF CacheLoaded
  <2>. HIDE DEF known, job
  <2>. QED BY <1>1, <2>1, <2>2, <2>3, <2>4, <2>5, GoesOnTyped DEF TypeOK, Phases
<1>6. CASE SetupFails
      BY <1>1, <1>6, DiscardedTyped DEF SetupFails, TypeOK, Phases
<1>7. ASSUME NEW said \in [Devices -> SUBSET Keys], SetupCompletes(said) PROVE TypeOK'
      BY <1>1, <1>7, ReadingTyped DEF SetupCompletes, TypeOK
<1>8. ASSUME NEW d \in Devices, NEW keys \in SUBSET Keys, PollAnswered(d, keys) PROVE TypeOK'
  <2>1. [status EXCEPT ![d] = keys] \in [Devices -> SUBSET Keys] BY <1>1 DEF TypeOK
  <2>. QED BY <1>1, <1>8, <2>1, ReadingTyped DEF PollAnswered, TypeOK
<1>9. ASSUME NEW d \in Devices, NEW keys \in SUBSET Keys, PushFrame(d, keys) PROVE TypeOK'
  <2>1. [status EXCEPT ![d] = @ \cup keys] \in [Devices -> SUBSET Keys] BY <1>1 DEF TypeOK
  <2>. QED BY <1>1, <1>9, <2>1, ReadingTyped DEF PushFrame, TypeOK
<1>10. CASE DelayedSave BY <1>1, <1>10 DEF DelayedSave, TypeOK
<1>11. ASSUME NEW force \in BOOLEAN, RefreshBegins(force) PROVE TypeOK'
  <2>. DEFINE job == [Idle EXCEPT !.left = devices, !.force = force]
  <2>1. job \in Jobs BY <1>1, IdleTyped DEF Jobs, TypeOK
  <2>2. "refresh" \in Runs BY DEF Runs
  <2>3. GoesOn("refresh", job, profiles)
        /\ UNCHANGED <<bond, orphans, devices, profiles, status, rescanned>>
        BY <1>11 DEF RefreshBegins
  <2>. HIDE DEF job
  <2>. QED BY <1>1, <2>1, <2>2, <2>3, GoesOnTyped DEF TypeOK, Phases
<1>12. ASSUME NEW r \in Runs, NEW keys \in SUBSET Keys, NEW flags \in SUBSET Flags
       PROVE  Resolved(flags, Present(jobs[r], keys), jobs[r].cached) \in Profile
  <2>1. jobs[r] \in Jobs BY <1>1 DEF TypeOK
  <2>2. Present(jobs[r], keys) \in SUBSET Keys BY <2>1 DEF Present, Jobs
  <2>3. jobs[r].cached \in MaybeProfile BY <2>1 DEF Jobs
  <2>. QED BY <2>2, <2>3, ResolvedTyped
<1>13. ASSUME NEW r \in Runs, NEW keys \in SUBSET Keys, NEW flags \in SUBSET Flags,
              DictionaryAnswers(r, flags, keys)
       PROVE  TypeOK'
  <2>. DEFINE p == Resolved(flags, Present(jobs[r], keys), jobs[r].cached)
  <2>1. p \in Profile BY <1>12
  <2>2. Learns(r, p) /\ UNCHANGED <<bond, orphans, devices, status, rescanned>>
        BY <1>13 DEF DictionaryAnswers
  <2>. HIDE DEF p
  <2>. QED BY <1>1, <2>1, <2>2, LearnsTyped DEF TypeOK, Phases
<1>14. ASSUME NEW r \in Runs, NEW keys \in SUBSET Keys, DictionaryFails(r, keys)
       PROVE  TypeOK'
  <2>. DEFINE p == Resolved({}, Present(jobs[r], keys), jobs[r].cached)
  <2>1. p \in Profile BY <1>12
  <2>2. UNCHANGED <<bond, orphans, devices, status, rescanned>>
        BY <1>14 DEF DictionaryFails
  <2>3. CASE Learns(r, p)
    <3>. HIDE DEF p
    <3>. QED BY <1>1, <2>1, <2>2, <2>3, LearnsTyped DEF TypeOK, Phases
  <2>4. CASE GoesOn(r, jobs[r], profiles) /\ UNCHANGED profiles
    <3>1. jobs[r] \in Jobs /\ profiles \in Caches BY <1>1 DEF TypeOK
    <3>. QED BY <1>1, <2>2, <2>4, <3>1, GoesOnTyped DEF TypeOK, Phases
  <2>. QED BY <1>14, <2>3, <2>4 DEF DictionaryFails
<1>15. CASE ReloadScheduled \/ ReloadByHand
  <2>1. LeftBehind \subseteq Caches BY <1>1 DEF LeftBehind, TypeOK
  <2>. QED BY <1>1, <1>15, <2>1, DiscardedTyped
           DEF ReloadScheduled, ReloadByHand, Reload, TypeOK, Phases
<1>16. CASE OrphanWrites BY <1>1, <1>16 DEF OrphanWrites, TypeOK
<1>17. CASE Stop
  <2>1. disk' \in Caches BY <1>1, <1>17 DEF Stop, TypeOK
  <2>2. orphans' = {} /\ Discarded("off") /\ UNCHANGED <<bond, registry>> BY <1>17 DEF Stop
  <2>. QED BY <1>1, <2>1, <2>2, DiscardedTyped DEF TypeOK, Phases
<1>18. CASE Start BY <1>1, <1>18 DEF Start, TypeOK
<1>19. ASSUME NEW d \in Devices, Bind(d) \/ Unbind(d) \/ PersonDeletes(d) PROVE TypeOK'
       BY <1>1, <1>19 DEF Bind, Unbind, PersonDeletes, TypeOK
<1>20. CASE TtlPasses
  <2>. DEFINE Aged(cache) == [m \in Models |-> IF cache[m] = NoProfile THEN NoProfile
                                               ELSE [cache[m] EXCEPT !.stale = TRUE]]
  <2>1. ASSUME NEW cache \in Caches PROVE Aged(cache) \in Caches
        BY DEF Caches, MaybeProfile, Profile
  <2>2. profiles' = Aged(profiles) /\ disk' = Aged(disk) BY <1>20 DEF TtlPasses
  <2>3. profiles' \in Caches /\ disk' \in Caches BY <1>1, <2>1, <2>2 DEF TypeOK
  <2>4. UNCHANGED <<bond, orphans, registry, phase, devices, status, saveDue, reloadDue,
                    entityVars, taskVars>>
        BY <1>20 DEF TtlPasses
  <2>. HIDE DEF Aged
  <2>. QED BY <1>1, <2>3, <2>4 DEF TypeOK
<1>21. CASE UNCHANGED vars BY <1>1, <1>21 DEF vars, TypeOK
<1>. QED BY <1>1, <1>3, <1>4, <1>5, <1>6, <1>7, <1>8, <1>9, <1>10, <1>11, <1>13, <1>14,
            <1>15, <1>16, <1>17, <1>18, <1>19, <1>20, <1>21 DEF Next

LEMMA TypeInit == Init => TypeOK
BY IdleTyped, EmptyTyped DEF Init, TypeOK

\* Every variable keeps its type; in particular whatever a refresh, a cache file or a
\* reading does to a profile, what it publishes as reported are status attributes.
THEOREM TypeCorrect == Spec => []TypeOK
BY TypeInit, TypeStep, PTL DEF Spec
-----------------------------------------------------------------------------
(* The entities and the registry follow the inventory. *)

\* The loop of a run leaves them following; the scan that ends forgets and tells.
LEMMA GoesOnFollowed ==
    ASSUME TypeOK, Followed, NEW r \in Runs, NEW job, NEW known,
           GoesOn(r, job, known), job.removed = jobs[r].removed,
           UNCHANGED <<bond, devices>>
    PROVE  Followed'
<1>. USE DEF Runs
<1>1. CASE \E d \in Due(job, known) :
              /\ jobs' = [jobs EXCEPT ![r] = Asking(job, d, known)]
              /\ UNCHANGED <<disk, saveDue, reloadDue, phase, entityVars, registry>>
  <2>1. jobs \in [Runs -> Jobs] BY DEF TypeOK
  <2>2. Scan'.removed = Scan.removed /\ (Scan'.at = "idle" => Scan.at = "idle")
        BY <1>1, <2>1 DEF Asking, Scan
  <2>. QED BY <1>1, <2>2 DEF Followed, entityVars
<1>2. CASE /\ Due(job, known) = {}
           /\ Save(known)
           /\ jobs' = [jobs EXCEPT ![r] = Idle]
           /\ \/ r = "inventory" /\ (SetupEnds \/ ScanEnds(job, known))
              \/ r = "refresh" /\ RefreshEnds(job)
  <2>1. jobs \in [Runs -> Jobs] BY DEF TypeOK
  <2>2. CASE r = "refresh" /\ RefreshEnds(job)
    <3>1. Scan' = Scan BY <1>2, <2>1, <2>2 DEF Scan
    <3>. QED BY <2>2, <3>1 DEF Followed, RefreshEnds, entityVars
  <2>3. CASE r = "inventory" /\ (SetupEnds \/ ScanEnds(job, known))
    <3>1. Scan'.removed = {} /\ Scan'.at = "idle" BY <1>2, <2>1, <2>3 DEF Idle, Scan
    <3>2. CASE SetupEnds BY <3>1, <3>2 DEF Followed, SetupEnds, entityVars
    <3>3. CASE ScanEnds(job, known)
          BY <2>3, <3>1, <3>3 DEF Followed, ScanEnds, Sync, Scan
    <3>. QED BY <2>3, <3>2, <3>3
  <2>. QED BY <1>2, <2>2, <2>3
<1>. QED BY <1>1, <1>2 DEF GoesOn

LEMMA DiscardedFollowed ==
    ASSUME NEW without \in {"off", "down"}, Discarded(without) PROVE Followed'
<1>1. Scan'.removed = {} BY DEF Discarded, Scan, Runs, Idle
<1>. QED BY <1>1 DEF Discarded, Followed

\* Every step keeps them following.
LEMMA FollowedStep == TypeOK /\ Followed /\ [Next]_vars => Followed'
<1>1. SUFFICES ASSUME TypeOK, Followed, [Next]_vars PROVE Followed' OBVIOUS
<1>. USE DEF worldVars, entryVars, entityVars, taskVars
<1>2. jobs \in [Runs -> Jobs] BY <1>1 DEF TypeOK
<1>3. CASE SetupListed
  <2>1. Scan'.removed = {} /\ Scan'.at = "load"
        BY <1>2, <1>3 DEF SetupListed, Scan, Runs, Idle
  <2>. QED BY <1>1, <1>3, <2>1 DEF SetupListed, Followed, Account
<1>4. CASE ScanListed
  <2>. DEFINE removed == devices \ Account
  <2>1. Scan.at = "idle" /\ Scan.removed = {} /\ phase = "loaded" /\ devices' = Account
        BY <1>1, <1>4 DEF ScanListed, Scan, Followed
  <2>2. \A d \in removed : bond[d] = "gone" BY <1>1 DEF Account, TypeOK, Followed
  <2>3. registry \subseteq devices BY <1>1, <2>1 DEF Followed
  <2>4. CASE Account \subseteq devices
    <3>1. Sync(Account, profiles, Forgotten(removed)) /\ Scan' = Scan /\ bond' = bond
          /\ phase' = phase
          BY <1>4, <2>4 DEF ScanListed, Scan
    <3>. QED BY <1>1, <2>1, <2>2, <2>3, <2>4, <3>1 DEF Followed, Sync, Account
  <2>5. CASE ~(Account \subseteq devices)
    <3>1. Scan'.removed = removed /\ Scan'.at = "load"
          BY <1>2, <1>4, <2>5 DEF ScanListed, Scan, Runs, Idle
    <3>2. UNCHANGED <<seen, built, registry, bond, phase>> BY <1>4, <2>5 DEF ScanListed
    <3>. QED BY <1>1, <2>1, <2>2, <2>3, <3>1, <3>2 DEF Followed, Account
  <2>. QED BY <2>4, <2>5
<1>5. CASE CacheLoaded
  <2>. DEFINE known == Stored
              job   == [jobs["inventory"] EXCEPT !.at = "idle", !.left = devices]
  <2>1. "inventory" \in Runs BY DEF Runs
  <2>2. job.removed = jobs["inventory"].removed BY <1>2, <2>1 DEF Jobs
  <2>3. GoesOn("inventory", job, known) /\ UNCHANGED <<bond, devices>>
        BY <1>5 DEF CacheLoaded
  <2>. HIDE DEF known, job
  <2>. QED BY <1>1, <2>1, <2>2, <2>3, GoesOnFollowed
<1>6. CASE SetupFails BY <1>6, DiscardedFollowed DEF SetupFails
<1>7. ASSUME NEW said \in [Devices -> SUBSET Keys], SetupCompletes(said) PROVE Followed'
      BY <1>1, <1>7 DEF SetupCompletes, Sync, Followed, Scan
<1>8. ASSUME NEW d \in Devices, NEW keys \in SUBSET Keys,
             PollAnswered(d, keys) \/ PushFrame(d, keys)
      PROVE  Followed'
      BY <1>1, <1>8 DEF PollAnswered, PushFrame, Sync, Followed, Scan
<1>9. CASE DelayedSave BY <1>1, <1>9 DEF DelayedSave, Followed, Scan
<1>10. ASSUME NEW force \in BOOLEAN, RefreshBegins(force) PROVE Followed'
  <2>. DEFINE job == [Idle EXCEPT !.left = devices, !.force = force]
  <2>1. GoesOn("refresh", job, profiles) /\ UNCHANGED <<bond, devices, profiles>>
        BY <1>10 DEF RefreshBegins
  <2>2. CASE \E d \in Due(job, profiles) :
              /\ jobs' = [jobs EXCEPT !["refresh"] = Asking(job, d, profiles)]
              /\ UNCHANGED <<disk, saveDue, reloadDue, phase, entityVars, registry>>
    <3>1. Scan' = Scan BY <1>2, <2>2 DEF Scan, Runs
    <3>. QED BY <1>1, <2>1, <2>2, <3>1 DEF Followed
  <2>3. CASE jobs' = [jobs EXCEPT !["refresh"] = Idle] /\ RefreshEnds(job)
    <3>1. Scan' = Scan BY <1>2, <2>3 DEF Scan, Runs
    <3>. QED BY <1>1, <2>1, <2>3, <3>1 DEF Followed, RefreshEnds
  <2>. QED BY <2>1, <2>2, <2>3 DEF GoesOn
<1>11. ASSUME NEW r \in Runs, NEW p, Learns(r, p), UNCHANGED <<bond, devices>>
       PROVE  Followed'
  <2>. DEFINE known == [profiles EXCEPT ![ModelOf[jobs[r].dev]] = p]
              told  == [jobs[r] EXCEPT !.changed = @ \/ Differs(jobs[r].cached, p)]
  <2>1. GoesOn(r, told, known) BY <1>11 DEF Learns
  <2>2. told.removed = jobs[r].removed BY <1>2 DEF Jobs
  <2>. HIDE DEF known, told
  <2>. QED BY <1>1, <1>11, <2>1, <2>2, GoesOnFollowed
<1>12. ASSUME NEW r \in Runs, NEW keys \in SUBSET Keys, NEW flags \in SUBSET Flags,
              DictionaryAnswers(r, flags, keys)
       PROVE  Followed'
       BY <1>11, <1>12 DEF DictionaryAnswers
<1>13. ASSUME NEW r \in Runs, NEW keys \in SUBSET Keys, DictionaryFails(r, keys)
       PROVE  Followed'
  <2>1. CASE GoesOn(r, jobs[r], profiles) BY <1>1, <1>13, <2>1, GoesOnFollowed DEF DictionaryFails
  <2>. QED BY <1>11, <1>13, <2>1 DEF DictionaryFails
<1>14. CASE ReloadScheduled \/ ReloadByHand
       BY <1>14, DiscardedFollowed DEF ReloadScheduled, ReloadByHand, Reload
<1>15. CASE OrphanWrites BY <1>1, <1>15 DEF OrphanWrites, Followed, Scan
<1>16. CASE Stop BY <1>16, DiscardedFollowed DEF Stop
<1>17. CASE Start BY <1>1, <1>17 DEF Start, Followed, Scan
<1>18. ASSUME NEW d \in Devices, Bind(d) \/ Unbind(d) PROVE Followed'
  <2>1. \A e \in Devices : /\ bond'[e] = "new" => bond[e] = "new"
                           /\ bond[e] = "gone" => bond'[e] = "gone"
        BY <1>1, <1>18 DEF Bind, Unbind, TypeOK
  <2>2. Scan.removed \subseteq Devices /\ devices \subseteq Devices /\ seen \subseteq Devices
        BY <1>1, <1>2 DEF Scan, Runs, Jobs, TypeOK
  <2>3. UNCHANGED <<registry, devices, phase, seen, jobs>> BY <1>18 DEF Bind, Unbind
  <2>. QED BY <1>1, <2>1, <2>2, <2>3 DEF Followed, Scan
<1>19. ASSUME NEW d \in Devices, PersonDeletes(d) PROVE Followed'
       BY <1>1, <1>19 DEF PersonDeletes, Followed, Scan
<1>20. CASE TtlPasses BY <1>1, <1>20 DEF TtlPasses, Followed, Scan
<1>21. CASE UNCHANGED vars BY <1>1, <1>21 DEF vars, Followed, Scan
<1>. QED BY <1>1, <1>3, <1>4, <1>5, <1>6, <1>7, <1>8, <1>9, <1>10, <1>12, <1>13, <1>14,
            <1>15, <1>16, <1>17, <1>18, <1>19, <1>20, <1>21 DEF Next

LEMMA FollowedInit == Init => Followed
BY DEF Init, Followed, Scan, Runs, Idle

\* Between scans, whatever polls, refreshes, reloads, deletions and restarts came between,
\* the platforms have handled the whole inventory and the device registry is the inventory
\* (_async_prune_registry, _async_forget_devices, _sync).
THEOREM InventoryFollowed == Spec => []EntitiesFollowInventory
<1>1. TypeOK /\ Followed => EntitiesFollowInventory
      BY DEF Followed, EntitiesFollowInventory, Scan
<1>. QED BY <1>1, TypeInit, FollowedInit, TypeStep, FollowedStep, PTL DEF Spec

\* The end of a job's loop forgets at most what left the inventory.
LEMMA GoesOnKeeps ==
    ASSUME TypeOK, Followed, NEW r \in Runs, NEW job, NEW known,
           GoesOn(r, job, known), job.removed = jobs[r].removed
    PROVE  registry \cap Account \subseteq registry'
<1>1. CASE r = "inventory"
  <2>1. job.removed \cap Account = {}
        BY <1>1 DEF Followed, Scan, Account
  <2>. QED BY <1>1, <2>1 DEF GoesOn, SetupEnds, ScanEnds, Sync, Forgotten
<1>2. CASE r = "refresh"
      BY <1>2 DEF GoesOn, RefreshEnds
<1>. QED BY <1>1, <1>2 DEF Runs

\* Nothing that prunes, forgets or deletes takes an appliance the account still lists.
LEMMA KeepsLive ==
    ASSUME TypeOK, Followed, [Next]_vars PROVE registry \cap Account \subseteq registry'
<1>. USE DEF worldVars, entryVars, entityVars, taskVars
<1>1. jobs \in [Runs -> Jobs] /\ "inventory" \in Runs /\ "refresh" \in Runs
      BY DEF TypeOK, Runs
<1>2. CASE SetupListed
      BY <1>2 DEF SetupListed, Pruned
<1>3. CASE ScanListed
      BY <1>3 DEF ScanListed, Sync, Forgotten
<1>4. CASE CacheLoaded
  <2>. DEFINE job == [jobs["inventory"] EXCEPT !.at = "idle", !.left = devices]
  <2>1. GoesOn("inventory", job, Stored) BY <1>4 DEF CacheLoaded
  <2>2. job.removed = jobs["inventory"].removed BY <1>1 DEF Jobs
  <2>. QED BY <1>1, <2>1, <2>2, GoesOnKeeps
<1>5. ASSUME NEW said, SetupCompletes(said) PROVE registry \subseteq registry'
      BY <1>5 DEF SetupCompletes, Sync
<1>6. ASSUME NEW d, NEW keys, PollAnswered(d, keys) \/ PushFrame(d, keys)
      PROVE  registry \subseteq registry'
      BY <1>6 DEF PollAnswered, PushFrame, Sync
<1>7. ASSUME NEW force, RefreshBegins(force) PROVE registry' = registry
      BY <1>7 DEF RefreshBegins, GoesOn, RefreshEnds
<1>8. ASSUME NEW r \in Runs, NEW p, Learns(r, p) PROVE registry \cap Account \subseteq registry'
  <2>. DEFINE job   == [jobs[r] EXCEPT !.changed = @ \/ Differs(jobs[r].cached, p)]
              known == [profiles EXCEPT ![ModelOf[jobs[r].dev]] = p]
  <2>1. GoesOn(r, job, known) BY <1>8 DEF Learns
  <2>2. job.removed = jobs[r].removed BY <1>1 DEF Jobs
  <2>. QED BY <2>1, <2>2, GoesOnKeeps
<1>9. ASSUME NEW r \in Runs, NEW keys, NEW flags, DictionaryAnswers(r, flags, keys)
      PROVE  registry \cap Account \subseteq registry'
      BY <1>8, <1>9 DEF DictionaryAnswers
<1>10. ASSUME NEW r \in Runs, NEW keys, DictionaryFails(r, keys)
       PROVE  registry \cap Account \subseteq registry'
       BY <1>8, <1>10, GoesOnKeeps DEF DictionaryFails
<1>11. ASSUME NEW d \in Devices, PersonDeletes(d)
       PROVE  registry \cap Account \subseteq registry'
  <2>1. registry \subseteq devices \cup Scan.removed BY <1>11 DEF PersonDeletes, Followed
  <2>2. d \notin Account BY <1>11, <2>1 DEF PersonDeletes, Followed, Account
  <2>. QED BY <1>11, <2>2 DEF PersonDeletes
<1>12. CASE \/ SetupFails \/ DelayedSave \/ ReloadScheduled \/ ReloadByHand \/ OrphanWrites
            \/ Stop \/ Start \/ TtlPasses \/ UNCHANGED vars
            \/ \E d \in Devices : Bind(d) \/ Unbind(d)
       BY <1>12 DEF SetupFails, DelayedSave, ReloadScheduled, ReloadByHand, Reload, OrphanWrites,
                    Stop, Start, TtlPasses, Bind, Unbind, vars
<1>. QED BY <1>2, <1>3, <1>4, <1>5, <1>6, <1>7, <1>9, <1>10, <1>11, <1>12 DEF Next

\* Whatever setups, scans and people forget, and whenever an appliance is unbound, one the
\* account still lists keeps its device registry entry.
THEOREM LiveKept == Spec => LiveNeverForgotten
<1>1. TypeOK /\ Followed /\ [Next]_vars => [registry \cap Account \subseteq registry']_vars
      BY KeepsLive
<1>. QED BY <1>1, TypeInit, FollowedInit, TypeStep, FollowedStep, PTL
         DEF Spec, LiveNeverForgotten
-----------------------------------------------------------------------------
(* The entities are those the profiles call for. *)

\* A refresh goes on: what its profiles gate differently it knows.
LEMMA RefreshGoesOn ==
    ASSUME TypeOK, Current, NEW job \in Jobs, NEW known \in Caches,
           GoesOn("refresh", job, known), profiles' = known,
           UNCHANGED <<devices, rescanned>>, phase = "loaded",
           Settled => \A d \in devices \cap seen :
                          built[d] = Gates(known[ModelOf[d]]) \/ job.changed
    PROVE  Current'
<1>1. jobs \in [Runs -> Jobs] /\ "refresh" \in Runs /\ "inventory" \in Runs
      BY DEF TypeOK, Runs
<1>2. CASE \E d \in Due(job, known) :
              /\ jobs' = [jobs EXCEPT !["refresh"] = Asking(job, d, known)]
              /\ UNCHANGED <<disk, saveDue, reloadDue, phase, entityVars, registry>>
  <2>1. PICK d \in Due(job, known) :
              /\ jobs' = [jobs EXCEPT !["refresh"] = Asking(job, d, known)]
              /\ UNCHANGED <<disk, saveDue, reloadDue, phase, entityVars, registry>>
        BY <1>2
  <2>2. /\ jobs'["refresh"].at = "asked" /\ jobs'["refresh"].changed = job.changed
        /\ jobs'["refresh"].dev = d /\ jobs'["refresh"].cached = known[ModelOf[d]]
        /\ Scan' = Scan
        BY <1>1, <2>1 DEF Asking, Jobs, Scan
  <2>3. Settled' <=> Settled BY <2>1 DEF Settled
  <2>. QED BY <2>1, <2>2, <2>3 DEF Current, entityVars, Scan
<1>3. CASE jobs' = [jobs EXCEPT !["refresh"] = Idle] /\ RefreshEnds(job)
  <2>1. jobs'["refresh"].at = "idle" /\ Scan' = Scan BY <1>1, <1>3 DEF Idle, Scan
  <2>2. Settled' => Settled /\ ~job.changed BY <1>3 DEF Settled, RefreshEnds
  <2>3. UNCHANGED <<phase, seen, built>> BY <1>3 DEF RefreshEnds, entityVars
  <2>. QED BY <2>1, <2>2, <2>3 DEF Current, Scan
<1>. QED BY <1>2, <1>3 DEF GoesOn

\* The setup or the scan goes on: neither is a settled entry.
LEMMA InventoryGoesOn ==
    ASSUME TypeOK, Current, NEW job, NEW known,
           GoesOn("inventory", job, known), phase = "loaded" => rescanned',
           Scan.at # "idle"
    PROVE  Current'
<1>1. jobs \in [Runs -> Jobs] /\ "refresh" \in Runs /\ "inventory" \in Runs
      BY DEF TypeOK, Runs
<1>2. jobs'["refresh"] = jobs["refresh"] BY <1>1 DEF GoesOn
<1>3. phase # "ready" BY DEF Current
<1>4. /\ phase' = "loaded" <=> phase = "loaded"
      /\ phase' = "ready" => Scan'.at = "idle"
      BY <1>1, <1>3 DEF GoesOn, SetupEnds, ScanEnds, Idle, Scan
<1>. QED BY <1>2, <1>4 DEF Current, Settled

\* A profile learnt, and the run goes on: a refresh compares with what it read before its
\* request, which gates as the profile in memory does.
LEMMA LearnsCurrent ==
    ASSUME IInv, NEW r \in Runs, NEW p \in Profile, Learns(r, p), jobs[r].at = "asked",
           UNCHANGED <<devices, rescanned>>
    PROVE  Current'
<1>. DEFINE job   == jobs[r]
            m     == ModelOf[job.dev]
            known == [profiles EXCEPT ![m] = p]
            told  == [job EXCEPT !.changed = @ \/ Differs(job.cached, p)]
<1>1. TypeOK /\ Current BY DEF IInv
<1>2. job \in Jobs /\ profiles \in Caches BY <1>1 DEF TypeOK
<1>3. profiles' = known /\ GoesOn(r, told, known) BY DEF Learns
<1>4. CASE r = "inventory"
  <2>1. phase = "loaded" => rescanned' BY <1>1, <1>4 DEF Current, Scan
  <2>2. Scan.at # "idle" BY <1>4 DEF Scan
  <2>. HIDE DEF known, told
  <2>. QED BY <1>1, <1>3, <1>4, <2>1, <2>2, InventoryGoesOn
<1>5. CASE r = "refresh"
  <2>1. phase = "loaded" BY <1>1, <1>5 DEF Current
  <2>2. Differs(job.cached, p) \in BOOLEAN BY DEF Differs
  <2>3. told \in Jobs /\ told.changed = (job.changed \/ Differs(job.cached, p))
        BY <1>2, <2>2 DEF Jobs
  <2>4. known \in Caches BY <1>2 DEF Caches, MaybeProfile
  <2>5. ASSUME Settled, NEW d \in devices \cap seen
        PROVE  built[d] = Gates(known[ModelOf[d]]) \/ told.changed
    <3>1. built[d] = Gates(profiles[ModelOf[d]]) \/ job.changed
          BY <1>1, <1>5, <2>5 DEF Current
    <3>2. Gates(job.cached) = Gates(profiles[m]) BY <1>1, <1>5, <2>5 DEF Current
    <3>3. ~Differs(job.cached, p) => Gates(p) = Gates(job.cached) BY DEF Differs
    <3>4. m \in Models /\ ModelOf[d] \in Models
          BY <1>1, <1>2, ModelAssumption DEF TypeOK, Jobs
    <3>5. known[ModelOf[d]] = IF ModelOf[d] = m THEN p ELSE profiles[ModelOf[d]]
          BY <1>2, <3>4 DEF Caches
    <3>. HIDE DEF known, told, job, m
    <3>. QED BY <2>3, <3>1, <3>2, <3>3, <3>5
  <2>. HIDE DEF known, told
  <2>. QED BY <1>1, <1>3, <1>5, <2>1, <2>3, <2>4, <2>5, RefreshGoesOn
<1>. QED BY <1>4, <1>5 DEF Runs

LEMMA DiscardedCurrent ==
    ASSUME NEW without \in {"off", "down"}, Discarded(without) PROVE Current'
<1>1. jobs'["refresh"].at = "idle" BY DEF Discarded, Runs, Idle
<1>. QED BY <1>1 DEF Discarded, Current, Settled

\* A reading absorbed and told: a gate it changes schedules a reload.
LEMMA ReadingCurrent ==
    ASSUME IInv, NEW ds, NEW st,
           Absorb(ds, st), Sync(devices, Absorbed(ds, st), registry),
           phase = "loaded", UNCHANGED <<phase, devices, jobs, rescanned>>
    PROVE  Current'
<1>. DEFINE after == Absorbed(ds, st)
            job   == jobs["refresh"]
<1>1. TypeOK /\ Current BY DEF IInv
<1>2. profiles' = after BY DEF Absorb
<1>3. SUFFICES ASSUME Settled'
               PROVE  /\ \A d \in devices \cap seen' :
                             built'[d] = Gates(after[ModelOf[d]])
                             \/ (job.at # "idle" /\ job.changed)
                      /\ job.at = "asked" => Gates(job.cached) = Gates(after[ModelOf[job.dev]])
      BY <1>1, <1>2 DEF Current, Scan
<1>4. Settled /\ \A m \in Models : Gates(after[m]) = Gates(profiles[m])
      BY <1>3 DEF Settled, Absorb
<1>5. job \in Jobs /\ devices \subseteq Devices BY <1>1 DEF TypeOK, Runs
<1>6. ModelOf[job.dev] \in Models /\ \A d \in devices : ModelOf[d] \in Models
      BY <1>5, ModelAssumption DEF Jobs
<1>7. ASSUME NEW d \in devices \cap seen'
      PROVE  built'[d] = Gates(after[ModelOf[d]]) \/ (job.at # "idle" /\ job.changed)
  <2>. HIDE DEF after
  <2>1. CASE d \in seen
    <3>1. built'[d] = built[d] BY <1>5, <2>1 DEF Sync
    <3>. QED BY <1>1, <1>4, <1>6, <2>1, <3>1 DEF Current
  <2>2. CASE d \notin seen BY <1>5, <2>2 DEF Sync, after
  <2>. QED BY <2>1, <2>2
<1>. QED BY <1>1, <1>4, <1>6, <1>7 DEF Current

\* Every step keeps them current.
LEMMA CurrentStep == IInv /\ [Next]_vars => Current'
<1>1. SUFFICES ASSUME IInv, [Next]_vars PROVE Current' OBVIOUS
<1>2. TypeOK /\ Followed /\ Current BY <1>1 DEF IInv
<1>3. jobs \in [Runs -> Jobs] /\ "refresh" \in Runs /\ "inventory" \in Runs
      BY <1>2 DEF TypeOK, Runs
<1>. USE DEF worldVars, entryVars, entityVars, taskVars
<1>4. CASE SetupListed BY <1>2, <1>3, <1>4 DEF SetupListed, Current, Settled, Scan
<1>5. CASE ScanListed
  <2>1. /\ phase = "loaded" /\ devices' = Account
        /\ jobs'["refresh"] = jobs["refresh"] /\ Scan'.at \in {"idle", "load"}
        /\ UNCHANGED <<phase, profiles, reloadDue, rescanned>>
        BY <1>3, <1>5 DEF ScanListed, Scan, Idle
  <2>2. Settled' <=> Settled BY <2>1 DEF Settled
  <2>3. Account \cap seen \subseteq devices BY <1>2, <2>1 DEF Followed, Account
  <2>4. CASE Account \subseteq devices
    <3>1. Sync(Account, profiles, Forgotten(devices \ Account))
          BY <1>5, <2>4 DEF ScanListed
    <3>2. \A d \in Account \cap seen' :
              built'[d] = Gates(profiles[ModelOf[d]]) \/ (d \in seen /\ built'[d] = built[d])
          BY <3>1 DEF Sync, Account
    <3>. QED BY <1>2, <2>1, <2>2, <2>3, <3>2 DEF Current
  <2>5. CASE ~(Account \subseteq devices)
    <3>1. UNCHANGED <<seen, built>> BY <1>5, <2>5 DEF ScanListed
    <3>. QED BY <1>2, <2>1, <2>2, <2>3, <3>1 DEF Current
  <2>. QED BY <2>4, <2>5
<1>6. CASE CacheLoaded
  <2>. DEFINE known == Stored
              job   == [jobs["inventory"] EXCEPT !.at = "idle", !.left = devices]
  <2>1. GoesOn("inventory", job, known) /\ (phase = "loaded" => rescanned') /\ Scan.at # "idle"
        BY <1>6 DEF CacheLoaded, Scan
  <2>. HIDE DEF known, job
  <2>. QED BY <1>2, <2>1, InventoryGoesOn
<1>7. CASE SetupFails BY <1>7, DiscardedCurrent DEF SetupFails
<1>8. ASSUME NEW said \in [Devices -> SUBSET Keys], SetupCompletes(said) PROVE Current'
  <2>. DEFINE after == Absorbed(devices, said)
  <2>1. /\ profiles' = after /\ phase = "ready" /\ devices' = devices /\ jobs' = jobs
        /\ Sync(devices, after, registry)
        BY <1>8 DEF SetupCompletes, Absorb
  <2>2. seen = {} /\ jobs["refresh"].at = "idle" /\ Scan.at = "idle"
        BY <1>2, <2>1 DEF Followed, Current
  <2>. HIDE DEF after
  <2>3. \A d \in devices : built'[d] = Gates(after[ModelOf[d]])
        BY <1>2, <2>1, <2>2 DEF Sync, TypeOK
  <2>. QED BY <2>1, <2>2, <2>3 DEF Current, Scan
<1>9. ASSUME NEW d \in Devices, NEW keys \in SUBSET Keys, PollAnswered(d, keys) PROVE Current'
      BY <1>1, <1>9, ReadingCurrent DEF PollAnswered
<1>10. ASSUME NEW d \in Devices, NEW keys \in SUBSET Keys, PushFrame(d, keys) PROVE Current'
      BY <1>1, <1>10, ReadingCurrent DEF PushFrame
<1>11. CASE DelayedSave BY <1>2, <1>11 DEF DelayedSave, Current, Settled, Scan
<1>12. ASSUME NEW force \in BOOLEAN, RefreshBegins(force) PROVE Current'
  <2>. DEFINE job == [Idle EXCEPT !.left = devices, !.force = force]
  <2>1. job \in Jobs /\ profiles \in Caches BY <1>2, IdleTyped DEF Jobs, TypeOK
  <2>2. /\ GoesOn("refresh", job, profiles) /\ phase = "loaded" /\ jobs["refresh"].at = "idle"
        /\ UNCHANGED <<devices, profiles, rescanned>>
        BY <1>12 DEF RefreshBegins
  <2>3. Settled => \A d \in devices \cap seen : built[d] = Gates(profiles[ModelOf[d]])
        BY <1>2, <2>2 DEF Current
  <2>. HIDE DEF job
  <2>. QED BY <1>2, <2>1, <2>2, <2>3, RefreshGoesOn
<1>13. ASSUME NEW r \in Runs, NEW keys \in SUBSET Keys, NEW flags \in SUBSET Flags
       PROVE  Resolved(flags, Present(jobs[r], keys), jobs[r].cached) \in Profile
  <2>1. jobs[r] \in Jobs BY <1>3
  <2>2. Present(jobs[r], keys) \in SUBSET Keys BY <2>1 DEF Present, Jobs
  <2>3. jobs[r].cached \in MaybeProfile BY <2>1 DEF Jobs
  <2>. QED BY <2>2, <2>3, ResolvedTyped
<1>14. ASSUME NEW r \in Runs, NEW keys \in SUBSET Keys, NEW flags \in SUBSET Flags,
              DictionaryAnswers(r, flags, keys)
       PROVE  Current'
  <2>. DEFINE p == Resolved(flags, Present(jobs[r], keys), jobs[r].cached)
  <2>1. p \in Profile BY <1>13
  <2>2. Learns(r, p) /\ jobs[r].at = "asked" /\ UNCHANGED <<devices, rescanned>>
        BY <1>14 DEF DictionaryAnswers
  <2>. HIDE DEF p
  <2>. QED BY <1>1, <2>1, <2>2, LearnsCurrent
<1>15. ASSUME NEW r \in Runs, NEW keys \in SUBSET Keys, DictionaryFails(r, keys)
       PROVE  Current'
  <2>. DEFINE p == Resolved({}, Present(jobs[r], keys), jobs[r].cached)
  <2>1. p \in Profile BY <1>13
  <2>2. jobs[r].at = "asked" /\ UNCHANGED <<devices, rescanned>> BY <1>15 DEF DictionaryFails
  <2>3. CASE Learns(r, p)
    <3>. HIDE DEF p
    <3>. QED BY <1>1, <2>1, <2>2, <2>3, LearnsCurrent
  <2>4. CASE GoesOn(r, jobs[r], profiles) /\ UNCHANGED profiles
    <3>1. CASE r = "inventory"
          BY <1>2, <2>2, <2>4, <3>1, InventoryGoesOn DEF Current, Scan
    <3>2. CASE r = "refresh"
      <4>1. jobs[r] \in Jobs /\ profiles \in Caches /\ phase = "loaded"
            BY <1>2, <1>3, <2>2, <3>2 DEF TypeOK, Current
      <4>2. Settled => \A d \in devices \cap seen :
                           built[d] = Gates(profiles[ModelOf[d]]) \/ jobs[r].changed
            BY <1>2, <3>2 DEF Current
      <4>. QED BY <1>2, <2>2, <2>4, <3>2, <4>1, <4>2, RefreshGoesOn
    <3>. QED BY <3>1, <3>2 DEF Runs
  <2>. QED BY <1>15, <2>3, <2>4 DEF DictionaryFails
<1>16. CASE ReloadScheduled \/ ReloadByHand
       BY <1>16, DiscardedCurrent DEF ReloadScheduled, ReloadByHand, Reload
<1>17. CASE OrphanWrites BY <1>2, <1>17 DEF OrphanWrites, Current, Settled, Scan
<1>18. CASE Stop BY <1>18, DiscardedCurrent DEF Stop
<1>19. CASE Start BY <1>2, <1>19 DEF Start, Current, Settled
<1>20. ASSUME NEW d \in Devices, Bind(d) \/ Unbind(d) \/ PersonDeletes(d) PROVE Current'
       BY <1>2, <1>20 DEF Bind, Unbind, PersonDeletes, Current, Settled, Scan
<1>21. CASE TtlPasses
  <2>1. ASSUME NEW m \in Models PROVE Gates(profiles'[m]) = Gates(profiles[m])
    <3>1. profiles[m] \in MaybeProfile BY <1>2 DEF TypeOK, Caches
    <3>2. profiles'[m] = IF profiles[m] = NoProfile THEN NoProfile
                         ELSE [profiles[m] EXCEPT !.stale = TRUE]
          BY <1>21 DEF TtlPasses
    <3>3. CASE profiles[m] = NoProfile BY <3>2, <3>3
    <3>4. CASE profiles[m] # NoProfile
      <4>1. profiles[m] \in Profile BY <3>1, <3>4 DEF MaybeProfile
      <4>2. /\ profiles'[m] \in Profile
            /\ profiles'[m].features = profiles[m].features
            /\ profiles'[m].fields = profiles[m].fields
            BY <3>2, <3>4, <4>1 DEF Profile
      <4>. QED BY <3>4, <4>2, ProfileAssumption DEF Gates
    <3>. QED BY <3>3, <3>4
  <2>2. \A d \in devices : ModelOf[d] \in Models BY <1>2, ModelAssumption DEF TypeOK
  <2>3. /\ jobs["refresh"].at = "idle"
        /\ UNCHANGED <<phase, devices, seen, built, jobs, reloadDue, rescanned>>
        BY <1>3, <1>21 DEF TtlPasses
  <2>. QED BY <1>2, <2>1, <2>2, <2>3 DEF Current, Settled, Scan
<1>22. CASE UNCHANGED vars BY <1>2, <1>22 DEF vars, Current, Settled, Scan
<1>. QED BY <1>1, <1>4, <1>5, <1>6, <1>7, <1>8, <1>9, <1>10, <1>11, <1>12, <1>14, <1>15,
            <1>16, <1>17, <1>18, <1>19, <1>20, <1>21, <1>22 DEF Next

LEMMA CurrentInit == Init => Current
BY DEF Init, Current, Settled, Scan, Runs, Idle

\* Whatever polls, pushed frames and refreshes do to the profiles and in whatever order,
\* the entities built are those the profiles call for or a reload is on its way
\* (_absorb_status_fields, _async_resolve_devices, async_refresh_capabilities).
THEOREM EntitiesStayCurrent == Spec => []EntitiesCurrent
<1>1. IInv /\ [Next]_vars => IInv' BY TypeStep, FollowedStep, CurrentStep DEF IInv
<1>2. Init => IInv BY TypeInit, FollowedInit, CurrentInit DEF IInv
<1>3. IInv => EntitiesCurrent BY DEF IInv, Current, Settled, EntitiesCurrent
<1>. QED BY <1>1, <1>2, <1>3, PTL DEF Spec
=============================================================================
