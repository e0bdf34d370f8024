------------------------------- MODULE Controls -------------------------------
(***************************************************************************)
(* One appliance behind its entities: what they show of its status, what a *)
(* write sends, when it is refused, and the optimistic echo of             *)
(* async_send_instruction.  The status is what the coordinator holds; push *)
(* frames and answered polls change it at any time (module Coordinator).   *)
(* Home Assistant has checked the value of a write against the entity.     *)
(***************************************************************************)
EXTENDS Registry, FiniteSets

-----------------------------------------------------------------------------
(* What the entities show. *)

\* _is_meaningful
Meaningful(c, s, k) ==
    LET g == Gated(c, Machine(c, s))
    IN  k \in DOMAIN g => HoldsOr(g[k], TRUE)

\* The rounding of Python's round, and one towards zero.
TowardsZero(n, d) == n \div d

Rounded(n, d) ==
    LET q == n \div d
        r == 2 * (n % d)
    IN  IF r < d \/ (r = d /\ q % 2 = 0) THEN q ELSE q + 1

Kelvin(device) == Warm + Rounded(device * (Cool - Warm), Scale)

KelvinToDevice(kelvin) ==
    LET clamped == IF kelvin < Warm THEN Warm ELSE IF kelvin > Cool THEN Cool ELSE kelvin
    IN  Rounded((clamped - Warm) * Scale, Cool - Warm)

SwitchShown(c, s, k) ==
    IF k \notin DOMAIN s \/ ~Meaningful(c, s, k) THEN NoValue
    ELSE IF s[k] \in Switches(c)[k].shown THEN 1 ELSE 0

\* A select shows the options it has, a number whatever is reported.
ChoiceShown(c, s, k) ==
    IF k \in {"distributorGear", "softWaterGear", "orderTime"} \/ Value(s, k) \in Choices(c)[k]
    THEN Value(s, k)
    ELSE NoValue

HvacShown(s) ==
    IF Value(s, "power") = 0 THEN 0
    ELSE IF Value(s, "mode") \in ClimateModes THEN Value(s, "mode") ELSE NoValue

ClimateShown(s, x) ==
    CASE x = "hvac_mode" -> HvacShown(s)
      [] x = "climate"   -> IF HvacShown(s) \in ClimateModes THEN 1 ELSE HvacShown(s)
      [] x = "windSpeed" -> IF Value(s, x) \in ClimateFans THEN Value(s, x) ELSE NoValue
      [] OTHER           -> Value(s, x)

LightShown(s, x) ==
    CASE x = "light"  -> IF "power" \in DOMAIN s THEN IF s.power = 1 THEN 1 ELSE 0 ELSE NoValue
      [] x = "kelvin" -> IF "colorTemp" \in DOMAIN s THEN Kelvin(s.colorTemp) ELSE NoValue
      [] x = "effect" -> IF Value(s, "mode") \in Effects THEN Value(s, "mode") ELSE NoValue
      [] OTHER        -> Value(s, x)

\* current_operation: the default names only a combination no flag names.
TankShown(s, x) ==
    CASE x = "operation" ->
           IF First(OperationFlags(s)) # NoValue THEN First(OperationFlags(s))
           ELSE IF {"cloudSmart", "bodyNum"} \cap DOMAIN s # {} THEN Double ELSE NoValue
      [] x = "temp" -> Value(s, x)
      [] OTHER      -> NoValue

\* The value the control x shows.
Shown(c, s, x) ==
    CASE x \in DOMAIN Switches(c)    -> SwitchShown(c, s, x)
      [] x \in DOMAIN Choices(c)     -> ChoiceShown(c, s, x)
      [] c = "air_conditioner"       -> ClimateShown(s, x)
      [] c = "light"                 -> LightShown(s, x)
      [] c = "water_heater"          -> TankShown(s, x)
      [] OTHER                       -> NoValue

-----------------------------------------------------------------------------
(* What a write sends and when it is refused. *)

ClimateInstruction(x, w) ==
    CASE x = "hvac_mode" -> IF w = 0 THEN [power |-> 0] ELSE [power |-> 1, mode |-> w]
      [] x = "climate"   -> [power |-> w]
      [] OTHER           -> Entry(x, w)

LightInstruction(x, w) ==
    CASE x = "light"  -> [power |-> w]
      [] x = "kelvin" -> [power |-> 1, colorTemp |-> KelvinToDevice(w)]
      [] x = "effect" -> [power |-> 1, mode |-> w]
      [] OTHER        -> [power |-> 1, bright |-> w]

TankInstruction(x, w) ==
    CASE x = "operation" -> Operations[w]
      [] x = "tank"      -> [power |-> w]
      [] OTHER           -> Entry(x, w)

Instruction(c, x, w) ==
    CASE x \in DOMAIN Switches(c) ->
           Entry(x, IF w = 1 THEN Switches(c)[x].on ELSE Switches(c)[x].off)
      [] x \in DOMAIN Choices(c)  -> Entry(x, w)
      [] c = "air_conditioner"    -> ClimateInstruction(x, w)
      [] c = "light"              -> LightInstruction(x, w)
      [] c = "water_heater"       -> TankInstruction(x, w)
      [] OTHER                    -> [power |-> OvenButtons[x]]

\* _check_writable: the guard first, then the blocks of the control itself.
CheckWritable(c, s, k) ==
    LET guard == Guard(c, s, Machine(c, s))
        told  == First([i \in DOMAIN guard |->
                    IF guard[i].name \in Switches(c)[k].exempt
                    THEN Rule(guard[i].name, "no") ELSE guard[i]])
    IN  IF told # NoValue THEN told ELSE First(OwnBlocks(c, s, k))

\* The reason a write to x is refused for.  Selects, numbers and buttons never ask.
Refusal(c, s, x) ==
    CASE x \in DOMAIN Switches(c) -> CheckWritable(c, s, x)
      [] c = "water_heater" /\ x = "temp" /\ Value(s, "cloudSmart") = 1 -> "smart_mode_locked"
      [] OTHER -> NoValue

-----------------------------------------------------------------------------
(* The appliance. *)

CONSTANTS
    Units,    \* the appliances considered
    MaxSent   \* bound: commands in flight at a time

\* The writes there are for a category.
AsksOf(x, values) == {[control |-> x, wanted |-> w] : w \in values}

NativeAsks(c) ==
    CASE c = "oven" -> UNION {AsksOf(b, {1}) : b \in DOMAIN OvenButtons}
      [] c = "air_conditioner" ->
           AsksOf("hvac_mode", ClimateModes \cup {0}) \cup AsksOf("climate", {0, 1})
             \cup AsksOf("temp", ClimateTemps) \cup AsksOf("windSpeed", ClimateFans)
      [] c = "light" ->
           AsksOf("light", {0, 1}) \cup AsksOf("bright", 0..Scale)
             \cup AsksOf("kelvin", {Kelvin(d) : d \in 0..Scale}) \cup AsksOf("effect", Effects)
      [] c = "water_heater" ->
           AsksOf("temp", TankTemps) \cup AsksOf("operation", DOMAIN Operations)
             \cup AsksOf("tank", {0, 1})
      [] OTHER -> {}

SwitchAsks(c) == UNION {AsksOf(k, {0, 1}) : k \in DOMAIN Switches(c)}

ChoiceAsks(c) == UNION {AsksOf(k, Choices(c)[k]) : k \in DOMAIN Choices(c)}

Asks(c) == SwitchAsks(c) \cup ChoiceAsks(c) \cup NativeAsks(c)

\* A unit has a category, the codes its status keys may hold, the statuses a query may
\* bring and the writes a person may make.
IsStatus(s, codes) == DOMAIN s \subseteq DOMAIN codes /\ \A k \in DOMAIN s : s[k] \in codes[k]

ASSUME MaxSentAssumption == MaxSent \in Nat

ASSUME UnitAssumption ==
    \A u \in Units :
        /\ u.category \in Categories
        /\ \A k \in DOMAIN u.codes : u.codes[k] \subseteq Int
        /\ \A s \in u.answers : IsStatus(s, u.codes)
        /\ u.asks \subseteq Asks(u.category)
        /\ \A a \in u.asks : IsStatus(Instruction(u.category, a.control, a.wanted), u.codes)

VARIABLES
    unit,    \* the appliance
    status,  \* DeviceState.attributes of it
    sent     \* the writes whose command has not been answered

controlVars == <<unit, status, sent>>

\* _async_setup and the first poll.
ControlInit == unit \in Units /\ status \in unit.answers /\ sent = {}

\* apply_push folds a frame of one key, or the echo of a command, into the status.
ApplyPush(s, change) == change ++ s

Frame(k, v) ==
    /\ k \in DOMAIN unit.codes /\ v \in unit.codes[k]
    /\ status' = ApplyPush(status, Entry(k, v))
    /\ UNCHANGED <<unit, sent>>

\* A query replaces the status, keys it leaves out included.
Queried(s) ==
    /\ s \in unit.answers
    /\ status' = s
    /\ UNCHANGED <<unit, sent>>

Write(a) ==
    /\ a \in unit.asks \ sent
    /\ Cardinality(sent) < MaxSent
    /\ Refusal(unit.category, status, a.control) = NoValue
    /\ sent' = sent \cup {a}
    /\ UNCHANGED <<unit, status>>

Replied(a) ==
    /\ a \in sent
    /\ sent' = sent \ {a}
    /\ status' = ApplyPush(status, Instruction(unit.category, a.control, a.wanted))
    /\ UNCHANGED unit

WriteFailed(a) ==
    /\ a \in sent
    /\ sent' = sent \ {a}
    /\ UNCHANGED <<unit, status>>

ControlNext ==
    \/ \E k \in DOMAIN unit.codes : \E v \in unit.codes[k] : Frame(k, v)
    \/ \E s \in unit.answers : Queried(s)
    \/ \E a \in unit.asks : Write(a) \/ Replied(a) \/ WriteFailed(a)

-----------------------------------------------------------------------------
(* Properties. *)

\* An appliance that says it is off shows nothing left over from its last cycle: no
\* reading with a gate is shown, whatever else its status still holds and whatever is
\* missing from it (entity.py: "a switched-off dishwasher keeps reporting the last
\* cycle's programme and remaining time").
SaysOff(c, s) ==
    CASE c = "oven"   -> Value(s, "devstatus") = 1
      [] c = "washer" -> Value(s, "power") = 0 \/ Value(s, "runState") = 0
      [] OTHER        -> Value(s, "power") = 0

OffShowsNothing ==
    SaysOff(unit.category, status) =>
        \A k \in DOMAIN Gated(unit.category, Machine(unit.category, status)) :
            ~Meaningful(unit.category, status, k)

\* An incomplete status is given the benefit of the doubt: a key that arrives can only
\* take a reading away or refuse a write, it never restores one that the lack of it had
\* taken or refused ("an incomplete snapshot must not blank a reading or refuse a
\* command", holds_or).  The ordered rules make this more than a matter of unknowns.
Grows(s, t) == \A k \in DOMAIN s : k \in DOMAIN t /\ t[k] = s[k]

Lenient(c, s, t) ==
    /\ \A k \in DOMAIN Gated(c, Machine(c, s)) : Meaningful(c, t, k) => Meaningful(c, s, k)
    /\ \A x \in DOMAIN Switches(c) \cup {"temp"} :
            Refusal(c, t, x) = NoValue => Refusal(c, s, x) = NoValue

PartialIsLenient ==
    [][status' # status /\ Grows(status, status') =>
            Lenient(unit.category, status, status')]_controlVars

\* Once the cloud has taken a command, its control shows what was asked for or nothing,
\* never something else, whatever became of the status meanwhile; a colour temperature
\* shown and asked for again survives both roundings.
EchoShows ==
    [][\A a \in unit.asks :
            Replied(a) => Shown(unit.category, status', a.control) \in {a.wanted, NoValue}
      ]_controlVars
=============================================================================
