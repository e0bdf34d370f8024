------------------------------- MODULE Registry -------------------------------
(***************************************************************************)
(* The appliance categories of registry.py: the state machine of each, the *)
(* guard its controls share, the readings that mean something only in some *)
(* states, its controls and its native mapping.  Gating by capability is   *)
(* in module Inventory; a reading or control is present here.              *)
(***************************************************************************)
EXTENDS Conditions

Categories == {"dishwasher", "light", "water_heater", "air_conditioner", "oven", "washer"}

\* _faulted: only the codes the table knows put the appliance into its fault state.
Faulted(s, codes) == Is(s, "faultCode", codes \ {0})

DishwasherFaults == {0, 1, 2, 3, 4, 8, 12, 14, 16, 17}
OvenFaults       == {0, 1, 2, 5, 17, 255}
WasherFaults     == {0, 16, 18, 33, 48, 51, 55}

-----------------------------------------------------------------------------
(* The state machines: the first rule that holds names the state. *)

DishwasherStates(s) ==
    << Rule("power_off", Is(s, "power", {0})),
       Rule("fault",     Faulted(s, DishwasherFaults)),
       Rule("standby",   Is(s, "power", {1, 5})),
       Rule("delay",     Is(s, "power", {2})),
       Rule("finished",  AllOf(Is(s, "power", {3}), Is(s, "washingState", {5}))),
       Rule("running",   Is(s, "runState", {1})),
       Rule("pause",     Is(s, "runState", {2})) >>

OnOffStates(s) ==
    << Rule("off", Is(s, "power", {0})),
       Rule("on",  Is(s, "power", {1})) >>

\* The tank's machine without power, which the element's state would then hide.
WaterHeaterByElement(s) ==
    << Rule("heating",   Is(s, "heatStatus", {1})),
       Rule("keep_warm", Is(s, "heatStatus", {2})),
       Rule("power_off", Is(s, "power", {0})),
       Rule("standby",   Is(s, "heatStatus", {0})) >>

WaterHeaterStates(s) ==
    << Rule("power_off", Is(s, "power", {0})),
       Rule("heating",   Is(s, "heatStatus", {1})),
       Rule("keep_warm", Is(s, "heatStatus", {2})),
       Rule("standby",   Is(s, "heatStatus", {0})) >>

OvenStates(s) ==
    << Rule("fault",         Faulted(s, OvenFaults)),
       Rule("off",           Is(s, "devstatus", {1})),
       Rule("standby",       Is(s, "devstatus", {2})),
       Rule("cooking",       Is(s, "devstatus", {3})),
       Rule("cook_complete", Is(s, "devstatus", {4})),
       Rule("delay",         Is(s, "devstatus", {5})),
       Rule("pause",         Is(s, "devstatus", {6})) >>

WasherStates(s) ==
    << Rule("power_off", AnyOf(Is(s, "power", {0}), Is(s, "runState", {0}))),
       Rule("fault",     AnyOf(Is(s, "runState", {5}), Faulted(s, WasherFaults))),
       Rule("standby",   Is(s, "runState", {1})),
       Rule("running",   Is(s, "runState", {2})),
       Rule("pause",     Is(s, "runState", {3})),
       Rule("finished",  Is(s, "runState", {4})) >>

States ==
    {"power_off", "off", "on", "fault", "standby", "delay", "finished", "running", "pause",
     "heating", "keep_warm", "cooking", "cook_complete"}

\* HolabrainCoordinator.machine_state
Machine(c, s) ==
    CASE c = "dishwasher"      -> First(DishwasherStates(s))
      [] c = "water_heater"    -> First(WaterHeaterStates(s))
      [] c = "oven"            -> First(OvenStates(s))
      [] c = "washer"          -> First(WasherStates(s))
      [] OTHER                 -> First(OnOffStates(s))

-----------------------------------------------------------------------------
(* Guards: what refuses a write, in the order the reasons are told. *)

Reasons == {"appliance_off", "appliance_fault", "door_open", "child_lock"}

ASSUME NamesAssumption == NoValue \notin States \cup Reasons \cup {"smart_mode_locked"}

DishwasherGuard(s, m) ==
    << Rule("appliance_off",   StateIs(m, {"power_off"})),
       Rule("appliance_fault", StateIs(m, {"fault"})),
       Rule("door_open",       Is(s, "doorstatus", {0})),
       Rule("child_lock",      Is(s, "childLock", {1})) >>

OvenGuard(s, m) ==
    << Rule("appliance_off",   StateIs(m, {"off"})),
       Rule("appliance_fault", StateIs(m, {"fault"})),
       Rule("child_lock",      Is(s, "childLock", {1})) >>

WasherGuard(s, m) ==
    << Rule("appliance_off",   StateIs(m, {"power_off"})),
       Rule("appliance_fault", StateIs(m, {"fault"})),
       Rule("child_lock",      Is(s, "childLock", {1})) >>

Guard(c, s, m) ==
    CASE c = "dishwasher" -> DishwasherGuard(s, m)
      [] c = "oven"       -> OvenGuard(s, m)
      [] c = "washer"     -> WasherGuard(s, m)
      [] OTHER            -> <<>>

-----------------------------------------------------------------------------
(* The readings with a meaningful_when, and what it says in state m. *)

DishwasherReadings(m) ==
    LET running == StateIs(m, {"running", "pause"})
    IN  [washingState |-> StateIs(m, {"running", "pause", "finished"}),
         modeEU       |-> Not(StateIs(m, {"power_off"})),
         remainTimeL  |-> running,
         realTemp     |-> running,
         runState     |-> running]

WaterHeaterReadings(m) ==
    [heatStatus |-> Not(StateIs(m, {"power_off"})),
     remainTime |-> StateIs(m, {"heating"})]

OvenReadings(m) ==
    LET cooking == StateIs(m, {"cooking", "pause"})
    IN  [cookRemainTime |-> cooking, upperTemp |-> cooking]

WasherReadings(m) ==
    LET running == StateIs(m, {"running", "pause"})
    IN  [washingStatus |-> running, remainTime |-> running]

Gated(c, m) ==
    CASE c = "dishwasher"   -> DishwasherReadings(m)
      [] c = "water_heater" -> WaterHeaterReadings(m)
      [] c = "oven"         -> OvenReadings(m)
      [] c = "washer"       -> WasherReadings(m)
      [] OTHER              -> <<>>

-----------------------------------------------------------------------------
(* The controls, by the status key they show and write. *)

\* SwitchSpec: what on and off send, the codes shown as on, the reasons ignored.
Switch(on, off, shown, exempt) ==
    [on |-> on, off |-> off, shown |-> shown, exempt |-> exempt]

DishwasherSwitches ==
    [power        |-> Switch(1, 0, {1, 2, 3, 5}, Reasons),
     runState     |-> Switch(1, 2, {1}, {}),
     autoDoorOpen |-> Switch(1, 2, {1}, {})]

OvenSwitches == [childLock |-> Switch(1, 0, {1}, {})]

WasherSwitches ==
    [power        |-> Switch(1, 0, {1}, Reasons \ {"door_open"}),
     startPause   |-> Switch(1, 0, {1}, {}),
     addRinse     |-> Switch(1, 0, {1}, {}),
     addSpeedWash |-> Switch(1, 0, {1}, {}),
     autoDose     |-> Switch(1, 0, {1}, {})]

Switches(c) ==
    CASE c = "dishwasher" -> DishwasherSwitches
      [] c = "oven"       -> OvenSwitches
      [] c = "washer"     -> WasherSwitches
      [] OTHER            -> <<>>

\* The refusals a control has beyond the guard.
OwnBlocks(c, s, k) ==
    IF c = "oven" /\ k = "childLock" THEN << Rule("door_open", Is(s, "doorStatus", {1})) >>
    ELSE <<>>

\* SelectSpec and NumberSpec: the codes that may be chosen.
DishwasherChoices == [distributorGear |-> 1..5, softWaterGear |-> 1..6]

WasherChoices ==
    [cycle |-> 0..14, temp |-> {1, 2, 3, 4, 5, 7, 8}, speed |-> 0..6, dry |-> 0..3,
     orderTime |-> 0..1440]

Choices(c) ==
    CASE c = "dishwasher" -> DishwasherChoices
      [] c = "washer"     -> WasherChoices
      [] OTHER            -> <<>>

\* ButtonSpec: resume, pause, stop and standby, all sent as the oven's power.
OvenButtons == [resume |-> 3, pause |-> 6, stop |-> 2, standby |-> 1]

-----------------------------------------------------------------------------
(* Native mappings. *)

\* ClimateConfig: HVACMode.OFF is written as mode 0.
ClimateModes == 1..5
ClimateFans  == {40, 60, 80, 102}
ClimateTemps == 16..30

\* LightConfig: a scale of 0..255 between two colour temperatures.
Warm    == 2700
Cool    == 6500
Scale   == 255
Effects == 1..6

\* WaterHeaterConfig: the tank modes, and the flags that name the one in force, in order.
Single == 1
Double == 2
Smart  == 3

Operations ==
    [x \in {Single, Double, Smart} |->
        IF x = Smart THEN [cloudSmart |-> 1] ELSE [cloudSmart |-> 0, bodyNum |-> x]]

OperationFlags(s) ==
    << Rule(Smart,  Is(s, "cloudSmart", {1})),
       Rule(Single, Is(s, "bodyNum", {1})),
       Rule(Double, Is(s, "bodyNum", {2})) >>

TankTemps == 35..75

-----------------------------------------------------------------------------
(* The oven's programmes: code, range and step of the temperature, its     *)
(* default, whether there is a temperature and a pre-heat, and the longest *)
(* time.                                                                   *)

OvenProgram(code, min, max, default, temp, preheat, minutes) ==
    [code |-> code, min |-> min, max |-> max, default |-> default,
     temp |-> temp, preheat |-> preheat, minutes |-> minutes]

Heating(code, min, default) == OvenProgram(code, min, 250, default, TRUE, TRUE, 300)

OvenPrograms ==
    { Heating(21249, 30, 180), Heating(21505, 50, 160), Heating(24320, 50, 160),
      Heating(26112, 150, 180), Heating(25344, 50, 180), Heating(26368, 50, 180),
      Heating(22272, 50, 180), Heating(20993, 50, 180),
      OvenProgram(41472, 140, 240, 140, TRUE, FALSE, 300),
      OvenProgram(22528, 30, 50, 40, TRUE, FALSE, 300),
      OvenProgram(24064, 60, 100, 75, TRUE, FALSE, 540),
      OvenProgram(41984, 50, 250, 180, FALSE, FALSE, 300) }

\* DishwasherConfig: the programmes, extras and zones there are, and power = 3, start.
DishwasherPrograms == {1, 2, 3, 4, 5, 6, 7, 8, 12, 15, 16}
DishwasherExtras   == {1, 2, 4, 6}
DishwasherZones    == 1..3
NoExtra   == 0
BothZones == 3
StartCode == 3
=============================================================================
