------------------------------- MODULE Readings -------------------------------
(***************************************************************************)
(* The sensors and binary sensors of an appliance: sensor.py,              *)
(* binary_sensor.py and their rows of registry.py.  An appliance that is   *)
(* offline shows nothing at all; here it is online.                        *)
(***************************************************************************)
EXTENDS Controls

-----------------------------------------------------------------------------
(* Sensors. *)

\* value_map: the codes an enumerated sensor has a label for.
Labelled(c) ==
    CASE c = "dishwasher" ->
           [washingState |-> 0..5, modeEU |-> DishwasherPrograms, faultCode |-> DishwasherFaults]
      [] c = "water_heater" -> [heatStatus |-> 0..2]
      [] c = "oven" -> [faultCode |-> OvenFaults]
      [] c = "washer" ->
           [runState |-> 0..5, washingStatus |-> {0, 2, 4, 8, 16, 32, 64},
            faultCode |-> WasherFaults]
      [] OTHER -> <<>>

\* _remain_minutes: two bytes, the high one often not reported.
RemainMinutes(s) ==
    IF "remainTimeL" \notin DOMAIN s THEN NoValue
    ELSE s.remainTimeL + 256 * IF "remainTimeH" \in DOMAIN s THEN s.remainTimeH ELSE 0

\* _seconds_minutes, rounding up.
SecondsMinutes(s, k) ==
    IF k \notin DOMAIN s THEN NoValue
    ELSE IF s[k] <= 0 THEN 0 ELSE (s[k] + 59) \div 60

\* _oven_status: the phases of the pre-heat take the place of cooking.
Preheating    == 7
PreheatFinish == 8

OvenStatus(s) ==
    CASE Value(s, "devstatus") \notin 1..6 -> NoValue
      [] Value(s, "devstatus") = 3 /\ Value(s, "preheatState") = 1 -> Preheating
      [] Value(s, "devstatus") = 3 /\ Value(s, "preheatState") \in {2, 3} -> PreheatFinish
      [] OTHER -> Value(s, "devstatus")

\* HolabrainSensor.native_value
SensorShown(c, s, k) ==
    IF ~Meaningful(c, s, k) THEN NoValue
    ELSE IF c = "oven" /\ k = "devstatus" THEN OvenStatus(s)
    ELSE IF c = "oven" /\ k = "cookRemainTime" THEN SecondsMinutes(s, k)
    ELSE IF c = "dishwasher" /\ k = "remainTimeL" THEN RemainMinutes(s)
    ELSE IF k \in DOMAIN Labelled(c) /\ Value(s, k) \notin Labelled(c)[k] THEN NoValue
    ELSE Value(s, k)

-----------------------------------------------------------------------------
(* Binary sensors. *)

\* BinarySensorSpec: the key read, the codes for on, whether they mean off instead, and the
\* bit of the packed status that stands in for a key not reported.
Flag(key, on, invert, bit) == [key |-> key, on |-> on, invert |-> invert, bit |-> bit]

\* The door of a dishwasher read the way the oven spells it.
DishwasherFlagsLikeOven ==
    [door          |-> Flag("doorstatus", {1}, FALSE, NoValue),
     salt_low      |-> Flag("salt", {1}, FALSE, NoValue),
     rinse_aid_low |-> Flag("brightenAgent", {1}, FALSE, NoValue)]

DishwasherFlags ==
    [door          |-> Flag("doorstatus", {0}, FALSE, NoValue),
     salt_low      |-> Flag("salt", {1}, FALSE, NoValue),
     rinse_aid_low |-> Flag("brightenAgent", {1}, FALSE, NoValue)]

WaterHeaterFlags == [fault |-> Flag("faultCode", {0}, TRUE, NoValue)]

OvenFlags ==
    [door            |-> Flag("doorStatus", {1}, FALSE, 1),
     fault           |-> Flag("faultCode", {0}, TRUE, NoValue),
     preheating      |-> Flag("preheatState", {1}, FALSE, 5),
     preheat_reached |-> Flag("preheatState", {2, 3}, FALSE, 6),
     water_tank      |-> Flag("waterTankStatus", {1}, FALSE, 2),
     water_low       |-> Flag("lackOfWaterStatus", {1}, FALSE, 3),
     water_change    |-> Flag("changeWaterStatus", {1}, FALSE, 4)]

WasherFlags ==
    [detergent_low  |-> Flag("detergentShortage", {1}, FALSE, NoValue),
     softener_low   |-> Flag("softenerLiquidShortage", {1}, FALSE, NoValue),
     drum_clean_due |-> Flag("barrelSelfClean", {1}, FALSE, NoValue),
     remote_control |-> Flag("remoteControl", {1}, FALSE, NoValue)]

Flags(c) ==
    CASE c = "dishwasher"   -> DishwasherFlags
      [] c = "water_heater" -> WaterHeaterFlags
      [] c = "oven"         -> OvenFlags
      [] c = "washer"       -> WasherFlags
      [] OTHER              -> <<>>

\* _from_summary
FromSummary(s, bit) ==
    IF bit = NoValue \/ "transportStatusSummary1" \notin DOMAIN s THEN NoValue
    ELSE (s.transportStatusSummary1 \div 2^bit) % 2

\* HolabrainBinarySensor.is_on
FlagShown(c, s, f) ==
    LET flag == Flags(c)[f]
    IN  IF flag.key \notin DOMAIN s THEN FromSummary(s, flag.bit)
        ELSE IF (s[flag.key] \in flag.on) # flag.invert THEN 1 ELSE 0

-----------------------------------------------------------------------------
(* Property. *)

\* What a person is refused for is there to be seen on the page of the appliance: it shows
\* that it is off, a fault by its name, the door open.  Guards, state machines, sensors and
\* binary sensors are tables written apart, each with its own spelling of the same codes,
\* and any part of the status may be missing.  (A child lock is shown by the oven alone.)
OffIsShown(c, s) ==
    CASE c = "oven"   -> SensorShown(c, s, "devstatus") = 1
      [] c = "washer" -> 0 \in {SwitchShown(c, s, "power"), SensorShown(c, s, "runState")}
      [] OTHER        -> SwitchShown(c, s, "power") = 0

FaultIsShown(c, s) ==
    \/ SensorShown(c, s, "faultCode") \notin {0, NoValue}
    \/ c = "washer" /\ SensorShown(c, s, "runState") = 5

ReasonIsShown(c, s, reason) ==
    CASE reason = "appliance_off"   -> OffIsShown(c, s)
      [] reason = "appliance_fault" -> FaultIsShown(c, s)
      [] reason = "door_open"       -> FlagShown(c, s, "door") = 1
      [] reason = "child_lock" /\ c = "oven" -> SwitchShown(c, s, "childLock") = 1
      [] OTHER -> TRUE

RefusalsShown ==
    \A k \in DOMAIN Switches(unit.category) :
        LET reason == CheckWritable(unit.category, status, k)
        IN  reason # NoValue => ReasonIsShown(unit.category, status, reason)
=============================================================================
