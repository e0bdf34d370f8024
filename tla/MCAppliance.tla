------------------------------ MODULE MCAppliance ------------------------------
(* Small appliances for module Composer: each has the keys and codes one question needs. *)
EXTENDS Composer, Readings

Ask(x, w) == [control |-> x, wanted |-> w]

\* An appliance without a composer, and one with.
Plain(category, codes, answers, asks) ==
    [category |-> category, codes |-> codes, answers |-> answers, asks |-> asks,
     values |-> <<>>, programmes |-> {}, extras |-> {},
     zoned |-> FALSE, probe |-> FALSE, preheat |-> FALSE, lists |-> FALSE]

DishwasherUnit ==
    Plain("dishwasher",
          [power |-> {0, 1, 3}, runState |-> {0, 1, 2}, faultCode |-> {0, 1, 5},
           washingState |-> {1, 5}, doorstatus |-> {0, 1}, childLock |-> {0, 1}],
          {<<>>, [power |-> 3, runState |-> 1, faultCode |-> 0, washingState |-> 1,
                  doorstatus |-> 1, childLock |-> 0]},
          AsksOf("power", {0, 1}) \cup AsksOf("runState", {0, 1}))

WasherUnit ==
    Plain("washer",
          [power |-> {0, 1}, runState |-> {0, 1, 2, 5}, faultCode |-> {0, 16},
           childLock |-> {0, 1}, startPause |-> {0, 1}, cycle |-> {0, 3, 99}],
          {<<>>, [power |-> 1, runState |-> 2, childLock |-> 0]},
          AsksOf("power", {0, 1}) \cup AsksOf("startPause", {0, 1}) \cup AsksOf("cycle", {0, 3}))

OvenUnit ==
    Plain("oven",
          [devstatus |-> 1..6, faultCode |-> {0, 1}, childLock |-> {0, 1},
           doorStatus |-> {0, 1}, power |-> {1, 2, 3, 6}],
          {<<>>, [devstatus |-> 3, faultCode |-> 0, childLock |-> 0, doorStatus |-> 0]},
          AsksOf("childLock", {0, 1}) \cup {Ask("pause", 1), Ask("stop", 1)})

HeaterUnit ==
    Plain("water_heater",
          [power |-> {0, 1}, heatStatus |-> 0..2, cloudSmart |-> {0, 1}, bodyNum |-> 0..2,
           temp |-> {35, 60}],
          {<<>>, [power |-> 1, heatStatus |-> 1, cloudSmart |-> 1, bodyNum |-> 2]},
          AsksOf("temp", {35, 60}) \cup AsksOf("operation", {1, 2, 3}) \cup AsksOf("tank", {0, 1}))

AirConditionerUnit ==
    Plain("air_conditioner",
          [power |-> {0, 1}, mode |-> {0, 1, 4}, temp |-> {16, 24}, windSpeed |-> {40, 50, 102}],
          {<<>>, [power |-> 0, mode |-> 4]},
          AsksOf("hvac_mode", {0, 1, 4}) \cup AsksOf("climate", {0, 1}) \cup {Ask("temp", 24)}
            \cup AsksOf("windSpeed", {40, 102}))

LightUnit ==
    Plain("light",
          [power |-> {0, 1}, bright |-> {0, 255}, colorTemp |-> {0, 76, 77, 255}, mode |-> {1, 9}],
          {<<>>},
          AsksOf("light", {0, 1}) \cup {Ask("effect", 1), Ask("bright", 255)}
            \cup AsksOf("kelvin", {Kelvin(d) : d \in {0, 77, 255}}))

WashCycleUnit ==
    [Plain("dishwasher",
           [modeEU |-> {1, 4}, addFuncEU |-> {0, 2, 4}, washArea |-> {1, 3}, power |-> {3},
            doorstatus |-> {0, 1}],
           {<<>>, [modeEU |-> 4, addFuncEU |-> 4, doorstatus |-> 1]}, {})
       EXCEPT !.values = [modeEU |-> {1}, addFuncEU |-> {0, 2}, washArea |-> {1}],
              !.programmes = {1}, !.extras = {2}, !.zoned = TRUE]

CookUnit ==
    [Plain("oven", <<>>, {<<>>}, {})
       EXCEPT !.codes = [cookMode |-> {0, 21505, 41984}, upperTemp |-> {0, 45, 170},
                         preHeat |-> {0, 1}],
              !.values = [cookMode |-> {21505, 22528, 41984}, upperTemp |-> {45, 170},
                          preHeat |-> {0, 1}],
              !.preheat = TRUE, !.lists = TRUE]

ProbeUnit ==
    [Plain("oven", <<>>, {<<>>, [cookMode |-> 24064, cookTime |-> 5400]}, {})
       EXCEPT !.codes = [cookMode |-> {24064, 41984}, cookTime |-> {0, 90, 5400},
                         probeTemp |-> {30}],
              !.values = [cookMode |-> {24064, 41984}, cookTime |-> {1, 400},
                          probeTemp |-> {30, 80}],
              !.probe = TRUE]

UnitsMC ==
    {DishwasherUnit, WasherUnit, OvenUnit, HeaterUnit, AirConditionerUnit, LightUnit,
     WashCycleUnit, CookUnit, ProbeUnit}
=============================================================================
