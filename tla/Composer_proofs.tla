--------------------------- MODULE Composer_proofs ---------------------------
(***************************************************************************)
(* For any appliances and any number of writes in flight, the safety       *)
(* properties of modules Controls and Composer.                            *)
(***************************************************************************)
EXTENDS Composer, FiniteSetTheorems, TLAPS

-----------------------------------------------------------------------------
(* The operators. *)

\* First names the rule that holds while none before it does.
LEMMA FirstAt ==
  ASSUME NEW rules, NEW i \in DOMAIN rules, DOMAIN rules \subseteq Int,
         rules[i].holds = "yes",
         \A j \in DOMAIN rules : j < i => rules[j].holds # "yes"
  PROVE  First(rules) = rules[i].name
<1> DEFINE holding == {n \in DOMAIN rules : rules[n].holds = "yes"}
<1>1. i \in holding /\ \A n \in holding : i <= n
  BY SMT
<1>2. \A m \in holding : (\A n \in holding : m <= n) => m = i
  BY <1>1, SMT
<1>3. (CHOOSE m \in holding : \A n \in holding : m <= n) = i
  BY <1>1, <1>2
<1> QED BY <1>1, <1>3 DEF First

LEMMA FirstNone ==
  ASSUME NEW rules, \A j \in DOMAIN rules : rules[j].holds # "yes"
  PROVE  First(rules) = NoValue
BY DEF First

\* First of rules spelt out.
LEMMA FirstOf7 ==
  ASSUME NEW n1, NEW v1, NEW n2, NEW v2, NEW n3, NEW v3, NEW n4, NEW v4, NEW n5, NEW v5,
         NEW n6, NEW v6, NEW n7, NEW v7
  PROVE  First(<<Rule(n1, v1), Rule(n2, v2), Rule(n3, v3), Rule(n4, v4), Rule(n5, v5),
                 Rule(n6, v6), Rule(n7, v7)>>)
           = IF v1 = "yes" THEN n1 ELSE IF v2 = "yes" THEN n2 ELSE IF v3 = "yes" THEN n3
             ELSE IF v4 = "yes" THEN n4 ELSE IF v5 = "yes" THEN n5 ELSE IF v6 = "yes" THEN n6
             ELSE IF v7 = "yes" THEN n7 ELSE NoValue
<1> DEFINE r == <<Rule(n1, v1), Rule(n2, v2), Rule(n3, v3), Rule(n4, v4), Rule(n5, v5),
                  Rule(n6, v6), Rule(n7, v7)>>
<1>1. DOMAIN r = 1..7
  OBVIOUS
<1>2. /\ r[1].name = n1 /\ r[2].name = n2 /\ r[3].name = n3 /\ r[4].name = n4
      /\ r[5].name = n5 /\ r[6].name = n6 /\ r[7].name = n7
      /\ r[1].holds = v1 /\ r[2].holds = v2 /\ r[3].holds = v3 /\ r[4].holds = v4
      /\ r[5].holds = v5 /\ r[6].holds = v6 /\ r[7].holds = v7
  BY DEF Rule
<1> HIDE DEF r
<1>3. ASSUME NEW i \in 1..7, r[i].holds = "yes", \A j \in 1..7 : j < i => r[j].holds # "yes"
      PROVE  First(r) = r[i].name
  BY <1>1, <1>3, FirstAt
<1>4. (\A j \in 1..7 : r[j].holds # "yes") => First(r) = NoValue
  BY <1>1, FirstNone
<1>5. First(r)
        = IF v1 = "yes" THEN n1 ELSE IF v2 = "yes" THEN n2 ELSE IF v3 = "yes" THEN n3
          ELSE IF v4 = "yes" THEN n4 ELSE IF v5 = "yes" THEN n5 ELSE IF v6 = "yes" THEN n6
          ELSE IF v7 = "yes" THEN n7 ELSE NoValue
  BY <1>2, <1>3, <1>4, SMT
<1> QED BY <1>5 DEF r

LEMMA FirstOf6 ==
  ASSUME NEW n1, NEW v1, NEW n2, NEW v2, NEW n3, NEW v3, NEW n4, NEW v4, NEW n5, NEW v5, NEW n6,
         NEW v6
  PROVE  First(<<Rule(n1, v1), Rule(n2, v2), Rule(n3, v3), Rule(n4, v4), Rule(n5, v5), Rule(n6,
               v6)>>)
           = IF v1 = "yes" THEN n1 ELSE IF v2 = "yes" THEN n2 ELSE IF v3 = "yes" THEN n3 ELSE IF
             v4 = "yes" THEN n4 ELSE IF v5 = "yes" THEN n5 ELSE IF v6 = "yes" THEN n6 ELSE
             NoValue
<1> DEFINE r == <<Rule(n1, v1), Rule(n2, v2), Rule(n3, v3), Rule(n4, v4), Rule(n5, v5), Rule(n6,
                v6)>>
<1>1. DOMAIN r = 1..6
  OBVIOUS
<1>2. /\ r[1].name = n1 /\ r[2].name = n2 /\ r[3].name = n3 /\ r[4].name = n4 /\ r[5].name = n5 /\ r[6].name = n6
      /\ r[1].holds = v1 /\ r[2].holds = v2 /\ r[3].holds = v3 /\ r[4].holds = v4 /\ r[5].holds = v5 /\ r[6].holds = v6
  BY DEF Rule
<1> HIDE DEF r
<1>3. ASSUME NEW i \in 1..6, r[i].holds = "yes", \A j \in 1..6 : j < i => r[j].holds # "yes"
      PROVE  First(r) = r[i].name
  BY <1>1, <1>3, FirstAt
<1>4. (\A j \in 1..6 : r[j].holds # "yes") => First(r) = NoValue
  BY <1>1, FirstNone
<1>5. First(r)
        = IF v1 = "yes" THEN n1 ELSE IF v2 = "yes" THEN n2 ELSE IF v3 = "yes" THEN n3 ELSE IF v4
          = "yes" THEN n4 ELSE IF v5 = "yes" THEN n5 ELSE IF v6 = "yes" THEN n6 ELSE NoValue
  BY <1>2, <1>3, <1>4, SMT
<1> QED BY <1>5 DEF r

LEMMA FirstOf4 ==
  ASSUME NEW n1, NEW v1, NEW n2, NEW v2, NEW n3, NEW v3, NEW n4, NEW v4
  PROVE  First(<<Rule(n1, v1), Rule(n2, v2), Rule(n3, v3), Rule(n4, v4)>>)
           = IF v1 = "yes" THEN n1 ELSE IF v2 = "yes" THEN n2 ELSE IF v3 = "yes" THEN n3 ELSE IF
             v4 = "yes" THEN n4 ELSE NoValue
<1> DEFINE r == <<Rule(n1, v1), Rule(n2, v2), Rule(n3, v3), Rule(n4, v4)>>
<1>1. DOMAIN r = 1..4
  OBVIOUS
<1>2. /\ r[1].name = n1 /\ r[2].name = n2 /\ r[3].name = n3 /\ r[4].name = n4
      /\ r[1].holds = v1 /\ r[2].holds = v2 /\ r[3].holds = v3 /\ r[4].holds = v4
  BY DEF Rule
<1> HIDE DEF r
<1>3. ASSUME NEW i \in 1..4, r[i].holds = "yes", \A j \in 1..4 : j < i => r[j].holds # "yes"
      PROVE  First(r) = r[i].name
  BY <1>1, <1>3, FirstAt
<1>4. (\A j \in 1..4 : r[j].holds # "yes") => First(r) = NoValue
  BY <1>1, FirstNone
<1>5. First(r)
        = IF v1 = "yes" THEN n1 ELSE IF v2 = "yes" THEN n2 ELSE IF v3 = "yes" THEN n3 ELSE IF v4
          = "yes" THEN n4 ELSE NoValue
  BY <1>2, <1>3, <1>4, SMT
<1> QED BY <1>5 DEF r

\* The state machines spelt out.
LEMMA DishwasherMachine ==
  ASSUME NEW s
  PROVE  Machine("dishwasher", s) =
           IF Is(s, "power", {0}) = "yes" THEN "power_off"
           ELSE IF Faulted(s, DishwasherFaults) = "yes" THEN "fault"
           ELSE IF Is(s, "power", {1, 5}) = "yes" THEN "standby"
           ELSE IF Is(s, "power", {2}) = "yes" THEN "delay"
           ELSE IF AllOf(Is(s, "power", {3}), Is(s, "washingState", {5})) = "yes" THEN "finished"
           ELSE IF Is(s, "runState", {1}) = "yes" THEN "running"
           ELSE IF Is(s, "runState", {2}) = "yes" THEN "pause" ELSE NoValue
<1>1. Machine("dishwasher", s) = First(DishwasherStates(s))
  BY DEF Machine
<1> QED BY <1>1, FirstOf7, SMTT(60) DEF DishwasherStates

LEMMA WaterHeaterMachine ==
  ASSUME NEW s
  PROVE  Machine("water_heater", s) =
           IF Is(s, "power", {0}) = "yes" THEN "power_off"
           ELSE IF Is(s, "heatStatus", {1}) = "yes" THEN "heating"
           ELSE IF Is(s, "heatStatus", {2}) = "yes" THEN "keep_warm"
           ELSE IF Is(s, "heatStatus", {0}) = "yes" THEN "standby" ELSE NoValue
<1>1. Machine("water_heater", s) = First(WaterHeaterStates(s))
  BY DEF Machine
<1> QED BY <1>1, FirstOf4 DEF WaterHeaterStates

LEMMA OvenMachine ==
  ASSUME NEW s
  PROVE  Machine("oven", s) =
           IF Faulted(s, OvenFaults) = "yes" THEN "fault"
           ELSE IF Is(s, "devstatus", {1}) = "yes" THEN "off"
           ELSE IF Is(s, "devstatus", {2}) = "yes" THEN "standby"
           ELSE IF Is(s, "devstatus", {3}) = "yes" THEN "cooking"
           ELSE IF Is(s, "devstatus", {4}) = "yes" THEN "cook_complete"
           ELSE IF Is(s, "devstatus", {5}) = "yes" THEN "delay"
           ELSE IF Is(s, "devstatus", {6}) = "yes" THEN "pause" ELSE NoValue
<1>1. Machine("oven", s) = First(OvenStates(s))
  BY DEF Machine
<1> QED BY <1>1, FirstOf7, SMTT(60) DEF OvenStates

LEMMA WasherMachine ==
  ASSUME NEW s
  PROVE  Machine("washer", s) =
           IF AnyOf(Is(s, "power", {0}), Is(s, "runState", {0})) = "yes" THEN "power_off"
           ELSE IF AnyOf(Is(s, "runState", {5}), Faulted(s, WasherFaults)) = "yes" THEN "fault"
           ELSE IF Is(s, "runState", {1}) = "yes" THEN "standby"
           ELSE IF Is(s, "runState", {2}) = "yes" THEN "running"
           ELSE IF Is(s, "runState", {3}) = "yes" THEN "pause"
           ELSE IF Is(s, "runState", {4}) = "yes" THEN "finished" ELSE NoValue
<1>1. Machine("washer", s) = First(WasherStates(s))
  BY DEF Machine
<1> QED BY <1>1, FirstOf6 DEF WasherStates

-----------------------------------------------------------------------------
(* Off shows nothing. *)

LEMMA OffReadings ==
  /\ \A k \in DOMAIN DishwasherReadings("power_off") : DishwasherReadings("power_off")[k] = "no"
  /\ \A k \in DOMAIN WaterHeaterReadings("power_off") : WaterHeaterReadings("power_off")[k] = "no"
  /\ \A m \in {"fault", "off"} : \A k \in DOMAIN OvenReadings(m) : OvenReadings(m)[k] = "no"
  /\ \A k \in DOMAIN WasherReadings("power_off") : WasherReadings("power_off")[k] = "no"
<1>1. \A m \in {"power_off", "fault", "off"} : m # NoValue
  BY NamesAssumption DEF States
<1>2. StateIs("power_off", {"power_off"}) = "yes"
  BY <1>1 DEF StateIs
<1>3. StateIs("power_off", {"running", "pause"}) = "no"
  BY <1>1 DEF StateIs

<1>4. StateIs("power_off", {"running", "pause", "finished"}) = "no"
  BY <1>1 DEF StateIs

<1>5. StateIs("power_off", {"heating"}) = "no"
  BY <1>1 DEF StateIs

<1>6. \A m \in {"fault", "off"} : StateIs(m, {"cooking", "pause"}) = "no"
  BY <1>1 DEF StateIs

<1> QED
  BY <1>2, <1>3, <1>4, <1>5, <1>6
  DEF DishwasherReadings, WaterHeaterReadings, OvenReadings, WasherReadings, Not

\* Whatever else a status holds or lacks, a gated reading of an appliance that says it is
\* off is not shown.
LEMMA OffIsBlank ==
  ASSUME NEW c \in Categories, NEW s, SaysOff(c, s)
  PROVE  \A k \in DOMAIN Gated(c, Machine(c, s)) : ~Meaningful(c, s, k)
<1> DEFINE m == Machine(c, s)
<1>0. \A k, code : code \in Int /\ Value(s, k) = code => Is(s, k, {code}) = "yes"
  BY NoValueAssumption DEF Value, Is
<1>1. CASE c = "dishwasher"
  <2>1. m = "power_off"
    <3>1. Is(s, "power", {0}) = "yes"
      BY <1>0, <1>1 DEF SaysOff
    <3> QED BY <3>1, <1>1, DishwasherMachine
  <2>2. Gated(c, m) = DishwasherReadings(m)
    BY <1>1 DEF Gated
  <2> QED
    BY <2>1, <2>2, OffReadings DEF Meaningful, HoldsOr
<1>2. CASE c = "water_heater"
  <2>1. m = "power_off"
    <3>1. Is(s, "power", {0}) = "yes"
      BY <1>0, <1>2 DEF SaysOff
    <3> QED BY <3>1, <1>2, WaterHeaterMachine
  <2>2. Gated(c, m) = WaterHeaterReadings(m)
    BY <1>2 DEF Gated
  <2> QED
    BY <2>1, <2>2, OffReadings DEF Meaningful, HoldsOr
<1>3. CASE c = "oven"
  <2>1. m \in {"fault", "off"}
    <3>1. Is(s, "devstatus", {1}) = "yes"
      BY <1>0, <1>3 DEF SaysOff
    <3> QED BY <3>1, <1>3, OvenMachine
  <2>2. Gated(c, m) = OvenReadings(m)
    BY <1>3 DEF Gated
  <2> QED
    BY <2>1, <2>2, OffReadings DEF Meaningful, HoldsOr
<1>4. CASE c = "washer"
  <2>1. m = "power_off"
    <3>1. Is(s, "power", {0}) = "yes" \/ Is(s, "runState", {0}) = "yes"
      BY <1>0, <1>4 DEF SaysOff
    <3>2. AnyOf(Is(s, "power", {0}), Is(s, "runState", {0})) = "yes"
      BY <3>1 DEF AnyOf
    <3> QED BY <3>2, <1>4, WasherMachine
  <2>2. Gated(c, m) = WasherReadings(m)
    BY <1>4 DEF Gated
  <2> QED
    BY <2>1, <2>2, OffReadings DEF Meaningful, HoldsOr
<1>5. CASE c \in {"light", "air_conditioner"}
  BY <1>5 DEF Gated
<1> QED BY <1>1, <1>2, <1>3, <1>4, <1>5 DEF Categories

-----------------------------------------------------------------------------
(* What is missing is given the benefit of the doubt. *)

\* A verdict on one key stays when the status grows.
LEMMA IsGrows ==
  ASSUME NEW s, NEW t, Grows(s, t)
  PROVE  \A k, values : Is(s, k, values) \in {"yes", "no"} => Is(t, k, values) = Is(s, k, values)
BY DEF Grows, Is

LEMMA IsVerdict == \A s, k, values : Is(s, k, values) \in Verdicts
BY DEF Is, Verdicts

\* How the state may move when the status grows: up the order of the rules, or not at all
\* where the rules read one key.
LEMMA DishwasherGrows ==
  ASSUME NEW s, NEW t, Grows(s, t)
  PROVE  LET m == Machine("dishwasher", s)
             n == Machine("dishwasher", t)
         IN  /\ m = "power_off" => n = "power_off"
             /\ m = "fault" => n \in {"power_off", "fault"}
             /\ m \in {"standby", "delay"} => n \in {"power_off", "fault", "standby", "delay"}
             /\ m = "finished" => n \in {"power_off", "fault", "standby", "delay", "finished"}
<1> DEFINE m == Machine("dishwasher", s)
           n == Machine("dishwasher", t)
<1>1. Is(s, "power", {0}) = "yes" => Is(t, "power", {0}) = "yes"
  BY IsGrows
<1>2. Faulted(s, DishwasherFaults) = "yes" => Faulted(t, DishwasherFaults) = "yes"
  BY IsGrows DEF Faulted
<1>3. Is(s, "power", {1, 5}) = "yes" => Is(t, "power", {1, 5}) = "yes"
  BY IsGrows
<1>4. Is(s, "power", {2}) = "yes" => Is(t, "power", {2}) = "yes"
  BY IsGrows
<1>5. AllOf(Is(s, "power", {3}), Is(s, "washingState", {5})) = "yes"
        => AllOf(Is(t, "power", {3}), Is(t, "washingState", {5})) = "yes"
  <2>1. ASSUME NEW v, NEW w PROVE AllOf(v, w) = "yes" => v # "no" /\ w # "no" /\ v # "unknown" /\ w # "unknown"
    BY DEF AllOf
  <2>2. AllOf("yes", "yes") = "yes"
    BY DEF AllOf
  <2> QED
    BY <2>1, <2>2, IsGrows, IsVerdict DEF Verdicts
<1>6. m = "power_off" => Is(s, "power", {0}) = "yes"
  BY DishwasherMachine, NamesAssumption DEF States
<1>7. m = "fault" => Faulted(s, DishwasherFaults) = "yes"
  BY DishwasherMachine, NamesAssumption DEF States
<1>8. m = "standby" => Is(s, "power", {1, 5}) = "yes"
  BY DishwasherMachine, NamesAssumption DEF States
<1>9. m = "delay" => Is(s, "power", {2}) = "yes"
  BY DishwasherMachine, NamesAssumption DEF States
<1>10. m = "finished" => AllOf(Is(s, "power", {3}), Is(s, "washingState", {5})) = "yes"
  BY DishwasherMachine, NamesAssumption DEF States
<1>11. Is(t, "power", {0}) = "yes" => n = "power_off"
  BY DishwasherMachine
<1>12. Faulted(t, DishwasherFaults) = "yes" => n \in {"power_off", "fault"}
  BY DishwasherMachine
<1>13. Is(t, "power", {1, 5}) = "yes" => n \in {"power_off", "fault", "standby"}
  BY DishwasherMachine
<1>14. Is(t, "power", {2}) = "yes" => n \in {"power_off", "fault", "standby", "delay"}
  BY DishwasherMachine
<1>15. AllOf(Is(t, "power", {3}), Is(t, "washingState", {5})) = "yes"
         => n \in {"power_off", "fault", "standby", "delay", "finished"}
  BY DishwasherMachine
<1> HIDE DEF m, n
<1>16. /\ m = "power_off" => n = "power_off"
       /\ m = "fault" => n \in {"power_off", "fault"}
       /\ m \in {"standby", "delay"} => n \in {"power_off", "fault", "standby", "delay"}
       /\ m = "finished" => n \in {"power_off", "fault", "standby", "delay", "finished"}
  BY <1>1, <1>2, <1>3, <1>4, <1>5, <1>6, <1>7, <1>8, <1>9, <1>10, <1>11, <1>12, <1>13, <1>14, <1>15
<1> QED BY <1>16 DEF m, n

LEMMA WaterHeaterGrows ==
  ASSUME NEW s, NEW t, Grows(s, t)
  PROVE  LET m == Machine("water_heater", s)
             n == Machine("water_heater", t)
         IN  /\ m = "power_off" => n = "power_off"
             /\ m \in {"keep_warm", "standby"} => n \in {"power_off", "keep_warm", "standby"}
<1> DEFINE m == Machine("water_heater", s)
           n == Machine("water_heater", t)
<1>1. m = "power_off" => Is(s, "power", {0}) = "yes"
  BY WaterHeaterMachine, NamesAssumption DEF States
<1>2. m \in {"keep_warm", "standby"}
        => Is(s, "heatStatus", {1}) = "no" /\ \E h \in {0, 2} : Is(s, "heatStatus", {h}) = "yes"
  <2>1. ASSUME NEW h \in {0, 2}, Is(s, "heatStatus", {h}) = "yes"
        PROVE  Is(s, "heatStatus", {1}) = "no"
    BY <2>1 DEF Is
  <2> QED
    BY <2>1, WaterHeaterMachine, NamesAssumption DEF States
<1>3. Is(t, "power", {0}) = "yes" => n = "power_off"
  BY WaterHeaterMachine
<1>4. ASSUME NEW h \in {0, 2}, Is(t, "heatStatus", {h}) = "yes", Is(t, "heatStatus", {1}) = "no"
      PROVE  n \in {"power_off", "keep_warm", "standby"}
  BY <1>4, WaterHeaterMachine
<1> HIDE DEF m, n
<1>5. /\ m = "power_off" => n = "power_off"
      /\ m \in {"keep_warm", "standby"} => n \in {"power_off", "keep_warm", "standby"}
  BY <1>1, <1>2, <1>3, <1>4, IsGrows
<1> QED BY <1>5 DEF m, n

LEMMA OvenGrows ==
  ASSUME NEW s, NEW t, Grows(s, t)
  PROVE  LET m == Machine("oven", s)
             n == Machine("oven", t)
         IN  /\ m = "fault" => n = "fault"
             /\ m = "off" => n \in {"fault", "off"}
             /\ m \in {"standby", "cook_complete", "delay"}
                  => n \in {"fault", "standby", "cook_complete", "delay"}
<1> DEFINE m == Machine("oven", s)
           n == Machine("oven", t)
<1>1. Faulted(s, OvenFaults) = "yes" => Faulted(t, OvenFaults) = "yes"
  BY IsGrows DEF Faulted
<1>2. m = "fault" => Faulted(s, OvenFaults) = "yes"
  BY OvenMachine, NamesAssumption DEF States
<1>3. m = "off" => Is(s, "devstatus", {1}) = "yes"
  BY OvenMachine, NamesAssumption DEF States
<1>4. m \in {"standby", "cook_complete", "delay"} => \E d \in {2, 4, 5} : Is(s, "devstatus", {d}) = "yes"
  BY OvenMachine, NamesAssumption DEF States
<1>5. Faulted(t, OvenFaults) = "yes" => n = "fault"
  BY OvenMachine
<1>6. Is(t, "devstatus", {1}) = "yes" => n \in {"fault", "off"}
  BY OvenMachine
<1>7. ASSUME NEW d \in {2, 4, 5}, Is(t, "devstatus", {d}) = "yes"
      PROVE  n \in {"fault", "standby", "cook_complete", "delay"}
  <2>1. \A e \in {1, 3, 6} : Is(t, "devstatus", {e}) = "no"
    BY <1>7 DEF Is
  <2> QED
    BY <1>7, <2>1, OvenMachine
<1> HIDE DEF m, n
<1>8. /\ m = "fault" => n = "fault"
      /\ m = "off" => n \in {"fault", "off"}
      /\ m \in {"standby", "cook_complete", "delay"}
           => n \in {"fault", "standby", "cook_complete", "delay"}
  BY <1>1, <1>2, <1>3, <1>4, <1>5, <1>6, <1>7, IsGrows
<1> QED BY <1>8 DEF m, n

LEMMA WasherGrows ==
  ASSUME NEW s, NEW t, Grows(s, t)
  PROVE  LET m == Machine("washer", s)
             n == Machine("washer", t)
         IN  /\ m = "power_off" => n = "power_off"
             /\ m = "fault" => n \in {"power_off", "fault"}
             /\ m \in {"standby", "finished"} => n \in {"power_off", "fault", "standby", "finished"}
<1> DEFINE m == Machine("washer", s)
           n == Machine("washer", t)
<1>1. \A v, w : AnyOf(v, w) = "yes" <=> v = "yes" \/ w = "yes"
  BY DEF AnyOf
<1>2. m = "power_off" => Is(s, "power", {0}) = "yes" \/ Is(s, "runState", {0}) = "yes"
  BY <1>1, WasherMachine, NamesAssumption DEF States
<1>3. m = "fault" => Is(s, "runState", {5}) = "yes" \/ Faulted(s, WasherFaults) = "yes"
  BY <1>1, WasherMachine, NamesAssumption DEF States
<1>4. m \in {"standby", "finished"} => \E r \in {1, 4} : Is(s, "runState", {r}) = "yes"
  BY WasherMachine, NamesAssumption DEF States
<1>5. Is(t, "power", {0}) = "yes" \/ Is(t, "runState", {0}) = "yes" => n = "power_off"
  BY <1>1, WasherMachine
<1>6. Is(t, "runState", {5}) = "yes" \/ Faulted(t, WasherFaults) = "yes" => n \in {"power_off", "fault"}
  BY <1>1, WasherMachine
<1>7. ASSUME NEW r \in {1, 4}, Is(t, "runState", {r}) = "yes"
      PROVE  n \in {"power_off", "fault", "standby", "finished"}
  <2>1. \A e \in {2, 3} : Is(t, "runState", {e}) = "no"
    BY <1>7 DEF Is
  <2> QED
    BY <1>7, <2>1, WasherMachine
<1>8. Faulted(s, WasherFaults) = "yes" => Faulted(t, WasherFaults) = "yes"
  BY IsGrows DEF Faulted
<1> HIDE DEF m, n
<1>9. /\ m = "power_off" => n = "power_off"
      /\ m = "fault" => n \in {"power_off", "fault"}
      /\ m \in {"standby", "finished"} => n \in {"power_off", "fault", "standby", "finished"}
  BY <1>2, <1>3, <1>4, <1>5, <1>6, <1>7, <1>8, IsGrows
<1> QED BY <1>9 DEF m, n

\* A reading is taken away only in these states.
LEMMA BlankStates ==
  /\ \A m : \A k \in DOMAIN DishwasherReadings(m) :
        DishwasherReadings(m)[k] = "no" <=>
          CASE k = "modeEU" -> m = "power_off"
            [] k = "washingState" -> m \notin {NoValue, "running", "pause", "finished"}
            [] OTHER -> m \notin {NoValue, "running", "pause"}
  /\ \A m : \A k \in DOMAIN WaterHeaterReadings(m) :
        WaterHeaterReadings(m)[k] = "no" <=>
          IF k = "heatStatus" THEN m = "power_off" ELSE m \notin {NoValue, "heating"}
  /\ \A m : \A k \in DOMAIN OvenReadings(m) :
        OvenReadings(m)[k] = "no" <=> m \notin {NoValue, "cooking", "pause"}
  /\ \A m : \A k \in DOMAIN WasherReadings(m) :
        WasherReadings(m)[k] = "no" <=> m \notin {NoValue, "running", "pause"}
<1>1. \A m, names : StateIs(m, names) = "no" <=> m # NoValue /\ m \notin names
  BY DEF StateIs
<1>2. \A m : Not(StateIs(m, {"power_off"})) = "no" <=> m = "power_off"
  BY NamesAssumption DEF StateIs, Not, States
<1>3. ASSUME NEW m, NEW k \in DOMAIN DishwasherReadings(m)
      PROVE  DishwasherReadings(m)[k] = "no" <=>
               CASE k = "modeEU" -> m = "power_off"
                 [] k = "washingState" -> m \notin {NoValue, "running", "pause", "finished"}
                 [] OTHER -> m \notin {NoValue, "running", "pause"}
  <2>1. k \in {"washingState", "modeEU", "remainTimeL", "realTemp", "runState"}
    BY <1>3 DEF DishwasherReadings
  <2>2. /\ DishwasherReadings(m)["modeEU"] = Not(StateIs(m, {"power_off"}))
        /\ DishwasherReadings(m)["washingState"] = StateIs(m, {"running", "pause", "finished"})
        /\ \A x \in {"remainTimeL", "realTemp", "runState"} :
              DishwasherReadings(m)[x] = StateIs(m, {"running", "pause"})
    BY DEF DishwasherReadings
  <2>3. CASE k = "modeEU"
    BY <2>2, <2>3, <1>2
  <2>4. CASE k = "washingState"
    BY <2>2, <2>4, <1>1
  <2>5. CASE k \in {"remainTimeL", "realTemp", "runState"}
    BY <2>2, <2>5, <1>1
  <2> QED BY <2>1, <2>3, <2>4, <2>5
<1>4. ASSUME NEW m, NEW k \in DOMAIN WaterHeaterReadings(m)
      PROVE  WaterHeaterReadings(m)[k] = "no" <=>
               IF k = "heatStatus" THEN m = "power_off" ELSE m \notin {NoValue, "heating"}
  BY <1>1, <1>2, <1>4 DEF WaterHeaterReadings
<1>5. ASSUME NEW m, NEW k \in DOMAIN OvenReadings(m)
      PROVE  OvenReadings(m)[k] = "no" <=> m \notin {NoValue, "cooking", "pause"}
  BY <1>1, <1>5 DEF OvenReadings
<1>6. ASSUME NEW m, NEW k \in DOMAIN WasherReadings(m)
      PROVE  WasherReadings(m)[k] = "no" <=> m \notin {NoValue, "running", "pause"}
  BY <1>1, <1>6 DEF WasherReadings
<1> QED BY <1>3, <1>4, <1>5, <1>6

LEMMA MachineStates ==
  ASSUME NEW s
  PROVE  /\ Machine("dishwasher", s) \in {NoValue, "power_off", "fault", "standby", "delay",
                                          "finished", "running", "pause"}
         /\ Machine("water_heater", s) \in {NoValue, "power_off", "heating", "keep_warm", "standby"}
         /\ Machine("oven", s) \in {NoValue, "fault", "off", "standby", "cooking",
                                    "cook_complete", "delay", "pause"}
         /\ Machine("washer", s) \in {NoValue, "power_off", "fault", "standby", "running", "pause",
                                      "finished"}
BY DishwasherMachine, WaterHeaterMachine, OvenMachine, WasherMachine

\* A key that arrives takes readings away and restores none.
LEMMA ReadingsLenient ==
  ASSUME NEW c \in Categories, NEW s, NEW t, Grows(s, t)
  PROVE  \A k \in DOMAIN Gated(c, Machine(c, s)) : Meaningful(c, t, k) => Meaningful(c, s, k)
<1> DEFINE m == Machine(c, s)
           n == Machine(c, t)
<1>0. \A v : HoldsOr(v, TRUE) <=> v \in {"unknown", "yes"}
  BY DEF HoldsOr
<1>1. \A v \in Verdicts : HoldsOr(v, TRUE) <=> v # "no"
  BY <1>0 DEF Verdicts
<1>2. \A x, names : StateIs(x, names) \in Verdicts /\ Not(StateIs(x, names)) \in Verdicts
  BY DEF StateIs, Not, Verdicts
<1>3. CASE c = "dishwasher"
  <2>1. Gated(c, m) = DishwasherReadings(m) /\ Gated(c, n) = DishwasherReadings(n)
    BY <1>3 DEF Gated
  <2>2. DOMAIN DishwasherReadings(m) = DOMAIN DishwasherReadings(n)
    BY DEF DishwasherReadings
  <2>3. \A x : \A k \in DOMAIN DishwasherReadings(x) : DishwasherReadings(x)[k] \in Verdicts
    BY <1>2 DEF DishwasherReadings
  <2>4. /\ m = Machine("dishwasher", s) /\ n = Machine("dishwasher", t)
        /\ \A x \in {"power_off", "fault", "standby", "delay", "finished"} : x # NoValue
    BY <1>3, NamesAssumption DEF States
  <2> HIDE DEF m, n
  <2>5. ASSUME NEW k \in DOMAIN DishwasherReadings(m), DishwasherReadings(m)[k] = "no"
        PROVE  DishwasherReadings(n)[k] = "no"
    <3>1. /\ m = "power_off" => n = "power_off"
          /\ m = "fault" => n \in {"power_off", "fault"}
          /\ m \in {"standby", "delay"} => n \in {"power_off", "fault", "standby", "delay"}
          /\ m = "finished" => n \in {"power_off", "fault", "standby", "delay", "finished"}
          /\ m \in {NoValue, "power_off", "fault", "standby", "delay", "finished", "running", "pause"}
      BY <2>4, DishwasherGrows, MachineStates
    <3>2. k \in DOMAIN DishwasherReadings(n)
      BY <2>2, <2>5
    <3>3. CASE k = "modeEU"
      BY <3>1, <3>2, <3>3, <2>5, BlankStates
    <3>4. CASE k = "washingState"
      <4>1. m \notin {NoValue, "running", "pause", "finished"}
        BY <3>4, <2>5, BlankStates
      <4>2. n \notin {NoValue, "running", "pause", "finished"}
        BY <4>1, <3>1, <2>4
      <4> QED BY <3>2, <3>4, <4>2, BlankStates
    <3>5. CASE k \notin {"modeEU", "washingState"}
      <4>1. m \notin {NoValue, "running", "pause"}
        BY <3>5, <2>5, BlankStates
      <4>2. n \notin {NoValue, "running", "pause"}
        BY <4>1, <3>1, <2>4
      <4> QED BY <3>2, <3>5, <4>2, BlankStates
    <3> QED BY <3>3, <3>4, <3>5
  <2> QED
    BY <2>1, <2>2, <2>3, <2>5, <1>1 DEF Meaningful, m, n
<1>4. CASE c = "water_heater"
  <2>1. Gated(c, m) = WaterHeaterReadings(m) /\ Gated(c, n) = WaterHeaterReadings(n)
    BY <1>4 DEF Gated
  <2>2. DOMAIN WaterHeaterReadings(m) = DOMAIN WaterHeaterReadings(n)
    BY DEF WaterHeaterReadings
  <2>3. \A x : \A k \in DOMAIN WaterHeaterReadings(x) : WaterHeaterReadings(x)[k] \in Verdicts
    BY <1>2 DEF WaterHeaterReadings
  <2>4. /\ m = Machine("water_heater", s) /\ n = Machine("water_heater", t)
        /\ \A x \in {"power_off", "keep_warm", "standby"} : x # NoValue
    BY <1>4, NamesAssumption DEF States
  <2> HIDE DEF m, n
  <2>5. ASSUME NEW k \in DOMAIN WaterHeaterReadings(m), WaterHeaterReadings(m)[k] = "no"
        PROVE  WaterHeaterReadings(n)[k] = "no"
    <3>1. /\ m = "power_off" => n = "power_off"
          /\ m \in {"keep_warm", "standby"} => n \in {"power_off", "keep_warm", "standby"}
          /\ m \in {NoValue, "power_off", "heating", "keep_warm", "standby"}
      BY <2>4, WaterHeaterGrows, MachineStates
    <3>2. k \in DOMAIN WaterHeaterReadings(n)
      BY <2>2, <2>5
    <3> QED BY <3>1, <3>2, <2>4, <2>5, BlankStates
  <2> QED
    BY <2>1, <2>2, <2>3, <2>5, <1>1 DEF Meaningful, m, n
<1>5. CASE c = "oven"
  <2>1. Gated(c, m) = OvenReadings(m) /\ Gated(c, n) = OvenReadings(n)
    BY <1>5 DEF Gated
  <2>2. DOMAIN OvenReadings(m) = DOMAIN OvenReadings(n)
    BY DEF OvenReadings
  <2>3. \A x : \A k \in DOMAIN OvenReadings(x) : OvenReadings(x)[k] \in Verdicts
    BY <1>2 DEF OvenReadings
  <2>4. /\ m = Machine("oven", s) /\ n = Machine("oven", t)
        /\ \A x \in {"fault", "off", "standby", "cook_complete", "delay"} : x # NoValue
    BY <1>5, NamesAssumption DEF States
  <2> HIDE DEF m, n
  <2>5. ASSUME NEW k \in DOMAIN OvenReadings(m), OvenReadings(m)[k] = "no"
        PROVE  OvenReadings(n)[k] = "no"
    <3>1. /\ m = "fault" => n = "fault"
          /\ m = "off" => n \in {"fault", "off"}
          /\ m \in {"standby", "cook_complete", "delay"}
               => n \in {"fault", "standby", "cook_complete", "delay"}
          /\ m \in {NoValue, "fault", "off", "standby", "cooking", "cook_complete", "delay", "pause"}
      BY <2>4, OvenGrows, MachineStates
    <3>2. k \in DOMAIN OvenReadings(n)
      BY <2>2, <2>5
    <3>3. m \notin {NoValue, "cooking", "pause"}
      BY <2>5, BlankStates
    <3>4. n \notin {NoValue, "cooking", "pause"}
      BY <3>1, <3>3, <2>4
    <3> QED BY <3>2, <3>4, BlankStates
  <2> QED
    BY <2>1, <2>2, <2>3, <2>5, <1>1 DEF Meaningful, m, n
<1>6. CASE c = "washer"
  <2>1. Gated(c, m) = WasherReadings(m) /\ Gated(c, n) = WasherReadings(n)
    BY <1>6 DEF Gated
  <2>2. DOMAIN WasherReadings(m) = DOMAIN WasherReadings(n)
    BY DEF WasherReadings
  <2>3. \A x : \A k \in DOMAIN WasherReadings(x) : WasherReadings(x)[k] \in Verdicts
    BY <1>2 DEF WasherReadings
  <2>4. /\ m = Machine("washer", s) /\ n = Machine("washer", t)
        /\ \A x \in {"power_off", "fault", "standby", "finished"} : x # NoValue
    BY <1>6, NamesAssumption DEF States
  <2> HIDE DEF m, n
  <2>5. ASSUME NEW k \in DOMAIN WasherReadings(m), WasherReadings(m)[k] = "no"
        PROVE  WasherReadings(n)[k] = "no"
    <3>1. /\ m = "power_off" => n = "power_off"
          /\ m = "fault" => n \in {"power_off", "fault"}
          /\ m \in {"standby", "finished"} => n \in {"power_off", "fault", "standby", "finished"}
          /\ m \in {NoValue, "power_off", "fault", "standby", "running", "pause", "finished"}
      BY <2>4, WasherGrows, MachineStates
    <3>2. k \in DOMAIN WasherReadings(n)
      BY <2>2, <2>5
    <3>3. m \notin {NoValue, "running", "pause"}
      BY <2>5, BlankStates
    <3>4. n \notin {NoValue, "running", "pause"}
      BY <3>1, <3>3, <2>4
    <3> QED BY <3>2, <3>4, BlankStates
  <2> QED
    BY <2>1, <2>2, <2>3, <2>5, <1>1 DEF Meaningful, m, n
<1>7. CASE c \in {"light", "air_conditioner"}
  BY <1>7 DEF Gated
<1> QED BY <1>3, <1>4, <1>5, <1>6, <1>7 DEF Categories

\* Of at most four named rules, one is named exactly when one holds.
LEMMA FirstIsNone ==
  ASSUME NEW rules, DOMAIN rules \subseteq 1..4,
         \A i \in DOMAIN rules : rules[i].name # NoValue
  PROVE  First(rules) = NoValue <=> \A i \in DOMAIN rules : rules[i].holds # "yes"
<1>1. ASSUME NEW i \in DOMAIN rules, rules[i].holds = "yes",
             \A j \in DOMAIN rules : j < i => rules[j].holds # "yes"
      PROVE  First(rules) # NoValue
  BY <1>1, FirstAt, SMT
<1>2. ASSUME \E i \in DOMAIN rules : rules[i].holds = "yes"
      PROVE  \E i \in DOMAIN rules : rules[i].holds = "yes"
               /\ \A j \in DOMAIN rules : j < i => rules[j].holds # "yes"
  <2> DEFINE Y(i) == i \in DOMAIN rules /\ rules[i].holds = "yes"
  <2>1. \E i \in 1..4 : Y(i)
    BY <1>2
  <2>2. Y(1) \/ Y(2) \/ Y(3) \/ Y(4)
    BY <2>1, SMT
  <2>3. \A j \in DOMAIN rules : j \in {1, 2, 3, 4}
    BY SMT
  <2>4. CASE Y(1)
    BY <2>3, <2>4, SMT
  <2>5. CASE Y(2) /\ ~Y(1)
    BY <2>3, <2>5, SMT
  <2>6. CASE Y(3) /\ ~Y(1) /\ ~Y(2)
    BY <2>3, <2>6, SMT
  <2>7. CASE Y(4) /\ ~Y(1) /\ ~Y(2) /\ ~Y(3)
    BY <2>3, <2>7, SMT
  <2> QED BY <2>2, <2>4, <2>5, <2>6, <2>7
<1> QED BY <1>1, <1>2, FirstNone

\* A control exempt from the state of the appliance is exempt from both states.
LEMMA Exempt ==
  ASSUME NEW c \in Categories, NEW k \in DOMAIN Switches(c)
  PROVE  "appliance_off" \in Switches(c)[k].exempt <=> "appliance_fault" \in Switches(c)[k].exempt
<1>1. \A r : "appliance_off" \in (r \ {"door_open"}) <=> "appliance_off" \in r
  OBVIOUS
<1>2. CASE c = "dishwasher"
  BY <1>2 DEF Switches, DishwasherSwitches, Switch, Reasons
<1>3. CASE c = "oven"
  BY <1>3 DEF Switches, OvenSwitches, Switch
<1>4. CASE c = "washer"
  BY <1>4 DEF Switches, WasherSwitches, Switch, Reasons
<1>5. CASE c \in {"light", "water_heater", "air_conditioner"}
  BY <1>5 DEF Switches
<1> QED BY <1>2, <1>3, <1>4, <1>5 DEF Categories

\* What the guard refuses, it refuses whatever arrives.
LEMMA GuardGrows ==
  ASSUME NEW c \in Categories, NEW s, NEW t, Grows(s, t)
  PROVE  LET g == Guard(c, s, Machine(c, s))
             h == Guard(c, t, Machine(c, t))
         IN  /\ DOMAIN g = DOMAIN h /\ DOMAIN g \subseteq 1..4
             /\ \A i \in DOMAIN g : g[i].name = h[i].name /\ g[i].name # NoValue
             /\ \A i \in DOMAIN g : g[i].holds = "yes" =>
                    \/ h[i].holds = "yes"
                    \/ /\ g[i].name \in {"appliance_off", "appliance_fault"}
                       /\ \E j \in DOMAIN g : /\ g[j].name \in {"appliance_off", "appliance_fault"}
                                              /\ h[j].holds = "yes"
<1> DEFINE m == Machine(c, s)
           n == Machine(c, t)
           g == Guard(c, s, m)
           h == Guard(c, t, n)
<1>1. \A r \in Reasons : r # NoValue
  BY NamesAssumption
<1>2. \A x, names : StateIs(x, names) = "yes" <=> x # NoValue /\ x \in names
  BY DEF StateIs
<1>3. \A x \in {"power_off", "off", "fault"} : x # NoValue
  BY NamesAssumption DEF States
<1>4. \A k, code : Is(s, k, {code}) = "yes" => Is(t, k, {code}) = "yes"
  BY IsGrows
<1>5. CASE c = "dishwasher"
  <2>1. g = DishwasherGuard(s, m) /\ h = DishwasherGuard(t, n)
    BY <1>5 DEF Guard
  <2>2. (m = "power_off" => n = "power_off") /\ (m = "fault" => n \in {"power_off", "fault"})
    BY <1>5, DishwasherGrows
  <2> HIDE DEF m, n, g, h
  <2>3. DOMAIN g = 1..4 /\ DOMAIN h = 1..4
    BY <2>1 DEF DishwasherGuard
  <2>4. /\ g[1].name = "appliance_off" /\ g[1].holds = StateIs(m, {"power_off"})
        /\ g[2].name = "appliance_fault" /\ g[2].holds = StateIs(m, {"fault"})
        /\ g[3].name = "door_open" /\ g[3].holds = Is(s, "doorstatus", {0})
        /\ g[4].name = "child_lock" /\ g[4].holds = Is(s, "childLock", {1})
    BY <2>1 DEF DishwasherGuard, Rule
  <2>5. /\ h[1].name = "appliance_off" /\ h[1].holds = StateIs(n, {"power_off"})
        /\ h[2].name = "appliance_fault" /\ h[2].holds = StateIs(n, {"fault"})
        /\ h[3].name = "door_open" /\ h[3].holds = Is(t, "doorstatus", {0})
        /\ h[4].name = "child_lock" /\ h[4].holds = Is(t, "childLock", {1})
    BY <2>1 DEF DishwasherGuard, Rule
  <2>6. \A i \in DOMAIN g : i \in {1, 2, 3, 4}
    BY <2>3, SMT
  <2>7. \A i \in DOMAIN g : g[i].name = h[i].name /\ g[i].name # NoValue
    BY <2>4, <2>5, <2>6, <1>1 DEF Reasons
  <2>8. /\ g[1].holds = "yes" => h[1].holds = "yes"
        /\ g[2].holds = "yes" => h[1].holds = "yes" \/ h[2].holds = "yes"
        /\ g[3].holds = "yes" => h[3].holds = "yes"
        /\ g[4].holds = "yes" => h[4].holds = "yes"
    BY <2>2, <2>4, <2>5, <1>2, <1>3, <1>4
  <2>9. 1 \in DOMAIN g /\ 2 \in DOMAIN g
    BY <2>3, SMT
  <2> HIDE DEF Guard
  <2>10. \A i \in DOMAIN g : g[i].holds = "yes" =>
           \/ h[i].holds = "yes"
           \/ /\ g[i].name \in {"appliance_off", "appliance_fault"}
              /\ \E j \in DOMAIN g : /\ g[j].name \in {"appliance_off", "appliance_fault"}
                                     /\ h[j].holds = "yes"
    BY <2>4, <2>6, <2>8, <2>9
  <2> QED BY <2>3, <2>7, <2>10 DEF g, h, m, n
<1>6. CASE c \in {"oven", "washer"}
  <2> DEFINE off == IF c = "oven" THEN "off" ELSE "power_off"
  <2>1. /\ g = << Rule("appliance_off", StateIs(m, {off})), Rule("appliance_fault", StateIs(m, {"fault"})),
                  Rule("child_lock", Is(s, "childLock", {1})) >>
        /\ h = << Rule("appliance_off", StateIs(n, {off})), Rule("appliance_fault", StateIs(n, {"fault"})),
                  Rule("child_lock", Is(t, "childLock", {1})) >>
    BY <1>6 DEF Guard, OvenGuard, WasherGuard
  <2>2. (m = off => n \in {off, "fault"}) /\ (m = "fault" => n \in {off, "fault"})
    BY <1>6, OvenGrows, WasherGrows
  <2>0. off # NoValue
    BY <1>3
  <2> HIDE DEF m, n, g, h, off
  <2>3. DOMAIN g = 1..3 /\ DOMAIN h = 1..3
    BY <2>1
  <2>4. /\ g[1].name = "appliance_off" /\ g[1].holds = StateIs(m, {off})
        /\ g[2].name = "appliance_fault" /\ g[2].holds = StateIs(m, {"fault"})
        /\ g[3].name = "child_lock" /\ g[3].holds = Is(s, "childLock", {1})
    BY <2>1 DEF Rule
  <2>5. /\ h[1].name = "appliance_off" /\ h[1].holds = StateIs(n, {off})
        /\ h[2].name = "appliance_fault" /\ h[2].holds = StateIs(n, {"fault"})
        /\ h[3].name = "child_lock" /\ h[3].holds = Is(t, "childLock", {1})
    BY <2>1 DEF Rule
  <2>6. \A i \in DOMAIN g : i \in {1, 2, 3}
    BY <2>3, SMT
  <2>7. \A i \in DOMAIN g : g[i].name = h[i].name /\ g[i].name # NoValue
    BY <2>4, <2>5, <2>6, <1>1 DEF Reasons
  <2>8. /\ g[1].holds = "yes" => h[1].holds = "yes" \/ h[2].holds = "yes"
        /\ g[2].holds = "yes" => h[1].holds = "yes" \/ h[2].holds = "yes"
        /\ g[3].holds = "yes" => h[3].holds = "yes"
    BY <2>0, <2>2, <2>4, <2>5, <1>2, <1>3, <1>4
  <2>9. 1 \in DOMAIN g /\ 2 \in DOMAIN g /\ DOMAIN g \subseteq 1..4
    BY <2>3, SMT
  <2>10. \A i \in DOMAIN g : g[i].holds = "yes" =>
           \/ h[i].holds = "yes"
           \/ /\ g[i].name \in {"appliance_off", "appliance_fault"}
              /\ \E j \in DOMAIN g : /\ g[j].name \in {"appliance_off", "appliance_fault"}
                                     /\ h[j].holds = "yes"
    BY <2>4, <2>6, <2>8, <2>9
  <2> QED BY <2>3, <2>7, <2>9, <2>10 DEF g, h, m, n
<1>7. CASE c \in {"light", "water_heater", "air_conditioner"}
  <2>1. g = <<>> /\ h = <<>>
    BY <1>7 DEF Guard
  <2>2. DOMAIN g = {} /\ DOMAIN h = {}
    BY <2>1
  <2> QED BY <2>2
<1> QED BY <1>5, <1>6, <1>7 DEF Categories

\* A write refused is refused whatever arrives.
LEMMA RefusalsLenient ==
  ASSUME NEW c \in Categories, NEW s, NEW t, Grows(s, t)
  PROVE  \A x \in DOMAIN Switches(c) \cup {"temp"} :
            Refusal(c, t, x) = NoValue => Refusal(c, s, x) = NoValue
<1>1. ASSUME NEW k \in DOMAIN Switches(c)
      PROVE  CheckWritable(c, t, k) = NoValue => CheckWritable(c, s, k) = NoValue
  <2> DEFINE g == Guard(c, s, Machine(c, s))
             h == Guard(c, t, Machine(c, t))
             e == Switches(c)[k].exempt
             G == [i \in DOMAIN g |-> IF g[i].name \in e THEN Rule(g[i].name, "no") ELSE g[i]]
             H == [i \in DOMAIN h |-> IF h[i].name \in e THEN Rule(h[i].name, "no") ELSE h[i]]
  <2>1. /\ DOMAIN g = DOMAIN h /\ DOMAIN g \subseteq 1..4
        /\ \A i \in DOMAIN g : g[i].name = h[i].name /\ g[i].name # NoValue
        /\ \A i \in DOMAIN g : g[i].holds = "yes" =>
               \/ h[i].holds = "yes"
               \/ /\ g[i].name \in {"appliance_off", "appliance_fault"}
                  /\ \E j \in DOMAIN g : /\ g[j].name \in {"appliance_off", "appliance_fault"}
                                         /\ h[j].holds = "yes"
    BY GuardGrows
  <2>2. "appliance_off" \in e <=> "appliance_fault" \in e
    BY Exempt
  <2>3. CheckWritable(c, s, k) = IF First(G) # NoValue THEN First(G) ELSE First(OwnBlocks(c, s, k))
    BY DEF CheckWritable
  <2>4. CheckWritable(c, t, k) = IF First(H) # NoValue THEN First(H) ELSE First(OwnBlocks(c, t, k))
    BY DEF CheckWritable
  <2> HIDE DEF g, h, e
  <2>5. /\ DOMAIN G = DOMAIN g /\ DOMAIN H = DOMAIN g
        /\ \A i \in DOMAIN g : G[i].name = g[i].name /\ H[i].name = g[i].name
        /\ \A i \in DOMAIN g : G[i].holds = "yes" <=> g[i].name \notin e /\ g[i].holds = "yes"
        /\ \A i \in DOMAIN g : H[i].holds = "yes" <=> g[i].name \notin e /\ h[i].holds = "yes"
    BY <2>1 DEF Rule
  <2> HIDE DEF G, H
  <2>6. (\A i \in DOMAIN g : H[i].holds # "yes") => (\A i \in DOMAIN g : G[i].holds # "yes")
    BY <2>1, <2>2, <2>5
  <2>7. First(H) = NoValue => First(G) = NoValue
    <3>1. First(H) = NoValue <=> \A i \in DOMAIN H : H[i].holds # "yes"
      BY <2>1, <2>5, FirstIsNone
    <3>2. First(G) = NoValue <=> \A i \in DOMAIN G : G[i].holds # "yes"
      BY <2>1, <2>5, FirstIsNone
    <3> QED BY <3>1, <3>2, <2>5, <2>6
  <2>8. First(OwnBlocks(c, t, k)) = NoValue => First(OwnBlocks(c, s, k)) = NoValue
    <3>1. CASE c = "oven" /\ k = "childLock"
      <4> DEFINE B(u) == << Rule("door_open", Is(u, "doorStatus", {1})) >>
      <4>1. OwnBlocks(c, t, k) = B(t) /\ OwnBlocks(c, s, k) = B(s)
        BY <3>1 DEF OwnBlocks
      <4>2. \A u : DOMAIN B(u) = 1..1 /\ B(u)[1].name = "door_open"
                   /\ B(u)[1].holds = Is(u, "doorStatus", {1})
        BY DEF Rule
      <4> HIDE DEF B
      <4>3. "door_open" # NoValue
        BY NamesAssumption DEF Reasons
      <4>4. \A u : First(B(u)) = NoValue <=> Is(u, "doorStatus", {1}) # "yes"
        <5> TAKE u
        <5>1. DOMAIN B(u) \subseteq 1..4 /\ \A i \in DOMAIN B(u) : i = 1 /\ B(u)[i].name # NoValue
          BY <4>2, <4>3, SMT
        <5>2. First(B(u)) = NoValue <=> \A i \in DOMAIN B(u) : B(u)[i].holds # "yes"
          BY <5>1, FirstIsNone
        <5>3. 1 \in DOMAIN B(u)
          BY <4>2, SMT
        <5> QED BY <5>1, <5>2, <5>3, <4>2
      <4> QED BY <4>1, <4>4, IsGrows
    <3>2. CASE ~(c = "oven" /\ k = "childLock")
      BY <3>2 DEF OwnBlocks
    <3> QED BY <3>1, <3>2
  <2> QED BY <2>3, <2>4, <2>7, <2>8
<1>2. Value(s, "cloudSmart") = 1 => Value(t, "cloudSmart") = 1
  BY NoValueAssumption DEF Value, Grows
<1>3. "smart_mode_locked" # NoValue
  BY NamesAssumption
<1>4. ASSUME NEW x \in DOMAIN Switches(c)
      PROVE  \A u : Refusal(c, u, x) = CheckWritable(c, u, x)
  <2>1. x \in DOMAIN Switches(c)
    OBVIOUS
  <2>2. ~(c = "water_heater")
    BY <2>1 DEF Switches
  <2> QED BY <2>1, <2>2 DEF Refusal
<1>5. "temp" \notin DOMAIN Switches(c) =>
        \A u : Refusal(c, u, "temp") =
                 IF c = "water_heater" /\ Value(u, "cloudSmart") = 1 THEN "smart_mode_locked"
                 ELSE NoValue
  BY DEF Refusal
<1> QED BY <1>1, <1>2, <1>3, <1>4, <1>5

-----------------------------------------------------------------------------
(* The unit stays one of the units. *)

LEMMA UnitInvariant == Spec => [](unit \in Units)
<1>1. ComposerInit => unit \in Units
  BY DEF ComposerInit, ControlInit
<1>2. unit \in Units /\ [ComposerNext]_composerVars => (unit \in Units)'
  BY DEF ComposerNext, ControlNext, Frame, Queried, Write, Replied, WriteFailed, Stage, Press,
         StartReplied, StartFailed, Reload, composerVars, controlVars
<1> QED BY <1>1, <1>2, PTL DEF Spec

\* An appliance that says it is off shows nothing left over from its last cycle, whatever
\* the cloud answered and the frames carried.
THEOREM OffIsOff == Spec => []OffShowsNothing
<1>1. unit \in Units => OffShowsNothing
  BY OffIsBlank, UnitAssumption DEF OffShowsNothing
<1> QED BY <1>1, UnitInvariant, PTL

\* A key that arrives restores no reading and allows no write that its lack had taken away
\* or refused.
THEOREM Leniency == Spec => PartialIsLenient
<1>1. unit \in Units /\ [ComposerNext]_composerVars =>
        [status' # status /\ Grows(status, status') => Lenient(unit.category, status, status')]_controlVars
  BY ReadingsLenient, RefusalsLenient, UnitAssumption DEF Lenient
<1> QED BY <1>1, UnitInvariant, PTL DEF Spec, PartialIsLenient

-----------------------------------------------------------------------------
(* What is composed for the oven is in range. *)

LEMMA ProgramFacts ==
  \A p \in OvenPrograms :
      /\ {p.code, p.min, p.max, p.default, p.minutes} \subseteq Int
      /\ 0 < p.min /\ p.default \in p.min .. p.max
      /\ p.temp <=> p.code \notin NonDegree
BY DEF OvenPrograms, Heating, OvenProgram, NonDegree

LEMMA ProgramCodes ==
  \A p, q \in OvenPrograms : p.code = q.code => p = q
<1> DEFINE of(c) == CASE c = 21249 -> Heating(21249, 30, 180)
                      [] c = 21505 -> Heating(21505, 50, 160)
                      [] c = 24320 -> Heating(24320, 50, 160)
                      [] c = 26112 -> Heating(26112, 150, 180)
                      [] c = 25344 -> Heating(25344, 50, 180)
                      [] c = 26368 -> Heating(26368, 50, 180)
                      [] c = 22272 -> Heating(22272, 50, 180)
                      [] c = 20993 -> Heating(20993, 50, 180)
                      [] c = 41472 -> OvenProgram(41472, 140, 240, 140, TRUE, FALSE, 300)
                      [] c = 22528 -> OvenProgram(22528, 30, 50, 40, TRUE, FALSE, 300)
                      [] c = 24064 -> OvenProgram(24064, 60, 100, 75, TRUE, FALSE, 540)
                      [] OTHER -> OvenProgram(41984, 50, 250, 180, FALSE, FALSE, 300)
<1>1. ASSUME NEW p \in OvenPrograms PROVE p = of(p.code)
  <2>1. CASE p = Heating(21249, 30, 180)
    <3>1. p.code = 21249
      BY <2>1 DEF Heating, OvenProgram
    <3> QED BY <3>1, <2>1
  <2>2. CASE p = Heating(21505, 50, 160)
    <3>1. p.code = 21505
      BY <2>2 DEF Heating, OvenProgram
    <3> QED BY <3>1, <2>2
  <2>3. CASE p = Heating(24320, 50, 160)
    <3>1. p.code = 24320
      BY <2>3 DEF Heating, OvenProgram
    <3> QED BY <3>1, <2>3
  <2>4. CASE p = Heating(26112, 150, 180)
    <3>1. p.code = 26112
      BY <2>4 DEF Heating, OvenProgram
    <3> QED BY <3>1, <2>4
  <2>5. CASE p = Heating(25344, 50, 180)
    <3>1. p.code = 25344
      BY <2>5 DEF Heating, OvenProgram
    <3> QED BY <3>1, <2>5
  <2>6. CASE p = Heating(26368, 50, 180)
    <3>1. p.code = 26368
      BY <2>6 DEF Heating, OvenProgram
    <3> QED BY <3>1, <2>6
  <2>7. CASE p = Heating(22272, 50, 180)
    <3>1. p.code = 22272
      BY <2>7 DEF Heating, OvenProgram
    <3> QED BY <3>1, <2>7
  <2>8. CASE p = Heating(20993, 50, 180)
    <3>1. p.code = 20993
      BY <2>8 DEF Heating, OvenProgram
    <3> QED BY <3>1, <2>8
  <2>9. CASE p = OvenProgram(41472, 140, 240, 140, TRUE, FALSE, 300)
    <3>1. p.code = 41472
      BY <2>9 DEF Heating, OvenProgram
    <3> QED BY <3>1, <2>9
  <2>10. CASE p = OvenProgram(22528, 30, 50, 40, TRUE, FALSE, 300)
    <3>1. p.code = 22528
      BY <2>10 DEF Heating, OvenProgram
    <3> QED BY <3>1, <2>10
  <2>11. CASE p = OvenProgram(24064, 60, 100, 75, TRUE, FALSE, 540)
    <3>1. p.code = 24064
      BY <2>11 DEF Heating, OvenProgram
    <3> QED BY <3>1, <2>11
  <2>12. CASE p = OvenProgram(41984, 50, 250, 180, FALSE, FALSE, 300)
    <3>1. p.code = 41984
      BY <2>12 DEF Heating, OvenProgram
    <3> QED BY <3>1, <2>12
  <2> HIDE DEF of
  <2> QED
    BY <2>1, <2>2, <2>3, <2>4, <2>5, <2>6,
       <2>7, <2>8, <2>9, <2>10, <2>11, <2>12 DEF OvenPrograms, Heating, OvenProgram
<1> HIDE DEF of
<1> QED BY <1>1

-----------------------------------------------------------------------------
(* The inductive invariant. *)

\* A dishwasher's draft holds what a person considered, its Start codes of its status.
DraftChosen ==
    unit.category = "dishwasher" =>
        \A k \in DOMAIN draft : k \in DOMAIN unit.values /\ draft[k] \in unit.values[k]

StartKnown ==
    start # NoValue =>
        \/ unit.category = "oven"
        \/ unit.category = "dishwasher" /\ IsStatus(start, unit.codes)

\* A programme in the draft of an oven has its temperature there too, in its range.
ProgrammeInRange ==
    unit.category = "oven" /\ "cookMode" \in DOMAIN draft =>
        \E p \in OvenPrograms :
            /\ draft["cookMode"] = p.code
            /\ p.temp => "upperTemp" \in DOMAIN draft /\ draft["upperTemp"] \in p.min .. p.max

\* The draft holds controls of the composer, and what these take.
DraftTaken ==
    /\ unit.category = "dishwasher" => DOMAIN draft \subseteq {"modeEU", "addFuncEU", "washArea"}
    /\ unit.category = "oven" =>
           /\ DOMAIN draft \subseteq {"cookMode", "upperTemp", "cookTime", "probeTemp", "preHeat"}
           /\ "upperTemp" \in DOMAIN draft => draft["upperTemp"] # 0
           /\ "cookTime" \in DOMAIN draft => draft["cookTime"] \in Nat
           /\ "preHeat" \in DOMAIN draft => draft["preHeat"] \in {0, 1}

\* A choice made before the Start that is awaited is carried by it, or it takes none.
Kept(instruction, k) ==
    \/ k \notin DOMAIN instruction
    \/ k = "preHeat" /\ instruction[k] = 0
    \/ Carried(instruction, k) = draft[k]

StartCarries == start # NoValue => \A k \in DOMAIN draft \ late : Kept(start, k)

IInv ==
    /\ TypeOK /\ IsFiniteSet(sent)
    /\ DraftChosen /\ StartKnown /\ ProgrammeInRange /\ DraftTaken /\ StartCarries

LEMMA ProgramOf ==
  ASSUME NEW p \in OvenPrograms, Composing("cookMode") = p.code
  PROVE  HasProgram /\ Program = p /\ (TempAllowed => p.temp)
<1>1. HasProgram
  BY DEF HasProgram
<1>2. Program = p
  BY ProgramCodes DEF Program
<1> QED BY <1>1, <1>2, ProgramFacts DEF TempAllowed

\* What the choice of a control puts into the draft.
LEMMA StagedFacts ==
  ASSUME NEW k, NEW w
  PROVE  LET d == Staged(k, w)
         IN  /\ k \in DOMAIN d /\ d[k] = w
             /\ k # "cookMode" => DOMAIN d = {k}
             /\ DOMAIN d \subseteq {k, "upperTemp"}
             /\ w \in Int => \A x \in DOMAIN d : d[x] \in Int
             /\ "upperTemp" \in DOMAIN d /\ k = "cookMode" => d["upperTemp"] # 0
             /\ \A p \in OvenPrograms : k = "cookMode" /\ w = p.code /\ p.temp =>
                    "upperTemp" \in DOMAIN d /\ d["upperTemp"] \in p.min .. p.max
<1> DEFINE d == Staged(k, w)
           e == Entry(k, w)
           q == CHOOSE p \in OvenPrograms : p.code = w
           takes == k = "cookMode" /\ \E p \in OvenPrograms : p.code = w /\ p.temp
<1>1. DOMAIN e = {k} /\ e[k] = w
  BY DEF Entry
<1>2. CASE takes
  <2>1. d = e ++ [upperTemp |-> q.default]
    BY <1>2 DEF Staged
  <2>2. \A p \in OvenPrograms : p.code = w => q = p
    BY ProgramCodes
  <2>3. q \in OvenPrograms
    BY <1>2, <2>2
  <2>4. q.default \in Int /\ q.default \in q.min .. q.max /\ q.default # 0
    BY <2>3, ProgramFacts
  <2> HIDE DEF d, e, q
  <2>5. DOMAIN d = {k, "upperTemp"} /\ d[k] = w /\ d["upperTemp"] = q.default
    <3> DEFINE t == [upperTemp |-> q.default]
    <3>1. DOMAIN t = {"upperTemp"} /\ t["upperTemp"] = q.default
      OBVIOUS
    <3>2. "upperTemp" \in DOMAIN t \ DOMAIN e
      BY <3>1, <1>1, <1>2
    <3>3. d = e ++ t
      BY <2>1
    <3> HIDE DEF t
    <3> QED BY <1>1, <3>1, <3>2, <3>3 DEF ++
  <2>6. k = "cookMode"
    BY <1>2
  <2>7. /\ k \in DOMAIN d /\ d[k] = w
        /\ k # "cookMode" => DOMAIN d = {k}
        /\ DOMAIN d \subseteq {k, "upperTemp"}
        /\ w \in Int => \A x \in DOMAIN d : d[x] \in Int
        /\ "upperTemp" \in DOMAIN d /\ k = "cookMode" => d["upperTemp"] # 0
        /\ \A p \in OvenPrograms : k = "cookMode" /\ w = p.code /\ p.temp =>
               "upperTemp" \in DOMAIN d /\ d["upperTemp"] \in p.min .. p.max
    BY <2>2, <2>4, <2>5, <2>6
  <2> QED BY <2>7 DEF d
<1>3. CASE ~takes
  <2>1. d = e ++ <<>>
    BY <1>3 DEF Staged
  <2>2. DOMAIN d = {k} /\ d[k] = w
    <3>1. DOMAIN <<>> = {}
      OBVIOUS
    <3> HIDE DEF d, e
    <3> QED BY <2>1, <3>1, <1>1 DEF ++
  <2> HIDE DEF d
  <2>3. /\ k \in DOMAIN d /\ d[k] = w
        /\ k # "cookMode" => DOMAIN d = {k}
        /\ DOMAIN d \subseteq {k, "upperTemp"}
        /\ w \in Int => \A x \in DOMAIN d : d[x] \in Int
        /\ "upperTemp" \in DOMAIN d /\ k = "cookMode" => d["upperTemp"] # 0
        /\ \A p \in OvenPrograms : k = "cookMode" /\ w = p.code /\ p.temp =>
               "upperTemp" \in DOMAIN d /\ d["upperTemp"] \in p.min .. p.max
    BY <1>3, <2>2
  <2> QED BY <2>3 DEF d
<1> QED BY <1>2, <1>3

\* A frame or an echo leaves a status of the appliance.
LEMMA MergedStatus ==
  ASSUME NEW codes, NEW s, NEW t, IsStatus(s, codes), IsStatus(t, codes)
  PROVE  IsStatus(ApplyPush(s, t), codes)
BY DEF IsStatus, ApplyPush, ++

\* What the dishwasher's Start sends, its status can hold.
LEMMA WashKnown ==
  ASSUME IInv, unit.category = "dishwasher", ~StartRefused
  PROVE  IsStatus(WashInstruction, unit.codes)
<1>1. \A k \in DOMAIN unit.values : k \in DOMAIN unit.codes /\ unit.values[k] \subseteq unit.codes[k]
  BY ComposerAssumption DEF IInv, TypeOK
<1>2. ASSUME NEW k, Composing(k) # NoValue
      PROVE  k \in DOMAIN unit.codes /\ Composing(k) \in unit.codes[k]
  <2>1. CASE k \in DOMAIN draft
    BY <1>1, <2>1 DEF IInv, DraftChosen, Composing
  <2>2. CASE k \notin DOMAIN draft
    BY <1>2, <2>2 DEF IInv, TypeOK, IsStatus, Composing, Value
  <2> QED BY <2>1, <2>2
<1>3. Composing("modeEU") # NoValue
  BY DEF StartRefused
<1>4. /\ {"power", "addFuncEU"} \subseteq DOMAIN unit.codes
      /\ StartCode \in unit.codes["power"] /\ NoExtra \in unit.codes["addFuncEU"]
      /\ unit.zoned => "washArea" \in DOMAIN unit.codes /\ BothZones \in unit.codes["washArea"]
  BY <1>2, <1>3, ComposerAssumption DEF IInv, TypeOK
<1>5. Or(Composing("addFuncEU"), NoExtra) \in unit.codes["addFuncEU"]
  BY <1>2, <1>4 DEF Or
<1> DEFINE f == [modeEU |-> Composing("modeEU"), power |-> StartCode,
                 addFuncEU |-> Or(Composing("addFuncEU"), NoExtra)]
           g == IF unit.zoned THEN [washArea |-> Or(Composing("washArea"), BothZones)] ELSE <<>>
<1>6. IsStatus(f, unit.codes)
  BY <1>2, <1>3, <1>4, <1>5 DEF IsStatus
<1>7. IsStatus(g, unit.codes)
  <2>1. CASE unit.zoned
    BY <1>2, <1>4, <2>1 DEF Or, IsStatus
  <2>2. CASE ~unit.zoned
    BY <2>2 DEF IsStatus
  <2> QED BY <2>1, <2>2
<1>8. WashInstruction = ApplyPush(g, f)
  BY DEF WashInstruction, ApplyPush, ++
<1> QED BY <1>6, <1>7, <1>8, MergedStatus

\* The fields of the oven's instruction.
LEMMA CookFields ==
  /\ DOMAIN CookInstruction = {"cookMode", "cookTime", "preHeat"}
                                \cup IF TempAllowed THEN {"upperTemp", "lowerTemp", "probeTemp"} ELSE {}
  /\ CookInstruction["cookMode"] = Program.code
  /\ CookInstruction["cookTime"] = 60 * IF DurationMinutes < 0 THEN 0 ELSE DurationMinutes
  /\ CookInstruction["preHeat"] = IF Composing("preHeat") = 1 /\ PreheatAllowed THEN 1 ELSE 0
  /\ TempAllowed => /\ CookInstruction["upperTemp"] = CookTemp
                    /\ CookInstruction["probeTemp"] = Or(Composing("probeTemp"), CookTemp)
<1>1. CASE TempAllowed
  BY <1>1 DEF CookInstruction, ++
<1>2. CASE ~TempAllowed
  BY <1>2 DEF CookInstruction, ++
<1> QED BY <1>1, <1>2

\* A time is shown in whole minutes, and sent in seconds.
LEMMA CookMinutes ==
  ASSUME IInv, unit.category = "oven"
  PROVE  DurationMinutes \in Nat /\ CookInstruction["cookTime"] \div 60 = DurationMinutes
<1>1. DurationMinutes \in Nat
  <2>1. CASE "cookTime" \in DOMAIN draft
    BY <2>1 DEF IInv, DraftTaken, DurationMinutes
  <2>2. CASE "cookTime" \notin DOMAIN draft /\ "cookTime" \in DOMAIN status
    <3>1. status["cookTime"] \in Nat
      BY <2>2, ComposerAssumption DEF IInv, TypeOK, IsStatus
    <3>2. status["cookTime"] \div 60 \in Nat
      BY <3>1
    <3> QED BY <2>2, <3>2 DEF DurationMinutes
  <2>3. CASE "cookTime" \notin DOMAIN draft /\ "cookTime" \notin DOMAIN status
    BY <2>3 DEF DurationMinutes
  <2> QED BY <2>1, <2>2, <2>3
<1>2. \A n \in Nat : (60 * n) \div 60 = n
  OBVIOUS
<1> QED BY <1>1, <1>2, CookFields

\* The fields of the dishwasher's.
LEMMA WashFields ==
  /\ DOMAIN WashInstruction = {"modeEU", "power", "addFuncEU"}
                                \cup IF unit.zoned THEN {"washArea"} ELSE {}
  /\ WashInstruction["modeEU"] = Composing("modeEU")
  /\ WashInstruction["addFuncEU"] = Or(Composing("addFuncEU"), NoExtra)
  /\ unit.zoned => WashInstruction["washArea"] = Or(Composing("washArea"), BothZones)
<1>1. CASE unit.zoned
  BY <1>1 DEF WashInstruction, ++
<1>2. CASE ~unit.zoned
  BY <1>2 DEF WashInstruction, ++
<1> QED BY <1>1, <1>2

\* A Start carries the draft.
LEMMA CarriesDraft ==
  ASSUME IInv, ~StartRefused, unit.category \in {"dishwasher", "oven"}
  PROVE  \A k \in DOMAIN draft : Kept(StartInstruction, k)
<1> SUFFICES ASSUME NEW k \in DOMAIN draft PROVE Kept(StartInstruction, k)
  OBVIOUS
<1>1. Composing(k) = draft[k] /\ Composing(k) # NoValue
  BY NoValueAssumption DEF Composing, IInv, TypeOK
<1>2. CASE unit.category = "dishwasher"
  <2>1. k \in {"modeEU", "addFuncEU", "washArea"} /\ StartInstruction = WashInstruction
    BY <1>2 DEF IInv, DraftTaken, StartInstruction
  <2>2. k \in DOMAIN WashInstruction => WashInstruction[k] = draft[k]
    BY <1>1, <2>1, WashFields DEF Or
  <2> QED BY <2>1, <2>2 DEF Kept, Carried
<1>3. CASE unit.category = "oven"
  <2>1. /\ k \in {"cookMode", "upperTemp", "cookTime", "probeTemp", "preHeat"}
        /\ StartInstruction = CookInstruction
    BY <1>3 DEF IInv, DraftTaken, StartInstruction
  <2>2. CASE k = "cookMode"
    <3>1. Program.code = Composing("cookMode")
      BY <1>3 DEF StartRefused, HasProgram, Program
    <3> QED BY <1>1, <2>1, <2>2, <3>1, CookFields DEF Kept, Carried
  <2>3. CASE k = "cookTime"
    <3>1. DurationMinutes = draft[k]
      BY <2>3 DEF DurationMinutes
    <3> QED BY <1>3, <2>1, <2>3, <3>1, CookMinutes DEF Kept, Carried
  <2>4. CASE k = "preHeat"
    <3>1. draft[k] \in {0, 1}
      BY <1>3, <2>4 DEF IInv, DraftTaken
    <3> QED BY <1>1, <2>1, <2>4, <3>1, CookFields DEF Kept, Carried
  <2>5. CASE k \in {"upperTemp", "probeTemp"}
    <3>1. k = "upperTemp" => CookTemp = draft[k]
      BY <1>1, <1>3 DEF IInv, DraftTaken, CookTemp
    <3>2. k \in DOMAIN CookInstruction => TempAllowed
      BY <2>5, CookFields
    <3>3. TempAllowed => CookInstruction[k] = draft[k]
      BY <1>1, <2>5, <3>1, CookFields DEF Or
    <3> QED BY <2>1, <2>5, <3>2, <3>3 DEF Kept, Carried
  <2> QED BY <2>1, <2>2, <2>3, <2>4, <2>5
<1> QED BY <1>2, <1>3

\* A staged value keeps the draft as it should be.
LEMMA StagePreserves ==
  ASSUME IInv, NEW k \in DOMAIN unit.values, NEW w \in unit.values[k], Stage(k, w)
  PROVE  IInv'
<1> DEFINE d == Staged(k, w)
<1>1. /\ k \in DOMAIN Composed /\ w \in Composed[k]
      /\ draft' = d ++ draft
      /\ late' = IF start = NoValue THEN {} ELSE late \cup DOMAIN d
      /\ unit' = unit /\ status' = status /\ sent' = sent /\ start' = start
  BY DEF Stage, controlVars
<1>2. unit \in Units /\ w \in Int
  BY ComposerAssumption DEF IInv, TypeOK
<1>3. /\ k \in DOMAIN d /\ d[k] = w
      /\ k # "cookMode" => DOMAIN d = {k}
      /\ DOMAIN d \subseteq {k, "upperTemp"}
      /\ \A x \in DOMAIN d : d[x] \in Int
      /\ "upperTemp" \in DOMAIN d /\ k = "cookMode" => d["upperTemp"] # 0
      /\ \A p \in OvenPrograms : k = "cookMode" /\ w = p.code /\ p.temp =>
             "upperTemp" \in DOMAIN d /\ d["upperTemp"] \in p.min .. p.max
  BY <1>2, StagedFacts
<1> HIDE DEF d
<1>4. /\ DOMAIN draft' = DOMAIN d \cup DOMAIN draft
      /\ \A x \in DOMAIN d : draft'[x] = d[x]
      /\ \A x \in DOMAIN draft \ DOMAIN d : draft'[x] = draft[x]
  BY <1>1 DEF ++
<1>5. TypeOK'
  BY <1>1, <1>3, <1>4 DEF IInv, TypeOK
<1>6. DraftChosen'
  <2> SUFFICES ASSUME unit.category = "dishwasher"
               PROVE  \A x \in DOMAIN draft' : x \in DOMAIN unit.values /\ draft'[x] \in unit.values[x]
    BY <1>1 DEF DraftChosen
  <2>1. Composed = WashControls
    BY DEF Composed
  <2>2. k # "cookMode"
    BY <1>1, <2>1 DEF WashControls, ++
  <2> QED BY <1>3, <1>4, <2>2 DEF IInv, DraftChosen
<1>7. StartKnown'
  BY <1>1 DEF IInv, StartKnown
<1>8. ProgrammeInRange'
  <2> SUFFICES ASSUME unit.category = "oven", "cookMode" \in DOMAIN draft'
               PROVE  \E p \in OvenPrograms :
                         /\ draft'["cookMode"] = p.code
                         /\ p.temp => /\ "upperTemp" \in DOMAIN draft'
                                      /\ draft'["upperTemp"] \in p.min .. p.max
    BY <1>1 DEF ProgrammeInRange
  <2>1. Composed = CookControls
    BY DEF Composed
  <2>2. CASE k = "cookMode"
    <3>1. w \in {p.code : p \in OvenPrograms}
      BY <1>1, <2>1, <2>2 DEF CookControls, ++
    <3>2. PICK p \in OvenPrograms : p.code = w
      BY <3>1
    <3>3. draft'["cookMode"] = p.code
      BY <1>3, <1>4, <2>2, <3>2
    <3>4. p.temp => "upperTemp" \in DOMAIN draft' /\ draft'["upperTemp"] \in p.min .. p.max
      BY <1>3, <1>4, <2>2, <3>2
    <3> QED BY <3>3, <3>4
  <2>3. CASE k # "cookMode"
    <3>1. "cookMode" \in DOMAIN draft /\ draft'["cookMode"] = draft["cookMode"]
      BY <1>3, <1>4, <2>3
    <3>2. PICK p \in OvenPrograms :
             /\ draft["cookMode"] = p.code
             /\ p.temp => "upperTemp" \in DOMAIN draft /\ draft["upperTemp"] \in p.min .. p.max
      BY <3>1 DEF IInv, ProgrammeInRange
    <3>3. CASE k = "upperTemp"
      <4>1. w \in IF TempAllowed THEN Program.min .. Program.max ELSE {}
        BY <1>1, <2>1, <3>3 DEF CookControls, ++
      <4>2. Composing("cookMode") = p.code
        BY <3>1, <3>2 DEF Composing
      <4>3. w \in p.min .. p.max
        BY <4>1, <4>2, ProgramOf
      <4> QED BY <1>3, <1>4, <3>1, <3>2, <3>3, <4>3
    <3>4. CASE k # "upperTemp"
      BY <1>3, <1>4, <2>3, <3>1, <3>2, <3>4
    <3> QED BY <3>3, <3>4
  <2> QED BY <2>2, <2>3
<1>9. IsFiniteSet(sent)'
  BY <1>1 DEF IInv
<1>10. DraftTaken'
  <2>1. CASE unit.category = "dishwasher"
    <3>1. Composed = WashControls
      BY <2>1 DEF Composed
    <3>2. k \in {"modeEU", "addFuncEU", "washArea"}
      BY <1>1, <3>1 DEF WashControls, ++
    <3> QED BY <1>1, <1>3, <1>4, <2>1, <3>2 DEF IInv, DraftTaken
  <2>2. CASE unit.category = "oven"
    <3>1. Composed = CookControls
      BY <2>2 DEF Composed
    <3>2. k \in {"cookMode", "upperTemp", "cookTime", "probeTemp", "preHeat"}
      BY <1>1, <3>1 DEF CookControls, ++
    <3>3. k = "upperTemp" => w # 0
      <4>1. ASSUME k = "upperTemp"
            PROVE  w \in IF TempAllowed THEN Program.min .. Program.max ELSE {}
        BY <1>1, <3>1, <4>1 DEF CookControls, ++
      <4>2. TempAllowed => Program \in OvenPrograms
        BY DEF TempAllowed, HasProgram, Program
      <4> QED BY <4>1, <4>2, ProgramFacts
    <3>4. k = "cookTime" => w \in Nat
      <4>1. ASSUME k = "cookTime"
            PROVE  w \in 0 .. IF HasProgram THEN Program.minutes ELSE 300
        BY <1>1, <3>1, <4>1 DEF CookControls, ++
      <4> QED BY <1>2, <4>1
    <3>5. k = "preHeat" => w \in {0, 1}
      <4>1. ASSUME k = "preHeat"
            PROVE  w \in IF PreheatAllowed THEN {0, 1} ELSE {}
        BY <1>1, <3>1, <4>1 DEF CookControls, ++
      <4> QED BY <4>1
    <3> DEFINE keys == {"cookMode", "upperTemp", "cookTime", "probeTemp", "preHeat"}
    <3>6. /\ DOMAIN draft \subseteq keys
          /\ "upperTemp" \in DOMAIN draft => draft["upperTemp"] # 0
          /\ "cookTime" \in DOMAIN draft => draft["cookTime"] \in Nat
          /\ "preHeat" \in DOMAIN draft => draft["preHeat"] \in {0, 1}
      BY <2>2 DEF IInv, DraftTaken
    <3>7. DOMAIN draft' \subseteq keys
      BY <1>3, <1>4, <3>2, <3>6
    <3>8. "upperTemp" \in DOMAIN draft' => draft'["upperTemp"] # 0
      BY <1>3, <1>4, <3>3, <3>6
    <3>9. "cookTime" \in DOMAIN draft' => draft'["cookTime"] \in Nat
      BY <1>3, <1>4, <3>4, <3>6
    <3>10. "preHeat" \in DOMAIN draft' => draft'["preHeat"] \in {0, 1}
      BY <1>3, <1>4, <3>5, <3>6
    <3> QED BY <1>1, <2>2, <3>7, <3>8, <3>9, <3>10 DEF DraftTaken
  <2>3. CASE unit.category \notin {"dishwasher", "oven"}
    BY <1>1, <2>3 DEF DraftTaken
  <2> QED BY <2>1, <2>2, <2>3
<1>11. StartCarries'
  <2> SUFFICES ASSUME start # NoValue, NEW x \in DOMAIN draft' \ late'
               PROVE  Kept(start, x)'
    BY <1>1 DEF StartCarries, Kept
  <2>1. x \in DOMAIN draft \ late /\ draft'[x] = draft[x]
    BY <1>1, <1>4
  <2> QED BY <1>1, <2>1 DEF IInv, StartCarries, Kept, Carried
<1> QED BY <1>5, <1>6, <1>7, <1>8, <1>9, <1>10, <1>11 DEF IInv

\* The inductive invariant holds initially and every step keeps it.
THEOREM Invariance == Spec => []IInv
<1>1. ComposerInit => IInv
  <2> SUFFICES ASSUME ComposerInit PROVE IInv
    OBVIOUS
  <2>1. DOMAIN draft = {} /\ start = NoValue /\ late = {} /\ sent = {}
    BY DEF ComposerInit, ControlInit
  <2>2. unit \in Units /\ IsStatus(status, unit.codes)
    BY UnitAssumption DEF ComposerInit, ControlInit
  <2>3. IsFiniteSet(sent) /\ Cardinality(sent) <= MaxSent
    BY <2>1, FS_EmptySet, MaxSentAssumption
  <2> QED BY <2>1, <2>2, <2>3 DEF IInv, TypeOK, DraftChosen, StartKnown, ProgrammeInRange, DraftTaken,
        StartCarries, Kept, Carried
<1>2. IInv /\ [ComposerNext]_composerVars => IInv'
  <2> SUFFICES ASSUME IInv, [ComposerNext]_composerVars PROVE IInv'
    OBVIOUS
  <2>0. unit \in Units
    BY DEF IInv, TypeOK
  <2>1. ASSUME NEW key \in DOMAIN unit.codes, NEW v \in unit.codes[key], Frame(key, v),
               UNCHANGED <<draft, start, late>>
        PROVE  IInv'
    <3>1. IsStatus(Entry(key, v), unit.codes)
      BY DEF IsStatus, Entry
    <3>2. IsStatus(status', unit.codes) /\ unit' = unit /\ sent' = sent
      BY <2>1, <3>1, MergedStatus DEF Frame, IInv, TypeOK
    <3> QED
      BY <2>1, <3>2 DEF IInv, TypeOK, DraftChosen, StartKnown, ProgrammeInRange, DraftTaken,
        StartCarries, Kept, Carried
  <2>2. ASSUME NEW s \in unit.answers, Queried(s), UNCHANGED <<draft, start, late>>
        PROVE  IInv'
    BY <2>0, <2>2, UnitAssumption
    DEF Queried, IInv, TypeOK, DraftChosen, StartKnown, ProgrammeInRange, DraftTaken,
        StartCarries, Kept, Carried
  <2>3. ASSUME NEW a \in unit.asks, Write(a), UNCHANGED <<draft, start, late>>
        PROVE  IInv'
    <3>1. /\ sent' = sent \cup {a} /\ a \notin sent /\ Cardinality(sent) < MaxSent
          /\ IsFiniteSet(sent) /\ unit' = unit /\ status' = status
      BY <2>3 DEF Write, IInv
    <3>2. IsFiniteSet(sent') /\ Cardinality(sent') = Cardinality(sent) + 1
      BY <3>1, FS_AddElement
    <3>3. Cardinality(sent) \in Nat
      BY <3>1, FS_CardinalityType
    <3>4. Cardinality(sent') <= MaxSent
      BY <3>1, <3>2, <3>3, MaxSentAssumption
    <3> QED
      BY <2>3, <3>1, <3>2, <3>4 DEF IInv, TypeOK, DraftChosen, StartKnown, ProgrammeInRange, DraftTaken,
        StartCarries, Kept, Carried
  <2>4. ASSUME NEW a \in unit.asks, Replied(a) \/ WriteFailed(a), UNCHANGED <<draft, start, late>>
        PROVE  IInv'
    <3>1. a \in sent /\ sent' = sent \ {a} /\ unit' = unit /\ IsFiniteSet(sent)
      BY <2>4 DEF Replied, WriteFailed, IInv
    <3>2. IsFiniteSet(sent') /\ Cardinality(sent') = Cardinality(sent) - 1
      BY <3>1, FS_RemoveElement
    <3>3. Cardinality(sent) \in Nat
      BY <3>1, FS_CardinalityType
    <3>4. Cardinality(sent') <= MaxSent
      BY <3>2, <3>3, MaxSentAssumption DEF IInv, TypeOK
    <3>5. IsStatus(status', unit.codes)
      <4>1. IsStatus(Instruction(unit.category, a.control, a.wanted), unit.codes)
        BY <2>0, UnitAssumption
      <4> QED BY <2>4, <4>1, MergedStatus DEF Replied, WriteFailed, IInv, TypeOK
    <3> QED
      BY <2>4, <3>1, <3>2, <3>4, <3>5 DEF IInv, TypeOK, DraftChosen, StartKnown, ProgrammeInRange, DraftTaken,
        StartCarries, Kept, Carried
  <2>5. ASSUME NEW k \in DOMAIN unit.values, NEW w \in unit.values[k], Stage(k, w)
        PROVE  IInv'
    BY <2>5, StagePreserves
  <2>6. CASE Press
    <3>1. /\ unit' = unit /\ status' = status /\ sent' = sent /\ draft' = draft /\ late' = late
          /\ start' = StartInstruction /\ ~StartRefused /\ start = NoValue
      BY <2>6 DEF Press, controlVars
    <3>2. StartKnown'
      <4>1. unit.category = "dishwasher" => IsStatus(StartInstruction, unit.codes)
        BY <3>1, WashKnown DEF StartInstruction
      <4>2. unit.category \in {"dishwasher", "oven"}
        BY <2>6 DEF Press
      <4> QED BY <3>1, <4>1, <4>2 DEF StartKnown
    <3>3. StartCarries'
      BY <2>6, <3>1, CarriesDraft DEF StartCarries, Kept, Carried, Press
    <3> QED BY <3>1, <3>2, <3>3 DEF IInv, TypeOK, DraftChosen, ProgrammeInRange, DraftTaken
  <2>7. CASE StartReplied
    <3>1. /\ unit' = unit /\ sent' = sent /\ draft' = <<>> /\ start' = NoValue /\ late' = {}
          /\ status' = IF unit.category = "oven" THEN status ELSE ApplyPush(status, start)
          /\ start # NoValue
      BY <2>7 DEF StartReplied
    <3>2. DOMAIN draft' = {}
      BY <3>1
    <3>3. IsStatus(status', unit.codes)
      BY <3>1, MergedStatus DEF IInv, TypeOK, StartKnown
    <3> QED
      BY <3>1, <3>2, <3>3 DEF IInv, TypeOK, DraftChosen, StartKnown, ProgrammeInRange, DraftTaken,
        StartCarries, Kept, Carried
  <2>8. CASE StartFailed
    BY <2>8 DEF StartFailed, controlVars, IInv, TypeOK, DraftChosen, StartKnown, ProgrammeInRange, DraftTaken,
        StartCarries, Kept, Carried
  <2>9. CASE Reload
    <3>1. /\ unit' = unit /\ status' \in unit.answers /\ sent' = {} /\ draft' = <<>>
          /\ start' = NoValue /\ late' = {}
      BY <2>9 DEF Reload
    <3>2. DOMAIN draft' = {}
      BY <3>1
    <3>3. IsFiniteSet(sent') /\ Cardinality(sent') <= MaxSent
      BY <3>1, FS_EmptySet, MaxSentAssumption
    <3>4. IsStatus(status', unit.codes)
      BY <2>0, <3>1, UnitAssumption
    <3> QED
      BY <2>0, <3>1, <3>2, <3>3, <3>4 DEF IInv, TypeOK, DraftChosen, StartKnown, ProgrammeInRange, DraftTaken,
        StartCarries, Kept, Carried
  <2>10. CASE UNCHANGED composerVars
    BY <2>10 DEF composerVars, controlVars, IInv, TypeOK, DraftChosen, StartKnown, ProgrammeInRange, DraftTaken,
        StartCarries, Kept, Carried
  <2> QED
    BY <2>1, <2>2, <2>3, <2>4, <2>5, <2>6, <2>7, <2>8, <2>9, <2>10 DEF ComposerNext, ControlNext
<1> QED BY <1>1, <1>2, PTL DEF Spec

\* The status, the draft and what is in flight have their types.
THEOREM TypeCorrect == Spec => []TypeOK
<1>1. IInv => TypeOK
  BY DEF IInv
<1> QED BY <1>1, Invariance, PTL

\* A programme chosen for the oven is started with a temperature in its range.
THEOREM InRange == Spec => []ComposedInRange
<1>1. IInv => ComposedInRange
  <2> SUFFICES ASSUME IInv, unit.category = "oven", "cookMode" \in DOMAIN draft, TempAllowed
               PROVE  CookTemp \in Program.min .. Program.max
    BY DEF ComposedInRange
  <2>1. PICK p \in OvenPrograms :
           /\ draft["cookMode"] = p.code
           /\ p.temp => "upperTemp" \in DOMAIN draft /\ draft["upperTemp"] \in p.min .. p.max
    BY DEF IInv, ProgrammeInRange
  <2>2. Program = p /\ p.temp
    BY <2>1, ProgramOf DEF Composing
  <2>3. Composing("upperTemp") \in p.min .. p.max
    BY <2>1, <2>2 DEF Composing
  <2>4. Composing("upperTemp") # NoValue /\ Composing("upperTemp") # 0
    BY <2>3, ProgramFacts, NoValueAssumption
  <2> QED BY <2>2, <2>3, <2>4 DEF CookTemp
<1> QED BY <1>1, Invariance, PTL

\* Start sends what the controls show.
THEOREM SentAsShown == Spec => []ShownIsSent
<1>1. IInv => ShownIsSent
  <2> SUFFICES ASSUME IInv, ~StartRefused, NEW k \in DOMAIN Composed,
                      ComposerShows(k) # NoValue,
                      ~(k = "probeTemp" /\ Composing(k) = NoValue),
                      ~(k = "upperTemp" /\ Composing(k) = 0)
               PROVE  Carried(StartInstruction, k) = ComposerShows(k)
    BY DEF ShownIsSent
  <2>1. CASE unit.category = "dishwasher"
    <3>1. Composed = WashControls /\ StartInstruction = WashInstruction
      BY <2>1 DEF Composed, StartInstruction
    <3>2. /\ k \in {"modeEU", "addFuncEU", "washArea"}
          /\ k = "washArea" => unit.zoned
      BY <3>1 DEF WashControls, ++
    <3>3. ComposerShows(k) = Composing(k)
      BY <2>1 DEF ComposerShows
    <3>4. WashInstruction[k] = Composing(k)
      BY <3>2, <3>3, WashFields DEF Or
    <3> QED BY <3>1, <3>2, <3>3, <3>4 DEF Carried
  <2>2. CASE unit.category = "oven"
    <3>1. Composed = CookControls /\ StartInstruction = CookInstruction
      BY <2>2 DEF Composed, StartInstruction
    <3>2. k \in {"cookMode", "upperTemp", "cookTime", "probeTemp", "preHeat"}
      BY <3>1 DEF CookControls, ++
    <3>3. ComposerShows(k) = CookShows(k)
      BY <2>2 DEF ComposerShows
    <3>4. CASE k = "cookMode"
      <4>1. Program.code = Composing("cookMode") /\ HasProgram
        BY <2>2 DEF StartRefused, HasProgram, Program
      <4> QED BY <3>1, <3>3, <3>4, <4>1, CookFields DEF Carried, CookShows
    <3>5. CASE k = "cookTime"
      BY <2>2, <3>1, <3>3, <3>5, CookMinutes DEF Carried, CookShows
    <3>6. CASE k = "upperTemp"
      <4>1. TempAllowed /\ CookShows(k) = Or(Composing(k), Program.default)
        BY <3>3, <3>6 DEF CookShows
      <4>2. CookTemp = CookShows(k)
        BY <3>6, <4>1 DEF CookTemp, Or
      <4> QED BY <3>1, <3>3, <3>6, <4>1, <4>2, CookFields DEF Carried
    <3>7. CASE k = "probeTemp"
      <4>1. TempAllowed /\ CookShows(k) = Composing(k)
        BY <3>3, <3>7 DEF CookShows, Or
      <4> QED BY <3>1, <3>3, <3>7, <4>1, CookFields DEF Carried, Or
    <3>8. CASE k = "preHeat"
      <4>1. PreheatAllowed /\ CookShows(k) = Composing(k) /\ Composing(k) # NoValue
        BY <3>3, <3>8 DEF CookShows
      <4>2. Composing(k) \in {0, 1}
        <5>1. CASE k \in DOMAIN draft
          BY <2>2, <3>8, <5>1 DEF Composing, IInv, DraftTaken
        <5>2. CASE k \notin DOMAIN draft
          <6>1. k \in DOMAIN status /\ Composing(k) = status[k]
            BY <4>1, <5>2 DEF Composing, Value
          <6> QED BY <2>2, <3>8, <6>1, ComposerAssumption DEF IInv, TypeOK, IsStatus
        <5> QED BY <5>1, <5>2
      <4> QED BY <3>1, <3>3, <3>8, <4>1, <4>2, CookFields DEF Carried
    <3> QED BY <3>2, <3>4, <3>5, <3>6, <3>7, <3>8
  <2>3. CASE unit.category \notin {"dishwasher", "oven"}
    <3>1. Composed = <<>>
      BY <2>3 DEF Composed
    <3> QED BY <3>1
  <2> QED BY <2>1, <2>2, <2>3
<1> QED BY <1>1, Invariance, PTL

\* No choice is dropped before a Start has carried it.
THEOREM Survival == Spec => ChoicesSurvive
<1>1. IInv /\ [ComposerNext]_composerVars =>
        [\A k \in DOMAIN draft \ DOMAIN draft' :
            Reload \/ (StartReplied /\ Forgotten(k))]_composerVars
  <2> SUFFICES ASSUME IInv, ComposerNext, NEW k \in DOMAIN draft \ DOMAIN draft'
               PROVE  Reload \/ (StartReplied /\ Forgotten(k))
    OBVIOUS
  <2>1. ASSUME NEW c, NEW w, Stage(c, w) PROVE FALSE
    BY <2>1 DEF Stage, ++
  <2>2. draft' # draft
    OBVIOUS
  <2>3. StartReplied \/ Reload
    BY <2>1, <2>2 DEF ComposerNext, Press, StartFailed
  <2>4. StartReplied => Forgotten(k)
    BY DEF IInv, StartCarries, Kept, StartReplied, Forgotten
  <2> QED BY <2>3, <2>4
<1> QED BY <1>1, Invariance, PTL DEF Spec, ChoicesSurvive

-----------------------------------------------------------------------------
(* A control shows what was asked for. *)

\* A colour temperature survives both roundings.
LEMMA KelvinRounds ==
  ASSUME NEW d \in 0..Scale
  PROVE  KelvinToDevice(Kelvin(d)) = d
<1> DEFINE n == d * 3800
           r == Rounded(n, 255)
<1>1. Kelvin(d) = 2700 + r
  BY DEF Kelvin, Warm, Cool, Scale
<1>2. r \in Int /\ 2 * n - 255 <= 510 * r /\ 510 * r <= 2 * n + 255
  <2>1. n \in Nat
    BY DEF Scale
  <2> HIDE DEF n
  <2>2. /\ n \div 255 \in Int /\ n % 255 \in 0..254 /\ n = 255 * (n \div 255) + (n % 255)
    BY <2>1
  <2> QED BY <2>2 DEF Rounded
<1>3. 0 <= r /\ r <= 3800
  BY <1>2 DEF Scale
<1>4. KelvinToDevice(Kelvin(d)) = Rounded(r * 255, 3800)
  <2> HIDE DEF r
  <2> DEFINE k == Kelvin(d)
  <2>1. k \in Int /\ ~(k < Warm) /\ ~(k > Cool)
    BY <1>1, <1>2, <1>3 DEF Warm, Cool
  <2>2. (k - Warm) * Scale = r * 255 /\ Cool - Warm = 3800
    BY <1>1, <1>2 DEF Warm, Cool, Scale
  <2> HIDE DEF k
  <2>3. KelvinToDevice(k) = Rounded((k - Warm) * Scale, Cool - Warm)
    BY <2>1 DEF KelvinToDevice
  <2> QED BY <2>2, <2>3 DEF k
<1>5. Rounded(r * 255, 3800) = d
  <2> DEFINE m == r * 255
             q == m \div 3800
             e == m % 3800
  <2>1. m \in Int /\ 7600 * d - 255 <= 2 * m /\ 2 * m <= 7600 * d + 255
    BY <1>2, <1>3 DEF Scale
  <2> HIDE DEF m
  <2>2. q \in Int /\ e \in 0..3799 /\ m = 3800 * q + e
    BY <2>1
  <2>3. Rounded(m, 3800) = IF 2 * e < 3800 \/ (2 * e = 3800 /\ q % 2 = 0) THEN q ELSE q + 1
    BY DEF Rounded
  <2> HIDE DEF q, e
  <2>4. ASSUME 2 * e < 3800 PROVE Rounded(m, 3800) = d
    <3>1. q = d
      BY <2>1, <2>2, <2>4 DEF Scale
    <3> QED BY <2>3, <2>4, <3>1
  <2>5. ASSUME ~(2 * e < 3800) PROVE Rounded(m, 3800) = d
    <3>1. q + 1 = d /\ 2 * e # 3800
      BY <2>1, <2>2, <2>5 DEF Scale
    <3> QED BY <2>3, <2>5, <3>1
  <2> QED BY <2>4, <2>5 DEF m
<1> QED BY <1>4, <1>5

\* The writes there are, spelt out.
LEMMA AskCases ==
  ASSUME NEW c \in Categories, NEW a \in Asks(c)
  PROVE  \/ a.control \in DOMAIN Switches(c) /\ a.wanted \in {0, 1}
         \/ a.control \in DOMAIN Choices(c) /\ a.wanted \in Choices(c)[a.control]
         \/ c = "oven" /\ a.control \in DOMAIN OvenButtons
         \/ c = "air_conditioner" /\
              \/ a.control = "hvac_mode" /\ a.wanted \in ClimateModes \cup {0}
              \/ a.control = "climate" /\ a.wanted \in {0, 1}
              \/ a.control = "temp"
              \/ a.control = "windSpeed" /\ a.wanted \in ClimateFans
         \/ c = "light" /\
              \/ a.control = "light" /\ a.wanted \in {0, 1}
              \/ a.control = "bright"
              \/ a.control = "kelvin" /\ \E d \in 0..Scale : a.wanted = Kelvin(d)
              \/ a.control = "effect" /\ a.wanted \in Effects
         \/ c = "water_heater" /\
              \/ a.control = "temp"
              \/ a.control = "operation" /\ a.wanted \in DOMAIN Operations
              \/ a.control = "tank"
<1>1. \A x, values : a \in AsksOf(x, values) => a.control = x /\ a.wanted \in values
  BY DEF AsksOf
<1>2. a \in SwitchAsks(c) \/ a \in ChoiceAsks(c) \/ a \in NativeAsks(c)
  BY DEF Asks
<1>3. CASE a \in SwitchAsks(c)
  BY <1>1, <1>3 DEF SwitchAsks
<1>4. CASE a \in ChoiceAsks(c)
  BY <1>1, <1>4 DEF ChoiceAsks
<1>5. CASE a \in NativeAsks(c)
  <2>1. CASE c = "oven"
    <3>1. a \in UNION {AsksOf(b, {1}) : b \in DOMAIN OvenButtons}
      BY <1>5, <2>1 DEF NativeAsks
    <3> QED BY <1>1, <2>1, <3>1
  <2>2. CASE c = "air_conditioner"
    <3>1. a \in AsksOf("hvac_mode", ClimateModes \cup {0}) \cup AsksOf("climate", {0, 1})
                  \cup AsksOf("temp", ClimateTemps) \cup AsksOf("windSpeed", ClimateFans)
      BY <1>5, <2>2 DEF NativeAsks
    <3> QED BY <1>1, <2>2, <3>1
  <2>3. CASE c = "light"
    <3>1. a \in AsksOf("light", {0, 1}) \cup AsksOf("bright", 0..Scale)
                  \cup AsksOf("kelvin", {Kelvin(d) : d \in 0..Scale}) \cup AsksOf("effect", Effects)
      BY <1>5, <2>3 DEF NativeAsks
    <3> QED BY <1>1, <2>3, <3>1
  <2>4. CASE c = "water_heater"
    <3>1. a \in AsksOf("temp", TankTemps) \cup AsksOf("operation", DOMAIN Operations)
                  \cup AsksOf("tank", {0, 1})
      BY <1>5, <2>4 DEF NativeAsks
    <3> QED BY <1>1, <2>4, <3>1
  <2>5. CASE c \notin {"oven", "air_conditioner", "light", "water_heater"}
    <3>1. a \in {}
      BY <1>5, <2>5 DEF NativeAsks
    <3> QED BY <3>1
  <2> QED BY <2>1, <2>2, <2>3, <2>4, <2>5
<1> QED BY <1>2, <1>3, <1>4, <1>5

\* No two kinds of control share a name.
LEMMA Disjoint ==
  ASSUME NEW c \in Categories, NEW x
  PROVE  /\ x \in DOMAIN Switches(c) =>
               x \notin DOMAIN Choices(c) /\ c \notin {"air_conditioner", "light", "water_heater"}
         /\ x \in DOMAIN Choices(c) => c \notin {"air_conditioner", "light", "water_heater", "oven"}
         /\ c = "oven" /\ x \in DOMAIN Switches(c) => x \notin DOMAIN OvenButtons
<1>1. CASE c = "dishwasher"
  BY <1>1 DEF Switches, DishwasherSwitches, Choices, DishwasherChoices
<1>2. CASE c = "washer"
  BY <1>2 DEF Switches, WasherSwitches, Choices, WasherChoices
<1>3. CASE c = "oven"
  BY <1>3 DEF Switches, OvenSwitches, Choices, OvenButtons
<1>4. CASE c \in {"air_conditioner", "light", "water_heater"}
  BY <1>4 DEF Switches, Choices
<1> QED BY <1>1, <1>2, <1>3, <1>4 DEF Categories

\* After the echo of a write, its control shows what was wanted or nothing.
LEMMA Echo ==
  ASSUME NEW c \in Categories, NEW a \in Asks(c), NEW s
  PROVE  Shown(c, ApplyPush(s, Instruction(c, a.control, a.wanted)), a.control)
           \in {a.wanted, NoValue}
<1> DEFINE x == a.control
           w == a.wanted
           i == Instruction(c, x, w)
           t == ApplyPush(s, i)
<1>1. \A k \in DOMAIN i : k \in DOMAIN t /\ t[k] = i[k] /\ Value(t, k) = i[k]
  BY DEF ApplyPush, Value, ++
<1>2. \A code \in Int : code # NoValue
  BY NoValueAssumption
<1>3. CASE x \in DOMAIN Switches(c) /\ w \in {0, 1}
  <2> DEFINE sw == Switches(c)[x]
  <2>1. sw.on \in sw.shown /\ sw.off \notin sw.shown
    <3>1. CASE c = "dishwasher"
      BY <1>3, <3>1 DEF Switches, DishwasherSwitches, Switch
    <3>2. CASE c = "oven"
      BY <1>3, <3>2 DEF Switches, OvenSwitches, Switch
    <3>3. CASE c = "washer"
      BY <1>3, <3>3 DEF Switches, WasherSwitches, Switch
    <3> QED BY <1>3, <3>1, <3>2, <3>3 DEF Switches
  <2>2. i = Entry(x, IF w = 1 THEN sw.on ELSE sw.off)
    BY <1>3, Disjoint DEF Instruction
  <2>3. x \in DOMAIN t /\ t[x] = IF w = 1 THEN sw.on ELSE sw.off
    BY <1>1, <2>2 DEF Entry
  <2>4. Shown(c, t, x) = SwitchShown(c, t, x)
    BY <1>3, Disjoint DEF Shown
  <2> HIDE DEF t, i, x, w, sw
  <2>5. SwitchShown(c, t, x) \in {IF t[x] \in sw.shown THEN 1 ELSE 0, NoValue}
    BY <2>3 DEF SwitchShown, sw
  <2>6. (IF t[x] \in sw.shown THEN 1 ELSE 0) = w
    BY <1>3, <2>1, <2>3
  <2>7. Shown(c, t, x) \in {w, NoValue}
    BY <2>4, <2>5, <2>6
  <2> QED BY <2>7 DEF t, i, x, w
<1>4. CASE x \notin DOMAIN Switches(c) /\ x \in DOMAIN Choices(c) /\ w \in Choices(c)[x]
  <2>1. i = Entry(x, w)
    BY <1>4, Disjoint DEF Instruction
  <2>2. Value(t, x) = w
    BY <1>1, <2>1 DEF Entry
  <2>3. Shown(c, t, x) = ChoiceShown(c, t, x)
    BY <1>4, Disjoint DEF Shown
  <2> QED BY <2>2, <2>3 DEF ChoiceShown
<1>5. CASE c = "oven" /\ x \notin DOMAIN Switches(c)
  <2>1. Shown(c, t, x) = NoValue
    BY <1>5 DEF Shown, Choices
  <2> QED BY <2>1
<1>6. CASE /\ c = "air_conditioner"
           /\ \/ x = "hvac_mode" /\ w \in ClimateModes \cup {0}
              \/ x = "climate" /\ w \in {0, 1}
              \/ x = "temp"
              \/ x = "windSpeed" /\ w \in ClimateFans
  <2>1. i = ClimateInstruction(x, w) /\ Shown(c, t, x) = ClimateShown(t, x)
    BY <1>6 DEF Instruction, Shown, Switches, Choices
  <2>2. CASE x = "hvac_mode" /\ w = 0
    <3>1. i = [power |-> 0]
      BY <2>1, <2>2 DEF ClimateInstruction
    <3>2. Value(t, "power") = 0
      BY <1>1, <3>1
    <3> QED BY <2>1, <2>2, <3>2 DEF ClimateShown, HvacShown
  <2>3. CASE x = "hvac_mode" /\ w \in ClimateModes
    <3>1. w # 0
      BY <2>3 DEF ClimateModes
    <3>2. i = [power |-> 1, mode |-> w]
      BY <2>1, <2>3, <3>1 DEF ClimateInstruction
    <3>3. Value(t, "power") = 1 /\ Value(t, "mode") = w
      BY <1>1, <3>2
    <3> QED BY <2>1, <2>3, <3>3 DEF ClimateShown, HvacShown
  <2>4. CASE x = "climate" /\ w \in {0, 1}
    <3>1. i = [power |-> w]
      BY <2>1, <2>4 DEF ClimateInstruction
    <3>2. Value(t, "power") = w
      BY <1>1, <3>1
    <3>3. 0 \notin ClimateModes /\ NoValue \notin ClimateModes
      BY <1>2 DEF ClimateModes
    <3>4. w = 0 => HvacShown(t) = 0
      BY <3>2 DEF HvacShown
    <3>5. w = 1 => HvacShown(t) \in ClimateModes \cup {NoValue}
      BY <3>2 DEF HvacShown
    <3>6. ClimateShown(t, "climate") = IF HvacShown(t) \in ClimateModes THEN 1 ELSE HvacShown(t)
      BY DEF ClimateShown
    <3> QED BY <2>1, <2>4, <3>3, <3>4, <3>5, <3>6
  <2>5. CASE x \in {"temp", "windSpeed"}
    <3>1. i = Entry(x, w)
      BY <2>1, <2>5 DEF ClimateInstruction
    <3>2. Value(t, x) = w
      BY <1>1, <3>1 DEF Entry
    <3> QED BY <2>1, <2>5, <3>2 DEF ClimateShown
  <2> QED BY <1>6, <2>2, <2>3, <2>4, <2>5
<1>7. CASE /\ c = "light"
           /\ \/ x = "light" /\ w \in {0, 1}
              \/ x = "bright"
              \/ x = "kelvin" /\ \E d \in 0..Scale : w = Kelvin(d)
              \/ x = "effect" /\ w \in Effects
  <2>1. i = LightInstruction(x, w) /\ Shown(c, t, x) = LightShown(t, x)
    BY <1>7 DEF Instruction, Shown, Switches, Choices
  <2>2. CASE x = "light" /\ w \in {0, 1}
    <3>1. i = [power |-> w]
      BY <2>1, <2>2 DEF LightInstruction
    <3>2. "power" \in DOMAIN t /\ t["power"] = w
      BY <1>1, <3>1
    <3> QED BY <2>1, <2>2, <3>2 DEF LightShown
  <2>3. CASE x = "bright"
    <3>1. i = [power |-> 1, bright |-> w]
      BY <2>1, <2>3 DEF LightInstruction
    <3>2. Value(t, "bright") = w
      BY <1>1, <3>1
    <3> QED BY <2>1, <2>3, <3>2 DEF LightShown
  <2>4. CASE x = "kelvin" /\ \E d \in 0..Scale : w = Kelvin(d)
    <3>1. PICK d \in 0..Scale : w = Kelvin(d)
      BY <2>4
    <3>2. i = [power |-> 1, colorTemp |-> KelvinToDevice(w)]
      BY <2>1, <2>4 DEF LightInstruction
    <3>3. "colorTemp" \in DOMAIN t /\ t["colorTemp"] = KelvinToDevice(w)
      BY <1>1, <3>2
    <3>4. KelvinToDevice(w) = d
      BY <3>1, KelvinRounds
    <3> QED BY <2>1, <2>4, <3>1, <3>3, <3>4 DEF LightShown
  <2>5. CASE x = "effect"
    <3>1. i = [power |-> 1, mode |-> w]
      BY <2>1, <2>5 DEF LightInstruction
    <3>2. Value(t, "mode") = w
      BY <1>1, <3>1
    <3> QED BY <2>1, <2>5, <3>2 DEF LightShown
  <2> QED BY <1>7, <2>2, <2>3, <2>4, <2>5
<1>8. CASE /\ c = "water_heater"
           /\ \/ x = "temp"
              \/ x = "operation" /\ w \in DOMAIN Operations
              \/ x = "tank"
  <2>1. i = TankInstruction(x, w) /\ Shown(c, t, x) = TankShown(t, x)
    BY <1>8 DEF Instruction, Shown, Switches, Choices
  <2>2. CASE x = "temp"
    <3>1. i = Entry(x, w)
      BY <2>1, <2>2 DEF TankInstruction
    <3>2. Value(t, x) = w
      BY <1>1, <3>1 DEF Entry
    <3> QED BY <2>1, <2>2, <3>2 DEF TankShown
  <2>3. CASE x = "tank"
    BY <2>1, <2>3 DEF TankShown
  <2>4. CASE x = "operation" /\ w \in DOMAIN Operations
    <3>1. w \in {1, 2, 3}
      BY <2>4 DEF Operations, Single, Double, Smart
    <3>2. i = Operations[w]
      BY <2>1, <2>4 DEF TankInstruction
    <3>3. w = 3 => i = [cloudSmart |-> 1]
      BY <2>4, <3>2 DEF Operations, Smart
    <3>4. w \in {1, 2} => i = [cloudSmart |-> 0, bodyNum |-> w]
      BY <2>4, <3>2 DEF Operations, Smart
    <3>5. Is(t, "cloudSmart", {1}) = IF w = 3 THEN "yes" ELSE "no"
      BY <1>1, <3>1, <3>3, <3>4 DEF Is
    <3>6. w \in {1, 2} => /\ Is(t, "bodyNum", {1}) = IF w = 1 THEN "yes" ELSE "no"
                          /\ Is(t, "bodyNum", {2}) = IF w = 2 THEN "yes" ELSE "no"
      BY <1>1, <3>4 DEF Is
    <3> DEFINE f == OperationFlags(t)
    <3>7. /\ DOMAIN f = 1..3
          /\ f[1].name = 3 /\ f[2].name = 1 /\ f[3].name = 2
          /\ f[1].holds = Is(t, "cloudSmart", {1})
          /\ f[2].holds = Is(t, "bodyNum", {1}) /\ f[3].holds = Is(t, "bodyNum", {2})
      BY DEF OperationFlags, Rule, Single, Double, Smart
    <3> HIDE DEF f, i, t
    <3>8. First(f) = w
      <4>1. \A n, m \in DOMAIN f : n \in {1, 2, 3} /\ (m < n => m \in {1, 2, 3})
        BY <3>7, SMT
      <4>2. CASE w = 3
        <5>1. 1 \in DOMAIN f /\ DOMAIN f \subseteq Int /\ \A m \in DOMAIN f : ~(m < 1)
          BY <3>7, SMT
        <5>2. First(f) = f[1].name
          BY <3>5, <3>7, <4>2, <5>1, FirstAt
        <5> QED BY <3>7, <4>2, <5>2
      <4>3. CASE w = 1
        <5>1. 2 \in DOMAIN f /\ DOMAIN f \subseteq Int /\ \A m \in DOMAIN f : m < 2 => m = 1
          BY <3>7, SMT
        <5>2. f[2].holds = "yes" /\ f[1].holds # "yes"
          BY <3>5, <3>6, <3>7, <4>3
        <5>3. First(f) = f[2].name
          BY <5>1, <5>2, FirstAt
        <5> QED BY <3>7, <4>3, <5>3
      <4>4. CASE w = 2
        <5>1. 3 \in DOMAIN f /\ DOMAIN f \subseteq Int /\ \A m \in DOMAIN f : m < 3 => m \in {1, 2}
          BY <3>7, SMT
        <5>2. f[3].holds = "yes" /\ f[2].holds # "yes" /\ f[1].holds # "yes"
          BY <3>5, <3>6, <3>7, <4>4
        <5>3. First(f) = f[3].name
          BY <5>1, <5>2, FirstAt
        <5> QED BY <3>7, <4>4, <5>3
      <4> QED BY <3>1, <4>2, <4>3, <4>4
    <3>9. w # NoValue
      BY <3>1, <1>2
    <3>10. TankShown(t, "operation") = w
      BY <3>8, <3>9 DEF TankShown, f
    <3> QED BY <2>1, <2>4, <3>10 DEF t, i
  <2> QED BY <1>8, <2>2, <2>3, <2>4
<1> HIDE DEF t, i
<1>9. CASE x \in DOMAIN Switches(c) /\ w \notin {0, 1}
  BY <1>9, Disjoint, AskCases
<1> QED BY <1>3, <1>4, <1>5, <1>6, <1>7, <1>8, <1>9, AskCases DEF t, i

\* Once the cloud has taken a command, its control shows what was asked for or nothing.
THEOREM Echoed == Spec => EchoShows
<1>1. unit \in Units /\ [ComposerNext]_composerVars =>
        [\A a \in unit.asks :
            Replied(a) => Shown(unit.category, status', a.control) \in {a.wanted, NoValue}]_controlVars
  <2> SUFFICES ASSUME unit \in Units, NEW a \in unit.asks, Replied(a)
               PROVE  Shown(unit.category, status', a.control) \in {a.wanted, NoValue}
    OBVIOUS
  <2>1. unit.category \in Categories /\ a \in Asks(unit.category)
    BY UnitAssumption
  <2>2. status' = ApplyPush(status, Instruction(unit.category, a.control, a.wanted))
    BY DEF Replied
  <2> QED BY <2>1, <2>2, Echo
<1> QED BY <1>1, UnitInvariant, PTL DEF Spec, EchoShows
=============================================================================
