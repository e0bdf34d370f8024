--------------------------- MODULE Readings_proofs ---------------------------
(***************************************************************************)
(* For any appliances: what a control is refused for is shown.             *)
(***************************************************************************)
EXTENDS Composer_proofs, Readings

\* First names no rule that does not hold.
LEMMA FirstHolds ==
  ASSUME NEW rules, First(rules) # NoValue, DOMAIN rules \subseteq 1..4
  PROVE  \E i \in DOMAIN rules : rules[i].name = First(rules) /\ rules[i].holds = "yes"
<1> DEFINE holding == {i \in DOMAIN rules : rules[i].holds = "yes"}
           first == CHOOSE i \in holding : \A j \in holding : i <= j
<1>1. holding # {} /\ First(rules) = rules[first].name
  BY DEF First
<1>2. \E i \in holding : \A j \in holding : i <= j
  <2>1. \A i \in holding : i \in {1, 2, 3, 4}
    BY SMT
  <2>2. CASE 1 \in holding
    BY <2>1, <2>2, SMT
  <2>3. CASE 1 \notin holding /\ 2 \in holding
    BY <2>1, <2>3, SMT
  <2>4. CASE 1 \notin holding /\ 2 \notin holding /\ 3 \in holding
    BY <2>1, <2>4, SMT
  <2>5. CASE 1 \notin holding /\ 2 \notin holding /\ 3 \notin holding
    <3>1. holding = {4}
      BY <1>1, <2>1, <2>5
    <3> QED BY <3>1, SMT
  <2> QED BY <2>2, <2>3, <2>4, <2>5
<1>3. first \in holding
  BY <1>2
<1> QED BY <1>1, <1>3

LEMMA IsYes ==
  ASSUME NEW s, NEW k, NEW values, Is(s, k, values) = "yes"
  PROVE  k \in DOMAIN s /\ s[k] \in values
BY DEF Is

LEMMA StateIsYes ==
  ASSUME NEW m, NEW n, StateIs(m, {n}) = "yes"
  PROVE  m = n
BY DEF StateIs

\* A reason told is that of a rule of the guard that holds, or of a block of the control.
LEMMA Told ==
  ASSUME NEW c \in Categories, NEW s, NEW k \in DOMAIN Switches(c),
         CheckWritable(c, s, k) # NoValue, DOMAIN Guard(c, s, Machine(c, s)) \subseteq 1..4
  PROVE  \/ \E i \in DOMAIN Guard(c, s, Machine(c, s)) :
                LET rule == Guard(c, s, Machine(c, s))[i]
                IN  rule.name = CheckWritable(c, s, k) /\ rule.holds = "yes"
         \/ OwnBlocks(c, s, k) # <<>> /\ CheckWritable(c, s, k) = First(OwnBlocks(c, s, k))
<1> DEFINE guard == Guard(c, s, Machine(c, s))
           judged == [i \in DOMAIN guard |->
                        IF guard[i].name \in Switches(c)[k].exempt
                        THEN Rule(guard[i].name, "no") ELSE guard[i]]
<1>1. CheckWritable(c, s, k)
        = IF First(judged) # NoValue THEN First(judged) ELSE First(OwnBlocks(c, s, k))
  BY DEF CheckWritable
<1>2. CASE First(judged) # NoValue
  <2>1. PICK i \in DOMAIN guard : judged[i].name = First(judged) /\ judged[i].holds = "yes"
    BY <1>2, FirstHolds
  <2>2. judged[i] = guard[i]
    BY <2>1 DEF Rule
  <2> QED BY <1>1, <1>2, <2>1, <2>2
<1>3. CASE First(judged) = NoValue
  <2>1. First(<<>>) = NoValue
    BY FirstNone
  <2> QED BY <1>1, <1>3, <2>1
<1> QED BY <1>2, <1>3

\* The sensors of the fault and of the oven's status have no gate.
LEMMA Ungated ==
  /\ \A s : Meaningful("dishwasher", s, "faultCode") /\ Meaningful("dishwasher", s, "power")
  /\ \A s : Meaningful("oven", s, "faultCode") /\ Meaningful("oven", s, "devstatus")
              /\ Meaningful("oven", s, "childLock")
  /\ \A s : Meaningful("washer", s, "faultCode") /\ Meaningful("washer", s, "runState")
              /\ Meaningful("washer", s, "power")
BY DEF Meaningful, Gated, DishwasherReadings, OvenReadings, WasherReadings

LEMMA DishwasherTold ==
  ASSUME NEW s, NEW k \in DOMAIN Switches("dishwasher"),
         CheckWritable("dishwasher", s, k) # NoValue
  PROVE  ReasonIsShown("dishwasher", s, CheckWritable("dishwasher", s, k))
<1> DEFINE c == "dishwasher"
           m == Machine(c, s)
           g == DishwasherGuard(s, m)
           reason == CheckWritable(c, s, k)
<1>1. Guard(c, s, m) = g /\ OwnBlocks(c, s, k) = <<>> /\ c \in Categories
  BY DEF Guard, OwnBlocks, Categories
<1>2. DOMAIN g = 1..4
  BY DEF DishwasherGuard
<1>3. PICK i \in 1..4 : g[i].name = reason /\ g[i].holds = "yes"
  BY <1>1, <1>2, Told
<1>4. CASE i = 1
  <2>1. reason = "appliance_off" /\ StateIs(m, {"power_off"}) = "yes"
    BY <1>3, <1>4 DEF DishwasherGuard, Rule
  <2>2. Is(s, "power", {0}) = "yes"
    BY <2>1, StateIsYes, DishwasherMachine, NamesAssumption DEF States
  <2>3. SwitchShown(c, s, "power") = 0
    BY <2>2, IsYes, Ungated DEF SwitchShown, Switches, DishwasherSwitches, Switch
  <2> QED BY <2>1, <2>3 DEF ReasonIsShown, OffIsShown
<1>5. CASE i = 2
  <2>1. reason = "appliance_fault" /\ StateIs(m, {"fault"}) = "yes"
    BY <1>3, <1>5 DEF DishwasherGuard, Rule
  <2>2. Faulted(s, DishwasherFaults) = "yes"
    BY <2>1, StateIsYes, DishwasherMachine, NamesAssumption DEF States
  <2>3. "faultCode" \in DOMAIN s /\ s["faultCode"] \in DishwasherFaults \ {0}
    BY <2>2, IsYes DEF Faulted
  <2>4. SensorShown(c, s, "faultCode") = s["faultCode"]
    BY <2>3, Ungated DEF SensorShown, Labelled, Value
  <2> QED BY <2>1, <2>3, <2>4, NoValueAssumption DEF ReasonIsShown, FaultIsShown, DishwasherFaults
<1>6. CASE i = 3
  <2>1. reason = "door_open" /\ Is(s, "doorstatus", {0}) = "yes"
    BY <1>3, <1>6 DEF DishwasherGuard, Rule
  <2>2. FlagShown(c, s, "door") = 1
    BY <2>1, IsYes DEF FlagShown, Flags, DishwasherFlags, Flag
  <2> QED BY <2>1, <2>2 DEF ReasonIsShown
<1>7. CASE i = 4
  <2>1. reason = "child_lock"
    BY <1>3, <1>7 DEF DishwasherGuard, Rule
  <2> QED BY <2>1 DEF ReasonIsShown
<1> QED BY <1>4, <1>5, <1>6, <1>7, SMT

LEMMA OvenTold ==
  ASSUME NEW s, NEW k \in DOMAIN Switches("oven"), CheckWritable("oven", s, k) # NoValue
  PROVE  ReasonIsShown("oven", s, CheckWritable("oven", s, k))
<1> DEFINE c == "oven"
           m == Machine(c, s)
           g == OvenGuard(s, m)
           reason == CheckWritable(c, s, k)
<1>1. Guard(c, s, m) = g /\ c \in Categories
  BY DEF Guard, Categories
<1>2. DOMAIN g = 1..3
  BY DEF OvenGuard
<1>3. ASSUME NEW i \in 1..3, g[i].name = reason, g[i].holds = "yes"
      PROVE  ReasonIsShown(c, s, reason)
  <2>1. CASE i = 1
    <3>1. reason = "appliance_off" /\ StateIs(m, {"off"}) = "yes"
      BY <1>3, <2>1 DEF OvenGuard, Rule
    <3>2. Is(s, "devstatus", {1}) = "yes"
      BY <3>1, StateIsYes, OvenMachine, NamesAssumption DEF States
    <3>3. Value(s, "devstatus") = 1
      BY <3>2, IsYes DEF Value
    <3>4. OvenStatus(s) = 1
      BY <3>3, SMT DEF OvenStatus
    <3>5. SensorShown(c, s, "devstatus") = 1
      BY <3>4, Ungated DEF SensorShown
    <3> QED BY <3>1, <3>5 DEF ReasonIsShown, OffIsShown
  <2>2. CASE i = 2
    <3>1. reason = "appliance_fault" /\ StateIs(m, {"fault"}) = "yes"
      BY <1>3, <2>2 DEF OvenGuard, Rule
    <3>2. Faulted(s, OvenFaults) = "yes"
      BY <3>1, StateIsYes, OvenMachine, NamesAssumption DEF States
    <3>3. "faultCode" \in DOMAIN s /\ s["faultCode"] \in OvenFaults \ {0}
      BY <3>2, IsYes DEF Faulted
    <3>4. SensorShown(c, s, "faultCode") = s["faultCode"]
      BY <3>3, Ungated DEF SensorShown, Labelled, Value
    <3> QED BY <3>1, <3>3, <3>4, NoValueAssumption DEF ReasonIsShown, FaultIsShown, OvenFaults
  <2>3. CASE i = 3
    <3>1. reason = "child_lock" /\ Is(s, "childLock", {1}) = "yes"
      BY <1>3, <2>3 DEF OvenGuard, Rule
    <3>2. SwitchShown(c, s, "childLock") = 1
      BY <3>1, IsYes, Ungated DEF SwitchShown, Switches, OvenSwitches, Switch
    <3> QED BY <3>1, <3>2 DEF ReasonIsShown
  <2> QED BY <2>1, <2>2, <2>3, SMT
<1>4. ASSUME OwnBlocks(c, s, k) # <<>>, reason = First(OwnBlocks(c, s, k))
      PROVE  ReasonIsShown(c, s, reason)
  <2> DEFINE blocks == << Rule("door_open", Is(s, "doorStatus", {1})) >>
  <2>1. OwnBlocks(c, s, k) = blocks
    BY <1>4 DEF OwnBlocks
  <2>2. DOMAIN blocks = {1} /\ blocks[1].name = "door_open"
        /\ blocks[1].holds = Is(s, "doorStatus", {1})
    BY DEF Rule
  <2>3. reason = "door_open" /\ Is(s, "doorStatus", {1}) = "yes"
    <3> HIDE DEF blocks
    <3>1. \E i \in DOMAIN blocks : blocks[i].name = reason /\ blocks[i].holds = "yes"
      BY <1>4, <2>1, <2>2, FirstHolds, SMT
    <3> QED BY <2>2, <3>1
  <2>4. FlagShown(c, s, "door") = 1
    BY <2>3, IsYes DEF FlagShown, Flags, OvenFlags, Flag
  <2> QED BY <2>3, <2>4 DEF ReasonIsShown
<1> QED BY <1>1, <1>2, <1>3, <1>4, Told

LEMMA WasherTold ==
  ASSUME NEW s, NEW k \in DOMAIN Switches("washer"), CheckWritable("washer", s, k) # NoValue
  PROVE  ReasonIsShown("washer", s, CheckWritable("washer", s, k))
<1> DEFINE c == "washer"
           m == Machine(c, s)
           g == WasherGuard(s, m)
           reason == CheckWritable(c, s, k)
<1>1. Guard(c, s, m) = g /\ OwnBlocks(c, s, k) = <<>> /\ c \in Categories
  BY DEF Guard, OwnBlocks, Categories
<1>2. DOMAIN g = 1..3
  BY DEF WasherGuard
<1>3. PICK i \in 1..3 : g[i].name = reason /\ g[i].holds = "yes"
  BY <1>1, <1>2, Told
<1>4. CASE i = 1
  <2>1. reason = "appliance_off" /\ StateIs(m, {"power_off"}) = "yes"
    BY <1>3, <1>4 DEF WasherGuard, Rule
  <2>2. AnyOf(Is(s, "power", {0}), Is(s, "runState", {0})) = "yes"
    BY <2>1, StateIsYes, WasherMachine, NamesAssumption DEF States
  <2>3. Is(s, "power", {0}) = "yes" \/ Is(s, "runState", {0}) = "yes"
    BY <2>2 DEF AnyOf
  <2>4. CASE Is(s, "power", {0}) = "yes"
    <3>1. SwitchShown(c, s, "power") = 0
      BY <2>4, IsYes, Ungated DEF SwitchShown, Switches, WasherSwitches, Switch
    <3> QED BY <2>1, <3>1 DEF ReasonIsShown, OffIsShown
  <2>5. CASE Is(s, "runState", {0}) = "yes"
    <3>1. "runState" \in DOMAIN s /\ s["runState"] = 0
      BY <2>5, IsYes
    <3>2. SensorShown(c, s, "runState") = 0
      BY <3>1, Ungated, SMT DEF SensorShown, Labelled, Value
    <3> QED BY <2>1, <3>2 DEF ReasonIsShown, OffIsShown
  <2> QED BY <2>3, <2>4, <2>5
<1>5. CASE i = 2
  <2>1. reason = "appliance_fault" /\ StateIs(m, {"fault"}) = "yes"
    BY <1>3, <1>5 DEF WasherGuard, Rule
  <2>2. AnyOf(Is(s, "runState", {5}), Faulted(s, WasherFaults)) = "yes"
    BY <2>1, StateIsYes, WasherMachine, NamesAssumption DEF States
  <2>3. Is(s, "runState", {5}) = "yes" \/ Faulted(s, WasherFaults) = "yes"
    BY <2>2 DEF AnyOf
  <2>4. CASE Is(s, "runState", {5}) = "yes"
    <3>1. "runState" \in DOMAIN s /\ s["runState"] = 5
      BY <2>4, IsYes
    <3>2. SensorShown(c, s, "runState") = 5
      BY <3>1, Ungated, SMT DEF SensorShown, Labelled, Value
    <3> QED BY <2>1, <3>2 DEF ReasonIsShown, FaultIsShown
  <2>5. CASE Faulted(s, WasherFaults) = "yes"
    <3>1. "faultCode" \in DOMAIN s /\ s["faultCode"] \in WasherFaults \ {0}
      BY <2>5, IsYes DEF Faulted
    <3>2. SensorShown(c, s, "faultCode") = s["faultCode"]
      BY <3>1, Ungated DEF SensorShown, Labelled, Value
    <3> QED BY <2>1, <3>1, <3>2, NoValueAssumption DEF ReasonIsShown, FaultIsShown, WasherFaults
  <2> QED BY <2>3, <2>4, <2>5
<1>6. CASE i = 3
  <2>1. reason = "child_lock"
    BY <1>3, <1>6 DEF WasherGuard, Rule
  <2> QED BY <2>1 DEF ReasonIsShown
<1> QED BY <1>4, <1>5, <1>6, SMT

\* What a control is refused for is shown on the page of the appliance, for every status of
\* every category.
THEOREM ReasonsAreShown == Spec => []RefusalsShown
<1>1. unit \in Units => RefusalsShown
  <2> SUFFICES ASSUME unit \in Units, NEW k \in DOMAIN Switches(unit.category),
                      CheckWritable(unit.category, status, k) # NoValue
               PROVE  ReasonIsShown(unit.category, status, CheckWritable(unit.category, status, k))
    BY DEF RefusalsShown
  <2>1. unit.category \in Categories
    BY UnitAssumption
  <2>2. unit.category \in {"dishwasher", "oven", "washer"}
    BY <2>1 DEF Switches, Categories
  <2> QED BY <2>2, DishwasherTold, OvenTold, WasherTold
<1>2. QED BY <1>1, UnitInvariant, PTL
=============================================================================
