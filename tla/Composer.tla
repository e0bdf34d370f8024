------------------------------- MODULE Composer -------------------------------
(***************************************************************************)
(* The dishwasher and the oven are started by one whole instruction.  The  *)
(* controls of dishwasher.py and oven.py stage their values in the draft   *)
(* the coordinator keeps for the appliance; Start composes the instruction *)
(* from the draft and, where nothing is staged, from the status, and an    *)
(* accepted Start drops the draft.  A staged time is in minutes, a         *)
(* reported one in seconds.                                                *)
(***************************************************************************)
EXTENDS Controls

\* A unit further has the values a person considers for each staged control and what its
\* profile says: the dishwasher's programmes and extras, whether it has zones, a probe, a
\* pre-heat, and whether it carries the oven's exclusion lists.
ASSUME ComposerAssumption ==
    \A u \in Units :
        /\ \A k \in DOMAIN u.values : u.values[k] \subseteq Int
        /\ u.programmes \subseteq DishwasherPrograms /\ u.extras \subseteq DishwasherExtras
        /\ {u.zoned, u.probe, u.preheat, u.lists} \subseteq BOOLEAN
        /\ u.category = "oven" =>
               /\ "cookTime" \in DOMAIN u.codes => u.codes["cookTime"] \subseteq Nat
               /\ "preHeat" \in DOMAIN u.codes => u.codes["preHeat"] \subseteq {0, 1}
        /\ u.category = "dishwasher" =>
               /\ DOMAIN u.values \subseteq DOMAIN u.codes
               /\ \A k \in DOMAIN u.values : u.values[k] \subseteq u.codes[k]
        /\ u.category = "dishwasher" /\ "modeEU" \in DOMAIN u.codes =>
               /\ {"power", "addFuncEU"} \subseteq DOMAIN u.codes
               /\ StartCode \in u.codes["power"] /\ NoExtra \in u.codes["addFuncEU"]
               /\ u.zoned => "washArea" \in DOMAIN u.codes /\ BothZones \in u.codes["washArea"]

VARIABLES
    draft,  \* HolabrainCoordinator.drafts of the appliance
    start,  \* the instruction of the Start that is awaited, or NoValue
    late    \* history: the controls staged since that Start was pressed

composerVars == <<controlVars, draft, start, late>>

-----------------------------------------------------------------------------
(* What is being composed. *)

\* _staged_or_reported, _staged_int: staged, else reported, else a default.
Composing(k) == IF k \in DOMAIN draft THEN draft[k] ELSE Value(status, k)

Or(value, default) == IF value = NoValue THEN default ELSE value

\* _program, _temp_allowed, _preheat_allowed: the lists of the profile win when it has them.
NonDegree  == {41984}
NonPreheat == {41472, 41984, 22528, 24064}

HasProgram == Composing("cookMode") \in {p.code : p \in OvenPrograms}
Program    == CHOOSE p \in OvenPrograms : p.code = Composing("cookMode")

TempAllowed ==
    HasProgram /\ IF unit.lists THEN Program.code \notin NonDegree ELSE Program.temp

PreheatAllowed ==
    HasProgram /\ IF unit.lists THEN Program.code \notin NonPreheat ELSE Program.preheat

\* _minutes: staged in minutes, reported in seconds.
DurationMinutes ==
    IF "cookTime" \in DOMAIN draft THEN draft["cookTime"]
    ELSE IF "cookTime" \in DOMAIN status THEN status["cookTime"] \div 60 ELSE 30

\* The controls there are for a unit, and the values each takes now.
WashControls ==
    [modeEU |-> unit.programmes]
      ++ (IF unit.extras = {} THEN <<>> ELSE [addFuncEU |-> unit.extras \cup {NoExtra}])
      ++ (IF unit.zoned THEN [washArea |-> DishwasherZones] ELSE <<>>)

CookControls ==
    [cookMode  |-> {p.code : p \in OvenPrograms},
     upperTemp |-> IF TempAllowed THEN Program.min .. Program.max ELSE {},
     cookTime  |-> 0 .. IF HasProgram THEN Program.minutes ELSE 300]
      ++ (IF unit.probe THEN [probeTemp |-> IF TempAllowed THEN 30..100 ELSE {}] ELSE <<>>)
      ++ (IF unit.preheat THEN [preHeat |-> IF PreheatAllowed THEN {0, 1} ELSE {}] ELSE <<>>)

Composed ==
    CASE unit.category = "dishwasher" -> WashControls
      [] unit.category = "oven"       -> CookControls
      [] OTHER                        -> <<>>

\* What the control k of the composer shows; an unavailable one shows nothing.
CookShows(k) ==
    CASE k = "cookTime"  -> DurationMinutes
      [] k = "upperTemp" -> IF TempAllowed THEN Or(Composing(k), Program.default) ELSE NoValue
      [] k = "probeTemp" -> IF TempAllowed THEN Or(Composing(k), 75) ELSE NoValue
      [] k = "preHeat"   -> IF PreheatAllowed THEN Composing(k) ELSE NoValue
      [] OTHER           -> IF HasProgram THEN Composing(k) ELSE NoValue

ComposerShows(k) ==
    IF unit.category = "oven" THEN CookShows(k)
    ELSE IF Composing(k) \in WashControls[k] THEN Composing(k) ELSE NoValue

-----------------------------------------------------------------------------
(* The instruction of Start. *)

\* build_start_instruction: without zones the key is left out.
WashInstruction ==
    [modeEU |-> Composing("modeEU"), power |-> StartCode,
     addFuncEU |-> Or(Composing("addFuncEU"), NoExtra)]
      ++ (IF unit.zoned THEN [washArea |-> Or(Composing("washArea"), BothZones)] ELSE <<>>)

\* A reported 0 counts as nothing reported.
CookTempStaged == IF "upperTemp" \in DOMAIN draft THEN draft["upperTemp"] ELSE Program.default

CookTemp ==
    IF Composing("upperTemp") \in {NoValue, 0} THEN Program.default ELSE Composing("upperTemp")

\* build_cook_instruction: the one step of the menu.
CookInstruction ==
    [cookMode |-> Program.code,
     cookTime |-> 60 * IF DurationMinutes < 0 THEN 0 ELSE DurationMinutes,
     preHeat  |-> IF Composing("preHeat") = 1 /\ PreheatAllowed THEN 1 ELSE 0]
      ++ (IF TempAllowed
          THEN [upperTemp |-> CookTemp, lowerTemp |-> CookTemp,
                probeTemp |-> Or(Composing("probeTemp"), CookTemp)]
          ELSE <<>>)

StartInstruction ==
    IF unit.category = "oven" THEN CookInstruction ELSE WashInstruction

\* The value of a staged control in an instruction, in the unit of the control.
Carried(instruction, k) ==
    IF k = "cookTime" THEN instruction[k] \div 60 ELSE instruction[k]

\* no_program, door_open, no_cook_mode: the reasons a Start is refused for.
StartRefused ==
    IF unit.category = "oven" THEN ~HasProgram
    ELSE Composing("modeEU") = NoValue \/ Value(status, "doorstatus") = 0

-----------------------------------------------------------------------------
ComposerInit == ControlInit /\ draft = <<>> /\ start = NoValue /\ late = {}

\* Choosing a programme that takes a temperature also stages its default.
StagedAlone(k, w) == Entry(k, w)

Staged(k, w) ==
    Entry(k, w)
      ++ (IF k = "cookMode" /\ \E p \in OvenPrograms : p.code = w /\ p.temp
          THEN [upperTemp |-> (CHOOSE p \in OvenPrograms : p.code = w).default]
          ELSE <<>>)

Stage(k, w) ==
    /\ k \in DOMAIN Composed /\ w \in Composed[k] \cap unit.values[k]
    /\ draft' = Staged(k, w) ++ draft
    /\ late' = IF start = NoValue THEN {} ELSE late \cup DOMAIN Staged(k, w)
    /\ UNCHANGED <<controlVars, start>>

\* async_press.  Bound: one Start is awaited at a time.
Press ==
    /\ unit.category \in {"dishwasher", "oven"} /\ start = NoValue
    /\ ~StartRefused
    /\ start' = StartInstruction
    /\ UNCHANGED <<controlVars, draft, late>>

\* The flat instruction is echoed into the status, the structured one is not.
StartRepliedEchoing ==
    /\ start # NoValue
    /\ status' = ApplyPush(status, start)
    /\ draft' = <<>> /\ start' = NoValue /\ late' = {}
    /\ UNCHANGED <<unit, sent>>

StartReplied ==
    /\ start # NoValue
    /\ status' = IF unit.category = "oven" THEN status ELSE ApplyPush(status, start)
    /\ draft' = <<>> /\ start' = NoValue /\ late' = {}
    /\ UNCHANGED <<unit, sent>>

StartFailedDropping == start # NoValue /\ draft' = <<>> /\ start' = NoValue /\ late' = {}
                         /\ UNCHANGED controlVars

StartFailed ==
    /\ start # NoValue
    /\ start' = NoValue /\ late' = {}
    /\ UNCHANGED <<controlVars, draft>>

\* The entry is set up again with a new coordinator; nothing in flight reaches it.
Reload ==
    /\ status' \in unit.answers
    /\ sent' = {} /\ draft' = <<>> /\ start' = NoValue /\ late' = {}
    /\ UNCHANGED unit

ComposerNext ==
    \/ ControlNext /\ UNCHANGED <<draft, start, late>>
    \/ \E k \in DOMAIN unit.values : \E w \in unit.values[k] : Stage(k, w)
    \/ Press \/ StartReplied \/ StartFailed \/ Reload

Spec == ComposerInit /\ [][ComposerNext]_composerVars

-----------------------------------------------------------------------------
(* Properties. *)

\* The status holds only codes of the appliance, the writes in flight are writes a person
\* can make, and the draft holds only what its controls take.
TypeOK ==
    /\ unit \in Units /\ IsStatus(status, unit.codes)
    /\ sent \subseteq unit.asks /\ Cardinality(sent) <= MaxSent
    /\ \A k \in DOMAIN draft : draft[k] \in Int
    /\ late \subseteq DOMAIN draft
    /\ start = NoValue => late = {}

\* A programme chosen in Home Assistant is started with a temperature in its range, from
\* whatever programme and temperature the person came and whatever the panel changes
\* meanwhile ("start from a setpoint that is always in range", oven.py).
ComposedInRange ==
    unit.category = "oven" /\ "cookMode" \in DOMAIN draft /\ TempAllowed =>
        CookTemp \in Program.min .. Program.max

\* Start sends what the controls show, in the appliance's units (the oven's test
\* "start_resubmits_exactly_what_the_controls_show").  Two exceptions are the code's: a
\* probe target nobody set is shown as 75 and sent as the temperature, and a reported
\* temperature of 0 is sent as the default of the programme.
ShownIsSent ==
    ~StartRefused =>
        \A k \in DOMAIN Composed :
            \/ ComposerShows(k) = NoValue
            \/ k = "probeTemp" /\ Composing(k) = NoValue
            \/ k = "upperTemp" /\ Composing(k) = 0
            \/ Carried(StartInstruction, k) = ComposerShows(k)

\* A choice leaves the draft with a reload, or with an accepted Start that carried it, or
\* because it was made while that Start was awaited, or because the programme started does
\* not take it.
Forgotten(k) ==
    \/ k \in late
    \/ k \notin DOMAIN start
    \/ k = "preHeat" /\ start[k] = 0
    \/ Carried(start, k) = draft[k]

ChoicesSurvive ==
    [][\A k \in DOMAIN draft \ DOMAIN draft' :
            Reload \/ (StartReplied /\ Forgotten(k))]_composerVars
=============================================================================
