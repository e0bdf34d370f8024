------------------------------ MODULE Conditions ------------------------------
(***************************************************************************)
(* The conditions of conditions.py over the status of one appliance.  A    *)
(* condition holds, does not hold, or cannot be decided, because the       *)
(* appliance has not reported a key it reads.                              *)
(*                                                                         *)
(* A status maps the keys reported so far to codes.  The cloud spells      *)
(* every code as a string; here it is the number spelt.                    *)
(***************************************************************************)
EXTENDS Integers, Sequences

CONSTANT NoValue  \* what is not reported, or not decided

ASSUME NoValueAssumption == NoValue \notin Int

Verdicts == {"yes", "no", "unknown"}

\* DeviceState.get
Value(s, k) == IF k \in DOMAIN s THEN s[k] ELSE NoValue

\* A dict of one entry, and one dict laid over another.
Entry(k, v) == [x \in {k} |-> v]

a ++ b == [x \in DOMAIN a \cup DOMAIN b |-> IF x \in DOMAIN a THEN a[x] ELSE b[x]]

\* Is: `key' holds one of `values'.
Is(s, k, values) ==
    IF k \in DOMAIN s
    THEN IF s[k] \in values THEN "yes" ELSE "no"
    ELSE "unknown"

Not(v) ==
    CASE v = "yes" -> "no"
      [] v = "no" -> "yes"
      [] OTHER -> "unknown"

\* AllOf and AnyOf, of two conditions: Kleene's connectives.
AllOf(v, w) ==
    IF "no" \in {v, w} THEN "no" ELSE IF "unknown" \in {v, w} THEN "unknown" ELSE "yes"

AnyOf(v, w) ==
    IF "yes" \in {v, w} THEN "yes" ELSE IF "unknown" \in {v, w} THEN "unknown" ELSE "no"

\* holds_or
HoldsOr(v, default) == IF v = "unknown" THEN default ELSE v = "yes"

\* StateRule and Block: an outcome and the verdict on its condition.
Rule(name, v) == [name |-> name, holds |-> v]

\* resolve_state, and the loop of _check_writable: the first rule that definitely holds.
First(rules) ==
    LET holding == {i \in DOMAIN rules : rules[i].holds = "yes"}
    IN  IF holding = {} THEN NoValue
        ELSE rules[CHOOSE i \in holding : \A j \in holding : i <= j].name

\* StateIs, of the state the machine of the category is in.
StateIsDefinite(m, names) == IF m \in names THEN "yes" ELSE "no"

StateIs(m, names) ==
    IF m = NoValue THEN "unknown" ELSE IF m \in names THEN "yes" ELSE "no"
=============================================================================
